--------------------------- MODULE UserProgramsProofs ---------------------------
(***************************************************************************)
(* Proofs about UserPrograms: for every number of threads, every length of *)
(* the message queues and every sequence of commands, a thread finds its   *)
(* registers as it left them, and a program reads the arguments that were  *)
(* typed with its own command.                                             *)
(*                                                                         *)
(* First what every operation does to the running thread and to the others *)
(* is brought into one form: a thread stays as it is, is woken, ends, or   *)
(* moves on from its instruction (UserStepIs).  The invariant then says    *)
(* where a thread can be and who waits for whom: while a thread has still  *)
(* to read argArray the shell waits for its message, so that nobody can    *)
(* write to argArray; and while a program has still to read the copy on    *)
(* the stack of its setupThread, that thread waits for it.  Nothing else   *)
(* can end this waiting, because nobody else's message is in the waiting   *)
(* thread's way, and because no message was sent by a thread that has only *)
(* begun.                                                                  *)
(***************************************************************************)
EXTENDS UserPrograms, SequenceTheorems, WellFoundedInduction, NaturalsInduction, TLAPS

\* A program counter.
Counter(pc) == pc = <<pc[1], pc[2]>> /\ pc[2] \in Nat

\* A program counter is a block and a place in it.
LEMMA Counters ==
    /\ \A b : \A n \in Nat : Counter(<<b, n>>)
    /\ \A pc : Counter(pc) => pc[2] \in Nat /\ pc = <<pc[1], pc[2]>>
BY DEF Counter

\* The blocks of the tables.
LEMMA Blocks ==
    /\ DOMAIN ShellCode = {"main", "start", "exit"}
    /\ DOMAIN KillCode = {"kill"}
    /\ DOMAIN listThreads = {"ps"}
    /\ DOMAIN Background = {"background"}
    /\ DOMAIN setupThread = {"setupThread"}
    /\ DOMAIN Demos = {"Testback1", "trap"}
    /\ DOMAIN Hello = {"Hello"}
    /\ DOMAIN test_timer = {"test_timer"}
    /\ DOMAIN ThreadsDemo = {"Demo", "Child"}
    /\ DOMAIN Reservation = {"Start_Reservation", "Res_Thread"}
    /\ DOMAIN crashMeMaster = {"crashMeMaster"}
    /\ DOMAIN SyscallTest = {"crashMeSyscallTest", "childSyscallTest"}
    /\ DOMAIN dummyThread = {"dummyThread"}
    /\ DOMAIN StressTest = {"stressTest", "recThread"}
    /\ DOMAIN MemoryTest = {"memoryTestAll", "tryMemory", "empty"}
    /\ DOMAIN TrapTest = {"trapTest", "trapper"}
BY DEF ShellCode, KillCode, listThreads, Background, setupThread, Demos, Hello, test_timer,
   ThreadsDemo, Reservation, crashMeMaster, SyscallTest, dummyThread, StressTest, MemoryTest, TrapTest

\* No block is in two tables.
LEMMA TableIs ==
    ASSUME NEW table \in Tables, NEW block \in DOMAIN table
    PROVE  block \in DOMAIN Code /\ Code[block] = table[block]
<1>1. \A other \in Tables : block \in DOMAIN other => other = table
  BY Blocks DEF Tables
<1> QED BY <1>1 DEF TableOf, Code

\* The blocks that there are.
LEMMA CodeDomain ==
    DOMAIN Code = {"main", "start", "exit", "kill", "ps", "background", "setupThread",
       "Testback1", "trap", "Hello", "test_timer", "Demo", "Child", "Start_Reservation",
       "Res_Thread", "crashMeMaster", "crashMeSyscallTest", "childSyscallTest",
       "dummyThread", "stressTest", "recThread", "memoryTestAll", "tryMemory", "empty",
       "trapTest", "trapper"}
BY Blocks DEF Code, Tables

\* The instruction at a place of a block, and the end of the program behind it.
LEMMA At ==
    ASSUME NEW table \in Tables, NEW block \in DOMAIN table,
           NEW pc, Counter(pc), pc[1] = block
    PROVE  InstructionAt(pc) = IF pc[2] \in DOMAIN table[block] THEN table[block][pc[2]]
                               ELSE Do("exit")
BY TableIs DEF InstructionAt

-----------------------------------------------------------------------------
(* The invariant *)

\* The blocks of the shell.
ShellBlocks == {"main", "start", "exit", "kill", "ps", "background"}
\* The blocks in which it starts a thread and waits for its message.
Waiters == {"start", "background"}

\* In none of these a message is sent.
QuietBlocks == Programs \cup {"crashMeSyscallTest", "stressTest", "memoryTestAll",
                              "trapTest", "return"}

\* The registers.
Context(c) ==
    /\ c = [pc |-> c.pc, a0 |-> c.a0, v0 |-> c.v0, x |-> c.x, y |-> c.y, sr |-> c.sr]
    /\ Counter(c.pc)

\* The fields of the kernel's state, and the functions in them.
Kernel(s) ==
    /\ s = [ cpu |-> s.cpu, running |-> s.running, context |-> s.context,
             status |-> s.status, queue |-> s.queue, from |-> s.from,
             parent |-> s.parent, nextId |-> s.nextId ]
    /\ s.context = [t \in Thread |-> s.context[t]]
    /\ s.status = [t \in UserThread |-> s.status[t]]
    /\ s.queue = [t \in UserThread |-> s.queue[t]]
    /\ s.from = [t \in UserThread |-> s.from[t]]
    /\ s.parent = [t \in UserThread |-> s.parent[t]]
    /\ \A t \in Thread : Context(s.context[t])
    /\ s.running \in Thread
    /\ Context(s.cpu)

\* The global variables.
Variables(m) ==
    /\ m = [ argArray |-> m.argArray, localArgArray |-> m.localArgArray,
             seats |-> m.seats, reisebuero |-> m.reisebuero ]
    /\ m.localArgArray = [t \in UserThread |-> m.localArgArray[t]]

\* What a register holds that names a thread: one, or nothing yet.
Nobody == UserThread \cup {NULL}

\* The registers of a thread, its block and its place in it.
Reg(t) == RegistersOf(k, t)
Block(t) == Reg(t).pc[1]
Place(t) == Reg(t).pc[2]
Lives(t) == Alive(k, t)

\* The shape of the state.  Threads are numbered in the order of their births.
Shape ==
    /\ Kernel(k)
    /\ k.running # Idle => k.status[k.running] = "READY"
    /\ k.nextId \in 2 .. MaxThreads + 1
    /\ \A t \in UserThread :
          /\ t >= k.nextId => k.status[t] = "UNUSED" /\ k.queue[t] = << >>
          /\ k.queue[t] \in Seq(1 .. k.nextId - 1)
    /\ Variables(mem)
    /\ job = [t \in UserThread |-> job[t]]
    /\ script \in Seq(Commands)

\* Where the programs are, and what is in their registers.
Own(t) ==
    /\ t = 1 <=> Block(t) \in ShellBlocks
    /\ t # 1 => k.parent[t] \in 1 .. t - 1
    /\ Block(t) \in Waiters => Reg(t).y \in Programs
    /\ Block(t) # "Res_Thread" => Reg(t).x \in Nobody
    /\ Block(t) = "Start_Reservation" /\ Place(t) <= 6 => Reg(t).y \in Nobody
    /\ Block(t) = "setupThread" => k.parent[t] = 1 /\ Reg(t).a0[2] \in Programs

Located == \A t \in UserThread : Lives(t) => Own(t)

\* It has not sent the message that its parent waits for.
Unsent(t) ==
    \/ Block(t) = "Testback1"
    \/ Block(t) = "setupThread" /\ Place(t) <= 5

\* Whoever could send to a setupThread sends nothing, its queue is empty, and who
\* has not sent is in no queue.
Silence ==
    \A t \in UserThread : Lives(t) =>
        /\ t # 1 /\ Lives(k.parent[t]) /\ Block(k.parent[t]) = "setupThread" =>
              Block(t) \in QuietBlocks
        /\ Block(t) = "setupThread" => k.queue[t] = << >>
        /\ Unsent(t) => \A u \in UserThread : \A i \in 1 .. Len(k.queue[u]) : k.queue[u][i] # t

\* The shell has started t and has not got its message.
ShellWaits(t) ==
    /\ Block(1) \in Waiters
    /\ Reg(1).x = t
    /\ \/ Place(1) = 3 /\ k.status[1] = "READY" /\ Reg(1).v0 = "OK"
       \/ Place(1) = 4 /\ k.status[1] = "READY"
       \/ Place(1) = 5 /\ k.status[1] = "BLOCKED" /\ k.from[1] = t

\* The same for setupThread.
SetupWaits(s, t) ==
    /\ Block(s) = "setupThread"
    /\ Reg(s).x = t
    /\ \/ Place(s) = 4 /\ k.status[s] = "READY" /\ Reg(s).v0 = "OK"
       \/ Place(s) \in {5, 6} /\ k.status[s] = "READY"
       \/ Place(s) = 7 /\ k.status[s] = "BLOCKED" /\ k.from[s] = t

\* It has still to read argArray.
ReadsShared(t) ==
    \/ Block(t) = "Testback1" /\ Place(t) <= 2 /\ Reg(t).a0 = <<"argArray">>
    \/ Block(t) = "setupThread" /\ Place(t) <= 2

\* It has still to read the stack of its setupThread.
ReadsStack(t) == Block(t) = "Testback1" /\ Place(t) <= 2 /\ Reg(t).a0 # <<"argArray">>

\* getArguments comes before the start.
Prepared == Lives(1) /\ Block(1) \in Waiters /\ Place(1) = 2 => mem.argArray = typed

\* What has been read, and what is still to be read, are the arguments of the
\* thread's own command; and who wrote them waits until they are read.
Arguments ==
    \A t \in UserThread : Lives(t) =>
        /\ ReadsShared(t) => job[t] = mem.argArray /\ (Lives(1) => ShellWaits(t))
        /\ Block(t) = "setupThread" /\ Place(t) >= 3 => mem.localArgArray[t] = job[t]
        /\ ReadsStack(t) => \/ k.status[k.parent[t]] = "killed"
                            \/ /\ Lives(k.parent[t])
                               /\ job[t] = job[k.parent[t]]
                               /\ SetupWaits(k.parent[t], t)
        /\ Block(t) = "Testback1" => Reg(t).a0 \in {<<"argArray">>, <<"stack", k.parent[t]>>}
        /\ Block(t) = "Testback1" /\ Place(t) = 3 =>
              \/ Reg(t).y = job[t]
              \/ Reg(t).a0 # <<"argArray">> /\ k.status[k.parent[t]] = "killed"

\* The inductive invariant.
Inv == Shape /\ Located /\ Silence /\ Prepared /\ Arguments

-----------------------------------------------------------------------------
(* The instructions *)

\* Where the instructions stand.
Legal(pc, ins) ==
    /\ ins.op \in {"call", "start", "recv", "iffailed", "goto", "readLine", "exit",
                   "getArguments", "kill", "copyArguments", "send", "readArguments",
                   "fault", "noSeats", "look", "sell", "book", "sum", "test", "yield",
                   "touch"}
    /\ ins.op = "readLine" => pc[1] = "main" /\ pc[2] = 2
    /\ ins.op = "getArguments" => pc[1] \in {"start", "kill", "background"} /\ pc[2] = 1
    /\ ins.op = "copyArguments" => pc[1] = "setupThread" /\ pc[2] = 2
    /\ ins.op = "readArguments" => pc[1] = "Testback1" /\ pc[2] = 2
    /\ ins.op = "send" =>
          \/ pc[1] = "setupThread" /\ pc[2] = 5
          \/ pc[1] \in {"Child", "childSyscallTest", "dummyThread"}
    /\ ins.op = "recv" =>
          \/ ins.reg = "x" /\ pc[1] # "Res_Thread"
          \/ ins.reg = "y" /\ pc[1] = "Start_Reservation" /\ pc[2] = 6
    /\ ins.op = "kill" => pc[1] # "Res_Thread"
    /\ ins.op \in {"iffailed", "goto"} =>
          /\ Counter(ins.to)
          /\ \/ pc[1] \in ShellBlocks /\ ins.to = Prompt
             \/ pc[1] \notin ShellBlocks \cup {"Res_Thread"} /\ ins.to = Return
             \/ pc[1] \in {"Res_Thread", "dummyThread", "childSyscallTest"} /\ ins.to[1] = pc[1]
    /\ ins.op = "test" => pc[1] = "crashMeMaster"
    /\ ins.op \in {"look", "sell", "book"} => pc[1] = "Res_Thread"
    /\ ins.op = "sum" => pc[1] = "Start_Reservation" /\ pc[2] = 7
    /\ ins.op = "noSeats" => pc[1] = "Start_Reservation"

\* What is started where.
LegalStart(pc, ins) ==
    ins.op = "start" =>
        \/ /\ pc[1] = "start" /\ pc[2] = 2
           /\ ins.reg = "x" /\ ins.function = "named" /\ ins.parameter = "argArray"
        \/ /\ pc[1] = "background" /\ pc[2] = 2
           /\ ins.reg = "x" /\ ins.function = "setupThread" /\ ins.parameter = "named"
        \/ /\ pc[1] = "setupThread" /\ pc[2] = 3
           /\ ins.reg = "x" /\ ins.function = "given" /\ ins.parameter = "localArgArray"
        \/ /\ pc[1] \notin ShellBlocks \cup {"setupThread", "Res_Thread"}
           /\ ins.reg \in {"x", "y"}
           /\ ins.reg = "y" => pc[1] = "Start_Reservation" /\ pc[2] = 4
           /\ ins.function \in {"Res_Thread", "Child", "childSyscallTest", "dummyThread",
                                "recThread", "tryMemory", "empty", "trapper"}
           /\ ins.parameter \in {"none", "first", "second"}

\* The order of the instructions in the blocks that hand arguments on.
Sequenced(pc, ins) ==
    /\ pc[1] \in Waiters =>
          /\ pc[2] = 1 => ins.op = "getArguments"
          /\ pc[2] = 2 => ins.op = "start"
          /\ pc[2] = 3 => ins.op = "iffailed"
          /\ pc[2] = 4 => ins.op = "recv" /\ ins.reg = "x"
          /\ pc[2] = 5 => ins.op = "goto"
    /\ pc[1] = "setupThread" =>
          /\ pc[2] = 1 => ins.op = "call"
          /\ pc[2] = 2 => ins.op = "copyArguments"
          /\ pc[2] = 3 => ins.op = "start"
          /\ pc[2] = 4 => ins.op = "iffailed"
          /\ pc[2] = 5 => ins.op = "send"
          /\ pc[2] = 6 => ins.op = "recv" /\ ins.reg = "x"
          /\ pc[2] \notin 1 .. 6 => ins.op = "exit"
    /\ pc[1] = "Testback1" =>
          /\ pc[2] = 2 => ins.op = "readArguments"
          /\ pc[2] # 2 => ins.op \in {"call", "exit"}

Understood(pc, ins) == Legal(pc, ins) /\ LegalStart(pc, ins) /\ Sequenced(pc, ins)

\* So much is known of every instruction from the place where it stands.
LEMMA Understanding ==
    ASSUME NEW pc, Counter(pc)
    PROVE  Understood(pc, InstructionAt(pc))
<1> DEFINE P(table, block) ==
        InstructionAt(pc) = IF pc[2] \in DOMAIN table[block] THEN table[block][pc[2]]
                            ELSE Do("exit")
<1>a. pc[2] \in Nat
  BY DEF Counter
<1>b. /\ Counter(Prompt) /\ Counter(Return) /\ Counter(<<"Res_Thread", 2>>)
      /\ Counter(<<"childSyscallTest", 7>>) /\ Counter(<<"dummyThread", 3>>)
  BY Counters DEF Prompt, Return
<1> USE DEF Understood, ShellBlocks, Waiters, Do, Call, Start, Recv, IfFailed, Goto
<1>1. CASE pc[1] = "main"
  <2>1. P(ShellCode, "main")
    BY <1>1, At, Blocks DEF Tables
  <2>2. Legal(pc, InstructionAt(pc))
    BY <1>1, <2>1, <1>a, <1>b DEF ShellCode, Legal
  <2>3. LegalStart(pc, InstructionAt(pc)) /\ Sequenced(pc, InstructionAt(pc))
    BY <1>1, <2>1, <1>a, <1>b DEF ShellCode, LegalStart, Sequenced
  <2> QED BY <2>2, <2>3
<1>2. CASE pc[1] = "start"
  <2>1. P(ShellCode, "start")
    BY <1>2, At, Blocks DEF Tables
  <2>2. Legal(pc, InstructionAt(pc))
    BY <1>2, <2>1, <1>a, <1>b DEF ShellCode, Legal
  <2>3. LegalStart(pc, InstructionAt(pc)) /\ Sequenced(pc, InstructionAt(pc))
    BY <1>2, <2>1, <1>a, <1>b DEF ShellCode, LegalStart, Sequenced
  <2> QED BY <2>2, <2>3
<1>3. CASE pc[1] = "exit"
  <2>1. P(ShellCode, "exit")
    BY <1>3, At, Blocks DEF Tables
  <2>2. Legal(pc, InstructionAt(pc))
    BY <1>3, <2>1, <1>a, <1>b DEF ShellCode, Legal
  <2>3. LegalStart(pc, InstructionAt(pc)) /\ Sequenced(pc, InstructionAt(pc))
    BY <1>3, <2>1, <1>a, <1>b DEF ShellCode, LegalStart, Sequenced
  <2> QED BY <2>2, <2>3
<1>4. CASE pc[1] = "kill"
  <2>1. P(KillCode, "kill")
    BY <1>4, At, Blocks DEF Tables
  <2>2. Legal(pc, InstructionAt(pc))
    BY <1>4, <2>1, <1>a, <1>b DEF KillCode, Legal
  <2>3. LegalStart(pc, InstructionAt(pc)) /\ Sequenced(pc, InstructionAt(pc))
    BY <1>4, <2>1, <1>a, <1>b DEF KillCode, LegalStart, Sequenced
  <2> QED BY <2>2, <2>3
<1>5. CASE pc[1] = "ps"
  <2>1. P(listThreads, "ps")
    BY <1>5, At, Blocks DEF Tables
  <2>2. Legal(pc, InstructionAt(pc))
    BY <1>5, <2>1, <1>a, <1>b DEF listThreads, Legal
  <2>3. LegalStart(pc, InstructionAt(pc)) /\ Sequenced(pc, InstructionAt(pc))
    BY <1>5, <2>1, <1>a, <1>b DEF listThreads, LegalStart, Sequenced
  <2> QED BY <2>2, <2>3
<1>6. CASE pc[1] = "background"
  <2>1. P(Background, "background")
    BY <1>6, At, Blocks DEF Tables
  <2>2. Legal(pc, InstructionAt(pc))
    BY <1>6, <2>1, <1>a, <1>b DEF Background, Legal
  <2>3. LegalStart(pc, InstructionAt(pc)) /\ Sequenced(pc, InstructionAt(pc))
    BY <1>6, <2>1, <1>a, <1>b DEF Background, LegalStart, Sequenced
  <2> QED BY <2>2, <2>3
<1>7. CASE pc[1] = "setupThread"
  <2>1. P(setupThread, "setupThread")
    BY <1>7, At, Blocks DEF Tables
  <2>2. Legal(pc, InstructionAt(pc))
    BY <1>7, <2>1, <1>a, <1>b DEF setupThread, Legal
  <2>3. LegalStart(pc, InstructionAt(pc)) /\ Sequenced(pc, InstructionAt(pc))
    BY <1>7, <2>1, <1>a, <1>b DEF setupThread, LegalStart, Sequenced
  <2> QED BY <2>2, <2>3
<1>8. CASE pc[1] = "Testback1"
  <2>1. P(Demos, "Testback1")
    BY <1>8, At, Blocks DEF Tables
  <2>2. Legal(pc, InstructionAt(pc))
    BY <1>8, <2>1, <1>a, <1>b DEF Demos, Legal
  <2>3. LegalStart(pc, InstructionAt(pc)) /\ Sequenced(pc, InstructionAt(pc))
    BY <1>8, <2>1, <1>a, <1>b DEF Demos, LegalStart, Sequenced
  <2> QED BY <2>2, <2>3
<1>9. CASE pc[1] = "trap"
  <2>1. P(Demos, "trap")
    BY <1>9, At, Blocks DEF Tables
  <2>2. Legal(pc, InstructionAt(pc))
    BY <1>9, <2>1, <1>a, <1>b DEF Demos, Legal
  <2>3. LegalStart(pc, InstructionAt(pc)) /\ Sequenced(pc, InstructionAt(pc))
    BY <1>9, <2>1, <1>a, <1>b DEF Demos, LegalStart, Sequenced
  <2> QED BY <2>2, <2>3
<1>10. CASE pc[1] = "Hello"
  <2>1. P(Hello, "Hello")
    BY <1>10, At, Blocks DEF Tables
  <2>2. Legal(pc, InstructionAt(pc))
    BY <1>10, <2>1, <1>a, <1>b DEF Hello, Legal
  <2>3. LegalStart(pc, InstructionAt(pc)) /\ Sequenced(pc, InstructionAt(pc))
    BY <1>10, <2>1, <1>a, <1>b DEF Hello, LegalStart, Sequenced
  <2> QED BY <2>2, <2>3
<1>11. CASE pc[1] = "test_timer"
  <2>1. P(test_timer, "test_timer")
    BY <1>11, At, Blocks DEF Tables
  <2>2. Legal(pc, InstructionAt(pc))
    BY <1>11, <2>1, <1>a, <1>b DEF test_timer, Legal
  <2>3. LegalStart(pc, InstructionAt(pc)) /\ Sequenced(pc, InstructionAt(pc))
    BY <1>11, <2>1, <1>a, <1>b DEF test_timer, LegalStart, Sequenced
  <2> QED BY <2>2, <2>3
<1>12. CASE pc[1] = "Demo"
  <2>1. P(ThreadsDemo, "Demo")
    BY <1>12, At, Blocks DEF Tables
  <2>2. Legal(pc, InstructionAt(pc))
    BY <1>12, <2>1, <1>a, <1>b DEF ThreadsDemo, Legal
  <2>3. LegalStart(pc, InstructionAt(pc)) /\ Sequenced(pc, InstructionAt(pc))
    BY <1>12, <2>1, <1>a, <1>b DEF ThreadsDemo, LegalStart, Sequenced
  <2> QED BY <2>2, <2>3
<1>13. CASE pc[1] = "Child"
  <2>1. P(ThreadsDemo, "Child")
    BY <1>13, At, Blocks DEF Tables
  <2>2. Legal(pc, InstructionAt(pc))
    BY <1>13, <2>1, <1>a, <1>b DEF ThreadsDemo, Legal
  <2>3. LegalStart(pc, InstructionAt(pc)) /\ Sequenced(pc, InstructionAt(pc))
    BY <1>13, <2>1, <1>a, <1>b DEF ThreadsDemo, LegalStart, Sequenced
  <2> QED BY <2>2, <2>3
<1>14. CASE pc[1] = "Start_Reservation"
  <2>1. P(Reservation, "Start_Reservation")
    BY <1>14, At, Blocks DEF Tables
  <2>2. Legal(pc, InstructionAt(pc))
    BY <1>14, <2>1, <1>a, <1>b DEF Reservation, Legal
  <2>3. LegalStart(pc, InstructionAt(pc)) /\ Sequenced(pc, InstructionAt(pc))
    BY <1>14, <2>1, <1>a, <1>b DEF Reservation, LegalStart, Sequenced
  <2> QED BY <2>2, <2>3
<1>15. CASE pc[1] = "Res_Thread"
  <2>1. P(Reservation, "Res_Thread")
    BY <1>15, At, Blocks DEF Tables
  <2>2. Legal(pc, InstructionAt(pc))
    BY <1>15, <2>1, <1>a, <1>b DEF Reservation, Legal
  <2>3. LegalStart(pc, InstructionAt(pc)) /\ Sequenced(pc, InstructionAt(pc))
    BY <1>15, <2>1, <1>a, <1>b DEF Reservation, LegalStart, Sequenced
  <2> QED BY <2>2, <2>3
<1>16. CASE pc[1] = "crashMeMaster"
  <2>1. P(crashMeMaster, "crashMeMaster")
    BY <1>16, At, Blocks DEF Tables
  <2>2. Legal(pc, InstructionAt(pc))
    BY <1>16, <2>1, <1>a, <1>b DEF crashMeMaster, Legal
  <2>3. LegalStart(pc, InstructionAt(pc)) /\ Sequenced(pc, InstructionAt(pc))
    BY <1>16, <2>1, <1>a, <1>b DEF crashMeMaster, LegalStart, Sequenced
  <2> QED BY <2>2, <2>3
<1>17. CASE pc[1] = "crashMeSyscallTest"
  <2>1. P(SyscallTest, "crashMeSyscallTest")
    BY <1>17, At, Blocks DEF Tables
  <2>2. Legal(pc, InstructionAt(pc))
    BY <1>17, <2>1, <1>a, <1>b DEF SyscallTest, Legal
  <2>3. LegalStart(pc, InstructionAt(pc)) /\ Sequenced(pc, InstructionAt(pc))
    BY <1>17, <2>1, <1>a, <1>b DEF SyscallTest, LegalStart, Sequenced
  <2> QED BY <2>2, <2>3
<1>18. CASE pc[1] = "childSyscallTest"
  <2>1. P(SyscallTest, "childSyscallTest")
    BY <1>18, At, Blocks DEF Tables
  <2>2. Legal(pc, InstructionAt(pc))
    BY <1>18, <2>1, <1>a, <1>b DEF SyscallTest, Legal
  <2>3. LegalStart(pc, InstructionAt(pc)) /\ Sequenced(pc, InstructionAt(pc))
    BY <1>18, <2>1, <1>a, <1>b DEF SyscallTest, LegalStart, Sequenced
  <2> QED BY <2>2, <2>3
<1>19. CASE pc[1] = "dummyThread"
  <2>1. P(dummyThread, "dummyThread")
    BY <1>19, At, Blocks DEF Tables
  <2>2. Legal(pc, InstructionAt(pc))
    BY <1>19, <2>1, <1>a, <1>b DEF dummyThread, Legal
  <2>3. LegalStart(pc, InstructionAt(pc)) /\ Sequenced(pc, InstructionAt(pc))
    BY <1>19, <2>1, <1>a, <1>b DEF dummyThread, LegalStart, Sequenced
  <2> QED BY <2>2, <2>3
<1>20. CASE pc[1] = "stressTest"
  <2>1. P(StressTest, "stressTest")
    BY <1>20, At, Blocks DEF Tables
  <2>2. Legal(pc, InstructionAt(pc))
    BY <1>20, <2>1, <1>a, <1>b DEF StressTest, Legal
  <2>3. LegalStart(pc, InstructionAt(pc)) /\ Sequenced(pc, InstructionAt(pc))
    BY <1>20, <2>1, <1>a, <1>b DEF StressTest, LegalStart, Sequenced
  <2> QED BY <2>2, <2>3
<1>21. CASE pc[1] = "recThread"
  <2>1. P(StressTest, "recThread")
    BY <1>21, At, Blocks DEF Tables
  <2>2. Legal(pc, InstructionAt(pc))
    BY <1>21, <2>1, <1>a, <1>b DEF StressTest, Legal
  <2>3. LegalStart(pc, InstructionAt(pc)) /\ Sequenced(pc, InstructionAt(pc))
    BY <1>21, <2>1, <1>a, <1>b DEF StressTest, LegalStart, Sequenced
  <2> QED BY <2>2, <2>3
<1>22. CASE pc[1] = "memoryTestAll"
  <2>1. P(MemoryTest, "memoryTestAll")
    BY <1>22, At, Blocks DEF Tables
  <2>2. Legal(pc, InstructionAt(pc))
    BY <1>22, <2>1, <1>a, <1>b DEF MemoryTest, Legal
  <2>3. LegalStart(pc, InstructionAt(pc)) /\ Sequenced(pc, InstructionAt(pc))
    BY <1>22, <2>1, <1>a, <1>b DEF MemoryTest, LegalStart, Sequenced
  <2> QED BY <2>2, <2>3
<1>23. CASE pc[1] = "tryMemory"
  <2>1. P(MemoryTest, "tryMemory")
    BY <1>23, At, Blocks DEF Tables
  <2>2. Legal(pc, InstructionAt(pc))
    BY <1>23, <2>1, <1>a, <1>b DEF MemoryTest, Legal
  <2>3. LegalStart(pc, InstructionAt(pc)) /\ Sequenced(pc, InstructionAt(pc))
    BY <1>23, <2>1, <1>a, <1>b DEF MemoryTest, LegalStart, Sequenced
  <2> QED BY <2>2, <2>3
<1>24. CASE pc[1] = "empty"
  <2>1. P(MemoryTest, "empty")
    BY <1>24, At, Blocks DEF Tables
  <2>2. Legal(pc, InstructionAt(pc))
    BY <1>24, <2>1, <1>a, <1>b DEF MemoryTest, Legal
  <2>3. LegalStart(pc, InstructionAt(pc)) /\ Sequenced(pc, InstructionAt(pc))
    BY <1>24, <2>1, <1>a, <1>b DEF MemoryTest, LegalStart, Sequenced
  <2> QED BY <2>2, <2>3
<1>25. CASE pc[1] = "trapTest"
  <2>1. P(TrapTest, "trapTest")
    BY <1>25, At, Blocks DEF Tables
  <2>2. Legal(pc, InstructionAt(pc))
    BY <1>25, <2>1, <1>a, <1>b DEF TrapTest, Legal
  <2>3. LegalStart(pc, InstructionAt(pc)) /\ Sequenced(pc, InstructionAt(pc))
    BY <1>25, <2>1, <1>a, <1>b DEF TrapTest, LegalStart, Sequenced
  <2> QED BY <2>2, <2>3
<1>26. CASE pc[1] = "trapper"
  <2>1. P(TrapTest, "trapper")
    BY <1>26, At, Blocks DEF Tables
  <2>2. Legal(pc, InstructionAt(pc))
    BY <1>26, <2>1, <1>a, <1>b DEF TrapTest, Legal
  <2>3. LegalStart(pc, InstructionAt(pc)) /\ Sequenced(pc, InstructionAt(pc))
    BY <1>26, <2>1, <1>a, <1>b DEF TrapTest, LegalStart, Sequenced
  <2> QED BY <2>2, <2>3
<1>27. CASE pc[1] \notin DOMAIN Code
  <2>1. InstructionAt(pc) = Do("exit")
    BY <1>27 DEF InstructionAt
  <2> QED BY <1>27, <2>1, CodeDomain DEF Legal, LegalStart, Sequenced
<1> QED BY <1>1, <1>2, <1>3, <1>4, <1>5, <1>6, <1>7, <1>8, <1>9, <1>10, <1>11, <1>12, <1>13, <1>14,
           <1>15, <1>16, <1>17, <1>18, <1>19, <1>20, <1>21, <1>22, <1>23, <1>24, <1>25, <1>26, <1>27, CodeDomain

-----------------------------------------------------------------------------
(* The kernel *)

\* The context of a thread that is gone is a context.
LEMMA DeadIs == Context(Dead)
BY Counters DEF Context, Dead, Register

SameIn(s, r, u) ==
    /\ r.status[u] = s.status[u] /\ r.from[u] = s.from[u]
    /\ r.queue[u] = s.queue[u] /\ r.context[u] = s.context[u]

WokenIn(s, r, u, d) ==
    /\ s.status[u] = "BLOCKED" /\ s.from[u] = d
    /\ r.status[u] = "READY" /\ r.from[u] = NULL
    /\ r.queue[u] = s.queue[u]
    /\ r.context[u] = [s.context[u] EXCEPT !.v0 = "FAILED"]

DestroyedIn(s, r, t, why) ==
    /\ r.status[t] = why
    /\ r.queue[t] = << >>
    /\ \A u \in UserThread \ {t} :
          IF s.status[u] = "BLOCKED" /\ s.from[u] = t THEN WokenIn(s, r, u, t)
          ELSE SameIn(s, r, u)

\* Nothing but status, queues, contexts and from.
Fixed(s, r) ==
    /\ Kernel(r)
    /\ r.cpu = s.cpu /\ r.running = s.running /\ r.parent = s.parent /\ r.nextId = s.nextId
    /\ r.context[Idle] = s.context[Idle]

\* tmSetReturnValue changes a register of one thread.
LEMMA ValueIs ==
    ASSUME NEW s, Kernel(s), NEW t \in UserThread, NEW value
    PROVE  LET r == tmSetReturnValue(s, t, value)
           IN  /\ Fixed(s, r)
               /\ r.status = s.status /\ r.from = s.from /\ r.queue = s.queue
               /\ r.context[t] = [s.context[t] EXCEPT !.v0 = value]
               /\ \A u \in UserThread \ {t} : r.context[u] = s.context[u]
<1> DEFINE r == tmSetReturnValue(s, t, value)
           c == [u \in Thread |-> IF u = t THEN [s.context[u] EXCEPT !.v0 = value]
                                  ELSE s.context[u]]
<1>1. t \in Thread /\ Idle \in Thread /\ t # Idle
  BY DEF Thread, UserThread, Idle
<1>2. r = [s EXCEPT !.context = c]
  BY DEF tmSetReturnValue, Kernel
<1>3. \A u \in Thread : Context(c[u])
  <2> TAKE u \in Thread
  <2>1. Context(s.context[u])
    BY DEF Kernel
  <2>2. Context([s.context[u] EXCEPT !.v0 = value])
    BY <2>1 DEF Context
  <2> QED BY <2>1, <2>2
<1>4. c = [u \in Thread |-> c[u]]
  OBVIOUS
<1>5. r = [cpu |-> s.cpu, running |-> s.running, context |-> c,
             status |-> s.status, queue |-> s.queue, from |-> s.from,
             parent |-> s.parent, nextId |-> s.nextId]
  <2> HIDE DEF c, r
  <2> QED BY <1>2 DEF Kernel
<1>6. c[t] = [s.context[t] EXCEPT !.v0 = value] /\ c[Idle] = s.context[Idle]
      /\ \A u \in UserThread \ {t} : c[u] = s.context[u]
  BY <1>1 DEF Thread
<1> HIDE DEF c, r
<1>7. Kernel(r)
  BY <1>3, <1>4, <1>5 DEF Kernel
<1> QED BY <1>5, <1>6, <1>7 DEF Fixed, r

\* Destroy removes a thread and wakes who waits for it.
LEMMA DestroyIs ==
    ASSUME NEW s, Kernel(s), NEW t \in UserThread, NEW why
    PROVE  LET r == Destroy(s, t, why)
           IN  /\ Fixed(s, r)
               /\ ~Alive(s, t) => r = s
               /\ Alive(s, t) => DestroyedIn(s, r, t, why)
<1> DEFINE r == Destroy(s, t, why)
<1>0. Fixed(s, s)
  BY DEF Fixed
<1>1. CASE ~Alive(s, t)
  BY <1>0, <1>1 DEF Destroy
<1>2. CASE Alive(s, t)
  <2> DEFINE waiting == {u \in UserThread \ {t} : s.status[u] = "BLOCKED" /\ s.from[u] = t}
             st == [u \in UserThread |-> CASE u = t -> why
                                           [] u \in waiting -> "READY"
                                           [] OTHER -> s.status[u]]
             qu == [s.queue EXCEPT ![t] = << >>]
             co == [u \in Thread |-> CASE u = t -> Dead
                                       [] u \in waiting -> [s.context[u] EXCEPT !.v0 = "FAILED"]
                                       [] OTHER -> s.context[u]]
             fr == [u \in UserThread |-> IF u \in waiting \cup {t} THEN NULL ELSE s.from[u]]
  <2>1. r = [cpu |-> s.cpu, running |-> s.running, context |-> co,
             status |-> st, queue |-> qu, from |-> fr,
             parent |-> s.parent, nextId |-> s.nextId]
    <3>1. r = [s EXCEPT !.status = st, !.queue = qu, !.context = co, !.from = fr]
      BY <1>2 DEF Destroy, Kernel
    <3> HIDE DEF st, qu, co, fr, r
    <3> QED BY <3>1 DEF Kernel
  <2>2. \A u \in Thread : Context(co[u])
    <3> TAKE u \in Thread
    <3>1. Context(s.context[u])
      BY DEF Kernel
    <3>2. Context([s.context[u] EXCEPT !.v0 = "FAILED"])
      BY <3>1 DEF Context
    <3> QED BY <3>1, <3>2, DeadIs
  <2>3. /\ st = [u \in UserThread |-> st[u]] /\ co = [u \in Thread |-> co[u]]
        /\ fr = [u \in UserThread |-> fr[u]]
    OBVIOUS
  <2>4. qu = [u \in UserThread |-> qu[u]] /\ qu[t] = << >>
        /\ \A u \in UserThread \ {t} : qu[u] = s.queue[u]
    BY DEF Kernel
  <2>5. /\ st[t] = why
        /\ \A u \in UserThread \ {t} :
              /\ st[u] = IF u \in waiting THEN "READY" ELSE s.status[u]
              /\ fr[u] = IF u \in waiting THEN NULL ELSE s.from[u]
              /\ co[u] = IF u \in waiting THEN [s.context[u] EXCEPT !.v0 = "FAILED"] ELSE s.context[u]
    BY DEF Thread
  <2>6. co[Idle] = s.context[Idle]
    BY DEF Thread, Idle, UserThread
  <2> HIDE DEF st, qu, co, fr, r
  <2>7. Kernel(r)
    BY <2>1, <2>2, <2>3, <2>4 DEF Kernel
  <2>8. Fixed(s, r)
    BY <2>1, <2>6, <2>7 DEF Fixed
  <2>9. DestroyedIn(s, r, t, why)
    BY <2>1, <2>4, <2>5 DEF DestroyedIn, WokenIn, SameIn
  <2> QED BY <1>2, <2>8, <2>9 DEF r
<1> QED BY <1>1, <1>2

\* A context remains one when its a0 and pc are written.
LEMMA ChangedIs ==
    ASSUME NEW c, Context(c), NEW a, NEW pc, Counter(pc)
    PROVE  Context([c EXCEPT !.a0 = a, !.pc = pc])
<1> DEFINE d == [c EXCEPT !.a0 = a]
           e == [d EXCEPT !.pc = pc]
<1>1. Context(d)
  BY DEF Context
<1>2. Context(e)
  <2> HIDE DEF d
  <2> QED BY <1>1 DEF Context
<1> QED BY <1>2, Zenon

\* The general exception handler saves the registers of the running thread.
LEMMA SavedIs ==
    ASSUME NEW s, Kernel(s)
    PROVE  LET r == generalExceptionHandler(s)
           IN  /\ Kernel(r)
               /\ r.running = s.running /\ r.parent = s.parent /\ r.nextId = s.nextId
               /\ r.status = s.status /\ r.from = s.from /\ r.queue = s.queue
               /\ r.context[s.running] = s.cpu
               /\ \A u \in Thread \ {s.running} : r.context[u] = s.context[u]
<1> DEFINE c == [s.context EXCEPT ![s.running] = s.cpu]
           r == generalExceptionHandler(s)
<1>1. saveContext(InHandler(s.cpu), exceptionContext(s.cpu)) = s.cpu
  BY DEF Kernel, Context, saveContext, InHandler, exceptionContext
<1>2. Context(InHandler(s.cpu))
  <2>1. Counter(<<"generalExceptionHandler", 1>>)
    BY Counters
  <2>2. Context(s.cpu)
    BY DEF Kernel
  <2> QED BY <2>1, <2>2, ChangedIs, Zenon DEF InHandler
<1>3. r = [s EXCEPT !.context = c, !.cpu = InHandler(s.cpu)]
  <2>1. r = [s EXCEPT !.context[s.running] =
                        saveContext(InHandler(s.cpu), exceptionContext(s.cpu)),
                      !.cpu = InHandler(s.cpu)]
    BY DEF generalExceptionHandler
  <2>2. r = [s EXCEPT !.context[s.running] = s.cpu, !.cpu = InHandler(s.cpu)]
    BY <1>1, <2>1
  <2> QED BY <2>2 DEF Kernel
<1>4. r = [cpu |-> InHandler(s.cpu), running |-> s.running, context |-> c,
             status |-> s.status, queue |-> s.queue, from |-> s.from,
             parent |-> s.parent, nextId |-> s.nextId]
  <2> HIDE DEF c, r
  <2> QED BY <1>3 DEF Kernel
<1>5. /\ c[s.running] = s.cpu /\ \A u \in Thread \ {s.running} : c[u] = s.context[u]
      /\ c = [u \in Thread |-> c[u]]
  BY DEF Kernel
<1>6. \A u \in Thread : Context(c[u])
  BY <1>5 DEF Kernel
<1> HIDE DEF c, r
<1>7. Kernel(r)
  BY <1>2, <1>4, <1>5, <1>6 DEF Kernel
<1> QED BY <1>4, <1>5, <1>7 DEF r

\* The next instruction is in the same block.
LEMMA FollowingIs == \A pc : Counter(pc) => /\ Counter(Following(pc))
                                            /\ Following(pc)[1] = pc[1]
                                            /\ Following(pc)[2] = pc[2] + 1
BY DEF Counter, Following

\* So does a system call, with the program counter behind the call.
LEMMA CalledIs ==
    ASSUME NEW s, Kernel(s)
    PROVE  LET r == syscallExceptionHandler(s)
           IN  /\ Kernel(r)
               /\ r.running = s.running /\ r.parent = s.parent /\ r.nextId = s.nextId
               /\ r.status = s.status /\ r.from = s.from /\ r.queue = s.queue
               /\ r.context[s.running] = [s.cpu EXCEPT !.pc = Following(@)]
               /\ \A u \in Thread \ {s.running} : r.context[u] = s.context[u]
<1> DEFINE g == generalExceptionHandler(s)
           c == [g.context EXCEPT ![s.running].pc = Following(@)]
           r == syscallExceptionHandler(s)
<1>1. /\ Kernel(g) /\ g.running = s.running
      /\ g.running = s.running /\ g.parent = s.parent /\ g.nextId = s.nextId
      /\ g.status = s.status /\ g.from = s.from /\ g.queue = s.queue
      /\ g.context[s.running] = s.cpu
      /\ \A u \in Thread \ {s.running} : g.context[u] = s.context[u]
  BY SavedIs
<1>2. r = [g EXCEPT !.context = c]
  <2> HIDE DEF g
  <2>1. r = [g EXCEPT !.context[s.running].pc = Following(@)]
    BY DEF syscallExceptionHandler, g
  <2> QED BY <1>1, <2>1 DEF Kernel
<1> HIDE DEF g
<1>3. r = [cpu |-> g.cpu, running |-> g.running, context |-> c,
             status |-> g.status, queue |-> g.queue, from |-> g.from,
             parent |-> g.parent, nextId |-> g.nextId]
  <2> HIDE DEF c, r
  <2> QED BY <1>1, <1>2 DEF Kernel
<1>4. /\ c[s.running] = [s.cpu EXCEPT !.pc = Following(@)]
      /\ \A u \in Thread \ {s.running} : c[u] = s.context[u]
      /\ c = [u \in Thread |-> c[u]]
  BY <1>1 DEF Kernel
<1>5. Context([s.cpu EXCEPT !.pc = Following(@)])
  BY FollowingIs DEF Kernel, Context
<1>6. \A u \in Thread : Context(c[u])
  BY <1>4, <1>5 DEF Kernel
<1> HIDE DEF c, r
<1>7. Kernel(r)
  BY <1>1, <1>3, <1>4, <1>6 DEF Kernel
<1> QED BY <1>1, <1>3, <1>4, <1>7 DEF r

\* restoreContext brings back what was saved, and changes nothing else.
LEMMA RestoredIs ==
    ASSUME NEW r, Kernel(r), NEW next \in Candidates(r)
    PROVE  LET q == restoreContext(r, next)
           IN  /\ Kernel(q)
               /\ q.running = next /\ q.parent = r.parent /\ q.nextId = r.nextId
               /\ q.status = r.status /\ q.from = r.from /\ q.queue = r.queue
               /\ next # Idle => r.status[next] = "READY"
               /\ \A u \in UserThread : RegistersOf(q, u) = r.context[u]
<1> DEFINE c == [r.context EXCEPT ![next] = Dead]
           q == restoreContext(r, next)
<1>1. next \in Thread /\ (next # Idle => r.status[next] = "READY")
  BY DEF Candidates, Thread
<1>2. q = [cpu |-> r.context[next], running |-> next, context |-> c,
             status |-> r.status, queue |-> r.queue, from |-> r.from,
             parent |-> r.parent, nextId |-> r.nextId]
  <2>1. q = [r EXCEPT !.running = next, !.cpu = r.context[next], !.context = c]
    BY DEF restoreContext, Kernel
  <2> HIDE DEF c, q
  <2> QED BY <2>1 DEF Kernel
<1>3. /\ c[next] = Dead /\ \A u \in Thread \ {next} : c[u] = r.context[u]
      /\ c = [u \in Thread |-> c[u]]
  BY <1>1 DEF Kernel
<1>4. \A u \in Thread : Context(c[u])
  BY <1>3, DeadIs DEF Kernel
<1>5. Context(r.context[next])
  BY <1>1 DEF Kernel
<1> HIDE DEF c, q
<1>6. Kernel(q)
  BY <1>1, <1>2, <1>3, <1>4, <1>5 DEF Kernel
<1>7. \A u \in UserThread : RegistersOf(q, u) = r.context[u]
  BY <1>2, <1>3 DEF RegistersOf, Thread
<1> QED BY <1>1, <1>2, <1>6, <1>7 DEF q

-----------------------------------------------------------------------------
(* What a step does to the threads *)

\* The registers of t after the step.
After(t) == RegistersOf(k', t)

Same(t) ==
    /\ k'.status[t] = k.status[t] /\ k'.from[t] = k.from[t]
    /\ k'.queue[t] = k.queue[t] /\ After(t) = Reg(t)

Woken(t) ==
    /\ k.status[t] = "BLOCKED" /\ k'.status[t] = "READY"
    /\ k'.from[t] = NULL /\ k'.queue[t] = k.queue[t]
    /\ After(t) = [Reg(t) EXCEPT !.v0 = After(t).v0]

Gone(t, why) == Lives(t) /\ k'.status[t] = why /\ k'.queue[t] = << >>

Sends(t) == Instruction.op = "send" /\ k.parent[me] = t

Bereaved(t) == k.from[t] \in UserThread /\ Lives(k.from[t]) /\ ~Alive(k', k.from[t])

\* Another thread than the running one.
Passive(t) ==
    \/ Same(t)
    \/ Woken(t) /\ (Bereaved(t) \/ (Instruction.op = "send" /\ k.from[t] = me))
    \/ Gone(t, "killed")
    \/ Sends(t) /\ Gone(t, "overflowed") /\ QueueFull(k, t)
    \/ /\ Sends(t) /\ Lives(t)
       /\ k'.status[t] = k.status[t] /\ k'.from[t] = k.from[t] /\ After(t) = Reg(t)
       /\ k'.queue[t] = Append(k.queue[t], me)

\* The running thread, when it comes to its end.
Ended ==
    \/ Gone(me, "overflowed") /\ QueueFull(k, me)
           /\ Instruction.op \in {"call", "start", "kill", "readLine"}
    \/ Gone(me, "killed") /\ Instruction.op = "kill"
    \/ Gone(me, "exited") /\ Instruction.op = "exit"
    \/ Gone(me, "faulted") /\ Instruction.op \in {"touch", "fault"}

Kept ==
    /\ Kernel(k')
    /\ k'.running # Idle => k'.status[k'.running] = "READY"

NoneNew == Kept /\ k'.parent = k.parent /\ k'.nextId = k.nextId

OthersPassive == \A t \in UserThread \ {me} : Passive(t)

\* The running thread goes on with these registers.
GoesOn(c) ==
    /\ k'.status[me] = "READY" /\ k'.from[me] = k.from[me]
    /\ k'.queue[me] = k.queue[me] /\ After(me) = c

\* s: the kernel's view of the threads, with the running one's registers saved as c.
View(s, c) ==
    /\ Kernel(s)
    /\ s.status = k.status /\ s.from = k.from /\ s.queue = k.queue
    /\ s.parent = k.parent /\ s.nextId = k.nextId
    /\ s.context[me] = c
    /\ \A u \in UserThread \ {me} : s.context[u] = Reg(u)

\* The kernel is left with r.
Left(r) ==
    /\ Kernel(k')
    /\ k'.status = r.status /\ k'.from = r.from /\ k'.queue = r.queue
    /\ k'.parent = r.parent /\ k'.nextId = r.nextId
    /\ \A u \in UserThread : After(u) = r.context[u]
    /\ k'.running # Idle => r.status[k'.running] = "READY"

Running == Kernel(k) /\ me \in UserThread /\ k.status[me] = "READY"

Called == [k.cpu EXCEPT !.pc = Following(@)]

USE DEF me

\* In the kernel every thread is as it was, but for the caller's program counter.
LEMMA ViewIs ==
    ASSUME Running
    PROVE  /\ View(InKernel, Called)
           /\ View(generalExceptionHandler(k), k.cpu)
<1>1. \A u \in UserThread \ {me} : Reg(u) = k.context[u] /\ u \in Thread \ {k.running}
  BY DEF Reg, RegistersOf, Thread
<1> QED BY <1>1, SavedIs, CalledIs DEF Running, View, InKernel, Called

\* The way out of the kernel changes nothing that a thread can see.
LEMMA LeftIs ==
    ASSUME NEW r, Kernel(r), ReturnFrom(r)
    PROVE  Left(r)
<1>1. PICK next \in Candidates(r) : k' = restoreContext(r, next)
  BY DEF ReturnFrom
<1> DEFINE q == restoreContext(r, next)
<1>2. /\ Kernel(q)
      /\ q.running = next /\ q.parent = r.parent /\ q.nextId = r.nextId
      /\ q.status = r.status /\ q.from = r.from /\ q.queue = r.queue
      /\ next # Idle => r.status[next] = "READY"
      /\ \A u \in UserThread : RegistersOf(q, u) = r.context[u]
  BY RestoredIs
<1> HIDE DEF q
<1>3. k' = q
  BY <1>1 DEF q
<1> QED BY <1>2, <1>3 DEF Left, After

\* The registers of the running thread are in the processor.
LEMMA OwnRegistersIs ==
    ASSUME Running
    PROVE  Reg(me) = k.cpu
BY DEF Reg, RegistersOf

\* The effect of Destroy, seen from outside.
LEMMA DestroyedIs ==
    ASSUME Running, NEW s, NEW c, View(s, c), NEW t \in UserThread, NEW why,
           Lives(t), NEW r, DestroyedIn(s, r, t, why), Left(r), Fixed(s, r),
           why \notin {"READY", "BLOCKED"}
    PROVE  /\ NoneNew
           /\ Gone(t, why)
           /\ \A u \in UserThread \ {t, me} : Same(u) \/ (Woken(u) /\ Bereaved(u))
           /\ t # me => GoesOn(c)
<1>1. NoneNew
  BY DEF NoneNew, Kept, Left, View, Fixed
<1>2. Gone(t, why)
  BY DEF Gone, DestroyedIn, Left
<1>3. ~Alive(k', t)
  BY <1>2 DEF Gone, Alive
<1>4. ASSUME NEW u \in UserThread \ {t, me}
      PROVE  Same(u) \/ (Woken(u) /\ Bereaved(u))
  <2>1. CASE s.status[u] = "BLOCKED" /\ s.from[u] = t
    <3>1. WokenIn(s, r, u, t)
      BY <2>1 DEF DestroyedIn
    <3>2. /\ k.status[u] = "BLOCKED" /\ k'.status[u] = "READY" /\ k.from[u] = t
          /\ k'.from[u] = NULL /\ k'.queue[u] = k.queue[u]
          /\ After(u) = [Reg(u) EXCEPT !.v0 = "FAILED"]
      BY <3>1 DEF WokenIn, View, Left
    <3>3. Context(Reg(u))
      BY DEF Running, Kernel, Reg, RegistersOf, Thread
    <3>4. After(u).v0 = "FAILED"
      BY <3>2, <3>3 DEF Context
    <3> QED BY <1>3, <3>2, <3>4 DEF Woken, Bereaved
  <2>2. CASE ~(s.status[u] = "BLOCKED" /\ s.from[u] = t)
    <3>1. SameIn(s, r, u)
      BY <2>2 DEF DestroyedIn
    <3>2. s.context[u] = Reg(u) /\ After(u) = r.context[u]
      BY DEF View, Left
    <3>3. /\ k'.status[u] = k.status[u] /\ k'.from[u] = k.from[u]
          /\ k'.queue[u] = k.queue[u]
      BY <3>1 DEF SameIn, View, Left
    <3> QED BY <3>1, <3>2, <3>3 DEF SameIn, Same
  <2> QED BY <2>1, <2>2
<1>5. ASSUME t # me PROVE GoesOn(c)
  <2>1. SameIn(s, r, me)
    BY <1>5 DEF DestroyedIn, View, Running
  <2> QED BY <2>1 DEF SameIn, View, Left, GoesOn, Running
<1> QED BY <1>1, <1>2, <1>4, <1>5

\* tmSetReturnValue leaves the rest of the view alone.
LEMMA ValueView ==
    ASSUME Running, NEW s, NEW c, View(s, c), NEW value
    PROVE  View(tmSetReturnValue(s, me, value), [c EXCEPT !.v0 = value])
BY ValueIs DEF Running, View, Fixed

\* A way into the kernel and out again touches nobody else.
LEMMA ViewLeft ==
    ASSUME Running, NEW s, NEW c, View(s, c), Left(s)
    PROVE  NoneNew /\ GoesOn(c) /\ \A u \in UserThread \ {me} : Same(u)
BY DEF Running, View, Left, NoneNew, Kept, GoesOn, Same

Outcome(c) == NoneNew /\ OthersPassive /\ (Ended \/ GoesOn(c))

\* The answer of a server: the caller goes on, or its full queue ends it.
LEMMA AnsweredIs ==
    ASSUME Running, NEW s, NEW c, View(s, c), NEW value, ReturnFrom(Answer(s, me, value)),
           Instruction.op \in {"call", "start", "kill", "readLine"}
    PROVE  Outcome([c EXCEPT !.v0 = value])
<1>1. Alive(s, me) /\ Lives(me)
  BY DEF Running, View, Alive, Lives
<1>2. CASE QueueFull(s, me)
  <2> DEFINE r == Destroy(s, me, "overflowed")
  <2>1. DestroyedIn(s, r, me, "overflowed") /\ Fixed(s, r)
    BY <1>1, DestroyIs DEF View, Running
  <2>2. Answer(s, me, value) = r
    BY <1>1, <1>2 DEF Answer
  <2>3. Left(r)
    BY <2>1, <2>2, LeftIs DEF Fixed
  <2> HIDE DEF r
  <2>4. NoneNew /\ Gone(me, "overflowed")
        /\ \A u \in UserThread \ {me} : Same(u) \/ (Woken(u) /\ Bereaved(u))
    <3>1. "overflowed" \notin {"READY", "BLOCKED"} /\ me \in UserThread
      BY DEF Running
    <3>2. NoneNew /\ Gone(me, "overflowed")
          /\ \A u \in UserThread \ {me, me} : Same(u) \/ (Woken(u) /\ Bereaved(u))
      BY <1>1, <2>1, <2>3, <3>1, DestroyedIs, Zenon
    <3> QED BY <3>2
  <2>5. QueueFull(k, me)
    BY <1>2 DEF QueueFull, View
  <2>6. OthersPassive
    BY <2>4 DEF OthersPassive, Passive
  <2>7. Ended
    BY <2>4, <2>5 DEF Ended
  <2> QED BY <2>4, <2>6, <2>7 DEF Outcome
<1>3. CASE ~QueueFull(s, me)
  <2> DEFINE r == tmSetReturnValue(s, me, value)
  <2>1. View(r, [c EXCEPT !.v0 = value])
    BY ValueView
  <2>2. Answer(s, me, value) = r
    BY <1>1, <1>3 DEF Answer
  <2>3. Left(r)
    BY <2>1, <2>2, LeftIs DEF View
  <2> HIDE DEF r
  <2> QED BY <2>1, <2>3, ViewLeft DEF Outcome, OthersPassive, Passive
<1> QED BY <1>2, <1>3

\* A call whose outcome does not matter.
LEMMA CallIs ==
    ASSUME Running, CallStep
    PROVE  Outcome([Called EXCEPT !.v0 = "OK"])
<1>1. View(InKernel, Called) /\ ReturnFrom(Answer(InKernel, me, "OK"))
  BY ViewIs DEF CallStep
<1>2. Instruction.op \in {"call", "start", "kill", "readLine"}
  BY DEF CallStep, Is
<1> QED BY <1>1, <1>2, AnsweredIs, Zenon

\* tmYield.
LEMMA YieldIs ==
    ASSUME Running, YieldStep
    PROVE  Outcome([Called EXCEPT !.v0 = "OK"])
<1> DEFINE r == tmSetReturnValue(InKernel, me, "OK")
<1>1. View(r, [Called EXCEPT !.v0 = "OK"])
  BY ViewIs, ValueView, Zenon
<1>2. Left(r)
  BY <1>1, LeftIs DEF YieldStep, tmSetReturnValue, View
<1> HIDE DEF r
<1>3. NoneNew /\ GoesOn([Called EXCEPT !.v0 = "OK"]) /\ \A u \in UserThread \ {me} : Same(u)
  BY <1>1, <1>2, ViewLeft, Zenon
<1> QED BY <1>3, Zenon DEF Outcome, OthersPassive, Passive

\* The death of another thread, and then the answer.
LEMMA KilledOther ==
    ASSUME Running, NEW victim \in UserThread \ {me}, Lives(victim), NEW value,
           ReturnFrom(Answer(Destroy(InKernel, victim, "killed"), me, value)),
           Instruction.op = "kill"
    PROVE  Outcome([Called EXCEPT !.v0 = value])
<1> DEFINE s == InKernel
           d == Destroy(s, victim, "killed")
           c == [Called EXCEPT !.v0 = value]
<1>1. View(s, Called)
  BY ViewIs
<1>2. DestroyedIn(s, d, victim, "killed") /\ Fixed(s, d)
  BY <1>1, DestroyIs DEF View, Alive, Lives
<1>3. ReturnFrom(Answer(d, me, value))
  OBVIOUS
<1> HIDE DEF s, d
<1>4. SameIn(s, d, me) /\ d.status[me] = "READY" /\ d.queue[me] = k.queue[me]
  BY <1>1, <1>2 DEF DestroyedIn, View, Running, SameIn
<1>5. Alive(d, me)
  BY <1>4 DEF Alive
<1>6. CASE ~QueueFull(d, me)
  <2> DEFINE r == tmSetReturnValue(d, me, value)
             v == tmSetReturnValue(s, me, value)
  <2>1. View(v, c)
    BY <1>1, ValueView, Zenon
  <2>2. /\ Fixed(d, r) /\ r.status = d.status /\ r.from = d.from /\ r.queue = d.queue
        /\ r.context[me] = [d.context[me] EXCEPT !.v0 = value]
        /\ \A u \in UserThread \ {me} : r.context[u] = d.context[u]
    BY <1>2, ValueIs DEF Fixed, Running
  <2>3. /\ Fixed(s, v) /\ v.status = s.status /\ v.from = s.from /\ v.queue = s.queue
        /\ v.context[me] = [s.context[me] EXCEPT !.v0 = value]
        /\ \A u \in UserThread \ {me} : v.context[u] = s.context[u]
    BY <1>1, ValueIs DEF View, Running
  <2>4. Left(r)
    BY <1>3, <1>5, <1>6, <2>2, LeftIs DEF Answer, Fixed
  <2> HIDE DEF r, v
  <2>5. Fixed(v, r)
    BY <1>2, <2>2, <2>3 DEF Fixed
  <2>6. DestroyedIn(v, r, victim, "killed")
    <3>1. r.status[victim] = "killed" /\ r.queue[victim] = << >>
      BY <1>2, <2>2 DEF DestroyedIn
    <3>2. ASSUME NEW u \in UserThread \ {victim, me}
          PROVE  IF v.status[u] = "BLOCKED" /\ v.from[u] = victim THEN WokenIn(v, r, u, victim)
                 ELSE SameIn(v, r, u)
      BY <1>2, <2>2, <2>3 DEF DestroyedIn, WokenIn, SameIn
    <3>3. SameIn(v, r, me) /\ v.status[me] = "READY"
      BY <1>4, <2>2, <2>3 DEF SameIn
    <3> QED BY <3>1, <3>2, <3>3 DEF DestroyedIn
  <2>7. /\ NoneNew /\ Gone(victim, "killed") /\ GoesOn(c)
        /\ \A u \in UserThread \ {victim, me} : Same(u) \/ (Woken(u) /\ Bereaved(u))
    <3>1. "killed" \notin {"READY", "BLOCKED"} /\ victim \in UserThread /\ victim # me
      OBVIOUS
    <3> QED BY <2>1, <2>4, <2>5, <2>6, <3>1, DestroyedIs, Zenon
  <2> QED BY <2>7 DEF Outcome, OthersPassive, Passive
<1>7. CASE QueueFull(d, me)
  <2> DEFINE r == Destroy(d, me, "overflowed")
  <2>1. Fixed(d, r) /\ DestroyedIn(d, r, me, "overflowed")
    BY <1>2, <1>5, DestroyIs DEF Fixed, Running
  <2>2. Left(r)
    BY <1>3, <1>5, <1>7, <2>1, LeftIs DEF Answer, Fixed
  <2> HIDE DEF r
  <2>3. NoneNew
    BY <1>1, <1>2, <2>1, <2>2 DEF NoneNew, Kept, View, Left, Fixed
  <2>4. Gone(me, "overflowed") /\ QueueFull(k, me)
    <3>1. QueueFull(k, me)
      BY <1>4, <1>7 DEF QueueFull
    <3>2. k'.status[me] = "overflowed" /\ k'.queue[me] = << >> /\ Lives(me)
      BY <2>1, <2>2 DEF DestroyedIn, Left, Lives, Alive, Running
    <3> QED BY <3>1, <3>2 DEF Gone
  <2>5. Gone(victim, "killed")
    <3>1. d.status[victim] = "killed" /\ d.queue[victim] = << >>
      BY <1>2 DEF DestroyedIn
    <3>2. SameIn(d, r, victim)
      BY <2>1, <3>1 DEF DestroyedIn
    <3> QED BY <2>2, <3>1, <3>2 DEF Gone, SameIn, Left
  <2>6. ~Alive(k', victim) /\ ~Alive(k', me) /\ Lives(me)
    BY <2>4, <2>5 DEF Alive, Gone
  <2>7. ASSUME NEW u \in UserThread \ {victim, me}
        PROVE  Same(u) \/ (Woken(u) /\ Bereaved(u))
    <3>0. Context(Reg(u))
      BY DEF Running, Kernel, Reg, RegistersOf, Thread
    <3>1. /\ s.context[u] = Reg(u) /\ s.status[u] = k.status[u]
          /\ s.from[u] = k.from[u] /\ s.queue[u] = k.queue[u]
      BY <1>1 DEF View
    <3>2. /\ After(u) = r.context[u] /\ k'.status[u] = r.status[u]
          /\ k'.from[u] = r.from[u] /\ k'.queue[u] = r.queue[u]
      BY <2>2 DEF Left
    <3>3. CASE k.status[u] = "BLOCKED" /\ k.from[u] = victim
      <4>1. WokenIn(s, d, u, victim)
        BY <1>2, <3>1, <3>3 DEF DestroyedIn
      <4>2. SameIn(d, r, u)
        BY <2>1, <4>1 DEF DestroyedIn, WokenIn
      <4>3. /\ k'.status[u] = "READY" /\ k'.from[u] = NULL /\ k'.queue[u] = k.queue[u]
            /\ After(u) = [Reg(u) EXCEPT !.v0 = "FAILED"]
        BY <3>1, <3>2, <4>1, <4>2 DEF WokenIn, SameIn
      <4>4. After(u).v0 = "FAILED"
        BY <3>0, <4>3 DEF Context
      <4> QED BY <2>6, <3>3, <4>3, <4>4 DEF Woken, Bereaved
    <3>4. CASE ~(k.status[u] = "BLOCKED" /\ k.from[u] = victim)
      <4>1. SameIn(s, d, u)
        BY <1>2, <3>1, <3>4 DEF DestroyedIn
      <4>2. CASE k.status[u] = "BLOCKED" /\ k.from[u] = me
        <5>1. WokenIn(d, r, u, me)
          BY <2>1, <3>1, <4>1, <4>2 DEF DestroyedIn, SameIn
        <5>2. /\ k'.status[u] = "READY" /\ k'.from[u] = NULL /\ k'.queue[u] = k.queue[u]
              /\ After(u) = [Reg(u) EXCEPT !.v0 = "FAILED"]
          BY <3>1, <3>2, <4>1, <5>1 DEF WokenIn, SameIn
        <5>3. After(u).v0 = "FAILED"
          BY <3>0, <5>2 DEF Context
        <5> QED BY <2>6, <4>2, <5>2, <5>3 DEF Woken, Bereaved, Running
      <4>3. CASE ~(k.status[u] = "BLOCKED" /\ k.from[u] = me)
        <5>1. SameIn(d, r, u)
          BY <2>1, <3>1, <4>1, <4>3 DEF DestroyedIn, SameIn
        <5> QED BY <3>1, <3>2, <4>1, <5>1 DEF SameIn, Same
      <4> QED BY <4>2, <4>3
    <3> QED BY <3>3, <3>4
  <2>8. OthersPassive
    BY <2>5, <2>7 DEF OthersPassive, Passive
  <2>9. Ended
    BY <2>4 DEF Ended
  <2> QED BY <2>3, <2>8, <2>9 DEF Outcome
<1> QED BY <1>6, <1>7

\* tmKill, of itself, of a thread that is gone, and of another one.
LEMMA KillIs ==
    ASSUME Running, k.cpu.x \in Nobody, KillStep
    PROVE  \E value \in {"OK", "FAILED"} : Outcome([Called EXCEPT !.v0 = value])
<1>1. PICK victim \in UserThread : ReturnFrom(tmKill(InKernel, me, victim))
  BY DEF KillStep, Nobody
<1> DEFINE value == "OK"
<1>2. Instruction.op = "kill"
  BY DEF KillStep, Is
<1>3. ReturnFrom(Answer(Destroy(InKernel, victim, "killed"), me, value))
  BY <1>1 DEF tmKill
<1>4. View(InKernel, Called)
  BY ViewIs
<1>5. value \in {"OK", "FAILED"}
  OBVIOUS
<1>6. Alive(InKernel, victim) <=> Lives(victim)
  BY <1>4 DEF View, Alive, Lives
<1> HIDE DEF value
<1>7. CASE ~Lives(victim)
  <2>1. ReturnFrom(Answer(InKernel, me, value))
    BY <1>3, <1>4, <1>6, <1>7, DestroyIs DEF View
  <2>2. Outcome([Called EXCEPT !.v0 = value])
    BY <1>2, <1>4, <2>1, AnsweredIs
  <2> QED BY <1>5, <2>2
<1>8. CASE Lives(victim) /\ victim # me
  <2>1. Outcome([Called EXCEPT !.v0 = value])
    BY <1>2, <1>3, <1>8, KilledOther
  <2> QED BY <1>5, <2>1
<1>9. CASE victim = me
  <2> DEFINE r == Destroy(InKernel, me, "killed")
  <2>1. Lives(me)
    BY DEF Lives, Alive, Running
  <2>2. DestroyedIn(InKernel, r, me, "killed") /\ Fixed(InKernel, r)
    BY <1>4, <1>6, <1>9, <2>1, DestroyIs DEF View
  <2>3. ~Alive(r, me)
    BY <2>2 DEF DestroyedIn, Alive
  <2>4. Left(r)
    BY <1>3, <1>9, <2>2, <2>3, LeftIs DEF Answer, Fixed
  <2> HIDE DEF r
  <2>5. /\ NoneNew /\ Gone(me, "killed")
        /\ \A u \in UserThread \ {me, me} : Same(u) \/ (Woken(u) /\ Bereaved(u))
    <3>1. "killed" \notin {"READY", "BLOCKED"} /\ me \in UserThread
      BY <1>9
    <3> QED BY <1>4, <2>1, <2>2, <2>4, <3>1, DestroyedIs, Zenon
  <2>6. OthersPassive /\ Ended
    BY <1>2, <2>5 DEF OthersPassive, Passive, Ended
  <2> QED BY <1>5, <2>5, <2>6 DEF Outcome
<1> QED BY <1>7, <1>8, <1>9

\* The death of the running thread by its own doing.
LEMMA DeathIs ==
    ASSUME Running, NEW s, NEW c, View(s, c), NEW why, why \notin {"READY", "BLOCKED"},
           ReturnFrom(Destroy(s, me, why))
    PROVE  NoneNew /\ OthersPassive /\ Gone(me, why)
<1> DEFINE r == Destroy(s, me, why)
<1>1. Lives(me) /\ Alive(s, me) /\ me \in UserThread
  BY DEF Lives, Alive, Running, View
<1>2. DestroyedIn(s, r, me, why) /\ Fixed(s, r)
  BY <1>1, DestroyIs DEF View
<1>3. Left(r)
  BY <1>2, LeftIs DEF Fixed
<1> HIDE DEF r
<1>4. /\ NoneNew /\ Gone(me, why)
      /\ \A u \in UserThread \ {me, me} : Same(u) \/ (Woken(u) /\ Bereaved(u))
  BY <1>1, <1>2, <1>3, DestroyedIs, Zenon
<1> QED BY <1>4 DEF OthersPassive, Passive

\* tmExit.
LEMMA ExitIs ==
    ASSUME Running, ExitStep
    PROVE  NoneNew /\ OthersPassive /\ Ended
<1>1. View(InKernel, Called) /\ ReturnFrom(Destroy(InKernel, me, "exited"))
  BY ViewIs DEF ExitStep, tmExit
<1>2. "exited" \notin {"READY", "BLOCKED"} /\ Instruction.op = "exit"
  BY DEF ExitStep, Is
<1>3. NoneNew /\ OthersPassive /\ Gone(me, "exited")
  BY <1>1, <1>2, DeathIs, Zenon
<1> QED BY <1>2, <1>3 DEF Ended

\* A thread that the kernel ends for an access that it may not do.
LEMMA FaultIs ==
    ASSUME Running, ReturnFrom(Fault(UTLBMissHandler(k), me)),
           Instruction.op \in {"touch", "fault"}
    PROVE  NoneNew /\ OthersPassive /\ Ended
<1> DEFINE s == generalExceptionHandler(k)
<1>1. View(s, k.cpu) /\ ReturnFrom(Destroy(s, me, "faulted"))
  BY ViewIs DEF Fault, UTLBMissHandler
<1>2. "faulted" \notin {"READY", "BLOCKED"}
  OBVIOUS
<1> HIDE DEF s
<1>3. NoneNew /\ OthersPassive /\ Gone(me, "faulted")
  BY <1>1, <1>2, DeathIs, Zenon
<1> QED BY <1>3 DEF Ended

Message(c) ==
    /\ NoneNew /\ OthersPassive
    /\ \E value \in {"OK", "FAILED"} : GoesOn([c EXCEPT !.v0 = value])

\* tmMsgSend wakes the receiver, fills its queue, or ends it if the queue is full.
LEMMA SendIs ==
    ASSUME Running, SendStep, k.parent[me] \in UserThread \ {me}
    PROVE  Message(Called)
<1> DEFINE s == InKernel
           to == k.parent[me]
<1>1. View(s, Called)
  BY ViewIs
<1>2. ReturnFrom(tmMsgSend(s, me, to)) /\ Sends(to) /\ Instruction.op = "send"
  BY DEF SendStep, Is, Sends
<1>3. to \in UserThread \ {me}
  OBVIOUS
<1> HIDE DEF s, to
<1>4. Alive(s, to) <=> Lives(to)
  BY <1>1 DEF View, Alive, Lives
<1>5. CASE ~Alive(s, to)
  <2> DEFINE r == tmSetReturnValue(s, me, "FAILED")
             c == [Called EXCEPT !.v0 = "FAILED"]
  <2>1. View(r, c)
    BY <1>1, ValueView, Zenon
  <2>2. Left(r)
    BY <1>2, <1>5, <2>1, LeftIs DEF tmMsgSend, View
  <2> HIDE DEF r
  <2>3. NoneNew /\ GoesOn(c) /\ \A u \in UserThread \ {me} : Same(u)
    BY <2>1, <2>2, ViewLeft, Zenon
  <2> QED BY <2>3 DEF Message, OthersPassive, Passive
<1>6. CASE Alive(s, to) /\ s.status[to] = "BLOCKED" /\ s.from[to] = me
  <2> DEFINE w == [s EXCEPT !.status[to] = "READY", !.from[to] = NULL]
             r == tmSetReturnValue(w, me, "OK")
  <2>1. w = [ cpu |-> s.cpu, running |-> s.running, context |-> s.context,
             status |-> [s.status EXCEPT ![to] = "READY"], queue |-> s.queue,
             from |-> [s.from EXCEPT ![to] = NULL],
             parent |-> s.parent, nextId |-> s.nextId ]
    <3> DEFINE st == [s.status EXCEPT ![to] = "READY"]
               fr == [s.from EXCEPT ![to] = NULL]
    <3>1. w = [s EXCEPT !.status = st, !.from = fr]
      BY <1>1 DEF View, Kernel
    <3> HIDE DEF st, fr, w
    <3>2. w = [ cpu |-> s.cpu, running |-> s.running, context |-> s.context,
                status |-> st, queue |-> s.queue, from |-> fr,
                parent |-> s.parent, nextId |-> s.nextId ]
      BY <1>1, <3>1 DEF View, Kernel
    <3> QED BY <3>2 DEF st, fr
  <2>2. tmMsgSend(s, me, to) = r
    BY <1>6 DEF tmMsgSend
  <2> HIDE DEF w
  <2>3. Kernel(w)
    BY <1>1, <2>1 DEF View, Kernel
  <2>4. /\ Fixed(w, r) /\ r.status = w.status /\ r.from = w.from /\ r.queue = w.queue
        /\ r.context[me] = [w.context[me] EXCEPT !.v0 = "OK"]
        /\ \A u \in UserThread \ {me} : r.context[u] = w.context[u]
    BY <2>3, ValueIs DEF Running
  <2>5. Left(r)
    BY <1>2, <2>2, <2>4, LeftIs DEF Fixed
  <2> HIDE DEF r
  <2>6. NoneNew
    BY <1>1, <2>1, <2>4, <2>5 DEF NoneNew, Kept, View, Left, Fixed
  <2>7. GoesOn([Called EXCEPT !.v0 = "OK"])
    <3>1. r.status[me] = s.status[me] /\ r.from[me] = s.from[me]
      BY <1>1, <1>3, <2>1, <2>4 DEF View, Kernel, Running
    <3>2. r.context[me] = [Called EXCEPT !.v0 = "OK"] /\ r.queue = s.queue
      BY <1>1, <2>1, <2>4 DEF View
    <3> QED BY <1>1, <2>5, <3>1, <3>2 DEF GoesOn, View, Left, Running
  <2>8. \A u \in UserThread \ {me, to} : Same(u)
    <3> TAKE u \in UserThread \ {me, to}
    <3>1. /\ r.status[u] = s.status[u] /\ r.from[u] = s.from[u] /\ r.queue = s.queue
          /\ r.context[u] = s.context[u]
      BY <1>1, <2>1, <2>4 DEF View, Kernel
    <3> QED BY <1>1, <2>5, <3>1 DEF Same, View, Left
  <2>9. Woken(to) /\ k.from[to] = me
    <3>1. /\ r.status[to] = "READY" /\ r.from[to] = NULL /\ r.queue = s.queue
          /\ r.context[to] = s.context[to]
      BY <1>1, <1>3, <2>1, <2>4 DEF View, Kernel
    <3>2. Context(Reg(to))
      BY <1>3 DEF Running, Kernel, Reg, RegistersOf, Thread
    <3>3. After(to) = Reg(to)
      BY <1>1, <1>3, <2>5, <3>1 DEF View, Left
    <3>4. After(to) = [Reg(to) EXCEPT !.v0 = After(to).v0]
      BY <3>2, <3>3 DEF Context
    <3> QED BY <1>1, <1>3, <1>6, <2>5, <3>1, <3>4 DEF Woken, View, Left
  <2>10. OthersPassive
    BY <1>2, <2>8, <2>9 DEF OthersPassive, Passive
  <2> QED BY <2>6, <2>7, <2>10 DEF Message
<1>7. CASE Alive(s, to) /\ ~(s.status[to] = "BLOCKED" /\ s.from[to] = me) /\ QueueFull(s, to)
  <2> DEFINE d == Destroy(s, to, "overflowed")
             r == tmSetReturnValue(d, me, "FAILED")
             v == tmSetReturnValue(s, me, "FAILED")
             c == [Called EXCEPT !.v0 = "FAILED"]
  <2>1. DestroyedIn(s, d, to, "overflowed") /\ Fixed(s, d)
    BY <1>1, <1>3, <1>7, DestroyIs DEF View
  <2>2. tmMsgSend(s, me, to) = r
    BY <1>7 DEF tmMsgSend
  <2>3. View(v, c)
    BY <1>1, ValueView, Zenon
  <2> HIDE DEF d
  <2>4. /\ Fixed(d, r) /\ r.status = d.status /\ r.from = d.from /\ r.queue = d.queue
        /\ r.context[me] = [d.context[me] EXCEPT !.v0 = "FAILED"]
        /\ \A u \in UserThread \ {me} : r.context[u] = d.context[u]
    BY <2>1, ValueIs DEF Fixed, Running
  <2>5. /\ Fixed(s, v) /\ v.status = s.status /\ v.from = s.from /\ v.queue = s.queue
        /\ v.context[me] = [s.context[me] EXCEPT !.v0 = "FAILED"]
        /\ \A u \in UserThread \ {me} : v.context[u] = s.context[u]
    BY <1>1, ValueIs DEF View, Running
  <2>6. Left(r)
    BY <1>2, <2>2, <2>4, LeftIs DEF Fixed
  <2> HIDE DEF r, v
  <2>7. Fixed(v, r)
    BY <2>1, <2>4, <2>5 DEF Fixed
  <2>8. DestroyedIn(v, r, to, "overflowed")
    <3>1. r.status[to] = "overflowed" /\ r.queue[to] = << >>
      BY <2>1, <2>4 DEF DestroyedIn
    <3>2. ASSUME NEW u \in UserThread \ {to, me}
          PROVE  IF v.status[u] = "BLOCKED" /\ v.from[u] = to THEN WokenIn(v, r, u, to)
                 ELSE SameIn(v, r, u)
      BY <2>1, <2>4, <2>5 DEF DestroyedIn, WokenIn, SameIn
    <3>3. SameIn(s, d, me) /\ s.status[me] = "READY"
      BY <1>1, <1>3, <2>1 DEF DestroyedIn, View, Running
    <3>4. SameIn(v, r, me) /\ v.status[me] = "READY"
      BY <2>4, <2>5, <3>3 DEF SameIn
    <3> QED BY <3>1, <3>2, <3>4 DEF DestroyedIn
  <2>9. /\ NoneNew /\ Gone(to, "overflowed") /\ GoesOn(c)
        /\ \A u \in UserThread \ {to, me} : Same(u) \/ (Woken(u) /\ Bereaved(u))
    <3>1. "overflowed" \notin {"READY", "BLOCKED"} /\ to \in UserThread /\ to # me /\ Lives(to)
      BY <1>3, <1>4, <1>7
    <3> QED BY <2>3, <2>6, <2>7, <2>8, <3>1, DestroyedIs, Zenon
  <2>10. QueueFull(k, to)
    BY <1>1, <1>7 DEF QueueFull, View
  <2>11. OthersPassive
    BY <1>2, <2>9, <2>10 DEF OthersPassive, Passive
  <2> QED BY <2>9, <2>11 DEF Message
<1>8. CASE Alive(s, to) /\ ~(s.status[to] = "BLOCKED" /\ s.from[to] = me) /\ ~QueueFull(s, to)
  <2> DEFINE w == addMessageInQueue(s, to, me)
             r == tmSetReturnValue(w, me, "OK")
  <2>1. w = [ cpu |-> s.cpu, running |-> s.running, context |-> s.context,
             status |-> s.status, queue |-> [s.queue EXCEPT ![to] = Append(@, me)],
             from |-> s.from, parent |-> s.parent, nextId |-> s.nextId ]
    <3> DEFINE qu == [s.queue EXCEPT ![to] = Append(@, me)]
    <3>1. w = [s EXCEPT !.queue = qu]
      BY <1>1 DEF View, Kernel, addMessageInQueue
    <3> HIDE DEF qu, w
    <3>2. w = [ cpu |-> s.cpu, running |-> s.running, context |-> s.context,
                status |-> s.status, queue |-> qu, from |-> s.from,
                parent |-> s.parent, nextId |-> s.nextId ]
      BY <1>1, <3>1 DEF View, Kernel
    <3> QED BY <3>2 DEF qu
  <2>2. tmMsgSend(s, me, to) = r
    BY <1>8 DEF tmMsgSend
  <2> HIDE DEF w
  <2>3. Kernel(w)
    BY <1>1, <2>1 DEF View, Kernel
  <2>4. /\ Fixed(w, r) /\ r.status = w.status /\ r.from = w.from /\ r.queue = w.queue
        /\ r.context[me] = [w.context[me] EXCEPT !.v0 = "OK"]
        /\ \A u \in UserThread \ {me} : r.context[u] = w.context[u]
    BY <2>3, ValueIs DEF Running
  <2>5. Left(r)
    BY <1>2, <2>2, <2>4, LeftIs DEF Fixed
  <2> HIDE DEF r
  <2>6. NoneNew
    BY <1>1, <2>1, <2>4, <2>5 DEF NoneNew, Kept, View, Left, Fixed
  <2>7. GoesOn([Called EXCEPT !.v0 = "OK"])
    <3>1. r.queue[me] = s.queue[me] /\ r.from = s.from /\ r.status = s.status
      BY <1>1, <1>3, <2>1, <2>4 DEF View, Kernel, Running
    <3>2. r.context[me] = [Called EXCEPT !.v0 = "OK"]
      BY <1>1, <2>1, <2>4 DEF View
    <3> QED BY <1>1, <2>5, <3>1, <3>2 DEF GoesOn, View, Left, Running
  <2>8. \A u \in UserThread \ {me, to} : Same(u)
    <3> TAKE u \in UserThread \ {me, to}
    <3>1. /\ r.status = s.status /\ r.from = s.from /\ r.queue[u] = s.queue[u]
          /\ r.context[u] = s.context[u]
      BY <1>1, <2>1, <2>4 DEF View, Kernel
    <3> QED BY <1>1, <2>5, <3>1 DEF Same, View, Left
  <2>9. /\ k'.status[to] = k.status[to] /\ k'.from[to] = k.from[to] /\ After(to) = Reg(to)
        /\ k'.queue[to] = Append(k.queue[to], me)
    <3>1. /\ r.status = s.status /\ r.from = s.from /\ r.queue[to] = Append(s.queue[to], me)
          /\ r.context[to] = s.context[to]
      BY <1>1, <1>3, <2>1, <2>4 DEF View, Kernel
    <3> QED BY <1>1, <1>3, <2>5, <3>1 DEF View, Left
  <2>10. OthersPassive
    BY <1>2, <1>4, <1>8, <2>8, <2>9 DEF OthersPassive, Passive
  <2> QED BY <2>6, <2>7, <2>10 DEF Message
<1> QED BY <1>5, <1>6, <1>7, <1>8

-----------------------------------------------------------------------------
(* Receiving *)

\* Taking a message out leaves the others.
LEMMA RemoveAtLeaves ==
    ASSUME NEW S, NEW q \in Seq(S), NEW i \in 1 .. Len(q)
    PROVE  /\ RemoveAt(q, i) \in Seq(S)
           /\ Len(RemoveAt(q, i)) = Len(q) - 1
           /\ \A j \in 1 .. Len(q) - 1 :
                 RemoveAt(q, i)[j] = IF j < i THEN q[j] ELSE q[j + 1]
<1> DEFINE a == SubSeq(q, 1, i - 1)
           b == SubSeq(q, i + 1, Len(q))
<1>0. Len(q) \in Nat /\ \A j \in 1 .. Len(q) : q[j] \in S
  BY LenProperties, ElementOfSeq
<1>1. /\ a \in Seq(S)
      /\ Len(a) = i - 1
      /\ \A j \in 1 .. i - 1 : a[j] = q[j]
  BY <1>0, SubSeqProperties
<1>2. /\ b \in Seq(S)
      /\ Len(b) = Len(q) - i
      /\ \A j \in 1 .. Len(q) - i : b[j] = q[i + j]
  <2>1. /\ b \in Seq(S)
        /\ Len(b) = IF i + 1 <= Len(q) THEN Len(q) - (i + 1) + 1 ELSE 0
        /\ \A j \in 1 .. Len(q) - (i + 1) + 1 : b[j] = q[i + 1 + j - 1]
    BY <1>0, SubSeqProperties
  <2> QED  BY <1>0, <2>1
<1>3. RemoveAt(q, i) = a \o b
  BY DEF RemoveAt
<1> HIDE DEF a, b
<1>4. /\ a \o b \in Seq(S)
      /\ Len(a \o b) = Len(a) + Len(b)
      /\ \A j \in 1 .. Len(a) + Len(b) :
            (a \o b)[j] = IF j <= Len(a) THEN a[j] ELSE b[j - Len(a)]
  BY <1>1, <1>2, ConcatProperties
<1>5. ASSUME NEW j \in 1 .. Len(q) - 1
      PROVE  (a \o b)[j] = IF j < i THEN q[j] ELSE q[j + 1]
  <2>1. CASE j < i
    BY <1>0, <1>1, <1>2, <1>4, <2>1
  <2>2. CASE ~(j < i)
    <3>1. (a \o b)[j] = b[j - (i - 1)]
      BY <1>0, <1>1, <1>2, <1>4, <2>2
    <3>2. j - (i - 1) \in 1 .. Len(q) - i /\ i + (j - (i - 1)) = j + 1
      BY <1>0, <2>2
    <3> QED  BY <1>2, <2>2, <3>1, <3>2
  <2> QED  BY <2>1, <2>2
<1> QED  BY <1>0, <1>1, <1>2, <1>3, <1>4, <1>5

\* FirstFrom finds a message of the sender, if there is one.
LEMMA FirstFromFinds ==
    ASSUME NEW s, NEW t, NEW S, s.queue[t] \in Seq(S), NEW sender
    PROVE  LET q == s.queue[t]
               i == FirstFrom(s, t, sender)
           IN  \/ i = 0 /\ \A j \in 1 .. Len(q) : q[j] # sender
               \/ i \in 1 .. Len(q) /\ q[i] = sender /\ i # 0
<1> DEFINE q == s.queue[t]
           I == {j \in 1 .. Len(q) : q[j] = sender}
<1>1. FirstFrom(s, t, sender) = IF I # {} THEN Min(I) ELSE 0
  BY DEF FirstFrom, SelectInSeq
<1>2. CASE I = {}
  BY <1>1, <1>2
<1>3. CASE I # {}
  <2> DEFINE R == OpToRel(<, Nat)
  <2>0. Len(q) \in Nat
    BY LenProperties
  <2>1. I \subseteq Nat
    BY <2>0
  <2>2. PICK p \in I : \A j \in I : ~ (<<j, p>> \in R)
    <3>1. IsWellFoundedOn(R, Nat)
      BY NatLessThanWellFounded
    <3> HIDE DEF R, I
    <3> QED BY <1>3, <2>1, <3>1, WFMin
  <2> HIDE DEF I
  <2>3. \A j \in I : p <= j
    <3>1. \A j \in I : ~ (j < p)
      BY <2>1, <2>2 DEF OpToRel
    <3> QED BY <2>1, <3>1
  <2>4. Min(I) \in I
    BY <2>1, <2>3 DEF Min
  <2> QED BY <1>1, <1>3, <2>4 DEF I
<1> QED BY <1>2, <1>3

\* The running thread has received a message of the sender, or waits for one.
Received(sender) ==
    /\ k'.status[me] = "READY" /\ k'.from[me] = k.from[me]
    /\ \E i \in 1 .. Len(k.queue[me]) :
          /\ k.queue[me][i] = sender
          /\ k'.queue[me] = RemoveAt(k.queue[me], i)
    /\ After(me) = [Called EXCEPT !.v0 = "OK"]

Waits(sender) ==
    /\ Lives(sender)
    /\ \A i \in 1 .. Len(k.queue[me]) : k.queue[me][i] # sender
    /\ k'.status[me] = "BLOCKED" /\ k'.from[me] = sender
    /\ k'.queue[me] = k.queue[me]
    /\ After(me) = [Called EXCEPT !.v0 = "OK"]

\* tmMsgRecv takes the first message of the sender, or waits for one, or fails.
LEMMA RecvIs ==
    ASSUME Running, NEW S, k.queue[me] \in Seq(S), NEW sender \in UserThread,
           ReturnFrom(tmMsgRecv(InKernel, me, sender))
    PROVE  /\ NoneNew
           /\ \A u \in UserThread \ {me} : Same(u)
           /\ \/ ~Lives(sender) /\ GoesOn([Called EXCEPT !.v0 = "FAILED"])
              \/ Received(sender) \/ Waits(sender)
<1> DEFINE s == InKernel
<1>1. View(s, Called) /\ ReturnFrom(tmMsgRecv(s, me, sender))
  BY ViewIs
<1> HIDE DEF s
<1>2. Alive(s, sender) <=> Lives(sender)
  BY <1>1 DEF View, Alive, Lives
<1>3. s.queue[me] = k.queue[me] /\ me \in UserThread
  BY <1>1 DEF View, Running
<1>4. CASE ~Alive(s, sender)
  <2> DEFINE r == tmSetReturnValue(s, me, "FAILED")
             c == [Called EXCEPT !.v0 = "FAILED"]
  <2>1. View(r, c)
    BY <1>1, ValueView, Zenon
  <2>2. Left(r)
    BY <1>1, <1>4, <2>1, LeftIs DEF tmMsgRecv, View
  <2> HIDE DEF r
  <2>3. NoneNew /\ GoesOn(c) /\ \A u \in UserThread \ {me} : Same(u)
    BY <2>1, <2>2, ViewLeft, Zenon
  <2> QED BY <1>2, <1>4, <2>3
<1>5. CASE Alive(s, sender) /\ FirstFrom(s, me, sender) # 0
  <2> DEFINE i == FirstFrom(s, me, sender)
             qu == [s.queue EXCEPT ![me] = RemoveAt(@, i)]
             w == getMessageFromQueue(s, me, sender)
             r == tmSetReturnValue(w, me, "OK")
  <2>1. i \in 1 .. Len(k.queue[me]) /\ k.queue[me][i] = sender
    BY <1>3, <1>5, FirstFromFinds
  <2> HIDE DEF i
  <2>2. w = [ cpu |-> s.cpu, running |-> s.running, context |-> s.context,
             status |-> s.status, queue |-> qu,
             from |-> s.from, parent |-> s.parent, nextId |-> s.nextId ]
    <3>1. w = [s EXCEPT !.queue = qu]
      BY <1>1 DEF View, Kernel, getMessageFromQueue, i
    <3> HIDE DEF qu, w
    <3> QED BY <1>1, <3>1 DEF View, Kernel
  <2>3. tmMsgRecv(s, me, sender) = r
    BY <1>5 DEF tmMsgRecv
  <2>4. /\ qu = [u \in UserThread |-> qu[u]]
        /\ qu[me] = RemoveAt(s.queue[me], i)
        /\ \A u \in UserThread \ {me} : qu[u] = s.queue[u]
    BY <1>1, <1>3 DEF View, Kernel
  <2> HIDE DEF w, qu
  <2>5. Kernel(w)
    BY <1>1, <2>2, <2>4 DEF View, Kernel
  <2>6. /\ Fixed(w, r) /\ r.status = w.status /\ r.from = w.from /\ r.queue = w.queue
        /\ r.context[me] = [w.context[me] EXCEPT !.v0 = "OK"]
        /\ \A u \in UserThread \ {me} : r.context[u] = w.context[u]
    BY <1>3, <2>5, ValueIs
  <2>7. Left(r)
    BY <1>1, <2>3, <2>6, LeftIs DEF Fixed
  <2> HIDE DEF r
  <2>8. NoneNew
    BY <1>1, <2>2, <2>6, <2>7 DEF NoneNew, Kept, View, Left, Fixed
  <2>9. Received(sender)
    <3>1. r.status = s.status /\ r.from = s.from /\ r.queue[me] = RemoveAt(k.queue[me], i)
      BY <1>3, <2>2, <2>4, <2>6
    <3>2. r.context[me] = [Called EXCEPT !.v0 = "OK"]
      BY <1>1, <2>2, <2>6 DEF View
    <3>3. /\ k'.status[me] = "READY" /\ k'.from[me] = k.from[me]
          /\ k'.queue[me] = RemoveAt(k.queue[me], i)
          /\ After(me) = [Called EXCEPT !.v0 = "OK"]
      BY <1>1, <1>3, <2>7, <3>1, <3>2 DEF View, Left, Running
    <3> QED BY <2>1, <3>3 DEF Received
  <2>10. \A u \in UserThread \ {me} : Same(u)
    <3> TAKE u \in UserThread \ {me}
    <3>1. /\ r.status = s.status /\ r.from = s.from /\ r.queue[u] = s.queue[u]
          /\ r.context[u] = s.context[u]
      BY <2>2, <2>4, <2>6
    <3> QED BY <1>1, <2>7, <3>1 DEF Same, View, Left
  <2> QED BY <2>8, <2>9, <2>10
<1>6. CASE Alive(s, sender) /\ ~(FirstFrom(s, me, sender) # 0)
  <2> DEFINE st == [s.status EXCEPT ![me] = "BLOCKED"]
             fr == [s.from EXCEPT ![me] = sender]
             w == [s EXCEPT !.status[me] = "BLOCKED", !.from[me] = sender]
             r == tmSetReturnValue(w, me, "OK")
  <2>1. \A i \in 1 .. Len(k.queue[me]) : k.queue[me][i] # sender
    BY <1>3, <1>6, FirstFromFinds
  <2>2. w = [ cpu |-> s.cpu, running |-> s.running, context |-> s.context,
             status |-> st, queue |-> s.queue,
             from |-> fr, parent |-> s.parent, nextId |-> s.nextId ]
    <3>1. w = [s EXCEPT !.status = st, !.from = fr]
      BY <1>1 DEF View, Kernel
    <3> HIDE DEF st, fr, w
    <3> QED BY <1>1, <3>1 DEF View, Kernel
  <2>3. tmMsgRecv(s, me, sender) = r
    BY <1>6 DEF tmMsgRecv
  <2>4. /\ st = [u \in UserThread |-> st[u]] /\ fr = [u \in UserThread |-> fr[u]]
        /\ st[me] = "BLOCKED" /\ fr[me] = sender
        /\ \A u \in UserThread \ {me} : st[u] = s.status[u] /\ fr[u] = s.from[u]
    BY <1>1, <1>3 DEF View, Kernel
  <2> HIDE DEF w, st, fr
  <2>5. Kernel(w)
    BY <1>1, <2>2, <2>4 DEF View, Kernel
  <2>6. /\ Fixed(w, r) /\ r.status = w.status /\ r.from = w.from /\ r.queue = w.queue
        /\ r.context[me] = [w.context[me] EXCEPT !.v0 = "OK"]
        /\ \A u \in UserThread \ {me} : r.context[u] = w.context[u]
    BY <1>3, <2>5, ValueIs
  <2>7. Left(r)
    BY <1>1, <2>3, <2>6, LeftIs DEF Fixed
  <2> HIDE DEF r
  <2>8. NoneNew
    BY <1>1, <2>2, <2>6, <2>7 DEF NoneNew, Kept, View, Left, Fixed
  <2>9. Waits(sender)
    <3>1. r.status[me] = "BLOCKED" /\ r.from[me] = sender /\ r.queue = s.queue
      BY <2>2, <2>4, <2>6
    <3>2. r.context[me] = [Called EXCEPT !.v0 = "OK"]
      BY <1>1, <2>2, <2>6 DEF View
    <3>3. /\ k'.status[me] = "BLOCKED" /\ k'.from[me] = sender
          /\ k'.queue[me] = k.queue[me]
          /\ After(me) = [Called EXCEPT !.v0 = "OK"]
      BY <1>1, <1>3, <2>7, <3>1, <3>2 DEF View, Left
    <3> QED BY <1>2, <1>6, <2>1, <3>3 DEF Waits
  <2>10. \A u \in UserThread \ {me} : Same(u)
    <3> TAKE u \in UserThread \ {me}
    <3>1. /\ r.status[u] = s.status[u] /\ r.from[u] = s.from[u] /\ r.queue = s.queue
          /\ r.context[u] = s.context[u]
      BY <2>2, <2>4, <2>6
    <3> QED BY <1>1, <2>7, <3>1 DEF Same, View, Left
  <2> QED BY <2>8, <2>9, <2>10
<1> QED BY <1>4, <1>5, <1>6

-----------------------------------------------------------------------------
(* Starting a thread *)

\* The context that threadBuild prepares.
LEMMA NewContextIs ==
    ASSUME NEW function, NEW parameter
    PROVE  LET c == NewContext(function, parameter)
           IN  /\ Context(c) /\ c.pc[1] = function /\ c.pc[2] = 1 /\ c.a0 = parameter
               /\ c.v0 = "OK" /\ c.x = NULL /\ c.y = NULL /\ c.sr = TRUE
<1>1. NewContext(function, parameter) =
         [pc |-> <<function, 1>>, a0 |-> parameter, v0 |-> "OK", x |-> NULL, y |-> NULL,
          sr |-> TRUE]
  <2> DEFINE pc == <<function, 1>>
             a == InitialContext(function, parameter)
  <2>1. a = [Register EXCEPT !.pc = pc, !.a0 = parameter, !.sr = FALSE]
    BY DEF InitialContext
  <2> HIDE DEF pc, a
  <2>2. a = [pc |-> pc, a0 |-> parameter, v0 |-> "OK", x |-> NULL, y |-> NULL, sr |-> FALSE]
    BY <2>1 DEF Register
  <2>3. NewContext(function, parameter) = [a EXCEPT !.sr = TRUE]
    BY DEF a, NewContext, enableAllInterruptsInContext
  <2>4. NewContext(function, parameter) =
          [pc |-> pc, a0 |-> parameter, v0 |-> "OK", x |-> NULL, y |-> NULL, sr |-> TRUE]
    BY <2>2, <2>3
  <2> QED BY <2>4 DEF pc
<1>2. Counter(<<function, 1>>)
  BY Counters
<1> QED BY <1>1, <1>2 DEF Context

\* The registers of the running thread with the id of a new one in reg.
Given(reg) == [k.cpu EXCEPT ![reg] = k.nextId]
GivenAndCalled(reg) == [Given(reg) EXCEPT !.pc = Following(@)]

\* It is a context, with the new id and behind the call.
LEMMA GivenIs ==
    ASSUME Running, NEW reg \in {"x", "y"}
    PROVE  LET c == [GivenAndCalled(reg) EXCEPT !.v0 = "OK"]
           IN  /\ Context(Given(reg)) /\ Context(c)
               /\ c.pc = Following(k.cpu.pc) /\ c.a0 = k.cpu.a0 /\ c.sr = k.cpu.sr /\ c.v0 = "OK"
               /\ reg = "x" => c.x = k.nextId /\ c.y = k.cpu.y
               /\ reg = "y" => c.y = k.nextId /\ c.x = k.cpu.x
<1>1. Context(k.cpu) /\ Counter(Following(k.cpu.pc))
  BY FollowingIs DEF Running, Kernel, Context
<1>2. CASE reg = "x"
  <2>1. Given(reg) = [pc |-> k.cpu.pc, a0 |-> k.cpu.a0, v0 |-> k.cpu.v0, x |-> k.nextId,
                      y |-> k.cpu.y, sr |-> k.cpu.sr]
    BY <1>1, <1>2 DEF Context, Given
  <2>2. Context(Given(reg))
    BY <1>1, <2>1 DEF Context
  <2>3. GivenAndCalled(reg) = [pc |-> Following(k.cpu.pc), a0 |-> k.cpu.a0, v0 |-> k.cpu.v0,
                               x |-> k.nextId, y |-> k.cpu.y, sr |-> k.cpu.sr]
    BY <2>1 DEF GivenAndCalled
  <2> QED BY <1>1, <1>2, <2>2, <2>3 DEF Context
<1>3. CASE reg = "y"
  <2>1. Given(reg) = [pc |-> k.cpu.pc, a0 |-> k.cpu.a0, v0 |-> k.cpu.v0, x |-> k.cpu.x,
                      y |-> k.nextId, sr |-> k.cpu.sr]
    BY <1>1, <1>3 DEF Context, Given
  <2>2. Context(Given(reg))
    BY <1>1, <2>1 DEF Context
  <2>3. GivenAndCalled(reg) = [pc |-> Following(k.cpu.pc), a0 |-> k.cpu.a0, v0 |-> k.cpu.v0,
                               x |-> k.cpu.x, y |-> k.nextId, sr |-> k.cpu.sr]
    BY <2>1 DEF GivenAndCalled
  <2> QED BY <1>1, <1>3, <2>2, <2>3 DEF Context
<1> QED BY <1>2, <1>3

\* The new thread, and what becomes of the others.
Created(function, parameter) ==
    LET new == k.nextId
    IN  /\ Kept
        /\ new \in UserThread /\ k'.nextId = new + 1
        /\ k'.parent[new] = me
        /\ \A u \in UserThread \ {new} : k'.parent[u] = k.parent[u]
        /\ k'.status[new] = "READY" /\ k'.queue[new] = k.queue[new]
        /\ After(new) = NewContext(function, parameter)
        /\ \A u \in UserThread \ {me, new} : Same(u) \/ (Woken(u) /\ Bereaved(u))

\* tmStart puts a new thread beside the others.
LEMMA StartedIs ==
    ASSUME Running, NEW function, NEW parameter, NEW reg \in {"x", "y"},
           k.nextId \in UserThread, k.status[k.nextId] = "UNUSED", Instruction.op = "start",
           ReturnFrom(tmStart(syscallExceptionHandler([k EXCEPT !.cpu = Given(reg)]),
                              me, function, parameter))
    PROVE  /\ Created(function, parameter)
           /\ Ended \/ GoesOn([GivenAndCalled(reg) EXCEPT !.v0 = "OK"])
<1> DEFINE new == k.nextId
           k2 == [k EXCEPT !.cpu = Given(reg)]
           s == syscallExceptionHandler(k2)
           n == NewContext(function, parameter)
           st == [s.status EXCEPT ![new] = "READY"]
           pa == [s.parent EXCEPT ![new] = me]
           co == [s.context EXCEPT ![new] = n]
           w == [s EXCEPT !.nextId = new + 1, !.status[new] = "READY", !.parent[new] = me,
                          !.context[new] = n]
           c == GivenAndCalled(reg)
<1>0. new # me /\ me \in UserThread /\ new \in UserThread
  BY DEF Running
<1>1. View(s, c)
  <2>1. k2 = [ cpu |-> Given(reg), running |-> k.running, context |-> k.context,
               status |-> k.status, queue |-> k.queue, from |-> k.from,
               parent |-> k.parent, nextId |-> k.nextId ]
    BY DEF Running, Kernel
  <2>2. Context(Given(reg))
    BY GivenIs
  <2> HIDE DEF k2
  <2>3. Kernel(k2)
    BY <2>1, <2>2 DEF Running, Kernel
  <2>4. /\ Kernel(s)
        /\ s.running = k2.running /\ s.parent = k2.parent /\ s.nextId = k2.nextId
        /\ s.status = k2.status /\ s.from = k2.from /\ s.queue = k2.queue
        /\ s.context[k2.running] = [k2.cpu EXCEPT !.pc = Following(@)]
        /\ \A u \in Thread \ {k2.running} : s.context[u] = k2.context[u]
    BY <2>3, CalledIs
  <2>5. \A u \in UserThread \ {me} : Reg(u) = k.context[u] /\ u \in Thread \ {k.running}
    BY DEF Reg, RegistersOf, Thread
  <2> HIDE DEF s
  <2>6. s.context[me] = c
    BY <2>1, <2>4 DEF GivenAndCalled
  <2> QED BY <2>1, <2>4, <2>5, <2>6 DEF View
<1>2. ReturnFrom(tmStart(s, me, function, parameter))
  OBVIOUS
<1> HIDE DEF s, k2, c, n
<1>3. s.nextId = new /\ Starts(s)
  BY <1>1 DEF View, Starts
<1>4. tmStart(s, me, function, parameter) = Answer(w, me, "OK")
  BY <1>3 DEF tmStart, n
<1>5. w = [ cpu |-> s.cpu, running |-> s.running, context |-> co,
            status |-> st, queue |-> s.queue, from |-> s.from,
            parent |-> pa, nextId |-> new + 1 ]
  <2>1. w = [s EXCEPT !.nextId = new + 1, !.status = st, !.parent = pa, !.context = co]
    BY <1>1 DEF View, Kernel
  <2> HIDE DEF st, pa, co, w
  <2> QED BY <1>1, <2>1 DEF View, Kernel
<1>6. /\ st = [u \in UserThread |-> st[u]] /\ pa = [u \in UserThread |-> pa[u]]
      /\ st[new] = "READY" /\ pa[new] = me
      /\ \A u \in UserThread \ {new} : st[u] = s.status[u] /\ pa[u] = s.parent[u]
  BY <1>1 DEF View, Kernel
<1>7. /\ co = [u \in Thread |-> co[u]] /\ co[new] = n
      /\ \A u \in Thread \ {new} : co[u] = s.context[u]
  BY <1>0, <1>1 DEF View, Kernel, Thread
<1> HIDE DEF w, st, pa, co
<1>8. Context(n)
  BY NewContextIs DEF n
<1>9. Kernel(w)
  <2>1. \A u \in Thread : Context(co[u])
    BY <1>1, <1>7, <1>8 DEF View, Kernel
  <2> QED BY <1>1, <1>5, <1>6, <1>7, <2>1 DEF View, Kernel
<1>10. /\ w.status[me] = "READY" /\ w.queue = k.queue /\ w.from = k.from
       /\ w.context[me] = c
       /\ \A u \in UserThread \ {me, new} :
             w.status[u] = k.status[u] /\ w.context[u] = Reg(u)
  BY <1>0, <1>1, <1>5, <1>6, <1>7 DEF View, Running, Thread
<1>11. w.status[new] = "READY" /\ w.context[new] = n /\ w.parent = pa /\ w.nextId = new + 1
  BY <1>5, <1>6, <1>7
<1>12. \A u \in UserThread \ {new} : pa[u] = k.parent[u]
  BY <1>1, <1>6 DEF View
<1>13. CASE ~QueueFull(w, me)
  <2> DEFINE r == tmSetReturnValue(w, me, "OK")
  <2>1. Answer(w, me, "OK") = r
    BY <1>10, <1>13 DEF Answer, Alive
  <2>2. /\ Fixed(w, r) /\ r.status = w.status /\ r.from = w.from /\ r.queue = w.queue
        /\ r.context[me] = [w.context[me] EXCEPT !.v0 = "OK"]
        /\ \A u \in UserThread \ {me} : r.context[u] = w.context[u]
    BY <1>0, <1>9, ValueIs
  <2>3. Left(r)
    BY <1>2, <1>4, <2>1, <2>2, LeftIs DEF Fixed
  <2> HIDE DEF r
  <2>4. GoesOn([c EXCEPT !.v0 = "OK"])
    BY <1>0, <1>10, <2>2, <2>3 DEF GoesOn, Left
  <2>5. \A u \in UserThread \ {me, new} : Same(u)
    BY <1>10, <2>2, <2>3 DEF Same, Left
  <2>6. /\ k'.nextId = new + 1 /\ k'.parent[new] = me
        /\ \A u \in UserThread \ {new} : k'.parent[u] = k.parent[u]
    BY <1>6, <1>11, <1>12, <2>2, <2>3 DEF Left, Fixed
  <2>7. k'.status[new] = "READY" /\ k'.queue[new] = k.queue[new] /\ After(new) = n
    BY <1>0, <1>10, <1>11, <2>2, <2>3 DEF Left
  <2>8. Created(function, parameter)
    BY <1>0, <2>3, <2>5, <2>6, <2>7 DEF Created, n, Kept, Left
  <2> QED BY <2>4, <2>8 DEF c
<1>14. CASE QueueFull(w, me)
  <2> DEFINE r == Destroy(w, me, "overflowed")
  <2>1. Alive(w, me)
    BY <1>10 DEF Alive
  <2>2. Answer(w, me, "OK") = r
    BY <1>14, <2>1 DEF Answer
  <2>3. Fixed(w, r) /\ DestroyedIn(w, r, me, "overflowed")
    BY <1>0, <1>9, <2>1, DestroyIs
  <2>4. Left(r)
    BY <1>2, <1>4, <2>2, <2>3, LeftIs DEF Fixed
  <2> HIDE DEF r
  <2>5. Ended
    <3>1. QueueFull(k, me)
      BY <1>10, <1>14 DEF QueueFull
    <3>2. k'.status[me] = "overflowed" /\ k'.queue[me] = << >> /\ Lives(me)
      BY <1>0, <2>3, <2>4 DEF DestroyedIn, Left, Lives, Alive, Running
    <3> QED BY <3>1, <3>2 DEF Gone, Ended
  <2>6. SameIn(w, r, new)
    BY <1>0, <1>11, <2>3 DEF DestroyedIn
  <2>7. k'.status[new] = "READY" /\ k'.queue[new] = k.queue[new] /\ After(new) = n
    BY <1>0, <1>10, <1>11, <2>4, <2>6 DEF Left, SameIn
  <2>8. /\ k'.nextId = new + 1 /\ k'.parent[new] = me
        /\ \A u \in UserThread \ {new} : k'.parent[u] = k.parent[u]
    BY <1>6, <1>11, <1>12, <2>3, <2>4 DEF Left, Fixed
  <2>9. ASSUME NEW u \in UserThread \ {me, new}
        PROVE  Same(u) \/ (Woken(u) /\ Bereaved(u))
    <3>0. Context(Reg(u))
      BY DEF Running, Kernel, Reg, RegistersOf, Thread
    <3>1. /\ w.context[u] = Reg(u) /\ w.status[u] = k.status[u]
          /\ w.from[u] = k.from[u] /\ w.queue[u] = k.queue[u]
      BY <1>10
    <3>2. /\ After(u) = r.context[u] /\ k'.status[u] = r.status[u]
          /\ k'.from[u] = r.from[u] /\ k'.queue[u] = r.queue[u]
      BY <2>4 DEF Left
    <3>3. CASE k.status[u] = "BLOCKED" /\ k.from[u] = me
      <4>1. WokenIn(w, r, u, me)
        BY <2>3, <3>1, <3>3 DEF DestroyedIn
      <4>2. /\ k'.status[u] = "READY" /\ k'.from[u] = NULL /\ k'.queue[u] = k.queue[u]
            /\ After(u) = [Reg(u) EXCEPT !.v0 = "FAILED"]
        BY <3>1, <3>2, <4>1 DEF WokenIn
      <4>3. After(u).v0 = "FAILED"
        BY <3>0, <4>2 DEF Context
      <4>4. Lives(me) /\ ~Alive(k', me)
        BY <2>5 DEF Ended, Gone, Alive
      <4> QED BY <1>0, <3>3, <4>2, <4>3, <4>4 DEF Woken, Bereaved
    <3>4. CASE ~(k.status[u] = "BLOCKED" /\ k.from[u] = me)
      <4>1. SameIn(w, r, u)
        BY <2>3, <3>1, <3>4 DEF DestroyedIn
      <4> QED BY <3>1, <3>2, <4>1 DEF SameIn, Same
    <3> QED BY <3>3, <3>4
  <2>10. Created(function, parameter)
    BY <1>0, <2>4, <2>7, <2>8, <2>9 DEF Created, n, Kept, Left
  <2> QED BY <2>5, <2>10
<1> QED BY <1>13, <1>14

-----------------------------------------------------------------------------
(* What a step does to the running thread *)

\* A step that stays in the program.
LEMMA LocalIs ==
    ASSUME Running, NEW c, Context(c), Registers(c)
    PROVE  NoneNew /\ GoesOn(c) /\ \A u \in UserThread \ {me} : Same(u)
<1>1. k' = [cpu |-> c, running |-> k.running, context |-> k.context,
            status |-> k.status, queue |-> k.queue, from |-> k.from,
            parent |-> k.parent, nextId |-> k.nextId]
  BY DEF Running, Kernel, Registers
<1>2. Kernel(k')
  BY <1>1 DEF Running, Kernel
<1>3. NoneNew
  BY <1>1, <1>2 DEF NoneNew, Kept, Running
<1>4. GoesOn(c)
  BY <1>1 DEF GoesOn, After, RegistersOf, Running
<1>5. \A u \in UserThread \ {me} : Same(u)
  BY <1>1 DEF Same, After, Reg, RegistersOf
<1> QED BY <1>3, <1>4, <1>5

\* The registers with which the running thread goes on, if it has neither started
\* a thread nor waited for a message.
NextPlace(d) ==
    \/ d.pc = Following(k.cpu.pc) /\ Instruction.op # "readLine"
    \/ Instruction.op \in {"goto", "iffailed"} /\ d.pc = Instruction.to
    \/ /\ Instruction.op = "test"
       /\ d.pc[1] \in {"crashMeSyscallTest", "stressTest", "memoryTestAll", "trapTest",
                       "return"}
       /\ d.pc[2] = 1
    \/ Instruction.op = "readLine" /\ d.pc = k.cpu.pc
    \/ /\ Instruction.op = "readLine" /\ d.pc # k.cpu.pc
       /\ \E command \in Commands :
             d.pc[1] = command.do /\ d.pc[2] = 1 /\ d.y = command.program
       /\ d.x \in Nobody
    \/ Instruction.op = "sell" /\ d.pc[1] = "Res_Thread" /\ d.pc[2] = 6

NextValue(d) ==
    /\ d.x # k.cpu.x =>
          \/ Instruction.op \in {"look", "sell"}
          \/ Instruction.op = "readLine" /\ d.pc # k.cpu.pc
    /\ d.y # k.cpu.y =>
          \/ Instruction.op \in {"look", "sum", "readArguments"}
          \/ Instruction.op = "readLine" /\ d.pc # k.cpu.pc
    /\ Instruction.op = "readArguments" => d.y \in ArgumentsAt(k.cpu.a0)
    /\ Instruction.op = "iffailed" /\ k.cpu.v0 = "OK" => d.pc = Following(k.cpu.pc)
    /\ d.pc = k.cpu.pc => d = [k.cpu EXCEPT !.v0 = d.v0]

Moves(d) ==
    /\ Context(d) /\ d.a0 = k.cpu.a0 /\ d.sr = k.cpu.sr
    /\ NextPlace(d) /\ NextValue(d)

GoesOnSomewhere == \E d : Moves(d) /\ GoesOn(d)

\* The next instruction is another one.
LEMMA MovedOn == \A pc : Counter(pc) => Following(pc) # pc
<1> TAKE pc
<1> HAVE Counter(pc)
<1> QED BY FollowingIs, Counters

\* The registers behind a call that has returned value.
LEMMA CalledContext ==
    ASSUME Running, NEW value
    PROVE  LET d == [Called EXCEPT !.v0 = value]
           IN  /\ Context(d) /\ d.a0 = k.cpu.a0 /\ d.sr = k.cpu.sr /\ d.x = k.cpu.x
               /\ d.y = k.cpu.y /\ d.pc = Following(k.cpu.pc) /\ d.v0 = value
<1>1. Context(k.cpu) /\ Counter(Following(k.cpu.pc))
  BY FollowingIs DEF Running, Kernel, Context
<1>2. Called = [pc |-> Following(k.cpu.pc), a0 |-> k.cpu.a0, v0 |-> k.cpu.v0, x |-> k.cpu.x,
                y |-> k.cpu.y, sr |-> k.cpu.sr]
  BY <1>1 DEF Context, Called
<1> QED BY <1>1, <1>2 DEF Context

\* A caller moves on as its instruction says.
LEMMA ResumesIs ==
    ASSUME Running, NEW value,
           Instruction.op \in {"call", "start", "kill", "yield", "send", "recv"}
    PROVE  Moves([Called EXCEPT !.v0 = value])
<1> DEFINE d == [Called EXCEPT !.v0 = value]
<1>1. /\ Context(d) /\ d.a0 = k.cpu.a0 /\ d.sr = k.cpu.sr /\ d.x = k.cpu.x
      /\ d.y = k.cpu.y /\ d.pc = Following(k.cpu.pc)
  BY CalledContext
<1>2. d.pc # k.cpu.pc
  BY <1>1, MovedOn DEF Running, Kernel, Context
<1> HIDE DEF d
<1>3. Moves(d)
  BY <1>1, <1>2 DEF Moves, NextPlace, NextValue
<1> QED BY <1>3 DEF d

\* A step to the next instruction.
LEMMA StepIs ==
    ASSUME Running, NEW c, Context(c), c.pc = k.cpu.pc, c.a0 = k.cpu.a0, c.sr = k.cpu.sr,
           Step(c),
           Instruction.op \in {"touch", "getArguments", "copyArguments", "noSeats", "book",
                               "readArguments", "look", "sell", "sum", "iffailed"},
           c.x # k.cpu.x => Instruction.op \in {"look", "sell"},
           c.y # k.cpu.y => Instruction.op \in {"look", "sum", "readArguments"},
           Instruction.op = "readArguments" => c.y \in ArgumentsAt(k.cpu.a0)
    PROVE  NoneNew /\ OthersPassive /\ GoesOnSomewhere
<1> DEFINE d == [c EXCEPT !.pc = Following(@)]
<1>1. Counter(Following(c.pc))
  BY FollowingIs DEF Context
<1>2. Context(d) /\ d.pc = Following(k.cpu.pc) /\ d.a0 = c.a0 /\ d.sr = c.sr
      /\ d.x = c.x /\ d.y = c.y
  BY <1>1 DEF Context
<1>3. Registers(d)
  BY DEF Step
<1> HIDE DEF d
<1>4. NoneNew /\ GoesOn(d) /\ \A u \in UserThread \ {me} : Same(u)
  BY <1>2, <1>3, LocalIs
<1>5. d.pc # k.cpu.pc
  BY <1>2, MovedOn DEF Running, Kernel, Context
<1>6. Moves(d)
  BY <1>2, <1>5 DEF Moves, NextPlace, NextValue
<1> QED BY <1>4, <1>6 DEF OthersPassive, Passive, GoesOnSomewhere

\* A jump.
LEMMA JumpIs ==
    ASSUME Running, NEW pc, Counter(pc), Registers([k.cpu EXCEPT !.pc = pc]),
           NextPlace([k.cpu EXCEPT !.pc = pc]),
           Instruction.op \in {"goto", "iffailed", "test", "sell"},
           Instruction.op = "iffailed" => k.cpu.v0 # "OK"
    PROVE  NoneNew /\ OthersPassive /\ GoesOnSomewhere
<1> DEFINE d == [k.cpu EXCEPT !.pc = pc]
<1>1. Context(k.cpu)
  BY DEF Running, Kernel
<1>2. Context(d) /\ d.pc = pc /\ d.a0 = k.cpu.a0 /\ d.sr = k.cpu.sr
      /\ d.x = k.cpu.x /\ d.y = k.cpu.y /\ d.v0 = k.cpu.v0
  BY <1>1 DEF Context
<1>3. d.pc = k.cpu.pc => d = [k.cpu EXCEPT !.v0 = d.v0]
  BY <1>1 DEF Context
<1> HIDE DEF d
<1>4. NoneNew /\ GoesOn(d) /\ \A u \in UserThread \ {me} : Same(u)
  BY <1>2, LocalIs DEF d
<1>5. Moves(d)
  BY <1>2, <1>3 DEF Moves, NextValue, d
<1> QED BY <1>4, <1>5 DEF OthersPassive, Passive, GoesOnSomewhere

-----------------------------------------------------------------------------
(* What a step of the running thread does *)

Receives ==
    \E sender \in UserThread :
       /\ k.cpu[Instruction.reg] # NULL => sender = k.cpu[Instruction.reg]
       /\ \/ ~Lives(sender) /\ GoesOnSomewhere
          \/ Received(sender)
          \/ Waits(sender)

Mine ==
    \/ Instruction.op # "recv" /\ (Ended \/ GoesOnSomewhere)
    \/ Instruction.op = "recv" /\ Receives

Ordinary == NoneNew /\ OthersPassive /\ Mine

\* What StartStep starts.
Function == CASE Instruction.function = "named" -> k.cpu.y
              [] Instruction.function = "given" -> k.cpu.a0[2]
              [] OTHER -> Instruction.function
Parameter == CASE Instruction.parameter = "named" -> <<"command", k.cpu.y>>
               [] Instruction.parameter = "localArgArray" -> <<"stack", me>>
               [] OTHER -> <<Instruction.parameter>>

Starting ==
    /\ Instruction.op = "start"
    /\ Created(Function, Parameter)
    /\ Ended \/ GoesOn([GivenAndCalled(Instruction.reg) EXCEPT !.v0 = "OK"])
    /\ job' = [job EXCEPT ![k.nextId] = IF me = 1 THEN typed ELSE job[me]]

\* What the running thread knows of itself.
LEMMA Aware ==
    ASSUME Shape, Located, me # Idle
    PROVE  /\ Running /\ Lives(me) /\ Own(me) /\ Reg(me) = k.cpu
           /\ Understood(k.cpu.pc, Instruction)
           /\ Context(k.cpu)
<1>1. Running
  BY DEF Shape, Running, Kernel, Thread
<1>2. Lives(me) /\ me \in UserThread
  BY <1>1 DEF Running, Lives, Alive
<1>3. Own(me) /\ Reg(me) = k.cpu
  BY <1>1, <1>2, OwnRegistersIs DEF Located
<1>4. Context(k.cpu) /\ Counter(k.cpu.pc)
  BY <1>1 DEF Running, Kernel, Context
<1>5. Understood(k.cpu.pc, Instruction)
  BY <1>4, Understanding DEF Instruction
<1> QED BY <1>1, <1>2, <1>3, <1>4, <1>5

\* goto, iffailed and the choice of a test.
LEMMA ComputeIs ==
    ASSUME Shape, Located, Compute
    PROVE  Ordinary
<1>0. Running /\ Legal(k.cpu.pc, Instruction) /\ Context(k.cpu)
  BY Aware DEF Compute, Is, Understood
<1>1. CASE Is("goto") /\ Registers([k.cpu EXCEPT !.pc = Instruction.to])
  <2>1. NextPlace([k.cpu EXCEPT !.pc = Instruction.to])
    BY <1>0, <1>1 DEF NextPlace, Is, Context
  <2>2. Counter(Instruction.to) /\ Instruction.op = "goto"
    BY <1>0, <1>1 DEF Legal, Is
  <2> QED BY <1>0, <1>1, <2>1, <2>2, JumpIs DEF Ordinary, Mine
<1>2. CASE Is("iffailed") /\ k.cpu.v0 = "FAILED" /\ Registers([k.cpu EXCEPT !.pc = Instruction.to])
  <2>1. NextPlace([k.cpu EXCEPT !.pc = Instruction.to])
    BY <1>0, <1>2 DEF NextPlace, Is, Context
  <2>2. Counter(Instruction.to) /\ Instruction.op = "iffailed" /\ k.cpu.v0 # "OK"
    BY <1>0, <1>2 DEF Legal, Is
  <2> QED BY <1>0, <1>2, <2>1, <2>2, JumpIs DEF Ordinary, Mine
<1>3. CASE Is("iffailed") /\ Step(k.cpu)
  <2>1. Instruction.op = "iffailed"
    BY <1>3 DEF Is
  <2> QED BY <1>0, <1>3, <2>1, StepIs DEF Ordinary, Mine
<1>4. CASE Is("test") /\ \E test \in {"crashMeSyscallTest", "stressTest", "memoryTestAll",
                                      "trapTest", "return"} :
                            Registers([k.cpu EXCEPT !.pc = <<test, 1>>])
  <2>1. PICK test \in {"crashMeSyscallTest", "stressTest", "memoryTestAll", "trapTest",
                       "return"} : Registers([k.cpu EXCEPT !.pc = <<test, 1>>])
    BY <1>4
  <2> DEFINE pc == <<test, 1>>
  <2>2. Counter(pc) /\ pc[1] = test /\ pc[2] = 1 /\ Instruction.op = "test"
    BY <1>4, Counters DEF Is
  <2>3. Registers([k.cpu EXCEPT !.pc = pc])
    BY <2>1
  <2> HIDE DEF pc
  <2>4. NextPlace([k.cpu EXCEPT !.pc = pc])
    BY <1>0, <2>2 DEF NextPlace, Context
  <2> QED BY <1>0, <2>2, <2>3, <2>4, JumpIs DEF Ordinary, Mine
<1> QED BY <1>1, <1>2, <1>3, <1>4 DEF Compute

\* A receive.
LEMMA RecvStepIs ==
    ASSUME Shape, Located, RecvStep
    PROVE  Ordinary
<1>0. /\ Running /\ Legal(k.cpu.pc, Instruction) /\ Context(k.cpu) /\ Own(me)
      /\ Reg(me) = k.cpu /\ Instruction.op = "recv"
  BY Aware DEF RecvStep, Is, Understood
<1>1. k.cpu[Instruction.reg] \in Nobody
  <2>1. k.cpu[Instruction.reg] = IF Instruction.reg = "x" THEN k.cpu.x ELSE k.cpu.y
    BY <1>0 DEF Legal
  <2> QED BY <1>0, <2>1 DEF Legal, Own, Block, Place
<1>2. PICK sender \in UserThread :
         /\ k.cpu[Instruction.reg] # NULL => sender = k.cpu[Instruction.reg]
         /\ ReturnFrom(tmMsgRecv(InKernel, me, sender))
  BY <1>1 DEF RecvStep, Nobody
<1>3. k.queue[me] \in Seq(1 .. k.nextId - 1)
  BY <1>0 DEF Shape, Running
<1>4. /\ NoneNew
      /\ \A u \in UserThread \ {me} : Same(u)
      /\ \/ ~Lives(sender) /\ GoesOn([Called EXCEPT !.v0 = "FAILED"])
         \/ Received(sender) \/ Waits(sender)
  BY <1>0, <1>2, <1>3, RecvIs
<1>5. Moves([Called EXCEPT !.v0 = "FAILED"])
  BY <1>0, ResumesIs
<1>6. Receives
  BY <1>2, <1>4, <1>5 DEF Receives, GoesOnSomewhere
<1> QED BY <1>0, <1>4, <1>6 DEF Ordinary, Mine, OthersPassive, Passive

\* The calls that servers answer, and tmYield.
LEMMA CallStepIs ==
    ASSUME Shape, Located, CallStep \/ YieldStep \/ KillStep
    PROVE  Ordinary
<1>0. /\ Running /\ Legal(k.cpu.pc, Instruction) /\ Own(me) /\ Reg(me) = k.cpu
      /\ Instruction.op \in {"call", "yield", "kill"}
  BY Aware DEF CallStep, YieldStep, KillStep, Is, Understood
<1>1. KillStep => k.cpu.x \in Nobody
  BY <1>0 DEF KillStep, Is, Legal, Own, Block
<1>2. \E value \in {"OK", "FAILED"} : Outcome([Called EXCEPT !.v0 = value])
  BY <1>0, <1>1, CallIs, YieldIs, KillIs
<1>3. PICK value \in {"OK", "FAILED"} : Outcome([Called EXCEPT !.v0 = value])
  BY <1>2
<1>4. Moves([Called EXCEPT !.v0 = value])
  BY <1>0, ResumesIs
<1> QED BY <1>0, <1>3, <1>4 DEF Outcome, Ordinary, Mine, GoesOnSomewhere

\* A message to the parent, which is never the thread itself.
LEMMA SendStepIs ==
    ASSUME Shape, Located, SendStep
    PROVE  Ordinary /\ me # 1 /\ k.parent[me] \in UserThread
<1>0. /\ Running /\ Legal(k.cpu.pc, Instruction) /\ Own(me) /\ Reg(me) = k.cpu
      /\ Instruction.op = "send"
  BY Aware DEF SendStep, Is, Understood
<1>1. me # 1
  BY <1>0 DEF Own, Legal, Block, ShellBlocks
<1>2. k.parent[me] \in UserThread \ {me}
  BY <1>0, <1>1, CallsAssumption DEF Own, Running, UserThread
<1>3. Message(Called)
  BY <1>0, <1>2, SendIs
<1>4. PICK value \in {"OK", "FAILED"} : GoesOn([Called EXCEPT !.v0 = value])
  BY <1>3 DEF Message
<1>5. Moves([Called EXCEPT !.v0 = value])
  BY <1>0, ResumesIs
<1> QED BY <1>0, <1>1, <1>2, <1>3, <1>4, <1>5 DEF Message, Ordinary, Mine, GoesOnSomewhere

\* The ends of a thread.
LEMMA ExitStepIs ==
    ASSUME Shape, Located, ExitStep \/ TouchStep
    PROVE  Ordinary
<1>0. Running /\ Context(k.cpu) /\ Instruction.op \in {"exit", "touch", "fault"}
  BY Aware DEF ExitStep, TouchStep, Is
<1>1. CASE ExitStep
  BY <1>0, <1>1, ExitIs DEF Ordinary, Mine
<1>2. CASE Is("touch") /\ Step(k.cpu)
  <2>1. Instruction.op = "touch"
    BY <1>2 DEF Is
  <2> QED BY <1>0, <1>2, <2>1, StepIs DEF Ordinary, Mine
<1>3. CASE (Is("fault") \/ Is("touch")) /\ ReturnFrom(Fault(UTLBMissHandler(k), me))
  <2>1. Instruction.op \in {"touch", "fault"}
    BY <1>3 DEF Is
  <2> QED BY <1>0, <1>3, <2>1, FaultIs DEF Ordinary, Mine
<1> QED BY <1>1, <1>2, <1>3 DEF TouchStep

\* One or two of the variables in the registers are written.
LEMMA WrittenX ==
    ASSUME NEW c, Context(c), NEW x, NEW d, d = [c EXCEPT !.x = x]
    PROVE  Context(d) /\ d = [pc |-> c.pc, a0 |-> c.a0, v0 |-> c.v0, x |-> x, y |-> c.y,
                              sr |-> c.sr]
BY DEF Context

\* The same for y.
LEMMA WrittenY ==
    ASSUME NEW c, Context(c), NEW y, NEW d, d = [c EXCEPT !.y = y]
    PROVE  Context(d) /\ d = [pc |-> c.pc, a0 |-> c.a0, v0 |-> c.v0, x |-> c.x, y |-> y,
                              sr |-> c.sr]
BY DEF Context

\* The same for both.
LEMMA WrittenBoth ==
    ASSUME NEW c, Context(c), NEW x, NEW y
    PROVE  LET d == [c EXCEPT !.y = y, !.x = x]
           IN  Context(d) /\ d = [pc |-> c.pc, a0 |-> c.a0, v0 |-> c.v0, x |-> x, y |-> y,
                                  sr |-> c.sr]
<1> DEFINE e == [c EXCEPT !.y = y]
           d == [c EXCEPT !.y = y, !.x = x]
<1>1. Context(e) /\ e = [pc |-> c.pc, a0 |-> c.a0, v0 |-> c.v0, x |-> c.x, y |-> y,
                         sr |-> c.sr]
  BY WrittenY
<1>2. d = [e EXCEPT !.x = x]
  BY Zenon
<1> HIDE DEF e, d
<1>3. Context(d) /\ d = [pc |-> e.pc, a0 |-> e.a0, v0 |-> e.v0, x |-> x, y |-> e.y,
                         sr |-> e.sr]
  BY <1>1, <1>2, WrittenX
<1>4. Context(d) /\ d = [pc |-> c.pc, a0 |-> c.a0, v0 |-> c.v0, x |-> x, y |-> y,
                         sr |-> c.sr]
  BY <1>1, <1>3
<1> QED BY <1>4, Zenon DEF d

\* The instructions that read variables into registers.
LEMMA VariablesIs ==
    ASSUME Shape, Located, ReadArguments \/ Look \/ Sum
    PROVE  Ordinary
<1>0. /\ Running /\ Context(k.cpu)
      /\ Instruction.op \in {"readArguments", "look", "sum"}
  BY Aware DEF ReadArguments, Look, Sum, Is
<1>1. CASE ReadArguments
  <2>1. PICK found \in ArgumentsAt(k.cpu.a0) : Step([k.cpu EXCEPT !.y = found])
    BY <1>1 DEF ReadArguments
  <2> DEFINE c == [k.cpu EXCEPT !.y = found]
  <2>3. Step(c) /\ Instruction.op = "readArguments"
    BY <1>1, <2>1 DEF ReadArguments, Is
  <2>a. c = [k.cpu EXCEPT !.y = found]
    OBVIOUS
  <2> HIDE DEF c
  <2>2. /\ Context(c) /\ c.pc = k.cpu.pc /\ c.a0 = k.cpu.a0 /\ c.sr = k.cpu.sr
        /\ c.x = k.cpu.x /\ c.y = found
    BY <1>0, <2>a, WrittenY
  <2> QED BY <1>0, <2>2, <2>3, StepIs DEF Ordinary, Mine
<1>2. CASE Look
  <2> DEFINE x == IF k.cpu.x = NULL THEN 0 ELSE k.cpu.x
             y == mem.seats
             c == [k.cpu EXCEPT !.y = y, !.x = x]
  <2>1. Step(c) /\ Instruction.op = "look"
    BY <1>2 DEF Look, Is
  <2> HIDE DEF x, y
  <2>a. Context(c) /\ c = [pc |-> k.cpu.pc, a0 |-> k.cpu.a0, v0 |-> k.cpu.v0, x |-> x,
                           y |-> y, sr |-> k.cpu.sr]
    BY <1>0, WrittenBoth, Zenon
  <2> HIDE DEF c
  <2>2. /\ Context(c) /\ c.pc = k.cpu.pc /\ c.a0 = k.cpu.a0 /\ c.sr = k.cpu.sr
    BY <2>a
  <2> QED BY <1>0, <2>1, <2>2, StepIs DEF Ordinary, Mine
<1>3. CASE Sum
  <2>1. PICK sum \in 0..1 : Step([k.cpu EXCEPT !.y = sum + Total(mem.reisebuero)])
    BY <1>3 DEF Sum
  <2> DEFINE y == sum + Total(mem.reisebuero)
             c == [k.cpu EXCEPT !.y = y]
  <2>2. Step(c) /\ Instruction.op = "sum"
    BY <1>3, <2>1 DEF Sum, Is
  <2>a. c = [k.cpu EXCEPT !.y = y]
    OBVIOUS
  <2> HIDE DEF y, c
  <2>3. /\ Context(c) /\ c.pc = k.cpu.pc /\ c.a0 = k.cpu.a0 /\ c.sr = k.cpu.sr
        /\ c.x = k.cpu.x
    BY <1>0, <2>a, WrittenY
  <2> QED BY <1>0, <2>2, <2>3, StepIs DEF Ordinary, Mine
<1> QED BY <1>1, <1>2, <1>3

\* Those that write variables.
LEMMA MemoryIs ==
    ASSUME Shape, Located, GetArguments \/ CopyArguments \/ NoSeats \/ Sell \/ Book
    PROVE  Ordinary
<1>0. /\ Running /\ Context(k.cpu)
      /\ Instruction.op \in {"getArguments", "copyArguments", "noSeats", "sell", "book"}
  BY Aware DEF GetArguments, CopyArguments, NoSeats, Sell, Book, Is
<1>1. CASE Step(k.cpu)
  BY <1>0, <1>1, StepIs DEF Ordinary, Mine
<1>2. CASE Instruction.op = "sell" /\ Registers([k.cpu EXCEPT !.pc = Sold])
  <2>1. Counter(Sold) /\ Sold[1] = "Res_Thread" /\ Sold[2] = 6
    BY Counters DEF Sold
  <2>2. NextPlace([k.cpu EXCEPT !.pc = Sold])
    BY <1>0, <1>2, <2>1 DEF NextPlace, Context
  <2> QED BY <1>0, <1>2, <2>1, <2>2, JumpIs DEF Ordinary, Mine
<1>3. CASE Instruction.op = "sell" /\ Step([k.cpu EXCEPT !.x = @ + 1])
  <2> DEFINE x == k.cpu.x + 1
             c == [k.cpu EXCEPT !.x = x]
  <2>1. Step(c)
    BY <1>3
  <2>a. c = [k.cpu EXCEPT !.x = x]
    OBVIOUS
  <2> HIDE DEF x, c
  <2>2. /\ Context(c) /\ c.pc = k.cpu.pc /\ c.a0 = k.cpu.a0 /\ c.sr = k.cpu.sr
        /\ c.y = k.cpu.y
    BY <1>0, <2>a, WrittenX
  <2> QED BY <1>0, <1>3, <2>1, <2>2, StepIs DEF Ordinary, Mine
<1>4. ~Sell => Step(k.cpu)
  BY DEF GetArguments, CopyArguments, NoSeats, Book
<1>5. Sell => \/ Instruction.op = "sell" /\ Registers([k.cpu EXCEPT !.pc = Sold])
              \/ Instruction.op = "sell" /\ Step([k.cpu EXCEPT !.x = @ + 1])
  BY DEF Sell, Is
<1> QED BY <1>1, <1>2, <1>3, <1>4, <1>5

\* The command line.
LEMMA ReadLineIs ==
    ASSUME Shape, Located, ReadLine
    PROVE  Ordinary /\ script' \in Seq(Commands)
<1>0. /\ Running /\ Context(k.cpu) /\ Instruction.op = "readLine"
      /\ k.cpu.pc[1] = "main" /\ k.cpu.pc[2] = 2 /\ Own(me) /\ Reg(me) = k.cpu
  BY Aware DEF ReadLine, Is, Understood, Legal
<1>1. CASE /\ script # << >>
           /\ \E victim \in IF Head(script).do = "kill"
                            THEN {t \in UserThread : t < k.nextId} ELSE {NULL} :
                 Registers([k.cpu EXCEPT !.pc = <<Head(script).do, 1>>,
                                         !.x = victim, !.y = Head(script).program])
           /\ script' = Tail(script)
  <2> DEFINE command == Head(script)
             pc == <<command.do, 1>>
             program == command.program
             V == IF command.do = "kill" THEN {t \in UserThread : t < k.nextId} ELSE {NULL}
  <2>1. command \in Commands /\ script' \in Seq(Commands)
    BY <1>1, HeadTailProperties DEF Shape
  <2>0. PICK victim \in V : Registers([k.cpu EXCEPT !.pc = pc, !.x = victim, !.y = program])
    BY <1>1, Zenon
  <2>2. victim \in Nobody
    BY DEF Nobody
  <2>3. Counter(pc) /\ pc[1] = command.do /\ pc[2] = 1
    BY Counters
  <2> HIDE DEF pc, program
  <2> DEFINE d == [k.cpu EXCEPT !.pc = pc, !.x = victim, !.y = program]
  <2>4. d = [pc |-> pc, a0 |-> k.cpu.a0, v0 |-> k.cpu.v0, x |-> victim, y |-> program,
             sr |-> k.cpu.sr]
    <3> DEFINE e == [k.cpu EXCEPT !.pc = pc]
               f == [e EXCEPT !.x = victim]
    <3>1. Context(e) /\ e = [pc |-> pc, a0 |-> k.cpu.a0, v0 |-> k.cpu.v0, x |-> k.cpu.x,
                             y |-> k.cpu.y, sr |-> k.cpu.sr]
      BY <1>0, <2>3 DEF Context
    <3>2. d = [f EXCEPT !.y = program]
      BY Zenon
    <3> HIDE DEF e
    <3>3. Context(f) /\ f = [pc |-> e.pc, a0 |-> e.a0, v0 |-> e.v0, x |-> victim,
                             y |-> e.y, sr |-> e.sr]
      BY <3>1, WrittenX
    <3> HIDE DEF d, f
    <3>4. d = [pc |-> f.pc, a0 |-> f.a0, v0 |-> f.v0, x |-> f.x,
               y |-> program, sr |-> f.sr]
      BY <3>2, <3>3, WrittenY
    <3> QED BY <3>1, <3>3, <3>4
  <2>5. Registers(d)
    BY <2>0
  <2> HIDE DEF d
  <2>6. Context(d) /\ d.pc # k.cpu.pc
    BY <1>0, <2>3, <2>4 DEF Context
  <2>7. NoneNew /\ GoesOn(d) /\ \A u \in UserThread \ {me} : Same(u)
    BY <1>0, <2>5, <2>6, LocalIs
  <2>8. Moves(d)
    BY <1>0, <2>1, <2>2, <2>3, <2>4, <2>6 DEF Moves, NextPlace, NextValue, program
  <2> QED BY <1>0, <2>1, <2>7, <2>8 DEF Ordinary, Mine, OthersPassive, Passive, GoesOnSomewhere
<1>2. CASE /\ ReturnFrom(Answer(generalExceptionHandler(k), me, "OK"))
           /\ script' = script
  <2> DEFINE s == generalExceptionHandler(k)
             d == [k.cpu EXCEPT !.v0 = "OK"]
  <2>1. View(s, k.cpu) /\ ReturnFrom(Answer(s, me, "OK"))
    BY <1>0, <1>2, ViewIs
  <2> HIDE DEF s
  <2>2. Outcome(d)
    BY <1>0, <2>1, AnsweredIs
  <2>3. /\ Context(d) /\ d.pc = k.cpu.pc /\ d.a0 = k.cpu.a0 /\ d.sr = k.cpu.sr
        /\ d.x = k.cpu.x /\ d.y = k.cpu.y /\ d.v0 = "OK"
    BY <1>0 DEF Context
  <2>4. d = [k.cpu EXCEPT !.v0 = d.v0]
    BY <2>3
  <2> HIDE DEF d
  <2>5. Moves(d)
    BY <1>0, <2>3, <2>4 DEF Moves, NextPlace, NextValue
  <2> QED BY <1>0, <1>2, <2>2, <2>5 DEF Shape, Outcome, Ordinary, Mine, GoesOnSomewhere
<1> QED BY <1>1, <1>2 DEF ReadLine

\* A start.
LEMMA StartStepIs ==
    ASSUME Shape, Located, StartStep
    PROVE  (Ordinary /\ job' = job) \/ Starting
<1>0. /\ Running /\ LegalStart(k.cpu.pc, Instruction)
      /\ Instruction.op = "start" /\ Instruction.reg \in {"x", "y"}
  <2>1. /\ Running /\ LegalStart(k.cpu.pc, Instruction) /\ Instruction.op = "start"
    BY Aware DEF StartStep, Is, Understood
  <2> QED BY <2>1 DEF LegalStart
<1> DEFINE cpu == IF Starts(k) THEN Given(Instruction.reg) ELSE k.cpu
<1>1. ReturnFrom(tmStart(syscallExceptionHandler([k EXCEPT !.cpu = cpu]), me, Function, Parameter))
  BY DEF StartStep, Function, Parameter, Given
<1>2. CASE Starts(k)
  <2>1. k.nextId \in UserThread /\ k.status[k.nextId] = "UNUSED"
    BY <1>2 DEF Starts, Shape
  <2>2. ReturnFrom(tmStart(syscallExceptionHandler([k EXCEPT !.cpu = Given(Instruction.reg)]),
                           me, Function, Parameter))
    BY <1>1, <1>2
  <2>3. job' = [job EXCEPT ![k.nextId] = IF me = 1 THEN typed ELSE job[me]]
    BY <1>2 DEF StartStep
  <2> QED BY <1>0, <2>1, <2>2, <2>3, StartedIs DEF Starting
<1>3. CASE ~Starts(k)
  <2>1. [k EXCEPT !.cpu = k.cpu] = k
    BY <1>0 DEF Running, Kernel
  <2>2. ReturnFrom(tmStart(InKernel, me, Function, Parameter))
    BY <1>1, <1>3, <2>1 DEF InKernel
  <2>3. View(InKernel, Called)
    BY <1>0, ViewIs
  <2>4. ~Starts(InKernel)
    BY <1>3, <2>3 DEF Starts, View
  <2>5. ReturnFrom(Answer(InKernel, me, "FAILED"))
    BY <2>2, <2>4 DEF tmStart
  <2>6. Outcome([Called EXCEPT !.v0 = "FAILED"])
    BY <1>0, <2>3, <2>5, AnsweredIs
  <2>7. Moves([Called EXCEPT !.v0 = "FAILED"])
    BY <1>0, ResumesIs
  <2>8. job' = job
    BY <1>3 DEF StartStep
  <2> QED BY <1>0, <2>6, <2>7, <2>8 DEF Outcome, Ordinary, Mine, GoesOnSomewhere
<1> QED BY <1>2, <1>3

\* What a step does to the data.
Data ==
    /\ Variables(mem')
    /\ mem'.argArray = IF Instruction.op = "getArguments" THEN typed ELSE mem.argArray
    /\ \A t \in UserThread :
          mem'.localArgArray[t] = IF Instruction.op = "copyArguments" /\ t = me
                                  THEN mem.argArray ELSE mem.localArgArray[t]
    /\ Instruction.op # "readLine" => typed' = typed
    /\ script' \in Seq(Commands)

\* What a step of the running thread does to it, to the others, and to the variables.
LEMMA UserStepIs ==
    ASSUME Shape, Located, UserStep
    PROVE  me # Idle /\ Data /\ ((Ordinary /\ job' = job) \/ Starting)
<1>0. Variables(mem) /\ script \in Seq(Commands)
  BY DEF Shape
<1>1. CASE /\ Compute \/ CallStep \/ RecvStep \/ SendStep \/ YieldStep \/ KillStep
              \/ ExitStep \/ TouchStep \/ ReadArguments \/ Look \/ Sum
           /\ UNCHANGED <<clock, mem, script, typed, job>>
  <2>1. Ordinary
    BY <1>1, ComputeIs, CallStepIs, RecvStepIs, SendStepIs, ExitStepIs, VariablesIs
  <2>2. me # Idle /\ Instruction.op \notin {"getArguments", "copyArguments"}
    BY <1>1 DEF Compute, CallStep, RecvStep, SendStep, YieldStep, KillStep, ExitStep,
       TouchStep, ReadArguments, Look, Sum, Is
  <2> QED BY <1>0, <1>1, <2>1, <2>2 DEF Data
<1>2. CASE StartStep /\ UNCHANGED <<clock, mem, script, typed>>
  <2>1. (Ordinary /\ job' = job) \/ Starting
    BY <1>2, StartStepIs
  <2>2. me # Idle /\ Instruction.op = "start"
    BY <1>2 DEF StartStep, Is
  <2> QED BY <1>0, <1>2, <2>1, <2>2 DEF Data
<1>3. CASE /\ GetArguments \/ CopyArguments \/ NoSeats \/ Sell \/ Book
           /\ UNCHANGED <<clock, script, typed, job>>
  <2>1. Ordinary
    BY <1>3, MemoryIs
  <2>2. /\ me # Idle /\ Instruction.op \notin {"readLine"}
        /\ GetArguments <=> Instruction.op = "getArguments"
        /\ CopyArguments <=> Instruction.op = "copyArguments"
    BY <1>3 DEF GetArguments, CopyArguments, NoSeats, Sell, Book, Is
  <2>3. CASE GetArguments
    <3>1. mem' = [mem EXCEPT !.argArray = typed]
      BY <2>3 DEF GetArguments
    <3>2. mem' = [ argArray |-> typed, localArgArray |-> mem.localArgArray,
                   seats |-> mem.seats, reisebuero |-> mem.reisebuero ]
      BY <1>0, <3>1 DEF Variables
    <3> QED BY <1>0, <1>3, <2>1, <2>2, <2>3, <3>2 DEF Data, Variables
  <2>4. CASE CopyArguments
    <3> DEFINE l == [mem.localArgArray EXCEPT ![me] = mem.argArray]
    <3>1. mem' = [mem EXCEPT !.localArgArray = l]
      BY <1>0, <2>4 DEF CopyArguments, Variables
    <3>2. \A t \in UserThread : l[t] = IF t = me THEN mem.argArray ELSE mem.localArgArray[t]
      BY <1>0 DEF Variables
    <3>3. l = [t \in UserThread |-> l[t]]
      BY <1>0 DEF Variables
    <3> HIDE DEF l
    <3>4. mem' = [ argArray |-> mem.argArray, localArgArray |-> l,
                   seats |-> mem.seats, reisebuero |-> mem.reisebuero ]
      BY <1>0, <3>1 DEF Variables
    <3>5. Variables(mem')
      BY <3>3, <3>4 DEF Variables
    <3> QED BY <1>0, <1>3, <2>1, <2>2, <2>4, <3>2, <3>4, <3>5 DEF Data
  <2>5. CASE ~GetArguments /\ ~CopyArguments
    <3>1. PICK seats, reisebuero :
             mem' = [mem EXCEPT !.seats = seats, !.reisebuero = reisebuero]
      <4>1. CASE NoSeats
        <5>1. mem' = [mem EXCEPT !.seats = 0, !.reisebuero = mem.reisebuero]
          BY <1>0, <4>1 DEF NoSeats, Variables
        <5> QED BY <5>1, Zenon
      <4>2. CASE Sell
        <5>1. \/ mem' = [mem EXCEPT !.seats = mem.seats, !.reisebuero = mem.reisebuero]
              \/ mem' = [mem EXCEPT !.seats = k.cpu.y + 1, !.reisebuero = mem.reisebuero]
          BY <1>0, <4>2 DEF Sell, Variables
        <5> QED BY <5>1, Zenon
      <4>3. CASE Book
        <5> DEFINE r == [mem.reisebuero EXCEPT ![k.cpu.a0[1]] = k.cpu.x]
        <5>1. mem' = [mem EXCEPT !.seats = mem.seats, !.reisebuero = r]
          BY <1>0, <4>3 DEF Book, Variables
        <5> QED BY <5>1, Zenon
      <4> QED BY <1>3, <2>5, <4>1, <4>2, <4>3
    <3>2. mem' = [ argArray |-> mem.argArray, localArgArray |-> mem.localArgArray,
                   seats |-> seats, reisebuero |-> reisebuero ]
      BY <1>0, <3>1 DEF Variables
    <3> QED BY <1>0, <1>3, <2>1, <2>2, <2>5, <3>2 DEF Data, Variables
  <2> QED BY <2>3, <2>4, <2>5
<1>4. CASE ReadLine
  <2>1. Ordinary /\ script' \in Seq(Commands)
    BY <1>4, ReadLineIs
  <2>2. me # Idle /\ Instruction.op = "readLine" /\ mem' = mem /\ job' = job
    BY <1>4 DEF ReadLine, Is
  <2> QED BY <1>0, <2>1, <2>2 DEF Data
<1> QED BY <1>1, <1>2, <1>3, <1>4 DEF UserStep

-----------------------------------------------------------------------------
(* The threads after a step *)

\* A clock interrupt changes no thread.
LEMMA ClockIs ==
    ASSUME Shape, NEW next, ClockInterrupt(next)
    PROVE  NoneNew /\ \A u \in UserThread : Same(u)
<1> DEFINE r == generalExceptionHandler(k)
<1>1. /\ Kernel(r)
      /\ r.running = k.running /\ r.parent = k.parent /\ r.nextId = k.nextId
      /\ r.status = k.status /\ r.from = k.from /\ r.queue = k.queue
      /\ r.context[k.running] = k.cpu
      /\ \A u \in Thread \ {k.running} : r.context[u] = k.context[u]
  BY SavedIs DEF Shape
<1>2. next \in Candidates(r) /\ k' = restoreContext(r, next)
  BY <1>1 DEF ClockInterrupt, Candidates
<1> DEFINE q == restoreContext(r, next)
<1> HIDE DEF r
<1>3. /\ Kernel(q)
      /\ q.running = next /\ q.parent = r.parent /\ q.nextId = r.nextId
      /\ q.status = r.status /\ q.from = r.from /\ q.queue = r.queue
      /\ next # Idle => r.status[next] = "READY"
      /\ \A u \in UserThread : RegistersOf(q, u) = r.context[u]
  BY <1>1, <1>2, RestoredIs
<1> HIDE DEF q
<1>4. k' = q
  BY <1>2 DEF q
<1>5. \A u \in UserThread : r.context[u] = Reg(u)
  BY <1>1 DEF Reg, RegistersOf, Thread
<1> QED BY <1>1, <1>3, <1>4, <1>5 DEF NoneNew, Kept, Same, After

\* The registers of a thread, and whether it lives, in the next state.
LEMMA Later ==
    ASSUME NEW t
    PROVE  Reg(t)' = After(t) /\ (Lives(t)' <=> Alive(k', t))
BY DEF Reg, After, RegistersOf, Lives, Alive

\* One that does not run.
LEMMA PassiveIs ==
    ASSUME Shape, NEW t \in UserThread, Passive(t), Lives(t)'
    PROVE  /\ Lives(t)
           /\ Context(Reg(t)')
           /\ Reg(t)'.pc = Reg(t).pc /\ Reg(t)'.a0 = Reg(t).a0 /\ Reg(t)'.x = Reg(t).x
           /\ Reg(t)'.y = Reg(t).y /\ Reg(t)'.sr = Reg(t).sr
           /\ \/ k'.status[t] = k.status[t] /\ k'.from[t] = k.from[t] /\ Reg(t)' = Reg(t)
              \/ /\ Woken(t)
                 /\ Bereaved(t) \/ (Instruction.op = "send" /\ k.from[t] = me)
           /\ \/ k'.queue[t] = k.queue[t]
              \/ Sends(t) /\ k'.queue[t] = Append(k.queue[t], me)
<1>0. Reg(t)' = After(t) /\ Alive(k', t)
  BY Later
<1>1. Context(Reg(t))
  BY DEF Shape, Kernel, Reg, RegistersOf, Thread
<1>2. CASE Same(t)
  BY <1>0, <1>1, <1>2 DEF Same, Lives, Alive
<1>3. CASE Woken(t) /\ (Bereaved(t) \/ (Instruction.op = "send" /\ k.from[t] = me))
  <2>1. After(t) = [Reg(t) EXCEPT !.v0 = After(t).v0]
    BY <1>3 DEF Woken
  <2> DEFINE v == After(t).v0
  <2>2. After(t) = [Reg(t) EXCEPT !.v0 = v]
    BY <2>1
  <2> HIDE DEF v
  <2>3. After(t) = [pc |-> Reg(t).pc, a0 |-> Reg(t).a0, v0 |-> v, x |-> Reg(t).x,
                    y |-> Reg(t).y, sr |-> Reg(t).sr]
    BY <1>1, <2>2 DEF Context
  <2>4. Lives(t) /\ k'.queue[t] = k.queue[t]
    BY <1>3 DEF Woken, Lives, Alive
  <2>5. Context(After(t))
    BY <1>1, <2>3 DEF Context
  <2> QED BY <1>0, <1>3, <2>3, <2>4, <2>5
<1>4. CASE Gone(t, "killed") \/ Gone(t, "overflowed")
  BY <1>0, <1>4 DEF Gone, Alive
<1>5. CASE /\ Sends(t) /\ Lives(t)
           /\ k'.status[t] = k.status[t] /\ k'.from[t] = k.from[t] /\ After(t) = Reg(t)
           /\ k'.queue[t] = Append(k.queue[t], me)
  BY <1>0, <1>1, <1>5
<1> QED BY <1>2, <1>3, <1>4, <1>5 DEF Passive

\* The running one.
LEMMA MineIs ==
    ASSUME Shape, Located, me # Idle, Ordinary, Alive(k', me)
    PROVE  /\ Moves(After(me))
           /\ \/ k'.status[me] = "READY" /\ k'.queue[me] = k.queue[me]
              \/ /\ Instruction.op = "recv"
                 /\ \E sender \in UserThread :
                       /\ k.cpu[Instruction.reg] # NULL => sender = k.cpu[Instruction.reg]
                       /\ Received(sender) \/ Waits(sender)
<1>0. Running
  BY Aware
<1>1. ~Ended
  BY DEF Ended, Gone, Alive
<1>2. ASSUME GoesOnSomewhere
      PROVE  Moves(After(me)) /\ k'.status[me] = "READY" /\ k'.queue[me] = k.queue[me]
  BY <1>2 DEF GoesOnSomewhere, GoesOn
<1>3. ASSUME NEW sender \in UserThread, Received(sender) \/ Waits(sender),
             Instruction.op = "recv"
      PROVE  Moves(After(me))
  <2>1. Moves([Called EXCEPT !.v0 = "OK"])
    BY <1>0, <1>3, ResumesIs
  <2>2. After(me) = [Called EXCEPT !.v0 = "OK"]
    BY <1>3 DEF Received, Waits
  <2> QED BY <2>1, <2>2, Zenon
<1>4. CASE Instruction.op # "recv"
  BY <1>1, <1>2, <1>4 DEF Ordinary, Mine
<1>5. CASE Instruction.op = "recv"
  <2>1. PICK sender \in UserThread :
           /\ k.cpu[Instruction.reg] # NULL => sender = k.cpu[Instruction.reg]
           /\ \/ ~Lives(sender) /\ GoesOnSomewhere
              \/ Received(sender)
              \/ Waits(sender)
    BY <1>5 DEF Ordinary, Mine, Receives
  <2> QED BY <1>2, <1>3, <1>5, <2>1
<1> QED BY <1>4, <1>5

\* Whom a step concerns: the running thread, a new one, or another.
LEMMA Threads ==
    ASSUME Shape, Located, UserStep, NEW t \in UserThread \ {me}
    PROVE  \/ Passive(t) /\ k'.parent[t] = k.parent[t] /\ job'[t] = job[t]
           \/ Starting /\ t = k.nextId
<1>1. (Ordinary /\ job' = job) \/ Starting
  BY UserStepIs
<1>2. CASE Ordinary /\ job' = job
  BY <1>2 DEF Ordinary, OthersPassive, NoneNew
<1>3. CASE Starting /\ t # k.nextId
  BY <1>3 DEF Starting, Created, Passive, Shape
<1> QED BY <1>1, <1>2, <1>3

\* A step changes neither the parent nor the command of the running thread.
LEMMA MyOwn ==
    ASSUME Shape, Located, UserStep
    PROVE  k'.parent[me] = k.parent[me] /\ job'[me] = job[me]
<1>1. (Ordinary /\ job' = job) \/ Starting
  BY UserStepIs
<1>2. CASE Ordinary /\ job' = job
  BY <1>2 DEF Ordinary, NoneNew
<1>3. CASE Starting
  <2>1. Running
    BY UserStepIs, Aware
  <2>2. me # k.nextId /\ me \in UserThread
    BY <1>3, <2>1 DEF Starting, Created, Shape, Running
  <2> QED BY <1>3, <2>2 DEF Starting, Created, Shape
<1> QED BY <1>1, <1>2, <1>3

-----------------------------------------------------------------------------
(* Where the programs are *)

\* The commands that the shell knows.
LEMMA CommandsAre ==
    ASSUME NEW command \in Commands
    PROVE  /\ command.do \in {"start", "background", "kill", "ps", "exit"}
           /\ command.do \in Waiters => command.program \in Programs
BY DEF Commands, Waiters

\* On to the next instruction.
Onwards(d) == d.pc[1] = k.cpu.pc[1] /\ d.pc[2] = k.cpu.pc[2] + 1

\* Where a moving thread is after its step, and what its registers hold.
LEMMA OwnOfMover ==
    ASSUME Shape, Located, me # Idle, NEW d, Moves(d)
    PROVE  /\ me = 1 <=> d.pc[1] \in ShellBlocks
           /\ d.pc[1] \in Waiters => d.y \in Programs
           /\ d.pc[1] # "Res_Thread" => d.x \in Nobody
           /\ d.pc[1] = "Start_Reservation" /\ d.pc[2] <= 6 => d.y \in Nobody
           /\ d.pc[1] \in {"setupThread", "Testback1"} => Onwards(d)
           /\ d.pc[1] \in Waiters => Onwards(d) \/ (Instruction.op = "readLine" /\ d.pc[2] = 1)
<1>0. /\ Running /\ Own(me) /\ Reg(me) = k.cpu /\ Legal(k.cpu.pc, Instruction)
      /\ Counter(k.cpu.pc)
  BY Aware DEF Understood, Context
<1>1. k.cpu.pc[2] \in Nat
  BY <1>0, Counters
<1>2. /\ me = 1 <=> k.cpu.pc[1] \in ShellBlocks
      /\ k.cpu.pc[1] \in Waiters => k.cpu.y \in Programs
      /\ k.cpu.pc[1] # "Res_Thread" => k.cpu.x \in Nobody
      /\ k.cpu.pc[1] = "Start_Reservation" /\ k.cpu.pc[2] <= 6 => k.cpu.y \in Nobody
  BY <1>0 DEF Own, Block, Place
<1>3. CASE d.pc = Following(k.cpu.pc) /\ Instruction.op # "readLine"
  <2>1. d.pc[1] = k.cpu.pc[1] /\ d.pc[2] = k.cpu.pc[2] + 1
    BY <1>0, <1>3, FollowingIs
  <2>2. /\ d.x # k.cpu.x => Instruction.op \in {"look", "sell"}
        /\ d.y # k.cpu.y => Instruction.op \in {"look", "sum", "readArguments"}
    BY <1>3 DEF Moves, NextValue
  <2>3. /\ d.x # k.cpu.x => k.cpu.pc[1] = "Res_Thread"
        /\ d.y # k.cpu.y => \/ k.cpu.pc[1] \in {"Res_Thread", "Testback1"}
                            \/ k.cpu.pc[1] = "Start_Reservation" /\ k.cpu.pc[2] = 7
    BY <1>0, <2>2 DEF Legal
  <2> QED BY <1>1, <1>2, <1>3, <2>1, <2>3 DEF Waiters, Onwards
<1>4. CASE Instruction.op \in {"goto", "iffailed"} /\ d.pc = Instruction.to
  <2>1. d.x = k.cpu.x /\ d.y = k.cpu.y
    BY <1>4 DEF Moves, NextValue
  <2>2. \/ k.cpu.pc[1] \in ShellBlocks /\ d.pc = Prompt
        \/ k.cpu.pc[1] \notin ShellBlocks \cup {"Res_Thread"} /\ d.pc = Return
        \/ /\ k.cpu.pc[1] \in {"Res_Thread", "dummyThread", "childSyscallTest"}
           /\ d.pc[1] = k.cpu.pc[1]
    BY <1>0, <1>4 DEF Legal
  <2>3. Prompt[1] = "main" /\ Return[1] = "return"
    BY DEF Prompt, Return
  <2> QED BY <1>2, <2>1, <2>2, <2>3 DEF ShellBlocks, Waiters, Onwards
<1>5. CASE /\ Instruction.op = "test"
           /\ d.pc[1] \in {"crashMeSyscallTest", "stressTest", "memoryTestAll", "trapTest",
                           "return"}
  <2>1. d.x = k.cpu.x /\ k.cpu.pc[1] = "crashMeMaster"
    BY <1>0, <1>5 DEF Moves, NextValue, Legal
  <2> QED BY <1>2, <1>5, <2>1 DEF ShellBlocks, Waiters, Onwards
<1>6. CASE Instruction.op = "readLine" /\ d.pc = k.cpu.pc
  <2>1. d.x = k.cpu.x /\ d.y = k.cpu.y /\ k.cpu.pc[1] = "main"
    BY <1>0, <1>6 DEF Moves, NextValue, Legal
  <2> QED BY <1>2, <1>6, <2>1 DEF ShellBlocks, Waiters, Onwards
<1>7. CASE /\ Instruction.op = "readLine" /\ d.x \in Nobody
           /\ \E command \in Commands :
                 d.pc[1] = command.do /\ d.pc[2] = 1 /\ d.y = command.program
  <2>1. k.cpu.pc[1] = "main"
    BY <1>0, <1>7 DEF Legal
  <2>2. d.pc[1] \in {"start", "background", "kill", "ps", "exit"}
        /\ (d.pc[1] \in Waiters => d.y \in Programs)
    BY <1>7, CommandsAre
  <2> QED BY <1>2, <1>7, <2>1, <2>2 DEF ShellBlocks, Onwards
<1>8. CASE Instruction.op = "sell" /\ d.pc[1] = "Res_Thread"
  <2>1. k.cpu.pc[1] = "Res_Thread"
    BY <1>0, <1>8 DEF Legal
  <2> QED BY <1>2, <1>8, <2>1 DEF ShellBlocks, Waiters, Onwards
<1> QED BY <1>3, <1>4, <1>5, <1>6, <1>7, <1>8 DEF Moves, NextPlace

Others == {"Res_Thread", "Child", "childSyscallTest", "dummyThread", "recThread",
           "tryMemory", "empty", "trapper"}

\* The four kinds of threads that are started.
LEMMA NewbornIs ==
    ASSUME Shape, Located, Starting, me # Idle, NEW new, new = k.nextId
    PROVE  /\ new \in UserThread \ {1, me} /\ me < new
           /\ Context(After(new)) /\ After(new).pc[1] = Function /\ After(new).pc[2] = 1
           /\ After(new).a0 = Parameter /\ After(new).x = NULL /\ After(new).y = NULL
           /\ k'.status[new] = "READY" /\ k'.queue[new] = << >> /\ k'.parent[new] = me
           /\ \/ /\ me = 1 /\ k.cpu.pc[1] = "start" /\ k.cpu.pc[2] = 2 /\ Instruction.reg = "x"
                 /\ Function \in Programs /\ Parameter = <<"argArray">>
              \/ /\ me = 1 /\ k.cpu.pc[1] = "background" /\ k.cpu.pc[2] = 2
                 /\ Instruction.reg = "x" /\ Function = "setupThread"
                 /\ Parameter = <<"command", k.cpu.y>> /\ k.cpu.y \in Programs
              \/ /\ me # 1 /\ k.cpu.pc[1] = "setupThread" /\ k.cpu.pc[2] = 3
                 /\ Instruction.reg = "x" /\ Function \in Programs
                 /\ Parameter = <<"stack", me>>
              \/ /\ me # 1 /\ k.cpu.pc[1] \notin ShellBlocks \cup {"setupThread", "Res_Thread"}
                 /\ Instruction.reg \in {"x", "y"}
                 /\ Instruction.reg = "y" => k.cpu.pc[1] = "Start_Reservation" /\ k.cpu.pc[2] = 4
                 /\ Function \in Others
<1>0. /\ Running /\ Own(me) /\ Reg(me) = k.cpu /\ LegalStart(k.cpu.pc, Instruction)
      /\ me \in UserThread
  BY Aware DEF Understood, Running
<1>1. Created(Function, Parameter) /\ Instruction.op = "start"
  BY DEF Starting
<1>2. /\ new \in UserThread /\ new \in 2 .. MaxThreads + 1 /\ k.status[new] = "UNUSED"
      /\ k.queue[new] = << >>
  BY <1>1 DEF Created, Shape, UserThread
<1>3. me < new
  <2>1. ~(me >= k.nextId)
    BY <1>0 DEF Shape, Running
  <2>2. me \in Nat /\ new \in Nat
    BY <1>0, <1>2 DEF UserThread
  <2> QED BY <2>1, <2>2
<1>4. After(new) = NewContext(Function, Parameter)
  BY <1>1 DEF Created
<1>5. /\ Context(After(new)) /\ After(new).pc[1] = Function /\ After(new).pc[2] = 1
      /\ After(new).a0 = Parameter /\ After(new).x = NULL /\ After(new).y = NULL
  <2> DEFINE f == Function
             p == Parameter
  <2>1. After(new) = NewContext(f, p)
    BY <1>4
  <2> HIDE DEF f, p
  <2>2. LET c == NewContext(f, p)
        IN  /\ Context(c) /\ c.pc[1] = f /\ c.pc[2] = 1 /\ c.a0 = p
            /\ c.v0 = "OK" /\ c.x = NULL /\ c.y = NULL /\ c.sr = TRUE
    BY NewContextIs
  <2>3. /\ Context(After(new)) /\ After(new).pc[1] = f /\ After(new).pc[2] = 1
        /\ After(new).a0 = p /\ After(new).x = NULL /\ After(new).y = NULL
    BY <2>1, <2>2
  <2> QED BY <2>3 DEF f, p
<1>6. k'.status[new] = "READY" /\ k'.queue[new] = << >> /\ k'.parent[new] = me
  BY <1>1, <1>2 DEF Created
<1>7. /\ me = 1 <=> k.cpu.pc[1] \in ShellBlocks
      /\ k.cpu.pc[1] \in Waiters => k.cpu.y \in Programs
      /\ k.cpu.pc[1] = "setupThread" => k.cpu.a0[2] \in Programs
  BY <1>0 DEF Own, Block, Place
<1>8. CASE /\ k.cpu.pc[1] = "start" /\ k.cpu.pc[2] = 2 /\ Instruction.reg = "x"
           /\ Instruction.function = "named" /\ Instruction.parameter = "argArray"
  <2>1. Function = k.cpu.y /\ Parameter = <<"argArray">>
    BY <1>8 DEF Function, Parameter
  <2> QED BY <1>2, <1>3, <1>5, <1>6, <1>7, <1>8, <2>1 DEF ShellBlocks, Waiters
<1>9. CASE /\ k.cpu.pc[1] = "background" /\ k.cpu.pc[2] = 2 /\ Instruction.reg = "x"
           /\ Instruction.function = "setupThread" /\ Instruction.parameter = "named"
  <2>1. Function = "setupThread" /\ Parameter = <<"command", k.cpu.y>>
    BY <1>9 DEF Function, Parameter
  <2> QED BY <1>2, <1>3, <1>5, <1>6, <1>7, <1>9, <2>1 DEF ShellBlocks, Waiters
<1>10. CASE /\ k.cpu.pc[1] = "setupThread" /\ k.cpu.pc[2] = 3 /\ Instruction.reg = "x"
            /\ Instruction.function = "given" /\ Instruction.parameter = "localArgArray"
  <2>1. Function = k.cpu.a0[2] /\ Parameter = <<"stack", me>>
    BY <1>10 DEF Function, Parameter
  <2> QED BY <1>2, <1>3, <1>5, <1>6, <1>7, <1>10, <2>1 DEF ShellBlocks
<1>11. CASE /\ k.cpu.pc[1] \notin ShellBlocks \cup {"setupThread", "Res_Thread"}
            /\ Instruction.reg \in {"x", "y"}
            /\ Instruction.reg = "y" => k.cpu.pc[1] = "Start_Reservation" /\ k.cpu.pc[2] = 4
            /\ Instruction.function \in Others
  <2>1. Function = Instruction.function
    BY <1>11 DEF Function, Others
  <2> QED BY <1>2, <1>3, <1>5, <1>6, <1>7, <1>11, <2>1
<1> QED BY <1>0, <1>1, <1>8, <1>9, <1>10, <1>11 DEF LegalStart, Others

\* The thread that has started another.
LEMMA StarterIs ==
    ASSUME Shape, Located, Starting, me # Idle, Alive(k', me)
    PROVE  LET d == After(me)
           IN  /\ Context(d) /\ d.pc = Following(k.cpu.pc) /\ d.a0 = k.cpu.a0
               /\ d.sr = k.cpu.sr /\ d.v0 = "OK"
               /\ Instruction.reg = "x" => d.x = k.nextId /\ d.y = k.cpu.y
               /\ Instruction.reg = "y" => d.y = k.nextId /\ d.x = k.cpu.x
               /\ k'.status[me] = "READY" /\ k'.queue[me] = k.queue[me]
               /\ d.pc[1] = k.cpu.pc[1] /\ d.pc[2] = k.cpu.pc[2] + 1
<1>0. /\ Running /\ Counter(k.cpu.pc)
  BY Aware DEF Context
<1>1. Instruction.reg \in {"x", "y"}
  BY NewbornIs
<1>2. ~Ended
  BY DEF Ended, Gone, Alive
<1>3. GoesOn([GivenAndCalled(Instruction.reg) EXCEPT !.v0 = "OK"])
  BY <1>2 DEF Starting
<1> DEFINE d == [GivenAndCalled(Instruction.reg) EXCEPT !.v0 = "OK"]
<1>4. /\ Context(d)
      /\ d.pc = Following(k.cpu.pc) /\ d.a0 = k.cpu.a0 /\ d.sr = k.cpu.sr /\ d.v0 = "OK"
      /\ Instruction.reg = "x" => d.x = k.nextId /\ d.y = k.cpu.y
      /\ Instruction.reg = "y" => d.y = k.nextId /\ d.x = k.cpu.x
  BY <1>0, <1>1, GivenIs
<1>5. After(me) = d /\ k'.status[me] = "READY" /\ k'.queue[me] = k.queue[me]
  BY <1>3 DEF GoesOn
<1> HIDE DEF d
<1> QED BY <1>0, <1>4, <1>5, FollowingIs

\* A step keeps every thread in its program.
LEMMA LocatedKept ==
    ASSUME Shape, Located, UserStep
    PROVE  Located'
<1>0. me # Idle /\ ((Ordinary /\ job' = job) \/ Starting)
  BY UserStepIs
<1>1. /\ Running /\ Own(me) /\ Reg(me) = k.cpu /\ Lives(me) /\ Counter(k.cpu.pc)
      /\ me \in UserThread
  BY <1>0, Aware DEF Context, Running
<1>2. /\ me = 1 <=> k.cpu.pc[1] \in ShellBlocks
      /\ me # 1 => k.parent[me] \in 1 .. me - 1
      /\ k.cpu.pc[1] \in Waiters => k.cpu.y \in Programs
      /\ k.cpu.pc[1] # "Res_Thread" => k.cpu.x \in Nobody
      /\ k.cpu.pc[1] = "Start_Reservation" /\ k.cpu.pc[2] <= 6 => k.cpu.y \in Nobody
      /\ k.cpu.pc[1] = "setupThread" => k.parent[me] = 1 /\ k.cpu.a0[2] \in Programs
  BY <1>1 DEF Own, Block, Place
<1> SUFFICES ASSUME NEW t \in UserThread, Lives(t)'
             PROVE  Own(t)'
  BY DEF Located
<1>3. Reg(t)' = After(t) /\ Alive(k', t)
  BY Later
<1>4. SUFFICES
        /\ t = 1 <=> After(t).pc[1] \in ShellBlocks
        /\ t # 1 => k'.parent[t] \in 1 .. t - 1
        /\ After(t).pc[1] \in Waiters => After(t).y \in Programs
        /\ After(t).pc[1] # "Res_Thread" => After(t).x \in Nobody
        /\ After(t).pc[1] = "Start_Reservation" /\ After(t).pc[2] <= 6 => After(t).y \in Nobody
        /\ After(t).pc[1] = "setupThread" => k'.parent[t] = 1 /\ After(t).a0[2] \in Programs
  BY <1>3 DEF Own, Block, Place
<1>5. CASE t # me /\ Passive(t) /\ k'.parent[t] = k.parent[t]
  <2>1. /\ Lives(t) /\ After(t).pc = Reg(t).pc /\ After(t).a0 = Reg(t).a0
        /\ After(t).x = Reg(t).x /\ After(t).y = Reg(t).y
    BY <1>3, <1>5, PassiveIs
  <2>2. Own(t)
    BY <2>1 DEF Located
  <2> QED BY <1>5, <2>1, <2>2 DEF Own, Block, Place
<1>6. CASE t # me /\ Starting /\ t = k.nextId
  <2>1. /\ t \in UserThread \ {1, me} /\ me < t
        /\ After(t).pc[1] = Function /\ After(t).pc[2] = 1
        /\ After(t).a0 = Parameter /\ After(t).x = NULL /\ After(t).y = NULL
        /\ k'.parent[t] = me
        /\ \/ Function \in Programs
           \/ /\ me = 1 /\ Function = "setupThread"
              /\ Parameter = <<"command", k.cpu.y>> /\ k.cpu.y \in Programs
           \/ Function \in Others
    BY <1>0, <1>6, NewbornIs
  <2>2. NULL \in Nobody /\ me \in 1 .. t - 1
    BY <1>1, <2>1, CallsAssumption DEF Nobody, UserThread
  <2>3. (Programs \cup Others) \cap (ShellBlocks \cup Waiters \cup {"setupThread"}) = {}
    BY DEF Programs, Others, ShellBlocks, Waiters
  <2>4. "setupThread" \notin ShellBlocks \cup Waiters
    BY DEF ShellBlocks, Waiters
  <2> QED BY <2>1, <2>2, <2>3, <2>4
<1>7. CASE t = me /\ Ordinary
  <2>1. Moves(After(me))
    BY <1>0, <1>3, <1>7, MineIs
  <2>2. k'.parent[me] = k.parent[me] /\ After(me).a0 = k.cpu.a0
    BY <2>1, MyOwn DEF Moves
  <2> QED BY <1>0, <1>2, <1>7, <2>1, <2>2, OwnOfMover DEF Onwards
<1>8. CASE t = me /\ Starting
  <2>1. LET d == After(me)
        IN  /\ d.a0 = k.cpu.a0
            /\ Instruction.reg = "x" => d.x = k.nextId /\ d.y = k.cpu.y
            /\ Instruction.reg = "y" => d.y = k.nextId /\ d.x = k.cpu.x
            /\ d.pc[1] = k.cpu.pc[1] /\ d.pc[2] = k.cpu.pc[2] + 1
    BY <1>0, <1>3, <1>8, StarterIs
  <2>2. k'.parent[me] = k.parent[me] /\ k.nextId \in Nobody
    BY <1>8, MyOwn DEF Starting, Created, Nobody
  <2>3. /\ Instruction.reg \in {"x", "y"}
        /\ Instruction.reg = "y" => k.cpu.pc[1] = "Start_Reservation" /\ k.cpu.pc[2] = 4
    BY <1>0, <1>8, NewbornIs
  <2>4. k.cpu.pc[2] \in Nat
    BY <1>1, Counters
  <2> QED BY <1>2, <1>8, <2>1, <2>2, <2>3, <2>4 DEF Waiters
<1> QED BY <1>0, <1>5, <1>6, <1>7, <1>8, Threads

-----------------------------------------------------------------------------
(* The shape of the state *)

\* The shape of the kernel in the next state.
LEMMA KernelLater == Kernel(k)' <=> Kernel(k')
BY DEF Kernel, Context, Counter

\* What is in a queue has been there, or is of the running thread.
LEMMA QueueIs ==
    ASSUME Shape, Located, UserStep, NEW t \in UserThread
    PROVE  /\ k'.queue[t] \in Seq(1 .. k.nextId - 1)
           /\ \A u \in UserThread :
                 (\E i \in 1 .. Len(k'.queue[t]) : k'.queue[t][i] = u) =>
                     \/ \E i \in 1 .. Len(k.queue[t]) : k.queue[t][i] = u
                     \/ u = me /\ Instruction.op = "send" /\ k.parent[me] = t
<1> DEFINE S == 1 .. k.nextId - 1
           q == k.queue[t]
           r == k'.queue[t]
           Has(s, u) == \E i \in 1 .. Len(s) : s[i] = u
<1>0. q \in Seq(S) /\ me # Idle /\ ((Ordinary /\ job' = job) \/ Starting)
  BY UserStepIs DEF Shape
<1>1. Running /\ me \in S
  <2>1. Running /\ me \in UserThread
    BY <1>0, Aware DEF Running
  <2>2. ~(me >= k.nextId)
    BY <2>1 DEF Shape, Running
  <2> QED BY <2>1, <2>2 DEF Shape, UserThread
<1>2. CASE r = q
  BY <1>0, <1>2
<1>3. CASE r = Append(q, me) /\ Sends(t) /\ t # me
  <2>1. /\ r \in Seq(S) /\ Len(r) = Len(q) + 1 /\ Len(q) \in Nat
        /\ \A i \in 1 .. Len(q) : r[i] = q[i]
        /\ r[Len(q) + 1] = me
    BY <1>0, <1>1, <1>3, AppendProperties, LenProperties
  <2>2. ASSUME NEW u, NEW i \in 1 .. Len(r), r[i] = u
        PROVE  Has(q, u) \/ u = me
    <3>1. CASE i \in 1 .. Len(q)
      BY <2>1, <2>2, <3>1
    <3>2. CASE i = Len(q) + 1
      BY <2>1, <2>2, <3>2
    <3> QED BY <2>1, <3>1, <3>2
  <2> QED BY <1>3, <2>1, <2>2 DEF Sends
<1>4. CASE r = << >> /\ ~Alive(k', t)
  BY <1>4
<1>5. CASE \E i \in 1 .. Len(q) : r = RemoveAt(q, i)
  <2>1. PICK i \in 1 .. Len(q) : r = RemoveAt(q, i)
    BY <1>5
  <2>2. /\ r \in Seq(S) /\ Len(r) = Len(q) - 1 /\ Len(q) \in Nat
        /\ \A j \in 1 .. Len(q) - 1 : r[j] = IF j < i THEN q[j] ELSE q[j + 1]
    BY <1>0, <2>1, RemoveAtLeaves, LenProperties
  <2>3. ASSUME NEW u, NEW j \in 1 .. Len(r), r[j] = u
        PROVE  Has(q, u)
    <3>1. j \in 1 .. Len(q) /\ j + 1 \in 1 .. Len(q)
      BY <2>2
    <3>2. q[j] = u \/ q[j + 1] = u
      BY <2>2, <2>3
    <3> QED BY <3>1, <3>2
  <2> QED BY <2>2, <2>3
<1>6. CASE t # me /\ Passive(t)
  <2>1. Same(t) \/ Woken(t) => r = q
    BY DEF Same, Woken
  <2>2. Gone(t, "killed") \/ Gone(t, "overflowed") => r = << >> /\ ~Alive(k', t)
    BY DEF Gone, Alive
  <2> QED BY <1>2, <1>3, <1>4, <1>6, <2>1, <2>2 DEF Passive
<1>7. CASE t # me /\ Starting /\ t = k.nextId
  BY <1>2, <1>7 DEF Starting, Created
<1>8. CASE t = me /\ ~Alive(k', me)
  <2>1. \/ Ended \/ GoesOnSomewhere \/ (\E sender \in UserThread : Received(sender) \/ Waits(sender))
        \/ \E d : GoesOn(d)
    BY <1>0 DEF Ordinary, Mine, Receives, Starting
  <2>2. Ended
    BY <1>8, <2>1 DEF GoesOnSomewhere, GoesOn, Received, Waits, Alive
  <2> QED BY <1>4, <1>8, <2>2 DEF Ended, Gone
<1>9. CASE t = me /\ Alive(k', me) /\ Ordinary
  <2>1. r = q \/ \E i \in 1 .. Len(q) : r = RemoveAt(q, i)
    BY <1>0, <1>9, MineIs DEF Received, Waits
  <2> QED BY <1>2, <1>5, <2>1
<1>10. CASE t = me /\ Alive(k', me) /\ Starting
  <2>1. r = q
    BY <1>0, <1>10, StarterIs
  <2> QED BY <1>2, <2>1
<1> QED BY <1>0, <1>6, <1>7, <1>8, <1>9, <1>10, Threads

\* A step keeps the shape of the state.
LEMMA ShapeKept ==
    ASSUME Shape, Located, UserStep
    PROVE  Shape'
<1>0. me # Idle /\ Data /\ ((Ordinary /\ job' = job) \/ Starting)
  BY UserStepIs
<1>1. Running /\ me \in UserThread /\ ~(me >= k.nextId)
  BY <1>0, Aware DEF Running, Shape
<1>2. Kept
  BY <1>0 DEF Ordinary, NoneNew, Starting, Created
<1>3. \/ k'.nextId = k.nextId
      \/ Starting /\ k'.nextId = k.nextId + 1 /\ k.nextId \in UserThread
  BY <1>0 DEF Ordinary, NoneNew, Starting, Created
<1>4. k'.nextId \in 2 .. MaxThreads + 1 /\ k.nextId \in 2 .. MaxThreads + 1
  BY <1>3, CallsAssumption DEF Shape, UserThread
<1>5. ASSUME NEW t \in UserThread, t >= k'.nextId
      PROVE  k'.status[t] = "UNUSED" /\ k'.queue[t] = << >>
  <2>1. t >= k.nextId /\ (Starting => t # k.nextId)
    BY <1>0, <1>3, <1>4, <1>5 DEF Ordinary, NoneNew, UserThread, Starting, Created
  <2>2. k.status[t] = "UNUSED" /\ k.queue[t] = << >> /\ t # me
    BY <1>1, <2>1 DEF Shape
  <2>3. Passive(t)
    BY <2>1, <2>2, Threads
  <2>4. Same(t)
    BY <2>2, <2>3 DEF Passive, Woken, Gone, Lives, Alive
  <2> QED BY <2>2, <2>4 DEF Same
<1>6. ASSUME NEW t \in UserThread
      PROVE  k'.queue[t] \in Seq(1 .. k'.nextId - 1)
  <2>1. k'.queue[t] \in Seq(1 .. k.nextId - 1)
    BY QueueIs
  <2>2. 1 .. k.nextId - 1 \subseteq 1 .. k'.nextId - 1
    BY <1>3, <1>4
  <2> QED BY <2>1, <2>2, SeqMonotonic
<1>7. job' = [t \in UserThread |-> job'[t]]
  BY <1>0 DEF Starting, Shape
<1>8. Kernel(k)' /\ Variables(mem)'
  BY <1>0, <1>2, KernelLater DEF Kept, Data, Variables
<1> QED BY <1>0, <1>2, <1>4, <1>5, <1>6, <1>7, <1>8 DEF Shape, Kept, Data

-----------------------------------------------------------------------------
(* Who has sent nothing *)

\* The running thread when a step is over, and where it was.
LEMMA MoverIs ==
    ASSUME Shape, Located, UserStep, Alive(k', me)
    PROVE  /\ Context(After(me)) /\ After(me).a0 = k.cpu.a0
           /\ After(me).pc[1] \in {"setupThread", "Testback1"} => Onwards(After(me))
           /\ After(me).pc[1] \in Waiters =>
                 Onwards(After(me)) \/ (Instruction.op = "readLine" /\ After(me).pc[2] = 1)
<1>0. me # Idle /\ ((Ordinary /\ job' = job) \/ Starting)
  BY UserStepIs
<1>1. CASE Ordinary
  BY <1>0, <1>1, MineIs, OwnOfMover DEF Moves
<1>2. CASE Starting
  BY <1>0, <1>2, StarterIs DEF Onwards
<1> QED BY <1>0, <1>1, <1>2

\* Nobody becomes a setupThread or a Testback1 but a new thread.
LEMMA SetupBefore ==
    ASSUME Shape, Located, UserStep, NEW t \in UserThread, Alive(k', t),
           ~(Starting /\ t = k.nextId)
    PROVE  /\ Lives(t)
           /\ After(t).pc[1] \in {"setupThread", "Testback1"} => Block(t) = After(t).pc[1]
           /\ After(t).a0 = Reg(t).a0
<1>0. Reg(t)' = After(t) /\ (Lives(t)' <=> Alive(k', t)) /\ me # Idle
  BY Later, UserStepIs
<1>1. CASE t = me
  BY <1>0, <1>1, MoverIs, Aware DEF Onwards, Block
<1>2. CASE t # me
  <2>1. Passive(t)
    BY <1>2, Threads
  <2> QED BY <1>0, <2>1, PassiveIs DEF Block
<1> QED BY <1>1, <1>2

\* A child of a setupThread sends nothing.
LEMMA QuietSends ==
    ASSUME Shape, Located, Silence, me # Idle, Instruction.op = "send",
           NEW s \in UserThread, k.parent[me] = s, Lives(s), Block(s) = "setupThread"
    PROVE  FALSE
<1>1. /\ Running /\ Lives(me) /\ Own(me) /\ Reg(me) = k.cpu /\ Legal(k.cpu.pc, Instruction)
  BY Aware DEF Understood
<1>2. k.cpu.pc[1] \in {"setupThread", "Child", "childSyscallTest", "dummyThread"}
  BY <1>1 DEF Legal
<1>3. me # 1
  BY <1>1, <1>2 DEF Own, Block, ShellBlocks
<1>4. Block(me) \in QuietBlocks
  BY <1>1, <1>3 DEF Silence, Running
<1> QED BY <1>1, <1>2, <1>4 DEF Block, QuietBlocks, Programs

\* A program that sends nothing is not left for one that does.
LEMMA QuietStays ==
    ASSUME Shape, Located, me # Idle, me # 1, NEW d, Moves(d), k.cpu.pc[1] \in QuietBlocks
    PROVE  d.pc[1] \in QuietBlocks
<1>0. /\ Running /\ Own(me) /\ Reg(me) = k.cpu /\ Legal(k.cpu.pc, Instruction)
      /\ Counter(k.cpu.pc)
  BY Aware DEF Understood, Context
<1>1. k.cpu.pc[1] \notin ShellBlocks
  BY <1>0 DEF Own, Block
<1>2. k.cpu.pc[1] \notin {"Res_Thread", "dummyThread", "childSyscallTest", "main"}
  BY DEF QuietBlocks, Programs
<1>3. CASE d.pc = Following(k.cpu.pc)
  BY <1>0, <1>3, FollowingIs
<1>4. CASE Instruction.op \in {"goto", "iffailed"} /\ d.pc = Instruction.to
  BY <1>0, <1>1, <1>2, <1>4 DEF Legal, Return, QuietBlocks
<1>5. CASE Instruction.op = "test" /\ d.pc[1] \in {"crashMeSyscallTest", "stressTest",
                                                   "memoryTestAll", "trapTest", "return"}
  BY <1>5 DEF QuietBlocks
<1>6. Instruction.op \notin {"readLine", "sell"}
  BY <1>0, <1>2 DEF Legal
<1> QED BY <1>3, <1>4, <1>5, <1>6 DEF Moves, NextPlace

\* Nobody sends to a setupThread, and who has not sent is in no queue.
LEMMA SilenceKept ==
    ASSUME Shape, Located, Silence, UserStep
    PROVE  Silence'
<1>0. me # Idle /\ ((Ordinary /\ job' = job) \/ Starting)
  BY UserStepIs
<1>1. /\ Running /\ Lives(me) /\ Own(me) /\ Reg(me) = k.cpu /\ Legal(k.cpu.pc, Instruction)
      /\ me \in UserThread /\ ~(me >= k.nextId) /\ Counter(k.cpu.pc)
  BY <1>0, Aware DEF Understood, Running, Shape, Context
<1> SUFFICES ASSUME NEW t \in UserThread, Alive(k', t)
             PROVE  /\ /\ t # 1 /\ Alive(k', k'.parent[t])
                       /\ After(k'.parent[t]).pc[1] = "setupThread"
                       => After(t).pc[1] \in QuietBlocks
                    /\ After(t).pc[1] = "setupThread" => k'.queue[t] = << >>
                    /\ \/ After(t).pc[1] = "Testback1"
                       \/ After(t).pc[1] = "setupThread" /\ After(t).pc[2] <= 5
                       => \A u \in UserThread : \A i \in 1 .. Len(k'.queue[u]) : k'.queue[u][i] # t
  BY Later DEF Silence, Unsent, Block, Place
<1>2. Starting /\ t = k.nextId =>
        /\ t \in UserThread \ {1, me} /\ me < t
        /\ Context(After(t)) /\ After(t).pc[1] = Function /\ After(t).pc[2] = 1
        /\ k'.queue[t] = << >> /\ k'.parent[t] = me
        /\ k.cpu.pc[1] = "setupThread" => Function \in Programs
  BY <1>0, NewbornIs
<1>3. ASSUME t # 1, Alive(k', k'.parent[t]), After(k'.parent[t]).pc[1] = "setupThread"
      PROVE  After(t).pc[1] \in QuietBlocks
  <2>1. CASE Starting /\ t = k.nextId
    <3>1. k.cpu.pc[1] = "setupThread"
      BY <1>1, <1>2, <1>3, <2>1, SetupBefore DEF Block
    <3> QED BY <1>2, <2>1, <3>1 DEF QuietBlocks
  <2>2. CASE ~(Starting /\ t = k.nextId)
    <3> DEFINE s == k.parent[t]
    <3>1. Lives(t) /\ k'.parent[t] = s
      BY <2>2, SetupBefore, Threads, MyOwn
    <3>2. s \in 1 .. t - 1 /\ t < k.nextId
      <4>1. ~(t >= k.nextId)
        BY <3>1 DEF Shape, Lives, Alive
      <4> QED BY <1>3, <3>1, <4>1 DEF Located, Own, Shape, UserThread
    <3>3. s \in UserThread /\ s # k.nextId
      BY <3>2, CallsAssumption DEF UserThread, Shape
    <3>4. Lives(s) /\ Block(s) = "setupThread"
      BY <1>3, <3>1, <3>3, SetupBefore
    <3>5. Block(t) \in QuietBlocks
      BY <1>3, <3>1, <3>4 DEF Silence
    <3>6. CASE t # me
      <4>1. Passive(t)
        BY <2>2, <3>6, Threads
      <4> QED BY <3>5, <4>1, PassiveIs, Later DEF Block
    <3>7. CASE t = me /\ Ordinary
      <4>1. Moves(After(me))
        BY <1>0, <3>7, MineIs
      <4> QED BY <1>0, <1>1, <1>3, <3>5, <3>7, <4>1, QuietStays DEF Block
    <3>8. CASE t = me /\ Starting
      <4>1. After(me).pc[1] = k.cpu.pc[1]
        BY <1>0, <3>8, StarterIs
      <4> QED BY <1>1, <3>5, <3>8, <4>1 DEF Block
    <3> QED BY <1>0, <3>6, <3>7, <3>8
  <2> QED BY <2>1, <2>2
<1>4. ASSUME After(t).pc[1] = "setupThread"
      PROVE  k'.queue[t] = << >>
  <2>1. CASE Starting /\ t = k.nextId
    BY <1>2, <2>1
  <2>2. CASE ~(Starting /\ t = k.nextId)
    <3>1. Lives(t) /\ Block(t) = "setupThread"
      BY <1>4, <2>2, SetupBefore
    <3>2. k.queue[t] = << >>
      BY <3>1 DEF Silence
    <3>3. ASSUME NEW i \in 1 .. Len(k'.queue[t])
          PROVE  FALSE
      <4>1. k'.queue[t] \in Seq(1 .. k.nextId - 1)
        BY QueueIs
      <4>2. k'.queue[t][i] \in 1 .. k.nextId - 1
        BY <3>3, <4>1, ElementOfSeq
      <4>3. k'.queue[t][i] \in UserThread
        BY <4>2, CallsAssumption DEF Shape, UserThread
      <4>4. Instruction.op = "send" /\ k.parent[me] = t
        BY <3>2, <3>3, <4>3, QueueIs
      <4> QED BY <1>0, <3>1, <4>4, QuietSends
    <3>4. k'.queue[t] \in Seq(1 .. k.nextId - 1)
      BY QueueIs
    <3>5. Len(k'.queue[t]) = 0
      BY <3>3, <3>4, LenProperties
    <3> QED BY <3>4, <3>5, EmptySeq
  <2> QED BY <2>1, <2>2
<1>5. ASSUME \/ After(t).pc[1] = "Testback1"
             \/ After(t).pc[1] = "setupThread" /\ After(t).pc[2] <= 5,
             NEW u \in UserThread, NEW i \in 1 .. Len(k'.queue[u]), k'.queue[u][i] = t
      PROVE  FALSE
  <2>1. \/ \E j \in 1 .. Len(k.queue[u]) : k.queue[u][j] = t
        \/ t = me /\ Instruction.op = "send"
    BY <1>5, QueueIs
  <2>2. CASE Starting /\ t = k.nextId
    <3>1. PICK j \in 1 .. Len(k.queue[u]) : k.queue[u][j] = t
      BY <1>2, <2>1, <2>2
    <3>2. t \in 1 .. k.nextId - 1
      BY <3>1, ElementOfSeq DEF Shape
    <3> QED BY <2>2, <3>2 DEF Shape
  <2>3. CASE t # me /\ ~(Starting /\ t = k.nextId)
    <3>1. Passive(t)
      BY <2>3, Threads
    <3>2. Lives(t) /\ Reg(t).pc = After(t).pc
      BY <3>1, PassiveIs, Later
    <3>3. Unsent(t)
      BY <1>5, <3>2 DEF Unsent, Block, Place
    <3> QED BY <2>1, <2>3, <3>2, <3>3 DEF Silence
  <2>4. CASE t = me
    <3>1. Onwards(After(me)) /\ k.cpu.pc[2] \in Nat
      BY <1>1, <1>5, <2>4, MoverIs, Counters
    <3>2. \/ k.cpu.pc[1] = "Testback1"
          \/ k.cpu.pc[1] = "setupThread" /\ k.cpu.pc[2] <= 4
      BY <1>5, <2>4, <3>1 DEF Onwards
    <3>3. Unsent(me)
      BY <1>1, <3>1, <3>2 DEF Unsent, Block, Place
    <3>4. Instruction.op # "send"
      BY <1>1, <3>2 DEF Legal
    <3> QED BY <1>1, <2>1, <2>4, <3>3, <3>4 DEF Silence
  <2> QED BY <2>2, <2>3, <2>4
<1> QED BY <1>3, <1>4, <1>5

-----------------------------------------------------------------------------
(* The arguments *)

\* Only the shell reads commands and arguments.
LEMMA OnlyShell ==
    ASSUME Shape, Located, me # Idle, Instruction.op \in {"readLine", "getArguments"}
    PROVE  me = 1 /\ (Instruction.op = "getArguments" => k.cpu.pc[2] = 1)
                  /\ (Instruction.op = "readLine" => k.cpu.pc[1] = "main")
<1>1. Own(me) /\ Reg(me) = k.cpu /\ Legal(k.cpu.pc, Instruction)
  BY Aware DEF Understood
<1> QED BY <1>1 DEF Own, Block, Legal, ShellBlocks

\* The arguments are in argArray when the shell starts a thread for them.
LEMMA PreparedKept ==
    ASSUME Shape, Located, Prepared, UserStep
    PROVE  Prepared'
<1>0. me # Idle /\ Data /\ ((Ordinary /\ job' = job) \/ Starting)
  BY UserStepIs
<1>1. /\ Running /\ Lives(me) /\ Reg(me) = k.cpu
      /\ Sequenced(k.cpu.pc, Instruction) /\ Counter(k.cpu.pc)
  BY <1>0, Aware DEF Understood, Context
<1>2. 1 \in UserThread /\ ~(Starting /\ 1 = k.nextId)
  BY CallsAssumption DEF UserThread, Shape
<1> SUFFICES ASSUME Alive(k', 1), After(1).pc[1] \in Waiters, After(1).pc[2] = 2
             PROVE  mem'.argArray = typed'
  BY Later DEF Prepared, Block, Place
<1>3. CASE me = 1
  <2>1. Onwards(After(1)) /\ k.cpu.pc[2] \in Nat
    BY <1>1, <1>3, MoverIs, Counters
  <2>2. k.cpu.pc[1] \in Waiters /\ k.cpu.pc[2] = 1
    BY <2>1 DEF Onwards
  <2>3. Instruction.op = "getArguments"
    BY <1>1, <2>2 DEF Sequenced
  <2> QED BY <1>0, <2>3 DEF Data
<1>4. CASE me # 1
  <2>1. Passive(1)
    BY <1>2, <1>4, Threads
  <2>2. Lives(1) /\ Block(1) \in Waiters /\ Place(1) = 2
    BY <1>2, <2>1, PassiveIs, Later DEF Block, Place
  <2>3. Instruction.op \notin {"readLine", "getArguments"}
    BY <1>0, <1>4, OnlyShell
  <2> QED BY <1>0, <2>2, <2>3 DEF Data, Prepared
<1> QED BY <1>3, <1>4

\* A dead thread stays as it is.
LEMMA StaysDead ==
    ASSUME Shape, Located, UserStep, NEW t \in UserThread, ~Lives(t), t < k.nextId
    PROVE  k'.status[t] = k.status[t]
<1>1. t # me
  BY UserStepIs, Aware
<1>2. Passive(t)
  BY <1>1, Threads DEF Shape, UserThread
<1> QED BY <1>2 DEF Passive, Same, Woken, Gone, Lives, Alive

\* Who waits for a message of t, or is about to, and does not run.
LEMMA PassiveWaiter ==
    ASSUME Shape, NEW w \in UserThread, Passive(w), Alive(k', w),
           NEW t \in UserThread, Alive(k', t),
           k.status[w] = "READY" \/ (k.status[w] = "BLOCKED" /\ k.from[w] = t),
           ~(Instruction.op = "send" /\ t = me)
    PROVE  k'.status[w] = k.status[w] /\ k'.from[w] = k.from[w] /\ After(w) = Reg(w)
<1>1. \/ k'.status[w] = k.status[w] /\ k'.from[w] = k.from[w] /\ Reg(w)' = Reg(w)
      \/ /\ Woken(w)
         /\ Bereaved(w) \/ (Instruction.op = "send" /\ k.from[w] = me)
  BY PassiveIs, Later
<1>2. ~Woken(w) \/ ~(Bereaved(w) \/ (Instruction.op = "send" /\ k.from[w] = me))
  BY DEF Woken, Bereaved
<1> QED BY <1>1, <1>2, Later

\* The instructions of those who wait.
LEMMA WaiterMoves ==
    ASSUME Shape, Located, UserStep, NEW t \in UserThread, Lives(t),
           k.cpu.x = t,
           \A i \in 1 .. Len(k.queue[me]) : k.queue[me][i] # t,
           \/ Instruction.op = "iffailed" /\ k.cpu.v0 = "OK"
           \/ Instruction.op = "send"
           \/ Instruction.op = "recv" /\ Instruction.reg = "x"
    PROVE  /\ Onwards(After(me)) /\ After(me).x = t
           /\ IF Instruction.op = "recv" THEN k'.status[me] = "BLOCKED" /\ k'.from[me] = t
              ELSE k'.status[me] = "READY"
<1>0. me # Idle /\ Ordinary
  BY UserStepIs DEF Starting
<1>1. Running /\ Counter(k.cpu.pc)
  BY <1>0, Aware DEF Context
<1>2. CASE Instruction.op = "recv"
  <2>1. t # NULL /\ k.cpu[Instruction.reg] = t
    BY <1>2, CallsAssumption DEF UserThread
  <2>2. Waits(t)
    BY <1>0, <1>2, <2>1 DEF Ordinary, Mine, Receives, Received
  <2>3. LET d == After(me)
        IN  d.x = k.cpu.x /\ d.pc = Following(k.cpu.pc)
    BY <1>1, <2>2, CalledContext DEF Waits
  <2> QED BY <1>1, <1>2, <2>2, <2>3, FollowingIs DEF Waits, Onwards
<1>3. CASE Instruction.op # "recv"
  <2>1. ~Ended
    BY <1>3 DEF Ended
  <2>2. PICK d : Moves(d) /\ GoesOn(d)
    BY <1>0, <1>3, <2>1 DEF Ordinary, Mine, GoesOnSomewhere
  <2>3. d.pc = Following(k.cpu.pc) /\ d.x = k.cpu.x
    BY <1>3, <2>2 DEF Moves, NextPlace, NextValue
  <2> QED BY <1>1, <1>3, <2>2, <2>3, FollowingIs DEF GoesOn, Onwards
<1> QED BY <1>2, <1>3

\* The same with the registers spelt out.
ShellAt(c, t) ==
    /\ c.pc[1] \in Waiters
    /\ c.x = t

\* ShellWaits in the next state.
LEMMA ShellWaitsLater ==
    ASSUME NEW t
    PROVE  ShellWaits(t)' <=>
             /\ ShellAt(After(1), t)
             /\ \/ After(1).pc[2] = 3 /\ k'.status[1] = "READY" /\ After(1).v0 = "OK"
                \/ After(1).pc[2] = 4 /\ k'.status[1] = "READY"
                \/ After(1).pc[2] = 5 /\ k'.status[1] = "BLOCKED" /\ k'.from[1] = t
BY Later DEF ShellWaits, ShellAt, Block, Place

\* SetupWaits in the next state.
LEMMA SetupWaitsLater ==
    ASSUME NEW s, NEW t
    PROVE  SetupWaits(s, t)' <=>
             /\ After(s).pc[1] = "setupThread"
             /\ After(s).x = t
             /\ \/ After(s).pc[2] = 4 /\ k'.status[s] = "READY" /\ After(s).v0 = "OK"
                \/ After(s).pc[2] \in {5, 6} /\ k'.status[s] = "READY"
                \/ After(s).pc[2] = 7 /\ k'.status[s] = "BLOCKED" /\ k'.from[s] = t
BY Later DEF SetupWaits, Block, Place

\* The same of the registers that a thread has after a step.
SharedAt(c) ==
    \/ c.pc[1] = "Testback1" /\ c.pc[2] <= 2 /\ c.a0 = <<"argArray">>
    \/ c.pc[1] = "setupThread" /\ c.pc[2] <= 2

StackAt(c) == c.pc[1] = "Testback1" /\ c.pc[2] <= 2 /\ c.a0 # <<"argArray">>

\* An old thread has been at such a place before.
LEMMA AtBefore ==
    ASSUME Shape, Located, UserStep, NEW t \in UserThread, Alive(k', t),
           ~(Starting /\ t = k.nextId)
    PROVE  /\ Lives(t)
           /\ SharedAt(After(t)) => ReadsShared(t)
           /\ StackAt(After(t)) => ReadsStack(t)
           /\ k'.parent[t] = k.parent[t] /\ job'[t] = job[t]
           /\ t # me => /\ After(t).pc = Reg(t).pc /\ After(t).y = Reg(t).y
<1>0. me # Idle
  BY UserStepIs
<1>1. Lives(t) /\ After(t).a0 = Reg(t).a0
  BY SetupBefore
<1>2. CASE t = me
  <2>1. Counter(k.cpu.pc) /\ Reg(me) = k.cpu
    BY <1>0, Aware DEF Context
  <2>2. After(me).pc[1] \in {"setupThread", "Testback1"} => Onwards(After(me))
    BY <1>2, MoverIs
  <2>3. k.cpu.pc[2] \in Nat
    BY <2>1, Counters
  <2> QED BY <1>1, <1>2, <2>1, <2>2, <2>3, MyOwn
        DEF Onwards, SharedAt, StackAt, ReadsShared, ReadsStack, Block, Place
<1>3. CASE t # me
  <2>1. Passive(t) /\ k'.parent[t] = k.parent[t] /\ job'[t] = job[t]
    BY <1>3, Threads
  <2>2. After(t).pc = Reg(t).pc /\ After(t).y = Reg(t).y
    BY <2>1, PassiveIs, Later
  <2> QED BY <1>1, <1>3, <2>1, <2>2 DEF SharedAt, StackAt, ReadsShared, ReadsStack, Block, Place
<1> QED BY <1>2, <1>3

\* While a thread has still to read argArray, the shell waits for it, and so argArray
\* stays as it is.
LEMMA SharedKept ==
    ASSUME Inv, UserStep, NEW t \in UserThread, Alive(k', t), SharedAt(After(t))
    PROVE  job'[t] = mem'.argArray /\ (Alive(k', 1) => ShellWaits(t)')
<1>0. me # Idle /\ Data /\ ((Ordinary /\ job' = job) \/ Starting) /\ Shape /\ Located /\ Silence
  BY UserStepIs DEF Inv
<1>1. /\ Running /\ Lives(me) /\ Reg(me) = k.cpu /\ Legal(k.cpu.pc, Instruction)
      /\ Sequenced(k.cpu.pc, Instruction) /\ Counter(k.cpu.pc) /\ me \in UserThread
  BY <1>0, Aware DEF Understood, Context, Running
<1>2. 1 \in UserThread /\ ~(Starting /\ 1 = k.nextId)
  BY <1>0, CallsAssumption DEF UserThread, Shape
<1>3. CASE Starting /\ t = k.nextId
  <2>1. /\ t \in UserThread \ {1, me}
        /\ After(t).pc[1] = Function /\ After(t).a0 = Parameter
        /\ \/ /\ me = 1 /\ k.cpu.pc[1] = "start" /\ k.cpu.pc[2] = 2 /\ Instruction.reg = "x"
              /\ Function \in Programs /\ Parameter = <<"argArray">>
           \/ /\ me = 1 /\ k.cpu.pc[1] = "background" /\ k.cpu.pc[2] = 2
              /\ Instruction.reg = "x" /\ Function = "setupThread"
              /\ Parameter = <<"command", k.cpu.y>> /\ k.cpu.y \in Programs
           \/ Parameter = <<"stack", me>> /\ Function \in Programs
           \/ Function \in Others
    BY <1>0, <1>3, NewbornIs
  <2>2. Function \notin Others
    BY <2>1 DEF SharedAt, Others
  <2>3. Parameter = <<"stack", me>> => Function \notin Programs
    <3>1. "setupThread" \notin Programs
      BY DEF Programs
    <3>2. <<"stack", me>> # <<"argArray">>
      OBVIOUS
    <3> QED BY <2>1, <3>1, <3>2 DEF SharedAt
  <2>4. me = 1 /\ k.cpu.pc[1] \in Waiters /\ k.cpu.pc[2] = 2 /\ Instruction.reg = "x"
    BY <2>1, <2>2, <2>3 DEF Waiters
  <2>5. mem.argArray = typed
    BY <1>1, <2>4 DEF Inv, Prepared, Block, Place
  <2>6. job'[t] = typed /\ Instruction.op = "start"
    BY <1>0, <1>3, <2>4 DEF Starting, Shape
  <2>7. mem'.argArray = typed
    BY <1>0, <2>5, <2>6 DEF Data
  <2>8. ASSUME Alive(k', 1) PROVE ShellWaits(t)'
    <3>1. LET d == After(me)
          IN  /\ d.v0 = "OK" /\ d.x = k.nextId
              /\ k'.status[me] = "READY"
              /\ d.pc[1] = k.cpu.pc[1] /\ d.pc[2] = k.cpu.pc[2] + 1
      BY <1>0, <1>3, <2>4, <2>8, StarterIs
    <3>2. ShellAt(After(1), t) /\ After(1).pc[2] = 3
      BY <1>3, <2>4, <3>1 DEF ShellAt
    <3> QED BY <2>4, <3>1, <3>2, ShellWaitsLater
  <2> QED BY <2>6, <2>7, <2>8
<1>4. CASE ~(Starting /\ t = k.nextId)
  <2>1. Lives(t) /\ ReadsShared(t) /\ job'[t] = job[t]
    BY <1>0, <1>4, AtBefore
  <2>2. job[t] = mem.argArray /\ (Lives(1) => ShellWaits(t))
    BY <2>1 DEF Inv, Arguments
  <2>3. Unsent(t) /\ \A u \in UserThread : \A i \in 1 .. Len(k.queue[u]) : k.queue[u][i] # t
    <3>1. Context(Reg(t))
      BY <1>0 DEF Shape, Kernel, Reg, RegistersOf, Thread
    <3>2. Place(t) \in Nat
      BY <3>1, Counters DEF Place, Context
    <3>3. Unsent(t)
      BY <2>1, <3>2 DEF ReadsShared, Unsent
    <3> QED BY <1>0, <2>1, <3>3 DEF Silence
  <2>4. t = me => Instruction.op # "send"
    BY <1>1, <2>1 DEF ReadsShared, Legal, Block, Place
  <2>5. Instruction.op # "getArguments"
    <3>1. ASSUME Instruction.op = "getArguments" PROVE FALSE
      <4>1. me = 1 /\ k.cpu.pc[2] = 1
        BY <1>0, <3>1, OnlyShell
      <4>2. ShellWaits(t)
        BY <1>1, <2>2, <4>1
      <4> QED BY <1>1, <4>1, <4>2 DEF ShellWaits, Place
    <3> QED BY <3>1
  <2>6. mem'.argArray = mem.argArray
    BY <1>0, <2>5 DEF Data
  <2>7. ASSUME Alive(k', 1) PROVE ShellWaits(t)'
    <3>1. Lives(1) /\ ShellWaits(t)
      BY <1>0, <1>2, <2>2, <2>7, SetupBefore
    <3>2. CASE me = 1
      <4>1. k.cpu.pc[1] \in Waiters /\ k.cpu.x = t
        BY <1>1, <3>1, <3>2 DEF ShellWaits, Block
      <4>2. \/ k.cpu.pc[2] = 3 /\ k.cpu.v0 = "OK"
            \/ k.cpu.pc[2] = 4
        BY <1>1, <3>1, <3>2 DEF ShellWaits, Place, Running
      <4>3. CASE k.cpu.pc[2] = 3 /\ k.cpu.v0 = "OK"
        <5>1. Instruction.op = "iffailed"
          BY <1>1, <4>1, <4>3 DEF Sequenced
        <5>2. /\ Onwards(After(me)) /\ After(me).x = t /\ k'.status[me] = "READY"
          BY <1>0, <1>1, <2>1, <2>3, <4>1, <4>3, <5>1, WaiterMoves
        <5> QED BY <3>2, <4>1, <4>3, <5>2, ShellWaitsLater DEF ShellAt, Onwards
      <4>4. CASE k.cpu.pc[2] = 4
        <5>1. Instruction.op = "recv" /\ Instruction.reg = "x"
          BY <1>1, <4>1, <4>4 DEF Sequenced
        <5>2. /\ Onwards(After(me)) /\ After(me).x = t
              /\ k'.status[me] = "BLOCKED" /\ k'.from[me] = t
          BY <1>0, <1>1, <2>1, <2>3, <4>1, <5>1, WaiterMoves
        <5> QED BY <3>2, <4>1, <4>4, <5>2, ShellWaitsLater DEF ShellAt, Onwards
      <4> QED BY <4>2, <4>3, <4>4
    <3>3. CASE me # 1
      <4>1. Passive(1)
        BY <1>0, <1>2, <3>3, Threads
      <4>2. k'.status[1] = k.status[1] /\ k'.from[1] = k.from[1] /\ After(1) = Reg(1)
        BY <1>0, <1>2, <2>4, <2>7, <3>1, <4>1, PassiveWaiter DEF ShellWaits
      <4> QED BY <3>1, <4>2, ShellWaitsLater DEF ShellWaits, ShellAt, Block, Place
    <3> QED BY <3>2, <3>3
  <2> QED BY <2>1, <2>2, <2>6, <2>7
<1> QED BY <1>3, <1>4

\* The copy on the stack of setupThread.
LEMMA CopyKept ==
    ASSUME Inv, UserStep, NEW t \in UserThread, Alive(k', t),
           After(t).pc[1] = "setupThread", After(t).pc[2] >= 3
    PROVE  mem'.localArgArray[t] = job'[t]
<1>0. me # Idle /\ Data /\ Shape /\ Located
  BY UserStepIs DEF Inv
<1>1. /\ Lives(me) /\ Reg(me) = k.cpu /\ Legal(k.cpu.pc, Instruction)
      /\ Sequenced(k.cpu.pc, Instruction) /\ Counter(k.cpu.pc)
  BY <1>0, Aware DEF Understood, Context
<1>2. k.cpu.pc[2] \in Nat
  BY <1>1, Counters
<1>3. ~(Starting /\ t = k.nextId)
  BY <1>0, NewbornIs
<1>4. Lives(t) /\ job'[t] = job[t] /\ (t # me => After(t).pc = Reg(t).pc)
  BY <1>0, <1>3, AtBefore
<1>5. Block(t) = "setupThread"
  BY <1>0, <1>3, SetupBefore
<1>6. CASE t # me
  <2>1. mem.localArgArray[t] = job[t]
    BY <1>4, <1>5, <1>6 DEF Inv, Arguments, Place
  <2> QED BY <1>0, <1>4, <1>6, <2>1 DEF Data
<1>7. CASE t = me
  <2>1. After(me).pc[2] = k.cpu.pc[2] + 1
    BY <1>0, <1>7, MoverIs DEF Onwards
  <2>2. k.cpu.pc[2] >= 2 /\ k.cpu.pc[1] = "setupThread"
    BY <1>1, <1>2, <1>5, <1>7, <2>1 DEF Block
  <2>3. CASE k.cpu.pc[2] = 2
    <3>1. Instruction.op = "copyArguments"
      BY <1>1, <2>2, <2>3 DEF Sequenced
    <3>2. ReadsShared(t)
      BY <1>1, <1>7, <2>2, <2>3 DEF ReadsShared, Block, Place
    <3>3. job[t] = mem.argArray
      BY <1>4, <3>2 DEF Inv, Arguments
    <3> QED BY <1>0, <1>4, <1>7, <3>1, <3>3 DEF Data
  <2>4. CASE k.cpu.pc[2] # 2
    <3>1. Instruction.op # "copyArguments"
      BY <1>1, <2>4 DEF Legal
    <3>2. k.cpu.pc[2] >= 3
      BY <1>2, <2>2, <2>4
    <3>3. mem.localArgArray[t] = job[t]
      BY <1>1, <1>4, <1>5, <1>7, <3>2 DEF Inv, Arguments, Place
    <3> QED BY <1>0, <1>4, <3>1, <3>3 DEF Data
  <2> QED BY <2>3, <2>4
<1> QED BY <1>6, <1>7

\* The parameter of Testback1 points to argArray or to its parent's stack.
LEMMA ParameterKept ==
    ASSUME Inv, UserStep, NEW t \in UserThread, Alive(k', t), After(t).pc[1] = "Testback1"
    PROVE  After(t).a0 \in {<<"argArray">>, <<"stack", k'.parent[t]>>}
<1>0. me # Idle /\ Shape /\ Located
  BY UserStepIs DEF Inv
<1>1. CASE Starting /\ t = k.nextId
  <2>1. "Testback1" \notin Others \cup {"setupThread"}
    BY DEF Others
  <2> QED BY <1>0, <1>1, <2>1, NewbornIs
<1>2. CASE ~(Starting /\ t = k.nextId)
  <2>1. Lives(t) /\ k'.parent[t] = k.parent[t]
    BY <1>0, <1>2, AtBefore
  <2>2. Block(t) = "Testback1" /\ After(t).a0 = Reg(t).a0
    BY <1>0, <1>2, SetupBefore
  <2> QED BY <2>1, <2>2 DEF Inv, Arguments
<1> QED BY <1>1, <1>2

\* The parent of such a thread, from its birth on.
LEMMA ParentIs ==
    ASSUME Shape, Located, NEW t \in UserThread, Lives(t), Block(t) = "Testback1"
    PROVE  k.parent[t] \in UserThread \ {t} /\ k.parent[t] < k.nextId
<1>1. t < k.nextId
  BY DEF Shape, Lives, Alive, UserThread
<1>2. t # 1
  BY DEF Located, Own, ShellBlocks
<1> QED BY <1>1, <1>2, CallsAssumption DEF Located, Own, UserThread, Shape

\* While Testback1 has still to read its parent's stack, the parent waits for it or has
\* been killed.
LEMMA StackKept ==
    ASSUME Inv, UserStep, NEW t \in UserThread, Alive(k', t), StackAt(After(t)),
           NEW p, p = k'.parent[t]
    PROVE  \/ k'.status[p] = "killed"
           \/ Alive(k', p) /\ job'[t] = job'[p] /\ SetupWaits(p, t)'
<1>0. me # Idle /\ Data /\ ((Ordinary /\ job' = job) \/ Starting) /\ Shape /\ Located /\ Silence
  BY UserStepIs DEF Inv
<1>1. /\ Running /\ Lives(me) /\ Reg(me) = k.cpu /\ Legal(k.cpu.pc, Instruction)
      /\ Sequenced(k.cpu.pc, Instruction) /\ Counter(k.cpu.pc) /\ me \in UserThread
  BY <1>0, Aware DEF Understood, Context, Running
<1>2. k.cpu.pc[2] \in Nat
  BY <1>1, Counters
<1>3. CASE Starting /\ t = k.nextId
  <2>1. "Testback1" \notin Others \cup {"setupThread"}
    BY DEF Others
  <2>2. /\ t \in UserThread \ {1, me} /\ k'.parent[t] = me
        /\ me # 1 /\ k.cpu.pc[1] = "setupThread" /\ k.cpu.pc[2] = 3 /\ Instruction.reg = "x"
    BY <1>0, <1>3, <2>1, NewbornIs DEF StackAt
  <2>3. k.queue[me] = << >>
    BY <1>0, <1>1, <2>2 DEF Silence, Block
  <2>4. ~QueueFull(k, me)
    BY <2>3, CallsAssumption DEF QueueFull
  <2>5. Instruction.op = "start"
    BY <1>3 DEF Starting
  <2>6. ~Ended
    BY <2>4, <2>5 DEF Ended
  <2>7. k'.status[me] = "READY"
    BY <1>3, <2>6 DEF Starting, GoesOn
  <2>8. Alive(k', me)
    BY <2>7 DEF Alive
  <2>9. /\ After(me).v0 = "OK" /\ After(me).x = t
        /\ After(me).pc[1] = "setupThread" /\ After(me).pc[2] = 4
    BY <1>0, <1>3, <2>2, <2>8, StarterIs
  <2>10. job'[t] = job[me]
    BY <1>0, <1>3, <2>2 DEF Starting, Shape
  <2>11. job'[me] = job[me]
    BY <1>0, MyOwn
  <2>12. p = me
    BY <2>2
  <2>13. SetupWaits(p, t)'
    BY <2>7, <2>9, <2>12, SetupWaitsLater
  <2> QED BY <2>8, <2>10, <2>11, <2>12, <2>13
<1>4. CASE ~(Starting /\ t = k.nextId)
  <2>1. /\ Lives(t) /\ ReadsStack(t) /\ k.parent[t] = p /\ job'[t] = job[t]
    BY <1>0, <1>4, AtBefore
  <2>2. p \in UserThread \ {t} /\ p < k.nextId
    BY <1>0, <2>1, ParentIs DEF ReadsStack
  <2>3. \/ k.status[p] = "killed"
        \/ Lives(p) /\ job[t] = job[p] /\ SetupWaits(p, t)
    BY <2>1 DEF Inv, Arguments
  <2>4. CASE k.status[p] = "killed"
    <3>1. ~Lives(p)
      BY <2>4 DEF Lives, Alive
    <3> QED BY <1>0, <2>2, <2>4, <3>1, StaysDead
  <2>5. CASE Lives(p) /\ job[t] = job[p] /\ SetupWaits(p, t)
    <3>1. Block(p) = "setupThread" /\ k.queue[p] = << >>
      BY <1>0, <2>2, <2>5 DEF SetupWaits, Silence
    <3>2. ~(Instruction.op = "send" /\ t = me)
      BY <1>1, <2>1 DEF ReadsStack, Legal, Block
    <3>3. CASE p = me
      <4>1. /\ k.cpu.pc[1] = "setupThread" /\ k.cpu.x = t
            /\ \/ k.cpu.pc[2] = 4 /\ k.cpu.v0 = "OK"
               \/ k.cpu.pc[2] \in {5, 6}
        BY <1>1, <2>5, <3>3 DEF SetupWaits, Block, Place, Running
      <4>2. \A i \in 1 .. Len(k.queue[me]) : k.queue[me][i] # t
        BY <3>1, <3>3
      <4>3. job'[p] = job[p]
        BY <1>0, <3>3, MyOwn
      <4>4. CASE k.cpu.pc[2] = 4 /\ k.cpu.v0 = "OK"
        <5>1. Instruction.op = "iffailed"
          BY <1>1, <4>1, <4>4 DEF Sequenced
        <5>2. Onwards(After(me)) /\ After(me).x = t /\ k'.status[me] = "READY"
          BY <1>0, <2>1, <4>1, <4>2, <4>4, <5>1, WaiterMoves
        <5>3. SetupWaits(p, t)' /\ Alive(k', p)
          BY <3>3, <4>1, <4>4, <5>2, SetupWaitsLater DEF Onwards, Alive
        <5> QED BY <2>1, <2>5, <4>3, <5>3
      <4>5. CASE k.cpu.pc[2] = 5
        <5>1. Instruction.op = "send"
          BY <1>1, <4>1, <4>5 DEF Sequenced
        <5>2. Onwards(After(me)) /\ After(me).x = t /\ k'.status[me] = "READY"
          BY <1>0, <2>1, <4>1, <4>2, <5>1, WaiterMoves
        <5>3. SetupWaits(p, t)' /\ Alive(k', p)
          BY <3>3, <4>1, <4>5, <5>2, SetupWaitsLater DEF Onwards, Alive
        <5> QED BY <2>1, <2>5, <4>3, <5>3
      <4>6. CASE k.cpu.pc[2] = 6
        <5>1. Instruction.op = "recv" /\ Instruction.reg = "x"
          BY <1>1, <4>1, <4>6 DEF Sequenced
        <5>2. /\ Onwards(After(me)) /\ After(me).x = t
              /\ k'.status[me] = "BLOCKED" /\ k'.from[me] = t
          BY <1>0, <2>1, <4>1, <4>2, <5>1, WaiterMoves
        <5>3. SetupWaits(p, t)' /\ Alive(k', p)
          BY <3>3, <4>1, <4>6, <5>2, SetupWaitsLater DEF Onwards, Alive
        <5> QED BY <2>1, <2>5, <4>3, <5>3
      <4> QED BY <4>1, <4>4, <4>5, <4>6
    <3>4. CASE p # me
      <4>1. p # k.nextId
        BY <2>2, <1>0 DEF Shape, UserThread
      <4>2. Passive(p) /\ job'[p] = job[p]
        BY <1>0, <2>2, <3>4, <4>1, Threads
      <4>3. CASE Alive(k', p)
        <5>1. k.status[p] = "READY" \/ (k.status[p] = "BLOCKED" /\ k.from[p] = t)
          BY <2>5 DEF SetupWaits
        <5>2. k'.status[p] = k.status[p] /\ k'.from[p] = k.from[p] /\ After(p) = Reg(p)
          BY <1>0, <2>2, <3>2, <4>2, <4>3, <5>1, PassiveWaiter
        <5>3. SetupWaits(p, t)'
          BY <2>5, <5>2, SetupWaitsLater DEF SetupWaits, Block, Place
        <5> QED BY <2>1, <2>5, <4>2, <4>3, <5>3
      <4>4. CASE ~Alive(k', p)
        <5>1. ~(Sends(p) /\ Gone(p, "overflowed"))
          BY <1>0, <2>2, <2>5, <3>1, QuietSends DEF Sends
        <5> QED BY <2>5, <4>2, <4>4, <5>1 DEF Passive, Same, Woken, Gone, Alive, Lives
      <4> QED BY <4>3, <4>4
    <3> QED BY <3>3, <3>4
  <2> QED BY <2>3, <2>4, <2>5
<1> QED BY <1>3, <1>4

\* What has been read.
LEMMA ReadKept ==
    ASSUME Inv, UserStep, NEW t \in UserThread, Alive(k', t),
           After(t).pc[1] = "Testback1", After(t).pc[2] = 3, NEW p, p = k'.parent[t]
    PROVE  \/ After(t).y = job'[t]
           \/ After(t).a0 # <<"argArray">> /\ k'.status[p] = "killed"
<1>0. me # Idle /\ ((Ordinary /\ job' = job) \/ Starting) /\ Shape /\ Located
  BY UserStepIs DEF Inv
<1>1. /\ Running /\ Lives(me) /\ Reg(me) = k.cpu /\ Legal(k.cpu.pc, Instruction)
      /\ Sequenced(k.cpu.pc, Instruction) /\ Counter(k.cpu.pc) /\ me \in UserThread
  BY <1>0, Aware DEF Understood, Context, Running
<1>2. k.cpu.pc[2] \in Nat
  BY <1>1, Counters
<1>3. ~(Starting /\ t = k.nextId)
  BY <1>0, NewbornIs
<1>4. /\ Lives(t) /\ k.parent[t] = p /\ job'[t] = job[t]
      /\ t # me => After(t).pc = Reg(t).pc /\ After(t).y = Reg(t).y
  BY <1>0, <1>3, AtBefore
<1>5. Block(t) = "Testback1" /\ After(t).a0 = Reg(t).a0
  BY <1>0, <1>3, SetupBefore
<1>6. p \in UserThread \ {t} /\ p < k.nextId
  BY <1>0, <1>4, <1>5, ParentIs
<1>7. k.status[p] = "killed" => k'.status[p] = "killed"
  <2>1. ASSUME k.status[p] = "killed" PROVE k'.status[p] = "killed"
    <3>1. ~Lives(p)
      BY <2>1 DEF Lives, Alive
    <3> QED BY <1>0, <1>6, <2>1, <3>1, StaysDead
  <2> QED BY <2>1
<1>8. CASE t # me
  <2>1. \/ Reg(t).y = job[t]
        \/ Reg(t).a0 # <<"argArray">> /\ k.status[p] = "killed"
    BY <1>4, <1>5, <1>8 DEF Inv, Arguments, Place
  <2> QED BY <1>4, <1>5, <1>7, <1>8, <2>1
<1>9. CASE t = me
  <2>1. After(me).pc[2] = k.cpu.pc[2] + 1
    BY <1>0, <1>9, MoverIs DEF Onwards
  <2>2. k.cpu.pc[2] = 2 /\ k.cpu.pc[1] = "Testback1"
    BY <1>1, <1>2, <1>5, <1>9, <2>1 DEF Block
  <2>3. Instruction.op = "readArguments"
    BY <1>1, <2>2 DEF Sequenced
  <2>4. Ordinary
    BY <1>0, <2>3 DEF Starting
  <2>5. After(me).y \in ArgumentsAt(k.cpu.a0)
    BY <1>0, <1>9, <2>3, <2>4, MineIs DEF Moves, NextValue
  <2>6. Reg(me).a0 \in {<<"argArray">>, <<"stack", p>>}
    BY <1>1, <1>4, <1>5, <1>9 DEF Inv, Arguments
  <2>7. CASE k.cpu.a0 = <<"argArray">>
    <3>1. ReadsShared(me)
      BY <1>1, <2>2, <2>7 DEF ReadsShared, Block, Place
    <3>2. job[me] = mem.argArray
      BY <1>1, <3>1 DEF Inv, Arguments
    <3>3. After(me).y = mem.argArray
      BY <2>5, <2>7 DEF ArgumentsAt
    <3> QED BY <1>4, <1>9, <3>2, <3>3
  <2>8. CASE k.cpu.a0 = <<"stack", p>>
    <3>1. k.cpu.a0 # <<"argArray">> /\ k.cpu.a0[2] = p
      BY <2>8
    <3>2. ReadsStack(me)
      BY <1>1, <2>2, <3>1 DEF ReadsStack, Block, Place
    <3>3. \/ k.status[p] = "killed"
          \/ Lives(p) /\ job[me] = job[p] /\ SetupWaits(p, me)
      BY <1>1, <1>4, <1>9, <3>2 DEF Inv, Arguments
    <3>4. CASE k.status[p] = "killed"
      BY <1>1, <1>5, <1>7, <1>9, <3>1, <3>4
    <3>5. CASE Lives(p) /\ job[me] = job[p] /\ SetupWaits(p, me)
      <4>1. Block(p) = "setupThread" /\ Place(p) >= 3
        BY <3>5 DEF SetupWaits
      <4>2. mem.localArgArray[p] = job[p]
        BY <1>6, <3>5, <4>1 DEF Inv, Arguments
      <4>3. After(me).y = mem.localArgArray[p]
        BY <2>5, <3>1, <3>5 DEF ArgumentsAt, Lives
      <4> QED BY <1>4, <1>9, <3>5, <4>2, <4>3
    <3> QED BY <3>3, <3>4, <3>5
  <2> QED BY <1>1, <2>6, <2>7, <2>8
<1> QED BY <1>8, <1>9

\* A step keeps Arguments.
LEMMA ArgumentsKept ==
    ASSUME Inv, UserStep
    PROVE  Arguments'
<1> SUFFICES ASSUME NEW t \in UserThread, Lives(t)'
             PROVE
        /\ ReadsShared(t)' => (job[t] = mem.argArray)' /\ (Lives(1)' => ShellWaits(t)')
        /\ (Block(t) = "setupThread" /\ Place(t) >= 3)' => (mem.localArgArray[t] = job[t])'
        /\ ReadsStack(t)' => (\/ k.status[k.parent[t]] = "killed"
                              \/ /\ Lives(k.parent[t])
                                 /\ job[t] = job[k.parent[t]]
                                 /\ SetupWaits(k.parent[t], t))'
        /\ (Block(t) = "Testback1")' =>
              (Reg(t).a0 \in {<<"argArray">>, <<"stack", k.parent[t]>>})'
        /\ (Block(t) = "Testback1" /\ Place(t) = 3)' =>
              (\/ Reg(t).y = job[t]
               \/ Reg(t).a0 # <<"argArray">> /\ k.status[k.parent[t]] = "killed")'
  BY DEF Arguments
<1>0. Alive(k', t) /\ Reg(t)' = After(t) /\ (Lives(1)' <=> Alive(k', 1))
  BY Later
<1>1. Block(t)' = After(t).pc[1] /\ Place(t)' = After(t).pc[2]
  BY <1>0 DEF Block, Place
<1>2. ReadsShared(t)' <=> SharedAt(After(t))
  BY <1>0, <1>1 DEF ReadsShared, SharedAt
<1>3. ReadsStack(t)' <=> StackAt(After(t))
  BY <1>0, <1>1 DEF ReadsStack, StackAt
<1>4. ReadsShared(t)' => (job[t] = mem.argArray)' /\ (Lives(1)' => ShellWaits(t)')
  BY <1>0, <1>2, SharedKept
<1>5. (Block(t) = "setupThread" /\ Place(t) >= 3)' => (mem.localArgArray[t] = job[t])'
  BY <1>0, <1>1, CopyKept
<1>6. PICK p : p = k'.parent[t]
  OBVIOUS
<1>7. ASSUME ReadsStack(t)'
      PROVE  \/ k'.status[p] = "killed"
             \/ Lives(p)' /\ job'[t] = job'[p] /\ SetupWaits(p, t)'
  BY <1>0, <1>3, <1>6, <1>7, StackKept, Later
<1>8. ASSUME (Block(t) = "Testback1" /\ Place(t) = 3)'
      PROVE  \/ After(t).y = job'[t]
             \/ After(t).a0 # <<"argArray">> /\ k'.status[p] = "killed"
  BY <1>0, <1>1, <1>6, <1>8, ReadKept
<1>9. (Block(t) = "Testback1")' =>
              (Reg(t).a0 \in {<<"argArray">>, <<"stack", k.parent[t]>>})'
  BY <1>0, <1>1, ParameterKept
<1>10. SetupWaits(p, t)' => (SetupWaits(k.parent[t], t))'
  BY <1>6 DEF SetupWaits, Block, Place, Reg
<1>11. Lives(p)' => (Lives(k.parent[t]))'
  BY <1>6 DEF Lives
<1> QED BY <1>0, <1>4, <1>5, <1>6, <1>7, <1>8, <1>9, <1>10, <1>11

-----------------------------------------------------------------------------
(* The clock, the first state, and the theorems *)

\* The registers of a thread that a step leaves alone.
LEMMA UnmovedIs ==
    ASSUME NEW t \in UserThread, NoneNew, Same(t)
    PROVE  /\ Reg(t)' = Reg(t) /\ Block(t)' = Block(t) /\ Place(t)' = Place(t)
           /\ Lives(t)' <=> Lives(t)
           /\ k'.status[t] = k.status[t] /\ k'.from[t] = k.from[t] /\ k'.queue[t] = k.queue[t]
           /\ k'.parent[t] = k.parent[t]
<1>1. Reg(t)' = Reg(t)
  BY Later DEF Same
<1> QED BY <1>1, Later DEF Same, NoneNew, Block, Place, Lives, Alive

\* The parent of a thread other than the shell is a thread.
LEMMA ParentIn ==
    ASSUME Shape, Located, NEW t \in UserThread, Lives(t), t # 1
    PROVE  k.parent[t] \in UserThread
BY CallsAssumption DEF Located, Own, UserThread

\* What changes no thread and no variable keeps the invariant.
LEMMA UnmovedKeeps ==
    ASSUME Inv, NoneNew, \A u \in UserThread : Same(u), UNCHANGED <<mem, script, typed, job>>
    PROVE  Inv'
<1>1. /\ mem' = mem /\ script' = script /\ typed' = typed /\ job' = job
      /\ k'.parent = k.parent /\ k'.nextId = k.nextId
  BY DEF NoneNew
<1>2. 1 \in UserThread
  BY CallsAssumption DEF UserThread
<1>3. Shape'
  <2>1. Kernel(k)'
    BY KernelLater DEF NoneNew, Kept
  <2>2. (\A t \in UserThread :
          /\ t >= k.nextId => k.status[t] = "UNUSED" /\ k.queue[t] = << >>
          /\ k.queue[t] \in Seq(1 .. k.nextId - 1))'
    BY <1>1, UnmovedIs DEF Inv, Shape
  <2>3. (k.running # Idle => k.status[k.running] = "READY")'
    BY DEF NoneNew, Kept
  <2>4. Variables(mem)'
    BY <1>1 DEF Inv, Shape, Variables
  <2> QED BY <1>1, <2>1, <2>2, <2>3, <2>4 DEF Inv, Shape
<1>4. Located'
  BY <1>1, UnmovedIs DEF Inv, Located, Own
<1>5. Silence'
  <2>1. ASSUME NEW t \in UserThread, Lives(t)
        PROVE  t # 1 => k.parent[t] \in UserThread
    BY <2>1, ParentIn DEF Inv
  <2>2. ASSUME NEW t \in UserThread, Lives(t)'
        PROVE  (/\ t # 1 /\ Lives(k.parent[t]) /\ Block(k.parent[t]) = "setupThread" =>
                      Block(t) \in QuietBlocks
                /\ Block(t) = "setupThread" => k.queue[t] = << >>
                /\ Unsent(t) => \A u \in UserThread : \A i \in 1 .. Len(k.queue[u]) : k.queue[u][i] # t)'
    <3>1. Lives(t) /\ Block(t)' = Block(t) /\ k'.queue[t] = k.queue[t]
          /\ (Unsent(t)' <=> Unsent(t))
      BY <2>2, UnmovedIs DEF Unsent
    <3>2. t # 1 => /\ Lives(k.parent[t])' <=> Lives(k.parent[t])
                   /\ Block(k.parent[t])' = Block(k.parent[t])
      BY <1>1, <2>1, <3>1, UnmovedIs
    <3>3. \A u \in UserThread : k'.queue[u] = k.queue[u]
      BY UnmovedIs
    <3> QED BY <1>1, <3>1, <3>2, <3>3 DEF Inv, Silence
  <2> QED BY <2>2 DEF Silence
<1>6. Prepared'
  BY <1>1, <1>2, UnmovedIs DEF Inv, Prepared
<1>7. \A t \in UserThread : ShellWaits(t)' <=> ShellWaits(t)
  BY <1>2, UnmovedIs DEF ShellWaits
<1>8. \A s, t \in UserThread : SetupWaits(s, t)' <=> SetupWaits(s, t)
  BY UnmovedIs DEF SetupWaits
<1>9. Arguments'
  <2>1. ASSUME NEW t \in UserThread, Lives(t)'
        PROVE  /\ Lives(t) /\ Reg(t)' = Reg(t) /\ Block(t)' = Block(t) /\ Place(t)' = Place(t)
               /\ (ReadsShared(t)' <=> ReadsShared(t)) /\ (ReadsStack(t)' <=> ReadsStack(t))
               /\ k'.parent[t] = k.parent[t]
    BY <2>1, UnmovedIs DEF ReadsShared, ReadsStack
  <2>2. ASSUME NEW t \in UserThread, Lives(t)'
        PROVE  ReadsShared(t)' => (job[t] = mem.argArray)' /\ (Lives(1)' => ShellWaits(t)')
    BY <1>1, <1>2, <1>7, <2>1, <2>2, UnmovedIs DEF Inv, Arguments
  <2>3. ASSUME NEW t \in UserThread, Lives(t)'
        PROVE  (Block(t) = "setupThread" /\ Place(t) >= 3)' => (mem.localArgArray[t] = job[t])'
    BY <1>1, <2>1, <2>3 DEF Inv, Arguments
  <2>4. ASSUME NEW t \in UserThread, Lives(t)', Block(t)' = "Testback1",
               NEW p, p = k.parent[t]
        PROVE  /\ p \in UserThread /\ k'.status[p] = k.status[p] /\ (Lives(p)' <=> Lives(p))
               /\ k'.parent[t] = p
    BY <1>1, <2>1, <2>4, ParentIs, UnmovedIs DEF Inv
  <2>5. ASSUME NEW t \in UserThread, Lives(t)', ReadsStack(t)'
        PROVE  (\/ k.status[k.parent[t]] = "killed"
                \/ /\ Lives(k.parent[t])
                   /\ job[t] = job[k.parent[t]]
                   /\ SetupWaits(k.parent[t], t))'
    <3>1. PICK p : p = k.parent[t]
      OBVIOUS
    <3>2. \/ k.status[p] = "killed"
          \/ Lives(p) /\ job[t] = job[p] /\ SetupWaits(p, t)
      BY <2>1, <2>5, <3>1 DEF Inv, Arguments
    <3>3. /\ p \in UserThread /\ k'.status[p] = k.status[p] /\ (Lives(p)' <=> Lives(p))
          /\ k'.parent[t] = p
      BY <2>4, <2>5, <3>1 DEF ReadsStack
    <3>4. \/ k'.status[p] = "killed"
          \/ Lives(p)' /\ job'[t] = job'[p] /\ SetupWaits(p, t)'
      BY <1>1, <1>8, <3>2, <3>3
    <3>5. SetupWaits(p, t)' => (SetupWaits(k.parent[t], t))'
      BY <3>3 DEF SetupWaits, Block, Place, Reg
    <3>6. Lives(p)' => (Lives(k.parent[t]))'
      BY <3>3 DEF Lives
    <3> QED BY <3>3, <3>4, <3>5, <3>6
  <2>6. ASSUME NEW t \in UserThread, Lives(t)', (Block(t) = "Testback1")'
        PROVE  (Reg(t).a0 \in {<<"argArray">>, <<"stack", k.parent[t]>>})'
    BY <2>1, <2>6 DEF Inv, Arguments
  <2>7. ASSUME NEW t \in UserThread, Lives(t)', (Block(t) = "Testback1" /\ Place(t) = 3)'
        PROVE  (\/ Reg(t).y = job[t]
                \/ Reg(t).a0 # <<"argArray">> /\ k.status[k.parent[t]] = "killed")'
    <3>1. PICK p : p = k.parent[t]
      OBVIOUS
    <3>2. \/ Reg(t).y = job[t]
          \/ Reg(t).a0 # <<"argArray">> /\ k.status[p] = "killed"
      BY <2>1, <2>7, <3>1 DEF Inv, Arguments
    <3>3. k'.status[p] = k.status[p] /\ k'.parent[t] = p
      BY <2>4, <2>7, <3>1
    <3> QED BY <1>1, <2>1, <2>7, <3>2, <3>3
  <2> QED BY <2>2, <2>3, <2>5, <2>6, <2>7 DEF Arguments
<1> QED BY <1>3, <1>4, <1>5, <1>6, <1>9 DEF Inv

\* A clock interrupt keeps the invariant.
LEMMA ClockKeeps ==
    ASSUME Inv, NEW next, ClockInterrupt(next)
    PROVE  Inv'
<1>1. NoneNew /\ \A u \in UserThread : Same(u)
  BY ClockIs DEF Inv
<1>2. UNCHANGED <<mem, script, typed, job>>
  BY DEF ClockInterrupt
<1> QED BY <1>1, <1>2, UnmovedKeeps

\* So does a step of something else.
LEMMA StutterKeeps ==
    ASSUME Inv, UNCHANGED vars
    PROVE  Inv'
<1>1. k' = k /\ UNCHANGED <<mem, script, typed, job>>
  BY DEF vars
<1>2. NoneNew
  BY <1>1 DEF NoneNew, Kept, Inv, Shape
<1>3. \A u \in UserThread : Same(u)
  BY <1>1 DEF Same, After, Reg
<1> QED BY <1>1, <1>2, <1>3, UnmovedKeeps

\* The shell alone, at the beginning of main().
LEMMA InitialIs ==
    ASSUME Init
    PROVE  Inv
<1> DEFINE first == NewContext("main", <<"none">>)
<1>1. Context(first) /\ first.pc[1] = "main" /\ first.pc[2] = 1 /\ first.x = NULL
  <2> DEFINE f == "main"
             p == <<"none">>
  <2>1. first = NewContext(f, p)
    OBVIOUS
  <2> HIDE DEF f, p
  <2>2. LET c == NewContext(f, p)
        IN  /\ Context(c) /\ c.pc[1] = f /\ c.pc[2] = 1 /\ c.a0 = p
            /\ c.v0 = "OK" /\ c.x = NULL /\ c.y = NULL /\ c.sr = TRUE
    BY NewContextIs
  <2> QED BY <2>1, <2>2 DEF f
<1> HIDE DEF first
<1>2. /\ k.cpu = first /\ k.running = 1 /\ k.nextId = 2
      /\ k.context = [t \in Thread |-> Dead]
      /\ k.status = [t \in UserThread |-> IF t = 1 THEN "READY" ELSE "UNUSED"]
      /\ k.queue = [t \in UserThread |-> << >>]
      /\ k.from = [t \in UserThread |-> NULL]
      /\ k.parent = [t \in UserThread |-> NULL]
      /\ k = [ cpu |-> k.cpu, running |-> k.running, context |-> k.context,
               status |-> k.status, queue |-> k.queue, from |-> k.from,
               parent |-> k.parent, nextId |-> k.nextId ]
  BY DEF Init, first
<1>3. 1 \in UserThread /\ 1 # Idle
  BY CallsAssumption DEF UserThread, Idle
<1>4. Kernel(k)
  BY <1>1, <1>2, <1>3, DeadIs DEF Kernel, Thread
<1>5. Shape
  <2>1. k.nextId \in 2 .. MaxThreads + 1
    BY <1>2, CallsAssumption
  <2>2. \A t \in UserThread :
          /\ t >= k.nextId => k.status[t] = "UNUSED" /\ k.queue[t] = << >>
          /\ k.queue[t] \in Seq(1 .. k.nextId - 1)
    BY <1>2 DEF UserThread
  <2>3. Variables(mem) /\ job = [t \in UserThread |-> job[t]]
    BY DEF Init, Variables
  <2>4. script \in Seq(Commands)
    BY ScriptsAssumption DEF Init
  <2> QED BY <1>2, <1>3, <1>4, <2>1, <2>2, <2>3, <2>4 DEF Shape
<1>6. \A t \in UserThread : Lives(t) => t = 1
  BY <1>2 DEF Lives, Alive
<1>7. Block(1) = "main" /\ Reg(1).x = NULL /\ Reg(1) = first
  BY <1>1, <1>2 DEF Block, Reg, RegistersOf
<1>8. Located
  BY <1>6, <1>7 DEF Located, Own, ShellBlocks, Waiters, Nobody
<1>9. Silence
  BY <1>6, <1>7 DEF Silence, Unsent
<1>10. Prepared
  BY <1>7 DEF Prepared, Waiters
<1>11. Arguments
  BY <1>6, <1>7 DEF Arguments, ReadsShared, ReadsStack
<1> QED BY <1>5, <1>8, <1>9, <1>10, <1>11 DEF Inv

\* In every state every thread is in its program, and who has still to read arguments
\* finds those of its command.
THEOREM ArgumentsInvariant == Spec => []Inv
<1>1. Init => Inv
  BY InitialIs
<1>2. Inv /\ [Next]_vars => Inv'
  <2> SUFFICES ASSUME Inv, [Next]_vars PROVE Inv'
    OBVIOUS
  <2>1. CASE UserStep
    <3>1. Shape /\ Located /\ Silence /\ Prepared
      BY DEF Inv
    <3> QED BY <2>1, <3>1, ShapeKept, LocatedKept, SilenceKept, PreparedKept, ArgumentsKept
          DEF Inv
  <2>2. CASE \E next \in Thread : ClockInterrupt(next)
    BY <2>2, ClockKeeps
  <2>3. CASE UNCHANGED vars
    BY <2>3, StutterKeeps
  <2> QED BY <2>1, <2>2, <2>3 DEF Next
<1> QED BY <1>1, <1>2, PTL DEF Spec

\* A program reads the arguments that were typed with its own command (start() and
\* setupThread, which wait for each other), whatever the commands, the clock and the
\* messages of other threads, unless the user kills the setupThread.
THEOREM CommandsKeepArguments == Spec => []ArgumentsIntact
<1>1. Inv => ArgumentsIntact
  <2> SUFFICES ASSUME Inv, NEW t \in UserThread, Alive(k, t),
                      RegistersOf(k, t).pc = <<"Testback1", 3>>
               PROVE  \/ RegistersOf(k, t).y = job[t]
                      \/ /\ RegistersOf(k, t).a0[1] = "stack"
                         /\ k.status[RegistersOf(k, t).a0[2]] = "killed"
    BY DEF ArgumentsIntact
  <2>1. Block(t) = "Testback1" /\ Place(t) = 3 /\ Lives(t) /\ Reg(t) = RegistersOf(k, t)
    BY DEF Block, Place, Reg, Lives
  <2>2. \/ Reg(t).y = job[t]
        \/ Reg(t).a0 # <<"argArray">> /\ k.status[k.parent[t]] = "killed"
    BY <2>1 DEF Inv, Arguments
  <2>3. Reg(t).a0 \in {<<"argArray">>, <<"stack", k.parent[t]>>}
    BY <2>1 DEF Inv, Arguments
  <2> QED BY <2>1, <2>2, <2>3
<1> QED BY <1>1, ArgumentsInvariant, PTL

\* A step changes no registers but those of the running thread, and the result of a
\* receive that others end.
LEMMA UserStepKeeps ==
    ASSUME Shape, Located, UserStep
    PROVE  KeepsRegisters
<1> SUFFICES ASSUME NEW t \in UserThread, Lives(t), Alive(k', t)
             PROVE  /\ \/ After(t) = Reg(t)
                       \/ k.running = t
                       \/ /\ k.status[t] = "BLOCKED"
                          /\ After(t) = [Reg(t) EXCEPT !.v0 = After(t).v0]
                    /\ After(t).a0 = Reg(t).a0
                    /\ After(t).sr = Reg(t).sr
                    /\ After(t).pc = Reg(t).pc => After(t) = [Reg(t) EXCEPT !.v0 = After(t).v0]
  BY Later DEF KeepsRegisters, Reg, After, Lives
<1>0. me # Idle /\ ((Ordinary /\ job' = job) \/ Starting)
  BY UserStepIs
<1>1. Reg(me) = k.cpu /\ Counter(k.cpu.pc)
  BY <1>0, Aware DEF Context
<1>2. CASE t # me
  <2>1. ~(Starting /\ t = k.nextId)
    BY DEF Shape, Lives, Alive
  <2>2. Passive(t)
    BY <1>2, <2>1, Threads
  <2>3. /\ Context(After(t)) /\ After(t).a0 = Reg(t).a0 /\ After(t).sr = Reg(t).sr
        /\ After(t) = Reg(t) \/ Woken(t)
    BY <2>2, PassiveIs, Later
  <2>4. CASE After(t) = Reg(t)
    <3>1. Reg(t) = [Reg(t) EXCEPT !.v0 = Reg(t).v0]
      BY <2>3, <2>4 DEF Context
    <3> QED BY <2>4, <3>1
  <2>5. CASE Woken(t)
    BY <2>3, <2>5 DEF Woken
  <2> QED BY <2>3, <2>4, <2>5
<1>3. CASE t = me
  <2>1. CASE Ordinary
    <3>1. Moves(After(me))
      BY <1>0, <1>3, <2>1, MineIs
    <3> QED BY <1>1, <1>3, <3>1 DEF Moves, NextValue
  <2>2. CASE Starting
    <3>1. /\ After(me).pc = Following(k.cpu.pc) /\ After(me).a0 = k.cpu.a0
          /\ After(me).sr = k.cpu.sr
      BY <1>0, <1>3, <2>2, StarterIs
    <3>2. After(me).pc # k.cpu.pc
      BY <1>1, <3>1, MovedOn
    <3> QED BY <1>1, <1>3, <3>1, <3>2
  <2> QED BY <1>0, <2>1, <2>2
<1> QED BY <1>2, <1>3

\* A clock interrupt changes no registers.
LEMMA ClockKeepsRegisters ==
    ASSUME Shape, NEW next, ClockInterrupt(next)
    PROVE  KeepsRegisters
<1>1. \A u \in UserThread : After(u) = Reg(u)
  BY ClockIs DEF Same
<1>2. \A u \in UserThread : Context(Reg(u))
  BY DEF Shape, Kernel, Reg, RegistersOf, Thread
<1>3. \A u \in UserThread : Reg(u) = [Reg(u) EXCEPT !.v0 = Reg(u).v0]
  BY <1>2 DEF Context
<1> QED BY <1>1, <1>3, Later DEF KeepsRegisters, Reg, After

\* A thread finds its registers as it left them, through every interrupt, system call
\* and choice of another thread (saveContext, restoreContext, tmSetReturnValue).
THEOREM RegistersKept == Spec => OwnRegisters
<1>1. Inv /\ [Next]_vars => [KeepsRegisters]_vars
  <2> SUFFICES ASSUME Inv, Next PROVE KeepsRegisters
    OBVIOUS
  <2>1. Shape /\ Located
    BY DEF Inv
  <2> QED BY <2>1, UserStepKeeps, ClockKeepsRegisters DEF Next
<1> QED BY <1>1, ArgumentsInvariant, PTL DEF Spec, OwnRegisters
=============================================================================
