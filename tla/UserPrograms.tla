---------------------------- MODULE UserPrograms ----------------------------
(***************************************************************************)
(* The programs of User/: the shell, what it starts, and the demonstration *)
(* and test programs, as user threads that share one address space, are    *)
(* preempted by the clock between any two instructions, and meet only in   *)
(* messages, thread deaths and global variables.                           *)
(*                                                                         *)
(* A program is a table of blocks of instructions.  An instruction is a    *)
(* system call or what lies between two accesses to something shared.  The *)
(* user types the commands of a script, whenever the shell is ready for    *)
(* one; commands are told apart by their place in the script, and the      *)
(* arguments of a command by the number of the command.                    *)
(***************************************************************************)
EXTENDS SystemCalls

CONSTANTS
    Scripts,    \* the sequences of commands that a user may type
    MAX_SEATS   \* the seats that the agencies of SeatReservation.c sell

ASSUME SeatsAssumption == MAX_SEATS \in Nat \ {0}

\* What getCommand knows and userCommands lists, a second shell left out: the
\* arguments of both would be in one argArray.
Programs == {"trap", "Start_Reservation", "Testback1", "Hello", "Demo", "test_timer",
             "crashMeMaster"}
Commands == [do : {"start", "background"}, program : Programs]
            \cup [do : {"kill", "ps", "exit"}, program : {"none"}]

ASSUME ScriptsAssumption == Scripts \subseteq Seq(Commands)

VARIABLES
    k,        \* the user threads, as the kernel keeps them
    clock,    \* the interrupting clock
    mem,      \* the global variables of the programs and the stack of setupThread
    script,   \* what the user is going to type
    typed,    \* number of commands typed so far
    job       \* the command that a thread was started for

vars == <<k, clock, mem, script, typed, job>>

Agency == {"first", "second"}      \* NR_THREADS

-----------------------------------------------------------------------------
(* Instructions *)

Do(op) == [op |-> op]
Call == Do("call")                  \* a call whose outcome does not matter
Start(reg, function, parameter) ==
    [op |-> "start", reg |-> reg, function |-> function, parameter |-> parameter]
Recv(reg) == [op |-> "recv", reg |-> reg]
IfFailed(pc) == [op |-> "iffailed", to |-> pc]
Goto(pc) == [op |-> "goto", to |-> pc]

Prompt == <<"main", 2>>
Return == <<"return", 1>>           \* past the end of a program
Sold == <<"Res_Thread", 6>>

\* main() of Shell.c, which readLine leaves for one of the commands
ShellCode ==
  [ main       |-> <<Call, Do("readLine")>>,
    start      |-> <<Do("getArguments"), Start("x", "named", "argArray"),
                     IfFailed(Prompt), Recv("x"), Goto(Prompt)>>,
    exit       |-> <<Call, Do("exit")>> ]

KillCode == [ kill |-> <<Do("getArguments"), Do("kill"), Goto(Prompt)>> ]

listThreads == [ ps |-> <<Call, Call, Goto(Prompt)>> ]

\* Wrong: the shell does not wait until setupThread has copied the arguments.
BackgroundHurried ==
  [ background |-> <<Do("getArguments"), Start("x", "setupThread", "named"),
                     Goto(Prompt)>> ]

Background ==
  [ background |-> <<Do("getArguments"), Start("x", "setupThread", "named"),
                     IfFailed(Prompt), Recv("x"), Goto(Prompt)>> ]

setupThread ==
    [ setupThread |-> <<Call, Do("copyArguments"),
                        Start("x", "given", "localArgArray"), IfFailed(Return),
                        Do("send"), Recv("x")>> ]

Demos == [ Testback1 |-> <<Call, Do("readArguments"), Call>>,
           trap      |-> <<Do("fault")>> ]

Hello == [ Hello |-> <<Call>> ]

test_timer == [ test_timer |-> <<Call, Call>> ]

ThreadsDemo ==
  [ Demo  |-> <<Call, Start("x", "Child", "none"), Call, Recv("x"), Call,
                Recv("x"), Call>>,
    Child |-> <<Call, Do("send"), Call>> ]

Reservation ==
  [ Start_Reservation |-> <<Call, Do("noSeats"), Start("x", "Res_Thread", "first"),
                            Start("y", "Res_Thread", "second"), Recv("x"), Recv("y"),
                            Do("sum"), Call>>,
    Res_Thread        |-> <<Call, Do("look"), Do("sell"), Call,
                            Goto(<<"Res_Thread", 2>>), Do("book")>> ]

\* crashMeMaster calls the test that its arguments name.
crashMeMaster == [ crashMeMaster |-> <<Call, Do("test")>> ]

SyscallTest ==
  [ crashMeSyscallTest |-> <<Call, Start("x", "childSyscallTest", "none"),
                             Recv("x"), Call>>,
    childSyscallTest   |-> <<Call, Start("x", "dummyThread", "none"),
                             Do("yield"), Recv("x"),
                             IfFailed(<<"childSyscallTest", 7>>), Do("kill"),
                             Call, Do("send"), Call>> ]

\* It does not end by itself.
dummyThread == [ dummyThread |-> <<Call, Do("send"), Goto(<<"dummyThread", 3>>)>> ]

StressTest ==
  [ stressTest |-> <<Call, Start("x", "recThread", "none"), Recv("x"), Call>>,
    recThread  |-> <<Start("x", "recThread", "none"), IfFailed(Return), Recv("x")>> ]

MemoryTest ==
  [ memoryTestAll |-> <<Call, Start("x", "tryMemory", "none"), Recv("x"),
                        Start("x", "empty", "none"), Call>>,
    tryMemory     |-> <<Do("touch")>>,
    empty         |-> << >> ]

\* Words of a local array as a thread's program: it goes on with a harmless one,
\* and the next is none.  The result of tmStart is not looked at.
TrapTest ==
  [ trapTest |-> <<Call, Start("x", "trapper", "none"), Recv("x"),
                   Start("x", "trapper", "none"), Recv("x"), Call>>,
    trapper  |-> <<Do("touch"), Do("fault")>> ]

Tables == {ShellCode, KillCode, listThreads, Background, setupThread, Demos, Hello,
           test_timer, ThreadsDemo, Reservation, crashMeMaster, SyscallTest,
           dummyThread, StressTest, MemoryTest, TrapTest}

TableOf(block) == CHOOSE table \in Tables : block \in DOMAIN table

Code == [block \in UNION {DOMAIN table : table \in Tables} |-> TableOf(block)[block]]

\* Where the program counter is behind the last instruction of a program, the
\* code of automaticThreadExit is.
InstructionAt(pc) ==
    IF pc[1] \in DOMAIN Code /\ pc[2] \in DOMAIN Code[pc[1]]
    THEN Code[pc[1]][pc[2]]
    ELSE Do("exit")

-----------------------------------------------------------------------------
(* Steps of the running thread *)

me == k.running
Instruction == InstructionAt(k.cpu.pc)
Is(op) == me # Idle /\ ~clock.raised /\ Instruction.op = op

\* The processor goes on with these registers.
Registers(cpu) == k' = [k EXCEPT !.cpu = cpu]
Step(cpu) == Registers([cpu EXCEPT !.pc = Following(@)])

\* The threads' state when a system call has brought the running thread into the
\* kernel, and the way back, to the caller or to another thread.
InKernel == syscallExceptionHandler(k)
ReturnFrom(s) == \E next \in Candidates(s) : k' = restoreContext(s, next)

Compute ==
    \/ Is("goto") /\ Registers([k.cpu EXCEPT !.pc = Instruction.to])
    \/ /\ Is("iffailed")
       /\ IF k.cpu.v0 = "FAILED" THEN Registers([k.cpu EXCEPT !.pc = Instruction.to])
                                 ELSE Step(k.cpu)
    \/ /\ Is("test")
       /\ \E test \in {"crashMeSyscallTest", "stressTest", "memoryTestAll",
                       "trapTest", "return"} :
             Registers([k.cpu EXCEPT !.pc = <<test, 1>>])

CallStep ==
    /\ Is("call")
    /\ ReturnFrom(Answer(InKernel, me, "OK"))

\* A program that has not looked at the result of tmStart waits for a thread id
\* that nobody has written.
RecvStep ==
    /\ Is("recv")
    /\ \E sender \in IF k.cpu[Instruction.reg] = NULL THEN UserThread
                     ELSE {k.cpu[Instruction.reg]} :
          ReturnFrom(tmMsgRecv(InKernel, me, sender))

\* The message goes to the parent, whose id tmGetInfo has returned.
SendStep ==
    /\ Is("send")
    /\ ReturnFrom(tmMsgSend(InKernel, me, k.parent[me]))

YieldStep ==
    /\ Is("yield")
    /\ ReturnFrom(tmSetReturnValue(InKernel, me, "OK"))

\* The same for the victim of tmKill.
KillStep ==
    /\ Is("kill")
    /\ \E victim \in IF k.cpu.x = NULL THEN UserThread ELSE {k.cpu.x} :
          ReturnFrom(tmKill(InKernel, me, victim))

ExitStep ==
    /\ Is("exit")
    /\ ReturnFrom(tmExit(InKernel, me))

\* tryMemory may have been given an address that is mapped.
TouchStep ==
    \/ Is("touch") /\ Step(k.cpu)
    \/ /\ Is("fault") \/ Is("touch")
       /\ ReturnFrom(Fault(UTLBMissHandler(k), me))

\* The new thread's id is written through the pointer that tmStart was given.
StartStep ==
    /\ Is("start")
    /\ LET function == CASE Instruction.function = "named" -> k.cpu.y
                         [] Instruction.function = "given" -> k.cpu.a0[2]
                         [] OTHER -> Instruction.function
           parameter == CASE Instruction.parameter = "named" -> <<"command", k.cpu.y>>
                          [] Instruction.parameter = "localArgArray" -> <<"stack", me>>
                          [] OTHER -> <<Instruction.parameter>>
           cpu == IF Starts(k) THEN [k.cpu EXCEPT ![Instruction.reg] = k.nextId]
                               ELSE k.cpu
       IN  /\ ReturnFrom(tmStart(syscallExceptionHandler([k EXCEPT !.cpu = cpu]),
                                 me, function, parameter))
           /\ job' = IF ~Starts(k) THEN job
                     ELSE [job EXCEPT ![k.nextId] =
                            IF me = 1 THEN typed ELSE job[me]]
-----------------------------------------------------------------------------
(* The shell and its arguments *)

\* readLine: ioRead returns without a character until the line is typed, and
\* getCommand tells what it is.  The user may name any thread in a kill.
ReadLine ==
    /\ Is("readLine")
    /\ \/ /\ ~QueueFull(k, me)
          /\ script # << >>
          /\ \E victim \in IF Head(script).do = "kill"
                           THEN {t \in UserThread : t < k.nextId} ELSE {NULL} :
                Registers([k.cpu EXCEPT !.pc = <<Head(script).do, 1>>,
                                        !.x = victim, !.y = Head(script).program])
          /\ script' = Tail(script)
          /\ typed' = typed + 1
       \/ /\ ReturnFrom(Answer(generalExceptionHandler(k), me, "OK"))
          /\ UNCHANGED <<script, typed>>
    /\ UNCHANGED <<clock, mem, job>>

\* The loops over getArgument of start() and kill(): the arguments are in static
\* variables.
GetArguments ==
    /\ Is("getArguments")
    /\ Step(k.cpu)
    /\ mem' = [mem EXCEPT !.argArray = typed]

\* setupThread copies them to its stack.
CopyArguments ==
    /\ Is("copyArguments")
    /\ Step(k.cpu)
    /\ mem' = [mem EXCEPT !.localArgArray[me] = mem.argArray]

\* What a program finds when it reads its arguments: on the stack of a thread
\* that is gone, the old values or something else.
ArgumentsAt(a0) ==
    IF a0 = <<"argArray">> THEN {mem.argArray}
    ELSE {mem.localArgArray[a0[2]]} \cup IF Alive(k, a0[2]) THEN {} ELSE {0}

\* Testback1 reads its arguments.  y keeps what it has read.
ReadArguments ==
    /\ Is("readArguments")
    /\ \E found \in ArgumentsAt(k.cpu.a0) : Step([k.cpu EXCEPT !.y = found])

-----------------------------------------------------------------------------
(* SeatReservation.c: seats is read and written without any protection *)

Total(reserved) == FoldFunction(LAMBDA a, b : a + b, 0, reserved)

NoSeats ==
    /\ Is("noSeats")
    /\ Step(k.cpu)
    /\ mem' = [mem EXCEPT !.seats = 0]

\* tmp = seats
Look ==
    /\ Is("look")
    /\ Step([k.cpu EXCEPT !.y = mem.seats,
                          !.x = IF k.cpu.x = NULL THEN 0 ELSE k.cpu.x])

\* One more seat if tmp says that there is one, or the end of the loop.
Sell ==
    /\ Is("sell")
    /\ IF k.cpu.y >= MAX_SEATS
       THEN Registers([k.cpu EXCEPT !.pc = Sold]) /\ UNCHANGED mem
       ELSE Step([k.cpu EXCEPT !.x = @ + 1])
            /\ mem' = [mem EXCEPT !.seats = k.cpu.y + 1]

\* reisebuero[i] = myreserved
Book ==
    /\ Is("book")
    /\ Step(k.cpu)
    /\ mem' = [mem EXCEPT !.reisebuero[k.cpu.a0[1]] = k.cpu.x]

\* sum is never initialised.
Sum ==
    /\ Is("sum")
    /\ \E sum \in 0..1 : Step([k.cpu EXCEPT !.y = sum + Total(mem.reisebuero)])

-----------------------------------------------------------------------------
(* The clock interrupt, and the whole *)

\* hwExceptionHandler and intDispatcher: tmClockHandler chooses a thread, then
\* the interrupt is reset.
ClockInterrupt(next) ==
    /\ k.cpu.sr
    /\ clock.armed \/ clock.raised
    /\ next \in Candidates(k)
    /\ k' = restoreContext(generalExceptionHandler(k), next)
    /\ clock' = tmResetClockInterrupt(Tick(clock))
    /\ UNCHANGED <<mem, script, typed, job>>

Init ==
    /\ script \in Scripts
    /\ typed = 0
    /\ k = [ cpu |-> NewContext("main", <<"none">>),
             running |-> 1,
             context |-> [t \in Thread |-> Dead],
             status  |-> [t \in UserThread |-> IF t = 1 THEN "READY" ELSE "UNUSED"],
             queue   |-> [t \in UserThread |-> << >>],
             from    |-> [t \in UserThread |-> NULL],
             parent  |-> [t \in UserThread |-> NULL],
             nextId  |-> 2 ]
    /\ clock = setClockValue("RATEGENERATOR")
    /\ mem = [ argArray |-> 0, localArgArray |-> [t \in UserThread |-> 0],
               seats |-> 0, reisebuero |-> [a \in Agency |-> 0] ]
    /\ job = [t \in UserThread |-> 0]

UserStep ==
    \/ /\ Compute \/ CallStep \/ RecvStep \/ SendStep \/ YieldStep \/ KillStep
          \/ ExitStep \/ TouchStep \/ ReadArguments \/ Look \/ Sum
       /\ UNCHANGED <<clock, mem, script, typed, job>>
    \/ StartStep /\ UNCHANGED <<clock, mem, script, typed>>
    \/ /\ GetArguments \/ CopyArguments \/ NoSeats \/ Sell \/ Book
       /\ UNCHANGED <<clock, script, typed, job>>
    \/ ReadLine

Next ==
    \/ UserStep
    \/ \E next \in Thread : ClockInterrupt(next)

Spec == Init /\ [][Next]_vars

\* A ready thread gets the processor again and again, for longer than the
\* system needs to answer a clock interrupt.
FairSpec ==
    /\ Spec
    /\ \A t \in UserThread : /\ WF_vars(k.running # t /\ ClockInterrupt(t))
                             /\ SF_vars(k.running = t /\ UserStep)

-----------------------------------------------------------------------------
(* Properties *)

\* A thread finds its registers as it left them: what others do, interrupts and
\* system calls included, changes nothing of them, except the result of a
\* receive in which the thread is blocked; and its own steps keep its argument
\* register, and everything but the result when they do not move its program
\* counter (saveContext, restoreContext, exceptionContext, tmSetReturnValue).
KeepsRegisters ==
    \A t \in UserThread :
        Alive(k, t) /\ Alive(k, t)' =>
            LET before == RegistersOf(k, t)
                after == RegistersOf(k, t)'
            IN  /\ \/ after = before
                   \/ k.running = t
                   \/ /\ k.status[t] = "BLOCKED"
                      /\ after = [before EXCEPT !.v0 = after.v0]
                /\ after.a0 = before.a0
                /\ after.sr = before.sr
                /\ after.pc = before.pc =>
                        after = [before EXCEPT !.v0 = after.v0]
OwnRegisters == [][KeepsRegisters]_vars

\* A program reads the arguments that were typed with its own command although
\* all commands share one argArray, unless the user has killed the setupThread
\* whose stack holds the copy (start() and setupThread wait for each other).
ArgumentsIntact ==
    \A t \in UserThread :
        LET own == RegistersOf(k, t)
        IN  Alive(k, t) /\ own.pc = <<"Testback1", 3>> =>
                \/ own.y = job[t]
                \/ own.a0[1] = "stack" /\ k.status[own.a0[2]] = "killed"

Leftovers == {t \in UserThread : k.parent[t] = 1 /\ k.status[t] = "exited"}

\* The shell is at its prompt again and again, whatever it has started, until
\* the user ends it, or until the messages of background threads that it never
\* received have filled its queue (start(), setupThread).
PromptReturns ==
    []<>(\/ Alive(k, 1) /\ RegistersOf(k, 1).pc = Prompt
         \/ k.status[1] \in {"exited", "killed"}
         \/ /\ k.status[1] = "overflowed"
            /\ Cardinality(Leftovers) >= MAXNBMSGINQUEUE)
=============================================================================
