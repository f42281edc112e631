-------------------------- MODULE KernelLocksProofs --------------------------
(***************************************************************************)
(* KernelLocks keeps its four invariants, for any number of user threads   *)
(* that ask for any operations.                                            *)
(*                                                                         *)
(* Three things are shown.                                                 *)
(*                                                                         *)
(* Programs.  A program brackets a lock if every instruction that takes it *)
(* is followed by one that releases it, with no system call in between;    *)
(* programs that do can be put one behind the other and inside each other  *)
(* (ConcatBrackets, UnderBrackets), and so can what remains of them.  In   *)
(* the same way every program of a server is Formed: in an order that      *)
(* Follows allows, with an Await behind each call and nowhere else.        *)
(*                                                                         *)
(* Scheduling.  The scheduler's lists agree with the threads' status, and  *)
(* the processor belongs to a most urgent thread that can run              *)
(* (SchedSound); this comes from SchedulerListsProofs.                     *)
(*                                                                         *)
(* Order.  Why no server ever works behind another's back: who is owed an  *)
(* answer sleeps until it comes, who sleeps has nothing to do or is owed   *)
(* an answer, and but for TM's calls of MM one server works at a time      *)
(* (Orderly).  During the boot, until the first driver is there, nobody    *)
(* asks for anything but TM and the I/O thread.  One lemma per action      *)
(* shows that it keeps all of this.                                        *)
(***************************************************************************)
EXTENDS KernelLocks, SchedulerListsProofs, TLAPS

\* The locks that keep schedule() from taking the processor away.
TmLock == {"threadLock", "schedLock"}

\* The instructions that enter the kernel.
SystemCall == {"send", "reply", "await"}

\* Instruction j of p releases l, with no system call from instruction i on.
ReleasedAt(p, l, i, j) ==
    /\ p[j] = Unlock(l)
    /\ \A m \in i .. j - 1 : p[m].do \notin SystemCall

\* The lock is going to be released before the next system call.
Releases(p, l) == \E j \in 1 .. Len(p) : ReleasedAt(p, l, 1, j)

\* So it is whenever it is taken.
Brackets(p, l) ==
    \A i \in 1 .. Len(p) :
        p[i] = Lock(l) => \E j \in i + 1 .. Len(p) : ReleasedAt(p, l, i + 1, j)

\* The requests that each server takes.
StartDriver == Request("TM_START", IO, NULL)
TmRequest == {Request("TM_START", f, NULL) : f \in Users \cup {IO}}
             \cup {Request("TM_KILL", f, a) : f \in Users, a \in Users}
             \cup {Request("TM_EXIT", u, NULL) : u \in Users}
FromTm == {Request(op, TM, NULL) : op \in {"VM_ALLOC", "VM_FREE", "VM_MOVE"}}
MmRequest == FromTm \cup {Request("VM_CLEANUP", TM, NULL)}
             \cup {Request("VM_ALLOC", u, NULL) : u \in Users}
IoRequest == {Request(op, u, NULL) : op \in {"IO_OPEN", "IO_CLOSE"}, u \in Users}
DriverRequest == {Request(op, u, NULL) :
                     op \in {"IO_INIT", "IO_READ", "IO_DRIVERCLOSE"}, u \in Users}
RequestOf(s) == IF s = TM THEN TmRequest ELSE IF s = MM THEN MmRequest
                ELSE IF s = IO THEN IoRequest ELSE DriverRequest

\* The instructions of each thread.  TM moves no server but those it starts.
Asks == {Send(MM, r) : r \in FromTm}
Cleanup == Send(MM, Request("VM_CLEANUP", TM, NULL))
HeapInstr == {Lock("hmLock"), Unlock("hmLock")}
TmInstr == {Lock(l) : l \in LockName} \cup {Unlock(l) : l \in LockName}
           \cup {Change(do, c) : do \in {"insert", "setready"},
                                 c \in Thread \ {TM, MM}}
           \cup {Change("remove", u) : u \in Users}
           \cup {Reply(t) : t \in Users \cup {IO}} \cup Asks \cup {Cleanup, Await}
MmInstr == HeapInstr \cup {Reply(t) : t \in Users \cup {TM}}
IoInstr == HeapInstr \cup {Reply(u) : u \in Users}
           \cup {Send(TM, StartDriver), Await}
           \cup {Send(Driver, r) : r \in DriverRequest}
DriverInstr == HeapInstr \cup {Reply(u) : u \in Users}
UserInstr(u) == {Await} \cup UNION {{Send(s, r) : r \in {q \in RequestOf(s) : q.from = u}} :
                                       s \in Servers}
InstrOf(t) == IF t = TM THEN TmInstr ELSE IF t = MM THEN MmInstr
              ELSE IF t = IO THEN IoInstr ELSE IF t = Driver THEN DriverInstr
              ELSE IF t \in Users THEN UserInstr(t) ELSE {}

\* Instruction i is part of program p.
Has(p, i) == \E k \in 1 .. Len(p) : p[k] = i

Calls == Asks \cup {Send(TM, StartDriver)}

\* A call is a request and the receive of its answer, which is nowhere else.
Paired(p) ==
    \A k \in 1 .. Len(p) :
        /\ p[k] \in Calls => k + 1 \in 1 .. Len(p) /\ p[k + 1] = Await
        /\ p[k] = Await /\ k # 1 => p[k - 1] \in Calls

\* In a server's program b may come after a, at any distance: answers come last
\* but for the answer to a kill after the cleanup, a thread is inserted before
\* it is set ready, and only once, and the I/O thread starts one driver.
Follows(a, b) ==
    /\ a.do # "reply" /\ ~(a.do = "send" /\ a.on = Driver)
    /\ a = Cleanup => \E u \in Users : b = Reply(u)
    /\ a.do = "insert" /\ b.do = "insert" => a.on # b.on
    /\ a.do = "setready" /\ b.do \in {"insert", "setready"} => a.on # b.on
    /\ a.do = "remove" => b.do \notin {"insert", "setready"}
    /\ a \in {Await, Send(TM, StartDriver)} => b # Send(TM, StartDriver)

Ordered(p) == \A j, k \in 1 .. Len(p) : j < k => Follows(p[j], p[k])

\* What is inserted is set ready, and the start of the driver is answered.
Complete(p) ==
    /\ \A c \in Thread : Has(p, Change("insert", c)) => Has(p, Change("setready", c))
    /\ Has(p, Change("insert", Driver)) => Has(p, Reply(IO))

Formed(p) == Ordered(p) /\ Paired(p)

-----------------------------------------------------------------------------
(* Programs *)

\* What remains of a program brackets what the program does, and releases what
\* it has taken or is going to release.
LEMMA TailBrackets ==
    ASSUME NEW S, NEW p \in Seq(S), p # << >>, NEW l
    PROVE  /\ Brackets(p, l) => Brackets(Tail(p), l)
           /\ Brackets(p, l) /\ Head(p) = Lock(l) => Releases(Tail(p), l)
           /\ Releases(p, l) /\ Head(p) # Unlock(l) => Releases(Tail(p), l)
           /\ Releases(p, l) => Head(p).do \notin SystemCall
<1> DEFINE q == Tail(p)
<1>1. /\ q \in Seq(S) /\ Len(q) = Len(p) - 1 /\ Len(p) \in Nat \ {0}
      /\ \A i \in 1 .. Len(q) : q[i] = p[i + 1]
      /\ Head(p) = p[1]
  OBVIOUS
<1>2. ASSUME NEW i \in 1 .. Len(p), NEW j \in i + 1 .. Len(p), ReleasedAt(p, l, i + 1, j)
      PROVE  ReleasedAt(q, l, i, j - 1) /\ j - 1 \in i .. Len(q)
  <2>1. j - 1 \in 1 .. Len(q) /\ q[j - 1] = p[j]
    BY <1>1
  <2>2. ASSUME NEW m \in i .. j - 2 PROVE q[m].do \notin SystemCall
    <3>1. m \in 1 .. Len(q) /\ m + 1 \in i + 1 .. j - 1
      BY <1>1
    <3> QED BY <3>1, <1>1, <1>2 DEF ReleasedAt
  <2>3. (j - 1) - 1 = j - 2
    OBVIOUS
  <2> QED BY <2>1, <2>2, <2>3, <1>2, <1>1 DEF ReleasedAt
<1>3. Brackets(p, l) => Brackets(q, l)
  <2> SUFFICES ASSUME Brackets(p, l), NEW i \in 1 .. Len(q), q[i] = Lock(l)
               PROVE  \E j \in i + 1 .. Len(q) : ReleasedAt(q, l, i + 1, j)
    BY DEF Brackets
  <2>1. i + 1 \in 1 .. Len(p) /\ p[i + 1] = Lock(l)
    BY <1>1
  <2>2. PICK j \in (i + 1) + 1 .. Len(p) : ReleasedAt(p, l, (i + 1) + 1, j)
    BY <2>1 DEF Brackets
  <2>3. ReleasedAt(q, l, i + 1, j - 1) /\ j - 1 \in i + 1 .. Len(q)
    BY <2>1, <2>2, <1>2
  <2> QED BY <2>3
<1>4. Brackets(p, l) /\ Head(p) = Lock(l) => Releases(q, l)
  <2> SUFFICES ASSUME Brackets(p, l), p[1] = Lock(l) PROVE Releases(q, l)
    BY <1>1
  <2>1. 1 \in 1 .. Len(p)
    BY <1>1
  <2>2. PICK j \in 1 + 1 .. Len(p) : ReleasedAt(p, l, 1 + 1, j)
    BY <2>1 DEF Brackets
  <2>3. ReleasedAt(q, l, 1, j - 1) /\ j - 1 \in 1 .. Len(q)
    BY <2>1, <2>2, <1>2
  <2> QED BY <2>3 DEF Releases
<1>5. Releases(p, l) => Head(p).do \notin SystemCall
  <2> SUFFICES ASSUME NEW j \in 1 .. Len(p), ReleasedAt(p, l, 1, j)
               PROVE  p[1].do \notin SystemCall
    BY <1>1 DEF Releases
  <2>1. CASE j = 1
    BY <2>1 DEF ReleasedAt, Unlock, Instr, SystemCall
  <2>2. CASE j # 1
    <3>1. 1 \in 1 .. j - 1
      BY <2>2, <1>1
    <3> QED BY <3>1 DEF ReleasedAt
  <2> QED BY <2>1, <2>2
<1>6. Releases(p, l) /\ Head(p) # Unlock(l) => Releases(q, l)
  <2> SUFFICES ASSUME NEW j \in 1 .. Len(p), ReleasedAt(p, l, 1, j), p[1] # Unlock(l)
               PROVE  Releases(q, l)
    BY <1>1 DEF Releases
  <2>1. j # 1 /\ 1 \in 1 .. Len(p)
    BY <1>1 DEF ReleasedAt
  <2>2. j \in 1 + 1 .. Len(p)
    BY <2>1, <1>1
  <2>3. ReleasedAt(p, l, 1 + 1, j)
    BY <2>2 DEF ReleasedAt
  <2>4. ReleasedAt(q, l, 1, j - 1) /\ j - 1 \in 1 .. Len(q)
    BY <2>1, <2>2, <2>3, <1>2
  <2> QED BY <2>4 DEF Releases
<1> QED BY <1>1, <1>3, <1>4, <1>5, <1>6

LEMMA ConcatBrackets ==
    ASSUME NEW S, NEW p \in Seq(S), NEW q \in Seq(S), NEW l,
           Brackets(p, l), Brackets(q, l)
    PROVE  Brackets(p \o q, l)
<1> DEFINE r == p \o q
<1>1. /\ Len(r) = Len(p) + Len(q) /\ Len(p) \in Nat /\ Len(q) \in Nat
      /\ \A i \in 1 .. Len(p) : r[i] = p[i]
      /\ \A i \in 1 .. Len(q) : r[i + Len(p)] = q[i]
  OBVIOUS
<1> SUFFICES ASSUME NEW i \in 1 .. Len(r), r[i] = Lock(l)
             PROVE  \E j \in i + 1 .. Len(r) : ReleasedAt(r, l, i + 1, j)
  BY DEF Brackets
<1>2. CASE i \in 1 .. Len(p)
  <2>1. PICK j \in i + 1 .. Len(p) : ReleasedAt(p, l, i + 1, j)
    BY <1>1, <1>2 DEF Brackets
  <2>2. j \in i + 1 .. Len(r) /\ j \in 1 .. Len(p)
    BY <1>1
  <2>3. \A m \in i + 1 .. j - 1 : m \in 1 .. Len(p)
    BY <2>2, <1>1
  <2>4. ReleasedAt(r, l, i + 1, j)
    BY <2>1, <2>2, <2>3, <1>1 DEF ReleasedAt
  <2> QED BY <2>2, <2>4
<1>3. CASE i \notin 1 .. Len(p)
  <2> DEFINE k == i - Len(p)
  <2>1. k \in 1 .. Len(q) /\ k + Len(p) = i
    BY <1>1, <1>3
  <2>2. q[k] = Lock(l)
    BY <2>1, <1>1
  <2>3. PICK j \in k + 1 .. Len(q) : ReleasedAt(q, l, k + 1, j)
    BY <2>1, <2>2 DEF Brackets
  <2>4. j \in 1 .. Len(q) /\ j + Len(p) \in i + 1 .. Len(r)
    BY <2>1, <1>1
  <2>5. ASSUME NEW m \in i + 1 .. (j + Len(p)) - 1
        PROVE  r[m].do \notin SystemCall
    <3>1. m - Len(p) \in k + 1 .. j - 1 /\ m - Len(p) \in 1 .. Len(q)
          /\ (m - Len(p)) + Len(p) = m
      BY <2>1, <2>4, <1>1
    <3> QED BY <3>1, <2>3, <1>1 DEF ReleasedAt
  <2>6. ReleasedAt(r, l, i + 1, j + Len(p))
    BY <2>3, <2>4, <2>5, <1>1 DEF ReleasedAt
  <2> QED BY <2>4, <2>6
<1> QED BY <1>2, <1>3

\* No system call in a section that holds a lock.
Quiet(p) == \A i \in 1 .. Len(p) : p[i].do \notin SystemCall

LEMMA UnderBrackets ==
    ASSUME NEW S, NEW p \in Seq(S), NEW k, NEW l, Lock(k) \in S, Unlock(k) \in S,
           Brackets(p, l), Quiet(p)
    PROVE  /\ Under(k, p) \in Seq(S)
           /\ Brackets(Under(k, p), l)
           /\ Quiet(Under(k, p))
<1> DEFINE a == <<Lock(k)>>
           z == <<Unlock(k)>>
           r == a \o p \o z
<1>0. Under(k, p) = r
  BY DEF Under
<1>1. /\ a \in Seq(S) /\ z \in Seq(S) /\ r \in Seq(S)
      /\ Len(r) = Len(p) + 2 /\ Len(p) \in Nat
      /\ r[1] = Lock(k) /\ r[Len(r)] = Unlock(k)
      /\ \A i \in 1 .. Len(p) : r[i + 1] = p[i]
  OBVIOUS
<1>2. ASSUME NEW i \in 1 .. Len(r), i # 1, i # Len(r)
      PROVE  i - 1 \in 1 .. Len(p) /\ r[i] = p[i - 1]
  <2>1. i - 1 \in 1 .. Len(p) /\ (i - 1) + 1 = i
    BY <1>1, <1>2
  <2> QED BY <2>1, <1>1
<1>3. ASSUME NEW i \in 1 .. Len(r) PROVE r[i].do \notin SystemCall
  <2>1. CASE i = 1
    BY <2>1, <1>1 DEF Lock, Instr, SystemCall
  <2>2. CASE i = Len(r)
    BY <2>2, <1>1 DEF Unlock, Instr, SystemCall
  <2>3. CASE i # 1 /\ i # Len(r)
    BY <2>3, <1>2 DEF Quiet
  <2> QED BY <2>1, <2>2, <2>3
<1>4. ASSUME NEW i \in 1 .. Len(r), r[i] = Lock(l)
      PROVE  \E j \in i + 1 .. Len(r) : ReleasedAt(r, l, i + 1, j)
  <2>1. i # Len(r)
    BY <1>4, <1>1 DEF Lock, Unlock, Instr
  <2>2. ASSUME NEW j \in i + 1 .. Len(r), r[j] = Unlock(l)
        PROVE  ReleasedAt(r, l, i + 1, j)
    <3>1. \A m \in i + 1 .. j - 1 : m \in 1 .. Len(r)
      BY <1>1
    <3> QED BY <2>2, <3>1, <1>3 DEF ReleasedAt
  <2>3. CASE i = 1
    <3>1. k = l
      BY <2>3, <1>4, <1>1 DEF Lock, Instr
    <3>2. Len(r) \in i + 1 .. Len(r)
      BY <2>1, <1>1
    <3> QED BY <3>1, <3>2, <2>2, <1>1
  <2>4. CASE i # 1
    <3>1. i - 1 \in 1 .. Len(p) /\ p[i - 1] = Lock(l)
      BY <2>1, <2>4, <1>2, <1>4
    <3>2. PICK j \in (i - 1) + 1 .. Len(p) : ReleasedAt(p, l, (i - 1) + 1, j)
      BY <3>1 DEF Brackets
    <3>3. j + 1 \in i + 1 .. Len(r) /\ j \in 1 .. Len(p)
      BY <3>1, <3>2, <1>1
    <3>4. r[j + 1] = Unlock(l)
      BY <3>2, <3>3, <1>1 DEF ReleasedAt
    <3> QED BY <3>3, <3>4, <2>2
  <2> QED BY <2>3, <2>4
<1> HIDE DEF r
<1> QED BY <1>0, <1>1, <1>3, <1>4 DEF Brackets, Quiet

\* The programs that thread t may execute, and those parts of them that make
\* no system call.
Sound(t) == {p \in Seq(InstrOf(t)) : \A l \in LockName : Brackets(p, l)}
Section(t) == {p \in Sound(t) : Quiet(p)}

LEMMA ConcatSound ==
    ASSUME NEW t
    PROVE  /\ \A p, q \in Sound(t) : p \o q \in Sound(t)
           /\ \A p, q \in Section(t) : p \o q \in Section(t)
<1>1. ASSUME NEW p \in Sound(t), NEW q \in Sound(t) PROVE p \o q \in Sound(t)
  <2>1. p \in Seq(InstrOf(t)) /\ q \in Seq(InstrOf(t))
    BY DEF Sound
  <2>2. p \o q \in Seq(InstrOf(t))
    BY <2>1
  <2>3. ASSUME NEW l \in LockName PROVE Brackets(p \o q, l)
    <3>1. Brackets(p, l) /\ Brackets(q, l)
      BY DEF Sound
    <3> QED BY <2>1, <3>1, ConcatBrackets
  <2> QED BY <2>2, <2>3 DEF Sound
<1>2. ASSUME NEW p \in Section(t), NEW q \in Section(t) PROVE p \o q \in Section(t)
  <2>1. p \in Sound(t) /\ q \in Sound(t) /\ Quiet(p) /\ Quiet(q)
    BY DEF Section
  <2>2. p \in Seq(InstrOf(t)) /\ q \in Seq(InstrOf(t))
    BY <2>1 DEF Sound
  <2>3. ASSUME NEW i \in 1 .. Len(p \o q) PROVE (p \o q)[i].do \notin SystemCall
    <3>1. CASE i \in 1 .. Len(p)
      BY <3>1, <2>1, <2>2 DEF Quiet
    <3>2. CASE i \notin 1 .. Len(p)
      <4>1. i - Len(p) \in 1 .. Len(q) /\ (p \o q)[i] = q[i - Len(p)]
        BY <3>2, <2>2
      <4> QED BY <4>1, <2>1 DEF Quiet
    <3> QED BY <3>1, <3>2
  <2> QED BY <2>1, <2>3, <1>1 DEF Section, Quiet
<1> QED BY <1>1, <1>2

LEMMA EmptySection ==
    ASSUME NEW t PROVE << >> \in Section(t)
<1>1. << >> \in Seq(InstrOf(t)) /\ Len(<< >>) = 0
  OBVIOUS
<1> QED BY <1>1 DEF Section, Sound, Brackets, Quiet

LEMMA UnderSection ==
    ASSUME NEW t, NEW p \in Section(t), NEW k,
           Lock(k) \in InstrOf(t), Unlock(k) \in InstrOf(t)
    PROVE  Under(k, p) \in Section(t)
<1>1. p \in Seq(InstrOf(t)) /\ Quiet(p) /\ \A l \in LockName : Brackets(p, l)
  BY DEF Section, Sound
<1>2. ASSUME NEW l \in LockName
      PROVE  /\ Under(k, p) \in Seq(InstrOf(t))
             /\ Brackets(Under(k, p), l) /\ Quiet(Under(k, p))
  BY <1>1, UnderBrackets
<1>3. "hmLock" \in LockName
  BY DEF LockName
<1> QED BY <1>2, <1>3 DEF Section, Sound

\* One instruction that takes no lock.
LEMMA SingleSound ==
    ASSUME NEW t, NEW i \in InstrOf(t), i.do # "lock"
    PROVE  /\ <<i>> \in Sound(t)
           /\ i.do \notin SystemCall => <<i>> \in Section(t)
<1>1. <<i>> \in Seq(InstrOf(t)) /\ Len(<<i>>) = 1 /\ <<i>>[1] = i
  OBVIOUS
<1>2. \A j \in 1 .. Len(<<i>>) : <<i>>[j].do # "lock"
  BY <1>1
<1>3. \A l : Brackets(<<i>>, l)
  BY <1>1, <1>2 DEF Brackets, Lock, Instr
<1> QED BY <1>1, <1>3 DEF Sound, Section, Quiet

LEMMA CallSound ==
    ASSUME NEW t, NEW s, NEW r, Send(s, r) \in InstrOf(t), Await \in InstrOf(t)
    PROVE  Call(s, r) \in Sound(t)
<1>1. <<Send(s, r)>> \in Sound(t) /\ <<Await>> \in Sound(t)
  BY SingleSound DEF Send, Await, Instr
<1>2. Call(s, r) = <<Send(s, r)>> \o <<Await>>
  BY DEF Call
<1> QED BY <1>1, <1>2, ConcatSound

LEMMA Distinct ==
    /\ TM # MM /\ TM # IO /\ TM # Driver /\ TM # Idle /\ MM # IO /\ MM # Driver
    /\ MM # Idle /\ IO # Driver /\ IO # Idle /\ Driver # Idle
    /\ TM \in Thread /\ MM \in Thread /\ IO \in Thread /\ Driver \in Thread
    /\ Idle \in Thread /\ Users \subseteq Thread /\ Shell \in Users
    /\ TM \notin Users /\ MM \notin Users /\ IO \notin Users
    /\ Driver \notin Users /\ Idle \notin Users
<1> DEFINE kernel == <<TM, MM, IO, Driver, Idle>>
<1>1. /\ DOMAIN kernel = 1 .. 5 /\ kernel[1] = TM /\ kernel[2] = MM
      /\ kernel[3] = IO /\ kernel[4] = Driver /\ kernel[5] = Idle
  OBVIOUS
<1>2. \A i, j \in 1 .. 5 : i # j => kernel[i] # kernel[j]
  BY <1>1, LocksAssumption DEF IsInjective
<1>3. 1 \in 1 .. 5 /\ 2 \in 1 .. 5 /\ 3 \in 1 .. 5 /\ 4 \in 1 .. 5 /\ 5 \in 1 .. 5
  OBVIOUS
<1> HIDE DEF kernel
<1>4. /\ TM # MM /\ TM # IO /\ TM # Driver /\ TM # Idle /\ MM # IO /\ MM # Driver
      /\ MM # Idle /\ IO # Driver /\ IO # Idle /\ Driver # Idle
  BY <1>1, <1>2, <1>3
<1> QED BY <1>4, LocksAssumption DEF Servers

-----------------------------------------------------------------------------
(* What remains of a program *)

LEMMA TailHas ==
    ASSUME NEW S, NEW p \in Seq(S), p # << >>
    PROVE  /\ Tail(p) \in Seq(S) /\ Head(p) = p[1] /\ Head(p) \in S
           /\ Has(p, Head(p))
           /\ \A i : Has(p, i) => i = Head(p) \/ Has(Tail(p), i)
           /\ \A i : Has(Tail(p), i) => Has(p, i)
<1> DEFINE q == Tail(p)
<1>1. /\ q \in Seq(S) /\ Len(q) = Len(p) - 1 /\ Len(p) \in Nat \ {0}
      /\ \A k \in 1 .. Len(q) : q[k] = p[k + 1]
      /\ Head(p) = p[1] /\ p[1] \in S /\ 1 \in 1 .. Len(p)
  OBVIOUS
<1>2. ASSUME NEW i, Has(p, i), i # p[1] PROVE Has(q, i)
  <2>1. PICK k \in 1 .. Len(p) : p[k] = i
    BY <1>2 DEF Has
  <2>2. k - 1 \in 1 .. Len(q) /\ (k - 1) + 1 = k
    BY <2>1, <1>1, <1>2
  <2> QED BY <2>1, <2>2, <1>1 DEF Has
<1>3. ASSUME NEW i, Has(q, i) PROVE Has(p, i)
  <2>1. PICK k \in 1 .. Len(q) : q[k] = i
    BY <1>3 DEF Has
  <2>2. k + 1 \in 1 .. Len(p)
    BY <1>1
  <2> QED BY <2>1, <2>2, <1>1 DEF Has
<1> QED BY <1>1, <1>2, <1>3 DEF Has

LEMMA TailFormed ==
    ASSUME NEW S, NEW p \in Seq(S), p # << >>, Formed(p)
    PROVE  /\ Formed(Tail(p))
           /\ \A i : Has(Tail(p), i) => Follows(Head(p), i)
           /\ Head(p) \in Calls => Tail(p) # << >> /\ Head(Tail(p)) = Await
           /\ Head(p) \notin Calls /\ Tail(p) # << >> => Head(Tail(p)) # Await
<1> DEFINE q == Tail(p)
<1>1. /\ q \in Seq(S) /\ Len(q) = Len(p) - 1 /\ Len(p) \in Nat \ {0}
      /\ \A k \in 1 .. Len(q) : q[k] = p[k + 1]
      /\ Head(p) = p[1] /\ (q # << >> => Head(q) = p[2] /\ 2 \in 1 .. Len(p))
      /\ (2 \in 1 .. Len(p) => q # << >>)
  OBVIOUS
<1>2. Ordered(q)
  <2> SUFFICES ASSUME NEW j \in 1 .. Len(q), NEW k \in 1 .. Len(q), j < k
               PROVE  Follows(q[j], q[k])
    BY DEF Ordered
  <2>1. j + 1 \in 1 .. Len(p) /\ k + 1 \in 1 .. Len(p) /\ j + 1 < k + 1
    BY <1>1
  <2> QED BY <2>1, <1>1 DEF Formed, Ordered
<1>3. Paired(q)
  <2> SUFFICES ASSUME NEW k \in 1 .. Len(q)
               PROVE  /\ q[k] \in Calls => k + 1 \in 1 .. Len(q) /\ q[k + 1] = Await
                      /\ q[k] = Await /\ k # 1 => q[k - 1] \in Calls
    BY DEF Paired
  <2>1. k + 1 \in 1 .. Len(p) /\ k + 1 # 1 /\ (k + 1) - 1 = k
    BY <1>1
  <2>2. /\ p[k + 1] \in Calls => (k + 1) + 1 \in 1 .. Len(p) /\ p[(k + 1) + 1] = Await
        /\ p[k + 1] = Await => p[k] \in Calls
    BY <2>1 DEF Formed, Paired
  <2>3. q[k] \in Calls => k + 1 \in 1 .. Len(q) /\ q[k + 1] = Await
    <3> SUFFICES ASSUME q[k] \in Calls PROVE k + 1 \in 1 .. Len(q) /\ q[k + 1] = Await
      OBVIOUS
    <3>1. (k + 1) + 1 \in 1 .. Len(p) /\ p[(k + 1) + 1] = Await
      BY <2>2, <1>1
    <3>2. k + 1 \in 1 .. Len(q)
      BY <3>1, <1>1
    <3> QED BY <3>1, <3>2, <1>1
  <2>4. q[k] = Await /\ k # 1 => q[k - 1] \in Calls
    <3> SUFFICES ASSUME q[k] = Await, k # 1 PROVE q[k - 1] \in Calls
      OBVIOUS
    <3>1. k - 1 \in 1 .. Len(q) /\ (k - 1) + 1 = k
      BY <1>1
    <3>2. q[k - 1] = p[k]
      BY <3>1, <1>1
    <3> QED BY <3>2, <2>2, <1>1
  <2> QED BY <2>3, <2>4
<1>4. ASSUME NEW i, Has(q, i) PROVE Follows(p[1], i)
  <2>1. PICK k \in 1 .. Len(q) : q[k] = i
    BY <1>4 DEF Has
  <2>2. k + 1 \in 1 .. Len(p) /\ 1 \in 1 .. Len(p) /\ 1 < k + 1
    BY <1>1
  <2> QED BY <2>1, <2>2, <1>1 DEF Formed, Ordered
<1>5. 1 \in 1 .. Len(p) /\ 1 + 1 = 2 /\ 2 - 1 = 1 /\ 2 # 1
  BY <1>1
<1>6. p[1] \in Calls => q # << >> /\ Head(q) = Await
  BY <1>1, <1>5 DEF Formed, Paired
<1>7. p[1] \notin Calls /\ q # << >> => Head(q) # Await
  <2> SUFFICES ASSUME q # << >>, p[2] = Await PROVE p[1] \in Calls
    BY <1>1
  <2>1. 2 \in 1 .. Len(p)
    BY <1>1
  <2> QED BY <2>1, <1>5 DEF Formed, Paired
<1> QED BY <1>1, <1>2, <1>3, <1>4, <1>6, <1>7 DEF Formed

-----------------------------------------------------------------------------
(* The programs of the servers *)

\* Takes, releases, waits, or asks MM.
Neutral(i) == i.do \in {"lock", "unlock"} \/ i \in Asks \cup {Await}

\* A sound and well formed program of t with the instructions I, and neutral ones.
Does(t, p, I) ==
    /\ p \in Sound(t) /\ Formed(p)
    /\ p # << >> => p[1] # Await
    /\ \A i : Has(p, i) => Neutral(i) \/ i \in I
    /\ \A i \in I : Has(p, i)

\* More may follow on instructions such as these.
Goes(i) == /\ i # Cleanup /\ i.do # "reply" /\ ~(i.do = "send" /\ i.on = Driver)

LEMMA NeutralFollows ==
    ASSUME NEW i, NEW j
    PROVE  /\ Neutral(j) /\ Goes(i) => Follows(i, j)
           /\ Neutral(i) => Goes(i)
           /\ Neutral(i) /\ (i = Await => j # Send(TM, StartDriver)) => Follows(i, j)
<1>1. \A r : Send(MM, r) # Send(TM, StartDriver)
  BY Distinct DEF Send, Instr
<1>2. Neutral(i) => /\ i # Cleanup /\ i # Send(TM, StartDriver)
                    /\ i.do \notin {"reply", "insert", "setready", "remove"}
                    /\ ~(i.do = "send" /\ i.on = Driver)
  <2>1. \A r \in FromTm : r.op # "VM_CLEANUP"
    BY DEF FromTm, Request
  <2>2. Request("VM_CLEANUP", TM, NULL).op = "VM_CLEANUP"
    BY DEF Request
  <2>3. i \in Asks => i # Cleanup /\ i.do = "send" /\ i.on = MM
    BY <2>1, <2>2 DEF Asks, Cleanup, Send, Instr
  <2> QED BY <1>1, <2>3, Distinct DEF Neutral, Send, Instr, Await, Cleanup, Asks
<1>3. Neutral(j) => /\ j # Send(TM, StartDriver)
                    /\ j.do \notin {"reply", "insert", "setready", "remove"}
  BY <1>1, Distinct DEF Neutral, Send, Instr, Await, Asks
<1>4. Send(TM, StartDriver).do = "send" /\ Await.do = "await"
  BY DEF Send, Instr, Await
<1> QED BY <1>2, <1>3, <1>4 DEF Follows, Goes

LEMMA HasConcat ==
    ASSUME NEW S, NEW p \in Seq(S), NEW q \in Seq(S)
    PROVE  \A i : Has(p \o q, i) <=> Has(p, i) \/ Has(q, i)
<1> SUFFICES ASSUME NEW i PROVE Has(p \o q, i) <=> Has(p, i) \/ Has(q, i)
  OBVIOUS
<1>1. /\ Len(p \o q) = Len(p) + Len(q) /\ Len(p) \in Nat /\ Len(q) \in Nat
      /\ \A k \in 1 .. Len(p) : (p \o q)[k] = p[k]
      /\ \A k \in 1 .. Len(q) : (p \o q)[k + Len(p)] = q[k]
  OBVIOUS
<1>2. Has(p, i) => Has(p \o q, i)
  BY <1>1 DEF Has
<1>3. Has(q, i) => Has(p \o q, i)
  <2> SUFFICES ASSUME NEW k \in 1 .. Len(q), q[k] = i PROVE Has(p \o q, i)
    BY DEF Has
  <2>1. k + Len(p) \in 1 .. Len(p \o q)
    BY <1>1
  <2> QED BY <2>1, <1>1 DEF Has
<1>4. ASSUME NEW k \in 1 .. Len(p \o q), (p \o q)[k] = i PROVE Has(p, i) \/ Has(q, i)
  <2>1. CASE k \in 1 .. Len(p)
    BY <2>1, <1>1, <1>4 DEF Has
  <2>2. CASE k \notin 1 .. Len(p)
    <3>1. k - Len(p) \in 1 .. Len(q) /\ (k - Len(p)) + Len(p) = k
      BY <2>2, <1>1
    <3> QED BY <3>1, <1>1, <1>4 DEF Has
  <2> QED BY <2>1, <2>2
<1> QED BY <1>2, <1>3, <1>4 DEF Has

LEMMA ConcatFormed ==
    ASSUME NEW S, NEW p \in Seq(S), NEW q \in Seq(S), Formed(p), Formed(q),
           \A i, j : Has(p, i) /\ Has(q, j) => Follows(i, j),
           q # << >> => q[1] # Await
    PROVE  Formed(p \o q)
<1> DEFINE r == p \o q
           n == Len(p)
<1>1. /\ Len(r) = n + Len(q) /\ n \in Nat /\ Len(q) \in Nat
      /\ \A k \in 1 .. n : r[k] = p[k]
      /\ \A k \in 1 .. Len(q) : r[k + n] = q[k]
      /\ q = << >> => Len(q) = 0
  OBVIOUS
<1>2. ASSUME NEW k \in 1 .. Len(r), k \notin 1 .. n
      PROVE  k - n \in 1 .. Len(q) /\ r[k] = q[k - n]
  <2>1. k - n \in 1 .. Len(q) /\ (k - n) + n = k
    BY <1>1, <1>2
  <2> QED BY <2>1, <1>1
<1>3. Ordered(r)
  <2> SUFFICES ASSUME NEW j \in 1 .. Len(r), NEW k \in 1 .. Len(r), j < k
               PROVE  Follows(r[j], r[k])
    BY DEF Ordered
  <2>1. CASE j \in 1 .. n /\ k \in 1 .. n
    BY <2>1, <1>1 DEF Formed, Ordered
  <2>2. CASE j \in 1 .. n /\ k \notin 1 .. n
    <3>1. Has(p, r[j]) /\ Has(q, r[k])
      BY <2>2, <1>1, <1>2 DEF Has
    <3> QED BY <3>1
  <2>3. CASE j \notin 1 .. n /\ k \notin 1 .. n
    <3>1. /\ j - n \in 1 .. Len(q) /\ r[j] = q[j - n]
          /\ k - n \in 1 .. Len(q) /\ r[k] = q[k - n]
      BY <2>3, <1>2
    <3>2. j - n < k - n
      BY <1>1
    <3> QED BY <3>1, <3>2 DEF Formed, Ordered
  <2>4. j \notin 1 .. n => k \notin 1 .. n
    BY <1>1
  <2> QED BY <2>1, <2>2, <2>3, <2>4
<1>4. Paired(r)
  <2> SUFFICES ASSUME NEW k \in 1 .. Len(r)
               PROVE  /\ r[k] \in Calls => k + 1 \in 1 .. Len(r) /\ r[k + 1] = Await
                      /\ r[k] = Await /\ k # 1 => r[k - 1] \in Calls
    BY DEF Paired
  <2>1. CASE k \in 1 .. n
    <3>1. /\ p[k] \in Calls => k + 1 \in 1 .. n /\ p[k + 1] = Await
          /\ p[k] = Await /\ k # 1 => p[k - 1] \in Calls
      BY <2>1 DEF Formed, Paired
    <3>2. k # 1 => k - 1 \in 1 .. n
      BY <2>1, <1>1
    <3>3. k + 1 \in 1 .. n => k + 1 \in 1 .. Len(r)
      BY <1>1
    <3> QED BY <2>1, <3>1, <3>2, <3>3, <1>1
  <2>2. CASE k \notin 1 .. n
    <3> DEFINE m == k - n
    <3>1. m \in 1 .. Len(q) /\ r[k] = q[m]
      BY <2>2, <1>2
    <3>2. /\ q[m] \in Calls => m + 1 \in 1 .. Len(q) /\ q[m + 1] = Await
          /\ q[m] = Await /\ m # 1 => q[m - 1] \in Calls
      BY <3>1 DEF Formed, Paired
    <3>3. m + 1 \in 1 .. Len(q) => k + 1 \in 1 .. Len(r) /\ r[k + 1] = q[m + 1]
      <4> SUFFICES ASSUME m + 1 \in 1 .. Len(q)
                   PROVE  k + 1 \in 1 .. Len(r) /\ r[k + 1] = q[m + 1]
        OBVIOUS
      <4>1. (m + 1) + n = k + 1 /\ k + 1 \in 1 .. Len(r)
        BY <1>1
      <4> QED BY <4>1, <1>1
    <3>4. m # 1 => r[k - 1] = q[m - 1]
      <4> SUFFICES ASSUME m # 1 PROVE r[k - 1] = q[m - 1]
        OBVIOUS
      <4>1. m - 1 \in 1 .. Len(q) /\ (m - 1) + n = k - 1
        BY <3>1, <1>1
      <4> QED BY <4>1, <1>1
    <3>5. m = 1 => q[m] # Await
      BY <3>1, <1>1
    <3> QED BY <3>1, <3>2, <3>3, <3>4, <3>5
  <2> QED BY <2>1, <2>2
<1> QED BY <1>3, <1>4 DEF Formed

LEMMA DoesConcat ==
    ASSUME NEW t, NEW p, NEW q, NEW I, NEW J, Does(t, p, I), Does(t, q, J),
           \A i \in I : Goes(i),
           \A i \in I, j \in J : Follows(i, j),
           Send(TM, StartDriver) \in J => ~Has(p, Await)
    PROVE  Does(t, p \o q, I \cup J)
<1>1. p \in Seq(InstrOf(t)) /\ q \in Seq(InstrOf(t))
  BY DEF Does, Sound
<1>2. p \o q \in Sound(t)
  BY ConcatSound DEF Does
<1>3. \A i : Has(p \o q, i) <=> Has(p, i) \/ Has(q, i)
  BY <1>1, HasConcat
<1>4. ASSUME NEW i, NEW j, Has(p, i), Has(q, j) PROVE Follows(i, j)
  <2>1. CASE i \in I /\ j \in J
    BY <2>1
  <2>2. CASE Neutral(j)
    <3>1. Goes(i)
      BY <1>4, NeutralFollows DEF Does
    <3> QED BY <2>2, <3>1, NeutralFollows
  <2>3. CASE Neutral(i)
    <3>1. \A r : Send(MM, r) # Send(TM, StartDriver)
      BY Distinct DEF Send, Instr
    <3>3. ~Neutral(Send(TM, StartDriver))
      BY <3>1 DEF Neutral, Asks, Send, Instr, Await
    <3>2. i = Await => j # Send(TM, StartDriver)
      BY <3>3, <1>4 DEF Does
    <3> QED BY <2>3, <3>2, NeutralFollows
  <2> QED BY <2>1, <2>2, <2>3, <1>4 DEF Does
<1>5. Formed(p \o q)
  BY <1>1, <1>4, ConcatFormed DEF Does
<1>6. p \o q # << >> => (p \o q)[1] # Await
  <2> SUFFICES ASSUME p \o q # << >> PROVE (p \o q)[1] # Await
    OBVIOUS
  <2>1. CASE p = << >>
    <3>1. p \o q = q
      BY <2>1, <1>1
    <3> QED BY <3>1 DEF Does
  <2>2. CASE p # << >>
    <3>1. (p \o q)[1] = p[1]
      BY <2>2, <1>1
    <3> QED BY <2>2, <3>1 DEF Does
  <2> QED BY <2>1, <2>2
<1> QED BY <1>2, <1>3, <1>5, <1>6 DEF Does

\* An answer comes last.
LEMMA DoesReply ==
    ASSUME NEW t, NEW p, NEW I, NEW u, Does(t, p, I), Reply(u) \in InstrOf(t),
           \A i \in I : Follows(i, Reply(u))
    PROVE  Does(t, p \o <<Reply(u)>>, I \cup {Reply(u)})
<1> DEFINE q == <<Reply(u)>>
<1>0. /\ Reply(u).do = "reply" /\ Reply(u) # Await
      /\ Reply(u) # Send(TM, StartDriver) /\ Reply(u) \notin Asks
  BY DEF Reply, Instr, Await, Send, Asks
<1>1. /\ p \in Seq(InstrOf(t)) /\ q \in Seq(InstrOf(t)) /\ Len(q) = 1
      /\ q[1] = Reply(u)
  BY DEF Does, Sound
<1>2. \A i : Has(q, i) <=> i = Reply(u)
  <2>1. 1 \in 1 .. Len(q) /\ \A k \in 1 .. Len(q) : k = 1
    BY <1>1
  <2> QED BY <2>1, <1>1 DEF Has
<1>3. p \o q \in Sound(t)
  BY <1>0, SingleSound, ConcatSound DEF Does
<1>4. \A i : Has(p \o q, i) <=> Has(p, i) \/ i = Reply(u)
  BY <1>1, <1>2, HasConcat
<1>5. Formed(q)
  <2>1. \A k \in 1 .. Len(q) : k = 1
    BY <1>1
  <2> QED BY <2>1, <1>0, <1>1 DEF Formed, Ordered, Paired, Calls
<1>6. \A i, j : Has(p, i) /\ Has(q, j) => Follows(i, j)
  BY <1>0, <1>2, NeutralFollows DEF Does
<1>7. Formed(p \o q)
  BY <1>0, <1>1, <1>5, <1>6, ConcatFormed DEF Does
<1>8. (p \o q)[1] # Await
  <2>1. CASE p = << >>
    <3>1. p \o q = q
      BY <2>1, <1>1
    <3> QED BY <3>1, <1>0, <1>1
  <2>2. CASE p # << >>
    <3>1. (p \o q)[1] = p[1]
      BY <2>2, <1>1
    <3> QED BY <2>2, <3>1 DEF Does
  <2> QED BY <2>1, <2>2
<1> HIDE DEF q
<1> QED BY <1>3, <1>4, <1>7, <1>8 DEF Does, q

LEMMA EmptyDoes ==
    ASSUME NEW t PROVE Does(t, << >>, {})
<1>1. Len(<< >>) = 0 /\ << >> \in Sound(t)
  BY EmptySection DEF Section
<1> QED BY <1>1 DEF Does, Formed, Ordered, Paired, Has

\* One instruction that is no call, no answer and takes no lock.
LEMMA SingleDoes ==
    ASSUME NEW t, NEW i \in InstrOf(t), i.do # "lock", i \notin Calls \cup {Await}
    PROVE  Does(t, <<i>>, {i})
<1> DEFINE p == <<i>>
<1>1. Len(p) = 1 /\ p[1] = i /\ p \in Sound(t)
  BY SingleSound
<1>2. 1 \in 1 .. Len(p) /\ \A k \in 1 .. Len(p) : k = 1
  BY <1>1
<1> HIDE DEF p
<1>3. Formed(p)
  BY <1>1, <1>2 DEF Formed, Ordered, Paired
<1>4. \A j : Has(p, j) <=> j = i
  BY <1>1, <1>2 DEF Has
<1>5. Does(t, p, {i})
  BY <1>1, <1>3, <1>4 DEF Does
<1> QED BY <1>5 DEF p

LEMMA CallDoes ==
    ASSUME NEW t, NEW s, NEW r, Send(s, r) \in InstrOf(t) \cap Calls,
           Await \in InstrOf(t)
    PROVE  /\ Send(s, r) \in Asks => Does(t, Call(s, r), {})
           /\ Does(t, Call(s, r), {Send(s, r)})
<1> DEFINE p == Call(s, r)
<1>0. Send(s, r) # Await /\ Send(s, r).do = "send" /\ Await \notin Calls
  BY DEF Send, Await, Instr, Calls, Asks
<1>1. /\ Len(p) = 2 /\ p[1] = Send(s, r) /\ p[2] = Await /\ p \in Sound(t)
  BY CallSound DEF Call
<1>2. /\ 1 \in 1 .. Len(p) /\ 2 \in 1 .. Len(p) /\ 1 + 1 = 2 /\ 2 - 1 = 1
      /\ \A k \in 1 .. Len(p) : k = 1 \/ k = 2
  BY <1>1
<1> HIDE DEF p
<1>3. Follows(Send(s, r), Await)
  <2>1. Neutral(Await) /\ Goes(Send(s, r))
    <3>1. Send(s, r) \in Asks => Goes(Send(s, r))
      BY NeutralFollows DEF Neutral
    <3>2. Send(TM, StartDriver) # Cleanup /\ Send(TM, StartDriver).on = TM
          /\ Send(TM, StartDriver).do = "send"
      BY Distinct DEF Send, Instr, Cleanup
    <3>3. Send(s, r) = Send(TM, StartDriver) => Goes(Send(s, r))
      BY <3>2, Distinct DEF Goes
    <3> QED BY <3>1, <3>3 DEF Calls, Neutral
  <2> QED BY <2>1, NeutralFollows
<1>4. Ordered(p)
  <2> SUFFICES ASSUME NEW j \in 1 .. Len(p), NEW k \in 1 .. Len(p), j < k
               PROVE  Follows(p[j], p[k])
    BY DEF Ordered
  <2>1. j = 1 /\ k = 2
    BY <1>2
  <2> QED BY <2>1, <1>1, <1>3
<1>5. Paired(p)
  BY <1>0, <1>1, <1>2 DEF Paired
<1>6. \A j : Has(p, j) <=> j \in {Send(s, r), Await}
  BY <1>1, <1>2 DEF Has
<1> QED BY <1>0, <1>1, <1>4, <1>5, <1>6 DEF Does, Formed, Neutral, p

\* A section under a lock that makes no system call.
LEMMA UnderDoes ==
    ASSUME NEW t, NEW p, NEW I, Does(t, p, I), p \in Section(t), NEW l,
           Lock(l) \in InstrOf(t), Unlock(l) \in InstrOf(t), \A i \in I : Goes(i)
    PROVE  Does(t, Under(l, p), I) /\ Under(l, p) \in Section(t)
<1> DEFINE a == <<Lock(l)>>
           z == <<Unlock(l)>>
<1>0. /\ Lock(l).do = "lock" /\ Unlock(l).do = "unlock"
      /\ Lock(l) \notin Calls \cup {Await} /\ Unlock(l) \notin Calls \cup {Await}
      /\ Neutral(Lock(l)) /\ Neutral(Unlock(l))
  BY DEF Lock, Unlock, Instr, Await, Send, Asks, Calls, Neutral
<1>1. Under(l, p) \in Section(t) /\ Under(l, p) \in Sound(t)
  BY UnderSection DEF Section
<1>2. /\ p \in Seq(InstrOf(t)) /\ a \in Seq(InstrOf(t)) /\ z \in Seq(InstrOf(t))
      /\ Len(a) = 1 /\ a[1] = Lock(l) /\ Len(z) = 1 /\ z[1] = Unlock(l)
      /\ a # << >> /\ z # << >>
  BY DEF Does, Sound
<1>3. Under(l, p) = (a \o p) \o z /\ a \o p \in Seq(InstrOf(t))
  BY <1>2 DEF Under
<1>4. (a \o p) # << >> /\ (a \o p)[1] = Lock(l) /\ ((a \o p) \o z)[1] = Lock(l)
  BY <1>2
<1> HIDE DEF a, z
<1>5. 1 \in 1 .. 1 /\ \A k \in 1 .. 1 : k = 1
  OBVIOUS
<1>6. Formed(a) /\ Formed(z)
  BY <1>0, <1>2, <1>5 DEF Formed, Ordered, Paired
<1>7. \A i : (Has(a, i) <=> i = Lock(l)) /\ (Has(z, i) <=> i = Unlock(l))
  BY <1>2, <1>5 DEF Has
<1>8. \A i : Has(a \o p, i) <=> i = Lock(l) \/ Has(p, i)
  BY <1>2, <1>7, HasConcat
<1>9. \A i : Has((a \o p) \o z, i) <=> i \in {Lock(l), Unlock(l)} \/ Has(p, i)
  BY <1>2, <1>3, <1>7, <1>8, HasConcat
<1>10. Lock(l) # Await
  BY <1>0
<1>11. \A i, j : Has(a, i) /\ Has(p, j) => Follows(i, j)
  BY <1>0, <1>7, <1>10, NeutralFollows
<1>12. Formed(a \o p)
  BY <1>2, <1>6, <1>11, ConcatFormed DEF Does
<1>13. ASSUME NEW i, NEW j, Has(a \o p, i), Has(z, j) PROVE Follows(i, j)
  <2>1. Goes(i)
    BY <1>0, <1>8, <1>13, NeutralFollows DEF Does
  <2> QED BY <2>1, <1>0, <1>7, <1>13, NeutralFollows
<1>14. Formed((a \o p) \o z)
  BY <1>0, <1>2, <1>3, <1>6, <1>12, <1>13, ConcatFormed
<1>15. \A i : Has(Under(l, p), i) => Neutral(i) \/ i \in I
  BY <1>0, <1>3, <1>9 DEF Does
<1>16. \A i \in I : Has(Under(l, p), i)
  BY <1>3, <1>9 DEF Does
<1>17. Under(l, p)[1] # Await
  BY <1>3, <1>4, <1>10
<1> QED BY <1>1, <1>3, <1>14, <1>15, <1>16, <1>17 DEF Does

LEMMA ServerInstructions ==
    /\ InstrOf(TM) = TmInstr /\ InstrOf(MM) = MmInstr /\ InstrOf(IO) = IoInstr
    /\ InstrOf(Driver) = DriverInstr /\ InstrOf(Idle) = {}
    /\ \A u \in Users : InstrOf(u) = UserInstr(u)
    /\ \A s \in Servers : HeapInstr \subseteq InstrOf(s)
<1>1. /\ InstrOf(TM) = TmInstr /\ InstrOf(MM) = MmInstr /\ InstrOf(IO) = IoInstr
      /\ InstrOf(Driver) = DriverInstr /\ InstrOf(Idle) = {}
      /\ \A u \in Users : InstrOf(u) = UserInstr(u)
  BY Distinct DEF InstrOf
<1>2. HeapInstr \subseteq TmInstr
  BY DEF HeapInstr, TmInstr, LockName
<1> QED BY <1>1, <1>2 DEF Servers, MmInstr, IoInstr, DriverInstr

LEMMA HmDoes ==
    ASSUME NEW t \in Servers
    PROVE  /\ Does(t, Hm, {}) /\ Hm \in Section(t)
           /\ Does(t, Hm \o Hm, {}) /\ Hm \o Hm \in Section(t)
           /\ ~Has(Hm, Await)
<1>1. Lock("hmLock") \in InstrOf(t) /\ Unlock("hmLock") \in InstrOf(t)
  BY ServerInstructions DEF HeapInstr
<1>2. Does(t, Hm, {}) /\ Hm \in Section(t)
  BY <1>1, EmptyDoes, EmptySection, UnderDoes DEF Hm
<1>3. Hm \o Hm \in Section(t)
  BY <1>2, ConcatSound
<1>4. Does(t, Hm \o Hm, {} \cup {})
  BY <1>2, DoesConcat
<1>5. {} \cup {} = {}
  OBVIOUS
<1>6. ~Has(Hm, Await)
  BY <1>2 DEF Has, Section, Quiet, SystemCall, Await, Instr
<1> QED BY <1>2, <1>3, <1>4, <1>5, <1>6

\* TM's three ways to change the scheduler's lists.
LEMMA ChangesDo ==
    ASSUME NEW c \in Thread \ {TM, MM}
    PROVE  /\ Does(TM, schedulerInsertBy(c), {Change("insert", c)})
           /\ Does(TM, schedulerSetReadyBy(c), {Change("setready", c)})
           /\ c \in Users => Does(TM, schedulerRemoveBy(c), {Change("remove", c)})
<1>1. TM \in Servers
  BY DEF Servers
<1>2. Lock("schedLock") \in InstrOf(TM) /\ Unlock("schedLock") \in InstrOf(TM)
  BY ServerInstructions DEF TmInstr, LockName
<1>3. ASSUME NEW do \in {"insert", "setready", "remove"}, do = "remove" => c \in Users
      PROVE  /\ Goes(Change(do, c)) /\ Does(TM, <<Change(do, c)>>, {Change(do, c)})
             /\ <<Change(do, c)>> \in Section(TM)
  <2>1. Change(do, c) \in InstrOf(TM)
    BY <1>3, ServerInstructions DEF TmInstr
  <2>2. Change(do, c).do = do
    BY DEF Change, Instr
  <2>3. Change(do, c) \notin Calls \cup {Await} /\ Change(do, c) # Cleanup
    BY <2>2 DEF Calls, Asks, Send, Await, Cleanup, Instr
  <2> QED BY <2>1, <2>2, <2>3, SingleDoes, SingleSound DEF Goes, SystemCall
<1>4. Does(TM, schedulerInsertBy(c), {Change("insert", c)})
  <2> DEFINE p == Hm \o <<Change("insert", c)>>
             I == {} \cup {Change("insert", c)}
  <2>1. p \in Section(TM)
    BY <1>1, <1>3, HmDoes, ConcatSound
  <2>2. Send(TM, StartDriver) # Change("insert", c)
    BY DEF Send, Change, Instr
  <2>3. Does(TM, p, I)
    BY <1>1, <1>3, <2>2, HmDoes, DoesConcat
  <2>4. I = {Change("insert", c)}
    OBVIOUS
  <2> HIDE DEF p, I
  <2>5. Does(TM, Under("schedLock", p), I)
    BY <1>2, <1>3, <2>1, <2>3, <2>4, UnderDoes
  <2> QED BY <2>4, <2>5 DEF schedulerInsertBy, p
<1>5. Does(TM, schedulerSetReadyBy(c), {Change("setready", c)})
  BY <1>2, <1>3, UnderDoes DEF schedulerSetReadyBy
<1>6. ASSUME c \in Users PROVE Does(TM, schedulerRemoveBy(c), {Change("remove", c)})
  <2> DEFINE p == <<Change("remove", c)>> \o Hm
             I == {Change("remove", c)} \cup {}
  <2>1. p \in Section(TM)
    BY <1>1, <1>3, <1>6, HmDoes, ConcatSound
  <2>2. Does(TM, p, I)
    BY <1>1, <1>3, <1>6, HmDoes, DoesConcat
  <2>3. I = {Change("remove", c)}
    OBVIOUS
  <2> HIDE DEF p, I
  <2>4. Does(TM, Under("schedLock", p), I)
    BY <1>2, <1>3, <1>6, <2>1, <2>2, <2>3, UnderDoes
  <2> QED BY <2>3, <2>4 DEF schedulerRemoveBy, p
<1> QED BY <1>4, <1>5, <1>6

LEMMA TmAsks ==
    ASSUME NEW op \in {"VM_ALLOC", "VM_FREE", "VM_MOVE"}
    PROVE  Does(TM, Call(MM, Request(op, TM, NULL)), {})
<1>1. Request(op, TM, NULL) \in FromTm
  BY DEF FromTm
<1>2. Send(MM, Request(op, TM, NULL)) \in Asks
  BY <1>1 DEF Asks
<1>3. Send(MM, Request(op, TM, NULL)) \in InstrOf(TM) \cap Calls /\ Await \in InstrOf(TM)
  BY <1>2, ServerInstructions DEF TmInstr, Calls
<1> QED BY <1>2, <1>3, CallDoes

LEMMA StartDoes ==
    ASSUME NEW c \in Thread \ {TM, MM}
    PROVE  Does(TM, threadStart(c), {Change("insert", c), Change("setready", c)})
<1> DEFINE a == IF c = Idle THEN << >> ELSE Call(MM, Request("VM_ALLOC", TM, NULL))
           b == IF c \in Users THEN Call(MM, Request("VM_MOVE", TM, NULL)) ELSE << >>
           h == Under("threadLock", Hm \o Hm)
           ins == Change("insert", c)
           set == Change("setready", c)
<1>1. TM \in Servers
  BY DEF Servers
<1>2. Lock("threadLock") \in InstrOf(TM) /\ Unlock("threadLock") \in InstrOf(TM)
  BY ServerInstructions DEF TmInstr, LockName
<1>3. Does(TM, a, {}) /\ Does(TM, b, {}) /\ Does(TM, Hm, {})
  BY <1>1, TmAsks, EmptyDoes, HmDoes
<1>4. Does(TM, h, {})
  BY <1>1, <1>2, HmDoes, UnderDoes
<1> HIDE DEF a, b, h
<1>5. ASSUME NEW p, NEW q, Does(TM, p, {}), Does(TM, q, {}) PROVE Does(TM, p \o q, {})
  <2>1. Does(TM, p \o q, {} \cup {})
    BY <1>5, DoesConcat
  <2> QED BY <2>1
<1>6. Does(TM, Hm \o a \o h \o b, {})
  BY <1>3, <1>4, <1>5
<1> DEFINE x == Hm \o a \o h \o b
<1>7. threadStart(c) = x \o schedulerInsertBy(c) \o schedulerSetReadyBy(c)
  BY DEF threadStart, a, b, h
<1> HIDE DEF x
<1>8. /\ Goes(ins) /\ Send(TM, StartDriver) \notin {ins, set}
      /\ Follows(ins, set)
  <2>1. ins.do = "insert" /\ set.do = "setready"
    BY DEF Change, Instr
  <2>2. Send(TM, StartDriver).do = "send" /\ Cleanup.do = "send" /\ Await.do = "await"
    BY DEF Send, Instr, Cleanup, Await
  <2> HIDE DEF ins, set
  <2> QED BY <2>1, <2>2 DEF Goes, Follows
<1>9. Does(TM, schedulerInsertBy(c), {ins}) /\ Does(TM, schedulerSetReadyBy(c), {set})
  BY ChangesDo
<1> HIDE DEF ins, set
<1>10. Does(TM, x \o schedulerInsertBy(c), {} \cup {ins})
  BY <1>6, <1>8, <1>9, DoesConcat DEF x
<1>11. {} \cup {ins} = {ins} /\ {ins} \cup {set} = {ins, set}
  OBVIOUS
<1>12. Does(TM, x \o schedulerInsertBy(c) \o schedulerSetReadyBy(c), {ins} \cup {set})
  BY <1>8, <1>9, <1>10, <1>11, DoesConcat
<1> QED BY <1>7, <1>11, <1>12 DEF ins, set

\* Which instruction is which.
LEMMA Kinds ==
    /\ \A do, c : Change(do, c).do = do /\ Change(do, c).on = c
    /\ \A t : Reply(t).do = "reply" /\ Reply(t).on = t
    /\ \A l : Lock(l).do = "lock" /\ Unlock(l).do = "unlock"
              /\ Lock(l).on = l /\ Unlock(l).on = l
    /\ \A t, r : Send(t, r).do = "send" /\ Send(t, r).on = t /\ Send(t, r).req = r
    /\ Await.do = "await" /\ Cleanup.do = "send"
    /\ \A op, f, a : /\ Request(op, f, a).op = op /\ Request(op, f, a).from = f
                     /\ Request(op, f, a).arg = a
BY DEF Change, Reply, Lock, Unlock, Send, Await, Cleanup, Instr, Request

LEMMA KindsOfInstr ==
    /\ Cleanup \notin Calls \cup {Await} /\ Cleanup.on = MM
    /\ \A i \in Asks : i.do = "send" /\ i.on = MM
    /\ ~Neutral(Cleanup) /\ ~Neutral(Send(TM, StartDriver))
    /\ \A i : i.do \in {"insert", "setready", "remove", "reply"} => ~Neutral(i)
<1>1. \A r \in FromTm : r.op # "VM_CLEANUP" /\ r.arg = NULL
  BY Kinds DEF FromTm
<1>2. Cleanup.on = MM /\ Cleanup.req.op = "VM_CLEANUP"
  BY Kinds DEF Cleanup
<1>3. \A i \in Asks : i.do = "send" /\ i.on = MM /\ i.req.op # "VM_CLEANUP"
  BY <1>1, Kinds DEF Asks
<1>4. Send(TM, StartDriver).on = TM /\ Send(TM, StartDriver).do = "send"
  BY Kinds
<1> QED BY <1>2, <1>3, <1>4, Kinds, Distinct DEF Calls, Neutral

LEMMA DestroyDoes ==
    ASSUME NEW u \in Users
    PROVE  Does(TM, threadDestroy(u),
                IF sched.status[u] = "ABSENT" THEN {} ELSE {Change("remove", u), Cleanup})
<1> DEFINE a == Call(MM, Request("VM_FREE", TM, NULL))
           h == Under("threadLock", Hm \o Hm)
           rem == Change("remove", u)
<1>1. TM \in Servers /\ u \in Thread \ {TM, MM}
  BY Distinct DEF Servers
<1>2. Lock("threadLock") \in InstrOf(TM) /\ Unlock("threadLock") \in InstrOf(TM)
      /\ Cleanup \in InstrOf(TM)
  BY ServerInstructions DEF TmInstr, LockName
<1>3. Does(TM, a, {}) /\ Does(TM, Hm, {})
  BY <1>1, TmAsks, HmDoes
<1>4. Does(TM, h, {})
  BY <1>1, <1>2, HmDoes, UnderDoes
<1>5. Does(TM, <<Cleanup>>, {Cleanup})
  BY <1>2, Kinds, KindsOfInstr, SingleDoes
<1>6. Does(TM, schedulerRemoveBy(u), {rem})
  BY <1>1, ChangesDo
<1>7. rem.do = "remove" /\ rem # Cleanup /\ rem # Await /\ rem # Send(TM, StartDriver)
  BY Kinds
<1> HIDE DEF a, h, rem
<1>8. Goes(rem) /\ Follows(rem, Cleanup)
  BY <1>7, Kinds, KindsOfInstr DEF Goes, Follows
<1>9. Cleanup # Send(TM, StartDriver)
  BY KindsOfInstr DEF Calls
<1>10. {} \cup {rem} = {rem} /\ {rem} \cup {} = {rem} /\ {rem} \cup {Cleanup} = {rem, Cleanup}
  OBVIOUS
<1>11. Does(TM, h \o schedulerRemoveBy(u), {} \cup {rem})
  BY <1>4, <1>6, <1>7, DoesConcat
<1>12. Does(TM, h \o schedulerRemoveBy(u) \o a, {rem} \cup {})
  BY <1>3, <1>8, <1>10, <1>11, DoesConcat
<1>13. Does(TM, h \o schedulerRemoveBy(u) \o a \o Hm, {rem} \cup {})
  BY <1>3, <1>8, <1>10, <1>12, DoesConcat
<1>14. Does(TM, h \o schedulerRemoveBy(u) \o a \o Hm \o <<Cleanup>>, {rem} \cup {Cleanup})
  BY <1>5, <1>8, <1>9, <1>10, <1>13, DoesConcat
<1>15. CASE sched.status[u] = "ABSENT"
  BY <1>15, EmptyDoes DEF threadDestroy
<1>16. CASE sched.status[u] # "ABSENT"
  BY <1>10, <1>14, <1>16 DEF threadDestroy, Cleanup, a, h, rem
<1> QED BY <1>15, <1>16

\* Programs that start several threads.
Starts(D) == {Change(do, d) : do \in {"insert", "setready"}, d \in D}

LEMMA StartsDo ==
    ASSUME NEW p, NEW T, T \subseteq Thread, NEW c \in Thread \ {TM, MM}, c \notin T,
           Does(TM, p, Starts(T))
    PROVE  Does(TM, p \o threadStart(c), Starts(T \cup {c}))
<1>1. Does(TM, threadStart(c), Starts({c}))
  <2>1. Starts({c}) = {Change("insert", c), Change("setready", c)}
    BY DEF Starts
  <2> QED BY <2>1, StartDoes
<1>2. ASSUME NEW D, NEW i \in Starts(D)
      PROVE  /\ i.do \in {"insert", "setready"} /\ i.on \in D
             /\ i # Cleanup /\ i # Await /\ i # Send(TM, StartDriver)
  BY Kinds DEF Starts
<1>3. \A i \in Starts(T) : Goes(i)
  BY <1>2 DEF Goes
<1>4. \A i \in Starts(T), j \in Starts({c}) : Follows(i, j)
  BY <1>2 DEF Follows
<1>5. Send(TM, StartDriver) \notin Starts({c})
  BY <1>2
<1>6. Starts(T) \cup Starts({c}) = Starts(T \cup {c})
  BY DEF Starts
<1>7. Does(TM, p \o threadStart(c), Starts(T) \cup Starts({c}))
  BY <1>1, <1>3, <1>4, <1>5, DoesConcat
<1> QED BY <1>6, <1>7

LEMMA BootDoes ==
    Does(TM, TmBoot, Starts({IO, Shell, Idle}))
<1>1. Does(TM, threadStart(IO), Starts({IO}))
  <2>1. Starts({IO}) = {Change("insert", IO), Change("setready", IO)}
    BY DEF Starts
  <2> QED BY <2>1, StartDoes, Distinct
<1>2. Does(TM, threadStart(IO) \o threadStart(Shell), Starts({IO} \cup {Shell}))
  <2>1. {IO} \subseteq Thread /\ Shell \in Thread \ {TM, MM} /\ Shell \notin {IO}
    BY Distinct
  <2> QED BY <1>1, <2>1, StartsDo
<1>3. Does(TM, threadStart(IO) \o threadStart(Shell) \o threadStart(Idle),
           Starts(({IO} \cup {Shell}) \cup {Idle}))
  <2>1. /\ {IO} \cup {Shell} \subseteq Thread /\ Idle \in Thread \ {TM, MM}
        /\ Idle \notin {IO} \cup {Shell}
    BY Distinct
  <2> QED BY <1>2, <2>1, StartsDo
<1>4. ({IO} \cup {Shell}) \cup {Idle} = {IO, Shell, Idle}
  OBVIOUS
<1> QED BY <1>3, <1>4 DEF TmBoot

LEMMA DoesComplete ==
    ASSUME NEW p, NEW I, Does(TM, p, I),
           \A c \in Thread : Change("insert", c) \in I => Change("setready", c) \in I,
           Change("insert", Driver) \in I => Reply(IO) \in I
    PROVE  Complete(p)
<1>1. \A c : Has(p, Change("insert", c)) => Change("insert", c) \in I
  BY Kinds, KindsOfInstr DEF Does
<1> QED BY <1>1 DEF Does, Complete

\* What TM may do for a request.
TmMay(p, r) ==
    /\ p \in Sound(TM) /\ Formed(p) /\ Complete(p)
    /\ p # << >> => p[1] # Await
    /\ \A c : Has(p, Change("insert", c)) =>
           /\ sched.status[c] = "ABSENT"
           /\ c \in Users \/ (c = Driver /\ r = StartDriver)
    /\ \A c : Has(p, Change("setready", c)) => Has(p, Change("insert", c))
    /\ Has(p, Reply(IO)) <=> r = StartDriver
    /\ r = StartDriver =>
           /\ Has(p, Change("insert", Driver))
           /\ ~Has(p, Cleanup)
           /\ \A u \in Users : ~Has(p, Reply(u))

LEMMA StartServes ==
    ASSUME NEW c \in Thread \ {TM, MM}, NEW f \in Users \cup {IO},
           sched.status[c] = "ABSENT", f \in Users => c \in Users,
           f = IO => c = Driver
    PROVE  TmMay(threadStart(c) \o <<Reply(f)>>, Request("TM_START", f, NULL))
<1> DEFINE I == {Change("insert", c), Change("setready", c)}
           J == I \cup {Reply(f)}
           p == threadStart(c) \o <<Reply(f)>>
           r == Request("TM_START", f, NULL)
<1>1. Does(TM, threadStart(c), I)
  BY StartDoes
<1>2. \A i \in I : i.do \in {"insert", "setready"} /\ i # Cleanup /\ i # Await
                  /\ i # Send(TM, StartDriver)
  BY Kinds
<1>3. \A i \in I : Follows(i, Reply(f))
  BY <1>2, Kinds DEF Follows
<1>4. Reply(f) \in InstrOf(TM)
  BY ServerInstructions DEF TmInstr
<1>5. /\ \A d : Change("insert", d) \in J <=> d = c
      /\ \A d : Change("setready", d) \in J <=> d = c
      /\ \A u : Reply(u) \in J <=> u = f
      /\ Cleanup \notin J
  BY Kinds
<1> HIDE DEF I
<1>6. Does(TM, p, J)
  BY <1>1, <1>3, <1>4, DoesReply
<1>7. r = StartDriver <=> f = IO
  BY Kinds DEF StartDriver
<1> HIDE DEF J, p, r
<1>8. /\ p \in Sound(TM) /\ Formed(p) /\ (p # << >> => p[1] # Await)
      /\ \A i : i.do \in {"insert", "setready", "remove", "reply"} =>
             (Has(p, i) <=> i \in J)
      /\ Has(p, Cleanup) <=> Cleanup \in J
  BY <1>6, KindsOfInstr DEF Does
<1>9. f \in Users => c # Driver
  BY Distinct
<1>10. Complete(p)
  BY <1>5, <1>6, <1>9, DoesComplete
<1>11. /\ \A d : Has(p, Change("insert", d)) <=> d = c
       /\ \A d : Has(p, Change("setready", d)) <=> d = c
       /\ \A u : Has(p, Reply(u)) <=> u = f
       /\ ~Has(p, Cleanup)
  BY <1>5, <1>8, Kinds
<1>12. TmMay(p, r)
  BY <1>7, <1>8, <1>10, <1>11, Distinct DEF TmMay
<1> QED BY <1>12 DEF p, r

\* Programs that start nothing, for requests of users.
LEMMA OthersServe ==
    ASSUME NEW p, NEW I, Does(TM, p, I), NEW r, r # StartDriver,
           \A i \in I : i.do = "remove" \/ i = Cleanup \/ \E u \in Users : i = Reply(u)
    PROVE  TmMay(p, r)
<1>1. /\ \A c : Change("insert", c) \notin I /\ Change("setready", c) \notin I
      /\ Reply(IO) \notin I
  BY Kinds, Distinct
<1>2. /\ p \in Sound(TM) /\ Formed(p) /\ (p # << >> => p[1] # Await)
      /\ \A i : i.do \in {"insert", "setready", "remove", "reply"} =>
             (Has(p, i) => i \in I)
  BY KindsOfInstr DEF Does
<1>3. /\ \A c : ~Has(p, Change("insert", c)) /\ ~Has(p, Change("setready", c))
      /\ ~Has(p, Reply(IO))
  BY <1>1, <1>2, Kinds
<1>4. Complete(p)
  BY <1>3 DEF Complete
<1> QED BY <1>2, <1>3, <1>4 DEF TmMay

LEMMA TmServes ==
    ASSUME NEW r \in TmRequest, NEW p \in TmServe(r),
           r = StartDriver => sched.status[Driver] = "ABSENT"
    PROVE  TmMay(p, r)
<1>0. TM \in Servers
  BY DEF Servers
<1>1. \A u \in Users : Reply(u) \in InstrOf(TM)
  BY ServerInstructions DEF TmInstr
<1>2. \A u \in Users : \A i : i.do = "remove" \/ i = Cleanup => Follows(i, Reply(u))
  BY Kinds, KindsOfInstr, Distinct DEF Follows, Calls
<1>3. CASE r \in {Request("TM_START", f, NULL) : f \in Users \cup {IO}}
  <2>1. PICK f \in Users \cup {IO} : r = Request("TM_START", f, NULL)
    BY <1>3
  <2>2. r.op = "TM_START" /\ r.from = f /\ (r = StartDriver <=> f = IO)
    BY <2>1, Kinds DEF StartDriver
  <2>3. TmServe(r) = {q \o <<Reply(f)>> : q \in StartedBy(f)}
    BY <2>2 DEF TmServe
  <2>4. PICK q \in StartedBy(f) : p = q \o <<Reply(f)>>
    BY <2>3
  <2>5. CASE f = IO
    <3>1. q = threadStart(Driver)
      BY <2>4, <2>5 DEF StartedBy
    <3> QED BY <2>1, <2>2, <2>4, <2>5, <3>1, StartServes, Distinct
  <2>6. CASE f \in Users /\ q = Hm
    <3>1. Does(TM, p, {} \cup {Reply(f)})
      BY <1>0, <1>1, <2>4, <2>6, HmDoes, DoesReply
    <3> QED BY <2>2, <2>6, <3>1, OthersServe, Distinct
  <2>7. CASE f \in Users /\ q # Hm
    <3>1. f # IO
      BY <2>7, Distinct
    <3>2. PICK u \in Users : sched.status[u] = "ABSENT" /\ q = threadStart(u)
      BY <2>4, <2>7, <3>1 DEF StartedBy
    <3> QED BY <2>1, <2>4, <2>7, <3>1, <3>2, StartServes, Distinct
  <2> QED BY <2>5, <2>6, <2>7
<1>4. CASE r \in {Request("TM_KILL", f, a) : f \in Users, a \in Users}
  <2>1. PICK f \in Users, a \in Users : r = Request("TM_KILL", f, a)
    BY <1>4
  <2>2. r.op = "TM_KILL" /\ r.from = f /\ r.arg = a /\ r # StartDriver
    BY <2>1, Kinds DEF StartDriver
  <2>3. p = threadDestroy(a) \o <<Reply(f)>>
    BY <2>2 DEF TmServe
  <2> DEFINE I == IF sched.status[a] = "ABSENT" THEN {}
                  ELSE {Change("remove", a), Cleanup}
  <2>4. Does(TM, threadDestroy(a), I)
    BY DestroyDoes
  <2>5. \A i \in I : i.do = "remove" \/ i = Cleanup
    BY Kinds
  <2> HIDE DEF I
  <2>6. Does(TM, p, I \cup {Reply(f)})
    BY <1>1, <1>2, <2>3, <2>4, <2>5, DoesReply
  <2> QED BY <2>2, <2>5, <2>6, OthersServe
<1>5. CASE r \in {Request("TM_EXIT", u, NULL) : u \in Users}
  <2>1. PICK u \in Users : r = Request("TM_EXIT", u, NULL)
    BY <1>5
  <2>2. r.op = "TM_EXIT" /\ r.from = u /\ r # StartDriver
    BY <2>1, Kinds DEF StartDriver
  <2>3. p = threadDestroy(u)
    BY <2>2 DEF TmServe
  <2> DEFINE I == IF sched.status[u] = "ABSENT" THEN {}
                  ELSE {Change("remove", u), Cleanup}
  <2>4. Does(TM, p, I)
    BY <2>3, DestroyDoes
  <2>5. \A i \in I : i.do = "remove" \/ i = Cleanup
    BY Kinds
  <2> HIDE DEF I
  <2> QED BY <2>2, <2>4, <2>5, OthersServe
<1> QED BY <1>3, <1>4, <1>5 DEF TmRequest

LEMMA MmServes ==
    ASSUME NEW r \in MmRequest, NEW p \in MmServe(r)
    PROVE  /\ p \in Sound(MM) /\ Formed(p)
           /\ p # << >> => p[1] # Await
           /\ Has(p, Reply(TM)) <=> r \in FromTm
<1>0. MM \in Servers
  BY DEF Servers
<1>1. /\ Does(MM, Hm, {}) /\ Does(MM, Hm \o Hm, {})
      /\ Does(MM, Hm \o Hm \o Hm \o Hm, {})
  <2>1. Does(MM, Hm, {}) /\ Does(MM, Hm \o Hm, {})
    BY <1>0, HmDoes
  <2>2. Does(MM, Hm \o Hm \o Hm, {} \cup {})
    BY <2>1, DoesConcat
  <2>3. Does(MM, Hm \o Hm \o Hm \o Hm, {} \cup {})
    BY <2>1, <2>2, DoesConcat
  <2> QED BY <2>1, <2>3
<1>2. ASSUME NEW q, Does(MM, q, {}), NEW t \in Users \cup {TM}
      PROVE  Does(MM, q \o <<Reply(t)>>, {Reply(t)})
  <2>1. Reply(t) \in InstrOf(MM)
    BY ServerInstructions DEF MmInstr
  <2>2. Does(MM, q \o <<Reply(t)>>, {} \cup {Reply(t)})
    BY <1>2, <2>1, DoesReply
  <2> QED BY <2>2
<1>3. CASE r = Request("VM_CLEANUP", TM, NULL)
  <2>1. r.op = "VM_CLEANUP" /\ r \notin FromTm
    BY <1>3, Kinds DEF FromTm
  <2>2. p = << >> \/ p = Hm \o Hm
    BY <2>1 DEF MmServe
  <2>3. Does(MM, p, {})
    BY <2>2, <1>1, EmptyDoes
  <2> QED BY <2>1, <2>3, Kinds, KindsOfInstr DEF Does
<1>4. CASE r # Request("VM_CLEANUP", TM, NULL)
  <2>1. /\ r.op \in {"VM_ALLOC", "VM_FREE", "VM_MOVE"}
        /\ r.from \in Users \cup {TM}
        /\ r \in FromTm <=> r.from = TM
    <3>1. CASE r \in FromTm
      BY <3>1, Kinds DEF FromTm
    <3>2. CASE r \notin FromTm
      <4>1. PICK u \in Users : r = Request("VM_ALLOC", u, NULL)
        BY <1>4, <3>2 DEF MmRequest
      <4> QED BY <3>2, <4>1, Kinds, Distinct
    <3> QED BY <3>1, <3>2
  <2>2. \/ p = Hm \o Hm \o <<Reply(r.from)>>
        \/ p = Hm \o Hm \o Hm \o Hm \o <<Reply(r.from)>>
    BY <2>1 DEF MmServe
  <2>3. Does(MM, p, {Reply(r.from)})
    BY <1>1, <1>2, <2>1, <2>2
  <2>4. Has(p, Reply(TM)) <=> r.from = TM
    BY <2>3, Kinds, KindsOfInstr DEF Does
  <2> QED BY <2>1, <2>3, <2>4 DEF Does
<1> QED BY <1>3, <1>4

LEMMA IoServes ==
    ASSUME NEW r \in IoRequest
    PROVE  /\ IoServe(r) \in Sound(IO) /\ Formed(IoServe(r))
           /\ IoServe(r) # << >> => IoServe(r)[1] # Await
           /\ ~Has(IoServe(r), Send(TM, StartDriver))
<1>1. PICK op \in {"IO_OPEN", "IO_CLOSE"}, u \in Users : r = Request(op, u, NULL)
  BY DEF IoRequest
<1>2. r.op = op /\ r.from = u
  BY <1>1, Kinds
<1> DEFINE i == IF op = "IO_CLOSE" THEN Send(Driver, Request("IO_DRIVERCLOSE", u, NULL))
                ELSE Reply(u)
<1>3. IoServe(r) = <<i>>
  BY <1>2 DEF IoServe
<1>4. i \in InstrOf(IO)
  <2>1. Request("IO_DRIVERCLOSE", u, NULL) \in DriverRequest
    BY DEF DriverRequest
  <2> QED BY <2>1, ServerInstructions DEF IoInstr
<1>5. /\ i.do # "lock" /\ i # Await /\ i \notin Asks /\ i # Send(TM, StartDriver)
  BY Kinds, KindsOfInstr, Distinct
<1> HIDE DEF i
<1>6. Does(IO, <<i>>, {i})
  BY <1>4, <1>5, SingleDoes DEF Calls
<1> QED BY <1>3, <1>5, <1>6, KindsOfInstr DEF Does

LEMMA DriverServes ==
    ASSUME NEW r \in DriverRequest
    PROVE  /\ DriverServe(r) \in Sound(Driver) /\ Formed(DriverServe(r))
           /\ DriverServe(r) # << >> => DriverServe(r)[1] # Await
<1>0. Driver \in Servers
  BY DEF Servers
<1> DEFINE p == IF r.op = "IO_READ" THEN << >> ELSE Hm \o Hm
<1>1. r.from \in Users
  BY Kinds DEF DriverRequest
<1>2. Reply(r.from) \in InstrOf(Driver)
  BY <1>1, ServerInstructions DEF DriverInstr
<1>3. Does(Driver, p, {})
  BY <1>0, HmDoes, EmptyDoes
<1>4. Does(Driver, p \o <<Reply(r.from)>>, {} \cup {Reply(r.from)})
  BY <1>2, <1>3, DoesReply
<1> QED BY <1>4 DEF DriverServe, Does

LEMMA IoBoots ==
    /\ IoBoot \in Sound(IO) /\ Formed(IoBoot) /\ IoBoot # << >>
    /\ IoBoot[1] # Await
    /\ Has(IoBoot, Send(TM, StartDriver))
    /\ \A u : ~Has(IoBoot, Reply(u))
    /\ \A r : ~Has(IoBoot, Send(Driver, r))
<1> DEFINE S == Send(TM, StartDriver)
<1>0. IO \in Servers
  BY DEF Servers
<1>1. Does(IO, Hm, {}) /\ Does(IO, Hm \o Hm, {}) /\ ~Has(Hm, Await)
  BY <1>0, HmDoes
<1>2. Does(IO, Hm \o Hm \o Hm, {} \cup {})
  BY <1>1, DoesConcat
<1>3. ~Has(Hm \o Hm \o Hm, Await)
  <2>1. Hm \in Seq(InstrOf(IO)) /\ Hm \o Hm \in Seq(InstrOf(IO))
    BY <1>1 DEF Does, Sound
  <2> QED BY <1>1, <2>1, HasConcat
<1>4. S \in InstrOf(IO) \cap Calls /\ Await \in InstrOf(IO)
  BY ServerInstructions DEF IoInstr, Calls
<1>5. Does(IO, Call(TM, StartDriver), {S})
  BY <1>4, CallDoes
<1>6. Goes(S)
  <2>1. S # Cleanup
    BY KindsOfInstr DEF Calls
  <2> QED BY <2>1, Kinds, Distinct DEF Goes
<1> HIDE DEF S
<1>7. Does(IO, Call(TM, StartDriver) \o Hm, {S} \cup {})
  BY <1>1, <1>5, <1>6, DoesConcat
<1>8. {S} \cup {} = {S} /\ {} \cup {} = {} /\ {} \cup {S} = {S}
  OBVIOUS
<1>9. Does(IO, (Hm \o Hm \o Hm) \o (Call(TM, StartDriver) \o Hm), {} \cup {S})
  BY <1>2, <1>3, <1>7, <1>8, DoesConcat
<1>10. IoBoot = (Hm \o Hm \o Hm) \o (Call(TM, StartDriver) \o Hm)
  BY DEF IoBoot, ioLoadDriver, StartDriver
<1>11. /\ IoBoot \in Sound(IO) /\ Formed(IoBoot) /\ Has(IoBoot, S)
       /\ IoBoot # << >> => IoBoot[1] # Await
       /\ \A i : Has(IoBoot, i) => Neutral(i) \/ i = S
  BY <1>8, <1>9, <1>10 DEF Does
<1>12. IoBoot # << >>
  <2>1. Len(<< >>) = 0
    OBVIOUS
  <2> QED BY <1>11, <2>1 DEF Has
<1>13. \A u : Reply(u) # S /\ ~Neutral(Reply(u))
  BY Kinds, KindsOfInstr DEF S
<1>14. \A r : Send(Driver, r) # S /\ ~Neutral(Send(Driver, r))
  BY Kinds, KindsOfInstr, Distinct DEF S, Neutral
<1> QED BY <1>11, <1>12, <1>13, <1>14 DEF S

-----------------------------------------------------------------------------
(* The scheduler under the steps *)

LEMMA Levels ==
    /\ \A s \in Servers : PriorityOf[s] = 0
    /\ \A u \in Users : PriorityOf[u] = 1
    /\ PriorityOf[Idle] = 2
    /\ \A t \in Thread : PriorityOf[t] \in Nat
<1>1. \A s \in Servers : s \in Thread /\ s # Idle /\ s \notin Users
  BY Distinct DEF Servers
<1>2. \A t \in Thread : PriorityOf[t] = CASE t = Idle    -> 2
                                          [] t \in Users -> 1
                                          [] OTHER       -> 0
  BY LocksAssumption
<1>3. ASSUME NEW t \in Thread
      PROVE  /\ t = Idle => PriorityOf[t] = 2
             /\ t \in Users => PriorityOf[t] = 1
             /\ t # Idle /\ t \notin Users => PriorityOf[t] = 0
  <2>1. PriorityOf[t] = CASE t = Idle -> 2 [] t \in Users -> 1 [] OTHER -> 0
    BY <1>2
  <2> QED BY <2>1, Distinct
<1> QED BY <1>1, <1>3, Distinct

\* The lists agree, and the processor belongs to a most urgent active thread.
SchedSound(s) ==
    /\ s \in Scheduler
    /\ s.running \in Thread
    /\ ListsAgree(s)
    /\ \A t \in Thread : s.status[t] = "RUNNING" <=> t = s.running
    /\ \A t \in Thread :
          s.status[t] = "READY" => PriorityOf[s.running] <= PriorityOf[t]

Absent(s, t) == s.status[t] = "ABSENT"
Blocked(s, t) == s.status[t] = "BLOCKED"

\* From s to r no thread but those of T comes, goes, falls asleep or wakes up.
Kept(r, s, T) ==
    /\ SchedSound(r)
    /\ \A u \in Thread \ T :
          /\ Absent(r, u) <=> Absent(s, u)
          /\ Blocked(r, u) <=> Blocked(s, u)

LEMMA ActiveOnes ==
    ASSUME NEW s \in Scheduler, NEW t \in Thread
    PROVE  Active(s, t) <=> ~Absent(s, t) /\ ~Blocked(s, t)
BY DEF Scheduler, SchedStatus, Active, Absent, Blocked

\* schedule(), when some thread can run.
LEMMA ScheduleKeeps ==
    ASSUME NEW s \in Scheduler, ListsAgree(s), s.running \in Thread,
           ~Absent(s, s.running),
           \A u \in Thread : s.status[u] = "RUNNING" => u = s.running,
           NEW w \in Thread, Active(s, w)
    PROVE  Kept(schedule(s), s, {})
<1> DEFINE r == schedule(s)
<1>1. s.status[s.running] \in {"RUNNING", "READY", "BLOCKED"}
  BY DEF Scheduler, SchedStatus, Absent
<1>2. Scheduled(r, s)
  BY <1>1, ScheduleSchedules
<1> HIDE DEF r
<1>3. SchedSound(r)
  BY <1>2 DEF Scheduled, SchedSound
<1>4. ASSUME NEW u \in Thread
      PROVE  (Absent(r, u) <=> Absent(s, u)) /\ (Blocked(r, u) <=> Blocked(s, u))
  <2>1. r \in Scheduler /\ (Active(r, u) <=> Active(s, u))
    BY <1>2 DEF Scheduled
  <2>2. Active(s, u) \/ r.status[u] = s.status[u]
    BY <1>2 DEF Scheduled
  <2> QED BY <2>1, <2>2, ActiveOnes DEF Absent, Blocked
<1> QED BY <1>3, <1>4 DEF Kept, r

\* A handler that may wake a thread and schedules.
LEMMA WakeKeeps ==
    ASSUME NEW s, SchedSound(s), NEW t \in Thread, NEW wakes \in BOOLEAN,
           wakes => Blocked(s, t),
           NEW r, r = schedule(IF wakes THEN schedulerSetReady(s, t) ELSE s)
    PROVE  /\ Kept(r, s, {t})
           /\ Absent(r, t) <=> Absent(s, t)
           /\ Blocked(r, t) <=> Blocked(s, t) /\ ~wakes
<1>0. /\ s \in Scheduler /\ s.running \in Thread /\ ListsAgree(s)
      /\ \A u \in Thread : s.status[u] = "RUNNING" <=> u = s.running
  BY DEF SchedSound
<1>1. Active(s, s.running) /\ ~Absent(s, s.running)
  BY <1>0 DEF Active, Absent
<1>2. CASE ~wakes
  <2>1. Kept(r, s, {})
    BY <1>0, <1>1, <1>2, ScheduleKeeps
  <2> QED BY <1>2, <2>1 DEF Kept
<1>3. CASE wakes
  <2> DEFINE q == schedulerSetReady(s, t)
  <2>1. Updated(q, s, t, "READY")
    BY <1>0, <1>3, SetReadyAgrees DEF Blocked
  <2>2. r = schedule(q)
    BY <1>3
  <2> HIDE DEF q
  <2>3. /\ q \in Scheduler /\ q.running = s.running /\ ListsAgree(q)
        /\ \A u \in Thread : q.status[u] = IF u = t THEN "READY" ELSE s.status[u]
    BY <1>0, <2>1 DEF Scheduler, Updated
  <2>4. t # s.running
    BY <1>0, <1>3 DEF Blocked
  <2>5. /\ Active(q, s.running) /\ ~Absent(q, s.running)
        /\ \A u \in Thread : q.status[u] = "RUNNING" => u = s.running
    BY <1>0, <2>3, <2>4 DEF Active, Absent
  <2>6. Kept(r, q, {})
    BY <1>0, <2>2, <2>3, <2>5, ScheduleKeeps
  <2>7. \A u \in Thread \ {t} : (Absent(q, u) <=> Absent(s, u))
                                /\ (Blocked(q, u) <=> Blocked(s, u))
    BY <2>3 DEF Absent, Blocked
  <2>8. ~Absent(q, t) /\ ~Blocked(q, t) /\ ~Absent(s, t)
    BY <1>3, <2>3 DEF Absent, Blocked
  <2> QED BY <1>3, <2>6, <2>7, <2>8 DEF Kept
<1> QED BY <1>2, <1>3

\* A handler that puts the running thread to sleep, when another one can run.
LEMMA SleepKeeps ==
    ASSUME NEW s, SchedSound(s), NEW w \in Thread, Active(s, w), w # s.running,
           NEW r, r = schedule(schedulerSetBlocked(s, s.running))
    PROVE  Kept(r, s, {s.running}) /\ Blocked(r, s.running)
<1> DEFINE t == s.running
           q == schedulerSetBlocked(s, t)
<1>0. /\ s \in Scheduler /\ t \in Thread /\ ListsAgree(s)
      /\ \A u \in Thread : s.status[u] = "RUNNING" <=> u = t
  BY DEF SchedSound
<1>1. Updated(q, s, t, "BLOCKED")
  BY <1>0, SetBlockedAgrees
<1>2. r = schedule(q)
  OBVIOUS
<1> HIDE DEF q
<1>3. /\ q \in Scheduler /\ q.running = t /\ ListsAgree(q)
      /\ \A u \in Thread : q.status[u] = IF u = t THEN "BLOCKED" ELSE s.status[u]
  BY <1>0, <1>1 DEF Scheduler, Updated
<1> HIDE DEF t
<1>4. /\ Active(q, w) /\ ~Absent(q, t)
      /\ \A u \in Thread : q.status[u] = "RUNNING" => u = t
  BY <1>0, <1>3 DEF Active, Absent, t
<1>5. Kept(r, q, {})
  BY <1>0, <1>2, <1>3, <1>4, ScheduleKeeps
<1>6. \A u \in Thread \ {t} : (Absent(q, u) <=> Absent(s, u))
                              /\ (Blocked(q, u) <=> Blocked(s, u))
  BY <1>3 DEF Absent, Blocked
<1>7. Blocked(q, t)
  BY <1>0, <1>3 DEF Blocked
<1> QED BY <1>0, <1>5, <1>6, <1>7 DEF Kept, t

\* TM's calls, which do not schedule.  Nobody is more urgent than TM.
LEMMA ChangeKeeps ==
    ASSUME NEW s, SchedSound(s), s.running = TM, NEW c \in Thread
    PROVE  /\ ~Absent(s, c) =>
                LET r == schedulerSetReady(s, c)
                IN  Kept(r, s, {c}) /\ ~Absent(r, c) /\ ~Blocked(r, c)
                    /\ r.running = TM
           /\ Absent(s, c) =>
                LET r == schedulerInsert(s, c)
                IN  Kept(r, s, {c}) /\ Blocked(r, c) /\ r.running = TM
           /\ c # TM =>
                LET r == schedulerRemove(s, c)
                IN  Kept(r, s, {c}) /\ Absent(r, c) /\ r.running = TM
<1>0. /\ s \in Scheduler /\ ListsAgree(s) /\ TM \in Servers
      /\ \A u \in Thread : s.status[u] = "RUNNING" <=> u = TM
  BY DEF SchedSound, Servers
<1>1. ASSUME NEW r, NEW x \in SchedStatus, Updated(r, s, c, x), x # "RUNNING", c # TM
      PROVE  Kept(r, s, {c}) /\ r.running = TM /\ r.status[c] = x
  <2>1. /\ r \in Scheduler /\ r.running = TM /\ ListsAgree(r)
        /\ \A u \in Thread : r.status[u] = IF u = c THEN x ELSE s.status[u]
    BY <1>0, <1>1 DEF Scheduler, Updated
  <2>2. \A u \in Thread : PriorityOf[TM] <= PriorityOf[u]
    BY <1>0, Levels
  <2>3. SchedSound(r)
    BY <1>0, <1>1, <2>1, <2>2, Distinct DEF SchedSound
  <2> QED BY <2>1, <2>3 DEF Kept, Absent, Blocked
<1>2. ASSUME ~Absent(s, c)
      PROVE  LET r == schedulerSetReady(s, c)
             IN  Kept(r, s, {c}) /\ ~Absent(r, c) /\ ~Blocked(r, c) /\ r.running = TM
  <2>1. CASE s.status[c] = "BLOCKED"
    <3>1. Updated(schedulerSetReady(s, c), s, c, "READY") /\ c # TM
      BY <1>0, <2>1, SetReadyAgrees
    <3> QED BY <3>1, <1>1 DEF SchedStatus, Absent, Blocked
  <2>2. CASE s.status[c] # "BLOCKED"
    <3>1. s.status[c] \in {"READY", "RUNNING"}
      BY <1>0, <1>2, <2>2 DEF Scheduler, SchedStatus, Absent
    <3> QED BY <3>1, <2>2 DEF schedulerSetReady, SwapToReady, Kept, Absent, Blocked
  <2> QED BY <2>1, <2>2
<1>3. ASSUME Absent(s, c)
      PROVE  LET r == schedulerInsert(s, c)
             IN  Kept(r, s, {c}) /\ Blocked(r, c) /\ r.running = TM
  <2>1. Updated(schedulerInsert(s, c), s, c, "BLOCKED") /\ c # TM
    BY <1>0, <1>3, InsertAgrees DEF Absent
  <2> QED BY <2>1, <1>1 DEF SchedStatus, Blocked
<1>4. ASSUME c # TM
      PROVE  LET r == schedulerRemove(s, c)
             IN  Kept(r, s, {c}) /\ Absent(r, c) /\ r.running = TM
  <2>1. Updated(schedulerRemove(s, c), s, c, "ABSENT")
    BY <1>0, <1>4, RemoveAgrees
  <2> QED BY <2>1, <1>1, <1>4 DEF SchedStatus, Absent
<1> QED BY <1>2, <1>3, <1>4

-----------------------------------------------------------------------------
(* The invariant *)

Gone(c) == Absent(sched, c)
Asleep(c) == Blocked(sched, c)
ToInsert(c) == Has(todo[TM], Change("insert", c))
ToWake(c) == Has(todo[TM], Change("setready", c))
ToAsk == Has(todo[IO], Send(TM, StartDriver))
Busy(s) == todo[s] # << >> \/ mail[s] # << >>
Awaits(s) == todo[s] # << >> /\ Head(todo[s]) = Await
DriverUp == ~Gone(Driver) /\ ~ToWake(Driver)

\* Programs and requests are what they can be.
Typed ==
    /\ todo = [t \in Thread |-> todo[t]]
    /\ \A t \in Thread : todo[t] \in Sound(t)
    /\ mail = [s \in Servers |-> mail[s]]
    /\ \A s \in Servers : mail[s] \in {<< >>} \cup {<<r>> : r \in RequestOf(s)}
    /\ answered \subseteq Thread
    /\ owner \in [LockName -> Servers \cup {NULL}]

\* The thread that has a lock is going to release it before its next system call.
Locked ==
    /\ \A l \in LockName, s \in Servers : owner[l] = s => Releases(todo[s], l)
    /\ \A l \in TmLock : owner[l] # NULL => owner[l] = TM /\ sched.running = TM

Programs ==
    /\ \A s \in Servers : Formed(todo[s])
    /\ Complete(todo[TM])

\* A thread comes to life while TM's program inserts it and sets it ready.
Life ==
    /\ \A c \in Thread :
          /\ ToInsert(c) => Gone(c)
          /\ ToWake(c) /\ ~ToInsert(c) => Asleep(c) /\ todo[c] = FirstProgram(c)
          /\ Gone(c) => todo[c] = << >> /\ (c \in Servers => mail[c] = << >>)
    /\ ~Gone(TM) /\ ~Gone(MM)
    /\ Gone(IO) => ToInsert(IO) /\ Gone(Driver)
    /\ Gone(Idle) \/ Asleep(Idle) => ToWake(Idle)

\* A server sleeps only when it has nothing to do or waits for an answer.
Sleepers ==
    /\ \A s \in {MM, Driver} : Asleep(s) => ~Busy(s)
    /\ Asleep(TM) /\ Busy(TM) => Awaits(TM) /\ TM \notin answered
    /\ Asleep(IO) /\ Busy(IO) /\ ~ToWake(IO) => Awaits(IO) /\ IO \notin answered

\* MM has a call of TM and has not answered it, and TM one of the I/O thread.
MmOwes ==
    \/ todo[MM] = << >> /\ \E r \in FromTm : mail[MM] = <<r>>
    \/ mail[MM] = << >> /\ Has(todo[MM], Reply(TM))
TmOwes == mail[TM] = <<StartDriver>> \/ Has(todo[TM], Reply(IO))

\* TM and the I/O thread wait for an answer if and only if one is owed to them
\* or has arrived.
TmCalls ==
    /\ MmOwes \/ TM \in answered <=> Awaits(TM)
    /\ ~(MmOwes /\ TM \in answered)

IoCalls ==
    /\ TmOwes \/ IO \in answered <=> Awaits(IO)
    /\ ~(TmOwes /\ IO \in answered)
    /\ ~(mail[TM] = <<StartDriver>> /\ Has(todo[TM], Reply(IO)))

\* The driver is started by the I/O thread's request and by nothing else.
DriverStart ==
    /\ mail[TM] = <<StartDriver>> \/ ToAsk => Gone(Driver) /\ ~ToInsert(Driver)
    /\ Gone(Driver) /\ ~Gone(IO) => ToAsk \/ (Awaits(IO) /\ IO \notin answered)
    /\ Gone(Driver) /\ Has(todo[TM], Reply(IO)) => ToInsert(Driver)

\* A server has one request at a time.
Single == \A s \in {MM, IO, Driver} : todo[s] = << >> \/ mail[s] = << >>

\* Until the driver is there nobody asks for anything but the boot itself.
Boot ==
    ~DriverUp =>
        /\ \A u \in Users : /\ todo[u] = << >>
                            /\ ~Has(todo[TM], Reply(u)) /\ ~Has(todo[IO], Reply(u))
        /\ \A r \in DriverRequest : ~Has(todo[IO], Send(Driver, r))
        /\ ~Has(todo[TM], Cleanup)
        /\ mail[IO] = << >> /\ ~Busy(Driver)
        /\ mail[TM] \in {<< >>, <<StartDriver>>}
        /\ Busy(MM) => MmOwes

\* Afterwards one server works at a time; only TM may have MM work for it, and
\* have the I/O thread wait.
OneWorks == \E s \in {MM, IO, Driver} : \A r \in Servers \ {s} : ~Busy(r)
TmWorks ==
    /\ ~Busy(Driver)
    /\ Busy(IO) => Awaits(IO) /\ IO \notin answered
    /\ Busy(MM) => \/ MmOwes
                   \/ /\ ~Busy(IO) /\ mail[TM] = << >>
                      /\ \E u \in Users : todo[TM] = <<Reply(u)>>
    /\ mail[TM] # << >> => todo[TM] = << >> /\ ~Busy(MM)
Turn == ~Gone(Driver) => OneWorks \/ TmWorks

UsersLate ==
    \A u \in Users : todo[u] # << >> => DriverUp /\ ~Gone(IO) /\ ~ToWake(IO)

Orderly ==
    /\ Life /\ Sleepers /\ TmCalls /\ IoCalls /\ DriverStart
    /\ Single /\ Boot /\ Turn /\ UsersLate

IndInv == SchedSound(sched) /\ Typed /\ Locked /\ Programs /\ Orderly

-----------------------------------------------------------------------------
(* Executing an instruction *)

\* The instructions that the invariant follows; each is at most once in a program.
Tracked(i) ==
    \/ i.do \in {"insert", "setready", "reply"}
    \/ i \in {Cleanup, Send(TM, StartDriver)}
    \/ \E r : i = Send(Driver, r)

\* Thread t executes the first instruction of its program.
LEMMA TailStep ==
    ASSUME Typed, Programs, NEW t \in Thread, todo[t] # << >>,
           todo' = [todo EXCEPT ![t] = Tail(@)]
    PROVE  /\ todo' = [u \in Thread |-> todo'[u]]
           /\ \A u \in Thread : todo'[u] \in Sound(u)
           /\ \A u \in Thread \ {t} : todo'[u] = todo[u]
           /\ todo'[t] = Tail(todo[t]) /\ Head(todo[t]) \in InstrOf(t)
           /\ todo[t] \in Seq(InstrOf(t)) /\ Has(todo[t], Head(todo[t]))
           /\ Programs'
           /\ t \in Servers =>
                 LET i == Head(todo[t])
                 IN  /\ \A j : Has(todo'[t], j) => Has(todo[t], j) /\ Follows(i, j)
                     /\ \A j : Tracked(j) =>
                           (Has(todo'[t], j) <=> Has(todo[t], j) /\ j # i)
                     /\ i \in Calls => Awaits(t)'
                     /\ i \notin Calls => ~Awaits(t)'
<1> DEFINE p == todo[t]
           i == Head(p)
<1>1. /\ todo = [u \in Thread |-> todo[u]]
      /\ \A u \in Thread : todo[u] \in Sound(u)
      /\ p \in Seq(InstrOf(t)) /\ p # << >> /\ \A l \in LockName : Brackets(p, l)
  BY DEF Typed, Sound
<1>2. /\ todo' = [u \in Thread |-> todo'[u]] /\ todo'[t] = Tail(p)
      /\ \A u \in Thread \ {t} : todo'[u] = todo[u]
  BY <1>1
<1> HIDE DEF p
<1>3. /\ Tail(p) \in Seq(InstrOf(t)) /\ i \in InstrOf(t) /\ Has(p, i)
      /\ \A j : Has(p, j) => j = i \/ Has(Tail(p), j)
      /\ \A j : Has(Tail(p), j) => Has(p, j)
  BY <1>1, TailHas
<1>4. \A u \in Thread : todo'[u] \in Sound(u)
  <2>1. \A l \in LockName : Brackets(Tail(p), l)
    BY <1>1, TailBrackets
  <2> QED BY <1>1, <1>2, <1>3, <2>1 DEF Sound
<1>5. ASSUME t \in Servers
      PROVE  /\ Formed(p) /\ Formed(Tail(p))
             /\ \A j : Has(Tail(p), j) => Follows(i, j)
             /\ i \in Calls => Tail(p) # << >> /\ Head(Tail(p)) = Await
             /\ i \notin Calls /\ Tail(p) # << >> => Head(Tail(p)) # Await
  <2>1. Formed(p)
    BY <1>5 DEF Programs, p
  <2> QED BY <1>1, <2>1, TailFormed
<1> HIDE DEF i
<1>6. \A j : Tracked(j) => ~Follows(j, j)
  <2>1. \A j : j.do \in {"insert", "setready", "reply"} => ~Follows(j, j)
    BY DEF Follows
  <2>2. \A r : ~Follows(Send(Driver, r), Send(Driver, r))
    BY Kinds DEF Follows
  <2>3. ~Follows(Cleanup, Cleanup)
    <3>1. \A u : Cleanup # Reply(u)
      BY Kinds
    <3> QED BY <3>1 DEF Follows
  <2>4. ~Follows(Send(TM, StartDriver), Send(TM, StartDriver))
    BY DEF Follows
  <2> QED BY <2>1, <2>2, <2>3, <2>4 DEF Tracked
<1>7. Programs'
  <2>1. \A s \in Servers : Formed(todo'[s])
    <3>1. \A s \in Servers : s \in Thread
      BY LocksAssumption
    <3> QED BY <1>2, <1>5, <3>1 DEF Programs
  <2>2. Complete(todo'[TM])
    <3>1. CASE t # TM
      BY <1>2, <3>1, Distinct DEF Programs
    <3>2. CASE t = TM
      <4>1. Complete(p) /\ t \in Servers
        BY <3>2 DEF Programs, Servers, p
      <4>2. \A c \in Thread : Has(Tail(p), Change("insert", c)) => Has(Tail(p), Change("setready", c))
        <5> SUFFICES ASSUME NEW c \in Thread, Has(Tail(p), Change("insert", c))
                     PROVE  Has(Tail(p), Change("setready", c))
          OBVIOUS
        <5>1. Has(p, Change("setready", c))
          BY <1>3, <4>1 DEF Complete
        <5>2. Follows(i, Change("insert", c))
          BY <1>5, <4>1
        <5>3. i # Change("setready", c)
          BY <5>2, Kinds DEF Follows
        <5> QED BY <1>3, <5>1, <5>3
      <4>3. Has(Tail(p), Change("insert", Driver)) => Has(Tail(p), Reply(IO))
        <5> SUFFICES ASSUME Has(Tail(p), Change("insert", Driver))
                     PROVE  Has(Tail(p), Reply(IO))
          OBVIOUS
        <5>1. Has(p, Reply(IO))
          BY <1>3, <4>1 DEF Complete
        <5>2. Follows(i, Change("insert", Driver))
          BY <1>5, <4>1
        <5>3. i # Reply(IO)
          BY <5>2, Kinds DEF Follows
        <5> QED BY <1>3, <5>1, <5>3
      <4> QED BY <1>2, <3>2, <4>2, <4>3 DEF Complete
    <3> QED BY <3>1, <3>2
  <2> QED BY <2>1, <2>2 DEF Programs
<1>8. /\ Tail(p) # << >> /\ Head(Tail(p)) = Await => Awaits(t)'
      /\ ~(Tail(p) # << >> /\ Head(Tail(p)) = Await) => ~Awaits(t)'
  BY <1>2 DEF Awaits
<1> QED BY <1>1, <1>2, <1>3, <1>4, <1>5, <1>6, <1>7, <1>8 DEF p, i

\* A handler always schedules: a thread that has a lock makes no system call.
LEMMA HandlerSchedules ==
    ASSUME Typed, Locked, NEW t \in Thread, sched.running = t,
           todo[t] # << >> => Head(todo[t]).do \in SystemCall
    PROVE  /\ \A l \in TmLock : owner[l] = NULL
           /\ \A l \in LockName : owner[l] # t
           /\ \A s : TrySchedule(s) = schedule(s)
<1>1. ASSUME NEW l \in LockName, owner[l] = t PROVE FALSE
  <2>1. t \in Servers
    BY <1>1, SchedulerAssumption DEF Typed
  <2>2. Releases(todo[t], l)
    BY <1>1, <2>1 DEF Locked
  <2>3. todo[t] \in Seq(InstrOf(t))
    BY DEF Typed, Sound
  <2>4. todo[t] # << >>
    <3>1. Len(<< >>) = 0
      OBVIOUS
    <3> QED BY <2>2, <3>1 DEF Releases
  <2> QED BY <2>2, <2>3, <2>4, TailBrackets
<1>2. \A l \in TmLock : l \in LockName
  BY DEF TmLock, LockName
<1>3. \A l \in TmLock : owner[l] = NULL
  BY <1>1, <1>2 DEF Locked
<1>4. owner["threadLock"] = NULL /\ owner["schedLock"] = NULL
  BY <1>3 DEF TmLock
<1> QED BY <1>1, <1>3, <1>4 DEF TrySchedule


LEMMA LocksKept ==
    ASSUME Typed, Locked, Programs, NEW t \in Thread, todo[t] # << >>,
           todo' = [todo EXCEPT ![t] = Tail(@)], Head(todo[t]).do # "unlock"
    PROVE  \A l \in LockName, s \in Servers : owner[l] = s => Releases(todo'[s], l)
<1> SUFFICES ASSUME NEW l \in LockName, NEW s \in Servers, owner[l] = s
             PROVE  Releases(todo'[s], l)
  OBVIOUS
<1>1. Releases(todo[s], l) /\ s \in Thread
  BY LocksAssumption DEF Locked
<1>2. /\ \A u \in Thread \ {t} : todo'[u] = todo[u]
      /\ todo'[t] = Tail(todo[t]) /\ todo[t] \in Seq(InstrOf(t))
  BY TailStep
<1>3. Head(todo[t]) # Unlock(l)
  BY Kinds
<1>4. Releases(todo[t], l) => Releases(Tail(todo[t]), l)
  BY <1>2, <1>3, TailBrackets
<1> QED BY <1>1, <1>2, <1>4

\* Only servers take and release locks, and only TM other ones than the heap's.
LEMMA WhoLocks ==
    ASSUME NEW t \in Thread, NEW i \in InstrOf(t), i.do \in {"lock", "unlock"}
    PROVE  /\ t \in Servers /\ i.on \in LockName
           /\ i.on \in TmLock => t = TM
           /\ i = IF i.do = "lock" THEN Lock(i.on) ELSE Unlock(i.on)
<1>1. \A u \in Users : InstrOf(u) = UserInstr(u)
  BY ServerInstructions
<1>2. t \notin Users
  BY <1>1, Kinds DEF UserInstr
<1>3. t # Idle
  BY ServerInstructions
<1>4. t \in Servers
  BY <1>2, <1>3, LocksAssumption
<1>5. CASE t = TM
  <2>1. i \in {Lock(l) : l \in LockName} \cup {Unlock(l) : l \in LockName}
    BY <1>5, ServerInstructions, Kinds, KindsOfInstr DEF TmInstr
  <2> QED BY <1>4, <1>5, <2>1, Kinds
<1>6. CASE t # TM
  <2>1. i \in HeapInstr
    BY <1>4, <1>6, ServerInstructions, Kinds DEF Servers, MmInstr, IoInstr, DriverInstr
  <2>2. "hmLock" \in LockName \ TmLock
    BY DEF LockName, TmLock
  <2> QED BY <1>4, <2>1, <2>2, Kinds DEF HeapInstr
<1> QED BY <1>5, <1>6

\* What the invariant sees of the programs when server t executes instruction i.
LEMMA TailView ==
    ASSUME Typed, Programs, NEW t \in Servers, todo[t] # << >>,
           todo' = [todo EXCEPT ![t] = Tail(@)]
    PROVE  LET i == Head(todo[t]) IN
           /\ \A c : ToInsert(c)' <=> ToInsert(c) /\ ~(t = TM /\ i = Change("insert", c))
           /\ \A c : ToWake(c)' <=> ToWake(c) /\ ~(t = TM /\ i = Change("setready", c))
           /\ ToAsk' <=> ToAsk /\ ~(t = IO /\ i = Send(TM, StartDriver))
           /\ \A s \in Servers : \A c :
                 Has(todo'[s], Reply(c)) <=> Has(todo[s], Reply(c)) /\ ~(s = t /\ i = Reply(c))
           /\ Has(todo'[TM], Cleanup) <=> Has(todo[TM], Cleanup) /\ ~(t = TM /\ i = Cleanup)
           /\ \A r : Has(todo'[IO], Send(Driver, r)) <=>
                        Has(todo[IO], Send(Driver, r)) /\ ~(t = IO /\ i = Send(Driver, r))
           /\ \A s \in Servers \ {t} : Awaits(s)' <=> Awaits(s)
           /\ Awaits(t)' <=> i \in Calls
           /\ \A u \in Thread : todo'[u] # << >> => todo[u] # << >>
           /\ \A u \in Thread \ {t} : todo'[u] = todo[u]
           /\ t \in Thread /\ i \in InstrOf(t) /\ Has(todo[t], i)
           /\ Awaits(t) <=> i = Await
           /\ \A j : Has(todo'[t], j) => Follows(i, j)
<1> DEFINE i == Head(todo[t])
<1>1. t \in Thread /\ TM \in Servers /\ IO \in Servers /\ \A s \in Servers : s \in Thread
  BY LocksAssumption DEF Servers
<1>2. /\ \A u \in Thread \ {t} : todo'[u] = todo[u]
      /\ i \in InstrOf(t) /\ Has(todo[t], i)
      /\ \A j : Tracked(j) => (Has(todo'[t], j) <=> Has(todo[t], j) /\ j # i)
      /\ \A j : Has(todo'[t], j) => Follows(i, j)
      /\ Awaits(t)' <=> i \in Calls
  BY <1>1, TailStep
<1> HIDE DEF i
<1>3. \A s \in Servers : \A j : Tracked(j) =>
         (Has(todo'[s], j) <=> Has(todo[s], j) /\ ~(s = t /\ i = j))
  BY <1>1, <1>2
<1>4. /\ \A c : /\ Tracked(Change("insert", c)) /\ Tracked(Change("setready", c))
               /\ Tracked(Reply(c))
      /\ Tracked(Cleanup) /\ Tracked(Send(TM, StartDriver))
      /\ \A r : Tracked(Send(Driver, r))
  BY Kinds DEF Tracked
<1>5. \A s \in Servers \ {t} : Awaits(s)' <=> Awaits(s)
  BY <1>1, <1>2 DEF Awaits
<1>6. Awaits(t) <=> i = Await
  BY DEF Awaits, i
<1>7. /\ \A c : ToInsert(c)' <=> ToInsert(c) /\ ~(t = TM /\ i = Change("insert", c))
      /\ \A c : ToWake(c)' <=> ToWake(c) /\ ~(t = TM /\ i = Change("setready", c))
      /\ ToAsk' <=> ToAsk /\ ~(t = IO /\ i = Send(TM, StartDriver))
  BY <1>1, <1>3, <1>4 DEF ToInsert, ToWake, ToAsk
<1>8. /\ \A s \in Servers : \A c :
            Has(todo'[s], Reply(c)) <=> Has(todo[s], Reply(c)) /\ ~(s = t /\ i = Reply(c))
      /\ Has(todo'[TM], Cleanup) <=> Has(todo[TM], Cleanup) /\ ~(t = TM /\ i = Cleanup)
      /\ \A r : Has(todo'[IO], Send(Driver, r)) <=>
                   Has(todo[IO], Send(Driver, r)) /\ ~(t = IO /\ i = Send(Driver, r))
  BY <1>1, <1>3, <1>4
<1>9. \A u \in Thread : todo'[u] # << >> => todo[u] # << >>
  BY <1>2
<1> QED BY <1>1, <1>2, <1>5, <1>6, <1>7, <1>8, <1>9 DEF i

\* To take or release a lock changes nothing of the order of things.
LEMMA QuietStep ==
    ASSUME IndInv, NEW t \in Servers, sched.running = t, todo[t] # << >>,
           Head(todo[t]).do \in {"lock", "unlock"},
           todo' = [todo EXCEPT ![t] = Tail(@)],
           UNCHANGED <<sched, mail, answered>>
    PROVE  Orderly'
<1>1. /\ Typed /\ Programs /\ SchedSound(sched)
      /\ Life /\ Sleepers /\ TmCalls /\ IoCalls /\ DriverStart
      /\ Single /\ Boot /\ Turn /\ UsersLate
  BY DEF IndInv, Orderly
<1> PICK i : i = Head(todo[t])
  OBVIOUS
<1>2. /\ i \notin Calls /\ i # Await /\ i # Cleanup
      /\ \A c : i # Change("insert", c) /\ i # Change("setready", c) /\ i # Reply(c)
      /\ \A s, r : i # Send(s, r)
  BY Kinds, KindsOfInstr DEF Calls
<1>3. /\ \A c : (ToInsert(c)' <=> ToInsert(c)) /\ (ToWake(c)' <=> ToWake(c))
      /\ ToAsk' <=> ToAsk
      /\ \A s \in Servers : \A c : Has(todo'[s], Reply(c)) <=> Has(todo[s], Reply(c))
      /\ Has(todo'[TM], Cleanup) <=> Has(todo[TM], Cleanup)
      /\ \A r : Has(todo'[IO], Send(Driver, r)) <=> Has(todo[IO], Send(Driver, r))
      /\ \A s \in Servers : Awaits(s)' <=> Awaits(s)
      /\ \A u \in Thread : todo'[u] # << >> => todo[u] # << >>
      /\ \A u \in Thread \ {t} : todo'[u] = todo[u]
  <2>1. /\ \A c : (ToInsert(c)' <=> ToInsert(c)) /\ (ToWake(c)' <=> ToWake(c))
        /\ ToAsk' <=> ToAsk
    BY <1>1, <1>2, TailView
  <2>2. /\ \A s \in Servers : \A c : Has(todo'[s], Reply(c)) <=> Has(todo[s], Reply(c))
        /\ Has(todo'[TM], Cleanup) <=> Has(todo[TM], Cleanup)
        /\ \A r : Has(todo'[IO], Send(Driver, r)) <=> Has(todo[IO], Send(Driver, r))
    BY <1>1, <1>2, TailView
  <2>3. \A s \in Servers : Awaits(s)' <=> Awaits(s)
    BY <1>1, <1>2, TailView
  <2>4. /\ \A u \in Thread : todo'[u] # << >> => todo[u] # << >>
        /\ \A u \in Thread \ {t} : todo'[u] = todo[u]
    BY <1>1, <1>2, TailView
  <2> QED BY <2>1, <2>2, <2>3, <2>4
<1>4. /\ \A c : (Gone(c)' <=> Gone(c)) /\ (Asleep(c)' <=> Asleep(c))
      /\ ~Asleep(t)
      /\ \A s \in Servers : Busy(s)' => Busy(s)
      /\ DriverUp' <=> DriverUp
  BY <1>1, <1>3, LocksAssumption DEF Gone, Asleep, SchedSound, Blocked, Absent, Busy, DriverUp
<1>5. Life'
  BY <1>1, <1>3, <1>4, Distinct DEF Life, FirstProgram
<1>6. Sleepers'
  BY <1>1, <1>3, <1>4, Distinct DEF Sleepers, Servers
<1>7. MmOwes' <=> MmOwes
  <2>1. \A r : <<r>> # << >>
    OBVIOUS
  <2> QED BY <2>1, <1>1, <1>3, <1>4, Distinct DEF MmOwes, Servers, Single
<1>8. TmCalls'
  BY <1>1, <1>3, <1>7, Distinct DEF TmCalls, Servers
<1>9. IoCalls'
  BY <1>1, <1>3, Distinct DEF IoCalls, TmOwes, Servers
<1>10. DriverStart'
  BY <1>1, <1>3, <1>4, Distinct DEF DriverStart, Servers
<1>11. Single'
  BY <1>1, <1>3, Distinct DEF Single
<1>12. Boot'
  BY <1>1, <1>3, <1>4, <1>7, Distinct DEF Boot, Servers
<1>13. Turn'
  <2>1. OneWorks => OneWorks'
    BY <1>4 DEF OneWorks
  <2>2. ASSUME NEW u, todo[TM] = <<Reply(u)>> PROVE todo'[TM] = <<Reply(u)>>
    <3>1. t # TM
      BY <1>2, <2>2
    <3> QED BY <1>3, <2>2, <3>1, Distinct
  <2>3. TmWorks => TmWorks'
    BY <1>3, <1>4, <1>7, <2>2, Distinct DEF TmWorks, Servers
  <2> QED BY <1>1, <1>4, <2>1, <2>3 DEF Turn
<1>14. UsersLate'
  BY <1>1, <1>3, <1>4, Distinct DEF UsersLate
<1> QED BY <1>5, <1>6, <1>8, <1>9, <1>10, <1>11, <1>12, <1>13, <1>14 DEF Orderly

-----------------------------------------------------------------------------
(* Sending a request *)

LEMMA WhoSends ==
    ASSUME NEW t \in Thread, NEW i \in InstrOf(t), i.do = "send"
    PROVE  /\ i.on \in Servers /\ i.req \in RequestOf(i.on) /\ i = Send(i.on, i.req)
           /\ \/ t = TM /\ i \in Asks \cup {Cleanup}
              \/ t = IO /\ i = Send(TM, StartDriver)
              \/ t = IO /\ i.on = Driver /\ i.req \in DriverRequest
              \/ t \in Users
<1>1. /\ RequestOf(TM) = TmRequest /\ RequestOf(MM) = MmRequest
      /\ RequestOf(IO) = IoRequest /\ RequestOf(Driver) = DriverRequest
  BY Distinct DEF RequestOf
<1>2. TM \in Servers /\ MM \in Servers /\ Driver \in Servers
  BY DEF Servers
<1>3. CASE t = TM
  <2>1. i \in Asks \cup {Cleanup}
    BY <1>3, ServerInstructions, Kinds DEF TmInstr
  <2>2. \E r \in MmRequest : i = Send(MM, r)
    BY <2>1 DEF Asks, Cleanup, MmRequest
  <2> QED BY <1>1, <1>2, <1>3, <2>1, <2>2, Kinds
<1>4. CASE t = IO
  <2>1. i = Send(TM, StartDriver) \/ \E r \in DriverRequest : i = Send(Driver, r)
    BY <1>4, ServerInstructions, Kinds DEF IoInstr, HeapInstr
  <2>2. StartDriver \in TmRequest
    BY DEF StartDriver, TmRequest
  <2> QED BY <1>1, <1>2, <1>4, <2>1, <2>2, Kinds
<1>5. CASE t \in Users
  <2>1. InstrOf(t) = UserInstr(t)
    BY <1>5, ServerInstructions
  <2>2. PICK s \in Servers : \E r \in RequestOf(s) : i = Send(s, r)
    BY <2>1, Kinds DEF UserInstr
  <2> QED BY <1>5, <2>2, Kinds
<1>6. t # MM /\ t # Driver /\ t # Idle
  BY ServerInstructions, Kinds DEF MmInstr, DriverInstr, HeapInstr
<1> QED BY <1>3, <1>4, <1>5, <1>6, LocksAssumption DEF Servers

\* A request that finds the server's queue empty.
LEMMA SendEffect ==
    ASSUME IndInv, NEW t \in Thread, SendStep(t), NEW s, NEW r,
           Head(todo[t]) = Send(s, r), mail[s] = << >>
    PROVE  /\ sched.running = t /\ todo[t] # << >> /\ s \in Servers /\ r \in RequestOf(s)
           /\ todo' = [todo EXCEPT ![t] = Tail(@)]
           /\ mail' = [mail EXCEPT ![s] = <<r>>]
           /\ UNCHANGED <<owner, answered>>
           /\ Kept(sched', sched, {s})
           /\ Gone(s)' <=> Gone(s)
           /\ Asleep(s)' <=> Asleep(s) /\ todo[s] # << >>
           /\ \A l \in TmLock : owner[l] = NULL
<1> DEFINE wakes == sched.status[s] = "BLOCKED" /\ todo[s] = << >>
<1>1. /\ Typed /\ Locked /\ Programs /\ SchedSound(sched)
  BY DEF IndInv
<1>2. /\ Head(todo[t]).do = "send" /\ Head(todo[t]).on = s /\ Head(todo[t]).req = r
  BY Kinds
<1>3. /\ sched.running = t /\ todo[t] # << >>
      /\ mail' = [mail EXCEPT ![s] = Append(@, r)]
      /\ sched' = TrySchedule(IF wakes THEN schedulerSetReady(sched, s) ELSE sched)
      /\ todo' = [todo EXCEPT ![t] = Tail(@)]
      /\ UNCHANGED <<owner, answered>>
  BY <1>2 DEF SendStep, IsAt
<1>4. Head(todo[t]) \in InstrOf(t)
  BY <1>1, <1>3, TailStep
<1>5. s \in Servers /\ r \in RequestOf(s)
  BY <1>2, <1>4, WhoSends
<1>6. mail' = [mail EXCEPT ![s] = <<r>>]
  <2>1. Append(<< >>, r) = <<r>>
    OBVIOUS
  <2> QED BY <1>3, <2>1
<1>7. /\ \A l \in TmLock : owner[l] = NULL
      /\ \A x : TrySchedule(x) = schedule(x)
  BY <1>1, <1>2, <1>3, HandlerSchedules DEF SystemCall
<1>8. sched' = schedule(IF wakes THEN schedulerSetReady(sched, s) ELSE sched)
  BY <1>3, <1>7
<1>9. wakes \in BOOLEAN /\ s \in Thread /\ (wakes => Blocked(sched, s))
  BY <1>5, LocksAssumption DEF Blocked
<1>10. (Asleep(s) /\ ~wakes) <=> (Asleep(s) /\ todo[s] # << >>)
  BY DEF Asleep, Blocked
<1> HIDE DEF wakes
<1>11. /\ Kept(sched', sched, {s})
       /\ Absent(sched', s) <=> Absent(sched, s)
       /\ Blocked(sched', s) <=> Blocked(sched, s) /\ ~wakes
  BY <1>1, <1>8, <1>9, WakeKeeps
<1> QED BY <1>3, <1>5, <1>6, <1>7, <1>10, <1>11 DEF Gone, Asleep

\* TM has one call of MM at a time.
LEMMA MmFree ==
    ASSUME IndInv, sched.running = TM, todo[TM] # << >>, Head(todo[TM]).do = "send"
    PROVE  ~Busy(MM) /\ (DriverUp => TmWorks) /\ ~MmOwes /\ TM \notin answered
<1>1. TmCalls /\ Boot /\ Turn
  BY DEF IndInv, Orderly
<1>2. ~Awaits(TM)
  BY Kinds DEF Awaits
<1>3. ~MmOwes /\ TM \notin answered
  BY <1>1, <1>2 DEF TmCalls
<1>4. CASE ~DriverUp
  BY <1>1, <1>3, <1>4 DEF Boot
<1>5. CASE DriverUp
  <2>1. Busy(TM) /\ TM \in Servers \ {MM, IO, Driver}
    BY Distinct DEF Busy, Servers
  <2>2. ~OneWorks
    BY <2>1 DEF OneWorks
  <2>3. TmWorks
    BY <1>1, <1>5, <2>2 DEF Turn, DriverUp
  <2>4. \A u : todo[TM] # <<Reply(u)>>
    <3>1. \A u : Head(<<Reply(u)>>).do = "reply"
      BY Kinds
    <3> QED BY <3>1
  <2>5. ~Busy(MM)
    BY <1>3, <2>3, <2>4 DEF TmWorks
  <2> QED BY <1>3, <2>3, <2>5
<1> QED BY <1>3, <1>4, <1>5

LEMMA TypedHas ==
    ASSUME Typed
    PROVE  /\ \A t \in Thread : \A i : Has(todo[t], i) => i \in InstrOf(t)
           /\ \A c \in {TM, MM} : ~ToInsert(c) /\ ~ToWake(c)
<1>1. ASSUME NEW t \in Thread, NEW i, Has(todo[t], i) PROVE i \in InstrOf(t)
  <2>1. todo[t] \in Seq(InstrOf(t))
    BY DEF Typed, Sound
  <2>2. \A k \in 1 .. Len(todo[t]) : todo[t][k] \in InstrOf(t)
    BY <2>1
  <2> QED BY <1>1, <2>2 DEF Has
<1>2. \A c \in {TM, MM} : Change("insert", c) \notin TmInstr /\ Change("setready", c) \notin TmInstr
  <2>1. \A c, i : i \in TmInstr /\ i.do \in {"insert", "setready"} /\ i.on = c => c \notin {TM, MM}
    BY Kinds, KindsOfInstr DEF TmInstr
  <2> QED BY <2>1, Kinds
<1> QED BY <1>1, <1>2, ServerInstructions, Distinct DEF ToInsert, ToWake

LEMMA AskStep ==
    ASSUME IndInv, SendStep(TM), Head(todo[TM]) \in Asks
    PROVE  Orderly'
<1>1. /\ Typed /\ Programs /\ SchedSound(sched)
      /\ Life /\ Sleepers /\ TmCalls /\ IoCalls /\ DriverStart
      /\ Single /\ Boot /\ Turn /\ UsersLate
  BY DEF IndInv, Orderly
<1> PICK i : i = Head(todo[TM])
  OBVIOUS
<1>2. PICK r \in FromTm : i = Send(MM, r)
  BY DEF Asks
<1>3. TM \in Servers /\ sched.running = TM /\ todo[TM] # << >> /\ i.do = "send"
  BY <1>2, Kinds DEF SendStep, IsAt, Servers
<1>4. ~Busy(MM) /\ (DriverUp => TmWorks) /\ ~MmOwes /\ TM \notin answered
  BY <1>3, MmFree
<1>5. mail[MM] = << >> /\ todo[MM] = << >>
  BY <1>4 DEF Busy
<1>6. /\ todo' = [todo EXCEPT ![TM] = Tail(@)]
      /\ mail' = [mail EXCEPT ![MM] = <<r>>]
      /\ answered' = answered
      /\ Kept(sched', sched, {MM})
      /\ Gone(MM)' <=> Gone(MM)
      /\ ~Asleep(MM)'
  BY <1>2, <1>5, SendEffect, Distinct
<1>7. /\ i \in Calls /\ i # Cleanup
      /\ \A c : i # Change("insert", c) /\ i # Change("setready", c) /\ i # Reply(c)
  BY <1>2, <1>3, Kinds, KindsOfInstr DEF Calls
<1>8. /\ \A c : (ToInsert(c)' <=> ToInsert(c)) /\ (ToWake(c)' <=> ToWake(c))
      /\ ToAsk' <=> ToAsk
      /\ \A s \in Servers : \A c : Has(todo'[s], Reply(c)) <=> Has(todo[s], Reply(c))
      /\ Has(todo'[TM], Cleanup) <=> Has(todo[TM], Cleanup)
      /\ \A q : Has(todo'[IO], Send(Driver, q)) <=> Has(todo[IO], Send(Driver, q))
  BY <1>1, <1>3, <1>6, <1>7, TailView, Distinct
<1>9. /\ \A s \in Servers \ {TM} : Awaits(s)' <=> Awaits(s)
      /\ Awaits(TM)'
      /\ \A u \in Thread \ {TM} : todo'[u] = todo[u]
      /\ i # Await => ~Awaits(TM)
  BY <1>1, <1>3, <1>6, <1>7, TailView
<1>10. /\ \A s \in Servers \ {MM} : mail'[s] = mail[s]
       /\ mail'[MM] = <<r>>
       /\ \A s \in Servers : s \in Thread
  BY <1>1, <1>6, LocksAssumption DEF Typed, Servers
<1>11. /\ \A c \in Thread : Gone(c)' <=> Gone(c)
       /\ \A c \in Thread \ {MM} : Asleep(c)' <=> Asleep(c)
       /\ ~Asleep(TM) /\ ~Asleep(TM)'
       /\ \A s \in Servers \ {TM, MM} : Busy(s)' <=> Busy(s)
       /\ DriverUp' <=> DriverUp
  BY <1>1, <1>3, <1>6, <1>8, <1>9, <1>10, Distinct
     DEF Kept, Gone, Asleep, SchedSound, Blocked, Absent, Busy, DriverUp
<1>12. MmOwes'
  BY <1>5, <1>9, <1>10, Distinct DEF MmOwes
<1>13. Life'
  BY <1>1, <1>3, TypedHas, <1>8, <1>9, <1>10, <1>11, Distinct DEF Life, FirstProgram
<1>14. Sleepers'
  BY <1>1, <1>6, <1>8, <1>9, <1>11, Distinct DEF Sleepers, Servers
<1>15. TmCalls'
  BY <1>4, <1>6, <1>9, <1>12 DEF TmCalls
<1>16. IoCalls'
  BY <1>1, <1>6, <1>8, <1>9, <1>10, Distinct DEF IoCalls, TmOwes, Servers
<1>17. DriverStart'
  BY <1>1, <1>6, <1>8, <1>9, <1>10, <1>11, Distinct DEF DriverStart, Servers
<1>18. Single'
  BY <1>1, <1>5, <1>9, <1>10, Distinct DEF Single, Servers
<1>19. Boot'
  BY <1>1, <1>8, <1>9, <1>10, <1>11, <1>12, Distinct DEF Boot, Servers
<1>20. Turn'
  <2>1. TmWorks => TmWorks'
    BY <1>3, <1>6, <1>9, <1>10, <1>11, <1>12, Distinct DEF TmWorks, Servers
  <2>2. OneWorks => ~Busy(TM)
    BY Distinct DEF OneWorks, Servers
  <2>3. Busy(TM)
    BY <1>3 DEF Busy
  <2> QED BY <1>1, <1>11, <2>1, <2>2, <2>3, Distinct DEF Turn
<1>21. UsersLate'
  BY <1>1, <1>8, <1>9, <1>11, Distinct DEF UsersLate
<1> QED BY <1>13, <1>14, <1>15, <1>16, <1>17, <1>18, <1>19, <1>20, <1>21 DEF Orderly

LEMMA NoneLeft ==
    ASSUME NEW S, NEW q \in Seq(S), \A j : ~Has(q, j)
    PROVE  q = << >>
<1>1. Len(q) \in Nat /\ (1 \in 1 .. Len(q) => Has(q, q[1]))
  BY DEF Has
<1>2. Len(q) = 0
  BY <1>1
<1> QED BY <1>2

LEMMA LastOne ==
    ASSUME NEW S, NEW q \in Seq(S), q # << >>, \A j : ~Has(Tail(q), j)
    PROVE  Tail(q) = << >> /\ q = <<Head(q)>>
<1>1. Tail(q) \in Seq(S)
  OBVIOUS
<1>2. Tail(q) = << >>
  BY <1>1, NoneLeft
<1>3. Len(Tail(q)) = Len(q) - 1 /\ Len(q) \in Nat /\ Len(<< >>) = 0
  OBVIOUS
<1>4. Len(q) = 1
  <2> DEFINE n == Len(q)
             m == Len(Tail(q))
  <2>1. m = Len(<< >>)
    BY <1>2
  <2> HIDE DEF n, m
  <2>2. m = 0 /\ m = n - 1 /\ n \in Nat
    BY <1>3, <2>1 DEF m, n
  <2> QED BY <2>2 DEF n
<1>5. q = <<q[1]>> /\ Head(q) = q[1]
  BY <1>4
<1> QED BY <1>2, <1>5

\* Of TM's program at most an answer remains after the cleanup.
LEMMA CleanupStep ==
    ASSUME IndInv, SendStep(TM), Head(todo[TM]) = Cleanup
    PROVE  Orderly'
<1>1. /\ Typed /\ Programs /\ SchedSound(sched)
      /\ Life /\ Sleepers /\ TmCalls /\ IoCalls /\ DriverStart
      /\ Single /\ Boot /\ Turn /\ UsersLate
  BY DEF IndInv, Orderly
<1> DEFINE r == Request("VM_CLEANUP", TM, NULL)
<1>2. Cleanup = Send(MM, r) /\ r \notin FromTm
  BY Kinds DEF Cleanup, FromTm
<1> HIDE DEF r
<1>3. TM \in Servers /\ sched.running = TM /\ todo[TM] # << >>
  BY DEF SendStep, IsAt, Servers
<1>4. ~Busy(MM) /\ (DriverUp => TmWorks) /\ ~MmOwes /\ TM \notin answered
  BY <1>3, MmFree, Kinds
<1>5. mail[MM] = << >> /\ todo[MM] = << >>
  BY <1>4 DEF Busy
<1>6. /\ todo' = [todo EXCEPT ![TM] = Tail(@)]
      /\ mail' = [mail EXCEPT ![MM] = <<r>>]
      /\ answered' = answered
      /\ Kept(sched', sched, {MM})
      /\ Gone(MM)' <=> Gone(MM)
      /\ ~Asleep(MM)'
  <2>1. Head(todo[TM]) = Send(MM, r)
    BY <1>2
  <2> QED BY <1>5, <2>1, SendEffect, Distinct
<1>7. /\ Cleanup \notin Calls
      /\ \A c : Cleanup # Change("insert", c) /\ Cleanup # Change("setready", c)
                /\ Cleanup # Reply(c)
  BY Kinds, KindsOfInstr
<1>8. /\ \A c : (ToInsert(c)' <=> ToInsert(c)) /\ (ToWake(c)' <=> ToWake(c))
      /\ ToAsk' <=> ToAsk
      /\ \A s \in Servers : \A c : Has(todo'[s], Reply(c)) <=> Has(todo[s], Reply(c))
  BY <1>1, <1>3, <1>6, <1>7, TailView, Distinct
<1>9. /\ \A s \in Servers \ {TM} : Awaits(s)' <=> Awaits(s)
      /\ ~Awaits(TM)'
      /\ \A u \in Thread \ {TM} : todo'[u] = todo[u]
      /\ Has(todo[TM], Cleanup)
      /\ \A j : Has(todo'[TM], j) => Follows(Cleanup, j)
  BY <1>1, <1>3, <1>6, <1>7, TailView
<1>10. /\ \A s \in Servers \ {MM} : mail'[s] = mail[s]
       /\ mail'[MM] = <<r>>
       /\ \A s \in Servers : s \in Thread
  BY <1>1, <1>6, LocksAssumption DEF Typed, Servers
<1>11. /\ \A c \in Thread : Gone(c)' <=> Gone(c)
       /\ \A c \in Thread \ {MM} : Asleep(c)' <=> Asleep(c)
       /\ ~Asleep(TM) /\ ~Asleep(TM)'
       /\ \A s \in Servers \ {TM, MM} : Busy(s)' <=> Busy(s)
       /\ DriverUp' <=> DriverUp
  BY <1>1, <1>3, <1>6, <1>8, <1>9, <1>10, Distinct
     DEF Kept, Gone, Asleep, SchedSound, Blocked, Absent, Busy, DriverUp
<1>12. ~MmOwes' /\ DriverUp
  <2>1. mail'[MM] # << >> /\ \A q \in FromTm : mail'[MM] # <<q>>
    BY <1>2, <1>10
  <2> QED BY <1>1, <1>9, <2>1 DEF MmOwes, Boot
<1>13. Life'
  BY <1>1, <1>3, TypedHas, <1>8, <1>9, <1>10, <1>11, Distinct DEF Life, FirstProgram
<1>14. Sleepers'
  BY <1>1, <1>6, <1>8, <1>9, <1>11, Distinct DEF Sleepers, Servers
<1>15. TmCalls'
  BY <1>4, <1>6, <1>9, <1>12 DEF TmCalls
<1>16. IoCalls'
  BY <1>1, <1>6, <1>8, <1>9, <1>10, Distinct DEF IoCalls, TmOwes, Servers
<1>17. DriverStart'
  BY <1>1, <1>6, <1>8, <1>9, <1>10, <1>11, Distinct DEF DriverStart, Servers
<1>18. Single'
  BY <1>1, <1>5, <1>9, <1>10, Distinct DEF Single, Servers
<1>19. Boot'
  BY <1>11, <1>12 DEF Boot
<1>20. Turn'
  <2>1. todo'[TM] = << >> \/ \E u \in Users : todo'[TM] = <<Reply(u)>>
    <3> DEFINE q == todo'[TM]
    <3>1. q \in Seq(TmInstr) /\ Formed(q)
      BY <1>1, <1>3, <1>6, TailStep, ServerInstructions, Distinct DEF Sound, Programs
    <3>2. \A j : Has(q, j) => \E u \in Users : j = Reply(u)
      BY <1>9 DEF Follows
    <3> HIDE DEF q
    <3>3. CASE q # << >>
      <4>1. /\ Tail(q) \in Seq(TmInstr) /\ Has(q, Head(q))
            /\ \A j : Has(Tail(q), j) => Follows(Head(q), j)
        BY <3>1, <3>3, TailHas, TailFormed
      <4>2. PICK u \in Users : Head(q) = Reply(u)
        BY <3>2, <4>1
      <4>3. \A j : ~Has(Tail(q), j)
        BY <4>1, <4>2, Kinds DEF Follows
      <4>4. q = <<Head(q)>>
        BY <3>1, <3>3, <4>1, <4>3, LastOne
      <4> QED BY <4>2, <4>4 DEF q
    <3> QED BY <3>3 DEF q
  <2>2. mail[TM] = << >> /\ TmWorks
    BY <1>3, <1>4, <1>12 DEF TmWorks
  <2>3. ~Busy(IO)
    <3> SUFFICES ASSUME Busy(IO) PROVE FALSE
      OBVIOUS
    <3>1. TmOwes
      BY <1>1, <2>2 DEF TmWorks, IoCalls
    <3>2. Has(todo'[TM], Reply(IO))
      BY <1>3, <1>8, <2>2, <3>1 DEF TmOwes
    <3>3. \A u \in Users : Reply(IO) # Reply(u)
      BY Kinds, Distinct
    <3> QED BY <1>9, <3>2, <3>3 DEF Follows
  <2>4. ~Busy(IO)' /\ ~Busy(Driver)' /\ mail'[TM] = << >>
    BY <1>3, <1>10, <1>11, <2>2, <2>3, Distinct DEF TmWorks, Servers
  <2>5. CASE todo'[TM] = << >>
    BY <2>4, <2>5 DEF Turn, OneWorks, Servers, Busy
  <2>6. CASE \E u \in Users : todo'[TM] = <<Reply(u)>>
    BY <2>4, <2>6 DEF Turn, TmWorks
  <2> QED BY <2>1, <2>5, <2>6
<1>21. UsersLate'
  BY <1>1, <1>8, <1>9, <1>11, Distinct DEF UsersLate
<1> QED BY <1>13, <1>14, <1>15, <1>16, <1>17, <1>18, <1>19, <1>20, <1>21 DEF Orderly

\* The I/O thread asks for the driver.
LEMMA StartStep ==
    ASSUME IndInv, SendStep(IO), Head(todo[IO]) = Send(TM, StartDriver)
    PROVE  Orderly' /\ mail[TM] = << >>
<1>1. /\ Typed /\ Programs /\ SchedSound(sched)
      /\ Life /\ Sleepers /\ TmCalls /\ IoCalls /\ DriverStart
      /\ Single /\ Boot /\ Turn /\ UsersLate
  BY DEF IndInv, Orderly
<1> DEFINE i == Send(TM, StartDriver)
<1>2. /\ i \in Calls /\ i # Cleanup /\ i # Await
      /\ \A c : i # Change("insert", c) /\ i # Change("setready", c) /\ i # Reply(c)
      /\ \A q : i # Send(Driver, q)
  BY Kinds, KindsOfInstr, Distinct DEF Calls
<1> HIDE DEF i
<1>3. IO \in Servers /\ TM \in Servers /\ sched.running = IO /\ todo[IO] # << >>
  BY DEF SendStep, IsAt, Servers
<1>4. ToAsk /\ ~Awaits(IO)
  <2>1. todo[IO] \in Seq(InstrOf(IO))
    BY <1>1, Distinct DEF Typed, Sound
  <2>2. Has(todo[IO], Head(todo[IO]))
    BY <1>3, <2>1, TailHas
  <2> QED BY <1>2, <2>2 DEF ToAsk, Awaits, i
<1>5. /\ Gone(Driver) /\ ~ToInsert(Driver) /\ ~DriverUp
      /\ ~TmOwes /\ IO \notin answered
  BY <1>1, <1>4 DEF DriverStart, IoCalls, DriverUp
<1>6. mail[TM] = << >>
  BY <1>1, <1>5 DEF Boot, TmOwes
<1>7. /\ todo' = [todo EXCEPT ![IO] = Tail(@)]
      /\ mail' = [mail EXCEPT ![TM] = <<StartDriver>>]
      /\ answered' = answered
      /\ Kept(sched', sched, {TM})
      /\ Gone(TM)' <=> Gone(TM)
      /\ Asleep(TM)' <=> Asleep(TM) /\ todo[TM] # << >>
  BY <1>6, SendEffect, Distinct
<1>8. /\ \A c : (ToInsert(c)' <=> ToInsert(c)) /\ (ToWake(c)' <=> ToWake(c))
      /\ ~ToAsk'
      /\ \A s \in Servers : \A c : Has(todo'[s], Reply(c)) <=> Has(todo[s], Reply(c))
      /\ Has(todo'[TM], Cleanup) <=> Has(todo[TM], Cleanup)
      /\ \A q : Has(todo'[IO], Send(Driver, q)) <=> Has(todo[IO], Send(Driver, q))
  BY <1>1, <1>2, <1>3, <1>7, TailView, Distinct DEF i
<1>9. /\ \A s \in Servers \ {IO} : Awaits(s)' <=> Awaits(s)
      /\ Awaits(IO)'
      /\ \A u \in Thread \ {IO} : todo'[u] = todo[u]
  BY <1>1, <1>2, <1>3, <1>7, TailView DEF i
<1>10. /\ \A s \in Servers \ {TM} : mail'[s] = mail[s]
       /\ mail'[TM] = <<StartDriver>>
       /\ \A s \in Servers : s \in Thread
  BY <1>1, <1>7, LocksAssumption DEF Typed, Servers
<1>11. /\ \A c \in Thread : Gone(c)' <=> Gone(c)
       /\ \A c \in Thread \ {TM} : Asleep(c)' <=> Asleep(c)
       /\ ~Asleep(IO) /\ ~Asleep(IO)' /\ ~Gone(IO)
       /\ \A s \in Servers \ {TM, IO} : Busy(s)' <=> Busy(s)
       /\ DriverUp' <=> DriverUp
  BY <1>1, <1>3, <1>7, <1>8, <1>9, <1>10, Distinct
     DEF Kept, Gone, Asleep, SchedSound, Blocked, Absent, Busy, DriverUp
<1>12. MmOwes' <=> MmOwes
  BY <1>3, <1>8, <1>9, <1>10, Distinct DEF MmOwes, Servers
<1>13. Life'
  BY <1>1, <1>3, <1>8, <1>9, <1>10, <1>11, TypedHas, Distinct DEF Life, FirstProgram
<1>14. Sleepers'
  BY <1>1, <1>7, <1>8, <1>9, <1>11, Distinct DEF Sleepers, Servers, Busy
<1>15. TmCalls'
  BY <1>1, <1>3, <1>7, <1>9, <1>12, Distinct DEF TmCalls
<1>16. IoCalls'
  BY <1>3, <1>5, <1>7, <1>8, <1>9, <1>10, Distinct DEF IoCalls, TmOwes
<1>17. DriverStart'
  BY <1>3, <1>5, <1>7, <1>8, <1>9, <1>11, Distinct DEF DriverStart, TmOwes
<1>18. Single'
  BY <1>1, <1>5, <1>9, <1>10, Distinct DEF Single, Servers, Boot
<1>19. Boot'
  BY <1>1, <1>3, <1>5, <1>8, <1>9, <1>10, <1>11, <1>12, Distinct DEF Boot, Servers, Busy
<1>20. Turn'
  BY <1>5, <1>11, Distinct DEF Turn
<1>21. UsersLate'
  BY <1>1, <1>5, <1>9, Distinct DEF UsersLate, Boot
<1> QED BY <1>6, <1>13, <1>14, <1>15, <1>16, <1>17, <1>18, <1>19, <1>20, <1>21 DEF Orderly

\* The I/O thread forwards a close.
LEMMA CloseStep ==
    ASSUME IndInv, SendStep(IO), NEW r \in DriverRequest,
           Head(todo[IO]) = Send(Driver, r)
    PROVE  Orderly' /\ mail[Driver] = << >>
<1>1. /\ Typed /\ Programs /\ SchedSound(sched)
      /\ Life /\ Sleepers /\ TmCalls /\ IoCalls /\ DriverStart
      /\ Single /\ Boot /\ Turn /\ UsersLate
  BY DEF IndInv, Orderly
<1> DEFINE i == Send(Driver, r)
<1>2. /\ i \notin Calls /\ i # Cleanup /\ i # Await /\ i # Send(TM, StartDriver)
      /\ \A c : i # Change("insert", c) /\ i # Change("setready", c) /\ i # Reply(c)
      /\ \A j : ~Follows(i, j)
  BY Kinds, KindsOfInstr, Distinct DEF Calls, Follows
<1> HIDE DEF i
<1>3. /\ IO \in Servers /\ TM \in Servers /\ MM \in Servers /\ Driver \in Servers
      /\ sched.running = IO /\ todo[IO] # << >>
  BY DEF SendStep, IsAt, Servers
<1>4. Has(todo[IO], i) /\ ~Awaits(IO) /\ Busy(IO)
  <2>1. todo[IO] \in Seq(InstrOf(IO))
    BY <1>1, Distinct DEF Typed, Sound
  <2>2. Has(todo[IO], Head(todo[IO]))
    BY <1>3, <2>1, TailHas
  <2> QED BY <1>2, <1>3, <2>2 DEF Awaits, Busy, i
<1>5. DriverUp /\ ~TmOwes /\ IO \notin answered
  BY <1>1, <1>4 DEF IoCalls, Boot, i
<1>6. ~Busy(TM) /\ ~Busy(MM) /\ ~Busy(Driver)
  <2>1. OneWorks
    BY <1>1, <1>4, <1>5 DEF Turn, TmWorks, DriverUp
  <2> QED BY <1>3, <1>4, <2>1, Distinct DEF OneWorks
<1>7. mail[Driver] = << >> /\ todo[Driver] = << >> /\ mail[IO] = << >>
  BY <1>1, <1>3, <1>6 DEF Busy, Single
<1>8. /\ todo' = [todo EXCEPT ![IO] = Tail(@)]
      /\ mail' = [mail EXCEPT ![Driver] = <<r>>]
      /\ answered' = answered
      /\ Kept(sched', sched, {Driver})
      /\ Gone(Driver)' <=> Gone(Driver)
      /\ ~Asleep(Driver)'
  BY <1>7, SendEffect, Distinct
<1>9. /\ \A c : (ToInsert(c)' <=> ToInsert(c)) /\ (ToWake(c)' <=> ToWake(c))
      /\ ToAsk' <=> ToAsk
      /\ \A s \in Servers : \A c : Has(todo'[s], Reply(c)) <=> Has(todo[s], Reply(c))
  BY <1>1, <1>2, <1>3, <1>8, TailView, Distinct DEF i
<1>10. /\ \A s \in Servers \ {IO} : Awaits(s)' <=> Awaits(s)
       /\ ~Awaits(IO)'
       /\ \A u \in Thread \ {IO} : todo'[u] = todo[u]
       /\ \A j : ~Has(todo'[IO], j)
  <2>1. Head(todo[IO]) = i
    BY DEF i
  <2>2. \A j : Has(todo'[IO], j) => Follows(i, j)
    BY <1>1, <1>3, <1>8, <2>1, TailView
  <2> QED BY <1>1, <1>2, <1>3, <1>8, <2>1, <2>2, TailView
<1>11. todo'[IO] = << >>
  <2>1. todo'[IO] \in Seq(InstrOf(IO))
    BY <1>1, <1>3, <1>8, TailStep, Distinct DEF Sound
  <2> QED BY <1>10, <2>1, NoneLeft
<1>12. /\ \A s \in Servers \ {Driver} : mail'[s] = mail[s]
       /\ mail'[Driver] = <<r>>
       /\ \A s \in Servers : s \in Thread
  BY <1>1, <1>8, LocksAssumption DEF Typed, Servers
<1>13. /\ \A c \in Thread : Gone(c)' <=> Gone(c)
       /\ \A c \in Thread \ {Driver} : Asleep(c)' <=> Asleep(c)
       /\ ~Asleep(IO) /\ ~Asleep(IO)' /\ ~Gone(IO)
       /\ \A s \in Servers \ {Driver} : ~Busy(s)'
       /\ DriverUp'
  BY <1>1, <1>3, <1>5, <1>6, <1>7, <1>8, <1>9, <1>10, <1>11, <1>12, Distinct
     DEF Kept, Gone, Asleep, SchedSound, Blocked, Absent, Busy, DriverUp, Servers
<1>14. ~MmOwes' /\ ~MmOwes
  <2>1. \A x : <<x>> # << >>
    OBVIOUS
  <2>2. \A x : ~Has(<< >>, x)
    BY DEF Has
  <2> QED BY <2>1, <2>2, <1>3, <1>6, <1>10, <1>12, Distinct DEF MmOwes, Busy
<1>15. Life'
  BY <1>1, <1>3, <1>5, <1>9, <1>10, <1>11, <1>12, <1>13, TypedHas, Distinct
     DEF Life, FirstProgram, DriverUp
<1>16. Sleepers'
  BY <1>1, <1>8, <1>9, <1>10, <1>13, Distinct DEF Sleepers, Servers
<1>17. TmCalls'
  BY <1>1, <1>3, <1>8, <1>10, <1>14, Distinct DEF TmCalls
<1>18. IoCalls'
  BY <1>3, <1>5, <1>8, <1>9, <1>10, <1>12, Distinct DEF IoCalls, TmOwes
<1>19. DriverStart'
  BY <1>1, <1>3, <1>5, <1>8, <1>9, <1>10, <1>12, <1>13, Distinct DEF DriverStart, DriverUp
<1>20. Single'
  BY <1>1, <1>7, <1>10, <1>11, <1>12, Distinct DEF Single, Servers
<1>21. Boot'
  BY <1>13 DEF Boot
<1>22. Turn'
  BY <1>13 DEF Turn, OneWorks
<1>23. UsersLate'
  BY <1>1, <1>3, <1>9, <1>10, <1>13, Distinct DEF UsersLate
<1> QED BY <1>7, <1>15, <1>16, <1>17, <1>18, <1>19, <1>20, <1>21, <1>22, <1>23 DEF Orderly

-----------------------------------------------------------------------------
(* User threads *)

\* A user thread runs only when the servers have nothing left to do.
LEMMA Rest ==
    ASSUME IndInv, sched.running \in Users
    PROVE  /\ \A s \in Servers : ~Busy(s) /\ Asleep(s)
           /\ \A l \in LockName : owner[l] = NULL
           /\ DriverUp /\ ~MmOwes /\ ~TmOwes
           /\ \A c : ~ToInsert(c) /\ ~ToWake(c)
<1>1. /\ Typed /\ Locked /\ SchedSound(sched)
      /\ Life /\ Sleepers /\ TmCalls /\ IoCalls /\ DriverStart
  BY DEF IndInv, Orderly
<1>2. /\ TM \in Servers /\ MM \in Servers /\ IO \in Servers /\ Driver \in Servers
      /\ \A s \in Servers : s \in Thread /\ s \notin Users
  BY Distinct DEF Servers
<1>3. \A x : ~Has(<< >>, x) /\ <<x>> # << >>
  BY DEF Has
<1>4. ASSUME NEW s \in Servers PROVE Asleep(s) \/ Gone(s)
  <2>1. sched.status[s] # "READY"
    <3>1. PriorityOf[sched.running] = 1 /\ PriorityOf[s] = 0
      BY Levels
    <3> QED BY <1>1, <1>2, <3>1 DEF SchedSound
  <2>2. sched.status[s] # "RUNNING" /\ sched.status[s] \in SchedStatus
    BY <1>1, <1>2 DEF SchedSound, Scheduler
  <2> QED BY <2>1, <2>2 DEF SchedStatus, Asleep, Gone, Blocked, Absent
<1>5. ~Busy(MM) /\ Asleep(MM) /\ ~MmOwes
  <2>1. Asleep(MM) /\ ~Busy(MM)
    BY <1>1, <1>2, <1>4 DEF Life, Sleepers
  <2> QED BY <1>3, <2>1 DEF MmOwes, Busy
<1>6. ~Busy(TM) /\ Asleep(TM) /\ ~TmOwes
  <2>1. Asleep(TM) /\ ~Busy(TM)
    BY <1>1, <1>2, <1>4, <1>5 DEF Life, Sleepers, TmCalls
  <2> QED BY <1>3, <2>1 DEF TmOwes, Busy
<1>7. \A c : ~ToInsert(c) /\ ~ToWake(c)
  BY <1>3, <1>6 DEF ToInsert, ToWake, Busy
<1>8. ~Busy(IO) /\ Asleep(IO)
  BY <1>1, <1>2, <1>4, <1>6, <1>7 DEF Life, Sleepers, IoCalls
<1>9. ~Gone(Driver)
  BY <1>1, <1>3, <1>4, <1>7, <1>8 DEF DriverStart, Awaits, Busy, ToAsk, Life
<1>10. ~Busy(Driver) /\ Asleep(Driver)
  BY <1>1, <1>2, <1>4, <1>9 DEF Sleepers
<1>11. \A s \in Servers : ~Busy(s) /\ Asleep(s)
  BY <1>5, <1>6, <1>8, <1>10 DEF Servers
<1>12. \A l \in LockName : owner[l] = NULL
  <2>1. \A l \in LockName, s \in Servers : owner[l] # s
    <3>1. \A l : ~Releases(<< >>, l)
      <4>1. Len(<< >>) = 0
        OBVIOUS
      <4> QED BY <4>1 DEF Releases
    <3> QED BY <1>1, <1>11, <3>1 DEF Locked, Busy
  <2> QED BY <1>1, <2>1 DEF Typed
<1> QED BY <1>5, <1>6, <1>7, <1>9, <1>11, <1>12 DEF DriverUp

\* What a user thread asks for.
LEMMA UserAsks ==
    ASSUME NEW u \in Users, NEW p \in UserPrograms(u)
    PROVE  p \in Sound(u)
<1>1. \E s \in Servers : \E r \in RequestOf(s) : r.from = u /\ p = Call(s, r)
  <2>1. /\ RequestOf(TM) = TmRequest /\ RequestOf(MM) = MmRequest
        /\ RequestOf(IO) = IoRequest /\ RequestOf(Driver) = DriverRequest
    BY Distinct DEF RequestOf
  <2>2. TM \in Servers /\ MM \in Servers /\ IO \in Servers /\ Driver \in Servers
    BY DEF Servers
  <2>3. CASE p \in {Call(TM, Request("TM_KILL", u, v)) :
                       v \in {w \in Users : sched.status[w] # "ABSENT"}}
    <3>1. PICK v \in Users : p = Call(TM, Request("TM_KILL", u, v))
      BY <2>3
    <3>2. Request("TM_KILL", u, v) \in RequestOf(TM)
      BY <2>1 DEF TmRequest
    <3> QED BY <2>2, <3>1, <3>2, Kinds
  <2>4. CASE p \in {Call(TM, Request("TM_START", u, NULL)),
                    Call(TM, Request("TM_EXIT", u, NULL))}
    <3>1. /\ Request("TM_START", u, NULL) \in RequestOf(TM)
          /\ Request("TM_EXIT", u, NULL) \in RequestOf(TM)
      BY <2>1 DEF TmRequest
    <3> QED BY <2>2, <2>4, <3>1, Kinds
  <2>5. CASE p = Call(MM, Request("VM_ALLOC", u, NULL))
    <3>1. Request("VM_ALLOC", u, NULL) \in RequestOf(MM)
      BY <2>1 DEF MmRequest
    <3> QED BY <2>2, <2>5, <3>1, Kinds
  <2>6. CASE p \in {Call(IO, Request("IO_OPEN", u, NULL)),
                    Call(IO, Request("IO_CLOSE", u, NULL))}
    <3>1. /\ Request("IO_OPEN", u, NULL) \in RequestOf(IO)
          /\ Request("IO_CLOSE", u, NULL) \in RequestOf(IO)
      BY <2>1 DEF IoRequest
    <3> QED BY <2>2, <2>6, <3>1, Kinds
  <2>7. CASE p \in {Call(Driver, Request("IO_INIT", u, NULL)),
                    Call(Driver, Request("IO_READ", u, NULL))}
    <3>1. /\ Request("IO_INIT", u, NULL) \in RequestOf(Driver)
          /\ Request("IO_READ", u, NULL) \in RequestOf(Driver)
      BY <2>1 DEF DriverRequest
    <3> QED BY <2>2, <2>7, <3>1, Kinds
  <2> QED BY <2>3, <2>4, <2>5, <2>6, <2>7 DEF UserPrograms
<1>2. PICK s \in Servers : \E r \in RequestOf(s) : r.from = u /\ p = Call(s, r)
  BY <1>1
<1>3. PICK r \in RequestOf(s) : r.from = u /\ p = Call(s, r)
  BY <1>2
<1>4. Send(s, r) \in UserInstr(u) /\ Await \in UserInstr(u)
  BY <1>3 DEF UserInstr
<1>5. InstrOf(u) = UserInstr(u)
  BY ServerInstructions
<1> QED BY <1>3, <1>4, <1>5, CallSound

\* The programs of user threads matter only while the driver is not there.
LEMMA UsersMove ==
    ASSUME IndInv, sched.running \in Users,
           \A s \in Servers : todo'[s] = todo[s] /\ mail'[s] = mail[s],
           \A u \in Users : todo'[u] # << >> => u = sched.running \/ todo[u] # << >>,
           todo'[Idle] = todo[Idle],
           \A s \in Servers : s \in answered' <=> s \in answered,
           NEW T, T \subseteq Users, Kept(sched', sched, T),
           \A u \in T : ~Gone(u) /\ ~Gone(u)'
    PROVE  Orderly'
<1>1. /\ Typed /\ SchedSound(sched)
      /\ Life /\ Sleepers /\ TmCalls /\ IoCalls /\ DriverStart
      /\ Single /\ Boot /\ Turn /\ UsersLate
  BY DEF IndInv, Orderly
<1>2. /\ \A s \in Servers : ~Busy(s)
      /\ DriverUp /\ ~MmOwes /\ ~TmOwes
      /\ \A c : ~ToInsert(c) /\ ~ToWake(c)
  BY Rest
<1>3. /\ TM \in Servers /\ MM \in Servers /\ IO \in Servers /\ Driver \in Servers
      /\ \A s \in Servers : s \in Thread /\ s \notin T
      /\ Idle \notin T
  BY Distinct DEF Servers
<1>4. /\ \A c \in Thread : Gone(c)' <=> Gone(c)
      /\ \A c \in Thread \ T : Asleep(c)' <=> Asleep(c)
  BY DEF Kept, Gone, Asleep
<1>5. /\ \A s \in Servers : (Busy(s)' <=> Busy(s)) /\ (Awaits(s)' <=> Awaits(s))
      /\ \A c : (ToInsert(c)' <=> ToInsert(c)) /\ (ToWake(c)' <=> ToWake(c))
      /\ ToAsk' <=> ToAsk
      /\ MmOwes' <=> MmOwes
      /\ TmOwes' <=> TmOwes
  BY <1>3 DEF Busy, Awaits, ToInsert, ToWake, ToAsk, MmOwes, TmOwes
<1>6. DriverUp' /\ Gone(sched.running) # TRUE
  BY <1>1, <1>2, <1>3, <1>4, <1>5, Distinct DEF DriverUp, Gone, Absent, SchedSound
<1>7. Life'
  <2>1. ASSUME NEW c \in Thread, Gone(c)
        PROVE  todo'[c] = << >> /\ (c \in Servers => mail'[c] = << >>)
    BY <1>1, <1>6, <2>1, LocksAssumption DEF Life
  <2> QED BY <1>1, <1>2, <1>3, <1>4, <1>5, <2>1, Distinct DEF Life
<1>8. Sleepers'
  BY <1>1, <1>3, <1>4, <1>5 DEF Sleepers
<1>9. TmCalls' /\ IoCalls'
  BY <1>1, <1>3, <1>5 DEF TmCalls, IoCalls
<1>10. DriverStart'
  BY <1>1, <1>2, <1>3, <1>4, <1>5 DEF DriverStart
<1>11. Single'
  BY <1>1, <1>3 DEF Single
<1>12. Boot'
  BY <1>6 DEF Boot
<1>13. Turn'
  BY <1>2, <1>3, <1>5 DEF Turn, OneWorks
<1>14. UsersLate'
  <2>1. ~Gone(IO)
    BY <1>1, <1>2 DEF Life
  <2> QED BY <1>2, <1>3, <1>4, <1>5, <1>6, <2>1 DEF UsersLate
<1> QED BY <1>7, <1>8, <1>9, <1>10, <1>11, <1>12, <1>13, <1>14 DEF Orderly

\* A user's request: the server that gets it is the only one with work.
LEMMA UserSendStep ==
    ASSUME IndInv, NEW u \in Users, SendStep(u), NEW s \in Servers,
           NEW r \in RequestOf(s), r.from = u, Head(todo[u]) = Send(s, r)
    PROVE  Orderly' /\ mail[s] = << >>
<1>1. /\ Typed /\ Programs /\ SchedSound(sched)
      /\ Life /\ Sleepers /\ TmCalls /\ IoCalls /\ DriverStart
      /\ Single /\ Boot /\ Turn /\ UsersLate
  BY DEF IndInv, Orderly
<1>2. sched.running = u /\ u \in Thread
  BY Distinct DEF SendStep, IsAt
<1>3. /\ \A x \in Servers : ~Busy(x)
      /\ DriverUp /\ ~MmOwes /\ ~TmOwes
      /\ \A c : ~ToInsert(c) /\ ~ToWake(c)
  BY <1>2, Rest
<1>4. \A x \in Servers : mail[x] = << >> /\ todo[x] = << >>
  BY <1>3 DEF Busy
<1>5. /\ todo' = [todo EXCEPT ![u] = Tail(@)]
      /\ mail' = [mail EXCEPT ![s] = <<r>>]
      /\ answered' = answered
      /\ Kept(sched', sched, {s})
      /\ Gone(s)' <=> Gone(s)
      /\ ~Asleep(s)'
  BY <1>2, <1>4, SendEffect
<1>6. /\ \A x \in Thread \ {u} : todo'[x] = todo[x]
      /\ \A x \in Servers : x \in Thread \ {u}
  BY <1>1, <1>2, <1>5, Distinct DEF Typed, Servers
<1>7. /\ \A x \in Servers \ {s} : mail'[x] = mail[x]
      /\ mail'[s] = <<r>>
  BY <1>1, <1>5 DEF Typed
<1>8. /\ \A c \in Thread : Gone(c)' <=> Gone(c)
      /\ \A c \in Thread \ {s} : Asleep(c)' <=> Asleep(c)
      /\ \A x \in Servers \ {s} : ~Busy(x)'
      /\ \A c : ~ToInsert(c)' /\ ~ToWake(c)'
      /\ ToAsk' <=> ToAsk
      /\ ~Gone(u) /\ u # s
  BY <1>1, <1>2, <1>3, <1>5, <1>6, <1>7, Distinct
     DEF Kept, Gone, Asleep, SchedSound, Absent, Busy, ToInsert, ToWake, ToAsk, Servers
<1>9. \A x \in Servers : ~Awaits(x)' /\ ~Awaits(x)
  BY <1>4, <1>6 DEF Awaits
<1>10. ~MmOwes' /\ ~TmOwes' /\ mail'[TM] # <<StartDriver>>
  <2>1. r \notin FromTm /\ r # StartDriver
    BY Kinds, Distinct DEF FromTm, StartDriver
  <2>2. \A x : ~Has(<< >>, x) /\ <<x>> # << >>
    BY DEF Has
  <2>3. \A x \in Servers : mail'[x] = << >> \/ mail'[x] = <<r>>
    BY <1>4, <1>7
  <2>4. \A x, y : <<x>> = <<y>> => x = y
    OBVIOUS
  <2>5. mail'[TM] # <<StartDriver>> /\ \A q \in FromTm : mail'[MM] # <<q>>
    BY <2>1, <2>2, <2>3, <2>4 DEF Servers
  <2> QED BY <1>4, <1>6, <2>2, <2>5 DEF MmOwes, TmOwes, Servers
<1>11. DriverUp'
  BY <1>3, <1>8, Distinct DEF DriverUp
<1>12. ~Gone(IO) /\ ~Gone(Driver) /\ ~Gone(TM) /\ ~Gone(MM) /\ ~Gone(Idle) /\ ~Asleep(Idle)
  BY <1>1, <1>3 DEF Life, DriverUp
<1>13. Life'
  BY <1>1, <1>3, <1>4, <1>6, <1>7, <1>8, <1>12, Distinct DEF Life, Servers
<1>14. Sleepers'
  BY <1>5, <1>8, Distinct DEF Sleepers, Servers
<1>15. TmCalls' /\ IoCalls'
  BY <1>1, <1>3, <1>5, <1>9, <1>10, Distinct DEF TmCalls, IoCalls, Servers
<1>16. DriverStart'
  BY <1>1, <1>8, <1>10, <1>12, Distinct DEF DriverStart
<1>17. Single'
  BY <1>4, <1>6 DEF Single, Servers
<1>18. Boot'
  BY <1>11 DEF Boot
<1>19. Turn'
  <2>1. CASE s = TM
    BY <1>4, <1>6, <1>8, <2>1, Distinct DEF Turn, TmWorks, Servers
  <2>2. CASE s # TM
    BY <1>8, <2>2 DEF Turn, OneWorks, Servers
  <2> QED BY <2>1, <2>2
<1>20. UsersLate'
  BY <1>8, <1>11, <1>12, Distinct DEF UsersLate
<1> QED BY <1>4, <1>13, <1>14, <1>15, <1>16, <1>17, <1>18, <1>19, <1>20 DEF Orderly

-----------------------------------------------------------------------------
(* Answering *)

LEMMA WhoReplies ==
    ASSUME NEW t \in Thread, NEW i \in InstrOf(t), i.do = "reply"
    PROVE  /\ t \in Servers /\ i = Reply(i.on)
           /\ \/ i.on \in Users
              \/ t = TM /\ i.on = IO
              \/ t = MM /\ i.on = TM
<1>1. t \notin Users /\ t # Idle
  BY ServerInstructions, Kinds DEF UserInstr
<1>2. t \in Servers
  BY <1>1, LocksAssumption
<1>3. CASE t = TM
  <2>1. i \in {Reply(c) : c \in Users \cup {IO}}
    BY <1>3, ServerInstructions, Kinds, KindsOfInstr DEF TmInstr
  <2> QED BY <1>2, <1>3, <2>1, Kinds
<1>4. CASE t = MM
  <2>1. i \in {Reply(c) : c \in Users \cup {TM}}
    BY <1>4, ServerInstructions, Kinds DEF MmInstr, HeapInstr
  <2> QED BY <1>2, <1>4, <2>1, Kinds
<1>5. CASE t \in {IO, Driver}
  <2>1. i \in {Reply(c) : c \in Users}
    BY <1>5, ServerInstructions, Kinds DEF IoInstr, DriverInstr, HeapInstr
  <2> QED BY <1>2, <2>1, Kinds
<1> QED BY <1>2, <1>3, <1>4, <1>5 DEF Servers

\* An answer is the end of a program.  It wakes the thread that awaits it.
LEMMA ReplyEffect ==
    ASSUME IndInv, NEW t \in Thread, ReplyStep(t), NEW u, Head(todo[t]) = Reply(u)
    PROVE  /\ t \in Servers /\ sched.running = t /\ todo[t] = <<Reply(u)>>
           /\ u \in Users \/ (t = TM /\ u = IO) \/ (t = MM /\ u = TM)
           /\ todo' = [todo EXCEPT ![t] = Tail(@)] /\ todo'[t] = << >>
           /\ \A x \in Thread \ {t} : todo'[x] = todo[x]
           /\ UNCHANGED <<owner, mail>>
           /\ \A c \in Thread \ {u} : c \in answered' <=> c \in answered
           /\ answered' \subseteq Thread
           /\ ~Gone(u) => u \in answered'
           /\ Kept(sched', sched, {u})
           /\ Gone(u)' <=> Gone(u)
           /\ Asleep(u)' <=> Asleep(u) /\ todo[u] = << >>
           /\ \A l \in TmLock : owner[l] = NULL
<1> DEFINE wakes == sched.status[u] = "BLOCKED" /\ todo[u] # << >>
<1>1. /\ Typed /\ Locked /\ Programs /\ SchedSound(sched)
  BY DEF IndInv
<1>2. Head(todo[t]).do = "reply" /\ Head(todo[t]).on = u
  BY Kinds
<1>3. /\ sched.running = t /\ todo[t] # << >>
      /\ todo' = [todo EXCEPT ![t] = Tail(@)]
      /\ UNCHANGED <<owner, mail>>
      /\ Gone(u) => UNCHANGED <<sched, answered>>
      /\ ~Gone(u) =>
            /\ answered' = answered \cup {u}
            /\ sched' = TrySchedule(IF wakes THEN schedulerSetReady(sched, u) ELSE sched)
  BY <1>2 DEF ReplyStep, IsAt, Gone, Absent
<1>4. /\ Head(todo[t]) \in InstrOf(t) /\ todo'[t] = Tail(todo[t])
      /\ todo[t] \in Seq(InstrOf(t))
      /\ \A x \in Thread \ {t} : todo'[x] = todo[x]
  BY <1>1, <1>3, TailStep
<1>5. /\ t \in Servers
      /\ u \in Users \/ (t = TM /\ u = IO) \/ (t = MM /\ u = TM)
  BY <1>2, <1>4, WhoReplies
<1>6. todo[t] = <<Reply(u)>> /\ todo'[t] = << >>
  <2>0. \A j : Has(todo'[t], j) => Follows(Head(todo[t]), j)
    BY <1>1, <1>3, <1>5, TailView
  <2>1. \A j : Has(Tail(todo[t]), j) => Follows(Head(todo[t]), j)
    BY <1>4, <2>0
  <2>2. \A j : ~Has(Tail(todo[t]), j)
    BY <1>2, <2>1 DEF Follows
  <2>3. Tail(todo[t]) = << >> /\ todo[t] = <<Head(todo[t])>>
    BY <1>3, <1>4, <2>2, LastOne
  <2> QED BY <1>4, <2>3
<1>7. /\ \A l \in TmLock : owner[l] = NULL
      /\ \A x : TrySchedule(x) = schedule(x)
  BY <1>1, <1>2, <1>3, HandlerSchedules DEF SystemCall
<1>8. wakes \in BOOLEAN /\ u \in Thread /\ (wakes => Blocked(sched, u))
  BY <1>5, Distinct DEF Blocked
<1>9. (Asleep(u) /\ ~wakes) <=> (Asleep(u) /\ todo[u] = << >>)
  BY DEF Asleep, Blocked
<1> HIDE DEF wakes
<1>10. /\ Kept(sched', sched, {u})
       /\ Absent(sched', u) <=> Absent(sched, u)
       /\ Blocked(sched', u) <=> Blocked(sched, u) /\ ~wakes
  <2>1. CASE Gone(u)
    <3>1. sched' = sched /\ ~Blocked(sched, u)
      BY <1>3, <2>1 DEF Gone, Absent, Blocked
    <3> QED BY <1>1, <3>1 DEF Kept
  <2>2. CASE ~Gone(u)
    <3>1. sched' = schedule(IF wakes THEN schedulerSetReady(sched, u) ELSE sched)
      BY <1>3, <1>7, <2>2
    <3> QED BY <1>1, <1>8, <3>1, WakeKeeps
  <2> QED BY <2>1, <2>2
<1>11. /\ \A c \in Thread \ {u} : c \in answered' <=> c \in answered
       /\ answered' \subseteq Thread
       /\ ~Gone(u) => u \in answered'
  BY <1>1, <1>3, <1>8 DEF Typed
<1> QED BY <1>3, <1>4, <1>5, <1>6, <1>7, <1>9, <1>10, <1>11 DEF Gone, Asleep

\* What the invariant sees of an answer.
LEMMA ReplyView ==
    ASSUME IndInv, NEW t \in Thread, ReplyStep(t), NEW u, Head(todo[t]) = Reply(u)
    PROVE  /\ \A c : (ToInsert(c)' <=> ToInsert(c)) /\ (ToWake(c)' <=> ToWake(c))
           /\ ToAsk' <=> ToAsk
           /\ \A s \in Servers : \A c :
                 Has(todo'[s], Reply(c)) <=> Has(todo[s], Reply(c)) /\ ~(s = t /\ u = c)
           /\ Has(todo'[TM], Cleanup) <=> Has(todo[TM], Cleanup)
           /\ \A q : Has(todo'[IO], Send(Driver, q)) <=> Has(todo[IO], Send(Driver, q))
           /\ \A s \in Servers : Awaits(s)' <=> Awaits(s)
           /\ ~Awaits(t)
           /\ \A s \in Servers : mail'[s] = mail[s] /\ s \in Thread
           /\ \A s \in Servers : Busy(s)' => Busy(s)
           /\ Busy(t)
           /\ \A x \in Thread : todo'[x] # << >> => todo[x] # << >>
           /\ \A c \in Thread : Gone(c)' <=> Gone(c)
           /\ \A c \in Thread \ {u} : Asleep(c)' <=> Asleep(c)
           /\ ~Asleep(t) /\ ~Gone(t)
           /\ DriverUp' <=> DriverUp
<1>1. /\ Typed /\ Programs /\ SchedSound(sched) /\ Life
  BY DEF IndInv, Orderly
<1>2. /\ t \in Servers /\ sched.running = t /\ todo[t] = <<Reply(u)>>
      /\ todo' = [todo EXCEPT ![t] = Tail(@)] /\ todo'[t] = << >>
      /\ \A x \in Thread \ {t} : todo'[x] = todo[x]
      /\ UNCHANGED <<owner, mail>>
      /\ Kept(sched', sched, {u})
      /\ Gone(u)' <=> Gone(u)
  BY ReplyEffect
<1> PICK i : i = Head(todo[t])
  OBVIOUS
<1>3. /\ i = Reply(u) /\ i \notin Calls /\ i # Await /\ i # Cleanup
      /\ \A c : i # Change("insert", c) /\ i # Change("setready", c)
      /\ \A c : i = Reply(c) <=> u = c
      /\ i # Send(TM, StartDriver) /\ \A q : i # Send(Driver, q)
  BY Kinds, KindsOfInstr DEF Calls
<1>4. todo[t] # << >>
  BY <1>2
<1>5. /\ \A c : (ToInsert(c)' <=> ToInsert(c)) /\ (ToWake(c)' <=> ToWake(c))
      /\ ToAsk' <=> ToAsk
      /\ Has(todo'[TM], Cleanup) <=> Has(todo[TM], Cleanup)
      /\ \A q : Has(todo'[IO], Send(Driver, q)) <=> Has(todo[IO], Send(Driver, q))
  <2>1. \A c : (ToInsert(c)' <=> ToInsert(c)) /\ (ToWake(c)' <=> ToWake(c))
    BY <1>1, <1>2, <1>3, <1>4, TailView
  <2>2. ToAsk' <=> ToAsk
    BY <1>1, <1>2, <1>3, <1>4, TailView
  <2>3. Has(todo'[TM], Cleanup) <=> Has(todo[TM], Cleanup)
    BY <1>1, <1>2, <1>3, <1>4, TailView
  <2>4. \A q : Has(todo'[IO], Send(Driver, q)) <=> Has(todo[IO], Send(Driver, q))
    BY <1>1, <1>2, <1>3, <1>4, TailView
  <2> QED BY <2>1, <2>2, <2>3, <2>4
<1>6. /\ \A s \in Servers : \A c :
            Has(todo'[s], Reply(c)) <=> Has(todo[s], Reply(c)) /\ ~(s = t /\ u = c)
  BY <1>1, <1>2, <1>3, <1>4, TailView
<1>7. /\ \A s \in Servers : Awaits(s)' <=> Awaits(s)
      /\ ~Awaits(t)
      /\ \A x \in Thread : todo'[x] # << >> => todo[x] # << >>
  BY <1>1, <1>2, <1>3, <1>4, TailView
<1>8. \A s \in Servers : mail'[s] = mail[s] /\ s \in Thread
  BY <1>2, LocksAssumption
<1>9. (\A s \in Servers : Busy(s)' => Busy(s)) /\ Busy(t)
  BY <1>4, <1>7, <1>8 DEF Busy
<1>10. /\ \A c \in Thread : Gone(c)' <=> Gone(c)
       /\ \A c \in Thread \ {u} : Asleep(c)' <=> Asleep(c)
       /\ ~Asleep(t) /\ ~Gone(t)
  BY <1>1, <1>2 DEF Kept, Gone, Asleep, SchedSound, Blocked, Absent
<1>11. DriverUp' <=> DriverUp
  BY <1>5, <1>10, Distinct DEF DriverUp
<1> QED BY <1>5, <1>6, <1>7, <1>8, <1>9, <1>10, <1>11

\* A user gets its answer.
LEMMA UserReplyStep ==
    ASSUME IndInv, NEW t \in Thread, ReplyStep(t), NEW u \in Users,
           Head(todo[t]) = Reply(u)
    PROVE  Orderly'
<1>1. /\ Typed /\ Programs /\ SchedSound(sched)
      /\ Life /\ Sleepers /\ TmCalls /\ IoCalls /\ DriverStart
      /\ Single /\ Boot /\ Turn /\ UsersLate
  BY DEF IndInv, Orderly
<1>2. /\ t \in Servers /\ todo[t] = <<Reply(u)>> /\ todo'[t] = << >>
      /\ \A x \in Thread \ {t} : todo'[x] = todo[x]
      /\ \A c \in Thread \ {u} : c \in answered' <=> c \in answered
      /\ Asleep(u)' <=> Asleep(u) /\ todo[u] = << >>
  BY ReplyEffect
<1>3. /\ \A c : (ToInsert(c)' <=> ToInsert(c)) /\ (ToWake(c)' <=> ToWake(c))
      /\ ToAsk' <=> ToAsk
      /\ Has(todo'[TM], Cleanup) <=> Has(todo[TM], Cleanup)
      /\ \A q : Has(todo'[IO], Send(Driver, q)) <=> Has(todo[IO], Send(Driver, q))
  BY ReplyView
<1>4. /\ \A s \in Servers : \A c :
            Has(todo'[s], Reply(c)) <=> Has(todo[s], Reply(c)) /\ ~(s = t /\ u = c)
      /\ \A s \in Servers : Awaits(s)' <=> Awaits(s)
      /\ ~Awaits(t)
  BY ReplyView
<1>5. /\ \A s \in Servers : mail'[s] = mail[s] /\ s \in Thread
      /\ \A s \in Servers : Busy(s)' => Busy(s)
      /\ Busy(t)
      /\ \A x \in Thread : todo'[x] # << >> => todo[x] # << >>
  BY ReplyView
<1>6. /\ \A c \in Thread : Gone(c)' <=> Gone(c)
      /\ \A c \in Thread \ {u} : Asleep(c)' <=> Asleep(c)
      /\ ~Asleep(t) /\ ~Gone(t)
      /\ DriverUp' <=> DriverUp
  BY ReplyView
<1>7. \A j : Has(todo[t], j) <=> j = Reply(u)
  <2>1. Len(todo[t]) = 1 /\ todo[t][1] = Reply(u)
    BY <1>2
  <2> HIDE DEF IndInv
  <2>2. \A k : k \in 1 .. Len(todo[t]) <=> k = 1
    BY <2>1
  <2> QED BY <2>1, <2>2 DEF Has
<1>8. \A s \in Servers : Reply(s) # Reply(u)
  BY Kinds, Distinct DEF Servers
<1>9. TM \in Servers /\ MM \in Servers /\ IO \in Servers /\ Driver \in Servers
  BY DEF Servers
<1>10. t = MM => ~MmOwes /\ ~MmOwes' /\ mail[MM] = << >> /\ ~Busy(MM)'
  <2>1. ASSUME t = MM
        PROVE  /\ mail[MM] = << >> /\ ~Has(todo[MM], Reply(TM)) /\ ~Has(todo'[MM], Reply(TM))
               /\ mail'[MM] = << >> /\ todo[MM] # << >> /\ todo'[MM] = << >>
    BY <1>1, <1>2, <1>4, <1>5, <1>7, <1>8, <1>9, <2>1 DEF Single
  <2>2. \A x : <<x>> # << >>
    OBVIOUS
  <2> QED BY <2>1, <2>2 DEF MmOwes, Busy
<1>11. MmOwes' <=> MmOwes
  <2>1. ASSUME t # MM PROVE MmOwes' <=> MmOwes
    BY <1>2, <1>5, <1>9, <2>1 DEF MmOwes
  <2> QED BY <1>10, <2>1
<1>12. DriverUp
  <2>1. t = TM \/ t = IO \/ t = Driver \/ t = MM
    BY <1>2 DEF Servers
  <2>2. Has(todo[t], Reply(u))
    BY <1>7
  <2> QED BY <1>1, <1>5, <1>10, <2>1, <2>2 DEF Boot
<1>13. Life'
  BY <1>1, <1>3, <1>2, <1>5, <1>6, <1>9, Distinct DEF Life, FirstProgram
<1>14. Sleepers'
  BY <1>1, <1>2, <1>3, <1>4, <1>5, <1>6, <1>9, Distinct DEF Sleepers
<1>15. TmCalls'
  BY <1>1, <1>2, <1>4, <1>9, <1>11, Distinct DEF TmCalls
<1>16. IoCalls'
  BY <1>1, <1>2, <1>4, <1>5, <1>8, <1>9, Distinct DEF IoCalls, TmOwes
<1>17. DriverStart'
  BY <1>1, <1>2, <1>3, <1>4, <1>5, <1>6, <1>8, <1>9, Distinct DEF DriverStart
<1>18. Single'
  BY <1>1, <1>2, <1>5, <1>9 DEF Single
<1>19. Boot'
  BY <1>6, <1>12 DEF Boot
<1>20. Turn'
  <2>1. OneWorks => OneWorks'
    BY <1>5 DEF OneWorks
  <2>2. ASSUME TmWorks, t # TM PROVE TmWorks'
    <3>1. t = MM
      BY <1>2, <1>4, <1>5, <2>2 DEF TmWorks, Servers
    <3>2. ~Busy(MM)' /\ todo'[TM] = todo[TM] /\ ~Busy(IO)
      BY <1>2, <1>5, <1>9, <1>10, <2>2, <3>1, Distinct DEF TmWorks
    <3> QED BY <1>2, <1>5, <1>9, <2>2, <3>1, <3>2, Distinct DEF TmWorks
  <2>3. ASSUME TmWorks, t = TM PROVE OneWorks'
    <3>1. mail[TM] = << >> /\ todo[TM] # << >>
      BY <1>2, <2>3 DEF TmWorks
    <3>2. ~TmOwes
      <4>1. \A x : <<x>> # << >>
        OBVIOUS
      <4> QED BY <1>7, <1>8, <1>9, <2>3, <3>1, <4>1 DEF TmOwes
    <3>3. ~Busy(IO) /\ ~Busy(Driver)
      BY <1>1, <2>3, <3>2 DEF TmWorks, IoCalls
    <3>4. ~Busy(TM)'
      BY <1>2, <1>5, <1>9, <2>3, <3>1 DEF Busy
    <3> QED BY <1>5, <3>3, <3>4 DEF OneWorks, Servers
  <2> QED BY <1>1, <1>6, <2>1, <2>2, <2>3, Distinct DEF Turn
<1>21. UsersLate'
  BY <1>1, <1>3, <1>5, <1>6, Distinct DEF UsersLate
<1> QED BY <1>13, <1>14, <1>15, <1>16, <1>17, <1>18, <1>19, <1>20, <1>21 DEF Orderly

\* TM answers the I/O thread: the driver is there.
LEMMA IoReplyStep ==
    ASSUME IndInv, ReplyStep(TM), Head(todo[TM]) = Reply(IO)
    PROVE  Orderly'
<1>1. /\ Typed /\ Programs /\ SchedSound(sched)
      /\ Life /\ Sleepers /\ TmCalls /\ IoCalls /\ DriverStart
      /\ Single /\ Boot /\ Turn /\ UsersLate
  BY DEF IndInv, Orderly
<1>2. /\ todo[TM] = <<Reply(IO)>> /\ todo'[TM] = << >>
      /\ \A x \in Thread \ {TM} : todo'[x] = todo[x]
      /\ \A c \in Thread \ {IO} : c \in answered' <=> c \in answered
      /\ ~Gone(IO) => IO \in answered'
      /\ Asleep(IO)' <=> Asleep(IO) /\ todo[IO] = << >>
  BY ReplyEffect, Distinct
<1>3. /\ \A c : (ToInsert(c)' <=> ToInsert(c)) /\ (ToWake(c)' <=> ToWake(c))
      /\ ToAsk' <=> ToAsk
      /\ \A s \in Servers : Awaits(s)' <=> Awaits(s)
      /\ ~Awaits(TM)
  BY ReplyView, Distinct
<1>4. /\ \A s \in Servers : mail'[s] = mail[s] /\ s \in Thread
      /\ \A s \in Servers : Busy(s)' => Busy(s)
      /\ Busy(TM)
      /\ \A x \in Thread : todo'[x] # << >> => todo[x] # << >>
  BY ReplyView, Distinct
<1>5. /\ \A c \in Thread : Gone(c)' <=> Gone(c)
      /\ \A c \in Thread \ {IO} : Asleep(c)' <=> Asleep(c)
      /\ ~Asleep(TM) /\ ~Gone(TM)
      /\ DriverUp' <=> DriverUp
  BY ReplyView, Distinct
<1>6. \A j : Has(todo[TM], j) <=> j = Reply(IO)
  <2>1. Len(todo[TM]) = 1 /\ todo[TM][1] = Reply(IO)
    BY <1>2
  <2>2. \A k : k \in 1 .. Len(todo[TM]) <=> k = 1
    BY <2>1
  <2> QED BY <2>1, <2>2 DEF Has
<1>7. /\ TM \in Servers /\ MM \in Servers /\ IO \in Servers /\ Driver \in Servers
      /\ \A j : ~Has(<< >>, j)
      /\ \A x : <<x>> # << >>
  BY DEF Servers, Has
<1>8. \A c : ~ToInsert(c) /\ ~ToWake(c)
  BY <1>6, Kinds DEF ToInsert, ToWake
<1>9. /\ Awaits(IO) /\ IO \notin answered /\ mail[TM] # <<StartDriver>>
      /\ ~Gone(Driver) /\ ~Gone(IO)
  <2>1. Awaits(IO) /\ IO \notin answered /\ mail[TM] # <<StartDriver>>
    BY <1>1, <1>6 DEF IoCalls, TmOwes
  <2>2. ~Gone(Driver)
    BY <1>1, <1>6, <1>8 DEF DriverStart
  <2> QED BY <1>1, <2>1, <2>2, Distinct DEF Life
<1>10. ~MmOwes /\ TM \notin answered
  BY <1>1, <1>3 DEF TmCalls
<1>11. mail[TM] = << >> /\ ~Busy(MM) /\ ~Busy(Driver)
  <2>1. Busy(IO)
    BY <1>9 DEF Awaits, Busy
  <2>2. ~OneWorks
    <3>1. \A s \in {MM, IO, Driver} : TM \in Servers \ {s}
      BY <1>7, Distinct
    <3> QED BY <1>4, <3>1 DEF OneWorks
  <2> QED BY <1>1, <1>2, <1>7, <1>9, <1>10, <2>1, <2>2 DEF Turn, TmWorks
<1>12. ~MmOwes' /\ ~TmOwes' /\ ~Busy(TM)'
  <2>1. MmOwes' <=> MmOwes
    BY <1>2, <1>4, <1>7, Distinct DEF MmOwes
  <2> QED BY <1>2, <1>4, <1>7, <1>9, <1>10, <1>11, <2>1 DEF TmOwes, Busy
<1>13. Life'
  BY <1>1, <1>2, <1>3, <1>4, <1>5, <1>7, <1>8, Distinct DEF Life
<1>14. Sleepers'
  BY <1>1, <1>2, <1>3, <1>4, <1>5, <1>7, <1>9, Distinct DEF Sleepers, Awaits
<1>15. TmCalls'
  BY <1>2, <1>3, <1>7, <1>10, <1>12, Distinct DEF TmCalls
<1>16. IoCalls'
  BY <1>2, <1>3, <1>4, <1>7, <1>9, <1>12 DEF IoCalls
<1>17. DriverStart'
  BY <1>1, <1>2, <1>3, <1>4, <1>5, <1>7, <1>9, Distinct DEF DriverStart
<1>18. Single'
  BY <1>1, <1>2, <1>4, <1>7, Distinct DEF Single
<1>19. Boot'
  BY <1>5, <1>8, <1>9 DEF Boot, DriverUp
<1>20. Turn'
  BY <1>4, <1>11, <1>12, <1>7 DEF Turn, OneWorks, Servers
<1>21. UsersLate'
  BY <1>1, <1>3, <1>4, <1>5, Distinct DEF UsersLate
<1> QED BY <1>13, <1>14, <1>15, <1>16, <1>17, <1>18, <1>19, <1>20, <1>21 DEF Orderly

\* MM answers TM.
LEMMA TmReplyStep ==
    ASSUME IndInv, ReplyStep(MM), Head(todo[MM]) = Reply(TM)
    PROVE  Orderly'
<1>1. /\ Typed /\ Programs /\ SchedSound(sched)
      /\ Life /\ Sleepers /\ TmCalls /\ IoCalls /\ DriverStart
      /\ Single /\ Boot /\ Turn /\ UsersLate
  BY DEF IndInv, Orderly
<1>2. /\ todo[MM] = <<Reply(TM)>> /\ todo'[MM] = << >>
      /\ \A x \in Thread \ {MM} : todo'[x] = todo[x]
      /\ \A c \in Thread \ {TM} : c \in answered' <=> c \in answered
      /\ ~Gone(TM) => TM \in answered'
      /\ Asleep(TM)' <=> Asleep(TM) /\ todo[TM] = << >>
  BY ReplyEffect, Distinct
<1>3. /\ \A c : (ToInsert(c)' <=> ToInsert(c)) /\ (ToWake(c)' <=> ToWake(c))
      /\ ToAsk' <=> ToAsk
      /\ Has(todo'[TM], Cleanup) <=> Has(todo[TM], Cleanup)
      /\ \A q : Has(todo'[IO], Send(Driver, q)) <=> Has(todo[IO], Send(Driver, q))
      /\ \A s \in Servers : Awaits(s)' <=> Awaits(s)
      /\ ~Awaits(MM)
  BY ReplyView, Distinct
<1>4. /\ \A s \in Servers : mail'[s] = mail[s] /\ s \in Thread
      /\ \A s \in Servers : Busy(s)' => Busy(s)
      /\ Busy(MM)
      /\ \A x \in Thread : todo'[x] # << >> => todo[x] # << >>
  BY ReplyView, Distinct
<1>5. /\ \A c \in Thread : Gone(c)' <=> Gone(c)
      /\ \A c \in Thread \ {TM} : Asleep(c)' <=> Asleep(c)
      /\ ~Asleep(MM) /\ ~Gone(MM)
      /\ DriverUp' <=> DriverUp
  BY ReplyView, Distinct
<1>6. Has(todo[MM], Reply(TM))
  <2>1. Len(todo[MM]) = 1 /\ todo[MM][1] = Reply(TM)
    BY <1>2
  <2>2. 1 \in 1 .. Len(todo[MM])
    BY <2>1
  <2> QED BY <2>1, <2>2 DEF Has
<1>7. /\ TM \in Servers /\ MM \in Servers /\ IO \in Servers /\ Driver \in Servers
      /\ \A j : ~Has(<< >>, j)
      /\ \A x : <<x>> # << >>
  BY DEF Servers, Has
<1>8. mail[MM] = << >> /\ MmOwes
  BY <1>1, <1>2, <1>6, <1>7 DEF Single, MmOwes
<1>9. Awaits(TM) /\ TM \notin answered /\ todo[TM] # << >> /\ ~Gone(TM)
  BY <1>1, <1>8 DEF TmCalls, Awaits, Life
<1>10. ~MmOwes' /\ ~Busy(MM)'
  BY <1>2, <1>4, <1>7, <1>8 DEF MmOwes, Busy
<1>11. TmOwes' <=> TmOwes
  BY <1>2, <1>4, <1>7, Distinct DEF TmOwes
<1>12. Life'
  BY <1>1, <1>2, <1>3, <1>4, <1>5, <1>7, TypedHas, Distinct DEF Life, FirstProgram
<1>13. Sleepers'
  BY <1>1, <1>2, <1>3, <1>4, <1>5, <1>7, <1>9, <1>10, Distinct DEF Sleepers
<1>14. TmCalls'
  BY <1>2, <1>3, <1>7, <1>9, <1>10, Distinct DEF TmCalls
<1>15. IoCalls'
  BY <1>1, <1>2, <1>3, <1>4, <1>7, <1>11, Distinct DEF IoCalls
<1>16. DriverStart'
  BY <1>1, <1>2, <1>3, <1>4, <1>5, <1>7, Distinct DEF DriverStart
<1>17. Single'
  BY <1>1, <1>2, <1>4, <1>7, Distinct DEF Single
<1>18. Boot'
  <2>1. todo'[TM] = todo[TM] /\ todo'[IO] = todo[IO] /\ (Busy(Driver)' => Busy(Driver))
    BY <1>2, <1>4, <1>7, Distinct
  <2>2. mail'[TM] = mail[TM] /\ mail'[IO] = mail[IO]
    BY <1>4, <1>7
  <2>3. \A u \in Users : todo'[u] # << >> => todo[u] # << >>
    BY <1>4, Distinct
  <2> QED BY <1>1, <1>5, <1>10, <2>1, <2>2, <2>3 DEF Boot
<1>19. Turn'
  <2>1. ~OneWorks
    <3>1. Busy(TM) /\ \A s \in {MM, IO, Driver} : TM \in Servers \ {s}
      BY <1>7, <1>9, Distinct DEF Busy
    <3> QED BY <3>1 DEF OneWorks
  <2>2. TmWorks => TmWorks'
    BY <1>2, <1>3, <1>4, <1>7, <1>9, <1>10, Distinct DEF TmWorks
  <2> QED BY <1>1, <1>5, <2>1, <2>2, Distinct DEF Turn
<1>20. UsersLate'
  BY <1>1, <1>3, <1>4, <1>5, Distinct DEF UsersLate
<1> QED BY <1>12, <1>13, <1>14, <1>15, <1>16, <1>17, <1>18, <1>19, <1>20 DEF Orderly

\* The three kinds of answers.
LEMMA AnswerStep ==
    ASSUME IndInv, NEW t \in Thread, ReplyStep(t)
    PROVE  /\ Orderly'
           /\ \E u : Head(todo[t]) = Reply(u)
<1>1. Typed /\ Programs
  BY DEF IndInv
<1>2. todo[t] # << >> /\ Head(todo[t]).do = "reply"
  BY DEF ReplyStep, IsAt
<1>3. Head(todo[t]) \in InstrOf(t)
  <2>1. todo[t] \in Seq(InstrOf(t))
    BY <1>1 DEF Typed, Sound
  <2> QED BY <1>2, <2>1, TailHas
<1> PICK u : u = Head(todo[t]).on
  OBVIOUS
<1>4. /\ Head(todo[t]) = Reply(u)
      /\ \/ u \in Users
         \/ t = TM /\ u = IO
         \/ t = MM /\ u = TM
  BY <1>2, <1>3, WhoReplies
<1> QED BY <1>4, UserReplyStep, IoReplyStep, TmReplyStep

-----------------------------------------------------------------------------
(* Receiving an answer *)

LEMMA ServerHasAnswer ==
    ASSUME IndInv, NEW t \in {TM, IO}, AwaitStep(t), t \in answered
    PROVE  Orderly'
<1>1. /\ Typed /\ Programs /\ SchedSound(sched)
      /\ Life /\ Sleepers /\ TmCalls /\ IoCalls /\ DriverStart
      /\ Single /\ Boot /\ Turn /\ UsersLate
  BY DEF IndInv, Orderly
<1>2. /\ t \in Servers /\ t \in Thread /\ t \in Servers \cap {TM, IO}
      /\ TM \in Servers /\ MM \in Servers /\ IO \in Servers /\ Driver \in Servers
      /\ \A s \in Servers : s \in Thread
  BY Distinct DEF Servers
<1>3. /\ sched.running = t /\ todo[t] # << >> /\ Head(todo[t]).do = "await"
      /\ todo' = [todo EXCEPT ![t] = Tail(@)]
      /\ answered' = answered \ {t}
      /\ UNCHANGED <<sched, owner, mail>>
  BY DEF AwaitStep, IsAt
<1> PICK i : i = Head(todo[t])
  OBVIOUS
<1>4. i = Await
  <2>1. i \in InstrOf(t) /\ i.do = "await"
    BY <1>1, <1>2, <1>3, TailStep
  <2>2. i \in TmInstr \cup IoInstr
    BY <2>1, ServerInstructions
  <2> QED BY <2>1, <2>2, Kinds, KindsOfInstr DEF TmInstr, IoInstr, HeapInstr
<1>5. /\ i \notin Calls /\ i # Cleanup
      /\ \A c : i # Change("insert", c) /\ i # Change("setready", c) /\ i # Reply(c)
      /\ i # Send(TM, StartDriver) /\ \A q : i # Send(Driver, q)
      /\ ~Follows(i, Send(TM, StartDriver))
  BY <1>4, Kinds, KindsOfInstr DEF Calls, Follows
<1>6. /\ \A c : (ToInsert(c)' <=> ToInsert(c)) /\ (ToWake(c)' <=> ToWake(c))
      /\ ToAsk' <=> ToAsk
      /\ Has(todo'[TM], Cleanup) <=> Has(todo[TM], Cleanup)
  BY <1>1, <1>2, <1>3, <1>5, TailView
<1>7. \A q : Has(todo'[IO], Send(Driver, q)) <=> Has(todo[IO], Send(Driver, q))
  BY <1>1, <1>2, <1>3, <1>5, TailView
<1>8. \A s \in Servers : \A c : Has(todo'[s], Reply(c)) <=> Has(todo[s], Reply(c))
  BY <1>1, <1>2, <1>3, <1>5, TailView
<1>9. /\ \A s \in Servers \ {t} : Awaits(s)' <=> Awaits(s)
      /\ Awaits(t) /\ ~Awaits(t)'
      /\ \A x \in Thread : todo'[x] # << >> => todo[x] # << >>
      /\ \A x \in Thread \ {t} : todo'[x] = todo[x]
  BY <1>1, <1>2, <1>3, <1>4, <1>5, TailView
<1>10. t = IO => ~ToAsk
  <2>1. \A j : Has(todo'[t], j) => Follows(i, j)
    BY <1>1, <1>2, <1>3, TailView
  <2> QED BY <1>5, <1>6, <2>1 DEF ToAsk
<1>11. /\ \A s \in Servers : mail'[s] = mail[s]
       /\ \A s \in Servers : Busy(s)' => Busy(s)
       /\ Busy(t)
       /\ \A c : (Gone(c)' <=> Gone(c)) /\ (Asleep(c)' <=> Asleep(c))
       /\ ~Asleep(t) /\ ~Gone(t)
       /\ DriverUp' <=> DriverUp
  <2>1. \A s \in Servers : mail'[s] = mail[s]
    BY <1>3
  <2>2. (\A s \in Servers : Busy(s)' => Busy(s)) /\ Busy(t)
    BY <1>2, <1>3, <1>9, <2>1 DEF Busy
  <2>3. /\ \A c : (Gone(c)' <=> Gone(c)) /\ (Asleep(c)' <=> Asleep(c))
        /\ ~Asleep(t) /\ ~Gone(t)
    BY <1>1, <1>2, <1>3 DEF Gone, Asleep, SchedSound, Blocked, Absent
  <2> QED BY <1>6, <2>1, <2>2, <2>3 DEF DriverUp
<1>12. /\ \A c : c # t => (c \in answered' <=> c \in answered)
       /\ t \notin answered'
  BY <1>3
<1>13. MmOwes' <=> MmOwes
  BY <1>2, <1>8, <1>9, <1>11, Distinct DEF MmOwes
<1>14. TmOwes' <=> TmOwes
  BY <1>2, <1>8, <1>11, Distinct DEF TmOwes
<1>15. Life'
  BY <1>1, <1>2, <1>6, <1>9, <1>11 DEF Life, FirstProgram
<1>16. Sleepers'
  BY <1>1, <1>2, <1>6, <1>9, <1>11, <1>12 DEF Sleepers
<1>17. TmCalls'
  BY <1>1, <1>2, <1>9, <1>12, <1>13 DEF TmCalls
<1>18. IoCalls'
  BY <1>1, <1>2, <1>8, <1>9, <1>11, <1>12, <1>14 DEF IoCalls
<1>19. DriverStart'
  <2>1. t = IO => ~Gone(Driver)
    BY <1>1, <1>10, <1>11 DEF DriverStart
  <2> QED BY <1>1, <1>2, <1>6, <1>8, <1>9, <1>11, <1>12, <2>1 DEF DriverStart
<1>20. Single'
  BY <1>1, <1>2, <1>9, <1>11 DEF Single
<1>21. Boot'
  BY <1>1, <1>2, <1>6, <1>7, <1>8, <1>9, <1>11, <1>13, Distinct DEF Boot
<1>22. Turn'
  <2>1. OneWorks => OneWorks'
    BY <1>11 DEF OneWorks
  <2>2. ASSUME t = IO, TmWorks PROVE FALSE
    BY <1>11, <2>2 DEF TmWorks
  <2>3. ASSUME t = TM, TmWorks PROVE TmWorks'
    <3>1. \A u : todo[TM] # <<Reply(u)>>
      <4>1. \A u : Head(<<Reply(u)>>).do = "reply"
        BY Kinds
      <4> QED BY <1>3, <2>3, <4>1
    <3>2. ~MmOwes
      BY <1>1, <2>3 DEF TmCalls
    <3>3. ~Busy(MM) /\ mail[TM] = << >>
      BY <1>3, <2>3, <3>1, <3>2 DEF TmWorks
    <3> QED BY <1>2, <1>9, <1>11, <1>12, <2>3, <3>3, Distinct DEF TmWorks
  <2> QED BY <1>1, <1>11, <2>1, <2>2, <2>3 DEF Turn
<1>23. UsersLate'
  BY <1>1, <1>6, <1>9, <1>11, Distinct DEF UsersLate
<1> QED BY <1>15, <1>16, <1>17, <1>18, <1>19, <1>20, <1>21, <1>22, <1>23 DEF Orderly

LEMMA UserHasAnswer ==
    ASSUME IndInv, NEW u \in Users, AwaitStep(u), u \in answered
    PROVE  Orderly'
<1>1. Typed /\ SchedSound(sched)
  BY DEF IndInv
<1>2. /\ sched.running = u /\ u \in Thread
      /\ todo' = [todo EXCEPT ![u] = Tail(@)]
      /\ answered' = answered \ {u}
      /\ UNCHANGED <<sched, owner, mail>>
  BY Distinct DEF AwaitStep, IsAt
<1>3. /\ \A x \in Thread \ {u} : todo'[x] = todo[x]
      /\ \A s \in Servers : s \in Thread \ {u}
      /\ Idle \in Thread \ {u}
  BY <1>1, <1>2, Distinct DEF Typed, Servers
<1>4. /\ \A s \in Servers : todo'[s] = todo[s] /\ mail'[s] = mail[s]
      /\ todo'[Idle] = todo[Idle]
      /\ \A x \in Users : todo'[x] # << >> => x = sched.running \/ todo[x] # << >>
      /\ \A s \in Servers : s \in answered' <=> s \in answered
  BY <1>2, <1>3, Distinct
<1>5. Kept(sched', sched, {})
  BY <1>1, <1>2 DEF Kept
<1>6. sched.running \in Users
  BY <1>2
<1> QED BY <1>4, <1>5, <1>6, UsersMove

-----------------------------------------------------------------------------
(* Falling asleep *)

\* When a thread falls asleep there is another one for the processor.
LEMMA SomeoneElse ==
    ASSUME IndInv, NEW t \in Thread \ {Idle}, sched.running = t,
           t \in {MM, Driver} => ~Busy(t),
           t \in {TM, IO} /\ Busy(t) => Awaits(t) /\ t \notin answered
    PROVE  \E w \in Thread : Active(sched, w) /\ w # t
<1>1. /\ SchedSound(sched) /\ Life /\ Sleepers /\ TmCalls
  BY DEF IndInv, Orderly
<1>2. /\ \A c \in Thread : Active(sched, c) <=> ~Gone(c) /\ ~Asleep(c)
      /\ TM \in Thread /\ MM \in Thread /\ Idle \in Thread /\ TM # MM /\ Idle # TM
  BY <1>1, ActiveOnes, Distinct DEF SchedSound, Gone, Asleep
<1>3. \A j : ~Has(<< >>, j)
  BY DEF Has
<1>4. CASE ~Gone(Idle) /\ ~Asleep(Idle)
  BY <1>2, <1>4
<1>5. CASE Gone(Idle) \/ Asleep(Idle)
  <2>1. Busy(TM)
    BY <1>1, <1>3, <1>5 DEF Life, ToWake, Busy
  <2>2. CASE t # TM /\ ~Asleep(TM)
    BY <1>1, <1>2, <2>2 DEF Life
  <2>3. CASE t = TM \/ Asleep(TM)
    <3>1. MmOwes
      BY <1>1, <2>1, <2>3 DEF Sleepers, TmCalls
    <3>2. Busy(MM)
      <4>1. \A x : <<x>> # << >>
        OBVIOUS
      <4> QED BY <1>3, <3>1, <4>1 DEF MmOwes, Busy
    <3>3. ~Asleep(MM) /\ ~Gone(MM) /\ t # MM
      BY <1>1, <3>2 DEF Life, Sleepers
    <3> QED BY <1>2, <3>3
  <2> QED BY <2>2, <2>3
<1> QED BY <1>4, <1>5

LEMMA BlockStep ==
    ASSUME IndInv, NEW t \in Thread \ {Idle}, sched.running = t,
           t \in {MM, Driver} => ~Busy(t),
           t \in {TM, IO} /\ Busy(t) => Awaits(t) /\ t \notin answered,
           sched' = schedule(schedulerSetBlocked(sched, t)),
           UNCHANGED <<owner, todo, mail, answered>>
    PROVE  Orderly' /\ SchedSound(sched')
<1>1. /\ SchedSound(sched)
      /\ Life /\ Sleepers /\ TmCalls /\ IoCalls /\ DriverStart
      /\ Single /\ Boot /\ Turn /\ UsersLate
  BY DEF IndInv, Orderly
<1>2. PICK w \in Thread : Active(sched, w) /\ w # t
  BY SomeoneElse
<1>3. Kept(sched', sched, {t}) /\ Asleep(t)'
  BY <1>1, <1>2, SleepKeeps DEF Asleep
<1>4. ~Gone(t) /\ ~Gone(t)'
  BY <1>1, <1>3 DEF Asleep, Blocked, Gone, Absent, SchedSound
<1>5. /\ \A c \in Thread : Gone(c)' <=> Gone(c)
      /\ \A c \in Thread \ {t} : Asleep(c)' <=> Asleep(c)
      /\ \A c : (ToInsert(c)' <=> ToInsert(c)) /\ (ToWake(c)' <=> ToWake(c))
      /\ ToAsk' <=> ToAsk
      /\ \A s : (Busy(s)' <=> Busy(s)) /\ (Awaits(s)' <=> Awaits(s))
      /\ MmOwes' <=> MmOwes
      /\ TmOwes' <=> TmOwes
  BY <1>3, <1>4 DEF Kept, Gone, Asleep, ToInsert, ToWake, ToAsk, Busy, Awaits, MmOwes, TmOwes
<1>6. DriverUp' <=> DriverUp
  BY <1>5, Distinct DEF DriverUp
<1>7. Life'
  BY <1>1, <1>3, <1>5, Distinct DEF Life, FirstProgram
<1>8. Sleepers'
  BY <1>1, <1>3, <1>5, Distinct DEF Sleepers
<1>9. TmCalls' /\ IoCalls' /\ Single'
  BY <1>1, <1>5 DEF TmCalls, IoCalls, Single
<1>10. DriverStart'
  BY <1>1, <1>5, Distinct DEF DriverStart
<1>11. Boot'
  BY <1>1, <1>5, <1>6 DEF Boot
<1>12. Turn'
  BY <1>1, <1>5, Distinct DEF Turn, OneWorks, TmWorks
<1>13. UsersLate'
  BY <1>1, <1>5, <1>6, Distinct DEF UsersLate
<1> QED BY <1>3, <1>7, <1>8, <1>9, <1>10, <1>11, <1>12, <1>13 DEF Orderly, Kept

LEMMA AwaitPart ==
    ASSUME IndInv, NEW t \in Thread, AwaitStep(t)
    PROVE  Orderly' /\ SchedSound(sched')
<1>1. Typed /\ Locked /\ Programs /\ SchedSound(sched)
  BY DEF IndInv
<1>2. sched.running = t /\ todo[t] # << >> /\ Head(todo[t]).do = "await"
  BY DEF AwaitStep, IsAt
<1>3. Head(todo[t]) \in InstrOf(t)
  <2>1. todo[t] \in Seq(InstrOf(t))
    BY <1>1 DEF Typed, Sound
  <2> QED BY <1>2, <2>1, TailHas
<1>4. t \in {TM, IO} \cup Users
  <2>1. \A s, r : Send(s, r).do # "await"
    BY Kinds
  <2>2. t \notin {MM, Driver, Idle}
    BY <1>2, <1>3, ServerInstructions, Kinds DEF MmInstr, DriverInstr, HeapInstr
  <2> QED BY <2>2, LocksAssumption DEF Servers
<1>5. CASE t \in answered
  <2>1. Orderly'
    BY <1>4, <1>5, ServerHasAnswer, UserHasAnswer
  <2>2. sched' = sched
    BY <1>5 DEF AwaitStep
  <2> QED BY <1>1, <2>1, <2>2
<1>6. CASE t \notin answered
  <2>1. sched' = schedule(schedulerSetBlocked(sched, t))
    <3>1. \A x : TrySchedule(x) = schedule(x)
      BY <1>1, <1>2, HandlerSchedules DEF SystemCall
    <3> QED BY <1>6, <3>1 DEF AwaitStep
  <2>2. UNCHANGED <<owner, todo, mail, answered>>
    BY <1>6 DEF AwaitStep
  <2>3. t \in {TM, IO} => Awaits(t)
    <3>1. ASSUME t \in {TM, IO} PROVE Head(todo[t]) = Await
      <4>1. Head(todo[t]) \in TmInstr \cup IoInstr
        BY <1>3, <3>1, ServerInstructions
      <4> QED BY <1>2, <4>1, Kinds, KindsOfInstr DEF TmInstr, IoInstr, HeapInstr
    <3> QED BY <1>2, <3>1 DEF Awaits
  <2>4. t # MM /\ t # Driver /\ t \in Thread \ {Idle}
    BY <1>4, Distinct
  <2> QED BY <1>2, <1>6, <2>1, <2>2, <2>3, <2>4, BlockStep
<1> QED BY <1>5, <1>6

\* A server with nothing to do.
LEMMA IdleStep ==
    ASSUME IndInv, NEW s \in Servers, ReceiveStep(s), mail[s] = << >>
    PROVE  Orderly' /\ SchedSound(sched')
<1>1. Typed /\ Locked /\ SchedSound(sched)
  BY DEF IndInv
<1>2. /\ sched.running = s /\ todo[s] = << >>
      /\ sched' = TrySchedule(schedulerSetBlocked(sched, s))
      /\ UNCHANGED <<owner, todo, mail, answered>>
  BY DEF ReceiveStep
<1>3. s \in Thread \ {Idle} /\ ~Busy(s)
  BY <1>2, Distinct DEF Servers, Busy
<1>4. \A x : TrySchedule(x) = schedule(x)
  BY <1>1, <1>2, <1>3, HandlerSchedules
<1>5. sched' = schedule(schedulerSetBlocked(sched, s))
  BY <1>2, <1>4
<1> QED BY <1>2, <1>3, <1>5, BlockStep

-----------------------------------------------------------------------------
(* Taking a request *)

\* Server s takes request r and is going to execute p.
Takes(s, r, p) ==
    /\ r \in RequestOf(s) /\ p \in Serve(s, r)
    /\ mail[s] = <<r>> /\ mail'[s] = << >>
    /\ todo[s] = << >> /\ todo'[s] = p
    /\ todo' = [todo EXCEPT ![s] = p] /\ mail' = [mail EXCEPT ![s] = << >>]
    /\ \A x \in Thread \ {s} : todo'[x] = todo[x]
    /\ \A x \in Servers \ {s} : mail'[x] = mail[x]
    /\ \A x \in Servers : x \in Thread
    /\ sched.running = s
    /\ UNCHANGED <<sched, owner, answered>>
    /\ \A c : (Gone(c)' <=> Gone(c)) /\ (Asleep(c)' <=> Asleep(c))
    /\ ~Gone(s) /\ ~Asleep(s)
    /\ \A x \in Servers \ {s} : (Busy(x)' <=> Busy(x)) /\ (Awaits(x)' <=> Awaits(x))
    /\ Busy(s) /\ ~Awaits(s)
    /\ (p # << >> => p[1] # Await) => ~Awaits(s)'

LEMMA TakeEffect ==
    ASSUME IndInv, NEW s \in Servers, ReceiveStep(s), mail[s] # << >>
    PROVE  \E r, p : Takes(s, r, p)
<1>1. Typed /\ SchedSound(sched)
  BY DEF IndInv
<1>2. PICK r \in RequestOf(s) : mail[s] = <<r>>
  <2>1. mail[s] \in {<< >>} \cup {<<r>> : r \in RequestOf(s)} /\ mail[s] # << >>
    BY <1>1 DEF Typed
  <2> QED BY <2>1
<1>3. Head(mail[s]) = r /\ Tail(mail[s]) = << >>
  <2>1. Head(<<r>>) = r /\ Tail(<<r>>) = << >>
    OBVIOUS
  <2> QED BY <1>2, <2>1
<1>4. PICK p \in Serve(s, r) : todo' = [todo EXCEPT ![s] = p]
  BY <1>3 DEF ReceiveStep
<1>5. /\ mail' = [mail EXCEPT ![s] = << >>]
      /\ todo[s] = << >> /\ sched.running = s
      /\ UNCHANGED <<sched, owner, answered>>
  BY <1>3 DEF ReceiveStep
<1>6. \A x \in Servers : x \in Thread
  BY LocksAssumption
<1>7. /\ mail'[s] = << >> /\ todo'[s] = p
      /\ \A x \in Thread \ {s} : todo'[x] = todo[x]
      /\ \A x \in Servers \ {s} : mail'[x] = mail[x]
  BY <1>1, <1>4, <1>5, <1>6 DEF Typed
<1>8. /\ \A c : (Gone(c)' <=> Gone(c)) /\ (Asleep(c)' <=> Asleep(c))
      /\ ~Gone(s) /\ ~Asleep(s)
  BY <1>1, <1>5, <1>6 DEF Gone, Asleep, SchedSound, Absent, Blocked
<1>9. Busy(s) /\ ~Awaits(s)
  BY <1>5 DEF Busy, Awaits
<1>10. \A x \in Servers \ {s} : (Busy(x)' <=> Busy(x)) /\ (Awaits(x)' <=> Awaits(x))
  BY <1>6, <1>7 DEF Busy, Awaits
<1>11. (p # << >> => p[1] # Await) => ~Awaits(s)'
  BY <1>7 DEF Awaits
<1>12. Takes(s, r, p)
  BY <1>2, <1>4, <1>5, <1>6, <1>7, <1>8, <1>9, <1>10, <1>11 DEF Takes
<1> QED BY <1>12

\* The I/O thread asks for the driver before it waits.
LEMMA AskedBefore ==
    ASSUME Typed, Programs, Awaits(IO)
    PROVE  ~ToAsk
<1>1. todo[IO] \in Seq(InstrOf(IO)) /\ todo[IO] # << >> /\ Formed(todo[IO])
  BY Distinct DEF Typed, Sound, Programs, Awaits, Servers
<1>2. /\ \A j : Has(todo[IO], j) => j = Head(todo[IO]) \/ Has(Tail(todo[IO]), j)
      /\ \A j : Has(Tail(todo[IO]), j) => Follows(Head(todo[IO]), j)
  BY <1>1, TailHas, TailFormed
<1>3. Await # Send(TM, StartDriver) /\ ~Follows(Await, Send(TM, StartDriver))
  BY Kinds DEF Follows
<1> QED BY <1>2, <1>3 DEF ToAsk, Awaits

LEMMA TmTakes ==
    ASSUME IndInv, ReceiveStep(TM), mail[TM] # << >>
    PROVE  /\ Orderly'
           /\ todo'[TM] \in Sound(TM) /\ Formed(todo'[TM]) /\ Complete(todo'[TM])
<1>1. /\ Typed /\ Programs /\ SchedSound(sched)
      /\ Life /\ Sleepers /\ TmCalls /\ IoCalls /\ DriverStart
      /\ Single /\ Boot /\ Turn /\ UsersLate
  BY DEF IndInv, Orderly
<1>2. /\ TM \in Servers /\ MM \in Servers /\ IO \in Servers /\ Driver \in Servers
      /\ \A j : ~Has(<< >>, j)
      /\ \A x : <<x>> # << >>
      /\ \A x, y : <<x>> = <<y>> => x = y
  BY DEF Servers, Has
<1>3. PICK r, p : Takes(TM, r, p)
  BY <1>2, TakeEffect
<1>4. /\ mail[TM] = <<r>> /\ mail'[TM] = << >>
      /\ todo[TM] = << >> /\ todo'[TM] = p
      /\ \A x \in Thread \ {TM} : todo'[x] = todo[x]
      /\ \A x \in Servers \ {TM} : mail'[x] = mail[x]
      /\ \A x \in Servers : x \in Thread
      /\ answered' = answered
      /\ \A c : (Gone(c)' <=> Gone(c)) /\ (Asleep(c)' <=> Asleep(c))
      /\ ~Gone(TM) /\ ~Asleep(TM)
      /\ \A x \in Servers \ {TM} : (Busy(x)' <=> Busy(x)) /\ (Awaits(x)' <=> Awaits(x))
      /\ Busy(TM) /\ ~Awaits(TM)
      /\ (p # << >> => p[1] # Await) => ~Awaits(TM)'
  BY <1>3 DEF Takes
<1>5. r \in TmRequest /\ p \in TmServe(r)
  BY <1>3, Distinct DEF RequestOf, Serve, Takes
<1>6. TmMay(p, r)
  <2>1. r = StartDriver => sched.status[Driver] = "ABSENT"
    BY <1>1, <1>4 DEF DriverStart, Gone, Absent
  <2> QED BY <1>5, <2>1, TmServes
<1>7. /\ \A c : ~ToInsert(c) /\ ~ToWake(c)
      /\ ~MmOwes /\ TM \notin answered
      /\ ~Gone(IO) /\ ~Gone(Idle) /\ ~Asleep(Idle)
  BY <1>1, <1>2, <1>4 DEF ToInsert, ToWake, TmCalls, Life
<1>8. /\ \A c : ToInsert(c)' => Gone(c) /\ (c \in Users \/ (c = Driver /\ r = StartDriver))
      /\ \A c : ToWake(c)' => ToInsert(c)'
      /\ Has(todo'[TM], Reply(IO)) <=> r = StartDriver
      /\ r = StartDriver =>
           /\ ToInsert(Driver)'
           /\ ~Has(todo'[TM], Cleanup)
           /\ \A u \in Users : ~Has(todo'[TM], Reply(u))
  BY <1>4, <1>6 DEF TmMay, ToInsert, ToWake, Gone, Absent
<1>9. ~Awaits(TM)' /\ p \in Sound(TM) /\ Formed(p) /\ Complete(p)
  BY <1>4, <1>6 DEF TmMay
<1>10. /\ todo'[MM] = todo[MM] /\ mail'[MM] = mail[MM]
       /\ todo'[IO] = todo[IO] /\ mail'[IO] = mail[IO]
       /\ todo'[Driver] = todo[Driver] /\ mail'[Driver] = mail[Driver]
       /\ \A u \in Users : todo'[u] = todo[u]
       /\ ToAsk' <=> ToAsk
       /\ Awaits(IO)' <=> Awaits(IO)
  BY <1>2, <1>4, Distinct DEF ToAsk
<1>11. ~MmOwes'
  BY <1>7, <1>10 DEF MmOwes
<1>12. /\ TmOwes <=> r = StartDriver
       /\ TmOwes' <=> r = StartDriver
  <2>1. mail[TM] = <<StartDriver>> <=> r = StartDriver
    BY <1>2, <1>4
  <2>2. mail'[TM] # <<StartDriver>>
    BY <1>2, <1>4
  <2> QED BY <1>2, <1>4, <1>8, <2>1, <2>2 DEF TmOwes
<1>13. DriverUp' <=> DriverUp
  BY <1>4, <1>7, <1>8 DEF DriverUp
<1>14. ~ToInsert(IO)' /\ ~ToWake(IO)' /\ ~ToWake(Idle)'
  BY <1>8, Distinct
<1>15. Life'
  BY <1>1, <1>2, <1>4, <1>7, <1>8, <1>14, Distinct DEF Life
<1>16. Sleepers'
  BY <1>1, <1>2, <1>4, <1>7, <1>10, Distinct DEF Sleepers
<1>17. TmCalls'
  BY <1>4, <1>7, <1>9, <1>11 DEF TmCalls
<1>18. IoCalls'
  BY <1>1, <1>2, <1>4, <1>10, <1>12 DEF IoCalls
<1>19. DriverStart'
  <2>1. ToInsert(Driver)' => ~ToAsk
    <3>1. ToInsert(Driver)' => Awaits(IO)
      BY <1>1, <1>8, <1>12, Distinct DEF IoCalls
    <3> QED BY <1>1, <3>1, AskedBefore
  <2> QED BY <1>1, <1>2, <1>4, <1>8, <1>10, <2>1 DEF DriverStart
<1>20. Single'
  BY <1>1, <1>10 DEF Single
<1>21. Boot'
  <2>1. ~DriverUp => r = StartDriver
    BY <1>1, <1>2, <1>4 DEF Boot
  <2> QED BY <1>1, <1>2, <1>4, <1>7, <1>8, <1>10, <1>13, <2>1, Distinct DEF Boot
<1>22. Turn'
  <2>1. ~OneWorks
    <3>1. \A s \in {MM, IO, Driver} : TM \in Servers \ {s}
      BY <1>2, Distinct
    <3> QED BY <1>4, <3>1 DEF OneWorks
  <2>2. TmWorks => TmWorks'
    BY <1>2, <1>4, <1>10, Distinct DEF TmWorks
  <2> QED BY <1>1, <1>4, <2>1, <2>2 DEF Turn
<1>23. UsersLate'
  BY <1>1, <1>4, <1>10, <1>13, <1>14 DEF UsersLate
<1> QED BY <1>4, <1>9, <1>15, <1>16, <1>17, <1>18, <1>19, <1>20, <1>21, <1>22, <1>23 DEF Orderly

\* MM's program is an answer to TM if and only if the request was TM's call.
LEMMA MmTakes ==
    ASSUME IndInv, ReceiveStep(MM), mail[MM] # << >>
    PROVE  /\ Orderly'
           /\ todo'[MM] \in Sound(MM) /\ Formed(todo'[MM])
<1>1. /\ Typed /\ Programs /\ SchedSound(sched)
      /\ Life /\ Sleepers /\ TmCalls /\ IoCalls /\ DriverStart
      /\ Single /\ Boot /\ Turn /\ UsersLate
  BY DEF IndInv, Orderly
<1>2. /\ TM \in Servers /\ MM \in Servers /\ IO \in Servers /\ Driver \in Servers
      /\ \A j : ~Has(<< >>, j)
      /\ \A x : <<x>> # << >>
      /\ \A x, y : <<x>> = <<y>> => x = y
  BY DEF Servers, Has
<1>3. PICK r, p : Takes(MM, r, p)
  BY <1>2, TakeEffect
<1>4. /\ mail[MM] = <<r>> /\ mail'[MM] = << >>
      /\ todo[MM] = << >> /\ todo'[MM] = p
      /\ \A x \in Thread \ {MM} : todo'[x] = todo[x]
      /\ \A x \in Servers \ {MM} : mail'[x] = mail[x]
      /\ \A x \in Servers : x \in Thread
      /\ answered' = answered
      /\ \A c : (Gone(c)' <=> Gone(c)) /\ (Asleep(c)' <=> Asleep(c))
      /\ ~Gone(MM) /\ ~Asleep(MM)
      /\ \A x \in Servers \ {MM} : (Busy(x)' <=> Busy(x)) /\ (Awaits(x)' <=> Awaits(x))
      /\ Busy(MM)
  BY <1>3 DEF Takes
<1>5. r \in MmRequest /\ p \in MmServe(r)
  BY <1>3, Distinct DEF RequestOf, Serve, Takes
<1>6. p \in Sound(MM) /\ Formed(p) /\ (Has(p, Reply(TM)) <=> r \in FromTm)
  BY <1>5, MmServes
<1>7. /\ todo'[TM] = todo[TM] /\ mail'[TM] = mail[TM]
      /\ todo'[IO] = todo[IO] /\ mail'[IO] = mail[IO]
      /\ todo'[Driver] = todo[Driver] /\ mail'[Driver] = mail[Driver]
      /\ \A u \in Users : todo'[u] = todo[u]
      /\ \A c : (ToInsert(c)' <=> ToInsert(c)) /\ (ToWake(c)' <=> ToWake(c))
      /\ ToAsk' <=> ToAsk
      /\ Awaits(IO)' <=> Awaits(IO)
      /\ Awaits(TM)' <=> Awaits(TM)
      /\ TmOwes' <=> TmOwes
      /\ DriverUp' <=> DriverUp
  BY <1>2, <1>4, Distinct DEF ToInsert, ToWake, ToAsk, TmOwes, DriverUp
<1>8. MmOwes' <=> MmOwes
  <2>1. MmOwes <=> r \in FromTm
    BY <1>2, <1>4 DEF MmOwes
  <2>2. MmOwes' <=> r \in FromTm
    BY <1>2, <1>4, <1>6 DEF MmOwes
  <2> QED BY <2>1, <2>2
<1>9. Life'
  BY <1>1, <1>2, <1>4, <1>7, Distinct DEF Life, FirstProgram
<1>10. Sleepers'
  BY <1>1, <1>2, <1>4, <1>7, Distinct DEF Sleepers
<1>11. TmCalls' /\ IoCalls'
  BY <1>1, <1>4, <1>7, <1>8 DEF TmCalls, IoCalls
<1>12. DriverStart'
  BY <1>1, <1>4, <1>7 DEF DriverStart
<1>13. Single'
  BY <1>1, <1>4, <1>7 DEF Single
<1>14. Boot'
  BY <1>1, <1>2, <1>4, <1>7, <1>8, Distinct DEF Boot
<1>15. Turn'
  <2>1. OneWorks => OneWorks'
    BY <1>4 DEF OneWorks
  <2>2. TmWorks => TmWorks'
    BY <1>2, <1>4, <1>7, <1>8, Distinct DEF TmWorks
  <2> QED BY <1>1, <1>4, <2>1, <2>2 DEF Turn
<1>16. UsersLate'
  BY <1>1, <1>4, <1>7 DEF UsersLate
<1> QED BY <1>4, <1>6, <1>9, <1>10, <1>11, <1>12, <1>13, <1>14, <1>15, <1>16 DEF Orderly

\* The others are the only server at work.
LEMMA DeviceTakes ==
    ASSUME IndInv, NEW s \in {IO, Driver}, ReceiveStep(s), mail[s] # << >>
    PROVE  /\ Orderly'
           /\ todo'[s] \in Sound(s) /\ Formed(todo'[s])
<1>1. /\ Typed /\ Programs /\ SchedSound(sched)
      /\ Life /\ Sleepers /\ TmCalls /\ IoCalls /\ DriverStart
      /\ Single /\ Boot /\ Turn /\ UsersLate
  BY DEF IndInv, Orderly
<1>2. /\ TM \in Servers /\ MM \in Servers /\ IO \in Servers /\ Driver \in Servers
      /\ s \in Servers
      /\ \A j : ~Has(<< >>, j)
      /\ \A x : <<x>> # << >>
  BY DEF Servers, Has
<1>3. PICK r, p : Takes(s, r, p)
  BY <1>2, TakeEffect
<1>4. /\ mail[s] = <<r>> /\ mail'[s] = << >>
      /\ todo[s] = << >> /\ todo'[s] = p
      /\ \A x \in Thread \ {s} : todo'[x] = todo[x]
      /\ \A x \in Servers \ {s} : mail'[x] = mail[x]
      /\ \A x \in Servers : x \in Thread
      /\ answered' = answered
      /\ \A c : (Gone(c)' <=> Gone(c)) /\ (Asleep(c)' <=> Asleep(c))
      /\ ~Gone(s) /\ ~Asleep(s)
      /\ \A x \in Servers \ {s} : (Busy(x)' <=> Busy(x)) /\ (Awaits(x)' <=> Awaits(x))
      /\ Busy(s) /\ ~Awaits(s)
      /\ (p # << >> => p[1] # Await) => ~Awaits(s)'
  BY <1>3 DEF Takes
<1>5. /\ p \in Sound(s) /\ Formed(p) /\ (p # << >> => p[1] # Await)
      /\ s = IO => ~Has(p, Send(TM, StartDriver))
  <2>1. CASE s = IO
    <3>1. r \in IoRequest /\ p = IoServe(r)
      BY <1>3, <2>1, Distinct DEF RequestOf, Serve, Takes
    <3> QED BY <2>1, <3>1, IoServes
  <2>2. CASE s = Driver
    <3>1. r \in DriverRequest /\ p = DriverServe(r)
      BY <1>3, <2>2, Distinct DEF RequestOf, Serve, Takes
    <3> QED BY <2>2, <3>1, DriverServes, Distinct
  <2> QED BY <2>1, <2>2
<1>6. /\ todo'[TM] = todo[TM] /\ mail'[TM] = mail[TM]
      /\ todo'[MM] = todo[MM] /\ mail'[MM] = mail[MM]
      /\ \A u \in Users : todo'[u] = todo[u]
      /\ \A c : (ToInsert(c)' <=> ToInsert(c)) /\ (ToWake(c)' <=> ToWake(c))
      /\ ToAsk' => ToAsk
      /\ MmOwes' <=> MmOwes
      /\ TmOwes' <=> TmOwes
      /\ DriverUp' <=> DriverUp
      /\ Awaits(TM)' <=> Awaits(TM)
      /\ Awaits(IO)' <=> Awaits(IO)
  BY <1>2, <1>4, <1>5, Distinct DEF ToInsert, ToWake, ToAsk, MmOwes, TmOwes, DriverUp
<1>7. DriverUp /\ ~Gone(Driver) /\ ~Gone(IO)
  BY <1>1, <1>2, <1>4 DEF Boot, DriverUp, Life
<1>8. OneWorks
  BY <1>1, <1>4, <1>7 DEF Turn, TmWorks
<1>9. Life'
  BY <1>1, <1>2, <1>4, <1>6, Distinct DEF Life, FirstProgram
<1>10. Sleepers'
  BY <1>1, <1>2, <1>4, <1>6, Distinct DEF Sleepers
<1>11. TmCalls' /\ IoCalls'
  BY <1>1, <1>4, <1>6 DEF TmCalls, IoCalls
<1>12. DriverStart'
  BY <1>1, <1>4, <1>6, <1>7 DEF DriverStart
<1>13. Single'
  BY <1>1, <1>2, <1>4, <1>6, Distinct DEF Single
<1>14. Boot'
  BY <1>6, <1>7 DEF Boot
<1>15. Turn'
  <2>1. \A x \in Servers : Busy(x)' => Busy(x)
    BY <1>4
  <2> QED BY <1>8, <2>1 DEF Turn, OneWorks
<1>16. UsersLate'
  BY <1>1, <1>4, <1>6 DEF UsersLate
<1> QED BY <1>4, <1>5, <1>9, <1>10, <1>11, <1>12, <1>13, <1>14, <1>15, <1>16 DEF Orderly

-----------------------------------------------------------------------------
(* TM changes the scheduler's lists *)

LEMMA WhoChanges ==
    ASSUME NEW t \in Thread, NEW i \in InstrOf(t), i.do \in {"insert", "setready", "remove"}
    PROVE  /\ t = TM /\ i = Change(i.do, i.on)
           /\ i.on \in Thread \ {TM, MM}
           /\ i.do = "remove" => i.on \in Users
<1>1. t \notin Users
  BY ServerInstructions, Kinds DEF UserInstr
<1>2. t \notin {MM, IO, Driver, Idle}
  BY ServerInstructions, Kinds DEF MmInstr, IoInstr, DriverInstr, HeapInstr
<1>3. t = TM
  BY <1>1, <1>2, LocksAssumption DEF Servers
<1>4. \/ \E do \in {"insert", "setready"}, c \in Thread \ {TM, MM} : i = Change(do, c)
      \/ \E u \in Users : i = Change("remove", u)
  BY <1>3, ServerInstructions, Kinds, KindsOfInstr DEF TmInstr
<1>5. \A u \in Users : u \in Thread \ {TM, MM}
  BY Distinct
<1> QED BY <1>3, <1>4, <1>5, Kinds

\* What remains of TM's program then.
LEMMA TmTail ==
    ASSUME Typed, Programs, todo[TM] # << >>, todo'[TM] = Tail(todo[TM]),
           Head(todo[TM]).do \in {"insert", "setready", "remove"}
    PROVE  LET i == Head(todo[TM]) IN
           /\ i \in InstrOf(TM) /\ Has(todo[TM], i)
           /\ todo'[TM] \in Sound(TM) /\ Formed(todo'[TM]) /\ Complete(todo'[TM])
           /\ \A c : ToInsert(c)' <=> ToInsert(c) /\ i # Change("insert", c)
           /\ \A c : ToWake(c)' <=> ToWake(c) /\ i # Change("setready", c)
           /\ \A c : Has(todo'[TM], Reply(c)) <=> Has(todo[TM], Reply(c))
           /\ Has(todo'[TM], Cleanup) <=> Has(todo[TM], Cleanup)
           /\ \A j : Has(todo'[TM], j) => Follows(i, j)
           /\ ~Awaits(TM) /\ ~Awaits(TM)'
           /\ \A u : todo[TM] # <<Reply(u)>>
<1> DEFINE p == todo[TM]
           i == Head(p)
<1>1. /\ p \in Seq(InstrOf(TM)) /\ p # << >> /\ \A l \in LockName : Brackets(p, l)
      /\ Formed(p) /\ Complete(p)
      /\ i.do \in {"insert", "setready", "remove"}
  BY Distinct DEF Typed, Sound, Programs, Servers
<1>2. todo'[TM] = Tail(p)
  OBVIOUS
<1>3. \A u : p # <<Reply(u)>>
  <2>1. \A u : Head(<<Reply(u)>>).do = "reply"
    BY Kinds
  <2> QED BY <1>1, <2>1
<1> HIDE DEF p
<1>4. /\ Tail(p) \in Seq(InstrOf(TM)) /\ i \in InstrOf(TM) /\ Has(p, i)
      /\ \A j : Has(p, j) => j = i \/ Has(Tail(p), j)
      /\ \A j : Has(Tail(p), j) => Has(p, j)
  BY <1>1, TailHas
<1>5. /\ Formed(Tail(p))
      /\ \A j : Has(Tail(p), j) => Follows(i, j)
      /\ i \notin Calls /\ Tail(p) # << >> => Head(Tail(p)) # Await
  BY <1>1, TailFormed
<1>6. \A l \in LockName : Brackets(Tail(p), l)
  BY <1>1, TailBrackets
<1>7. Tail(p) \in Sound(TM)
  BY <1>4, <1>6 DEF Sound
<1> HIDE DEF i
<1>8. i # Await /\ i # Cleanup /\ i \notin Calls /\ \A c : i # Reply(c)
  BY <1>1, Kinds, KindsOfInstr DEF Calls
<1>9. \A c : /\ ~Follows(Change("insert", c), Change("insert", c))
             /\ ~Follows(Change("setready", c), Change("setready", c))
             /\ ~Follows(Change("setready", c), Change("insert", c))
  BY Kinds DEF Follows
<1>10. Complete(Tail(p))
  <2>1. ASSUME NEW c \in Thread, Has(Tail(p), Change("insert", c))
        PROVE  Has(Tail(p), Change("setready", c))
    <3>1. Has(p, Change("setready", c))
      BY <1>1, <1>4, <2>1 DEF Complete
    <3>2. i # Change("setready", c)
      BY <1>5, <1>9, <2>1
    <3> QED BY <1>4, <3>1, <3>2
  <2>2. Has(Tail(p), Change("insert", Driver)) => Has(Tail(p), Reply(IO))
    BY <1>1, <1>4, <1>8 DEF Complete
  <2> QED BY <2>1, <2>2 DEF Complete
<1>11. /\ \A c : Has(Tail(p), Change("insert", c)) <=> Has(p, Change("insert", c)) /\ i # Change("insert", c)
       /\ \A c : Has(Tail(p), Change("setready", c)) <=> Has(p, Change("setready", c)) /\ i # Change("setready", c)
  BY <1>4, <1>5, <1>9
<1>12. /\ \A c : Has(Tail(p), Reply(c)) <=> Has(p, Reply(c))
       /\ Has(Tail(p), Cleanup) <=> Has(p, Cleanup)
  BY <1>4, <1>8
<1>13. ~Awaits(TM)
  BY <1>8 DEF Awaits, i, p
<1>14. ~Awaits(TM)'
  BY <1>2, <1>5, <1>8 DEF Awaits
<1>15. \A c : /\ ToInsert(c) <=> Has(p, Change("insert", c))
              /\ ToWake(c) <=> Has(p, Change("setready", c))
  BY DEF ToInsert, ToWake, p
<1>16. \A c : /\ ToInsert(c)' <=> Has(Tail(p), Change("insert", c))
              /\ ToWake(c)' <=> Has(Tail(p), Change("setready", c))
  BY <1>2 DEF ToInsert, ToWake
<1>17. /\ \A c : ToInsert(c)' <=> ToInsert(c) /\ i # Change("insert", c)
       /\ \A c : ToWake(c)' <=> ToWake(c) /\ i # Change("setready", c)
  BY <1>11, <1>15, <1>16
<1>18. /\ \A c : Has(todo'[TM], Reply(c)) <=> Has(p, Reply(c))
       /\ Has(todo'[TM], Cleanup) <=> Has(p, Cleanup)
       /\ \A j : Has(todo'[TM], j) => Follows(i, j)
  BY <1>2, <1>5, <1>12
<1> QED BY <1>2, <1>3, <1>4, <1>5, <1>7, <1>10, <1>13, <1>14, <1>17, <1>18 DEF i, p

\* A thread that has been inserted starts to run.
LEMMA SetReadyPart ==
    ASSUME IndInv, sched.running = TM, NEW c \in Thread \ {TM, MM}, todo[TM] # << >>,
           Head(todo[TM]) = Change("setready", c),
           sched' = schedulerSetReady(sched, c),
           todo' = [todo EXCEPT ![TM] = Tail(@)], UNCHANGED <<owner, mail, answered>>
    PROVE  Orderly' /\ SchedSound(sched') /\ sched'.running = TM
<1>1. /\ Typed /\ Programs /\ SchedSound(sched)
      /\ Life /\ Sleepers /\ TmCalls /\ IoCalls /\ DriverStart
      /\ Single /\ Boot /\ Turn /\ UsersLate
  BY DEF IndInv, Orderly
<1>2. /\ TM \in Servers /\ MM \in Servers /\ IO \in Servers /\ Driver \in Servers
      /\ \A s \in Servers : s \in Thread
  BY Distinct DEF Servers
<1>3. /\ todo'[TM] = Tail(todo[TM])
      /\ \A x \in Thread \ {TM} : todo'[x] = todo[x]
      /\ \A s \in Servers : mail'[s] = mail[s]
  BY <1>1, <1>2 DEF Typed
<1> PICK i : i = Head(todo[TM])
  OBVIOUS
<1>4. /\ i.do = "setready" /\ i.do \in {"insert", "setready", "remove"}
      /\ \A d : i # Change("insert", d)
      /\ \A d : i = Change("setready", d) <=> d = c
      /\ ~Follows(i, Change("insert", c))
  <2>1. i = Change("setready", c)
    OBVIOUS
  <2> QED BY <2>1, Kinds DEF Follows
<1>5. /\ \A d : ToInsert(d)' <=> ToInsert(d)
      /\ \A d : ToWake(d)' <=> ToWake(d) /\ d # c
      /\ Has(todo[TM], i)
      /\ \A j : Has(todo'[TM], j) => Follows(i, j)
  BY <1>1, <1>3, <1>4, TmTail
<1>6. /\ \A d : Has(todo'[TM], Reply(d)) <=> Has(todo[TM], Reply(d))
      /\ Has(todo'[TM], Cleanup) <=> Has(todo[TM], Cleanup)
      /\ ~Awaits(TM) /\ ~Awaits(TM)'
      /\ \A u : todo[TM] # <<Reply(u)>>
  BY <1>1, <1>3, <1>4, TmTail
<1>7. ToWake(c) /\ ~ToInsert(c)
  BY <1>4, <1>5 DEF ToInsert, ToWake
<1>8. Asleep(c) /\ ~Gone(c)
  BY <1>1, <1>7 DEF Life, Asleep, Gone, Blocked, Absent
<1>9. Kept(sched', sched, {c}) /\ ~Gone(c)' /\ ~Asleep(c)' /\ sched'.running = TM
  BY <1>1, <1>8, ChangeKeeps DEF Gone, Asleep
<1>10. /\ \A d \in Thread : Gone(d)' <=> Gone(d)
       /\ \A d \in Thread \ {c} : Asleep(d)' <=> Asleep(d)
       /\ ~Asleep(TM) /\ ~Asleep(TM)'
  BY <1>1, <1>2, <1>8, <1>9 DEF Kept, Gone, Asleep, SchedSound, Blocked
<1>11. /\ \A s \in Servers \ {TM} : (Busy(s)' <=> Busy(s)) /\ (Awaits(s)' <=> Awaits(s))
       /\ Busy(TM)
       /\ todo'[MM] = todo[MM] /\ todo'[IO] = todo[IO]
       /\ ToAsk' <=> ToAsk
       /\ \A u \in Users : todo'[u] = todo[u]
  BY <1>2, <1>3, Distinct DEF Busy, Awaits, ToAsk
<1>12. MmOwes' <=> MmOwes
  BY <1>2, <1>3, <1>11 DEF MmOwes
<1>13. DriverUp => DriverUp'
  BY <1>2, <1>5, <1>10 DEF DriverUp
<1>14. Life'
  BY <1>1, <1>2, <1>3, <1>5, <1>9, <1>10, Distinct DEF Life, FirstProgram
<1>15. Sleepers'
  BY <1>1, <1>2, <1>3, <1>5, <1>9, <1>10, <1>11, Distinct DEF Sleepers
<1>16. TmCalls'
  BY <1>1, <1>6, <1>12 DEF TmCalls
<1>17. IoCalls'
  BY <1>1, <1>2, <1>3, <1>6, <1>11, Distinct DEF IoCalls, TmOwes
<1>18. DriverStart'
  BY <1>1, <1>2, <1>3, <1>5, <1>6, <1>10, <1>11, Distinct DEF DriverStart
<1>19. Single'
  BY <1>1, <1>2, <1>3, Distinct DEF Single
<1>20. Boot'
  BY <1>1, <1>2, <1>3, <1>6, <1>11, <1>12, <1>13, Distinct DEF Boot
<1>21. Turn'
  <2>1. ~OneWorks
    <3>1. \A s \in {MM, IO, Driver} : TM \in Servers \ {s}
      BY <1>2, Distinct
    <3> QED BY <1>11, <3>1 DEF OneWorks
  <2>2. TmWorks => TmWorks'
    BY <1>2, <1>3, <1>6, <1>11, <1>12, Distinct DEF TmWorks
  <2> QED BY <1>1, <1>2, <1>10, <2>1, <2>2 DEF Turn
<1>22. UsersLate'
  BY <1>1, <1>2, <1>5, <1>10, <1>11, <1>13 DEF UsersLate
<1> QED BY <1>9, <1>14, <1>15, <1>16, <1>17, <1>18, <1>19, <1>20, <1>21, <1>22 DEF Orderly, Kept

\* A thread is removed: TM neither inserts nor wakes anybody in that program.
LEMMA RemovePart ==
    ASSUME IndInv, sched.running = TM, NEW u \in Users, todo[TM] # << >>,
           Head(todo[TM]) = Change("remove", u),
           sched' = schedulerRemove(sched, u),
           todo' = [todo EXCEPT ![TM] = Tail(@), ![u] = << >>],
           answered' = answered \ {u}, UNCHANGED <<owner, mail>>
    PROVE  Orderly' /\ SchedSound(sched') /\ sched'.running = TM
<1>1. /\ Typed /\ Programs /\ SchedSound(sched)
      /\ Life /\ Sleepers /\ TmCalls /\ IoCalls /\ DriverStart
      /\ Single /\ Boot /\ Turn /\ UsersLate
  BY DEF IndInv, Orderly
<1>2. /\ TM \in Servers /\ MM \in Servers /\ IO \in Servers /\ Driver \in Servers
      /\ \A s \in Servers : s \in Thread /\ s # u
      /\ u \in Thread /\ u # TM
  BY Distinct DEF Servers
<1>3. /\ todo'[TM] = Tail(todo[TM]) /\ todo'[u] = << >>
      /\ \A x \in Thread \ {TM, u} : todo'[x] = todo[x]
      /\ \A s \in Servers : mail'[s] = mail[s]
      /\ \A x : x # u => (x \in answered' <=> x \in answered)
  BY <1>1, <1>2 DEF Typed
<1> PICK i : i = Head(todo[TM])
  OBVIOUS
<1>4. /\ i.do = "remove" /\ i.do \in {"insert", "setready", "remove"}
      /\ \A d : i # Change("insert", d) /\ i # Change("setready", d)
      /\ \A d : ~Follows(i, Change("insert", d)) /\ ~Follows(i, Change("setready", d))
  <2>1. i = Change("remove", u)
    OBVIOUS
  <2> QED BY <2>1, Kinds DEF Follows
<1>5. /\ \A d : ToInsert(d)' <=> ToInsert(d)
      /\ \A d : ToWake(d)' <=> ToWake(d)
      /\ \A j : Has(todo'[TM], j) => Follows(i, j)
  BY <1>1, <1>3, <1>4, TmTail
<1>6. /\ \A d : Has(todo'[TM], Reply(d)) <=> Has(todo[TM], Reply(d))
      /\ Has(todo'[TM], Cleanup) <=> Has(todo[TM], Cleanup)
      /\ ~Awaits(TM) /\ ~Awaits(TM)'
      /\ \A v : todo[TM] # <<Reply(v)>>
  BY <1>1, <1>3, <1>4, TmTail
<1>7. \A d : ~ToWake(d) /\ ~ToInsert(d) /\ ~ToWake(d)' /\ ~ToInsert(d)'
  BY <1>4, <1>5 DEF ToInsert, ToWake
<1>8. Kept(sched', sched, {u}) /\ Gone(u)' /\ sched'.running = TM
  BY <1>1, <1>2, ChangeKeeps DEF Gone
<1>9. /\ \A d \in Thread \ {u} : (Gone(d)' <=> Gone(d)) /\ (Asleep(d)' <=> Asleep(d))
      /\ ~Asleep(TM) /\ ~Asleep(TM)'
  BY <1>1, <1>2, <1>8 DEF Kept, Gone, Asleep, SchedSound, Blocked
<1>10. /\ \A s \in Servers \ {TM} : (Busy(s)' <=> Busy(s)) /\ (Awaits(s)' <=> Awaits(s))
       /\ Busy(TM)
       /\ todo'[MM] = todo[MM] /\ todo'[IO] = todo[IO]
       /\ ToAsk' <=> ToAsk
       /\ \A v \in Users : todo'[v] # << >> => todo[v] # << >>
  BY <1>2, <1>3, Distinct DEF Busy, Awaits, ToAsk
<1>11. MmOwes' <=> MmOwes
  BY <1>2, <1>3, <1>10 DEF MmOwes
<1>12. DriverUp' <=> DriverUp
  BY <1>2, <1>5, <1>9 DEF DriverUp
<1>13. Life'
  BY <1>1, <1>2, <1>3, <1>7, <1>8, <1>9, Distinct DEF Life
<1>14. Sleepers'
  BY <1>1, <1>2, <1>3, <1>5, <1>9, <1>10, Distinct DEF Sleepers
<1>15. TmCalls'
  BY <1>1, <1>2, <1>3, <1>6, <1>11 DEF TmCalls
<1>16. IoCalls'
  BY <1>1, <1>2, <1>3, <1>6, <1>10, Distinct DEF IoCalls, TmOwes
<1>17. DriverStart'
  BY <1>1, <1>2, <1>3, <1>5, <1>6, <1>9, <1>10, Distinct DEF DriverStart
<1>18. Single'
  BY <1>1, <1>2, <1>3, Distinct DEF Single
<1>19. Boot'
  BY <1>1, <1>2, <1>3, <1>6, <1>10, <1>11, <1>12, Distinct DEF Boot
<1>20. Turn'
  <2>1. ~OneWorks
    <3>1. \A s \in {MM, IO, Driver} : TM \in Servers \ {s}
      BY <1>2, Distinct
    <3> QED BY <1>10, <3>1 DEF OneWorks
  <2>2. TmWorks => TmWorks'
    BY <1>2, <1>3, <1>6, <1>10, <1>11, Distinct DEF TmWorks
  <2> QED BY <1>1, <1>2, <1>9, <2>1, <2>2 DEF Turn
<1>21. UsersLate'
  BY <1>1, <1>2, <1>5, <1>9, <1>10, <1>12 DEF UsersLate
<1> QED BY <1>8, <1>13, <1>14, <1>15, <1>16, <1>17, <1>18, <1>19, <1>20, <1>21 DEF Orderly, Kept

\* A thread comes into being.  The driver does so while the I/O thread waits.
LEMMA InsertPart ==
    ASSUME IndInv, sched.running = TM, NEW c \in Thread \ {TM, MM}, todo[TM] # << >>,
           Head(todo[TM]) = Change("insert", c),
           sched' = schedulerInsert(sched, c),
           todo' = [todo EXCEPT ![TM] = Tail(@), ![c] = FirstProgram(c)],
           UNCHANGED <<owner, mail, answered>>
    PROVE  Orderly' /\ SchedSound(sched') /\ sched'.running = TM
<1>1. /\ Typed /\ Programs /\ SchedSound(sched)
      /\ Life /\ Sleepers /\ TmCalls /\ IoCalls /\ DriverStart
      /\ Single /\ Boot /\ Turn /\ UsersLate
  BY DEF IndInv, Orderly
<1>2. /\ TM \in Servers /\ MM \in Servers /\ IO \in Servers /\ Driver \in Servers
      /\ \A s \in Servers : s \in Thread
      /\ c \in Thread /\ c # TM /\ c # MM
      /\ \A j : ~Has(<< >>, j)
  BY Distinct DEF Servers, Has
<1>3. /\ todo'[TM] = Tail(todo[TM]) /\ todo'[c] = FirstProgram(c)
      /\ \A x \in Thread \ {TM, c} : todo'[x] = todo[x]
      /\ \A s \in Servers : mail'[s] = mail[s]
  BY <1>1, <1>2 DEF Typed
<1> PICK i : i = Head(todo[TM])
  OBVIOUS
<1>4. /\ i.do = "insert" /\ i.do \in {"insert", "setready", "remove"}
      /\ \A d : i # Change("setready", d)
      /\ \A d : i = Change("insert", d) <=> d = c
  <2>1. i = Change("insert", c)
    OBVIOUS
  <2> QED BY <2>1, Kinds
<1>5. /\ \A d : ToInsert(d)' <=> ToInsert(d) /\ d # c
      /\ \A d : ToWake(d)' <=> ToWake(d)
      /\ ToInsert(c)
  <2>1. /\ \A d : ToInsert(d)' <=> ToInsert(d) /\ d # c
        /\ \A d : ToWake(d)' <=> ToWake(d)
        /\ Has(todo[TM], i)
    BY <1>1, <1>3, <1>4, TmTail
  <2> QED BY <1>4, <2>1 DEF ToInsert
<1>6. /\ \A d : Has(todo'[TM], Reply(d)) <=> Has(todo[TM], Reply(d))
      /\ Has(todo'[TM], Cleanup) <=> Has(todo[TM], Cleanup)
      /\ ~Awaits(TM) /\ ~Awaits(TM)'
      /\ \A v : todo[TM] # <<Reply(v)>>
  BY <1>1, <1>3, <1>4, TmTail
<1>7. /\ ToWake(c) /\ Gone(c) /\ todo[c] = << >> /\ (c \in Servers => mail[c] = << >>)
      /\ c = Driver => Has(todo[TM], Reply(IO))
  BY <1>1, <1>2, <1>5 DEF Programs, Complete, ToInsert, ToWake, Life
<1>8. Kept(sched', sched, {c}) /\ Asleep(c)' /\ ~Gone(c)' /\ sched'.running = TM
  BY <1>1, <1>7, ChangeKeeps DEF Gone, Asleep, Absent, Blocked
<1>9. /\ \A d \in Thread \ {c} : (Gone(d)' <=> Gone(d)) /\ (Asleep(d)' <=> Asleep(d))
      /\ ~Asleep(TM) /\ ~Asleep(TM)'
  BY <1>1, <1>2, <1>8 DEF Kept, Gone, Asleep, SchedSound, Blocked
<1>10. /\ \A s \in Servers \ {TM, c} : (Busy(s)' <=> Busy(s)) /\ (Awaits(s)' <=> Awaits(s))
       /\ Busy(TM) /\ todo'[MM] = todo[MM]
       /\ \A d : d # IO => FirstProgram(d) = << >>
       /\ FirstProgram(IO) = IoBoot
  BY <1>2, <1>3, Distinct DEF Busy, Awaits, FirstProgram
<1>11. /\ c # IO => todo'[IO] = todo[IO] /\ (ToAsk' <=> ToAsk) /\ (Awaits(IO)' <=> Awaits(IO))
       /\ c = IO => todo'[IO] = IoBoot /\ ToAsk' /\ ~Awaits(IO)' /\ ~Awaits(IO)
       /\ c = Driver => ~Busy(Driver)' /\ ~Busy(Driver)
       /\ \A u \in Users : todo'[u] = todo[u] \/ todo'[u] = << >>
  <2>1. c # IO => todo'[IO] = todo[IO] /\ (ToAsk' <=> ToAsk) /\ (Awaits(IO)' <=> Awaits(IO))
    BY <1>2, <1>3, Distinct DEF Awaits, ToAsk
  <2>2. ASSUME c = IO
        PROVE  todo'[IO] = IoBoot /\ ToAsk' /\ ~Awaits(IO)' /\ ~Awaits(IO)
    <3>1. todo'[IO] = IoBoot /\ todo[IO] = << >>
      BY <1>3, <1>7, <1>10, <2>2
    <3> QED BY <3>1, IoBoots DEF ToAsk, Awaits
  <2>3. c = Driver => ~Busy(Driver)' /\ ~Busy(Driver)
    BY <1>2, <1>3, <1>7, <1>10, Distinct DEF Busy
  <2>4. \A u \in Users : todo'[u] = todo[u] \/ todo'[u] = << >>
    BY <1>2, <1>3, <1>10, Distinct
  <2> QED BY <2>1, <2>2, <2>3, <2>4
<1>12. (MmOwes' <=> MmOwes) /\ ~MmOwes /\ (TmOwes' <=> TmOwes)
  <2>1. MmOwes' <=> MmOwes
    BY <1>2, <1>3, <1>10 DEF MmOwes
  <2>2. ~MmOwes
    BY <1>1, <1>6 DEF TmCalls
  <2>3. TmOwes' <=> TmOwes
    BY <1>2, <1>3, <1>6 DEF TmOwes
  <2> QED BY <2>1, <2>2, <2>3
<1>13. DriverUp' <=> DriverUp
  BY <1>2, <1>5, <1>7, <1>8, <1>9 DEF DriverUp
<1>14. c = IO => ~TmOwes /\ Gone(Driver) /\ ~ToInsert(Driver) /\ Gone(Driver)'
  <2> SUFFICES ASSUME c = IO
               PROVE  ~TmOwes /\ Gone(Driver) /\ ~ToInsert(Driver) /\ Gone(Driver)'
    OBVIOUS
  <2>1. ~TmOwes
    BY <1>1, <1>11 DEF IoCalls
  <2>2. Gone(Driver)
    BY <1>1, <1>7 DEF Life
  <2>3. ~ToInsert(Driver)
    BY <1>1, <2>1 DEF Programs, Complete, ToInsert, TmOwes
  <2> QED BY <1>2, <1>9, <2>1, <2>2, <2>3, Distinct
<1>15. c = Driver =>
          /\ TmOwes /\ Awaits(IO) /\ IO \notin answered /\ ~Gone(IO)
          /\ mail[TM] = << >> /\ ~DriverUp /\ ~ToAsk
  <2> SUFFICES ASSUME c = Driver
               PROVE  /\ TmOwes /\ Awaits(IO) /\ IO \notin answered /\ ~Gone(IO)
                      /\ mail[TM] = << >> /\ ~DriverUp /\ ~ToAsk
    OBVIOUS
  <2>1. TmOwes /\ Awaits(IO) /\ IO \notin answered
    BY <1>1, <1>7 DEF IoCalls, TmOwes
  <2>2. ~Gone(IO)
    BY <1>1, <1>2, <2>1 DEF Life, Awaits
  <2>3. ~DriverUp /\ ~ToAsk
    BY <1>1, <1>5, <1>7 DEF DriverUp, DriverStart
  <2>4. mail[TM] = << >>
    BY <1>1, <1>7, <2>3 DEF Boot, IoCalls
  <2> QED BY <2>1, <2>2, <2>3, <2>4
<1>16. Life'
  <2>1. \A d \in Thread : ToInsert(d)' => Gone(d)'
    BY <1>1, <1>5, <1>9 DEF Life
  <2>2. \A d \in Thread : ToWake(d)' /\ ~ToInsert(d)' => Asleep(d)' /\ todo'[d] = FirstProgram(d)
    BY <1>1, <1>2, <1>3, <1>5, <1>8, <1>9 DEF Life
  <2>3. \A d \in Thread : Gone(d)' => todo'[d] = << >> /\ (d \in Servers => mail'[d] = << >>)
    BY <1>1, <1>2, <1>3, <1>8, <1>9, <2>1 DEF Life
  <2>4. ~Gone(TM)' /\ ~Gone(MM)'
    BY <1>1, <1>2, <1>9 DEF Life
  <2>5. Gone(IO)' => ToInsert(IO)' /\ Gone(Driver)'
    BY <1>1, <1>2, <1>5, <1>8, <1>9, <1>15, Distinct DEF Life
  <2>6. Gone(Idle)' \/ Asleep(Idle)' => ToWake(Idle)'
    BY <1>1, <1>5, <1>7, <1>9, Distinct DEF Life
  <2> QED BY <2>1, <2>2, <2>3, <2>4, <2>5, <2>6 DEF Life
<1>17. Sleepers'
  <2>1. Asleep(IO)' /\ Busy(IO)' /\ ~ToWake(IO)' => Awaits(IO)' /\ IO \notin answered'
    BY <1>1, <1>2, <1>5, <1>7, <1>9, <1>10, Distinct DEF Sleepers
  <2>2. \A s \in {MM, Driver} : Asleep(s)' => ~Busy(s)'
    BY <1>1, <1>2, <1>9, <1>10, <1>11, Distinct DEF Sleepers
  <2> QED BY <1>9, <2>1, <2>2 DEF Sleepers
<1>18. TmCalls'
  BY <1>1, <1>6, <1>12 DEF TmCalls
<1>19. IoCalls'
  BY <1>1, <1>2, <1>3, <1>6, <1>11, <1>12 DEF IoCalls
<1>20. DriverStart'
  <2>1. CASE c = IO
    BY <1>2, <1>3, <1>5, <1>6, <1>11, <1>14, <2>1, Distinct DEF DriverStart, TmOwes
  <2>2. CASE c = Driver
    <3>1. mail'[TM] # <<StartDriver>>
      <4>1. << >> # <<StartDriver>>
        OBVIOUS
      <4> QED BY <1>2, <1>3, <1>15, <2>2, <4>1
    <3> QED BY <1>8, <1>11, <1>15, <2>2, <3>1, Distinct DEF DriverStart
  <2>3. CASE c # IO /\ c # Driver
    BY <1>1, <1>2, <1>3, <1>5, <1>6, <1>9, <1>11, <2>3 DEF DriverStart
  <2> QED BY <2>1, <2>2, <2>3
<1>21. Single'
  BY <1>1, <1>2, <1>3, <1>7, Distinct DEF Single
<1>22. Boot'
  <2> SUFFICES ASSUME ~DriverUp
               PROVE  /\ \A u \in Users : /\ todo'[u] = << >>
                                          /\ ~Has(todo'[TM], Reply(u)) /\ ~Has(todo'[IO], Reply(u))
                      /\ \A r \in DriverRequest : ~Has(todo'[IO], Send(Driver, r))
                      /\ ~Has(todo'[TM], Cleanup)
                      /\ mail'[IO] = << >> /\ ~Busy(Driver)'
                      /\ mail'[TM] \in {<< >>, <<StartDriver>>}
                      /\ Busy(MM)' => MmOwes'
    BY <1>13 DEF Boot
  <2>1. \A u \in Users : todo'[u] = << >> /\ ~Has(todo'[TM], Reply(u))
    BY <1>1, <1>6, <1>11 DEF Boot
  <2>2. /\ \A u \in Users : ~Has(todo'[IO], Reply(u))
        /\ \A r \in DriverRequest : ~Has(todo'[IO], Send(Driver, r))
    BY <1>1, <1>11, IoBoots DEF Boot
  <2>3. ~Has(todo'[TM], Cleanup) /\ mail'[IO] = << >> /\ mail'[TM] \in {<< >>, <<StartDriver>>}
    BY <1>1, <1>2, <1>3, <1>6 DEF Boot
  <2>4. ~Busy(Driver)' /\ (Busy(MM)' => MmOwes')
    BY <1>1, <1>2, <1>10, <1>11, <1>12, Distinct DEF Boot
  <2> QED BY <2>1, <2>2, <2>3, <2>4
<1>23. Turn'
  <2>1. ~OneWorks
    <3>1. \A s \in {MM, IO, Driver} : TM \in Servers \ {s}
      BY <1>2, Distinct
    <3> QED BY <1>10, <3>1 DEF OneWorks
  <2>2. CASE c = IO
    BY <1>14, <2>2 DEF Turn
  <2>3. CASE c = Driver
    BY <1>1, <1>2, <1>3, <1>10, <1>11, <1>12, <1>15, <2>3, Distinct DEF Boot, Turn, TmWorks
  <2>4. CASE c # IO /\ c # Driver
    <3>1. TmWorks => TmWorks'
      BY <1>2, <1>3, <1>6, <1>10, <1>11, <1>12, <2>4, Distinct DEF TmWorks
    <3> QED BY <1>1, <1>2, <1>9, <2>1, <2>4, <3>1 DEF Turn
  <2> QED BY <2>2, <2>3, <2>4
<1>24. UsersLate'
  <2>1. ASSUME NEW u \in Users, todo'[u] # << >>
        PROVE  DriverUp' /\ ~Gone(IO)' /\ ~ToWake(IO)'
    <3>1. todo[u] # << >>
      BY <1>11, <2>1
    <3>2. DriverUp /\ ~Gone(IO) /\ ~ToWake(IO)
      BY <1>1, <3>1 DEF UsersLate
    <3> QED BY <1>2, <1>5, <1>8, <1>9, <1>13, <3>2
  <2> QED BY <2>1 DEF UsersLate
<1> QED BY <1>8, <1>16, <1>17, <1>18, <1>19, <1>20, <1>21, <1>22, <1>23, <1>24 DEF Orderly, Kept

-----------------------------------------------------------------------------
(* The steps keep the invariant *)

\* What every instruction leaves of the programs and the locks.
LEMMA TailTyped ==
    ASSUME Typed, Locked, Programs, NEW t \in Thread, todo[t] # << >>,
           todo' = [todo EXCEPT ![t] = Tail(@)]
    PROVE  /\ todo' = [x \in Thread |-> todo'[x]]
           /\ \A x \in Thread : todo'[x] \in Sound(x)
           /\ Programs'
           /\ Head(todo[t]).do # "unlock" =>
                 \A l \in LockName, s \in Servers : owner[l] = s => Releases(todo'[s], l)
BY TailStep, LocksKept

\* A system call takes no lock, and TM holds none that matters.
LEMMA CallLocked ==
    ASSUME \A l \in LockName, s \in Servers : owner[l] = s => Releases(todo'[s], l),
           \A l \in TmLock : owner[l] = NULL, owner' = owner
    PROVE  Locked'
BY DEF Locked

LEMMA OneRequest ==
    ASSUME Typed, NEW s \in Servers, NEW r \in RequestOf(s),
           mail' = [mail EXCEPT ![s] = <<r>>]
    PROVE  /\ mail' = [x \in Servers |-> mail'[x]]
           /\ \A x \in Servers : mail'[x] \in {<< >>} \cup {<<q>> : q \in RequestOf(x)}
<1>1. /\ mail = [x \in Servers |-> mail[x]]
      /\ \A x \in Servers : mail[x] \in {<< >>} \cup {<<q>> : q \in RequestOf(x)}
  BY DEF Typed
<1>2. /\ mail' = [x \in Servers |-> mail'[x]]
      /\ mail'[s] = <<r>> /\ \A x \in Servers \ {s} : mail'[x] = mail[x]
  BY <1>1
<1> QED BY <1>1, <1>2

LEMMA SendKeeps ==
    ASSUME IndInv, NEW t \in Thread, SendStep(t)
    PROVE  IndInv'
<1>1. Typed /\ Locked /\ Programs
  BY DEF IndInv
<1>2. sched.running = t /\ todo[t] # << >> /\ Head(todo[t]).do = "send"
  BY DEF SendStep, IsAt
<1> PICK i : i = Head(todo[t])
  OBVIOUS
<1>3. i \in InstrOf(t)
  <2>1. todo[t] \in Seq(InstrOf(t))
    BY <1>1 DEF Typed, Sound
  <2> QED BY <1>2, <2>1, TailHas
<1>4. PICK s, r :
         /\ s \in Servers /\ r \in RequestOf(s) /\ i = Send(s, r)
         /\ \/ t = TM /\ i \in Asks \cup {Cleanup}
            \/ t = IO /\ i = Send(TM, StartDriver)
            \/ t = IO /\ s = Driver /\ r \in DriverRequest
            \/ t \in Users
  BY <1>2, <1>3, WhoSends
<1>4a. i.on = s /\ i.req = r
  BY <1>4, Kinds
<1>5. Orderly' /\ mail[s] = << >>
  <2>1. CASE t = TM /\ i \in Asks \cup {Cleanup}
    <3>1. s = MM
      BY <1>4, <2>1, KindsOfInstr, Kinds
    <3>2. mail[MM] = << >>
      BY <1>2, <2>1, MmFree DEF Busy
    <3> QED BY <2>1, <3>1, <3>2, AskStep, CleanupStep
  <2>2. CASE t = IO /\ i = Send(TM, StartDriver)
    <3>1. i.on = TM
      BY <2>2, Kinds
    <3> QED BY <2>2, <3>1, <1>4a, StartStep
  <2>3. CASE t = IO /\ s = Driver /\ r \in DriverRequest
    BY <1>4, <2>3, CloseStep
  <2>4. CASE t \in Users
    <3>1. i \in UserInstr(t)
      BY <1>3, <2>4, ServerInstructions
    <3>2. PICK x \in Servers : \E q \in RequestOf(x) : i = Send(x, q) /\ q.from = t
      <4>1. Await.do # "send"
        BY Kinds
      <4> QED BY <1>2, <3>1, <4>1 DEF UserInstr
    <3>3. PICK q \in RequestOf(x) : i = Send(x, q) /\ q.from = t
      BY <3>2
    <3>5. i.req = q
      BY <3>3, Kinds
    <3>4. r.from = t
      BY <3>3, <3>5, <1>4a
    <3> QED BY <1>4, <2>4, <3>4, UserSendStep
  <2> QED BY <1>4, <2>1, <2>2, <2>3, <2>4
<1>6. /\ todo' = [todo EXCEPT ![t] = Tail(@)]
      /\ mail' = [mail EXCEPT ![s] = <<r>>]
      /\ owner' = owner /\ answered' = answered
      /\ Kept(sched', sched, {s})
      /\ \A l \in TmLock : owner[l] = NULL
  BY <1>4, <1>5, SendEffect
<1>7. /\ todo' = [x \in Thread |-> todo'[x]]
      /\ \A x \in Thread : todo'[x] \in Sound(x)
      /\ Programs'
      /\ \A l \in LockName, x \in Servers : owner[l] = x => Releases(todo'[x], l)
  BY <1>1, <1>2, <1>6, TailTyped
<1>8. Locked'
  BY <1>6, <1>7, CallLocked
<1>9. /\ mail' = [x \in Servers |-> mail'[x]]
      /\ \A x \in Servers : mail'[x] \in {<< >>} \cup {<<q>> : q \in RequestOf(x)}
  BY <1>1, <1>4, <1>6, OneRequest
<1>10. Typed'
  BY <1>1, <1>6, <1>7, <1>9 DEF Typed
<1> QED BY <1>5, <1>6, <1>7, <1>8, <1>10 DEF IndInv, Kept

LEMMA ReplyKeeps ==
    ASSUME IndInv, NEW t \in Thread, ReplyStep(t)
    PROVE  IndInv'
<1>1. Typed /\ Locked /\ Programs
  BY DEF IndInv
<1>2. todo[t] # << >> /\ Head(todo[t]).do = "reply"
  BY DEF ReplyStep, IsAt
<1>3. Orderly' /\ \E u : Head(todo[t]) = Reply(u)
  BY AnswerStep
<1>4. PICK u : Head(todo[t]) = Reply(u)
  BY <1>3
<1>5. /\ todo' = [todo EXCEPT ![t] = Tail(@)]
      /\ owner' = owner /\ mail' = mail
      /\ answered' \subseteq Thread
      /\ Kept(sched', sched, {u})
      /\ \A l \in TmLock : owner[l] = NULL
  BY <1>4, ReplyEffect
<1>6. /\ todo' = [x \in Thread |-> todo'[x]]
      /\ \A x \in Thread : todo'[x] \in Sound(x)
      /\ Programs'
      /\ \A l \in LockName, x \in Servers : owner[l] = x => Releases(todo'[x], l)
  BY <1>1, <1>2, <1>5, TailTyped
<1>7. Locked'
  BY <1>5, <1>6, CallLocked
<1>8. Typed'
  BY <1>1, <1>5, <1>6 DEF Typed
<1> QED BY <1>3, <1>5, <1>6, <1>7, <1>8 DEF IndInv, Kept

LEMMA AwaitKeeps ==
    ASSUME IndInv, NEW t \in Thread, AwaitStep(t)
    PROVE  IndInv'
<1>1. Typed /\ Locked /\ Programs
  BY DEF IndInv
<1>2. /\ sched.running = t /\ todo[t] # << >> /\ Head(todo[t]).do = "await"
      /\ owner' = owner /\ mail' = mail
  BY DEF AwaitStep, IsAt
<1>3. Orderly' /\ SchedSound(sched')
  BY AwaitPart
<1>4. \A l \in TmLock : owner[l] = NULL
  BY <1>1, <1>2, HandlerSchedules DEF SystemCall
<1>5. /\ todo' = [x \in Thread |-> todo'[x]]
      /\ \A x \in Thread : todo'[x] \in Sound(x)
      /\ Programs'
      /\ \A l \in LockName, x \in Servers : owner[l] = x => Releases(todo'[x], l)
      /\ answered' \subseteq Thread
  <2>1. CASE t \in answered
    <3>1. todo' = [todo EXCEPT ![t] = Tail(@)] /\ answered' = answered \ {t}
      BY <2>1 DEF AwaitStep
    <3> QED BY <1>1, <1>2, <3>1, TailTyped DEF Typed
  <2>2. CASE t \notin answered
    <3>1. todo' = todo /\ answered' = answered
      BY <2>2 DEF AwaitStep
    <3> QED BY <1>1, <3>1 DEF Typed, Locked, Programs
  <2> QED BY <2>1, <2>2
<1>6. Locked'
  BY <1>2, <1>4, <1>5, CallLocked
<1>7. Typed'
  BY <1>1, <1>2, <1>5 DEF Typed
<1> QED BY <1>3, <1>5, <1>6, <1>7 DEF IndInv

LEMMA ReceiveKeeps ==
    ASSUME IndInv, NEW s \in Servers, ReceiveStep(s)
    PROVE  IndInv'
<1>1. Typed /\ Locked /\ Programs /\ SchedSound(sched)
  BY DEF IndInv
<1>2. /\ sched.running = s /\ todo[s] = << >> /\ s \in Thread
      /\ owner' = owner /\ answered' = answered
  BY LocksAssumption DEF ReceiveStep
<1>3. \A l \in TmLock : owner[l] = NULL
  BY <1>1, <1>2, HandlerSchedules
<1>4. \A l \in LockName : owner[l] # s
  BY <1>1, <1>2, HandlerSchedules
<1>5. CASE mail[s] = << >>
  <2>1. Orderly' /\ SchedSound(sched')
    BY <1>5, IdleStep
  <2>2. todo' = todo /\ mail' = mail
    BY <1>5 DEF ReceiveStep
  <2> QED BY <1>1, <1>2, <1>3, <2>1, <2>2 DEF IndInv, Typed, Locked, Programs
<1>6. CASE mail[s] # << >>
  <2>1. PICK r, p : Takes(s, r, p)
    BY <1>6, TakeEffect
  <2>2. /\ mail' = [mail EXCEPT ![s] = << >>]
        /\ todo' = [todo EXCEPT ![s] = p] /\ todo'[s] = p
        /\ \A x \in Thread \ {s} : todo'[x] = todo[x]
        /\ sched' = sched
        /\ \A x \in Servers : x \in Thread
    BY <2>1 DEF Takes
  <2>3. /\ Orderly'
        /\ todo'[s] \in Sound(s) /\ Formed(todo'[s]) /\ (s = TM => Complete(todo'[TM]))
    BY <1>6, TmTakes, MmTakes, DeviceTakes DEF Servers
  <2>4. /\ todo' = [x \in Thread |-> todo'[x]]
        /\ \A x \in Thread : todo'[x] \in Sound(x)
    BY <1>1, <2>2, <2>3 DEF Typed
  <2>5. Programs'
    <3>1. s # TM => todo'[TM] = todo[TM]
      BY <2>2, Distinct
    <3> QED BY <1>1, <2>2, <2>3, <3>1 DEF Programs
  <2>6. Locked'
    <3>1. \A l \in LockName, x \in Servers : owner[l] = x => Releases(todo'[x], l)
      BY <1>1, <1>4, <2>2 DEF Locked
    <3> QED BY <1>2, <1>3, <3>1, CallLocked
  <2>7. /\ mail' = [x \in Servers |-> mail'[x]]
        /\ \A x \in Servers : mail'[x] \in {<< >>} \cup {<<q>> : q \in RequestOf(x)}
    BY <1>1, <2>2 DEF Typed
  <2>8. Typed'
    BY <1>1, <1>2, <2>4, <2>7 DEF Typed
  <2> QED BY <1>1, <2>2, <2>3, <2>5, <2>6, <2>8 DEF IndInv
<1> QED BY <1>5, <1>6

LEMMA LockKeeps ==
    ASSUME IndInv, NEW t \in Thread, LockStep(t) \/ UnlockStep(t)
    PROVE  IndInv'
<1>1. Typed /\ Locked /\ Programs /\ SchedSound(sched)
  BY DEF IndInv
<1> PICK i : i = Head(todo[t])
  OBVIOUS
<1> PICK l : l = i.on
  OBVIOUS
<1>2. /\ sched.running = t /\ todo[t] # << >> /\ i.do \in {"lock", "unlock"}
      /\ todo' = [todo EXCEPT ![t] = Tail(@)]
      /\ sched' = sched /\ mail' = mail /\ answered' = answered
      /\ i.do = "lock" => owner' = [owner EXCEPT ![l] = t]
      /\ i.do = "unlock" => owner' = [owner EXCEPT ![l] = NULL]
  BY DEF LockStep, UnlockStep, IsAt
<1>3. todo[t] \in Seq(InstrOf(t)) /\ i \in InstrOf(t) /\ \A k \in LockName : Brackets(todo[t], k)
  <2>1. todo[t] \in Seq(InstrOf(t)) /\ \A k \in LockName : Brackets(todo[t], k)
    BY <1>1 DEF Typed, Sound
  <2> QED BY <1>2, <2>1, TailHas
<1>4. /\ t \in Servers /\ l \in LockName
      /\ l \in TmLock => t = TM
      /\ i = IF i.do = "lock" THEN Lock(l) ELSE Unlock(l)
  BY <1>2, <1>3, WhoLocks
<1>5. Orderly'
  BY <1>2, <1>4, QuietStep
<1>6. /\ todo' = [x \in Thread |-> todo'[x]]
      /\ \A x \in Thread : todo'[x] \in Sound(x)
      /\ Programs'
      /\ todo'[t] = Tail(todo[t]) /\ \A x \in Thread \ {t} : todo'[x] = todo[x]
  BY <1>1, <1>2, TailStep
<1>7. owner' \in [LockName -> Servers \cup {NULL}]
  BY <1>1, <1>2, <1>4 DEF Typed
<1>8. /\ \A k \in LockName \ {l} : owner'[k] = owner[k]
      /\ owner'[l] = IF i.do = "lock" THEN t ELSE NULL
  BY <1>1, <1>2, <1>4 DEF Typed
<1>9. ASSUME NEW k \in LockName, NEW s \in Servers, owner'[k] = s
      PROVE  Releases(todo'[s], k)
  <2>1. CASE k # l
    <3>1. owner[k] = s /\ Releases(todo[s], k) /\ s \in Thread
      BY <1>1, <1>8, <1>9, <2>1, LocksAssumption DEF Locked
    <3>2. i # Unlock(k)
      BY <1>4, <2>1, Kinds
    <3>3. Releases(todo[t], k) => Releases(Tail(todo[t]), k)
      BY <1>2, <1>3, <3>2, TailBrackets
    <3> QED BY <1>6, <3>1, <3>3
  <2>2. CASE k = l
    <3>1. i.do = "lock" /\ s = t
      <4>1. s # NULL
        BY LocksAssumption, SchedulerAssumption
      <4> QED BY <1>8, <1>9, <2>2, <4>1
    <3>2. Brackets(todo[t], l) /\ Head(todo[t]) = Lock(l)
      BY <1>3, <1>4, <3>1
    <3>3. Releases(Tail(todo[t]), l)
      BY <1>2, <1>3, <3>2, TailBrackets
    <3> QED BY <1>6, <2>2, <3>1, <3>3
  <2> QED BY <2>1, <2>2
<1>10. ASSUME NEW k \in TmLock, owner'[k] # NULL
       PROVE  owner'[k] = TM /\ sched'.running = TM
  <2>1. k \in LockName
    BY DEF TmLock, LockName
  <2>2. CASE k # l
    BY <1>1, <1>2, <1>8, <1>10, <2>1, <2>2 DEF Locked
  <2>3. CASE k = l
    BY <1>2, <1>4, <1>8, <1>10, <2>3
  <2> QED BY <2>2, <2>3
<1>11. Locked'
  BY <1>9, <1>10 DEF Locked
<1>12. Typed'
  BY <1>1, <1>2, <1>6, <1>7 DEF Typed
<1> QED BY <1>1, <1>2, <1>5, <1>6, <1>11, <1>12 DEF IndInv

\* TM moves a thread in the scheduler's lists.
LEMMA ListsKeep ==
    ASSUME IndInv, NEW t \in Thread, ChangeStep(t)
    PROVE  IndInv'
<1>1. Typed /\ Locked /\ Programs
  BY DEF IndInv
<1>2. /\ sched.running = t /\ todo[t] # << >>
      /\ Head(todo[t]).do \in {"insert", "setready", "remove"}
      /\ owner' = owner /\ mail' = mail
  BY DEF ChangeStep, IsAt
<1> PICK i : i = Head(todo[t])
  OBVIOUS
<1>3. i \in InstrOf(t)
  <2>1. todo[t] \in Seq(InstrOf(t))
    BY <1>1 DEF Typed, Sound
  <2> QED BY <1>2, <2>1, TailHas
<1>4. t = TM /\ i = Change(i.do, i.on) /\ i.on \in Thread \ {TM, MM}
      /\ (i.do = "remove" => i.on \in Users)
  BY <1>2, <1>3, WhoChanges
<1> PICK c : c = i.on
  OBVIOUS
<1>5. /\ c \in Thread \ {TM, MM} /\ TM \in Thread /\ TM \in Servers
      /\ TM # NULL /\ c # TM /\ c # MM /\ c # NULL
  BY <1>4, Distinct, SchedulerAssumption DEF Servers
\* What the three kinds have in common.
<1>6. /\ Orderly' /\ SchedSound(sched') /\ sched'.running = TM
      /\ todo' = [x \in Thread |-> todo'[x]]
      /\ todo'[TM] = Tail(todo[TM])
      /\ \A x \in Thread \ {TM, c} : todo'[x] = todo[x]
      /\ \/ todo'[c] = todo[c]
         \/ todo'[c] = << >> /\ c \in Users
         \/ todo'[c] = FirstProgram(c) /\ i = Change("insert", c)
      /\ answered' \subseteq Thread
  <2>1. todo = [x \in Thread |-> todo[x]] /\ answered \subseteq Thread
    BY <1>1 DEF Typed
  <2>2. CASE i.do = "insert"
    <3>1. /\ sched' = schedulerInsert(sched, c) /\ answered' = answered
          /\ todo' = [todo EXCEPT ![TM] = Tail(@), ![c] = FirstProgram(c)]
      BY <2>2, <1>4 DEF ChangeStep, IsAt
    <3>2. /\ todo' = [x \in Thread |-> todo'[x]]
          /\ todo'[TM] = Tail(todo[TM]) /\ todo'[c] = FirstProgram(c)
          /\ \A x \in Thread \ {TM, c} : todo'[x] = todo[x]
      BY <3>1, <2>1, <1>5
    <3>3. i = Change("insert", c)
      BY <2>2, <1>4
    <3>4. Orderly' /\ SchedSound(sched') /\ sched'.running = TM
      BY <3>1, <3>3, <1>2, <1>4, <1>5, InsertPart
    <3> QED BY <3>1, <3>2, <3>3, <3>4, <2>1
  <2>3. CASE i.do = "setready"
    <3>1. /\ sched' = schedulerSetReady(sched, c) /\ answered' = answered
          /\ todo' = [todo EXCEPT ![TM] = Tail(@)]
      BY <2>3, <1>4 DEF ChangeStep, IsAt
    <3>2. /\ todo' = [x \in Thread |-> todo'[x]]
          /\ todo'[TM] = Tail(todo[TM]) /\ todo'[c] = todo[c]
          /\ \A x \in Thread \ {TM, c} : todo'[x] = todo[x]
      BY <3>1, <2>1, <1>5
    <3>3. i = Change("setready", c)
      BY <2>3, <1>4
    <3>4. Orderly' /\ SchedSound(sched') /\ sched'.running = TM
      BY <3>1, <3>3, <1>2, <1>4, <1>5, SetReadyPart
    <3> QED BY <3>1, <3>2, <3>4, <2>1
  <2>4. CASE i.do = "remove"
    <3>1. /\ sched' = schedulerRemove(sched, c) /\ answered' = answered \ {c}
          /\ todo' = [todo EXCEPT ![TM] = Tail(@), ![c] = << >>]
      BY <2>4, <1>4 DEF ChangeStep, IsAt
    <3>2. /\ todo' = [x \in Thread |-> todo'[x]]
          /\ todo'[TM] = Tail(todo[TM]) /\ todo'[c] = << >>
          /\ \A x \in Thread \ {TM, c} : todo'[x] = todo[x]
      BY <3>1, <2>1, <1>5
    <3>3. i = Change("remove", c) /\ c \in Users
      BY <2>4, <1>4
    <3>4. Orderly' /\ SchedSound(sched') /\ sched'.running = TM
      BY <3>1, <3>3, <1>2, <1>4, RemovePart
    <3> QED BY <3>1, <3>2, <3>3, <3>4, <2>1
  <2> QED BY <1>2, <2>2, <2>3, <2>4
<1>7. todo'[TM] \in Sound(TM) /\ Formed(todo'[TM]) /\ Complete(todo'[TM])
  BY <1>1, <1>2, <1>4, <1>6, TmTail
<1>8. << >> \in Sound(c) /\ Formed(<< >>)
  BY EmptyDoes DEF Does
<1>9. FirstProgram(c) \in Sound(c) /\ Formed(FirstProgram(c))
  BY <1>8, IoBoots DEF FirstProgram
<1>10. Typed' /\ Programs'
  <2>1. ASSUME NEW x \in Thread PROVE todo'[x] \in Sound(x)
    BY <1>1, <1>6, <1>7, <1>8, <1>9 DEF Typed
  <2>2. ASSUME NEW s \in Servers PROVE Formed(todo'[s])
    <3>1. s \in Thread /\ Formed(todo[s])
      BY <1>1, LocksAssumption DEF Programs
    <3> QED BY <3>1, <1>6, <1>7, <1>8, <1>9
  <2>3. Typed'
    BY <1>1, <1>2, <1>6, <2>1 DEF Typed
  <2> QED BY <2>2, <2>3, <1>7 DEF Programs
<1>11. Locked'
  <2>1. ASSUME NEW l \in LockName, NEW s \in Servers, owner[l] = s
        PROVE  Releases(todo'[s], l)
    <3>1. Releases(todo[s], l)
      BY <2>1, <1>1 DEF Locked
    <3>2. CASE s = TM
      <4>1. todo[TM] \in Seq(InstrOf(TM)) /\ i # Unlock(l)
        <5>1. todo[TM] \in Seq(InstrOf(TM))
          BY <1>1, <1>5 DEF Typed, Sound
        <5>2. Unlock(l).do = "unlock"
          BY Kinds
        <5> QED BY <5>1, <5>2, <1>2
      <4> QED BY <3>1, <3>2, <4>1, <1>2, <1>4, <1>6, TailBrackets
    <3>3. CASE s = c
      <4>1. todo[c] # << >>
        <5>1. Len(<< >>) = 0 /\ 1 .. 0 = {}
          OBVIOUS
        <5> QED BY <3>1, <3>3, <5>1 DEF Releases
      <4>2. c \notin Users
        BY <3>3, Distinct DEF Servers
      <4>3. i # Change("insert", c)
        <5>1. ASSUME i = Change("insert", c) PROVE FALSE
          <6>1. ToInsert(c)
            <7>1. Head(todo[TM]).do \in {"insert", "setready", "remove"}
                  /\ Head(todo[TM]) = i /\ todo[TM] # << >>
              BY <1>2, <1>4
            <7>2. Has(todo[TM], i)
              BY <7>1, <1>1, <1>6, TmTail
            <7> QED BY <5>1, <7>2 DEF ToInsert
          <6>2. todo[c] = << >>
            BY <6>1, <1>5 DEF IndInv, Orderly, Life
          <6> QED BY <6>2, <4>1
        <5> QED BY <5>1
      <4> QED BY <3>1, <3>3, <4>2, <4>3, <1>6
    <3>4. CASE s \notin {TM, c}
      <4>1. s \in Thread
        BY LocksAssumption
      <4> QED BY <3>1, <3>4, <4>1, <1>6
    <3> QED BY <3>2, <3>3, <3>4
  <2>2. \A l \in TmLock : owner[l] # NULL => owner[l] = TM
    BY <1>1 DEF Locked
  <2> QED BY <2>1, <2>2, <1>2, <1>6 DEF Locked
<1> QED BY <1>6, <1>10, <1>11 DEF IndInv

\* A user thread chooses what to ask for.
LEMMA UserKeeps ==
    ASSUME IndInv, NEW u \in Thread, UserStep(u)
    PROVE  IndInv'
<1>1. Typed /\ Locked /\ Programs /\ SchedSound(sched)
  BY DEF IndInv
<1>2. /\ u \in Users /\ sched.running = u /\ todo[u] = << >>
      /\ sched' = sched /\ owner' = owner /\ mail' = mail /\ answered' = answered
      /\ \E p \in UserPrograms(u) : todo' = [todo EXCEPT ![u] = p]
  BY DEF UserStep
<1>3. PICK p \in UserPrograms(u) : todo' = [todo EXCEPT ![u] = p]
  BY <1>2
<1>4. p \in Sound(u)
  BY <1>2, UserAsks
<1>5. todo = [x \in Thread |-> todo[x]] /\ \A x \in Thread : todo[x] \in Sound(x)
  BY <1>1 DEF Typed
<1>6. /\ todo' = [x \in Thread |-> todo'[x]]
      /\ todo'[u] = p /\ \A x \in Thread \ {u} : todo'[x] = todo[x]
  BY <1>3, <1>5
<1>7. /\ \A s \in Servers : s \in Thread \ {u}
      /\ Idle \in Thread \ {u} /\ Users \subseteq Thread /\ TM \in Servers
  BY <1>2, LocksAssumption DEF Servers
<1>8. Kept(sched', sched, {})
  BY <1>1, <1>2 DEF Kept
<1>9. Orderly'
  <2>1. \A s \in Servers : todo'[s] = todo[s] /\ mail'[s] = mail[s]
    BY <1>2, <1>6, <1>7
  <2>2. \A x \in Users : todo'[x] # << >> => x = sched.running \/ todo[x] # << >>
    BY <1>2, <1>6, <1>7
  <2>3. todo'[Idle] = todo[Idle]
    BY <1>6, <1>7
  <2>4. {} \subseteq Users /\ \A x \in {} : ~Gone(x) /\ ~Gone(x)'
    OBVIOUS
  <2>5. \A s \in Servers : s \in answered' <=> s \in answered
    BY <1>2
  <2>6. sched.running \in Users
    BY <1>2
  <2> QED BY <1>8, <2>1, <2>2, <2>3, <2>4, <2>5, <2>6, UsersMove
<1>10. Typed' /\ Programs'
  <2>1. \A x \in Thread : todo'[x] \in Sound(x)
    BY <1>4, <1>5, <1>6
  <2>2. Typed'
    BY <1>1, <1>2, <1>6, <2>1 DEF Typed
  <2>3. Programs'
    BY <1>1, <1>6, <1>7 DEF Programs
  <2> QED BY <2>2, <2>3
<1>11. Locked'
  BY <1>1, <1>2, <1>6, <1>7 DEF Locked
<1> QED BY <1>1, <1>2, <1>9, <1>10, <1>11 DEF IndInv

\* A clock interrupt: the processor may go to another thread.
LEMMA ClockKeeps ==
    ASSUME IndInv, ClockInterrupt
    PROVE  IndInv'
<1>1. Typed /\ Locked /\ Programs /\ SchedSound(sched) /\ Orderly
  BY DEF IndInv
<1>2. /\ sched' = TrySchedule(sched)
      /\ owner' = owner /\ mail' = mail /\ answered' = answered /\ todo' = todo
  BY DEF ClockInterrupt
<1>3. Typed' /\ Programs'
  BY <1>1, <1>2 DEF Typed, Programs
<1>4. CASE \E l \in TmLock : owner[l] # NULL
  <2>1. sched' = sched
    BY <1>2, <1>4 DEF TrySchedule, TmLock
  <2>2. vars' = vars
    BY <2>1, <1>2 DEF vars
  <2>3. Orderly'
    BY <1>1, <1>2, <2>1 DEF Orderly, Life, Sleepers, TmCalls, IoCalls, DriverStart,
       Single, Boot, Turn, UsersLate, OneWorks, TmWorks, MmOwes, TmOwes, DriverUp,
       Gone, Asleep, ToInsert, ToWake, ToAsk, Busy, Awaits
  <2>4. Locked'
    BY <1>1, <1>2, <2>1 DEF Locked
  <2> QED BY <1>1, <1>3, <2>1, <2>3, <2>4 DEF IndInv
<1>5. CASE \A l \in TmLock : owner[l] = NULL
  <2>1. sched' = schedule(sched)
    BY <1>2, <1>5 DEF TrySchedule, TmLock
  <2>2. Kept(sched', sched, {})
    <3>1. /\ sched \in Scheduler /\ ListsAgree(sched) /\ sched.running \in Thread
          /\ \A x \in Thread : sched.status[x] = "RUNNING" <=> x = sched.running
      BY <1>1 DEF SchedSound
    <3>2. ~Absent(sched, sched.running) /\ Active(sched, sched.running)
      BY <3>1 DEF Absent, Active
    <3> QED BY <2>1, <3>1, <3>2, ScheduleKeeps
  <2>3. SchedSound(sched') /\ \A c \in Thread : (Gone(c)' <=> Gone(c)) /\ (Asleep(c)' <=> Asleep(c))
    BY <2>2 DEF Kept, Gone, Asleep
  <2>4. \A s \in Servers : s \in Thread
    BY LocksAssumption
  <2>5. Orderly'
    <3>1. TM \in Thread /\ MM \in Thread /\ IO \in Thread /\ Driver \in Thread
          /\ Idle \in Thread /\ Users \subseteq Thread
      BY Distinct
    <3>2. DriverUp' <=> DriverUp
      BY <1>2, <2>3, <3>1 DEF DriverUp, ToWake
    <3>3. Life'
      BY <1>1, <1>2, <2>3, <3>1 DEF Orderly, Life, ToInsert, ToWake
    <3>4. Sleepers'
      BY <1>1, <1>2, <2>3, <3>1 DEF Orderly, Sleepers, ToWake, Busy, Awaits
    <3>5. TmCalls' /\ IoCalls' /\ Single'
      BY <1>1, <1>2 DEF Orderly, TmCalls, IoCalls, Single, MmOwes, TmOwes, Awaits
    <3>6. DriverStart'
      BY <1>1, <1>2, <2>3, <3>1 DEF Orderly, DriverStart, ToAsk, ToInsert, Awaits
    <3>7. Boot'
      BY <1>1, <1>2, <3>2 DEF Orderly, Boot, Busy, MmOwes
    <3>8. Turn'
      BY <1>1, <1>2, <2>3, <3>1 DEF Orderly, Turn, OneWorks, TmWorks, Busy, MmOwes, Awaits
    <3>9. UsersLate'
      BY <1>1, <1>2, <2>3, <3>1, <3>2 DEF Orderly, UsersLate, ToWake
    <3> QED BY <3>3, <3>4, <3>5, <3>6, <3>7, <3>8, <3>9 DEF Orderly
  <2>6. Locked'
    BY <1>1, <1>2, <1>5 DEF Locked
  <2> QED BY <2>3, <2>5, <2>6, <1>3 DEF IndInv
<1> QED BY <1>4, <1>5

-----------------------------------------------------------------------------
(* The start *)

\* TM and MM are ready, one of them runs, and nobody else is there.
LEMMA StartSched ==
    ASSUME Init
    PROVE  /\ SchedSound(sched)
           /\ \A c \in Thread : Gone(c) <=> c \notin {TM, MM}
           /\ \A c \in Thread : ~Asleep(c)
<1> DEFINE s1 == schedulerInsert(NoLists, MM)
           s2 == schedulerInsert(s1, TM)
           s3 == schedulerSetReady(s2, MM)
           s4 == schedulerSetReady(s3, TM)
<1>1. sched = schedule(s4)
  BY DEF Init
<1>2. TM \in Thread /\ MM \in Thread /\ TM # MM
  BY Distinct
<1>3. NoLists \in Scheduler /\ ListsAgree(NoLists)
      /\ NoLists.running = TM /\ \A t \in Thread : NoLists.status[t] = "ABSENT"
  <2>1. << >> \in Seq(Thread)
    OBVIOUS
  <2>2. NoLists \in Scheduler
    BY <1>2, <2>1 DEF NoLists, Scheduler, SchedStatus
  <2>3. ASSUME NEW p \in Priority PROVE LevelAgrees(NoLists, p)
    <3>1. NoLists.ready[p] = << >> /\ NoLists.blocked[p] = {}
          /\ \A t \in Thread : NoLists.status[t] = "ABSENT"
      BY DEF NoLists
    <3>2. IsInjective(<< >>) /\ Range(<< >>) = {}
      <4>1. DOMAIN << >> = {}
        OBVIOUS
      <4> QED BY <4>1 DEF IsInjective, Range
    <3> QED BY <3>1, <3>2 DEF LevelAgrees, Active
  <2> QED BY <2>2, <2>3 DEF ListsAgree, NoLists
<1>4. Updated(s1, NoLists, MM, "BLOCKED")
  BY <1>2, <1>3, InsertAgrees
<1> HIDE DEF s1
<1>5. s1 \in Scheduler /\ ListsAgree(s1) /\ s1.running = TM
      /\ s1.status[MM] = "BLOCKED"
      /\ \A t \in Thread \ {MM} : s1.status[t] = "ABSENT"
  <2>1. NoLists.status \in [Thread -> SchedStatus]
    BY <1>3 DEF Scheduler
  <2> QED BY <1>2, <1>3, <1>4, <2>1 DEF Updated
<1>6. Updated(s2, s1, TM, "BLOCKED")
  BY <1>2, <1>5, InsertAgrees
<1> HIDE DEF s2
<1>7. s2 \in Scheduler /\ ListsAgree(s2) /\ s2.running = TM
      /\ s2.status[MM] = "BLOCKED" /\ s2.status[TM] = "BLOCKED"
      /\ \A t \in Thread \ {TM, MM} : s2.status[t] = "ABSENT"
  <2>1. s1.status \in [Thread -> SchedStatus]
    BY <1>5 DEF Scheduler
  <2> QED BY <1>2, <1>5, <1>6, <2>1 DEF Updated
<1>8. Updated(s3, s2, MM, "READY")
  BY <1>2, <1>7, SetReadyAgrees
<1> HIDE DEF s3
<1>9. s3 \in Scheduler /\ ListsAgree(s3) /\ s3.running = TM
      /\ s3.status[MM] = "READY" /\ s3.status[TM] = "BLOCKED"
      /\ \A t \in Thread \ {TM, MM} : s3.status[t] = "ABSENT"
  <2>1. s2.status \in [Thread -> SchedStatus]
    BY <1>7 DEF Scheduler
  <2> QED BY <1>2, <1>7, <1>8, <2>1 DEF Updated
<1>10. Updated(s4, s3, TM, "READY")
  BY <1>2, <1>9, SetReadyAgrees
<1> HIDE DEF s4
<1>11. s4 \in Scheduler /\ ListsAgree(s4) /\ s4.running = TM
      /\ s4.status[MM] = "READY" /\ s4.status[TM] = "READY"
      /\ \A t \in Thread \ {TM, MM} : s4.status[t] = "ABSENT"
  <2>1. s3.status \in [Thread -> SchedStatus]
    BY <1>9 DEF Scheduler
  <2> QED BY <1>2, <1>9, <1>10, <2>1 DEF Updated
<1>12. /\ \A u \in Thread : s4.status[u] = "RUNNING" => u = s4.running
       /\ Active(s4, TM) /\ Active(s4, MM)
       /\ \A u \in Thread \ {TM, MM} : ~Active(s4, u)
  BY <1>2, <1>11 DEF Active
<1>13. Scheduled(sched, s4)
  BY <1>1, <1>2, <1>11, <1>12, ScheduleSchedules
<1>14. SchedSound(sched)
  BY <1>13 DEF Scheduled, SchedSound
<1>15. ASSUME NEW c \in Thread
       PROVE  (Gone(c) <=> c \notin {TM, MM}) /\ ~Asleep(c)
  <2>1. sched \in Scheduler /\ (Active(sched, c) <=> Active(s4, c))
        /\ (Active(s4, c) \/ sched.status[c] = s4.status[c])
    BY <1>13 DEF Scheduled
  <2>2. CASE c \in {TM, MM}
    BY <2>1, <2>2, <1>12, ActiveOnes DEF Gone, Asleep
  <2>3. CASE c \notin {TM, MM}
    BY <2>1, <2>3, <1>11, <1>12 DEF Gone, Asleep, Absent, Blocked
  <2> QED BY <2>2, <2>3
<1> QED BY <1>14, <1>15

\* Whom TM starts first, and that nothing is owed to anybody yet.
LEMMA BootView ==
    /\ TmBoot \in Sound(TM) /\ Formed(TmBoot) /\ Complete(TmBoot)
    /\ ~(TmBoot # << >> /\ Head(TmBoot) = Await)
    /\ \A c : Has(TmBoot, Change("insert", c)) <=> c \in {IO, Shell, Idle}
    /\ \A c : Has(TmBoot, Change("setready", c)) <=> c \in {IO, Shell, Idle}
    /\ \A c : ~Has(TmBoot, Reply(c))
    /\ ~Has(TmBoot, Cleanup)
<1> DEFINE D == {IO, Shell, Idle}
<1>1. Does(TM, TmBoot, Starts(D))
  BY BootDoes
<1>2. /\ TmBoot \in Sound(TM) /\ Formed(TmBoot)
      /\ TmBoot # << >> => TmBoot[1] # Await
      /\ \A i : Has(TmBoot, i) => Neutral(i) \/ i \in Starts(D)
      /\ \A i \in Starts(D) : Has(TmBoot, i)
  BY <1>1 DEF Does
<1>3. ASSUME NEW do \in {"insert", "setready"}, NEW c
      PROVE  /\ Has(TmBoot, Change(do, c)) <=> c \in D
             /\ Change(do, c) \in Starts(D) <=> c \in D
  <2>1. c \in D => Change(do, c) \in Starts(D)
    BY DEF Starts
  <2>2. ASSUME Change(do, c) \in Starts(D) PROVE c \in D
    <3>1. PICK d \in D : \E e \in {"insert", "setready"} : Change(do, c) = Change(e, d)
      BY <2>2 DEF Starts
    <3>2. PICK e \in {"insert", "setready"} : Change(do, c) = Change(e, d)
      BY <3>1
    <3>3. Change(do, c).on = c /\ Change(e, d).on = d
      BY Kinds
    <3> QED BY <3>1, <3>2, <3>3
  <2>3. ~Neutral(Change(do, c))
    <3>1. Change(do, c).do = do
      BY Kinds
    <3> QED BY <3>1, KindsOfInstr
  <2> QED BY <1>2, <2>1, <2>2, <2>3
<1>4. \A i \in Starts(D) : i.do \in {"insert", "setready"}
  BY Kinds DEF Starts
<1>5. ASSUME NEW c PROVE ~Has(TmBoot, Reply(c))
  <2>1. Reply(c).do = "reply"
    BY Kinds
  <2>2. ~Neutral(Reply(c))
    BY <2>1, KindsOfInstr
  <2>3. Reply(c) \notin Starts(D)
    BY <2>1, <1>4
  <2> QED BY <1>2, <2>2, <2>3
<1>6. ~Has(TmBoot, Cleanup)
  <2>1. Cleanup.do = "send" /\ ~Neutral(Cleanup)
    BY Kinds, KindsOfInstr
  <2>2. Cleanup \notin Starts(D)
    BY <2>1, <1>4
  <2> QED BY <1>2, <2>1, <2>2
<1>7. Complete(TmBoot)
  <2>1. \A c \in Thread : Change("insert", c) \in Starts(D) => Change("setready", c) \in Starts(D)
    BY <1>3
  <2>2. Driver \notin D
    BY Distinct
  <2>3. Change("insert", Driver) \notin Starts(D)
    BY <2>2, <1>3
  <2> QED BY <1>1, <2>1, <2>3, DoesComplete
<1>8. ~(TmBoot # << >> /\ Head(TmBoot) = Await)
  <2>1. TmBoot \in Seq(InstrOf(TM))
    BY <1>2 DEF Sound
  <2> QED BY <2>1, <1>2, TailHas
<1> QED BY <1>2, <1>3, <1>5, <1>6, <1>7, <1>8

LEMMA Starting ==
    ASSUME Init
    PROVE  IndInv
<1>1. /\ owner = [l \in LockName |-> NULL]
      /\ todo = [t \in Thread |-> IF t = TM THEN TmBoot ELSE << >>]
      /\ mail = [s \in Servers |-> << >>]
      /\ answered = {}
  BY DEF Init
<1>2. /\ todo[TM] = TmBoot /\ \A t \in Thread \ {TM} : todo[t] = << >>
      /\ \A s \in Servers : mail[s] = << >> /\ s \in Thread
      /\ \A l \in LockName : owner[l] = NULL
      /\ TM \in Servers /\ MM \in Servers /\ IO \in Servers /\ Driver \in Servers
  BY <1>1, Distinct DEF Servers
<1>3. /\ SchedSound(sched)
      /\ \A c \in Thread : Gone(c) <=> c \notin {TM, MM}
      /\ \A c \in Thread : ~Asleep(c)
  BY StartSched
<1>4. \A s \in Servers : s # NULL
  BY <1>2, SchedulerAssumption
<1>5. \A t : << >> \in Sound(t) /\ Formed(<< >>)
  BY EmptyDoes DEF Does
<1>6. Typed
  <2>1. ASSUME NEW t \in Thread PROVE todo[t] \in Sound(t)
    BY <1>2, <1>5, BootView
  <2> QED BY <2>1, <1>1, <1>2 DEF Typed
<1>7. Locked
  <2>1. TmLock \subseteq LockName
    BY DEF TmLock, LockName
  <2> QED BY <2>1, <1>2, <1>4 DEF Locked
<1>8. Programs
  BY <1>2, <1>5, BootView DEF Programs
<1>9. \A i : ~Has(<< >>, i)
  <2>1. Len(<< >>) = 0 /\ 1 .. 0 = {}
    OBVIOUS
  <2> QED BY <2>1 DEF Has
<1>10. \A x : <<x>> # << >>
  OBVIOUS
<1>11. /\ \A c : ToInsert(c) <=> c \in {IO, Shell, Idle}
       /\ \A c : ToWake(c) <=> c \in {IO, Shell, Idle}
       /\ ~ToAsk /\ ~Awaits(TM) /\ ~Awaits(IO)
       /\ \A c : ~Has(todo[TM], Reply(c))
       /\ ~Has(todo[TM], Cleanup)
       /\ todo[IO] = << >> /\ todo[MM] = << >> /\ todo[Driver] = << >>
  BY <1>2, <1>9, BootView, Distinct DEF ToInsert, ToWake, ToAsk, Awaits
<1>12. ~MmOwes /\ ~TmOwes /\ mail[TM] # <<StartDriver>>
  <2>1. mail[TM] # <<StartDriver>>
    BY <1>2, <1>10
  <2>2. \A r : mail[MM] # <<r>>
    BY <1>2, <1>10
  <2>3. ~Has(todo[MM], Reply(TM))
    BY <1>9, <1>11
  <2> QED BY <2>1, <2>2, <2>3, <1>11 DEF MmOwes, TmOwes
<1>13. \A s \in {MM, IO, Driver} : ~Busy(s)
  BY <1>2, <1>11 DEF Busy
<1>14. Orderly
  <2>1. Life
    <3>1. ASSUME NEW c \in Thread
          PROVE  /\ ToInsert(c) => Gone(c)
                 /\ ToWake(c) /\ ~ToInsert(c) => Asleep(c) /\ todo[c] = FirstProgram(c)
                 /\ Gone(c) => todo[c] = << >> /\ (c \in Servers => mail[c] = << >>)
      <4>1. ToInsert(c) => c \notin {TM, MM}
        BY <1>11, Distinct
      <4> QED BY <4>1, <1>2, <1>3, <1>11
    <3>2. ~Gone(TM) /\ ~Gone(MM) /\ Gone(Driver)
      BY <1>3, Distinct
    <3> QED BY <3>1, <3>2, <1>11 DEF Life
  <2>2. Sleepers
    BY <1>3, Distinct DEF Sleepers
  <2>3. TmCalls /\ IoCalls
    BY <1>1, <1>11, <1>12 DEF TmCalls, IoCalls
  <2>4. Gone(Driver) /\ Gone(IO)
    BY <1>3, Distinct
  <2>5. DriverStart
    BY <2>4, <1>11, <1>12 DEF DriverStart
  <2>6. Single
    BY <1>2, <1>11 DEF Single
  <2>7. \A u \in Users : todo[u] = << >>
    BY <1>2, Distinct
  <2>8. Boot
    <3>1. \A u \in Users : ~Has(todo[TM], Reply(u)) /\ ~Has(todo[IO], Reply(u))
      BY <1>9, <1>11
    <3>2. \A r \in DriverRequest : ~Has(todo[IO], Send(Driver, r))
      BY <1>9, <1>11
    <3>3. mail[IO] = << >> /\ mail[TM] = << >>
      BY <1>2
    <3> QED BY <2>7, <3>1, <3>2, <3>3, <1>11, <1>13 DEF Boot
  <2>9. Turn /\ UsersLate
    BY <2>4, <2>7 DEF Turn, UsersLate
  <2> QED BY <2>1, <2>2, <2>3, <2>5, <2>6, <2>8, <2>9 DEF Orderly
<1> QED BY <1>3, <1>6, <1>7, <1>8, <1>14 DEF IndInv

-----------------------------------------------------------------------------
(* The invariant holds *)

LEMMA Steps ==
    ASSUME IndInv, [Next]_vars
    PROVE  IndInv'
<1>1. CASE ClockInterrupt
  BY <1>1, ClockKeeps
<1>2. ASSUME NEW t \in Thread, Step(t) \/ UserStep(t)
      PROVE  IndInv'
  <2>1. CASE SendStep(t)
    BY <2>1, SendKeeps
  <2>2. CASE ReplyStep(t)
    BY <2>2, ReplyKeeps
  <2>3. CASE AwaitStep(t)
    BY <2>3, AwaitKeeps
  <2>4. CASE ReceiveStep(t)
    <3>1. t \in Servers
      BY <2>4 DEF ReceiveStep
    <3> QED BY <2>4, <3>1, ReceiveKeeps
  <2>5. CASE LockStep(t) \/ UnlockStep(t)
    BY <2>5, LockKeeps
  <2>6. CASE ChangeStep(t)
    BY <2>6, ListsKeep
  <2>7. CASE UserStep(t)
    BY <2>7, UserKeeps
  <2> QED BY <1>2, <2>1, <2>2, <2>3, <2>4, <2>5, <2>6, <2>7 DEF Step
<1>3. CASE UNCHANGED vars
  <2>1. /\ sched' = sched /\ owner' = owner /\ todo' = todo /\ mail' = mail
        /\ answered' = answered
    BY <1>3 DEF vars
  <2>2. SchedSound(sched') /\ Typed' /\ Locked' /\ Programs'
    BY <2>1 DEF IndInv, Typed, Locked, Programs
  <2>3. Orderly'
    BY <2>1 DEF IndInv, Orderly, Life, Sleepers, TmCalls, IoCalls, DriverStart,
       Single, Boot, Turn, UsersLate, OneWorks, TmWorks, MmOwes, TmOwes, DriverUp,
       Gone, Asleep, ToInsert, ToWake, ToAsk, Busy, Awaits
  <2> QED BY <2>2, <2>3 DEF IndInv
<1> QED BY <1>1, <1>2, <1>3 DEF Next

\* The kernel keeps its order: every thread that sleeps has nothing to do or is
\* owed an answer, one server works at a time but for TM's calls of MM, and no
\* lock outlives the piece of program that takes it.
THEOREM Inductive == Spec => []IndInv
<1>1. Init => IndInv
  BY Starting
<1>2. IndInv /\ [Next]_vars => IndInv'
  BY Steps
<1> QED BY <1>1, <1>2, PTL DEF Spec

\* Every variable has its type, and the processor has a thread to run, also
\* before the idle thread is started (schedule, tmMain).
THEOREM Typing == Spec => []TypeOK
<1>1. IndInv => TypeOK
  <2> SUFFICES ASSUME IndInv PROVE TypeOK
    OBVIOUS
  <2>1. SchedSound(sched) /\ Typed
    BY DEF IndInv
  <2>2. DOMAIN todo = Thread /\ DOMAIN mail = Servers
    BY <2>1 DEF Typed
  <2> QED BY <2>1, <2>2 DEF TypeOK, SchedSound, Typed
<1> QED BY <1>1, Inductive, PTL

\* threadLock and schedLock are held by the running thread only, and released
\* before its next system call: no handler finds schedLock taken, and TM is not
\* preempted in the middle of its tables (schedule, lock, threadStart).
THEOREM HolderRuns == Spec => []LockHolderRuns
<1>1. IndInv => LockHolderRuns
  <2> SUFFICES ASSUME IndInv, NEW l \in TmLock, owner[l] # NULL
               PROVE  /\ sched.running = owner[l]
                      /\ Head(todo[owner[l]]).do \notin {"send", "reply", "await"}
    BY DEF LockHolderRuns, TmLock
  <2>1. Locked /\ Typed
    BY DEF IndInv
  <2>2. owner[l] = TM /\ sched.running = TM
    BY <2>1 DEF Locked
  <2>3. l \in LockName /\ TM \in Servers /\ TM \in Thread
    BY Distinct DEF LockName, TmLock, Servers
  <2>4. Releases(todo[TM], l) /\ todo[TM] \in Seq(InstrOf(TM))
    BY <2>1, <2>2, <2>3 DEF Locked, Typed, Sound
  <2>5. todo[TM] # << >>
    <3>1. Len(<< >>) = 0 /\ 1 .. 0 = {}
      OBVIOUS
    <3> QED BY <2>4, <3>1 DEF Releases
  <2>6. Head(todo[TM]).do \notin SystemCall
    BY <2>4, <2>5, TailBrackets
  <2> QED BY <2>2, <2>6 DEF SystemCall
<1> QED BY <1>1, Inductive, PTL

\* While a user thread runs, every server waits for a request, none is queued
\* and no lock is taken (tmMain, mmMain, ioMain, the drivers' main loops).
THEOREM Resting == Spec => []KernelAtRest
<1>1. IndInv => KernelAtRest
  <2> SUFFICES ASSUME IndInv, sched.running \in Users
               PROVE  /\ \A s \in Servers : AtRest(s)
                      /\ \A l \in LockName : owner[l] = NULL
    BY DEF KernelAtRest
  <2>1. /\ \A s \in Servers : ~Busy(s) /\ Asleep(s)
        /\ \A l \in LockName : owner[l] = NULL
    BY Rest
  <2> QED BY <2>1 DEF AtRest, Busy, Asleep, Blocked
<1> QED BY <1>1, Inductive, PTL

\* Once the driver is there, TM holds threadLock or schedLock only while nobody
\* else is inside the heap: it never spins on hmLock when the others cannot run.
THEOREM HeapIsFree == Spec => []HeapLockFree
<1>1. IndInv => HeapLockFree
  <2> SUFFICES ASSUME IndInv, ~Gone(Driver), NEW l \in TmLock, owner[l] # NULL
               PROVE  owner["hmLock"] \in {NULL, owner[l]}
    BY DEF HeapLockFree, TmLock, Gone, Absent
  <2>1. Locked /\ Typed /\ Turn
    BY DEF IndInv, Orderly
  <2>2. owner[l] = TM
    BY <2>1 DEF Locked
  <2>3. /\ l \in LockName /\ "hmLock" \in LockName /\ TM \in Servers
        /\ TM # MM /\ TM # IO /\ TM # Driver /\ \A s \in Servers : s \in Thread
    BY Distinct DEF LockName, TmLock, Servers
  <2>4. owner["hmLock"] \in Servers \cup {NULL}
    BY <2>1, <2>3 DEF Typed
  <2>5. ASSUME NEW s \in Servers, NEW k \in LockName, owner[k] = s
        PROVE  todo[s] # << >> /\ Head(todo[s]).do \notin SystemCall
    <3>1. Releases(todo[s], k) /\ todo[s] \in Seq(InstrOf(s))
      BY <2>1, <2>3, <2>5 DEF Locked, Typed, Sound
    <3>2. todo[s] # << >>
      <4>1. Len(<< >>) = 0 /\ 1 .. 0 = {}
        OBVIOUS
      <4> QED BY <3>1, <4>1 DEF Releases
    <3> QED BY <3>1, <3>2, TailBrackets
  <2>6. /\ \A s \in Servers : owner["hmLock"] = s => Busy(s) /\ ~Awaits(s)
        /\ todo[TM] # << >> /\ Busy(TM) /\ Head(todo[TM]).do \notin SystemCall
    <3>1. ASSUME NEW s \in Servers, owner["hmLock"] = s PROVE Busy(s) /\ ~Awaits(s)
      <4>1. Await.do \in SystemCall
        BY Kinds DEF SystemCall
      <4> QED BY <4>1, <3>1, <2>3, <2>5 DEF Busy, Awaits
    <3> QED BY <3>1, <2>2, <2>3, <2>5 DEF Busy
  <2>7. ASSUME NEW s \in {MM, IO, Driver}, owner["hmLock"] = s PROVE FALSE
    <3>1. s \in Servers
      BY DEF Servers
    <3>2. Busy(s) /\ ~Awaits(s)
      BY <3>1, <2>6, <2>7
    <3>3. CASE OneWorks
      <4>1. PICK r \in {MM, IO, Driver} : \A x \in Servers \ {r} : ~Busy(x)
        BY <3>3 DEF OneWorks
      <4> QED BY <4>1, <2>3, <2>6
    <3>4. CASE TmWorks
      <4>1. s = MM
        BY <3>2, <3>4 DEF TmWorks
      <4>2. ~MmOwes
        <5>1. ~Awaits(TM)
          <6>1. Await.do \in SystemCall
            BY Kinds DEF SystemCall
          <6> QED BY <6>1, <2>6 DEF Awaits
        <5> QED BY <5>1 DEF IndInv, Orderly, TmCalls
      <4>3. PICK u \in Users : todo[TM] = <<Reply(u)>>
        BY <3>2, <3>4, <4>1, <4>2 DEF TmWorks
      <4>4. Head(todo[TM]) = Reply(u) /\ Reply(u).do \in SystemCall
        BY <4>3, Kinds DEF SystemCall
      <4> QED BY <4>4, <2>6
    <3> QED BY <2>1, <3>3, <3>4 DEF Turn
  <2> QED BY <2>2, <2>4, <2>7 DEF Servers
<1> QED BY <1>1, Inductive, PTL
=============================================================================
