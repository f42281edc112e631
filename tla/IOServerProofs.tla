--------------------------- MODULE IOServerProofs ---------------------------
(***************************************************************************)
(* No driver leaves user space on behalf of a user, for every width of     *)
(* addresses, place of the user's space and buffers that clients pass.     *)
(* And every request of a client is in exactly one place until it is       *)
(* answered, for any number of clients.  And the rings of the devices are  *)
(* queues, whatever interrupts come in between.                            *)
(***************************************************************************)
EXTENDS IOServer, FiniteSetTheorems, WellFoundedInduction, TLAPS

Id == {NONE, "IO_OPEN", "IO_CLOSE", "IO_READ", "IO_WRITE", "IO_INIT",
       "IO_DRIVERCLOSE", "UNKNOWN", "UNKNOWN_SYSCALL"}
Sender == {IO, TM, NONE} \cup Client
Target == Device \cup {IO, TM, Nobody, NONE}

Message == [id : Id, from : Sender, to : Target, client : Sender,
            buffer : 0 .. WORD - 1, size : 0 .. WORD - 1]

\* While a driver transfers, it has checked the buffer.
Transferring(v) == v.pc \in {"IO_READ", "IO_WRITE", "advance"}
Checked(v) == Transferring(v) => ioCheckBufferAddress(v.msg.buffer, v.msg.size)

DriverOK(v) ==
    /\ DOMAIN v = {"pc", "msg", "i", "char"}
    /\ v.msg \in Message
    /\ v.i \in Nat
    /\ Checked(v)

MailOK == mail \in [Device \cup {IO} -> Seq(Message)]
DriversOK == /\ driver = [d \in Device |-> driver[d]]
             /\ \A d \in Device : DriverOK(driver[d])

IndInv == MailOK /\ DriversOK /\ used \subseteq Device

LEMMA Words == WORD \in Nat /\ WORD > 0 /\ 0 < WORD
BY AddressAssumption

-----------------------------------------------------------------------------
\* The test of ioCheckBufferAddress, sum that wraps around included, means what
\* it says: every byte of the buffer is the user's.
LEMMA CheckIsSound ==
    ASSUME NEW address \in Nat, NEW size \in Nat, address < WORD,
           ioCheckBufferAddress(address, size),
           NEW i \in Nat, i < size
    PROVE  address + i \in UserStart .. UserStart + UserSize - 1
<1>1. WORD \in Nat /\ UserStart \in Nat /\ UserSize \in Nat /\ UserStart + UserSize <= WORD
  BY AddressAssumption, IOAssumption
<1>2. address >= UserStart /\ address + size <= WORD - 1
  BY <1>1 DEF ioCheckBufferAddress
<1>3. (address + size) % WORD = address + size
  BY <1>1, <1>2
<1>4. CASE UserStart + UserSize < WORD
  <2>1. (UserStart + UserSize) % WORD = UserStart + UserSize
    BY <1>1, <1>4
  <2> QED
    BY <1>1, <1>2, <1>3, <2>1 DEF ioCheckBufferAddress
<1>5. CASE UserStart + UserSize = WORD
  BY <1>1, <1>2, <1>5
<1> QED
  BY <1>1, <1>4, <1>5

LEMMA DriversStayInside == IndInv => BuffersInUserSpace
<1> SUFFICES ASSUME IndInv, NEW d \in Device,
                    driver[d].pc \in {"IO_READ", "IO_WRITE"},
                    driver[d].i < driver[d].msg.size
             PROVE  driver[d].msg.buffer + driver[d].i
                        \in UserStart .. UserStart + UserSize - 1
  BY DEF BuffersInUserSpace
<1>1. DriverOK(driver[d])
  BY DEF IndInv, DriversOK
<1>2. /\ driver[d].msg.buffer \in Nat /\ driver[d].msg.buffer < WORD
      /\ driver[d].msg.size \in Nat
      /\ driver[d].i \in Nat
      /\ ioCheckBufferAddress(driver[d].msg.buffer, driver[d].msg.size)
  BY <1>1, Words DEF DriverOK, Message, Checked, Transferring
<1> QED
  BY <1>2, CheckIsSound

-----------------------------------------------------------------------------
\* Messages without a buffer.
LEMMA PlainMessage ==
    ASSUME NEW id \in Id, NEW from \in Sender
    PROVE  Msg(id, from) \in Message
<1>1. NONE \in Target /\ NONE \in Sender /\ 0 \in 0 .. WORD - 1
  BY Words DEF Target, Sender
<1>2. Msg(id, from) = [id |-> id, from |-> from, to |-> NONE, client |-> NONE,
                       buffer |-> 0, size |-> 0]
  BY DEF Msg
<1> QED
  BY <1>1, <1>2 DEF Message

\* Fields that name threads or a buffer may be filled in.
LEMMA Addressed ==
    ASSUME NEW m \in Message
    PROVE  /\ \A to \in Target : [m EXCEPT !.to = to] \in Message
           /\ \A c \in Sender : [m EXCEPT !.client = c] \in Message
           /\ \A b \in 0 .. WORD - 1 : \A n \in 0 .. WORD - 1 :
                 [m EXCEPT !.buffer = b, !.size = n] \in Message
<1>1. ASSUME NEW to \in Target
      PROVE  [m EXCEPT !.to = to] \in Message
  BY DEF Message
<1>2. ASSUME NEW c \in Sender
      PROVE  [m EXCEPT !.client = c] \in Message
  BY DEF Message
<1>3. ASSUME NEW b \in 0 .. WORD - 1, NEW n \in 0 .. WORD - 1
      PROVE  [m EXCEPT !.buffer = b, !.size = n] \in Message
  BY DEF Message
<1> QED
  BY <1>1, <1>2, <1>3

LEMMA Names ==
    /\ IO \in Sender /\ TM \in Sender /\ NONE \in Sender /\ Client \subseteq Sender
    /\ Device \subseteq Target /\ TM \in Target /\ Nobody \in Target
    /\ NONE \in Id /\ "IO_OPEN" \in Id /\ "IO_CLOSE" \in Id
    /\ {"IO_READ", "IO_WRITE", "IO_INIT", "IO_DRIVERCLOSE", "UNKNOWN", "UNKNOWN_SYSCALL"}
          \subseteq Id
BY DEF Sender, Target, Id

\* Mail that a step puts into a queue or takes out of it.
LEMMA SendOK ==
    ASSUME MailOK, NEW s \in Device \cup {IO}, NEW m \in Message
    PROVE  [mail EXCEPT ![s] = Append(@, m)] \in [Device \cup {IO} -> Seq(Message)]
BY DEF MailOK

LEMMA TakeOK ==
    ASSUME MailOK, NEW s \in Device \cup {IO}, mail[s] # << >>
    PROVE  /\ Head(mail[s]) \in Message
           /\ [mail EXCEPT ![s] = Tail(@)] \in [Device \cup {IO} -> Seq(Message)]
<1>1. mail[s] \in Seq(Message)
  BY DEF MailOK
<1>2. Head(mail[s]) \in Message /\ Tail(mail[s]) \in Seq(Message)
  BY <1>1
<1> QED
  BY <1>2 DEF MailOK

LEMMA GoesOK ==
    ASSUME DriversOK, NEW d \in Device, NEW v, DriverOK(v), Goes(d, v)
    PROVE  DriversOK'
BY DEF DriversOK, Goes, DriverOK, Checked, Transferring, ioCheckBufferAddress

\* Wherever a driver goes from here, its thread is in order.
LEMMA IdleOK ==
    /\ DriverOK(Idle)
    /\ \A m \in Message : \A pc \in Id \cup {"init"} :
          (pc \in {"IO_READ", "IO_WRITE"} => ioCheckBufferAddress(m.buffer, m.size)) /\ pc # "advance"
              => DriverOK([Idle EXCEPT !.pc = pc, !.msg = m])
<1>1. Msg(NONE, NONE) \in Message
  BY PlainMessage, Names
<1>2. Idle = [pc |-> "recv", msg |-> Msg(NONE, NONE), i |-> 0, char |-> NoChar]
  BY DEF Idle, NotStarted
<1>3. DriverOK(Idle)
  BY <1>1, <1>2 DEF DriverOK, Checked, Transferring
<1>4. ASSUME NEW m \in Message, NEW pc \in Id \cup {"init"},
             pc \in {"IO_READ", "IO_WRITE"} => ioCheckBufferAddress(m.buffer, m.size),
             pc # "advance"
      PROVE  DriverOK([Idle EXCEPT !.pc = pc, !.msg = m])
  <2> DEFINE w == [Idle EXCEPT !.pc = pc, !.msg = m]
  <2>1. /\ DOMAIN w = {"pc", "msg", "i", "char"}
        /\ w.pc = pc /\ w.msg = m /\ w.i = 0
    BY <1>2
  <2> HIDE DEF w
  <2>2. DriverOK(w)
    BY <1>4, <2>1 DEF DriverOK, Checked, Transferring
  <2> QED
    BY <2>2 DEF w
<1> QED
  BY <1>3, <1>4

-----------------------------------------------------------------------------
\* What clients send is a message.
LEMMA ClientStep ==
    ASSUME IndInv, NEW c \in Client, ClientCall(c)
    PROVE  IndInv'
<1>1. UNCHANGED <<driver, used>>
  BY DEF ClientCall
<1>2. ASSUME NEW s \in Device \cup {IO}, NEW m \in Message, Send(s, m)
      PROVE  MailOK'
  BY <1>2, SendOK DEF Send, MailOK, IndInv
<1>3. ASSUME ioOpen(c)
      PROVE  MailOK'
  <2>1. PICK d \in used \cup {Nobody} : Send(IO, [Msg("IO_OPEN", c) EXCEPT !.to = d])
    BY <1>3 DEF ioOpen
  <2>2. [Msg("IO_OPEN", c) EXCEPT !.to = d] \in Message
    BY PlainMessage, Addressed, Names DEF IndInv
  <2> QED
    BY <1>2, <2>1, <2>2
<1>4. ASSUME ioClose(c)
      PROVE  MailOK'
  <2>1. PICK t \in Device \cup {TM, Nobody} : Send(IO, [Msg("IO_CLOSE", c) EXCEPT !.to = t])
    BY <1>4 DEF ioClose, IndInv
  <2>2. [Msg("IO_CLOSE", c) EXCEPT !.to = t] \in Message
    BY PlainMessage, Addressed, Names
  <2> QED
    BY <1>2, <2>1, <2>2
<1>5. ASSUME Transfer(c)
      PROVE  MailOK'
  <2>1. PICK d \in Device, op \in {"IO_READ", "IO_WRITE"}, t \in Transfers :
           Send(d, [Msg(op, c) EXCEPT !.buffer = t[1], !.size = t[2]])
    BY <1>5 DEF Transfer, IndInv
  <2>2. t[1] \in 0 .. WORD - 1 /\ t[2] \in 0 .. WORD - 1
    BY AddressAssumption
  <2>3. [Msg(op, c) EXCEPT !.buffer = t[1], !.size = t[2]] \in Message
    BY <2>2, PlainMessage, Addressed, Names
  <2> QED
    BY <1>2, <2>1, <2>3
<1>6. ASSUME Command(c)
      PROVE  MailOK'
  <2>1. PICK d \in Device, op \in {"IO_INIT", "IO_DRIVERCLOSE", "UNKNOWN"} :
           Send(d, Msg(op, c))
    BY <1>6 DEF Command, IndInv
  <2>2. Msg(op, c) \in Message
    BY PlainMessage, Names
  <2> QED
    BY <1>2, <2>1, <2>2
<1>7. MailOK'
  BY <1>3, <1>4, <1>5, <1>6 DEF ClientCall
<1> QED
  BY <1>1, <1>7 DEF IndInv, DriversOK

\* The I/O thread takes messages, and sends on what it has taken.
LEMMA IOThreadStep ==
    ASSUME IndInv, IOThread
    PROVE  IndInv'
<1>1. CASE Boot
  BY <1>1 DEF Boot, IndInv, MailOK, DriversOK
<1>2. CASE ioLoadDriver
  BY <1>2, IdleOK DEF ioLoadDriver, IndInv, MailOK, DriversOK
<1>3. CASE Open
  BY <1>3, TakeOK DEF Open, Serves, IndInv, MailOK, DriversOK
<1>4. CASE Close
  <2>1. Head(mail[IO]) \in Message /\ mail[IO] # << >>
    BY <1>4, TakeOK DEF Close, Serves, IndInv
  <2>2. Forwarded(Head(mail[IO])) \in [Device \cup {IO} -> Seq(Message)]
    <3> DEFINE m == Head(mail[IO])
    <3>1. /\ [Msg("IO_DRIVERCLOSE", IO) EXCEPT !.client = m.from] \in Message
          /\ Msg("UNKNOWN_SYSCALL", TM) \in Message
      BY <2>1, PlainMessage, Addressed, Names DEF Message
    <3>2. mail[IO] \in Seq(Message) /\ Tail(mail[IO]) \in Seq(Message)
      BY <2>1 DEF IndInv, MailOK
    <3>3. mail \in [Device \cup {IO} -> Seq(Message)]
      BY DEF IndInv, MailOK
    <3>4. CASE m.to \in Device
      <4> DEFINE n == [Msg("IO_DRIVERCLOSE", IO) EXCEPT !.client = m.from]
                 rest == [mail EXCEPT ![IO] = Tail(@)]
      <4>1. rest \in [Device \cup {IO} -> Seq(Message)]
        BY <3>2, <3>3
      <4>2. Forwarded(m) = [rest EXCEPT ![m.to] = Append(mail[m.to], n)]
        BY <3>4 DEF Forwarded
      <4> HIDE DEF n, rest
      <4>3. n \in Message
        BY <3>1 DEF n
      <4>4. Append(mail[m.to], n) \in Seq(Message)
        BY <3>3, <3>4, <4>3
      <4> QED
        BY <3>4, <4>1, <4>2, <4>4
    <3>5. CASE m.to \notin Device
      <4>1. Append(Tail(mail[IO]), Msg("UNKNOWN_SYSCALL", TM)) \in Seq(Message)
        BY <3>1, <3>2
      <4> QED
        BY <3>2, <3>3, <3>5, <4>1 DEF Forwarded
    <3> QED
      BY <3>4, <3>5
  <2> QED
    BY <1>4, <2>2 DEF Close, IndInv, MailOK, DriversOK
<1>5. CASE Unknown
  BY <1>5, TakeOK DEF Unknown, Serves, IndInv, MailOK, DriversOK
<1> QED
  BY <1>1, <1>2, <1>3, <1>4, <1>5 DEF IOThread

\* A driver checks the buffer when it receives a transfer, and forgets it when it
\* has answered.
LEMMA ReceiveStep ==
    ASSUME IndInv, NEW d \in Device, Receive(d)
    PROVE  IndInv'
<1>1. /\ mail[d] # << >>
      /\ mail' = [mail EXCEPT ![d] = Tail(@)]
      /\ UNCHANGED used
  BY DEF Receive
<1>2. Head(mail[d]) \in Message /\ MailOK'
  BY <1>1, TakeOK DEF IndInv, MailOK
<1>3. DriversOK'
  <2> DEFINE m == Head(mail[d])
  <2>1. \/ UNCHANGED driver
        \/ /\ m.id \in {"IO_READ", "IO_WRITE"}
           /\ ioCheckBufferAddress(m.buffer, m.size)
           /\ Goes(d, [Idle EXCEPT !.pc = m.id, !.msg = m])
        \/ Goes(d, [Idle EXCEPT !.pc = "init", !.msg = m])
    BY DEF Receive
  <2>2. m \in Message /\ m.id \in Id
    BY <1>2 DEF Message
  <2>3. CASE UNCHANGED driver
    BY <2>3 DEF IndInv, DriversOK, DriverOK, Checked, Transferring, ioCheckBufferAddress
  <2>4. ASSUME m.id \in {"IO_READ", "IO_WRITE"},
               ioCheckBufferAddress(m.buffer, m.size),
               Goes(d, [Idle EXCEPT !.pc = m.id, !.msg = m])
        PROVE  DriversOK'
    <3>1. DriverOK([Idle EXCEPT !.pc = m.id, !.msg = m])
      BY <2>2, <2>4, IdleOK
    <3> QED
      BY <2>4, <3>1, GoesOK DEF IndInv
  <2>5. ASSUME Goes(d, [Idle EXCEPT !.pc = "init", !.msg = m])
        PROVE  DriversOK'
    <3>1. DriverOK([Idle EXCEPT !.pc = "init", !.msg = m])
      BY <2>2, IdleOK
    <3> QED
      BY <2>5, <3>1, GoesOK DEF IndInv
  <2> QED
    BY <2>1, <2>3, <2>4, <2>5
<1> QED
  BY <1>1, <1>2, <1>3 DEF IndInv

LEMMA TransferStep ==
    ASSUME IndInv, NEW d \in Device,
           \/ InitEnds(d) \/ ReadCopies(d) \/ ReadAdvances(d) \/ ReadEnds(d)
           \/ ReadAfterClose(d) \/ WriteSends(d) \/ WriteEnds(d)
    PROVE  IndInv'
<1> DEFINE v == driver[d]
<1>1. UNCHANGED <<mail, used>>
  BY DEF InitEnds, ReadCopies, ReadAdvances, ReadEnds, ReadAfterClose, WriteSends, WriteEnds
<1>2. DriverOK(v)
  BY DEF IndInv, DriversOK, DriverOK
<1>3. CASE InitEnds(d) \/ ReadEnds(d) \/ WriteEnds(d) \/ ReadAfterClose(d)
  <2>1. Goes(d, Idle) \/ UNCHANGED driver
    BY <1>3 DEF InitEnds, ReadEnds, WriteEnds, ReadAfterClose
  <2> QED
    BY <1>1, <2>1, IdleOK, GoesOK DEF IndInv, MailOK, DriversOK
<1>4. CASE ReadCopies(d)
  <2> DEFINE w == [v EXCEPT !.pc = "advance", !.i = @ + 1,
                            !.char = dev[d].buffer[dev[d].out]]
  <2>1. Goes(d, w) /\ v.pc = "IO_READ"
    BY <1>4 DEF ReadCopies
  <2>2. /\ DOMAIN w = DOMAIN v /\ w.pc = "advance" /\ w.msg = v.msg
        /\ w.i = v.i + 1
    BY <1>2 DEF DriverOK
  <2>3. DriverOK(w)
    BY <1>2, <2>1, <2>2 DEF DriverOK, Checked, Transferring
  <2> QED
    BY <1>1, <2>1, <2>3, GoesOK DEF IndInv, MailOK
<1>5. CASE ReadAdvances(d)
  <2> DEFINE w == [v EXCEPT !.pc = "IO_READ", !.char = NoChar]
  <2>1. Goes(d, w) /\ v.pc = "advance"
    BY <1>5 DEF ReadAdvances
  <2>2. /\ DOMAIN w = DOMAIN v /\ w.pc = "IO_READ" /\ w.msg = v.msg
        /\ w.i = v.i
    BY <1>2 DEF DriverOK
  <2>3. DriverOK(w)
    BY <1>2, <2>1, <2>2 DEF DriverOK, Checked, Transferring
  <2> QED
    BY <1>1, <2>1, <2>3, GoesOK DEF IndInv, MailOK
<1>6. CASE WriteSends(d)
  <2> DEFINE w == [v EXCEPT !.i = @ + 1]
  <2>1. Goes(d, w) /\ v.pc = "IO_WRITE"
    BY <1>6 DEF WriteSends
  <2>2. /\ DOMAIN w = DOMAIN v /\ w.pc = v.pc /\ w.msg = v.msg
        /\ w.i = v.i + 1
    BY <1>2 DEF DriverOK
  <2>3. DriverOK(w)
    BY <1>2, <2>1, <2>2 DEF DriverOK, Checked, Transferring
  <2> QED
    BY <1>1, <2>1, <2>3, GoesOK DEF IndInv, MailOK
<1> QED
  BY <1>3, <1>4, <1>5, <1>6

LEMMA InsideStep == IndInv /\ [Next]_vars => IndInv'
<1> SUFFICES ASSUME IndInv, [Next]_vars
             PROVE  IndInv'
  OBVIOUS
<1>1. ASSUME NEW d \in Device, Arrive(d)
      PROVE  IndInv'
  BY <1>1 DEF Arrive, IndInv, MailOK, DriversOK
<1>2. CASE Interrupt
  BY <1>2 DEF Interrupt, IndInv, MailOK, DriversOK
<1>3. CASE UNCHANGED vars
  BY <1>3 DEF vars, IndInv, MailOK, DriversOK
<1> QED
  BY <1>1, <1>2, <1>3, ClientStep, IOThreadStep, ReceiveStep, TransferStep
     DEF Next, DriverStep

LEMMA InsideInit == Init => IndInv
<1> SUFFICES ASSUME Init
             PROVE  IndInv
  OBVIOUS
<1>1. MailOK
  BY DEF Init, MailOK
<1>2. ASSUME NEW d \in Device
      PROVE  DriverOK(driver[d])
  <2>1. driver[d] = [pc |-> NONE, msg |-> Msg(NONE, NONE), i |-> 0, char |-> NoChar]
    BY DEF Init, NotStarted
  <2>2. Msg(NONE, NONE) \in Message
    BY PlainMessage, Names
  <2> QED
    BY <2>1, <2>2 DEF DriverOK, Checked, Transferring, NONE
<1>3. DriversOK
  BY <1>2 DEF DriversOK, Init
<1> QED
  BY <1>1, <1>3, IOAssumption DEF Init, IndInv

\* No driver touches a byte outside the user's space for a user, whatever the user
\* says its buffer is and even if the sums of ioCheckBufferAddress wrap around.
THEOREM DriversInUserSpace == Spec => []BuffersInUserSpace
<1> QED
  BY InsideInit, InsideStep, DriversStayInside, PTL DEF Spec

-----------------------------------------------------------------------------
(* Where the request of a client is.                                       *)

Server == Device \cup {IO}

About(m, c) == m.from = c \/ m.client = c
NoneOf(q, c) == \A i \in DOMAIN q : ~About(q[i], c)
OneOf(q, c) == \E i \in DOMAIN q :
                  /\ About(q[i], c)
                  /\ \A j \in DOMAIN q : About(q[j], c) => j = i

Held(d, c) == driver[d] # Idle /\ About(driver[d].msg, c)

Away(c) ==
    /\ \A s \in Server : NoneOf(mail[s], c)
    /\ \A d \in Device : ~Held(d, c)

QueuedAt(c, s) ==
    /\ OneOf(mail[s], c)
    /\ \A t \in Server \ {s} : NoneOf(mail[t], c)
    /\ \A d \in Device : ~Held(d, c)

WorkedAt(c, d) ==
    /\ \A s \in Server : NoneOf(mail[s], c)
    /\ Held(d, c)
    /\ \A e \in Device \ {d} : ~Held(e, c)

Somewhere(c) ==
    \/ Away(c)
    \/ \E s \in Server : QueuedAt(c, s)
    \/ \E d \in Device : WorkedAt(c, d)

\* A client that waits has one request, and one that does not has none; only a
\* close of a thread that is no driver gets lost.
ClientOK(c) ==
    /\ Somewhere(c)
    /\ call[c] = NotCalling => Away(c)
    /\ call[c] # NotCalling /\ call[c].to # TM => ~Away(c)

\* The messages that the I/O thread, a driver, and a driver at work may have.
Own(m) == m.from \in Client /\ m.client = NONE

ForIO(m) ==
    \/ m.id = "IO_OPEN" /\ Own(m)
    \/ m.id = "IO_CLOSE" /\ Own(m) /\ m.to \in Device \cup {TM, Nobody}
    \/ m.id = "UNKNOWN_SYSCALL" /\ m.from = TM /\ m.client = NONE

ForDriver(m) ==
    \/ /\ m.id \in {"IO_READ", "IO_WRITE", "IO_INIT", "IO_DRIVERCLOSE", "UNKNOWN"}
       /\ Own(m)
    \/ m.id = "IO_DRIVERCLOSE" /\ m.from = IO /\ m.client \in Client

Shapes ==
    /\ \A i \in DOMAIN mail[IO] : ForIO(mail[IO][i])
    /\ \A d \in Device : \A i \in DOMAIN mail[d] : ForDriver(mail[d][i])

\* The client of a close waits for the thread that it has named.
Closing ==
    \A i \in DOMAIN mail[IO] :
        mail[IO][i].id = "IO_CLOSE" => call[mail[IO][i].from].to = mail[IO][i].to

Busy(v) == /\ v.pc \in {"init", "IO_READ", "IO_WRITE", "advance"}
           /\ Own(v.msg)
Working == \A d \in Device : driver[d] = NotStarted \/ driver[d] = Idle \/ Busy(driver[d])

\* Drivers are loaded one after the other, and each once.
Loading ==
    /\ booted \in Nat
    /\ \A i \in DOMAIN Order : booted < 2 * NbDevices + i => driver[Order[i]] = NotStarted

Calls == call = [c \in Client |-> call[c]]

\* The parts of the invariant that are not about single requests.
Background == Calls /\ Shapes /\ Closing /\ Working /\ Loading

OnceInv == /\ IndInv
           /\ Background
           /\ \A c \in Client : ClientOK(c)

-----------------------------------------------------------------------------
\* Queues that grow at the end and lose their head.
LEMMA Grows ==
    ASSUME NEW q \in Seq(Message), NEW m \in Message, NEW c
    PROVE  /\ NoneOf(q, c) /\ ~About(m, c) => NoneOf(Append(q, m), c)
           /\ NoneOf(q, c) /\ About(m, c) => OneOf(Append(q, m), c)
           /\ OneOf(q, c) /\ ~About(m, c) => OneOf(Append(q, m), c)
<1> DEFINE r == Append(q, m)
<1>1. /\ Len(q) \in Nat /\ DOMAIN q = 1 .. Len(q) /\ DOMAIN r = 1 .. Len(q) + 1
      /\ \A i \in 1 .. Len(q) : r[i] = q[i]
      /\ r[Len(q) + 1] = m
  OBVIOUS
<1> HIDE DEF r
<1>2. \A i \in DOMAIN r : i \in DOMAIN q \/ i = Len(q) + 1
  BY <1>1
<1>3. Len(q) + 1 \in DOMAIN r /\ Len(q) + 1 \notin DOMAIN q /\ DOMAIN q \subseteq DOMAIN r
  BY <1>1
<1>4. \A i \in DOMAIN q : r[i] = q[i]
  BY <1>1
<1>5. NoneOf(q, c) /\ ~About(m, c) => NoneOf(r, c)
  BY <1>1, <1>2, <1>4 DEF NoneOf
<1>6. NoneOf(q, c) /\ About(m, c) => OneOf(r, c)
  BY <1>1, <1>2, <1>3, <1>4 DEF NoneOf, OneOf
<1>7. ASSUME OneOf(q, c), ~About(m, c)
      PROVE  OneOf(r, c)
  <2>1. PICK i \in DOMAIN q : About(q[i], c) /\ \A j \in DOMAIN q : About(q[j], c) => j = i
    BY <1>7 DEF OneOf
  <2>2. i \in DOMAIN r /\ About(r[i], c)
    BY <1>3, <1>4, <2>1
  <2>3. ASSUME NEW j \in DOMAIN r, About(r[j], c)
        PROVE  j = i
    <3>1. j \in DOMAIN q
      BY <1>1, <1>2, <1>7, <2>3
    <3> QED
      BY <1>4, <2>1, <2>3, <3>1
  <2> QED
    BY <2>2, <2>3 DEF OneOf
<1> QED
  BY <1>5, <1>6, <1>7 DEF r

LEMMA Shrinks ==
    ASSUME NEW q \in Seq(Message), q # << >>, NEW c
    PROVE  /\ NoneOf(q, c) => ~About(Head(q), c) /\ NoneOf(Tail(q), c)
           /\ OneOf(q, c) /\ About(Head(q), c) => NoneOf(Tail(q), c)
           /\ OneOf(q, c) /\ ~About(Head(q), c) => OneOf(Tail(q), c)
<1> DEFINE r == Tail(q)
<1>1. /\ Len(q) \in Nat /\ Len(q) > 0 /\ DOMAIN q = 1 .. Len(q) /\ DOMAIN r = 1 .. Len(q) - 1
      /\ \A i \in 1 .. Len(q) - 1 : r[i] = q[i + 1]
      /\ Head(q) = q[1]
  OBVIOUS
<1> HIDE DEF r
<1>2. /\ 1 \in DOMAIN q
      /\ \A i \in DOMAIN r : i + 1 \in DOMAIN q /\ r[i] = q[i + 1] /\ i + 1 # 1 /\ i \in Int
  BY <1>1
<1>3. NoneOf(q, c) => ~About(Head(q), c) /\ NoneOf(r, c)
  BY <1>1, <1>2 DEF NoneOf
<1>4. OneOf(q, c) /\ About(Head(q), c) => NoneOf(r, c)
  BY <1>1, <1>2 DEF NoneOf, OneOf
<1>5. ASSUME OneOf(q, c), ~About(Head(q), c)
      PROVE  OneOf(r, c)
  <2>1. PICK i \in DOMAIN q : About(q[i], c) /\ \A j \in DOMAIN q : About(q[j], c) => j = i
    BY <1>5 DEF OneOf
  <2>2. i # 1
    BY <1>1, <1>5, <2>1
  <2>3. i - 1 \in DOMAIN r /\ (i - 1) + 1 = i /\ i \in Int
    BY <1>1, <2>2
  <2>4. About(r[i - 1], c)
    BY <1>2, <2>1, <2>3
  <2>5. ASSUME NEW j \in DOMAIN r, About(r[j], c)
        PROVE  j = i - 1
    <3>1. j + 1 = i /\ j \in Int
      BY <1>2, <2>1, <2>5
    <3> QED
      BY <2>3, <3>1
  <2> QED
    BY <2>3, <2>4, <2>5 DEF OneOf
<1> QED
  BY <1>3, <1>4, <1>5 DEF r

LEMMA NotBoth ==
    ASSUME NEW q, NEW c
    PROVE  ~(NoneOf(q, c) /\ OneOf(q, c))
BY DEF NoneOf, OneOf

\* A request that is somewhere is only there.
LEMMA OnlyThere ==
    ASSUME NEW c, Somewhere(c)
    PROVE  /\ \A s \in Server : ~NoneOf(mail[s], c) => QueuedAt(c, s)
           /\ \A d \in Device : Held(d, c) => WorkedAt(c, d)
           /\ Away(c) => /\ \A s \in Server : ~QueuedAt(c, s)
                         /\ \A d \in Device : ~WorkedAt(c, d)
<1>1. ASSUME NEW s \in Server, ~NoneOf(mail[s], c)
      PROVE  QueuedAt(c, s)
  BY <1>1 DEF Somewhere, Away, QueuedAt, WorkedAt
<1>2. ASSUME NEW d \in Device, Held(d, c)
      PROVE  WorkedAt(c, d)
  BY <1>2 DEF Somewhere, Away, QueuedAt, WorkedAt
<1>3. ASSUME Away(c)
      PROVE  /\ \A s \in Server : ~QueuedAt(c, s)
             /\ \A d \in Device : ~WorkedAt(c, d)
  BY <1>3, NotBoth DEF Away, QueuedAt, WorkedAt
<1> QED
  BY <1>1, <1>2, <1>3

\* Whom a step is not about has its request where it was.
LEMMA Bystander ==
    ASSUME NEW c \in Client, ClientOK(c), call'[c] = call[c],
           \A s \in Server : /\ NoneOf(mail[s], c) => NoneOf(mail'[s], c)
                             /\ OneOf(mail[s], c) => OneOf(mail'[s], c),
           \A d \in Device : Held(d, c)' <=> Held(d, c)
    PROVE  ClientOK(c)'
<1>1. Away(c) => Away(c)'
  BY DEF Away
<1>2. ASSUME NEW s \in Server, QueuedAt(c, s)
      PROVE  QueuedAt(c, s)'
  BY <1>2 DEF QueuedAt
<1>3. ASSUME NEW d \in Device, WorkedAt(c, d)
      PROVE  WorkedAt(c, d)'
  BY <1>3 DEF WorkedAt
<1>4. Somewhere(c)'
  BY <1>1, <1>2, <1>3 DEF ClientOK, Somewhere
<1>5. ASSUME ~Away(c)
      PROVE  ~Away(c)'
  <2>1. \/ \E s \in Server : QueuedAt(c, s)'
        \/ \E d \in Device : WorkedAt(c, d)'
    BY <1>2, <1>3, <1>5 DEF ClientOK, Somewhere
  <2>2. ASSUME NEW s \in Server, QueuedAt(c, s)'
        PROVE  ~Away(c)'
    BY <2>2, NotBoth DEF QueuedAt, Away
  <2>3. ASSUME NEW d \in Device, WorkedAt(c, d)'
        PROVE  ~Away(c)'
    BY <2>3 DEF WorkedAt, Away
  <2> QED
    BY <2>1, <2>2, <2>3
<1> QED
  BY <1>1, <1>4, <1>5 DEF ClientOK

\* Queues and drivers from which every trace of a client has gone.
LEMMA Gone ==
    ASSUME NEW c \in Client, Away(c)', call'[c] = NotCalling \/ call'[c].to = TM
    PROVE  ClientOK(c)'
BY DEF ClientOK, Somewhere

-----------------------------------------------------------------------------
\* Threads are told from each other, and so are the clients of messages.
LEMMA Strangers ==
    /\ IO \notin Client /\ TM \notin Client /\ NONE \notin Client
    /\ IO \notin Device /\ TM \notin Device /\ Nobody \notin Device /\ TM # Nobody
BY IOAssumption

LEMMA Concerns ==
    ASSUME NEW m, NEW c \in Client
    PROVE  /\ Own(m) => (About(m, c) <=> c = m.from)
           /\ m.from \in {IO, TM, NONE} => (About(m, c) <=> c = m.client)
BY Strangers DEF About, Own

LEMMA Unstarted ==
    /\ NotStarted.pc = NONE /\ NotStarted.msg.from = NONE /\ NotStarted.msg.client = NONE
    /\ Idle.pc = "recv" /\ Idle.msg.from = NONE /\ Idle.msg.client = NONE
BY DEF NotStarted, Idle, Msg

\* What drivers hold when they do nothing is about no client.
LEMMA HoldsNothing ==
    ASSUME NEW d \in Device, driver[d] = NotStarted \/ driver[d] = Idle, NEW c \in Client
    PROVE  ~Held(d, c)
BY Unstarted, Strangers DEF Held, About

LEMMA BusyHolds ==
    ASSUME NEW d \in Device, Busy(driver[d]), NEW c \in Client
    PROVE  /\ Held(d, c) <=> c = driver[d].msg.from
           /\ driver[d] # Idle /\ driver[d] # NotStarted
BY Unstarted, Concerns DEF Held, Busy, NONE

LEMMA Members ==
    ASSUME NEW q \in Seq(Message), NEW m \in Message
    PROVE  /\ \A i \in DOMAIN Append(q, m) :
                 (i \in DOMAIN q /\ Append(q, m)[i] = q[i]) \/ Append(q, m)[i] = m
           /\ q # << >> => /\ \A i \in DOMAIN Tail(q) :
                                 i + 1 \in DOMAIN q /\ Tail(q)[i] = q[i + 1]
                           /\ 1 \in DOMAIN q /\ Head(q) = q[1]
OBVIOUS

LEMMA MailTyped ==
    ASSUME IndInv
    PROVE  /\ DOMAIN mail = Server
           /\ \A s \in Server : mail[s] \in Seq(Message)
           /\ mail = [s \in Server |-> mail[s]]
           /\ driver = [d \in Device |-> driver[d]]
BY DEF IndInv, MailOK, DriversOK, Server

LEMMA CallsKept ==
    ASSUME Calls, NEW c \in Client, NEW k, call' = [call EXCEPT ![c] = k]
    PROVE  /\ Calls' /\ call'[c] = k
           /\ \A b \in Client : b # c => call'[b] = call[b]
BY DEF Calls

\* Closes stay with clients that wait for them: whom the step answers has none.
LEMMA ClosingKept ==
    ASSUME Shapes, Closing,
           \A i \in DOMAIN mail'[IO] :
               \/ \E j \in DOMAIN mail[IO] : mail'[IO][i] = mail[IO][j]
               \/ mail'[IO][i].id # "IO_CLOSE",
           \A c \in Client : call'[c] = call[c] \/ NoneOf(mail'[IO], c)
    PROVE  Closing'
<1> SUFFICES ASSUME NEW i \in DOMAIN mail'[IO], mail'[IO][i].id = "IO_CLOSE"
             PROVE  call'[mail'[IO][i].from].to = mail'[IO][i].to
  BY DEF Closing
<1>1. PICK j \in DOMAIN mail[IO] : mail'[IO][i] = mail[IO][j]
  OBVIOUS
<1>2. mail[IO][j].from \in Client
  BY <1>1 DEF Shapes, ForIO, Own
<1>3. ~NoneOf(mail'[IO], mail[IO][j].from)
  BY <1>1 DEF NoneOf, About
<1>4. call'[mail[IO][j].from] = call[mail[IO][j].from]
  BY <1>2, <1>3
<1> QED
  BY <1>1, <1>4 DEF Closing

\* Drivers that have been loaded may do what they like.
LEMMA LoadingKept ==
    ASSUME Loading, IndInv, NEW d \in Device, NEW v, Goes(d, v), driver[d] # NotStarted,
           booted' = booted
    PROVE  Loading'
<1> SUFFICES ASSUME NEW i \in DOMAIN Order, booted < 2 * NbDevices + i
             PROVE  driver'[Order[i]] = NotStarted
  BY DEF Loading
<1>1. driver[Order[i]] = NotStarted
  BY DEF Loading
<1>2. Order[i] # d
  BY <1>1
<1> QED
  BY <1>1, <1>2, MailTyped DEF Goes

LEMMA WorkingKept ==
    ASSUME Working, IndInv, NEW d \in Device, NEW v, Goes(d, v),
           v = Idle \/ Busy(v)
    PROVE  Working'
<1>1. driver' = [driver EXCEPT ![d] = v] /\ driver = [e \in Device |-> driver[e]]
  BY MailTyped DEF Goes
<1>2. \A e \in Device : driver'[e] = IF e = d THEN v ELSE driver[e]
  BY <1>1
<1> QED
  BY <1>2 DEF Working, Busy, Own

\* Taking a message out of a queue.
Takes(s) == mail[s] # << >> /\ mail' = [mail EXCEPT ![s] = Tail(@)]

LEMMA TakesKeeps ==
    ASSUME IndInv, NEW s \in Server, Takes(s)
    PROVE  /\ mail'[s] = Tail(mail[s])
           /\ \A t \in Server : t # s => mail'[t] = mail[t]
           /\ \A c : /\ \A t \in Server : NoneOf(mail[t], c) => NoneOf(mail'[t], c)
                     /\ ~About(Head(mail[s]), c) =>
                            \A t \in Server : OneOf(mail[t], c) => OneOf(mail'[t], c)
                     /\ About(Head(mail[s]), c) => ~NoneOf(mail[s], c)
                     /\ OneOf(mail[s], c) /\ About(Head(mail[s]), c) => NoneOf(mail'[s], c)
           /\ \A i \in DOMAIN mail'[s] : i + 1 \in DOMAIN mail[s] /\ mail'[s][i] = mail[s][i + 1]
           /\ 1 \in DOMAIN mail[s] /\ Head(mail[s]) = mail[s][1]
           /\ Head(mail[s]) \in Message
<1>1. mail'[s] = Tail(mail[s]) /\ \A t \in Server : t # s => mail'[t] = mail[t]
  BY MailTyped DEF Takes
<1>2. mail[s] \in Seq(Message) /\ mail[s] # << >>
  BY MailTyped DEF Takes
<1>3. Head(mail[s]) \in Message
  BY <1>2
<1>4. /\ \A i \in DOMAIN Tail(mail[s]) : i + 1 \in DOMAIN mail[s] /\ Tail(mail[s])[i] = mail[s][i + 1]
      /\ 1 \in DOMAIN mail[s] /\ Head(mail[s]) = mail[s][1]
  BY <1>2, <1>3, Members
<1>5. ASSUME NEW c
      PROVE  /\ \A t \in Server : NoneOf(mail[t], c) => NoneOf(mail'[t], c)
             /\ ~About(Head(mail[s]), c) =>
                    \A t \in Server : OneOf(mail[t], c) => OneOf(mail'[t], c)
             /\ About(Head(mail[s]), c) => ~NoneOf(mail[s], c)
             /\ OneOf(mail[s], c) /\ About(Head(mail[s]), c) => NoneOf(mail'[s], c)
  BY <1>1, <1>2, Shrinks
<1> QED
  BY <1>1, <1>3, <1>4, <1>5

LEMMA ShapesTaken ==
    ASSUME IndInv, Shapes, NEW s \in Server, Takes(s)
    PROVE  Shapes' /\ \A i \in DOMAIN mail'[IO] : \E j \in DOMAIN mail[IO] : mail'[IO][i] = mail[IO][j]
<1>1. \A t \in Server : \A i \in DOMAIN mail'[t] : \E j \in DOMAIN mail[t] : mail'[t][i] = mail[t][j]
  <2> SUFFICES ASSUME NEW t \in Server, NEW i \in DOMAIN mail'[t]
               PROVE  \E j \in DOMAIN mail[t] : mail'[t][i] = mail[t][j]
    OBVIOUS
  <2>1. CASE t = s
    BY <2>1, TakesKeeps
  <2>2. CASE t # s
    BY <2>2, TakesKeeps
  <2> QED
    BY <2>1, <2>2
<1>2. IO \in Server /\ Device \subseteq Server
  BY DEF Server
<1>3. \A i \in DOMAIN mail'[IO] : \E j \in DOMAIN mail[IO] : mail'[IO][i] = mail[IO][j]
  BY <1>1, <1>2
<1>4. \A i \in DOMAIN mail'[IO] : ForIO(mail'[IO][i])
  BY <1>3 DEF Shapes
<1>5. ASSUME NEW d \in Device, NEW i \in DOMAIN mail'[d]
      PROVE  ForDriver(mail'[d][i])
  <2>1. PICK j \in DOMAIN mail[d] : mail'[d][i] = mail[d][j]
    BY <1>1, <1>2
  <2> QED
    BY <2>1 DEF Shapes
<1>6. Shapes'
  BY <1>4, <1>5 DEF Shapes, ForIO, ForDriver, Own
<1> QED
  BY <1>3, <1>6

-----------------------------------------------------------------------------
\* A message is taken and its client answered at once.
LEMMA TakeAnswers ==
    ASSUME OnceInv, IndInv', NEW s \in Server, Takes(s), NEW c \in Client, Answer(c),
           \A b \in Client : About(Head(mail[s]), b) <=> b = c,
           UNCHANGED <<driver, booted>>
    PROVE  OnceInv'
<1>1. IndInv /\ Background /\ \A b \in Client : ClientOK(b)
  BY DEF OnceInv
<1>2. Calls' /\ call'[c] = NotCalling /\ \A b \in Client : b # c => call'[b] = call[b]
  BY <1>1, CallsKept DEF Answer, Background
<1>3. Shapes' /\ \A i \in DOMAIN mail'[IO] : \E j \in DOMAIN mail[IO] : mail'[IO][i] = mail[IO][j]
  BY <1>1, ShapesTaken DEF Background
<1>4. \A d \in Device : \A b : Held(d, b)' <=> Held(d, b)
  BY DEF Held, About, Idle, NotStarted, Msg
<1>5. Away(c)'
  <2>1. About(Head(mail[s]), c)
    OBVIOUS
  <2>2. ~NoneOf(mail[s], c)
    BY <1>1, <2>1, TakesKeeps
  <2>3. QueuedAt(c, s)
    BY <1>1, <2>2, OnlyThere DEF ClientOK
  <2>4. NoneOf(mail'[s], c)
    BY <1>1, <2>1, <2>3, TakesKeeps DEF QueuedAt
  <2>5. \A t \in Server \ {s} : NoneOf(mail'[t], c)
    BY <1>1, <2>3, TakesKeeps DEF QueuedAt
  <2> QED
    BY <1>4, <2>3, <2>4, <2>5 DEF Away, QueuedAt
<1>6. ClientOK(c)'
  BY <1>2, <1>5, Gone
<1>7. ASSUME NEW b \in Client, b # c
      PROVE  ClientOK(b)'
  <2>1. ~About(Head(mail[s]), b)
    BY <1>7
  <2>2. \A t \in Server : /\ NoneOf(mail[t], b) => NoneOf(mail'[t], b)
                          /\ OneOf(mail[t], b) => OneOf(mail'[t], b)
    BY <1>1, <2>1, TakesKeeps
  <2> QED
    BY <1>1, <1>2, <1>4, <1>7, <2>2, Bystander
<1>8. \A b \in Client : call'[b] = call[b] \/ NoneOf(mail'[IO], b)
  BY <1>2, <1>5 DEF Away, Server
<1>9. Closing'
  BY <1>1, <1>3, <1>8, ClosingKept DEF Background
<1>10. Working' /\ Loading'
  BY <1>1 DEF Background, Working, Loading, Busy, Own, Idle, NotStarted, Msg, NbDevices
<1> QED
  BY <1>2, <1>3, <1>6, <1>7, <1>9, <1>10 DEF OnceInv, Background

\* A message is taken and nobody answered: it was of no client, or of one that
\* has asked for a close of a thread that is no driver.  The I/O thread may get a
\* message that is of no client.
LEMMA TakeDrops ==
    ASSUME OnceInv, IndInv', mail[IO] # << >>,
           \/ mail' = [mail EXCEPT ![IO] = Tail(@)]
           \/ mail' = [mail EXCEPT ![IO] = Append(Tail(@), Msg("UNKNOWN_SYSCALL", TM))],
           \A b \in Client : About(Head(mail[IO]), b) => call[b].to = TM,
           UNCHANGED <<driver, booted, call>>
    PROVE  OnceInv'
<1> DEFINE note == Msg("UNKNOWN_SYSCALL", TM)
           q == mail[IO]
<1>1. IndInv /\ Background /\ \A b \in Client : ClientOK(b)
  BY DEF OnceInv
<1>2. /\ mail = [s \in Server |-> mail[s]] /\ IO \in Server /\ q \in Seq(Message)
      /\ \A d \in Device : d # IO /\ d \in Server
  BY <1>1, MailTyped, Strangers DEF Server
<1>3. /\ \A t \in Server : t # IO => mail'[t] = mail[t]
      /\ mail'[IO] = Tail(q) \/ mail'[IO] = Append(Tail(q), note)
  BY <1>2
<1>4. /\ note.id = "UNKNOWN_SYSCALL" /\ note.from = TM /\ note.client = NONE
      /\ note \in Message
  BY PlainMessage, Names DEF Msg
<1>5. Tail(q) \in Seq(Message)
  BY <1>2
<1>6. \A b \in Client : ~About(note, b)
  BY <1>4, Strangers DEF About
<1> HIDE DEF note
<1>7. ASSUME NEW b \in Client
      PROVE  /\ NoneOf(q, b) => NoneOf(mail'[IO], b)
             /\ OneOf(q, b) /\ ~About(Head(q), b) => OneOf(mail'[IO], b)
             /\ OneOf(q, b) /\ About(Head(q), b) => NoneOf(mail'[IO], b)
             /\ About(Head(q), b) => ~NoneOf(q, b)
  <2>1. /\ NoneOf(q, b) => ~About(Head(q), b) /\ NoneOf(Tail(q), b)
        /\ OneOf(q, b) /\ About(Head(q), b) => NoneOf(Tail(q), b)
        /\ OneOf(q, b) /\ ~About(Head(q), b) => OneOf(Tail(q), b)
    BY <1>2, Shrinks
  <2>2. /\ NoneOf(Tail(q), b) => NoneOf(Append(Tail(q), note), b)
        /\ OneOf(Tail(q), b) => OneOf(Append(Tail(q), note), b)
    BY <1>4, <1>5, <1>6, Grows
  <2> HIDE DEF q
  <2> QED
    BY <1>3, <2>1, <2>2
<1>8. \A d \in Device : \A b : Held(d, b)' <=> Held(d, b)
  BY DEF Held, About, Idle, NotStarted, Msg
<1>9. ASSUME NEW b \in Client
      PROVE  ClientOK(b)'
  <2>1. CASE About(Head(q), b)
    <3>1. QueuedAt(b, IO)
      BY <1>1, <1>2, <1>7, <2>1, OnlyThere DEF ClientOK
    <3>2. NoneOf(mail'[IO], b)
      BY <1>7, <2>1, <3>1 DEF QueuedAt
    <3>3. Away(b)'
      BY <1>3, <1>8, <3>1, <3>2 DEF Away, QueuedAt
    <3> QED
      BY <2>1, <3>3, Gone
  <2>2. CASE ~About(Head(q), b)
    <3>1. \A t \in Server : /\ NoneOf(mail[t], b) => NoneOf(mail'[t], b)
                            /\ OneOf(mail[t], b) => OneOf(mail'[t], b)
      BY <1>3, <1>7, <2>2
    <3> QED
      BY <1>1, <1>8, <3>1, Bystander
  <2> QED
    BY <2>1, <2>2
<1>10. \A i \in DOMAIN mail'[IO] : (\E j \in DOMAIN q : mail'[IO][i] = q[j]) \/ mail'[IO][i] = note
  <2>1. \A i \in DOMAIN Tail(q) : i + 1 \in DOMAIN q /\ Tail(q)[i] = q[i + 1]
    BY <1>2, <1>4, Members
  <2>2. \A i \in DOMAIN Append(Tail(q), note) :
           (i \in DOMAIN Tail(q) /\ Append(Tail(q), note)[i] = Tail(q)[i])
              \/ Append(Tail(q), note)[i] = note
    BY <1>4, <1>5, Members
  <2> HIDE DEF q
  <2> QED
    BY <1>3, <2>1, <2>2
<1>11. Shapes'
  <2>1. ForIO(note)
    BY <1>4 DEF ForIO
  <2>2. \A i \in DOMAIN mail'[IO] : ForIO(mail'[IO][i])
    BY <1>1, <1>10, <2>1 DEF Background, Shapes
  <2>3. \A d \in Device : \A i \in DOMAIN mail'[d] : ForDriver(mail'[d][i])
    BY <1>1, <1>2, <1>3 DEF Background, Shapes
  <2> QED
    BY <2>2, <2>3 DEF Shapes, ForIO, ForDriver, Own
<1>12. Closing'
  BY <1>1, <1>4, <1>10, ClosingKept DEF Background
<1>13. Working' /\ Loading' /\ Calls'
  BY <1>1 DEF Background, Working, Loading, Calls, Busy, Own, Idle, NotStarted, Msg, NbDevices
<1> QED
  BY <1>9, <1>11, <1>12, <1>13 DEF OnceInv, Background

\* A driver takes a message and sets to work.
LEMMA TakeWorks ==
    ASSUME OnceInv, IndInv', NEW d \in Device, Takes(d), driver[d] = Idle,
           NEW w, Goes(d, w), Busy(w), w.msg = Head(mail[d]),
           UNCHANGED <<call, booted>>
    PROVE  OnceInv'
<1> DEFINE m == Head(mail[d])
<1>1. IndInv /\ Background /\ \A b \in Client : ClientOK(b)
  BY DEF OnceInv
<1>c. PICK c \in Client : c = m.from
  BY DEF Busy, Own
<1>2. c \in Client /\ \A b \in Client : About(m, b) <=> b = c
  BY <1>c, Concerns DEF Busy, Own
<1>3. d \in Server
  BY DEF Server
<1>4. driver'[d] = w /\ \A e \in Device : e # d => driver'[e] = driver[e]
  BY <1>1, MailTyped DEF Goes
<1>5. Idle' = Idle
  BY DEF Idle, NotStarted, Msg
<1>6. \A e \in Device : \A b : e # d => (Held(e, b)' <=> Held(e, b))
  BY <1>4, <1>5 DEF Held, About
<1>7. w # Idle
  BY Unstarted DEF Busy
<1>8. \A b \in Client : ~Held(d, b) /\ (Held(d, b)' <=> b = c)
  BY <1>2, <1>4, <1>5, <1>7, Unstarted, Strangers DEF Held, About
<1>9. QueuedAt(c, d)
  BY <1>1, <1>2, <1>3, TakesKeeps, OnlyThere DEF ClientOK
<1>10. WorkedAt(c, d)'
  <2>1. NoneOf(mail'[d], c)
    BY <1>1, <1>2, <1>3, <1>9, TakesKeeps DEF QueuedAt
  <2>2. \A t \in Server \ {d} : NoneOf(mail'[t], c)
    BY <1>1, <1>3, <1>9, TakesKeeps DEF QueuedAt
  <2>3. \A e \in Device \ {d} : ~Held(e, c)'
    BY <1>6, <1>9 DEF QueuedAt
  <2>4. Held(d, c)'
    BY <1>2, <1>8
  <2> QED
    BY <2>1, <2>2, <2>3, <2>4 DEF WorkedAt
<1>11. ClientOK(c)'
  <2>1. ~Away(c)'
    BY <1>10 DEF Away, WorkedAt
  <2>2. ~Away(c)
    BY <1>3, <1>9, NotBoth DEF Away, QueuedAt
  <2>3. call[c] # NotCalling
    BY <1>1, <1>2, <2>2 DEF ClientOK
  <2> QED
    BY <1>10, <2>1, <2>3 DEF ClientOK, Somewhere
<1>12. ASSUME NEW b \in Client, b # c
       PROVE  ClientOK(b)'
  <2>1. \A t \in Server : /\ NoneOf(mail[t], b) => NoneOf(mail'[t], b)
                          /\ OneOf(mail[t], b) => OneOf(mail'[t], b)
    BY <1>1, <1>2, <1>3, <1>12, TakesKeeps
  <2>2. \A e \in Device : Held(e, b)' <=> Held(e, b)
    BY <1>6, <1>8, <1>12
  <2> QED
    BY <1>1, <2>1, <2>2, Bystander
<1>13. Shapes' /\ Closing'
  BY <1>1, <1>3, ShapesTaken, ClosingKept DEF Background
<1>14. driver[d] # NotStarted
  BY Unstarted DEF NONE
<1>15. Working' /\ Loading' /\ Calls'
  BY <1>1, <1>14, WorkingKept, LoadingKept DEF Background, Calls
<1> QED
  BY <1>11, <1>12, <1>13, <1>15 DEF OnceInv, Background

\* A driver goes on with its work.
LEMMA GoesOn ==
    ASSUME OnceInv, IndInv', NEW d \in Device, Busy(driver[d]),
           NEW w, Goes(d, w), Busy(w), w.msg = driver[d].msg,
           UNCHANGED <<mail, call, booted>>
    PROVE  OnceInv'
<1>1. IndInv /\ Background /\ \A b \in Client : ClientOK(b)
  BY DEF OnceInv
<1>2. driver'[d] = w /\ \A e \in Device : e # d => driver'[e] = driver[e]
  BY <1>1, MailTyped DEF Goes
<1>3. Idle' = Idle /\ driver[d] # Idle /\ driver[d] # NotStarted /\ w # Idle
  BY Unstarted DEF Busy, Idle, NotStarted, Msg, NONE
<1>4. \A e \in Device : \A b : Held(e, b)' <=> Held(e, b)
  BY <1>2, <1>3 DEF Held, About
<1>5. \A b \in Client : ClientOK(b)'
  BY <1>1, <1>4, Bystander
<1>6. Shapes' /\ Closing' /\ Calls'
  BY <1>1 DEF Background, Shapes, Closing, Calls, ForIO, ForDriver, Own
<1>7. Working' /\ Loading'
  BY <1>1, <1>3, WorkingKept, LoadingKept DEF Background
<1> QED
  BY <1>5, <1>6, <1>7 DEF OnceInv, Background

\* A driver has done its work and answers.
LEMMA Ends ==
    ASSUME OnceInv, IndInv', NEW d \in Device, Busy(driver[d]), Goes(d, Idle),
           Answer(driver[d].msg.from), UNCHANGED <<mail, booted>>
    PROVE  OnceInv'
<1>1. IndInv /\ Background /\ \A b \in Client : ClientOK(b)
  BY DEF OnceInv
<1>2. PICK c \in Client : c = driver[d].msg.from
  BY DEF Busy, Own
<1>3. driver'[d] = Idle /\ \A e \in Device : e # d => driver'[e] = driver[e]
  BY <1>1, MailTyped DEF Goes
<1>4. Idle' = Idle
  BY DEF Idle, NotStarted, Msg
<1>5. \A e \in Device : \A b : e # d => (Held(e, b)' <=> Held(e, b))
  BY <1>3, <1>4 DEF Held, About
<1>6. \A b \in Client : ~Held(d, b)' /\ (Held(d, b) <=> b = c)
  BY <1>2, <1>3, <1>4, BusyHolds DEF Held
<1>7. Calls' /\ call'[c] = NotCalling /\ \A b \in Client : b # c => call'[b] = call[b]
  BY <1>1, <1>2, CallsKept DEF Answer, Background
<1>8. WorkedAt(c, d)
  BY <1>1, <1>2, <1>6, OnlyThere DEF ClientOK
<1>9. Away(c)'
  <2>1. \A e \in Device : ~Held(e, c)'
    BY <1>2, <1>5, <1>6, <1>8 DEF WorkedAt
  <2>2. \A s \in Server : NoneOf(mail'[s], c)
    BY <1>8 DEF WorkedAt
  <2> QED
    BY <2>1, <2>2 DEF Away
<1>10. ClientOK(c)'
  BY <1>2, <1>7, <1>9, Gone
<1>11. ASSUME NEW b \in Client, b # c
       PROVE  ClientOK(b)'
  <2>1. \A e \in Device : Held(e, b)' <=> Held(e, b)
    BY <1>5, <1>6, <1>11
  <2> QED
    BY <1>1, <1>7, <1>11, <2>1, Bystander
<1>12. Shapes'
  BY <1>1 DEF Background, Shapes, ForIO, ForDriver, Own
<1>13. Closing'
  <2>1. \A b \in Client : call'[b] = call[b] \/ NoneOf(mail'[IO], b)
    BY <1>7, <1>9 DEF Away, Server
  <2>2. \A i \in DOMAIN mail'[IO] : \E j \in DOMAIN mail[IO] : mail'[IO][i] = mail[IO][j]
    OBVIOUS
  <2> QED
    BY <1>1, <2>1, <2>2, ClosingKept DEF Background
<1>14. driver[d] # NotStarted
  BY Unstarted DEF Busy, NONE
<1>15. Working' /\ Loading'
  BY <1>1, <1>14, WorkingKept, LoadingKept DEF Background
<1> QED
  BY <1>7, <1>10, <1>11, <1>12, <1>13, <1>15 DEF OnceInv, Background

\* Steps that touch neither messages nor drivers.
LEMMA Quiet ==
    ASSUME OnceInv, IndInv', UNCHANGED <<mail, driver, call>>,
           booted' = booted \/ booted' = booted + 1
    PROVE  OnceInv'
<1>1. IndInv /\ Background /\ \A b \in Client : ClientOK(b)
  BY DEF OnceInv
<1>2. \A e \in Device : \A b : Held(e, b)' <=> Held(e, b)
  BY DEF Held, About, Idle, NotStarted, Msg
<1>3. \A b \in Client : ClientOK(b)'
  BY <1>1, <1>2, Bystander
<1>4. Shapes' /\ Closing' /\ Calls' /\ Working'
  BY <1>1 DEF Background, Shapes, Closing, Calls, Working, Busy, ForIO, ForDriver, Own,
              Idle, NotStarted, Msg
<1>5. Loading'
  <2>1. booted \in Nat /\ booted' \in Nat /\ booted <= booted'
    BY <1>1 DEF Background, Loading
  <2>2. NbDevices \in Nat /\ DOMAIN Order \subseteq Nat
    BY IOAssumption DEF NbDevices
  <2>3. ASSUME NEW i \in DOMAIN Order, booted' < 2 * NbDevices + i
        PROVE  driver'[Order[i]] = NotStarted
    <3>1. booted < 2 * NbDevices + i
      BY <2>1, <2>2, <2>3
    <3> QED
      BY <1>1, <3>1 DEF Background, Loading
  <2> QED
    BY <2>1, <2>3 DEF Loading
<1> QED
  BY <1>3, <1>4, <1>5 DEF OnceInv, Background

\* A client asks: it had no request, and now it has one.
LEMMA Asking ==
    ASSUME OnceInv, IndInv', NEW c \in Client, call[c] = NotCalling,
           NEW s \in Server, NEW m \in Message, Send(s, m),
           Own(m), m.from = c, IF s = IO THEN ForIO(m) ELSE ForDriver(m),
           NEW k, call' = [call EXCEPT ![c] = k], k # NotCalling,
           s = IO /\ m.id = "IO_CLOSE" => k.to = m.to,
           UNCHANGED <<driver, booted>>
    PROVE  OnceInv'
<1>1. IndInv /\ Background /\ \A b \in Client : ClientOK(b)
  BY DEF OnceInv
<1>2. mail'[s] = Append(mail[s], m) /\ \A t \in Server : t # s => mail'[t] = mail[t]
  BY <1>1, MailTyped DEF Send
<1>3. mail[s] \in Seq(Message)
  BY <1>1, MailTyped
<1>4. \A b \in Client : About(m, b) <=> b = c
  BY Concerns
<1>5. \A e \in Device : \A b : Held(e, b)' <=> Held(e, b)
  BY DEF Held, About, Idle, NotStarted, Msg
<1>6. Calls' /\ call'[c] = k /\ \A b \in Client : b # c => call'[b] = call[b]
  BY <1>1, CallsKept DEF Background
<1>7. NotCalling' = NotCalling
  BY DEF NotCalling
<1>8. Away(c)
  BY <1>1 DEF ClientOK
<1>9. ClientOK(c)'
  <2>1. OneOf(mail'[s], c)
    BY <1>2, <1>3, <1>4, <1>8, Grows DEF Away
  <2>2. QueuedAt(c, s)'
    BY <1>2, <1>5, <1>8, <2>1 DEF Away, QueuedAt
  <2>3. ~Away(c)'
    BY <2>1, NotBoth DEF Away
  <2> QED
    BY <1>6, <1>7, <2>2, <2>3 DEF ClientOK, Somewhere
<1>10. ASSUME NEW b \in Client, b # c
       PROVE  ClientOK(b)'
  <2>1. ~About(m, b)
    BY <1>4, <1>10
  <2>2. /\ NoneOf(mail[s], b) => NoneOf(Append(mail[s], m), b)
        /\ OneOf(mail[s], b) => OneOf(Append(mail[s], m), b)
    BY <1>3, <2>1, Grows
  <2>3. \A t \in Server : /\ NoneOf(mail[t], b) => NoneOf(mail'[t], b)
                          /\ OneOf(mail[t], b) => OneOf(mail'[t], b)
    BY <1>2, <2>2
  <2> QED
    BY <1>1, <1>5, <1>6, <1>10, <2>3, Bystander
<1>11. \A i \in DOMAIN mail'[s] : (i \in DOMAIN mail[s] /\ mail'[s][i] = mail[s][i]) \/ mail'[s][i] = m
  BY <1>2, <1>3, Members
<1>12. IO \in Server /\ \A d \in Device : d \in Server /\ d # IO
  BY Strangers DEF Server
<1>13. \A i \in DOMAIN mail'[IO] : \/ i \in DOMAIN mail[IO] /\ mail'[IO][i] = mail[IO][i]
                                   \/ s = IO /\ mail'[IO][i] = m
  BY <1>2, <1>11, <1>12
<1>14. Shapes'
  <2>1. \A i \in DOMAIN mail'[IO] : ForIO(mail'[IO][i])
    BY <1>1, <1>13 DEF Background, Shapes
  <2>2. \A d \in Device : \A i \in DOMAIN mail'[d] : ForDriver(mail'[d][i])
    BY <1>1, <1>2, <1>11, <1>12 DEF Background, Shapes
  <2> QED
    BY <2>1, <2>2 DEF Shapes, ForIO, ForDriver, Own
<1>15. Closing'
  <2> SUFFICES ASSUME NEW i \in DOMAIN mail'[IO], mail'[IO][i].id = "IO_CLOSE"
               PROVE  call'[mail'[IO][i].from].to = mail'[IO][i].to
    BY DEF Closing
  <2>1. CASE i \in DOMAIN mail[IO] /\ mail'[IO][i] = mail[IO][i]
    <3>1. mail[IO][i].from \in Client /\ call[mail[IO][i].from].to = mail[IO][i].to
      BY <1>1, <2>1 DEF Background, Shapes, Closing, ForIO, Own
    <3>2. mail[IO][i].from # c
      BY <1>8, <1>12, <2>1 DEF Away, NoneOf, About
    <3> QED
      BY <1>6, <2>1, <3>1, <3>2
  <2>2. CASE s = IO /\ mail'[IO][i] = m
    BY <1>6, <2>2
  <2> QED
    BY <1>13, <2>1, <2>2
<1>16. Working' /\ Loading'
  BY <1>1 DEF Background, Working, Loading, Busy, Own, Idle, NotStarted, Msg, NbDevices
<1> QED
  BY <1>6, <1>9, <1>10, <1>14, <1>15, <1>16 DEF OnceInv, Background

\* The I/O thread hands a close to the driver that it is for.
LEMMA Forwards ==
    ASSUME OnceInv, IndInv', mail[IO] # << >>, NEW m \in Message, m = Head(mail[IO]),
           Own(m), m.to \in Device, mail' = Forwarded(m),
           UNCHANGED <<driver, booted, call>>
    PROVE  OnceInv'
<1>1. IndInv /\ Background /\ \A b \in Client : ClientOK(b)
  BY DEF OnceInv
<1>2. PICK n : n = [Msg("IO_DRIVERCLOSE", IO) EXCEPT !.client = m.from]
  OBVIOUS
<1>3. PICK d \in Device : d = m.to
  OBVIOUS
<1>4. PICK c \in Client : c = m.from
  BY DEF Own
<1>5. /\ n.id = "IO_DRIVERCLOSE" /\ n.from = IO /\ n.client = c
      /\ n \in Message
  <2>1. Msg("IO_DRIVERCLOSE", IO) \in Message /\ c \in Sender
    BY PlainMessage, Names
  <2> QED
    BY <1>2, <1>4, <2>1, Addressed DEF Msg
<1>6. /\ mail = [s \in Server |-> mail[s]] /\ IO \in Server /\ mail[IO] \in Seq(Message)
      /\ mail[d] \in Seq(Message)
      /\ \A e \in Device : e # IO /\ e \in Server
  BY <1>1, MailTyped, Strangers DEF Server
<1>7. /\ mail'[IO] = Tail(mail[IO]) /\ mail'[d] = Append(mail[d], n)
      /\ \A t \in Server : t # IO /\ t # d => mail'[t] = mail[t]
  BY <1>2, <1>3, <1>6 DEF Forwarded
<1>8. \A b \in Client : (About(m, b) <=> b = c) /\ (About(n, b) <=> b = c)
  BY <1>4, <1>5, Concerns
<1>9. \A e \in Device : \A b : Held(e, b)' <=> Held(e, b)
  BY DEF Held, About, Idle, NotStarted, Msg
<1>10. QueuedAt(c, IO)
  <2>1. ~NoneOf(mail[IO], c)
    BY <1>6, <1>8, Shrinks
  <2> QED
    BY <1>1, <1>6, <2>1, OnlyThere DEF ClientOK
<1>11. QueuedAt(c, d)'
  <2>1. NoneOf(mail[d], c)
    BY <1>6, <1>10 DEF QueuedAt
  <2>2. OneOf(mail'[d], c)
    <3>1. OneOf(Append(mail[d], n), c)
      BY <1>5, <1>6, <1>8, <2>1, Grows
    <3> QED
      BY <3>1, <1>7
  <2>3. NoneOf(mail'[IO], c)
    BY <1>6, <1>7, <1>8, <1>10, Shrinks DEF QueuedAt
  <2> QED
    BY <1>6, <1>7, <1>9, <1>10, <2>2, <2>3 DEF QueuedAt
<1>12. ClientOK(c)'
  <2>1. ~Away(c)'
    BY <1>6, <1>11, NotBoth DEF Away, QueuedAt
  <2>2. ~Away(c)
    BY <1>6, <1>10, NotBoth DEF Away, QueuedAt
  <2>3. call'[c] # NotCalling
    BY <1>1, <2>2 DEF ClientOK
  <2>4. d \in Server
    BY <1>6
  <2> QED
    BY <1>11, <2>1, <2>3, <2>4 DEF ClientOK, Somewhere
<1>13. ASSUME NEW b \in Client, b # c
       PROVE  ClientOK(b)'
  <2>1. ~About(m, b) /\ ~About(n, b)
    BY <1>8, <1>13
  <2>2. /\ NoneOf(mail[IO], b) => NoneOf(mail'[IO], b)
        /\ OneOf(mail[IO], b) => OneOf(mail'[IO], b)
    BY <1>6, <1>7, <2>1, Shrinks
  <2>3. /\ NoneOf(mail[d], b) => NoneOf(mail'[d], b)
        /\ OneOf(mail[d], b) => OneOf(mail'[d], b)
    BY <1>5, <1>6, <1>7, <2>1, Grows
  <2>4. \A t \in Server : /\ NoneOf(mail[t], b) => NoneOf(mail'[t], b)
                          /\ OneOf(mail[t], b) => OneOf(mail'[t], b)
    BY <1>7, <2>2, <2>3
  <2> QED
    BY <1>1, <1>9, <1>13, <2>4, Bystander
<1>14. \A i \in DOMAIN mail'[IO] : \E j \in DOMAIN mail[IO] : mail'[IO][i] = mail[IO][j]
  <2>1. \A i \in DOMAIN Tail(mail[IO]) :
           i + 1 \in DOMAIN mail[IO] /\ Tail(mail[IO])[i] = mail[IO][i + 1]
    BY <1>6, Members
  <2> QED
    BY <1>7, <2>1
<1>15. Shapes'
  <2>1. \A i \in DOMAIN mail'[IO] : ForIO(mail'[IO][i])
    BY <1>1, <1>14 DEF Background, Shapes
  <2>2. ForDriver(n)
    BY <1>5 DEF ForDriver
  <2>3. \A i \in DOMAIN mail'[d] : (i \in DOMAIN mail[d] /\ mail'[d][i] = mail[d][i]) \/ mail'[d][i] = n
    <3>1. \A i \in DOMAIN Append(mail[d], n) :
             (i \in DOMAIN mail[d] /\ Append(mail[d], n)[i] = mail[d][i])
                \/ Append(mail[d], n)[i] = n
      BY <1>5, <1>6, Members
    <3> QED
      BY <1>7, <3>1
  <2>4. \A i \in DOMAIN mail'[d] : ForDriver(mail'[d][i])
    BY <1>1, <2>2, <2>3 DEF Background, Shapes
  <2>5. ASSUME NEW e \in Device, e # d
        PROVE  \A i \in DOMAIN mail'[e] : ForDriver(mail'[e][i])
    <3>1. mail'[e] = mail[e]
      BY <1>6, <1>7, <2>5
    <3> QED
      BY <1>1, <3>1 DEF Background, Shapes
  <2> QED
    BY <2>1, <2>4, <2>5 DEF Shapes, ForIO, ForDriver, Own
<1>16. Closing'
  BY <1>1, <1>14, ClosingKept DEF Background
<1>17. Working' /\ Loading' /\ Calls'
  BY <1>1 DEF Background, Working, Loading, Calls, Busy, Own, Idle, NotStarted, Msg, NbDevices
<1> QED
  BY <1>12, <1>13, <1>15, <1>16, <1>17 DEF OnceInv, Background

\* A driver is loaded, which has never run before.
LEMMA Loads ==
    ASSUME OnceInv, IndInv', ioLoadDriver
    PROVE  OnceInv'
<1>1. IndInv /\ Background /\ \A b \in Client : ClientOK(b)
  BY DEF OnceInv
<1>2. NbDevices \in Nat /\ DOMAIN Order = 1 .. NbDevices /\ booted \in Nat
  BY <1>1, IOAssumption DEF NbDevices, Background, Loading
<1>3. PICK i : i = booted - 2 * NbDevices + 1
  OBVIOUS
<1>4. i \in DOMAIN Order /\ booted < 2 * NbDevices + i /\ booted' = booted + 1
  BY <1>2, <1>3 DEF ioLoadDriver
<1>5. PICK d \in Device : d = Order[i]
  BY <1>4, IOAssumption
<1>6. driver[d] = NotStarted
  BY <1>1, <1>4, <1>5 DEF Background, Loading
<1>7. driver' = [driver EXCEPT ![d] = Idle] /\ driver = [e \in Device |-> driver[e]]
  BY <1>1, <1>3, <1>5, MailTyped DEF ioLoadDriver
<1>8. driver'[d] = Idle /\ \A e \in Device : e # d => driver'[e] = driver[e]
  BY <1>7
<1>9. UNCHANGED <<mail, call>>
  BY DEF ioLoadDriver
<1>10. Idle' = Idle
  BY DEF Idle, NotStarted, Msg
<1>11. \A b \in Client : \A e \in Device : Held(e, b)' <=> Held(e, b)
  <2>1. \A b \in Client : \A e \in Device : e # d => (Held(e, b)' <=> Held(e, b))
    BY <1>8, <1>10 DEF Held, About
  <2>2. \A b \in Client : ~Held(d, b)
    BY <1>6, HoldsNothing
  <2>3. \A b \in Client : ~Held(d, b)'
    BY <1>8, <1>10 DEF Held
  <2> QED
    BY <2>1, <2>2, <2>3
<1>12. \A b \in Client : ClientOK(b)'
  BY <1>1, <1>9, <1>11, Bystander
<1>13. Shapes' /\ Closing' /\ Calls'
  BY <1>1, <1>9 DEF Background, Shapes, Closing, Calls, ForIO, ForDriver, Own
<1>14. Working'
  BY <1>1, <1>8, <1>10 DEF Background, Working, Busy, Own, NotStarted, Msg
<1>15. Loading'
  <2> SUFFICES ASSUME NEW j \in DOMAIN Order, booted' < 2 * NbDevices + j
               PROVE  driver'[Order[j]] = NotStarted
    BY <1>2, <1>4 DEF Loading
  <2>1. booted < 2 * NbDevices + j /\ j # i
    BY <1>2, <1>3, <1>4
  <2>2. Order[j] # d /\ Order[j] \in Device
    BY <1>4, <1>5, <2>1, IOAssumption
  <2>3. driver[Order[j]] = NotStarted
    BY <1>1, <2>1 DEF Background, Loading
  <2> QED
    BY <1>8, <2>2, <2>3
<1> QED
  BY <1>12, <1>13, <1>14, <1>15 DEF OnceInv, Background

-----------------------------------------------------------------------------
\* What every action is, in terms of these moves.
LEMMA AskingStep ==
    ASSUME OnceInv, IndInv', NEW c \in Client, ClientCall(c)
    PROVE  OnceInv'
<1>1. call[c] = NotCalling /\ UNCHANGED <<driver, booted>>
  BY DEF ClientCall
<1>2. used \subseteq Device /\ IO \in Server /\ Device \subseteq Server /\ IO \notin Device
  BY Strangers DEF OnceInv, IndInv, Server
<1>3. ASSUME ioOpen(c)
      PROVE  OnceInv'
  <2>1. PICK d \in used \cup {Nobody} :
           /\ Send(IO, [Msg("IO_OPEN", c) EXCEPT !.to = d])
           /\ call' = [call EXCEPT ![c] = [op |-> "IO_OPEN", to |-> IO]]
    BY <1>3 DEF ioOpen
  <2>2. PICK m : m = [Msg("IO_OPEN", c) EXCEPT !.to = d]
    OBVIOUS
  <2>3. m \in Message
    BY <1>2, <2>2, PlainMessage, Addressed, Names
  <2>4. m.id = "IO_OPEN" /\ m.from = c /\ m.client = NONE
    BY <2>2 DEF Msg
  <2>5. Own(m) /\ ForIO(m)
    BY <2>4 DEF Own, ForIO
  <2>6. [op |-> "IO_OPEN", to |-> IO] # NotCalling
    BY DEF NotCalling, NONE
  <2> QED
    BY <1>1, <1>2, <2>1, <2>2, <2>3, <2>4, <2>5, <2>6, Asking
<1>4. ASSUME ioClose(c)
      PROVE  OnceInv'
  <2>1. PICK t \in Device \cup {TM, Nobody} :
           /\ Send(IO, [Msg("IO_CLOSE", c) EXCEPT !.to = t])
           /\ call' = [call EXCEPT ![c] = [op |-> "IO_CLOSE", to |-> t]]
    BY <1>2, <1>4 DEF ioClose
  <2>2. PICK m : m = [Msg("IO_CLOSE", c) EXCEPT !.to = t]
    OBVIOUS
  <2>3. m \in Message
    BY <2>2, PlainMessage, Addressed, Names
  <2>4. m.id = "IO_CLOSE" /\ m.from = c /\ m.client = NONE /\ m.to = t
    BY <2>2 DEF Msg
  <2>5. Own(m) /\ ForIO(m)
    BY <2>4 DEF Own, ForIO
  <2>6. [op |-> "IO_CLOSE", to |-> t] # NotCalling /\ [op |-> "IO_CLOSE", to |-> t].to = m.to
    BY <2>4 DEF NotCalling, NONE
  <2> QED
    BY <1>1, <1>2, <2>1, <2>2, <2>3, <2>4, <2>5, <2>6, Asking
<1>5. ASSUME Transfer(c)
      PROVE  OnceInv'
  <2>1. PICK d \in Device, op \in {"IO_READ", "IO_WRITE"}, t \in Transfers :
           /\ Send(d, [Msg(op, c) EXCEPT !.buffer = t[1], !.size = t[2]])
           /\ call' = [call EXCEPT ![c] = [op |-> op, to |-> d]]
    BY <1>2, <1>5 DEF Transfer
  <2>2. PICK m : m = [Msg(op, c) EXCEPT !.buffer = t[1], !.size = t[2]]
    OBVIOUS
  <2>3. t[1] \in 0 .. WORD - 1 /\ t[2] \in 0 .. WORD - 1
    BY AddressAssumption
  <2>4. m \in Message
    BY <2>2, <2>3, PlainMessage, Addressed, Names
  <2>5. m.id = op /\ m.from = c /\ m.client = NONE
    BY <2>2 DEF Msg
  <2>6. Own(m) /\ ForDriver(m)
    BY <2>5 DEF Own, ForDriver
  <2>7. [op |-> op, to |-> d] # NotCalling
    BY DEF NotCalling, NONE
  <2> QED
    BY <1>1, <1>2, <2>1, <2>2, <2>4, <2>5, <2>6, <2>7, Asking
<1>6. ASSUME Command(c)
      PROVE  OnceInv'
  <2>1. PICK d \in Device, op \in {"IO_INIT", "IO_DRIVERCLOSE", "UNKNOWN"} :
           /\ Send(d, Msg(op, c))
           /\ call' = [call EXCEPT ![c] = [op |-> op, to |-> d]]
    BY <1>2, <1>6 DEF Command
  <2>2. PICK m : m = Msg(op, c)
    OBVIOUS
  <2>3. m \in Message
    BY <2>2, PlainMessage, Names
  <2>4. m.id = op /\ m.from = c /\ m.client = NONE
    BY <2>2 DEF Msg
  <2>5. Own(m) /\ ForDriver(m)
    BY <2>4 DEF Own, ForDriver
  <2>6. [op |-> op, to |-> d] # NotCalling
    BY DEF NotCalling, NONE
  <2> QED
    BY <1>1, <1>2, <2>1, <2>2, <2>3, <2>4, <2>5, <2>6, Asking
<1> QED
  BY <1>3, <1>4, <1>5, <1>6 DEF ClientCall

LEMMA IOThreadOnce ==
    ASSUME OnceInv, IndInv', IOThread
    PROVE  OnceInv'
<1>1. CASE Boot
  BY <1>1, Quiet DEF Boot
<1>2. CASE ioLoadDriver
  BY <1>2, Loads
<1>3. ASSUME mail[IO] # << >>
      PROVE  Head(mail[IO]) \in Message /\ ForIO(Head(mail[IO]))
  <2>1. mail[IO] \in Seq(Message)
    BY MailTyped DEF OnceInv, Server
  <2>2. 1 \in DOMAIN mail[IO] /\ Head(mail[IO]) = mail[IO][1] /\ Head(mail[IO]) \in Message
    BY <1>3, <2>1
  <2> QED
    BY <2>2 DEF OnceInv, Background, Shapes
<1>4. IO \in Server
  BY DEF Server
<1>5. CASE Open
  <2>1. PICK m \in Message : m = Head(mail[IO])
    BY <1>3, <1>5 DEF Open, Serves
  <2>2. m.id = "IO_OPEN" /\ ForIO(m)
    BY <1>3, <1>5, <2>1 DEF Open, Serves
  <2>3. Own(m)
    BY <2>2 DEF ForIO
  <2>4. m.from \in Client /\ \A b \in Client : About(m, b) <=> b = m.from
    BY <2>3, Concerns DEF Own
  <2>5. Takes(IO) /\ Answer(m.from) /\ UNCHANGED <<driver, booted>>
    BY <1>5, <2>1 DEF Open, Serves, Takes
  <2> QED
    BY <1>4, <2>1, <2>4, <2>5, TakeAnswers
<1>6. CASE Close
  <2>1. PICK m \in Message : m = Head(mail[IO])
    BY <1>3, <1>6 DEF Close, Serves
  <2>2. m.id = "IO_CLOSE" /\ ForIO(m) /\ mail[IO] # << >>
    BY <1>3, <1>6, <2>1 DEF Close, Serves
  <2>3. Own(m) /\ m.to \in Device \cup {TM, Nobody}
    BY <2>2 DEF ForIO
  <2>4. m.from \in Client /\ \A b \in Client : About(m, b) <=> b = m.from
    BY <2>3, Concerns DEF Own
  <2>5. /\ mail' = Forwarded(m) /\ UNCHANGED <<driver, booted>>
        /\ IF m.to = Nobody THEN Answer(m.from) ELSE UNCHANGED call
    BY <1>6, <2>1 DEF Close
  <2>6. CASE m.to \in Device
    <3>1. UNCHANGED call
      BY <2>5, <2>6, Strangers
    <3> QED
      BY <2>1, <2>2, <2>3, <2>5, <2>6, <3>1, Forwards
  <2>7. CASE m.to = TM
    <3>1. UNCHANGED call /\ mail' = [mail EXCEPT ![IO] = Append(Tail(@), Msg("UNKNOWN_SYSCALL", TM))]
      BY <2>5, <2>7, Strangers DEF Forwarded
    <3>2. call[m.from].to = TM
      <4>1. mail[IO] \in Seq(Message)
        BY <1>4, MailTyped DEF OnceInv
      <4>2. 1 \in DOMAIN mail[IO] /\ m = mail[IO][1]
        BY <2>1, <2>2, <4>1
      <4> QED
        BY <2>2, <2>7, <4>2 DEF OnceInv, Background, Closing
    <3>3. \A b \in Client : About(m, b) => call[b].to = TM
      BY <2>4, <3>2
    <3> QED
      BY <2>1, <2>2, <2>5, <3>1, <3>3, TakeDrops
  <2>8. CASE m.to = Nobody
    <3>1. Answer(m.from) /\ mail' = [mail EXCEPT ![IO] = Tail(@)]
      BY <2>5, <2>8, Strangers DEF Forwarded
    <3>2. Takes(IO)
      BY <2>2, <3>1 DEF Takes
    <3> QED
      BY <1>4, <2>1, <2>4, <2>5, <3>1, <3>2, TakeAnswers
  <2> QED
    BY <2>3, <2>6, <2>7, <2>8
<1>7. CASE Unknown
  <2>1. PICK m \in Message : m = Head(mail[IO])
    BY <1>3, <1>7 DEF Unknown, Serves
  <2>2. m.id = "UNKNOWN_SYSCALL" /\ ForIO(m) /\ mail[IO] # << >>
    BY <1>3, <1>7, <2>1 DEF Unknown, Serves
  <2>3. m.from = TM /\ m.client = NONE
    BY <2>2 DEF ForIO
  <2>4. \A b \in Client : ~About(m, b)
    BY <2>3, Strangers DEF About
  <2> QED
    BY <1>7, <2>1, <2>2, <2>4, TakeDrops DEF Unknown
<1> QED
  BY <1>1, <1>2, <1>5, <1>6, <1>7 DEF IOThread

\* A driver either answers what it has received, or it works for its client.
LEMMA ReceiveOnce ==
    ASSUME OnceInv, IndInv', NEW d \in Device, Receive(d)
    PROVE  OnceInv'
<1>1. driver[d].pc = "recv" /\ Takes(d) /\ mail[d] # << >> /\ booted' = booted
  BY DEF Receive, Takes
<1>2. d \in Server /\ mail[d] \in Seq(Message)
  BY MailTyped DEF OnceInv, Server
<1>3. driver[d] = Idle
  BY <1>1, Unstarted DEF OnceInv, Background, Working, Busy, NONE
<1>4. 1 \in DOMAIN mail[d] /\ Head(mail[d]) = mail[d][1] /\ Head(mail[d]) \in Message
  BY <1>1, <1>2
<1>5. PICK m \in Message : m = Head(mail[d])
  BY <1>4
<1>6. ForDriver(m)
  BY <1>4, <1>5 DEF OnceInv, Background, Shapes
<1>7. ASSUME NEW c \in Client, Answer(c), \A b \in Client : About(m, b) <=> b = c,
             UNCHANGED driver
      PROVE  OnceInv'
  BY <1>1, <1>2, <1>5, <1>7, TakeAnswers
<1>8. ASSUME NEW pc \in {"IO_READ", "IO_WRITE", "init"},
             Goes(d, [Idle EXCEPT !.pc = pc, !.msg = m]), Own(m), UNCHANGED call
      PROVE  OnceInv'
  <2>1. PICK w : w = [Idle EXCEPT !.pc = pc, !.msg = m]
    OBVIOUS
  <2>2. w.pc = pc /\ w.msg = m
    BY <2>1 DEF Idle, NotStarted
  <2>3. Busy(w)
    BY <1>8, <2>2 DEF Busy
  <2> QED
    BY <1>1, <1>3, <1>5, <1>8, <2>1, <2>2, <2>3, TakeWorks
<1>9. \/ /\ m.id \in {"IO_READ", "IO_WRITE"}
         /\ Goes(d, [Idle EXCEPT !.pc = m.id, !.msg = m]) /\ UNCHANGED call
      \/ m.id \in {"IO_READ", "IO_WRITE"} /\ Answer(m.from) /\ UNCHANGED driver
      \/ m.id = "IO_DRIVERCLOSE" /\ m.from = IO /\ Answer(m.client) /\ UNCHANGED driver
      \/ /\ m.id = "UNKNOWN" \/ (m.id = "IO_DRIVERCLOSE" /\ m.from # IO)
         /\ Answer(m.from) /\ UNCHANGED driver
      \/ /\ m.id = "IO_INIT" /\ Goes(d, [Idle EXCEPT !.pc = "init", !.msg = m])
         /\ UNCHANGED call
  BY <1>5 DEF Receive
<1>10. CASE m.id = "IO_DRIVERCLOSE" /\ m.from = IO
  <2>1. ~Own(m) /\ m.client \in Client
    BY <1>6, <1>10, Strangers DEF ForDriver, Own
  <2>2. \A b \in Client : About(m, b) <=> b = m.client
    BY <1>10, Concerns
  <2>3. Answer(m.client) /\ UNCHANGED driver
    BY <1>9, <1>10
  <2> QED
    BY <1>7, <2>1, <2>2, <2>3
<1>11. CASE ~(m.id = "IO_DRIVERCLOSE" /\ m.from = IO)
  <2>1. Own(m)
    BY <1>6, <1>11 DEF ForDriver
  <2>2. m.from \in Client /\ \A b \in Client : About(m, b) <=> b = m.from
    BY <2>1, Concerns DEF Own
  <2>3. CASE Answer(m.from) /\ UNCHANGED driver
    BY <1>7, <2>2, <2>3
  <2>4. CASE /\ m.id \in {"IO_READ", "IO_WRITE"}
             /\ Goes(d, [Idle EXCEPT !.pc = m.id, !.msg = m]) /\ UNCHANGED call
    BY <1>8, <2>1, <2>4
  <2>5. CASE Goes(d, [Idle EXCEPT !.pc = "init", !.msg = m]) /\ UNCHANGED call
    BY <1>8, <2>1, <2>5
  <2> QED
    BY <1>9, <1>11, <2>3, <2>4, <2>5
<1> QED
  BY <1>10, <1>11

LEMMA TransferOnce ==
    ASSUME OnceInv, IndInv', NEW d \in Device,
           \/ InitEnds(d) \/ ReadCopies(d) \/ ReadAdvances(d) \/ ReadEnds(d)
           \/ ReadAfterClose(d) \/ WriteSends(d) \/ WriteEnds(d)
    PROVE  OnceInv'
<1> DEFINE v == driver[d]
<1>1. v.pc \in {"init", "IO_READ", "IO_WRITE", "advance"} /\ UNCHANGED <<mail, booted>>
  BY DEF InitEnds, ReadCopies, ReadAdvances, ReadEnds, ReadAfterClose, WriteSends, WriteEnds
<1>2. Busy(v) /\ DriverOK(v)
  BY <1>1, Unstarted DEF OnceInv, IndInv, DriversOK, Background, Working, NONE
<1>3. CASE InitEnds(d) \/ ReadEnds(d) \/ WriteEnds(d)
  <2>1. Goes(d, Idle) /\ Answer(v.msg.from)
    BY <1>3 DEF InitEnds, ReadEnds, WriteEnds
  <2> QED
    BY <1>1, <1>2, <2>1, Ends
<1>4. CASE ReadAfterClose(d)
  BY <1>4, Quiet DEF ReadAfterClose
<1>5. CASE ReadCopies(d) \/ ReadAdvances(d) \/ WriteSends(d)
  <2>1. UNCHANGED call
    BY <1>5 DEF ReadCopies, ReadAdvances, WriteSends
  <2>2. PICK w : Goes(d, w) /\ w.msg = v.msg /\ w.pc \in {"IO_READ", "IO_WRITE", "advance"}
    <3>1. CASE ReadCopies(d)
      <4>1. PICK w : w = [v EXCEPT !.pc = "advance", !.i = @ + 1,
                                   !.char = dev[d].buffer[dev[d].out]]
        OBVIOUS
      <4>2. Goes(d, w) /\ w.msg = v.msg /\ w.pc = "advance"
        BY <1>2, <3>1, <4>1 DEF ReadCopies, DriverOK
      <4> QED
        BY <4>2
    <3>2. CASE ReadAdvances(d)
      <4>1. PICK w : w = [v EXCEPT !.pc = "IO_READ", !.char = NoChar]
        OBVIOUS
      <4>2. Goes(d, w) /\ w.msg = v.msg /\ w.pc = "IO_READ"
        BY <1>2, <3>2, <4>1 DEF ReadAdvances, DriverOK
      <4> QED
        BY <4>2
    <3>3. CASE WriteSends(d)
      <4>1. PICK w : w = [v EXCEPT !.i = @ + 1]
        OBVIOUS
      <4>2. Goes(d, w) /\ w.msg = v.msg /\ w.pc = "IO_WRITE"
        BY <1>2, <3>3, <4>1 DEF WriteSends, DriverOK
      <4> QED
        BY <4>2
    <3> QED
      BY <1>5, <3>1, <3>2, <3>3
  <2>3. Busy(w)
    BY <1>2, <2>2 DEF Busy
  <2> QED
    BY <1>1, <1>2, <2>1, <2>2, <2>3, GoesOn
<1> QED
  BY <1>3, <1>4, <1>5

LEMMA OnceStep == OnceInv /\ [Next]_vars => OnceInv'
<1> SUFFICES ASSUME OnceInv, [Next]_vars
             PROVE  OnceInv'
  OBVIOUS
<1>1. IndInv'
  BY InsideStep DEF OnceInv
<1>2. ASSUME NEW d \in Device, Arrive(d)
      PROVE  OnceInv'
  BY <1>1, <1>2, Quiet DEF Arrive
<1>3. CASE Interrupt
  BY <1>1, <1>3, Quiet DEF Interrupt
<1>4. CASE UNCHANGED vars
  BY <1>1, <1>4, Quiet DEF vars
<1> QED
  BY <1>1, <1>2, <1>3, <1>4, AskingStep, IOThreadOnce, ReceiveOnce, TransferOnce
     DEF Next, DriverStep

\* The copies of a request are where the invariant says.
LEMMA CopiesAre ==
    ASSUME OnceInv, NEW c \in Client
    PROVE  \A x : x \in Copies(c) <=>
               \/ \E s \in Server : \E i \in DOMAIN mail[s] : About(mail[s][i], c) /\ x = <<s, i>>
               \/ \E d \in Device : Held(d, c) /\ x = <<d, 0>>
<1> DEFINE in(s) == {<<s, i>> : i \in {j \in DOMAIN mail[s] : About(mail[s][j], c)}}
           inMail == UNION {in(s) : s \in DOMAIN mail}
           held == {<<d, 0>> : d \in {e \in Device : driver[e] # Idle /\ About(driver[e].msg, c)}}
<1>1. DOMAIN mail = Server
  BY MailTyped DEF OnceInv
<1>2. Copies(c) = inMail \cup held
  BY DEF Copies, About
<1>3. \A x : x \in inMail <=>
          \E s \in Server : \E i \in DOMAIN mail[s] : About(mail[s][i], c) /\ x = <<s, i>>
  <2>1. \A x : x \in inMail <=> \E s \in DOMAIN mail : x \in in(s)
    OBVIOUS
  <2>2. \A s, x : x \in in(s) <=> \E i \in DOMAIN mail[s] : About(mail[s][i], c) /\ x = <<s, i>>
    OBVIOUS
  <2> QED
    BY <1>1, <2>1, <2>2
<1>4. \A x : x \in held <=> \E d \in Device : Held(d, c) /\ x = <<d, 0>>
  BY DEF Held
<1> QED
  BY <1>2, <1>3, <1>4

LEMMA OnceIsEnough == OnceInv => EachRequestOnce
<1> SUFFICES ASSUME OnceInv, NEW c \in Client
             PROVE  IF call[c] = NotCalling THEN Copies(c) = {}
                    ELSE call[c].to # TM => Cardinality(Copies(c)) = 1
  BY DEF EachRequestOnce
<1>1. ClientOK(c)
  BY DEF OnceInv
<1>2. ASSUME Away(c)
      PROVE  Copies(c) = {}
  BY <1>2, CopiesAre DEF Away, NoneOf
<1>3. ASSUME NEW s \in Server, QueuedAt(c, s)
      PROVE  \E x : Copies(c) = {x}
  <2>1. PICK i \in DOMAIN mail[s] :
           About(mail[s][i], c) /\ \A j \in DOMAIN mail[s] : About(mail[s][j], c) => j = i
    BY <1>3 DEF QueuedAt, OneOf
  <2>2. \A t \in Server : \A j \in DOMAIN mail[t] : About(mail[t][j], c) => t = s /\ j = i
    BY <1>3, <2>1 DEF QueuedAt, NoneOf
  <2>3. \A x : x \in Copies(c) => x = <<s, i>>
    BY <1>3, <2>2, CopiesAre DEF QueuedAt
  <2>4. <<s, i>> \in Copies(c)
    BY <2>1, CopiesAre
  <2>5. Copies(c) = {<<s, i>>}
    BY <2>3, <2>4
  <2> QED
    BY <2>5
<1>4. ASSUME NEW d \in Device, WorkedAt(c, d)
      PROVE  \E x : Copies(c) = {x}
  <2>1. \A x : x \in Copies(c) => x = <<d, 0>>
    BY <1>4, CopiesAre DEF WorkedAt, NoneOf
  <2>2. <<d, 0>> \in Copies(c)
    BY <1>4, CopiesAre DEF WorkedAt
  <2>3. Copies(c) = {<<d, 0>>}
    BY <2>1, <2>2
  <2> QED
    BY <2>3
<1>5. CASE call[c] = NotCalling
  BY <1>1, <1>2, <1>5 DEF ClientOK
<1>6. CASE call[c] # NotCalling /\ call[c].to # TM
  <2>1. \E x : Copies(c) = {x}
    BY <1>1, <1>3, <1>4, <1>6 DEF ClientOK, Somewhere
  <2> QED
    BY <1>6, <2>1, FS_Singleton
<1> QED
  BY <1>5, <1>6

LEMMA OnceInit == Init => OnceInv
<1> SUFFICES ASSUME Init
             PROVE  OnceInv
  OBVIOUS
<1>1. IndInv
  BY InsideInit
<1>2. \A s \in Server : DOMAIN mail[s] = {}
  <2>1. \A s \in Server : mail[s] = << >>
    BY DEF Init, Server
  <2> QED
    BY <2>1
<1>3. \A d \in Device : driver[d] = NotStarted
  BY DEF Init
<1>4. ASSUME NEW c \in Client
      PROVE  ClientOK(c)
  <2>1. Away(c)
    BY <1>2, <1>3, HoldsNothing DEF Away, NoneOf
  <2>2. call[c] = NotCalling
    BY DEF Init
  <2> QED
    BY <2>1, <2>2 DEF ClientOK, Somewhere
<1>5. IO \in Server /\ Device \subseteq Server
  BY DEF Server
<1>6. Shapes /\ Closing
  BY <1>2, <1>5 DEF Shapes, Closing
<1>7. Calls /\ Working
  BY <1>3 DEF Init, Calls, Working
<1>8. Loading
  <2>1. \A i \in DOMAIN Order : Order[i] \in Device
    BY IOAssumption
  <2> QED
    BY <1>3, <2>1 DEF Init, Loading
<1> QED
  BY <1>1, <1>4, <1>6, <1>7, <1>8 DEF OnceInv, Background

\* However many clients there are and whatever they ask for, closes included
\* that one thread forwards and another answers: a client that waits has exactly
\* one request on its way, unless it closes a thread that is no driver, and a
\* client that does not wait has none, so that it never gets a second answer.
THEOREM RequestsOnce == Spec => []EachRequestOnce
<1> QED
  BY OnceInit, OnceStep, OnceIsEnough, PTL DEF Spec

-----------------------------------------------------------------------------
(* Induction, for what the handler of the card does in a loop.             *)

\* Every set of natural numbers has a least one.
LEMMA Least ==
    ASSUME NEW S, S \subseteq Nat, S # {}
    PROVE  \E m \in S : \A n \in S : m <= n
<1>1. IsWellFoundedOn({p \in Nat \X Nat : p[1] < p[2]}, Nat)
  BY NatLessThanWellFounded DEF OpToRel
<1>2. PICK x \in S : \A y \in S : ~(<<y, x>> \in {p \in Nat \X Nat : p[1] < p[2]})
  BY <1>1, WFMin
<1>3. \A y \in S : x <= y
  <2> TAKE y \in S
  <2>1. x \in Nat /\ y \in Nat
    OBVIOUS
  <2>2. <<y, x>> \in Nat \X Nat /\ <<y, x>>[1] = y /\ <<y, x>>[2] = x
    BY <2>1
  <2>3. ~(y < x)
    BY <1>2, <2>2
  <2> QED  BY <2>1, <2>3
<1> QED BY <1>3

\* Induction: the library states it for an operator, here it is about a set.
LEMMA Induct ==
    ASSUME NEW N \in Nat, NEW S, 0 \in S, \A n \in 0 .. N - 1 : n \in S => n + 1 \in S
    PROVE  0 .. N \subseteq S
<1> SUFFICES ASSUME ~(0 .. N \subseteq S) PROVE FALSE
  OBVIOUS
<1>1. PICK m \in (0 .. N) \ S : \A n \in (0 .. N) \ S : m <= n
  <2>1. (0 .. N) \ S \subseteq Nat /\ (0 .. N) \ S # {}
    OBVIOUS
  <2> QED BY <2>1, Least
<1>2. m # 0 /\ m - 1 \in 0 .. N - 1 /\ m - 1 \in S
  BY <1>1
<1> QED BY <1>1, <1>2

-----------------------------------------------------------------------------
(* The rings of characters implement queues.                               *)

From(v) == IF v.half THEN 0 ELSE v.out
Fill(d, v) == Len(Waiting(d, v))
RoomOf(d) == IF d = "loopback" THEN BUFSIZE ELSE BUFSIZE - 1

Record == [init : BOOLEAN, on : BOOLEAN, half : BOOLEAN, in : Ring, out : Ring,
           count : 0 .. BUFSIZE, buffer : [Ring -> Nat]]

\* Where in is depends on how many wait; a half-initialised ring has its old out
\* ahead of the characters that the interrupt handler puts in from 0 on.
RingOK(d, v) ==
    /\ v \in Record
    /\ d = "loopback" => v.in = (From(v) + v.count) % BUFSIZE
    /\ d # "loopback" /\ v.half => v.out = 0 \/ v.in < v.out

Grew(d, v, w) ==
    /\ RingOK(d, w)
    /\ w.init = v.init /\ w.half = v.half /\ w.out = v.out
    /\ Fill(d, v) <= Fill(d, w)
    /\ \A k \in 1 .. Fill(d, v) : Waiting(d, w)[k] = Waiting(d, v)[k]

\* There is room for a character.
LEMMA Size == BUFSIZE \in Nat /\ BUFSIZE > 1
BY DriversAssumption

\* Indices of a ring, and what may be added to one of them, wrap around once.
LEMMA Wrap ==
    ASSUME NEW x \in 0 .. 2 * BUFSIZE - 1
    PROVE  x % BUFSIZE = (IF x < BUFSIZE THEN x ELSE x - BUFSIZE)
<1>1. CASE x < BUFSIZE
  BY <1>1, Size
<1>2. CASE x >= BUFSIZE
  <2>1. PICK y \in 0 .. BUFSIZE - 1 : x = y + BUFSIZE
    <3>1. x - BUFSIZE \in 0 .. BUFSIZE - 1 /\ x = (x - BUFSIZE) + BUFSIZE
      BY <1>2, Size
    <3> QED BY <3>1
  <2>2. (y + BUFSIZE) % BUFSIZE = y
    BY Size
  <2> QED BY <2>1, <2>2, Size
<1> QED BY <1>1, <1>2, Size

\* How many characters wait in a ring, and where they are.
LEMMA Places ==
    ASSUME NEW d, NEW v, RingOK(d, v)
    PROVE  /\ Fill(d, v) = IF d = "loopback" THEN v.count
                           ELSE IF v.in >= From(v) THEN v.in - From(v)
                           ELSE v.in - From(v) + BUFSIZE
           /\ Fill(d, v) \in 0 .. RoomOf(d)
           /\ From(v) \in Ring
           /\ Waiting(d, v) \in Seq(Nat)
           /\ \A k \in 1 .. Fill(d, v) :
                 Waiting(d, v)[k] = v.buffer[IF From(v) + k - 1 < BUFSIZE THEN From(v) + k - 1
                                             ELSE From(v) + k - 1 - BUFSIZE]
           /\ d = "loopback" => v.in = IF From(v) + v.count < BUFSIZE THEN From(v) + v.count
                                       ELSE From(v) + v.count - BUFSIZE
<1>1. /\ v.in \in Ring /\ v.out \in Ring /\ v.count \in 0 .. BUFSIZE
      /\ v.buffer \in [Ring -> Nat]
  BY DEF RingOK, Record
<1>2. From(v) \in Ring
  BY <1>1, Size DEF From, Ring
<1>3. PICK f : f = From(v)
  OBVIOUS
<1>4. PICK n : n = IF d = "loopback" THEN v.count ELSE (v.in - f + BUFSIZE) % BUFSIZE
  OBVIOUS
<1>5. n = IF d = "loopback" THEN v.count ELSE IF v.in >= f THEN v.in - f ELSE v.in - f + BUFSIZE
  <2>1. PICK x : x = v.in - f + BUFSIZE
    OBVIOUS
  <2>2. x \in 0 .. 2 * BUFSIZE - 1
    BY <1>1, <1>2, <1>3, <2>1, Size DEF Ring
  <2>3. x % BUFSIZE = (IF x < BUFSIZE THEN x ELSE x - BUFSIZE)
    BY <2>2, Wrap
  <2>4. n = IF d = "loopback" THEN v.count ELSE IF x < BUFSIZE THEN x ELSE x - BUFSIZE
    BY <2>1, <2>3, <1>4
  <2> QED BY <2>1, <2>4, <1>1, <1>2, <1>3, Size DEF Ring
<1>6. n \in 0 .. RoomOf(d)
  BY <1>5, <1>1, <1>2, <1>3, Size DEF Ring, RoomOf
<1>7. Waiting(d, v) = [k \in 1 .. n |-> v.buffer[(f + k - 1) % BUFSIZE]]
  BY <1>3, <1>4 DEF Waiting, From
<1>8. n \in Nat /\ n <= BUFSIZE
  BY <1>6, Size DEF RoomOf
<1>9. ASSUME NEW k \in 1 .. n
      PROVE  /\ (f + k - 1) % BUFSIZE = (IF f + k - 1 < BUFSIZE THEN f + k - 1
                                         ELSE f + k - 1 - BUFSIZE)
             /\ (f + k - 1) % BUFSIZE \in Ring
  <2>1. f + k - 1 \in 0 .. 2 * BUFSIZE - 1
    BY <1>2, <1>3, <1>8, Size DEF Ring
  <2> QED BY <2>1, Wrap, Size, <1>2, <1>3, <1>8 DEF Ring
<1>10. Waiting(d, v) \in Seq(Nat) /\ Len(Waiting(d, v)) = n
  BY <1>7, <1>8, <1>9, <1>1
<1>11. \A k \in 1 .. n : Waiting(d, v)[k] = v.buffer[IF f + k - 1 < BUFSIZE THEN f + k - 1
                                             ELSE f + k - 1 - BUFSIZE]
  BY <1>7, <1>9
<1>12. d = "loopback" => v.in = IF f + v.count < BUFSIZE THEN f + v.count
                                       ELSE f + v.count - BUFSIZE
  <2>1. PICK x : x = f + v.count
    OBVIOUS
  <2>2. x \in 0 .. 2 * BUFSIZE - 1
    BY <2>1, <1>1, <1>2, <1>3, Size DEF Ring
  <2>3. x % BUFSIZE = (IF x < BUFSIZE THEN x ELSE x - BUFSIZE)
    BY <2>2, Wrap
  <2>4. d = "loopback" => v.in = x % BUFSIZE
    BY <2>1, <1>3 DEF RingOK
  <2>5. d = "loopback" => v.in = (IF x < BUFSIZE THEN x ELSE x - BUFSIZE)
    BY <2>3, <2>4
  <2> QED BY <2>1, <2>5, <1>1, <1>2, <1>3, Size DEF Ring
<1> QED BY <1>3, <1>5, <1>6, <1>10, <1>11, <1>12, <1>2 DEF Fill

\* The index that follows one.
LEMMA NextIs ==
    ASSUME NEW i \in Ring
    PROVE  Next1(i) = (IF i = BUFSIZE - 1 THEN 0 ELSE i + 1) /\ Next1(i) \in Ring
<1>1. i + 1 \in 0 .. 2 * BUFSIZE - 1
  BY Size DEF Ring
<1> QED BY <1>1, Wrap, Size DEF Next1, Ring

\* A character that is stored comes last.
LEMMA StoreGrows ==
    ASSUME NEW d, NEW v, RingOK(d, v), ~IsFull(d, v), NEW c \in Nat
    PROVE  Grew(d, v, Store(d, v, c))
<1>1. /\ v.in \in Ring /\ v.out \in Ring /\ v.count \in 0 .. BUFSIZE
      /\ v.buffer \in [Ring -> Nat] /\ v \in Record
  BY DEF RingOK, Record
<1>2. PICK w : w = Store(d, v, c)
  OBVIOUS
<1>3. /\ w.init = v.init /\ w.half = v.half /\ w.out = v.out /\ w.on = v.on
      /\ w.in = Next1(v.in)
      /\ w.count = (IF d = "loopback" THEN v.count + 1 ELSE v.count)
      /\ w.buffer = [v.buffer EXCEPT ![v.in] = c]
  BY <1>1, <1>2 DEF Store, Record
<1>4. Next1(v.in) = (IF v.in = BUFSIZE - 1 THEN 0 ELSE v.in + 1) /\ Next1(v.in) \in Ring
  BY <1>1, NextIs
<1>5. d = "loopback" => v.count + 1 \in 0 .. BUFSIZE
  BY <1>1, Size DEF IsFull
<1>6. w \in Record
  <2>1. w.buffer \in [Ring -> Nat]
    BY <1>1, <1>3
  <2>2. w.count \in 0 .. BUFSIZE
    BY <1>3, <1>5, <1>1
  <2> QED BY <1>1, <1>2, <1>4, <2>1, <2>2, <1>3 DEF Store, Record
<1>7. From(w) = From(v) /\ From(v) \in Ring
  BY <1>3, Places DEF From
<1>8. d = "loopback" => v.in = IF From(v) + v.count < BUFSIZE THEN From(v) + v.count
                                       ELSE From(v) + v.count - BUFSIZE
  BY Places
<1>9. d = "loopback" => w.in = (From(w) + w.count) % BUFSIZE
  <2> SUFFICES ASSUME d = "loopback" PROVE w.in = (From(v) + w.count) % BUFSIZE
    BY <1>7
  <2>1. PICK x : x = From(v) + w.count
    OBVIOUS
  <2>2. x \in 0 .. 2 * BUFSIZE - 1
    BY <2>1, <1>3, <1>5, <1>7, Size DEF Ring
  <2>3. x % BUFSIZE = (IF x < BUFSIZE THEN x ELSE x - BUFSIZE)
    BY <2>2, Wrap
  <2>4. w.in = (IF x < BUFSIZE THEN x ELSE x - BUFSIZE)
    <3>1. PICK f \in 0 .. BUFSIZE - 1 : f = From(v)
      BY <1>7 DEF Ring
    <3>2. PICK n \in 0 .. BUFSIZE - 1 : n = v.count
      BY <1>5, <1>1, Size
    <3>3. x = f + n + 1
      BY <2>1, <3>1, <3>2, <1>3
    <3>4. v.in = IF f + n < BUFSIZE THEN f + n ELSE f + n - BUFSIZE
      BY <3>1, <3>2, <1>8
    <3>5. w.in = (IF v.in = BUFSIZE - 1 THEN 0 ELSE v.in + 1)
      BY <1>3, <1>4
    <3> QED BY <3>3, <3>4, <3>5, Size
  <2> QED BY <2>1, <2>3, <2>4
<1>10. d # "loopback" => Next1(v.in) # v.out
  BY DEF IsFull
<1>11. d # "loopback" /\ w.half => w.out = 0 \/ w.in < w.out
  BY <1>3, <1>4, <1>1, <1>10, Size DEF RingOK, Ring
<1>12. RingOK(d, w)
  BY <1>6, <1>9, <1>11 DEF RingOK
<1>13. Fill(d, w) = Fill(d, v) + 1
  <2>1. CASE d = "loopback"
    BY <2>1, Places, <1>12, <1>3
  <2>2. CASE d # "loopback"
    <3>1. Fill(d, v) = IF v.in >= From(v) THEN v.in - From(v) ELSE v.in - From(v) + BUFSIZE
      BY <2>2, Places
    <3>2. Fill(d, w) = IF w.in >= From(v) THEN w.in - From(v) ELSE w.in - From(v) + BUFSIZE
      BY <2>2, Places, <1>12, <1>7
    <3>3. v.half => From(v) = 0
      BY DEF From
    <3>4. ~v.half => From(v) = v.out
      BY DEF From
    <3>5. v.half => v.out = 0 \/ v.in < v.out
      BY <2>2 DEF RingOK
    <3>6. w.in = (IF v.in = BUFSIZE - 1 THEN 0 ELSE v.in + 1) /\ w.in # v.out
      BY <1>3, <1>4, <1>10, <2>2
    <3>7. v.half \in BOOLEAN
      BY <1>1 DEF Record
    <3>8. CASE v.half
      BY <3>1, <3>2, <3>3, <3>5, <3>6, <3>8, <1>1, Size DEF Ring
    <3>9. CASE ~v.half
      <4>1. PICK i \in 0 .. BUFSIZE - 1 : i = v.in
        BY <1>1 DEF Ring
      <4>2. PICK o \in 0 .. BUFSIZE - 1 : o = v.out
        BY <1>1 DEF Ring
      <4>3. PICK j \in 0 .. BUFSIZE - 1 : j = w.in
        BY <3>6, <4>1, Size
      <4>4. /\ Fill(d, v) = (IF i >= o THEN i - o ELSE i - o + BUFSIZE)
            /\ Fill(d, w) = (IF j >= o THEN j - o ELSE j - o + BUFSIZE)
            /\ j = (IF i = BUFSIZE - 1 THEN 0 ELSE i + 1) /\ j # o
        BY <3>1, <3>2, <3>4, <3>6, <3>9, <4>1, <4>2, <4>3
      <4> QED BY <4>4, Size
    <3> QED BY <3>7, <3>8, <3>9
  <2> QED BY <2>1, <2>2
<1>14. ASSUME NEW k \in 1 .. Fill(d, v) PROVE Waiting(d, w)[k] = Waiting(d, v)[k]
  <2>0. PICK p : p = IF From(v) + k - 1 < BUFSIZE THEN From(v) + k - 1
                                             ELSE From(v) + k - 1 - BUFSIZE
    OBVIOUS
  <2>1. Fill(d, v) \in 0 .. RoomOf(d)
    BY Places
  <2>2. Waiting(d, v)[k] = v.buffer[p]
    BY Places, <2>0
  <2>3. Waiting(d, w)[k] = w.buffer[p]
    <3>1. k \in 1 .. Fill(d, w)
      BY <1>13, <2>1, Size DEF RoomOf
    <3> QED BY Places, <1>12, <2>0, <3>1, <1>7
  <2>4. p \in Ring
    BY <2>0, <2>1, <1>7, Size DEF Ring, RoomOf
  <2>5. p # v.in
    <3>1. CASE d = "loopback"
      <4>1. Fill(d, v) = v.count
        BY <3>1, Places
      <4>2. PICK f \in 0 .. BUFSIZE - 1 : f = From(v)
        BY <1>7 DEF Ring
      <4>3. PICK n \in 0 .. BUFSIZE - 1 : n = v.count
        BY <3>1, <1>5, <1>1, Size
      <4>4. k \in 1 .. n
        BY <4>1, <4>3
      <4>5. p = IF f + k - 1 < BUFSIZE THEN f + k - 1 ELSE f + k - 1 - BUFSIZE
        BY <2>0, <4>2
      <4>6. v.in = IF f + n < BUFSIZE THEN f + n ELSE f + n - BUFSIZE
        BY <3>1, <1>8, <4>2, <4>3
      <4> QED BY <4>4, <4>5, <4>6, Size
    <3>2. CASE d # "loopback"
      <4>1. Fill(d, v) = IF v.in >= From(v) THEN v.in - From(v) ELSE v.in - From(v) + BUFSIZE
        BY <3>2, Places
      <4>2. PICK f \in 0 .. BUFSIZE - 1 : f = From(v)
        BY <1>7 DEF Ring
      <4>3. PICK i \in 0 .. BUFSIZE - 1 : i = v.in
        BY <1>1 DEF Ring
      <4>4. k \in 1 .. (IF i >= f THEN i - f ELSE i - f + BUFSIZE)
        BY <4>1, <4>2, <4>3
      <4>5. p = IF f + k - 1 < BUFSIZE THEN f + k - 1 ELSE f + k - 1 - BUFSIZE
        BY <2>0, <4>2
      <4> QED BY <4>3, <4>4, <4>5, Size
    <3> QED BY <3>1, <3>2
  <2> QED BY <2>2, <2>3, <2>4, <2>5, <1>3, <1>1
<1>15. Fill(d, v) \in Nat
  BY Places
<1>16. Grew(d, v, w)
  BY <1>3, <1>12, <1>13, <1>14, <1>15 DEF Grew
<1> QED BY <1>16, <1>2

\* What a reader finds at out is the oldest character.
LEMMA OldestFirst ==
    ASSUME NEW d, NEW v, RingOK(d, v), ~v.half
    PROVE  /\ IsEmpty(d, v) <=> Fill(d, v) = 0
           /\ Fill(d, v) # 0 => Head(Waiting(d, v)) = v.buffer[v.out]
<1>1. /\ v.in \in Ring /\ v.out \in Ring /\ v.count \in 0 .. BUFSIZE
  BY DEF RingOK, Record
<1>2. From(v) = v.out
  BY DEF From
<1>3. Fill(d, v) = IF d = "loopback" THEN v.count
                   ELSE IF v.in >= v.out THEN v.in - v.out ELSE v.in - v.out + BUFSIZE
  BY Places, <1>2
<1>4. IsEmpty(d, v) <=> Fill(d, v) = 0
  <2>1. CASE d = "loopback"
    BY <2>1, <1>3 DEF IsEmpty
  <2>2. CASE d # "loopback"
    BY <2>2, <1>3, <1>1, Size DEF IsEmpty, Ring
  <2> QED BY <2>1, <2>2
<1>5. ASSUME Fill(d, v) # 0 PROVE Head(Waiting(d, v)) = v.buffer[v.out]
  <2>1. 1 \in 1 .. Fill(d, v) /\ Waiting(d, v) \in Seq(Nat) /\ Len(Waiting(d, v)) # 0
    <3>1. Fill(d, v) \in Nat
      BY Places, Size DEF RoomOf
    <3> QED BY <1>5, <3>1, Places DEF Fill
  <2>2. Head(Waiting(d, v)) = Waiting(d, v)[1]
    BY <2>1
  <2>3. \A k \in 1 .. Fill(d, v) :
           Waiting(d, v)[k] = v.buffer[IF v.out + k - 1 < BUFSIZE THEN v.out + k - 1
                                       ELSE v.out + k - 1 - BUFSIZE]
    BY Places, <1>2
  <2>4. Waiting(d, v)[1] = v.buffer[IF v.out + 1 - 1 < BUFSIZE THEN v.out + 1 - 1
                                    ELSE v.out + 1 - 1 - BUFSIZE]
    BY <2>1, <2>3
  <2>5. v.out + 1 - 1 = v.out /\ v.out < BUFSIZE
    BY <1>1, Size DEF Ring
  <2> QED BY <2>2, <2>4, <2>5
<1> QED BY <1>4, <1>5

\* Sequences that agree everywhere.
LEMMA SameSeq ==
    ASSUME NEW s \in Seq(Nat), NEW t \in Seq(Nat), Len(s) = Len(t),
           \A k \in 1 .. Len(s) : s[k] = t[k]
    PROVE  s = t
OBVIOUS

\* A sequence of no characters.
LEMMA EmptySeq == \A s \in Seq(Nat) : Len(s) = 0 => s = << >>
OBVIOUS

\* When a reader goes on, the others move up.
LEMMA AdvanceTakes ==
    ASSUME NEW d, NEW v, RingOK(d, v), ~v.half, Fill(d, v) # 0
    PROVE  /\ RingOK(d, Advance(d, v))
           /\ Advance(d, v).init = v.init /\ ~Advance(d, v).half
           /\ Waiting(d, Advance(d, v)) = Tail(Waiting(d, v))
<1>1. /\ v.in \in Ring /\ v.out \in Ring /\ v.count \in 0 .. BUFSIZE
      /\ v.buffer \in [Ring -> Nat] /\ v \in Record
  BY DEF RingOK, Record
<1>2. PICK w : w = Advance(d, v)
  OBVIOUS
<1>3. /\ w.init = v.init /\ w.half = v.half /\ w.in = v.in
      /\ w.out = Next1(v.out)
      /\ w.count = (IF d = "loopback" THEN v.count - 1 ELSE v.count)
      /\ w.buffer = [v.buffer EXCEPT ![v.out] = NoChar]
  BY <1>1, <1>2 DEF Advance, Record
<1>4. Next1(v.out) = (IF v.out = BUFSIZE - 1 THEN 0 ELSE v.out + 1) /\ Next1(v.out) \in Ring
  BY <1>1, NextIs
<1>5. From(v) = v.out /\ From(w) = w.out
  BY <1>3 DEF From
<1>6. Fill(d, v) = (IF d = "loopback" THEN v.count
                    ELSE IF v.in >= v.out THEN v.in - v.out ELSE v.in - v.out + BUFSIZE)
  BY Places, <1>5
<1>7. d = "loopback" => v.count - 1 \in 0 .. BUFSIZE
  BY <1>1, <1>6, Size
<1>8. w \in Record
  <2>1. w.buffer \in [Ring -> Nat]
    BY <1>1, <1>3 DEF NoChar
  <2>2. w.count \in 0 .. BUFSIZE
    BY <1>3, <1>7, <1>1
  <2> QED BY <1>1, <1>2, <1>4, <2>1, <2>2, <1>3 DEF Advance, Record
<1>9. d = "loopback" => w.in = (From(w) + w.count) % BUFSIZE
  <2> SUFFICES ASSUME d = "loopback" PROVE w.in = (w.out + w.count) % BUFSIZE
    BY <1>5
  <2>1. PICK x : x = w.out + w.count
    OBVIOUS
  <2>2. x \in 0 .. 2 * BUFSIZE - 1
    BY <2>1, <1>3, <1>4, <1>7, Size DEF Ring
  <2>3. x % BUFSIZE = (IF x < BUFSIZE THEN x ELSE x - BUFSIZE)
    BY <2>2, Wrap
  <2>4. w.in = (IF x < BUFSIZE THEN x ELSE x - BUFSIZE)
    <3>1. PICK o \in 0 .. BUFSIZE - 1 : o = v.out
      BY <1>1 DEF Ring
    <3>2. PICK n \in 0 .. BUFSIZE - 1 : n = v.count - 1
      BY <1>7, <1>1, Size
    <3>3. v.count = n + 1
      BY <3>2, <1>1
    <3>4. w.in = IF o + v.count < BUFSIZE THEN o + v.count ELSE o + v.count - BUFSIZE
      BY <3>1, <1>3, <1>5, Places
    <3>5. x = (IF o = BUFSIZE - 1 THEN 0 ELSE o + 1) + n
      BY <2>1, <3>1, <3>2, <1>3, <1>4
    <3> QED BY <3>3, <3>4, <3>5, Size
  <2> QED BY <2>1, <2>3, <2>4
<1>10. RingOK(d, w)
  BY <1>8, <1>9, <1>3 DEF RingOK
<1>11. Fill(d, w) = Fill(d, v) - 1
  <2>1. CASE d = "loopback"
    BY <2>1, Places, <1>10, <1>3, <1>6
  <2>2. CASE d # "loopback"
    <3>1. PICK i \in 0 .. BUFSIZE - 1 : i = v.in
      BY <1>1 DEF Ring
    <3>2. PICK o \in 0 .. BUFSIZE - 1 : o = v.out
      BY <1>1 DEF Ring
    <3>3. PICK p \in 0 .. BUFSIZE - 1 : p = w.out
      BY <1>3, <1>4, Size DEF Ring
    <3>4. /\ Fill(d, v) = (IF i >= o THEN i - o ELSE i - o + BUFSIZE)
          /\ Fill(d, w) = (IF i >= p THEN i - p ELSE i - p + BUFSIZE)
          /\ p = (IF o = BUFSIZE - 1 THEN 0 ELSE o + 1) /\ Fill(d, v) # 0
      <4>1. Fill(d, w) = (IF w.in >= w.out THEN w.in - w.out ELSE w.in - w.out + BUFSIZE)
        BY Places, <1>10, <1>5, <2>2
      <4> QED BY <4>1, <1>3, <1>4, <1>6, <2>2, <3>1, <3>2, <3>3
    <3> QED BY <3>4, Size
  <2> QED BY <2>1, <2>2
<1>12. /\ Waiting(d, v) \in Seq(Nat) /\ Waiting(d, w) \in Seq(Nat)
       /\ Fill(d, v) \in 0 .. RoomOf(d)
  BY Places, <1>10
<1>13. ASSUME NEW k \in 1 .. Fill(d, w) PROVE Waiting(d, w)[k] = Waiting(d, v)[k + 1]
  <2>1. k + 1 \in 1 .. Fill(d, v) /\ k \in Nat
    BY <1>11, <1>12, Size DEF RoomOf
  <2>2. PICK p : p = IF v.out + (k + 1) - 1 < BUFSIZE THEN v.out + (k + 1) - 1
                     ELSE v.out + (k + 1) - 1 - BUFSIZE
    OBVIOUS
  <2>3. Waiting(d, v)[k + 1] = v.buffer[p]
    <3>1. \A j \in 1 .. Fill(d, v) :
             Waiting(d, v)[j] = v.buffer[IF v.out + j - 1 < BUFSIZE THEN v.out + j - 1
                                         ELSE v.out + j - 1 - BUFSIZE]
      BY Places, <1>5
    <3> QED BY <3>1, <2>1, <2>2
  <2>4. Waiting(d, w)[k] = w.buffer[IF w.out + k - 1 < BUFSIZE THEN w.out + k - 1
                                         ELSE w.out + k - 1 - BUFSIZE]
    BY Places, <1>10, <1>5
  <2>5. p \in Ring /\ p # v.out
    <3>1. PICK o \in 0 .. BUFSIZE - 1 : o = v.out
      BY <1>1 DEF Ring
    <3>2. k \in 1 .. BUFSIZE - 1
      <4>1. PICK n \in 0 .. BUFSIZE : n = Fill(d, v)
        BY <1>12, Size DEF RoomOf
      <4> QED BY <2>1, <4>1, Size
    <3>3. p = IF o + (k + 1) - 1 < BUFSIZE THEN o + (k + 1) - 1 ELSE o + (k + 1) - 1 - BUFSIZE
      BY <2>2, <3>1
    <3> QED BY <3>1, <3>2, <3>3, Size DEF Ring
  <2>6. (IF w.out + k - 1 < BUFSIZE THEN w.out + k - 1 ELSE w.out + k - 1 - BUFSIZE) = p
    <3>1. PICK o \in 0 .. BUFSIZE - 1 : o = v.out
      BY <1>1 DEF Ring
    <3>2. k \in 1 .. BUFSIZE - 1
      <4>1. PICK n \in 0 .. BUFSIZE : n = Fill(d, v)
        BY <1>12, Size DEF RoomOf
      <4> QED BY <2>1, <4>1, Size
    <3>3. p = IF o + (k + 1) - 1 < BUFSIZE THEN o + (k + 1) - 1 ELSE o + (k + 1) - 1 - BUFSIZE
      BY <2>2, <3>1
    <3>4. PICK q \in 0 .. BUFSIZE - 1 : q = w.out
      BY <1>3, <1>4, Size DEF Ring
    <3>5. q = IF o = BUFSIZE - 1 THEN 0 ELSE o + 1
      BY <3>4, <3>1, <1>3, <1>4
    <3>6. (IF q + k - 1 < BUFSIZE THEN q + k - 1 ELSE q + k - 1 - BUFSIZE) = p
      BY <3>3, <3>2, <3>5, Size
    <3> QED BY <3>4, <3>6
  <2> QED BY <2>3, <2>4, <2>5, <2>6, <1>3, <1>1
<1>14. Waiting(d, w) = Tail(Waiting(d, v))
  <2>1. PICK s \in Seq(Nat) : s = Waiting(d, v)
    BY <1>12
  <2>2. PICK t \in Seq(Nat) : t = Waiting(d, w)
    BY <1>12
  <2>3. Len(s) # 0 /\ Len(t) = Len(s) - 1 /\ \A k \in 1 .. Len(t) : t[k] = s[k + 1]
    BY <2>1, <2>2, <1>11, <1>13 DEF Fill
  <2>4. Tail(s) \in Seq(Nat) /\ Len(Tail(s)) = Len(t) /\ \A k \in 1 .. Len(t) : t[k] = Tail(s)[k]
    BY <2>3
  <2>5. t = Tail(s)
    BY <2>4, SameSeq
  <2> QED BY <2>1, <2>2, <2>5
<1> QED BY <1>2, <1>3, <1>10, <1>14

\* A device whose initialisation has set in is empty, and in its second half
\* nothing gets lost.
LEMMA InitialisesOK ==
    ASSUME NEW d, NEW v, RingOK(d, v)
    PROVE  /\ RingOK(d, InitIn(v)) /\ InitIn(v).init /\ InitIn(v).half
           /\ Waiting(d, InitIn(v)) = << >>
           /\ v.half => /\ RingOK(d, InitOut(v)) /\ ~InitOut(v).half
                        /\ InitOut(v).init = v.init
                        /\ Waiting(d, InitOut(v)) = Waiting(d, v)
<1>1. /\ v.in \in Ring /\ v.out \in Ring /\ v.count \in 0 .. BUFSIZE
      /\ v.buffer \in [Ring -> Nat] /\ v \in Record
  BY DEF RingOK, Record
<1>0. 0 \in Ring /\ 0 \in 0 .. BUFSIZE /\ 0 % BUFSIZE = 0
  BY Size, Wrap DEF Ring
<1>2. PICK w : w = InitIn(v)
  OBVIOUS
<1>3. /\ w.init = TRUE /\ w.half = TRUE /\ w.in = 0 /\ w.out = v.out /\ w.count = 0
      /\ w \in Record
  BY <1>0, <1>1, <1>2 DEF InitIn, Record, NoChar
<1>4. From(w) = 0
  BY <1>3 DEF From
<1>5. RingOK(d, w)
  <2>1. From(w) + w.count = 0
    BY <1>3, <1>4
  <2>2. w.out = 0 \/ w.in < w.out
    BY <1>1, <1>3, Size DEF Ring
  <2> QED BY <1>0, <1>3, <2>1, <2>2 DEF RingOK
<1>6. Waiting(d, w) = << >>
  <2>1. Fill(d, w) = 0
    BY Places, <1>5, <1>3, <1>4
  <2> QED BY <2>1, <1>5, Places, EmptySeq DEF Fill
<1>7. ASSUME v.half
      PROVE  /\ RingOK(d, InitOut(v)) /\ ~InitOut(v).half
             /\ InitOut(v).init = v.init
             /\ Waiting(d, InitOut(v)) = Waiting(d, v)
  <2>1. PICK u : u = InitOut(v)
    OBVIOUS
  <2>2. /\ u.init = v.init /\ u.half = FALSE /\ u.in = v.in /\ u.out = 0 /\ u.count = v.count
        /\ u.buffer = v.buffer /\ u \in Record
    BY <1>0, <1>1, <2>1 DEF InitOut, Record
  <2>3. From(u) = 0 /\ From(v) = 0
    BY <2>2, <1>7 DEF From
  <2>4. RingOK(d, u)
    BY <2>2, <2>3 DEF RingOK
  <2>5. Waiting(d, u) = Waiting(d, v)
    BY <2>2, <1>7 DEF Waiting
  <2> QED BY <2>1, <2>2, <2>4, <2>5
<1> QED BY <1>2, <1>3, <1>5, <1>6, <1>7

\* Devices that are new, or closed, are empty.
LEMMA NewIsEmpty ==
    ASSUME NEW d
    PROVE  /\ RingOK(d, NewDevice) /\ ~NewDevice.init /\ ~NewDevice.half
           /\ Waiting(d, NewDevice) = << >>
           /\ \A v \in Record : /\ RingOK(d, devFPGA_close(v))
                                /\ ~devFPGA_close(v).init /\ ~devFPGA_close(v).half
                                /\ Waiting(d, devFPGA_close(v)) = << >>
<1>0. 0 \in Ring /\ 0 \in 0 .. BUFSIZE /\ 0 % BUFSIZE = 0
  BY Size, Wrap DEF Ring
<1>1. ASSUME NEW w \in Record, w.half = FALSE, w.in = 0, w.out = 0, w.count = 0
      PROVE  RingOK(d, w) /\ Waiting(d, w) = << >>
  <2>1. From(w) = 0
    BY <1>1 DEF From
  <2>2. RingOK(d, w)
    BY <1>0, <1>1, <2>1 DEF RingOK
  <2>3. Fill(d, w) = 0
    BY Places, <2>1, <2>2, <1>1
  <2> QED BY <2>2, <2>3, Places, EmptySeq DEF Fill
<1>2. /\ NewDevice \in Record /\ NewDevice.half = FALSE /\ NewDevice.in = 0
      /\ NewDevice.out = 0 /\ NewDevice.count = 0 /\ NewDevice.init = FALSE
  BY <1>0 DEF NewDevice, Record, NoChar
<1>3. ASSUME NEW v \in Record, NEW w, w = devFPGA_close(v)
      PROVE  /\ w \in Record /\ w.half = FALSE /\ w.in = 0 /\ w.out = 0 /\ w.count = 0
             /\ w.init = FALSE
  BY <1>0, <1>2, <1>3 DEF devFPGA_close, NewDevice, Record, NoChar
<1> QED BY <1>1, <1>2, <1>3

Waits(d) == Waiting(d, dev[d])

\* The I/O thread has begun to initialise d, but has not ended.
Booting(d) == /\ booted < 2 * NbDevices /\ booted % 2 = 1
              /\ d = Order[(booted \div 2) + 1]

\* What a driver is doing, and what that says of its device.
Phase(d) ==
    /\ driver[d].pc # "advance" => driver[d].char = NoChar
    /\ driver[d].pc = "advance" => ~dev[d].half /\ Fill(d, dev[d]) # 0
    /\ driver[d].pc = "init" => dev[d].half /\ dev[d].init
    /\ dev[d].half => driver[d].pc = "init" \/ Booting(d)
    /\ Booting(d) => dev[d].half /\ dev[d].init
    /\ driver[d].pc # NONE => booted >= 2 * NbDevices

Hardware ==
    /\ dev = [d \in Device |-> dev[d]]
    /\ \A d \in Device : RingOK(d, dev[d])
    /\ rx \in [Device -> Seq(Nat)]
    /\ next \in Nat

RingsInv == Hardware /\ \A d \in Device : Phase(d)

-----------------------------------------------------------------------------
(* What is seen of a step, device by device.                               *)

Ready(d) == dev[d].init /\ ~dev[d].half
Queue(d) == IF driver[d].pc = "advance" THEN Tail(Waits(d)) ELSE Waits(d)

\* A step of which nothing is seen.
LEMMA Nothing ==
    ASSUME \A d \in Device : /\ Ready(d)' = Ready(d) /\ Queue(d)' = Queue(d)
                             /\ driver'[d].char = driver[d].char
    PROVE  UNCHANGED Queues!qvars
<1>1. [d \in Device |-> Ready(d)'] = [d \in Device |-> Ready(d)]
  OBVIOUS
<1>2. [d \in Device |-> Queue(d)'] = [d \in Device |-> Queue(d)]
  OBVIOUS
<1>3. [d \in Device |-> driver'[d].char] = [d \in Device |-> driver[d].char]
  OBVIOUS
<1> QED BY <1>1, <1>2, <1>3 DEF Queues!qvars, Ready, Queue, Waits

\* In particular, one that leaves devices alone and shows no character.
LEMMA Same ==
    ASSUME \A d \in Device : dev'[d] = dev[d],
           \A d \in Device : /\ driver'[d].pc = "advance" <=> driver[d].pc = "advance"
                             /\ driver'[d].char = driver[d].char
    PROVE  UNCHANGED Queues!qvars
BY Nothing DEF Ready, Queue, Waits

\* A device is ready from now on.
LEMMA Opens ==
    ASSUME NEW d \in Device, Ready(d)', Queue(d)' = Queue(d), driver'[d].char = driver[d].char,
           \A e \in Device \ {d} : /\ Ready(e)' = Ready(e) /\ Queue(e)' = Queue(e)
                                   /\ driver'[e].char = driver[e].char
    PROVE  Queues!Open(d)
<1>1. [e \in Device |-> Ready(e)'] = [[e \in Device |-> Ready(e)] EXCEPT ![d] = TRUE]
  OBVIOUS
<1>2. [e \in Device |-> Queue(e)'] = [e \in Device |-> Queue(e)]
  OBVIOUS
<1>3. [e \in Device |-> driver'[e].char] = [e \in Device |-> driver[e].char]
  OBVIOUS
<1> QED BY <1>1, <1>2, <1>3 DEF Queues!Open, Ready, Queue, Waits

\* A device forgets what waits.
LEMMA Resets ==
    ASSUME NEW d \in Device, Ready(d)' = FALSE, Queue(d)' = << >>,
           driver[d].char = NoChar, driver'[d].char = NoChar,
           \A e \in Device \ {d} : /\ Ready(e)' = Ready(e) /\ Queue(e)' = Queue(e)
                                   /\ driver'[e].char = driver[e].char
    PROVE  Queues!Reset(d)
<1>1. [e \in Device |-> Ready(e)'] = [[e \in Device |-> Ready(e)] EXCEPT ![d] = FALSE]
  OBVIOUS
<1>2. [e \in Device |-> Queue(e)'] = [[e \in Device |-> Queue(e)] EXCEPT ![d] = << >>]
  OBVIOUS
<1>5. ASSUME NEW e \in Device PROVE driver'[e].char = driver[e].char
  BY e = d \/ e \in Device \ {d}
<1>3. [e \in Device |-> driver'[e].char] = [e \in Device |-> driver[e].char]
  BY <1>5
<1>4. [e \in Device |-> driver[e].char][d] = Queues!NoChar
  BY DEF Queues!NoChar, NoChar
<1> QED BY <1>1, <1>2, <1>3, <1>4 DEF Queues!Reset, Ready, Queue, Waits

\* A reader copies the oldest character.
LEMMA Reads ==
    ASSUME NEW d \in Device, Ready(d), driver[d].char = NoChar, Queue(d) # << >>,
           Queue(d)' = Tail(Queue(d)), driver'[d].char = Head(Queue(d)), Ready(d)' = Ready(d),
           \A e \in Device \ {d} : /\ Ready(e)' = Ready(e) /\ Queue(e)' = Queue(e)
                                   /\ driver'[e].char = driver[e].char
    PROVE  Queues!Take(d)
<1>1. [e \in Device |-> Ready(e)'] = [e \in Device |-> Ready(e)]
  OBVIOUS
<1>2. [e \in Device |-> Queue(e)'] = [[e \in Device |-> Queue(e)] EXCEPT ![d] = Tail(Queue(d))]
  OBVIOUS
<1>3. [e \in Device |-> driver'[e].char]
         = [[e \in Device |-> driver[e].char] EXCEPT ![d] = Head(Queue(d))]
  OBVIOUS
<1>4. /\ [e \in Device |-> driver[e].char][d] = Queues!NoChar
      /\ [e \in Device |-> Ready(e)][d]
      /\ [e \in Device |-> Queue(e)][d] = Queue(d)
      /\ [e \in Device |-> Queue(e)][d] # << >>
  BY DEF Queues!NoChar, NoChar
<1>5. [e \in Device |-> Queue(e)'] = [[e \in Device |-> Queue(e)] EXCEPT ![d] = Tail(@)]
  BY <1>2, <1>4
<1> QED BY <1>1, <1>3, <1>4, <1>5 DEF Queues!Take, Ready, Queue, Waits

\* A reader has done with its character.
LEMMA HandsOver ==
    ASSUME NEW d \in Device, Queue(d)' = Queue(d), Ready(d)' = Ready(d), driver'[d].char = NoChar,
           \A e \in Device \ {d} : /\ Ready(e)' = Ready(e) /\ Queue(e)' = Queue(e)
                                   /\ driver'[e].char = driver[e].char
    PROVE  Queues!HandOver(d) \/ UNCHANGED Queues!qvars
<1>1. CASE driver[d].char = NoChar
  BY <1>1, Nothing
<1>2. CASE driver[d].char # NoChar
  <2>1. [e \in Device |-> Ready(e)'] = [e \in Device |-> Ready(e)]
    OBVIOUS
  <2>2. [e \in Device |-> Queue(e)'] = [e \in Device |-> Queue(e)]
    OBVIOUS
  <2>3. [e \in Device |-> driver'[e].char]
           = [[e \in Device |-> driver[e].char] EXCEPT ![d] = Queues!NoChar]
    BY DEF Queues!NoChar, NoChar
  <2>4. [e \in Device |-> driver[e].char][d] # Queues!NoChar
    BY <1>2 DEF Queues!NoChar, NoChar
  <2> QED BY <2>1, <2>2, <2>3, <2>4 DEF Queues!HandOver, Ready, Queue, Waits
<1> QED BY <1>1, <1>2

\* Sequences one of which begins like the other, their heads taken off.
LEMMA Longer ==
    ASSUME NEW s \in Seq(Nat), NEW t \in Seq(Nat), Len(s) <= Len(t),
           \A k \in 1 .. Len(s) : t[k] = s[k]
    PROVE  /\ SubSeq(t, 1, Len(s)) = s
           /\ Len(s) # 0 => /\ Len(Tail(s)) <= Len(Tail(t))
                            /\ Len(Tail(t)) = Len(t) - 1
                            /\ SubSeq(Tail(t), 1, Len(Tail(s))) = Tail(s)
<1>0. Len(s) \in Nat /\ Len(t) \in Nat
  OBVIOUS
<1>1. SubSeq(t, 1, Len(s)) = s
  <2>1. PICK u : u = SubSeq(t, 1, Len(s))
    OBVIOUS
  <2>2. u \in Seq(Nat) /\ Len(u) = Len(s) /\ \A k \in 1 .. Len(s) : u[k] = t[k]
    BY <2>1, <1>0
  <2> QED BY <2>1, <2>2, SameSeq
<1>2. ASSUME Len(s) # 0
      PROVE  /\ Len(Tail(s)) <= Len(Tail(t)) /\ Len(Tail(t)) = Len(t) - 1
             /\ SubSeq(Tail(t), 1, Len(Tail(s))) = Tail(s)
  <2>1. PICK a \in Seq(Nat) : /\ a = Tail(s) /\ Len(a) = Len(s) - 1
                              /\ \A k \in 1 .. Len(a) : a[k] = s[k + 1]
    <3>1. /\ Tail(s) \in Seq(Nat) /\ Len(Tail(s)) = Len(s) - 1
          /\ \A k \in 1 .. Len(s) - 1 : Tail(s)[k] = s[k + 1]
      BY <1>0, <1>2
    <3> QED BY <3>1
  <2>2. PICK b \in Seq(Nat) : /\ b = Tail(t) /\ Len(b) = Len(t) - 1
                              /\ \A k \in 1 .. Len(b) : b[k] = t[k + 1]
    <3>1. Len(t) # 0
      BY <1>0, <1>2
    <3>2. /\ Tail(t) \in Seq(Nat) /\ Len(Tail(t)) = Len(t) - 1
          /\ \A k \in 1 .. Len(t) - 1 : Tail(t)[k] = t[k + 1]
      BY <1>0, <3>1
    <3> QED BY <3>2
  <2>3. \A k \in 1 .. Len(a) : b[k] = a[k]
    BY <2>1, <2>2, <1>0
  <2>4. PICK u : u = SubSeq(b, 1, Len(a))
    OBVIOUS
  <2>5. u \in Seq(Nat) /\ Len(u) = Len(a) /\ \A k \in 1 .. Len(a) : u[k] = b[k]
    BY <2>4, <2>1, <2>2, <1>0
  <2>6. u = a
    BY <2>5, <2>3, SameSeq
  <2>7. Len(a) <= Len(b) /\ Len(b) = Len(t) - 1
    BY <2>1, <2>2, <1>0
  <2>8. SubSeq(b, 1, Len(a)) = a
    BY <2>4, <2>6
  <2> QED BY <2>1, <2>2, <2>7, <2>8
<1> QED BY <1>1, <1>2

\* Characters come in.
LEMMA Comes ==
    ASSUME RingsInv, \A d \in Device : Grew(d, dev[d], dev'[d]), 
           \A d \in Device : /\ driver'[d].char = driver[d].char
                             /\ driver'[d].pc = "advance" <=> driver[d].pc = "advance"
    PROVE  Queues!Input
<1>0. \A d \in Device : /\ driver'[d].char = driver[d].char
                        /\ driver'[d].pc = "advance" <=> driver[d].pc = "advance"
  OBVIOUS
<1>1. \A d \in Device : Ready(d)' = Ready(d)
  BY DEF Grew, Ready
<1>2. ASSUME NEW d \in Device
      PROVE  /\ Len(Queue(d)') \in Len(Queue(d)) .. RoomOf(d)
             /\ SubSeq(Queue(d)', 1, Len(Queue(d))) = Queue(d)
  <2>1. PICK v : v = dev[d]
    OBVIOUS
  <2>2. PICK w : w = dev'[d]
    OBVIOUS
  <2>3. Grew(d, v, w) /\ RingOK(d, v) /\ RingOK(d, w)
    BY <2>1, <2>2 DEF Grew, RingsInv, Hardware
  <2>4. PICK s \in Seq(Nat) : s = Waiting(d, v)
    BY <2>3, Places
  <2>5. PICK t \in Seq(Nat) : t = Waiting(d, w)
    BY <2>3, Places
  <2>6. /\ Len(s) <= Len(t) /\ Len(t) \in 0 .. RoomOf(d) /\ Len(s) \in Nat
        /\ \A k \in 1 .. Len(s) : t[k] = s[k]
    BY <2>3, <2>4, <2>5, Places DEF Grew, Fill
  <2>7. SubSeq(t, 1, Len(s)) = s
    BY <2>6, Longer
  <2>8. RoomOf(d) \in Nat
    BY Size DEF RoomOf
  <2>9. CASE driver[d].pc = "advance"
    <3>1. Len(s) # 0
      BY <2>9, <2>1, <2>4 DEF RingsInv, Phase, Fill
    <3>2. Queue(d) = Tail(s) /\ Queue(d)' = Tail(t)
      BY <2>9, <1>0, <2>1, <2>2, <2>4, <2>5 DEF Queue, Waits
    <3>3. /\ Len(Tail(s)) <= Len(Tail(t)) /\ Len(Tail(t)) = Len(t) - 1
          /\ SubSeq(Tail(t), 1, Len(Tail(s))) = Tail(s)
      BY <3>1, <2>6, Longer
    <3>4. Len(Tail(s)) = Len(s) - 1
      BY <3>1
    <3>5. Len(Tail(t)) \in Len(Tail(s)) .. RoomOf(d)
      BY <3>1, <3>3, <3>4, <2>6, <2>8
    <3> QED BY <3>2, <3>3, <3>5
  <2>10. CASE driver[d].pc # "advance"
    <3>1. Queue(d) = s /\ Queue(d)' = t
      BY <2>10, <1>0, <2>1, <2>2, <2>4, <2>5 DEF Queue, Waits
    <3> QED BY <3>1, <2>6, <2>7, <2>8
  <2> QED BY <2>9, <2>10
<1>3. [e \in Device |-> Ready(e)'] = [e \in Device |-> Ready(e)]
  BY <1>1
<1>4. [e \in Device |-> driver'[e].char] = [e \in Device |-> driver[e].char]
  BY <1>0
<1>5. \A d \in Device : /\ [e \in Device |-> Queue(e)][d] = Queue(d)
                        /\ [e \in Device |-> Queue(e)'][d] = Queue(d)'
                        /\ [e \in Device |-> IF e = "loopback" THEN BUFSIZE ELSE BUFSIZE - 1][d]
                              = RoomOf(d)
  BY DEF RoomOf
<1>6. \A d \in Device :
         /\ Len([e \in Device |-> Queue(e)'][d]) \in Len([e \in Device |-> Queue(e)][d]) ..
              [e \in Device |-> IF e = "loopback" THEN BUFSIZE ELSE BUFSIZE - 1][d]
         /\ SubSeq([e \in Device |-> Queue(e)'][d], 1, Len([e \in Device |-> Queue(e)][d]))
              = [e \in Device |-> Queue(e)][d]
  BY <1>2, <1>5
<1> QED BY <1>3, <1>4, <1>6 DEF Queues!Input, Ready, Queue, Waits

-----------------------------------------------------------------------------
(* Interrupt handlers.                                                     *)

\* Devices to which characters have come since the handler was called.
Grown(s) ==
    /\ s = [dev |-> s.dev, rx |-> s.rx]
    /\ s.dev = [d \in Device |-> s.dev[d]]
    /\ \A d \in Device : RingOK(d, s.dev[d]) /\ Grew(d, dev[d], s.dev[d])
    /\ s.rx \in [Device -> Seq(Nat)]

\* Growing is transitive and reflexive.
LEMMA GrewTwice ==
    ASSUME NEW d, NEW u, NEW v, NEW w, RingOK(d, u), Grew(d, u, v), Grew(d, v, w)
    PROVE  Grew(d, u, w)
<1>1. Fill(d, u) \in Nat /\ Fill(d, v) \in Nat /\ Fill(d, w) \in Nat
  BY Places, Size DEF Grew, RoomOf
<1>2. \A k \in 1 .. Fill(d, u) : k \in 1 .. Fill(d, v)
  BY <1>1 DEF Grew
<1> QED BY <1>1, <1>2 DEF Grew

\* A device that is left alone has grown by nothing.
LEMMA GrewNot ==
    ASSUME NEW d, NEW v, RingOK(d, v)
    PROVE  Grew(d, v, v)
<1>1. Fill(d, v) \in Nat
  BY Places, Size DEF RoomOf
<1> QED BY <1>1 DEF Grew

\* When a handler is called nothing has come yet.
LEMMA Began == Hardware => Grown(Devs)
<1> SUFFICES ASSUME Hardware PROVE Grown(Devs)
  OBVIOUS
<1>1. Devs.dev = dev /\ Devs.rx = rx /\ Devs = [dev |-> dev, rx |-> rx]
  BY DEF Devs
<1> QED BY <1>1, GrewNot DEF Grown, Hardware

\* A handler stores a character for which there is room.
LEMMA ReceivedGrows ==
    ASSUME NEW s, Grown(s), Hardware, NEW d \in Device, s.rx[d] # << >>, ~IsFull(d, s.dev[d])
    PROVE  /\ Grown(Received(s, d))
           /\ Received(s, d).rx = [s.rx EXCEPT ![d] = Tail(@)]
<1>1. PICK q \in Seq(Nat) : q = s.rx[d] /\ q # << >>
  BY DEF Grown
<1>2. Head(q) \in Nat /\ Tail(q) \in Seq(Nat)
  BY <1>1
<1>3. PICK t : t = Received(s, d)
  OBVIOUS
<1>4. PICK w : w = Store(d, s.dev[d], Head(q))
  OBVIOUS
<1>5. /\ t = [dev |-> t.dev, rx |-> t.rx]
      /\ t.dev = [s.dev EXCEPT ![d] = w]
      /\ t.rx = [s.rx EXCEPT ![d] = Tail(@)]
  BY <1>1, <1>3, <1>4 DEF Received
<1>6. RingOK(d, s.dev[d]) /\ Grew(d, s.dev[d], w)
  BY <1>2, <1>4, StoreGrows DEF Grown
<1>7. /\ t.dev[d] = w /\ \A e \in Device : e # d => t.dev[e] = s.dev[e]
      /\ t.dev = [e \in Device |-> t.dev[e]]
  BY <1>5 DEF Grown
<1>8. RingOK(d, w) /\ Grew(d, dev[d], w)
  <2>1. RingOK(d, w)
    BY <1>6 DEF Grew
  <2>2. PICK u : u = dev[d]
    OBVIOUS
  <2>3. PICK v : v = s.dev[d]
    OBVIOUS
  <2>4. RingOK(d, u) /\ Grew(d, u, v) /\ Grew(d, v, w)
    BY <2>2, <2>3, <1>6 DEF Grown, Hardware
  <2>5. Grew(d, u, w)
    BY <2>4, GrewTwice
  <2> QED BY <2>1, <2>2, <2>5
<1>9. \A e \in Device : RingOK(e, t.dev[e]) /\ Grew(e, dev[e], t.dev[e])
  BY <1>7, <1>8 DEF Grown
<1>10. t.rx \in [Device -> Seq(Nat)]
  BY <1>1, <1>2, <1>5 DEF Grown
<1> QED BY <1>3, <1>5, <1>7, <1>9, <1>10 DEF Grown

\* A handler reads a character and drops it.
LEMMA LostGrows ==
    ASSUME NEW s, Grown(s), NEW d \in Device, s.rx[d] # << >>
    PROVE  /\ Grown([s EXCEPT !.rx[d] = Tail(@)])
           /\ [s EXCEPT !.rx[d] = Tail(@)].rx = [s.rx EXCEPT ![d] = Tail(@)]
<1>1. PICK t : t = [s EXCEPT !.rx[d] = Tail(@)]
  OBVIOUS
<1>2. t = [dev |-> s.dev, rx |-> [s.rx EXCEPT ![d] = Tail(@)]]
  BY <1>1 DEF Grown
<1>3. PICK q \in Seq(Nat) : q = s.rx[d] /\ q # << >>
  BY DEF Grown
<1>4. Tail(q) \in Seq(Nat)
  BY <1>3
<1>5. [s.rx EXCEPT ![d] = Tail(@)] \in [Device -> Seq(Nat)]
  BY <1>3, <1>4 DEF Grown
<1>6. t.dev = s.dev /\ t.rx = [s.rx EXCEPT ![d] = Tail(@)] /\ t = [dev |-> t.dev, rx |-> t.rx]
  BY <1>2
<1> QED BY <1>1, <1>5, <1>6 DEF Grown

\* The handler of the serial chip serves two channels, or one, or none.
LEMMA SerialHandler == Hardware => Grown(devSCN2681_interruptHandler(Devs))
<1> SUFFICES ASSUME Hardware PROVE Grown(devSCN2681_interruptHandler(Devs))
  OBVIOUS
<1>1. Grown(Devs)
  BY Began
<1>2. PICK a : a = IF CanReceive(Devs, "ttya") THEN Received(Devs, "ttya") ELSE Devs
  OBVIOUS
<1>3. "ttya" \in Device /\ "ttyb" \in Device
  BY DEF Device
<1>4. Grown(a)
  BY <1>1, <1>2, <1>3, ReceivedGrows DEF CanReceive
<1>5. CanReceive(a, "ttyb") => Grown(Received(a, "ttyb"))
  BY <1>4, <1>3, ReceivedGrows DEF CanReceive
<1>6. \/ devSCN2681_interruptHandler(Devs) = Devs
      \/ devSCN2681_interruptHandler(Devs)
            = IF CanReceive(a, "ttyb") THEN Received(a, "ttyb") ELSE a
  BY <1>2 DEF devSCN2681_interruptHandler
<1> QED BY <1>1, <1>4, <1>5, <1>6

\* A round of the handler of the card.
OneMore(before) ==
    IF IsFull("fpga", before.dev["fpga"])
    THEN [before EXCEPT !.rx["fpga"] = Tail(@)]
    ELSE Received(before, "fpga")

Rounds(s, N, f) == f = [r \in 0 .. N |-> IF r = 0 THEN s ELSE OneMore(f[r - 1])]

\* The handler does one round after the other.
LEMMA RoundsExist ==
    ASSUME NEW s, NEW N \in Nat
    PROVE  \E f : Rounds(s, N, f)
<1> DEFINE S == {n \in Nat : \E f : Rounds(s, n, f)}
<1>1. 0 \in S
  <2>1. Rounds(s, 0, [n \in 0 .. 0 |-> s])
    BY DEF Rounds
  <2> QED BY <2>1
<1>2. ASSUME NEW n \in 0 .. N - 1, n \in S PROVE n + 1 \in S
  <2>1. PICK f : Rounds(s, n, f)
    BY <1>2
  <2>2. PICK g : g = [i \in 0 .. n + 1 |-> IF i = n + 1 THEN OneMore(f[n]) ELSE f[i]]
    OBVIOUS
  <2>3. f = [i \in 0 .. n |-> IF i = 0 THEN s ELSE OneMore(f[i - 1])]
    BY <2>1 DEF Rounds
  <2>4. ASSUME NEW i \in 0 .. n + 1 PROVE g[i] = IF i = 0 THEN s ELSE OneMore(g[i - 1])
    BY <2>2, <2>3
  <2>5. Rounds(s, n + 1, g)
    BY <2>2, <2>4 DEF Rounds
  <2> QED BY <2>5
<1> HIDE DEF S
<1>3. N \in S
  BY <1>1, <1>2, Induct
<1> QED BY <1>3 DEF S

\* The handler of the card, by induction over its rounds.
LEMMA CardHandler == Hardware => Grown(devFPGA_interruptHandler(Devs))
<1> SUFFICES ASSUME Hardware PROVE Grown(devFPGA_interruptHandler(Devs))
  OBVIOUS
<1>0. "fpga" \in Device
  BY DEF Device
<1>1. PICK N \in Nat : N = Len(rx["fpga"])
  BY <1>0 DEF Hardware
<1>2. PICK f : f = CHOOSE g : Rounds(Devs, N, g)
  OBVIOUS
<1>3. devFPGA_interruptHandler(Devs) = f[N]
  BY <1>1, <1>2 DEF devFPGA_interruptHandler, Rounds, OneMore, Devs
<1>4. Rounds(Devs, N, f)
  BY <1>2, RoundsExist
<1> DEFINE S == {n \in 0 .. N : Grown(f[n]) /\ Len(f[n].rx["fpga"]) = N - n}
<1>5. 0 \in S
  <2>1. f[0] = Devs
    BY <1>4 DEF Rounds
  <2>2. Devs.rx = rx
    BY DEF Devs
  <2> QED BY <2>1, <2>2, <1>1, Began
<1>6. ASSUME NEW n \in 0 .. N - 1, n \in S PROVE n + 1 \in S
  <2>1. PICK s : s = f[n]
    OBVIOUS
  <2>2. Grown(s) /\ Len(s.rx["fpga"]) = N - n
    BY <1>6, <2>1
  <2>3. f[n + 1] = OneMore(s)
    BY <1>4, <2>1 DEF Rounds
  <2>4. PICK q \in Seq(Nat) : q = s.rx["fpga"]
    BY <2>2, <1>0 DEF Grown
  <2>5. q # << >> /\ Len(Tail(q)) = N - (n + 1)
    BY <2>2, <2>4
  <2>6. Grown(OneMore(s)) /\ OneMore(s).rx = [s.rx EXCEPT !["fpga"] = Tail(@)]
    BY <2>2, <2>4, <2>5, <1>0, ReceivedGrows, LostGrows DEF OneMore
  <2>7. OneMore(s).rx["fpga"] = Tail(q)
    BY <2>6, <2>4, <2>2, <1>0 DEF Grown
  <2>8. Grown(f[n + 1]) /\ Len(f[n + 1].rx["fpga"]) = N - (n + 1)
    BY <2>3, <2>5, <2>6, <2>7
  <2> QED BY <2>8
<1> HIDE DEF S
<1>7. N \in S
  BY <1>5, <1>6, Induct
<1> QED BY <1>7, <1>3 DEF S

-----------------------------------------------------------------------------
(* What a step of the program is in terms of queues.                       *)

\* An interrupt puts characters in at the end of queues, and loses none of them.
LEMMA InterruptComes ==
    ASSUME RingsInv, Interrupt
    PROVE  RingsInv' /\ (Queues!Input \/ UNCHANGED Queues!qvars)
<1>1. CASE UNCHANGED <<dev, rx>>
  <2>1. UNCHANGED Queues!qvars
    BY <1>1, Same DEF Interrupt
  <2>2. Hardware'
    BY <1>1 DEF Interrupt, RingsInv, Hardware
  <2>3. ASSUME NEW d \in Device PROVE Phase(d)'
    BY <1>1 DEF Interrupt, RingsInv, Phase, Booting
  <2> QED BY <2>1, <2>2, <2>3 DEF RingsInv
<1>2. CASE dev' = Handled(Highest).dev /\ rx' = Handled(Highest).rx
  <2>1. PICK s : s = Handled(Highest)
    OBVIOUS
  <2>2. Grown(s)
    BY <2>1, SerialHandler, CardHandler DEF Handled, RingsInv
  <2>3. dev' = s.dev /\ rx' = s.rx
    BY <1>2, <2>1
  <2>4. \A d \in Device : Grew(d, dev[d], dev'[d])
    BY <2>2, <2>3 DEF Grown
  <2>5. driver' = driver /\ booted' = booted /\ next' = next
    BY DEF Interrupt
  <2>6. Queues!Input
    BY <2>4, <2>5, Comes
  <2>7. Hardware'
    BY <2>2, <2>3, <2>5 DEF Grown, Hardware, RingsInv
  <2>8. ASSUME NEW d \in Device PROVE Phase(d)'
    <3>1. /\ dev'[d].init = dev[d].init /\ dev'[d].half = dev[d].half
          /\ Fill(d, dev'[d]) >= Fill(d, dev[d])
      BY <2>4, Places, Size DEF Grew, RoomOf
    <3>2. Fill(d, dev[d]) \in Nat /\ Fill(d, dev'[d]) \in Nat
      BY <2>2, <2>3, Places, Size DEF RingsInv, Hardware, Grown, RoomOf
    <3>3. Fill(d, dev[d]) # 0 => Fill(d, dev'[d]) # 0
      BY <3>1, <3>2
    <3> QED BY <3>1, <3>3, <2>5 DEF RingsInv, Phase, Booting
  <2> QED BY <2>6, <2>7, <2>8 DEF RingsInv
<1> QED BY <1>1, <1>2 DEF Interrupt

\* Devices that a step is not about.
LEMMA Elsewhere ==
    ASSUME RingsInv, NEW d, booted' = booted,
           \A e \in Device \ {d} : dev'[e] = dev[e] /\ driver'[e] = driver[e]
    PROVE  \A e \in Device \ {d} : /\ Ready(e)' = Ready(e) /\ Queue(e)' = Queue(e)
                                   /\ driver'[e].char = driver[e].char
                                   /\ Phase(e)'
<1> TAKE e \in Device \ {d}
<1>1. Ready(e)' = Ready(e) /\ Queue(e)' = Queue(e) /\ driver'[e].char = driver[e].char
  BY DEF Ready, Queue, Waits
<1>2. Booting(e)' = Booting(e)
  BY DEF Booting
<1>3. Phase(e)'
  BY <1>2 DEF RingsInv, Phase
<1> QED BY <1>1, <1>3

\* A step that changes one device.
LEMMA OneDevice ==
    ASSUME RingsInv, NEW d \in Device, NEW v, RingOK(d, v), dev' = [dev EXCEPT ![d] = v],
           rx' = rx, next' = next \/ next' = next + 1
    PROVE  /\ Hardware' /\ dev'[d] = v
           /\ \A e \in Device \ {d} : dev'[e] = dev[e]
<1>1. dev = [e \in Device |-> dev[e]]
  BY DEF RingsInv, Hardware
<1>2. /\ dev'[d] = v /\ \A e \in Device \ {d} : dev'[e] = dev[e]
      /\ dev' = [e \in Device |-> dev'[e]]
  BY <1>1
<1>3. \A e \in Device : RingOK(e, dev'[e])
  <2> TAKE e \in Device
  <2>1. CASE e = d
    BY <2>1, <1>2
  <2>2. CASE e # d
    BY <2>2, <1>2 DEF RingsInv, Hardware
  <2> QED BY <2>1, <2>2
<1>4. rx' \in [Device -> Seq(Nat)] /\ next' \in Nat
  BY DEF RingsInv, Hardware
<1> QED BY <1>2, <1>3, <1>4 DEF Hardware

\* A step in which the thread of one device goes on.
LEMMA OneDriver ==
    ASSUME IndInv, NEW d \in Device, NEW w, Goes(d, w)
    PROVE  /\ driver'[d] = w
           /\ \A e \in Device \ {d} : driver'[e] = driver[e]
BY DEF IndInv, DriversOK, Goes

\* A step that changes no device.
LEMMA NoDevice ==
    ASSUME RingsInv, UNCHANGED <<dev, rx, next>>
    PROVE  Hardware' /\ \A d \in Device : dev'[d] = dev[d]
BY DEF RingsInv, Hardware

\* A driver at work has its device to itself.
LEMMA AtWork ==
    ASSUME RingsInv, NEW d \in Device, driver[d].pc # NONE, booted \in Nat
    PROVE  /\ ~Booting(d)
           /\ driver[d].pc # "init" => ~dev[d].half
           /\ RingOK(d, dev[d])
<1>1. NbDevices \in Nat
  BY IOAssumption DEF NbDevices
<1>2. booted >= 2 * NbDevices
  BY DEF RingsInv, Phase
<1>3. ~(booted < 2 * NbDevices)
  BY <1>1, <1>2
<1> QED BY <1>3 DEF RingsInv, Phase, Hardware, Booting

\* A driver goes from a state in which it shows no character to another.
LEMMA Silently ==
    ASSUME RingsInv, IndInv, NEW d \in Device, driver[d].pc # NONE, booted \in Nat,
           NEW w, Goes(d, w) \/ (driver' = driver /\ w = driver[d]),
           w.pc \notin {"advance", "init"} /\ w.pc # NONE, w.char = NoChar,
           driver[d].pc \notin {"advance", "init"},
           UNCHANGED <<dev, rx, next, booted>>
    PROVE  RingsInv' /\ UNCHANGED Queues!qvars
<1>1. driver'[d] = w /\ \A e \in Device \ {d} : driver'[e] = driver[e]
  BY OneDriver
<1>2. Hardware' /\ \A e \in Device : dev'[e] = dev[e]
  BY NoDevice
<1>3. ~Booting(d) /\ ~dev[d].half
  BY AtWork
<1>4. ~Booting(d)'
  BY <1>3 DEF Booting
<1>5. Phase(d)'
  <2>1. booted >= 2 * NbDevices
    BY DEF RingsInv, Phase
  <2>2. (booted >= 2 * NbDevices)'
    BY <2>1 DEF NbDevices
  <2> QED BY <1>1, <1>2, <1>3, <1>4, <2>2 DEF Phase
<1>6. driver[d].char = NoChar
  BY DEF RingsInv, Phase
<1>7. RingsInv'
  BY <1>1, <1>2, <1>5, Elsewhere DEF RingsInv
<1>8. UNCHANGED Queues!qvars
  BY <1>1, <1>2, <1>6, Same
<1> QED BY <1>7, <1>8

\* What a driver receives makes its device forget, or is not seen.
LEMMA ReceiveQueues ==
    ASSUME RingsInv, OnceInv, NEW d \in Device, Receive(d)
    PROVE  RingsInv' /\ (Queues!Reset(d) \/ UNCHANGED Queues!qvars)
<1>1. IndInv /\ booted \in Nat
  BY DEF OnceInv, Background, Loading
<1>2. /\ driver[d].pc = "recv"
      /\ UNCHANGED <<rx, used, next, loaded, booted, wild>>
  BY DEF Receive
<1>3. driver[d].pc \notin {"advance", "init"} /\ driver[d].pc # NONE
  BY <1>2 DEF NONE
<1>4. ~Booting(d) /\ ~dev[d].half /\ RingOK(d, dev[d])
  BY <1>1, <1>3, AtWork
<1>5. driver[d].char = NoChar
  BY <1>3 DEF RingsInv, Phase
<1>6. booted >= 2 * NbDevices /\ (booted >= 2 * NbDevices)'
  BY <1>3, <1>2 DEF RingsInv, Phase, NbDevices
<1>7. ~Booting(d)'
  BY <1>2, <1>4 DEF Booting
<1>8. PICK m : m = Head(mail[d])
  OBVIOUS
<1>9. \/ driver' = driver /\ dev' = dev
      \/ m.id \in {"IO_READ", "IO_WRITE"} /\ Goes(d, [Idle EXCEPT !.pc = m.id, !.msg = m]) /\ dev' = dev
      \/ d = "fpga" /\ Changes(d, devFPGA_close(dev[d])) /\ driver' = driver
      \/ Changes(d, InitIn(dev[d])) /\ Goes(d, [Idle EXCEPT !.pc = "init", !.msg = m])
  BY <1>8 DEF Receive
<1>10. CASE driver' = driver /\ dev' = dev
  BY <1>10, <1>1, <1>2, <1>3, <1>5, Silently
<1>11. CASE m.id \in {"IO_READ", "IO_WRITE"} /\ Goes(d, [Idle EXCEPT !.pc = m.id, !.msg = m]) /\ dev' = dev
  <2>1. PICK w : w = [Idle EXCEPT !.pc = m.id, !.msg = m]
    OBVIOUS
  <2>2. w.pc = m.id /\ w.char = NoChar
    BY <2>1 DEF Idle, NotStarted
  <2>3. w.pc \notin {"advance", "init"} /\ w.pc # NONE
    BY <2>2, <1>11 DEF NONE
  <2>4. Goes(d, w) /\ dev' = dev
    BY <2>1, <1>11
  <2> QED BY <2>2, <2>3, <2>4, <1>1, <1>2, <1>3, Silently
<1>12. CASE d = "fpga" /\ Changes(d, devFPGA_close(dev[d])) /\ driver' = driver
  <2>1. PICK v : v = devFPGA_close(dev[d])
    OBVIOUS
  <2>2. RingOK(d, v) /\ ~v.init /\ ~v.half /\ Waiting(d, v) = << >>
    BY <2>1, <1>4, NewIsEmpty DEF RingOK
  <2>3. dev' = [dev EXCEPT ![d] = v]
    BY <1>12, <2>1 DEF Changes
  <2>4. Hardware' /\ dev'[d] = v /\ \A e \in Device \ {d} : dev'[e] = dev[e]
    BY <2>2, <2>3, <1>2, OneDevice
  <2>5. \A e \in Device \ {d} : /\ Ready(e)' = Ready(e) /\ Queue(e)' = Queue(e)
                                /\ driver'[e].char = driver[e].char
                                /\ Phase(e)'
    BY <2>4, <1>12, <1>2, Elsewhere
  <2>6. Phase(d)'
    BY <2>4, <2>2, <1>12, <1>3, <1>5, <1>6, <1>7 DEF Phase
  <2>7. Ready(d)' = FALSE /\ Queue(d)' = << >>
    BY <2>4, <2>2, <1>12, <1>3 DEF Ready, Queue, Waits
  <2>8. Queues!Reset(d)
    BY <2>5, <2>7, <1>5, <1>12, Resets
  <2> QED BY <2>4, <2>5, <2>6, <2>8 DEF RingsInv
<1>13. CASE Changes(d, InitIn(dev[d])) /\ Goes(d, [Idle EXCEPT !.pc = "init", !.msg = m])
  <2>1. PICK v : v = InitIn(dev[d])
    OBVIOUS
  <2>2. RingOK(d, v) /\ v.init /\ v.half /\ Waiting(d, v) = << >>
    BY <2>1, <1>4, InitialisesOK
  <2>3. dev' = [dev EXCEPT ![d] = v]
    BY <1>13, <2>1 DEF Changes
  <2>4. Hardware' /\ dev'[d] = v /\ \A e \in Device \ {d} : dev'[e] = dev[e]
    BY <2>2, <2>3, <1>2, OneDevice
  <2>5. PICK w : w = [Idle EXCEPT !.pc = "init", !.msg = m]
    OBVIOUS
  <2>6. w.pc = "init" /\ w.char = NoChar
    BY <2>5 DEF Idle, NotStarted
  <2>7. driver'[d] = w /\ \A e \in Device \ {d} : driver'[e] = driver[e]
    BY <2>5, <1>13, <1>1, OneDriver
  <2>8. \A e \in Device \ {d} : /\ Ready(e)' = Ready(e) /\ Queue(e)' = Queue(e)
                                /\ driver'[e].char = driver[e].char
                                /\ Phase(e)'
    BY <2>4, <2>7, <1>2, Elsewhere
  <2>9. Phase(d)'
    BY <2>4, <2>2, <2>6, <2>7, <1>6, <1>7 DEF Phase
  <2>10. Ready(d)' = FALSE /\ Queue(d)' = << >> /\ driver'[d].char = NoChar
    BY <2>4, <2>2, <2>6, <2>7 DEF Ready, Queue, Waits
  <2>11. Queues!Reset(d)
    BY <2>8, <2>10, <1>5, Resets
  <2> QED BY <2>4, <2>8, <2>9, <2>11 DEF RingsInv
<1> QED BY <1>9, <1>10, <1>11, <1>12, <1>13

\* The second half of an initialisation opens a device and loses nothing.
LEMMA InitEndsQueues ==
    ASSUME RingsInv, OnceInv, NEW d \in Device, InitEnds(d)
    PROVE  RingsInv' /\ Queues!Open(d)
<1>1. IndInv /\ booted \in Nat
  BY DEF OnceInv, Background, Loading
<1>2. /\ driver[d].pc = "init" /\ dev' = [dev EXCEPT ![d] = InitOut(dev[d])] /\ Goes(d, Idle)
      /\ UNCHANGED <<rx, used, next, loaded, booted, mail, wild>>
  BY DEF InitEnds, Changes
<1>3. driver[d].pc # NONE /\ driver[d].pc # "advance"
  BY <1>2 DEF NONE
<1>4. ~Booting(d) /\ RingOK(d, dev[d])
  BY <1>1, <1>3, AtWork
<1>5. dev[d].half /\ dev[d].init /\ driver[d].char = NoChar
  BY <1>2, <1>3 DEF RingsInv, Phase
<1>6. booted >= 2 * NbDevices /\ (booted >= 2 * NbDevices)' /\ ~Booting(d)'
  BY <1>3, <1>2, <1>4 DEF RingsInv, Phase, NbDevices, Booting
<1>7. PICK v : v = InitOut(dev[d])
  OBVIOUS
<1>8. RingOK(d, v) /\ ~v.half /\ v.init /\ Waiting(d, v) = Waiting(d, dev[d])
  BY <1>7, <1>4, <1>5, InitialisesOK
<1>9. Hardware' /\ dev'[d] = v /\ \A e \in Device \ {d} : dev'[e] = dev[e]
  BY <1>8, <1>7, <1>2, OneDevice
<1>10. Idle.pc = "recv" /\ Idle.char = NoChar
  BY DEF Idle, NotStarted
<1>11. driver'[d] = Idle /\ \A e \in Device \ {d} : driver'[e] = driver[e]
  BY <1>1, <1>2, OneDriver
<1>12. \A e \in Device \ {d} : /\ Ready(e)' = Ready(e) /\ Queue(e)' = Queue(e)
                               /\ driver'[e].char = driver[e].char
                               /\ Phase(e)'
  BY <1>9, <1>11, <1>2, Elsewhere
<1>13. Phase(d)'
  BY <1>8, <1>9, <1>10, <1>11, <1>6 DEF Phase
<1>14. Ready(d)' /\ Queue(d)' = Queue(d) /\ driver'[d].char = driver[d].char
  BY <1>8, <1>9, <1>10, <1>11, <1>3, <1>5 DEF Ready, Queue, Waits
<1>15. Queues!Open(d)
  BY <1>12, <1>14, Opens
<1> QED BY <1>9, <1>12, <1>13, <1>15 DEF RingsInv

\* A reader copies the character that came first.
LEMMA ReadCopiesQueues ==
    ASSUME RingsInv, OnceInv, NEW d \in Device, ReadCopies(d)
    PROVE  RingsInv' /\ Queues!Take(d)
<1>1. IndInv /\ booted \in Nat /\ DriverOK(driver[d])
  BY DEF OnceInv, Background, Loading, IndInv, DriversOK
<1>2. PICK w : w = [driver[d] EXCEPT !.pc = "advance", !.i = @ + 1,
                                     !.char = dev[d].buffer[dev[d].out]]
  OBVIOUS
<1>3. /\ driver[d].pc = "IO_READ" /\ dev[d].init /\ ~IsEmpty(d, dev[d]) /\ Goes(d, w)
      /\ UNCHANGED <<dev, rx, next, booted>>
  BY <1>2 DEF ReadCopies
<1>4. driver[d].pc # NONE /\ driver[d].pc \notin {"advance", "init"}
  BY <1>3 DEF NONE
<1>5. ~Booting(d) /\ ~dev[d].half /\ RingOK(d, dev[d])
  BY <1>1, <1>4, AtWork
<1>6. driver[d].char = NoChar /\ booted >= 2 * NbDevices
  BY <1>4 DEF RingsInv, Phase
<1>7. (booted >= 2 * NbDevices)' /\ ~Booting(d)'
  BY <1>6, <1>3, <1>5 DEF NbDevices, Booting
<1>8. Fill(d, dev[d]) # 0 /\ Head(Waiting(d, dev[d])) = dev[d].buffer[dev[d].out]
  BY <1>3, <1>5, OldestFirst
<1>9. w.pc = "advance" /\ w.char = Head(Waits(d))
  BY <1>1, <1>2, <1>8 DEF DriverOK, Waits
<1>10. driver'[d] = w /\ \A e \in Device \ {d} : driver'[e] = driver[e]
  BY <1>1, <1>3, OneDriver
<1>11. Hardware' /\ \A e \in Device : dev'[e] = dev[e]
  BY <1>3, NoDevice
<1>12. \A e \in Device \ {d} : /\ Ready(e)' = Ready(e) /\ Queue(e)' = Queue(e)
                               /\ driver'[e].char = driver[e].char
                               /\ Phase(e)'
  BY <1>10, <1>11, <1>3, Elsewhere
<1>13. Phase(d)'
  BY <1>5, <1>7, <1>8, <1>9, <1>10, <1>11 DEF Phase
<1>14. Queue(d) = Waits(d) /\ Queue(d)' = Tail(Waits(d)) /\ Ready(d) /\ Ready(d)' = Ready(d)
  BY <1>3, <1>4, <1>5, <1>9, <1>10, <1>11 DEF Queue, Waits, Ready
<1>15. Waits(d) # << >>
  BY <1>8 DEF Fill, Waits
<1>16. driver'[d].char = Head(Queue(d)) /\ Queue(d)' = Tail(Queue(d)) /\ Queue(d) # << >>
  BY <1>9, <1>10, <1>14, <1>15
<1>17. Queues!Take(d)
  BY <1>6, <1>12, <1>14, <1>16, Reads
<1> QED BY <1>11, <1>12, <1>13, <1>17 DEF RingsInv

\* The character leaves the ring after it has been copied.
LEMMA ReadAdvancesQueues ==
    ASSUME RingsInv, OnceInv, NEW d \in Device, ReadAdvances(d)
    PROVE  RingsInv' /\ (Queues!HandOver(d) \/ UNCHANGED Queues!qvars)
<1>1. IndInv /\ booted \in Nat /\ DriverOK(driver[d])
  BY DEF OnceInv, Background, Loading, IndInv, DriversOK
<1>2. PICK w : w = [driver[d] EXCEPT !.pc = "IO_READ", !.char = NoChar]
  OBVIOUS
<1>3. PICK v : v = Advance(d, dev[d])
  OBVIOUS
<1>4. /\ driver[d].pc = "advance" /\ dev' = [dev EXCEPT ![d] = v] /\ Goes(d, w)
      /\ UNCHANGED <<rx, next, booted>>
  BY <1>2, <1>3 DEF ReadAdvances, Changes
<1>5. driver[d].pc # NONE /\ driver[d].pc # "init"
  BY <1>4 DEF NONE
<1>6. ~Booting(d) /\ ~dev[d].half /\ RingOK(d, dev[d])
  BY <1>1, <1>5, AtWork
<1>7. booted >= 2 * NbDevices /\ Fill(d, dev[d]) # 0
  BY <1>4, <1>5 DEF RingsInv, Phase
<1>8. (booted >= 2 * NbDevices)' /\ ~Booting(d)'
  BY <1>7, <1>4, <1>6 DEF NbDevices, Booting
<1>9. /\ RingOK(d, v) /\ v.init = dev[d].init /\ ~v.half
      /\ Waiting(d, v) = Tail(Waits(d))
  BY <1>3, <1>6, <1>7, AdvanceTakes DEF Waits
<1>10. w.pc = "IO_READ" /\ w.char = NoChar
  BY <1>1, <1>2 DEF DriverOK
<1>11. driver'[d] = w /\ \A e \in Device \ {d} : driver'[e] = driver[e]
  BY <1>1, <1>4, OneDriver
<1>12. Hardware' /\ dev'[d] = v /\ \A e \in Device \ {d} : dev'[e] = dev[e]
  BY <1>9, <1>4, OneDevice
<1>13. \A e \in Device \ {d} : /\ Ready(e)' = Ready(e) /\ Queue(e)' = Queue(e)
                               /\ driver'[e].char = driver[e].char
                               /\ Phase(e)'
  BY <1>11, <1>12, <1>4, Elsewhere
<1>14. Phase(d)'
  BY <1>8, <1>9, <1>10, <1>11, <1>12 DEF Phase
<1>15. Queue(d) = Tail(Waits(d)) /\ Queue(d)' = Tail(Waits(d))
  BY <1>4, <1>9, <1>10, <1>11, <1>12 DEF Queue, Waits
<1>16. Ready(d)' = Ready(d) /\ driver'[d].char = NoChar
  BY <1>6, <1>9, <1>10, <1>11, <1>12 DEF Ready
<1>17. Queues!HandOver(d) \/ UNCHANGED Queues!qvars
  BY <1>13, <1>15, <1>16, HandsOver
<1> QED BY <1>12, <1>13, <1>14, <1>17 DEF RingsInv

\* A transfer ends, or a reader finds that its device has been closed.
LEMMA EndsQueues ==
    ASSUME RingsInv, OnceInv, NEW d \in Device, ReadEnds(d) \/ ReadAfterClose(d) \/ WriteEnds(d)
    PROVE  RingsInv' /\ UNCHANGED Queues!qvars
<1>1. IndInv /\ booted \in Nat
  BY DEF OnceInv, Background, Loading
<1>2. /\ driver[d].pc \in {"IO_READ", "IO_WRITE"}
      /\ UNCHANGED <<dev, rx, next, booted>>
      /\ Goes(d, Idle) \/ driver' = driver
  BY DEF ReadEnds, ReadAfterClose, WriteEnds
<1>3. driver[d].pc # NONE /\ driver[d].pc \notin {"advance", "init"}
  BY <1>2 DEF NONE
<1>4. driver[d].char = NoChar
  BY <1>3 DEF RingsInv, Phase
<1>5. Idle.pc = "recv" /\ Idle.char = NoChar /\ Idle.pc # NONE
  BY DEF Idle, NotStarted, NONE
<1>6. CASE Goes(d, Idle)
  BY <1>1, <1>2, <1>3, <1>5, <1>6, Silently
<1>7. CASE driver' = driver
  BY <1>1, <1>2, <1>3, <1>4, <1>7, Silently
<1> QED BY <1>2, <1>6, <1>7

\* What is written to the loopback device goes into its ring.
LEMMA WriteSendsQueues ==
    ASSUME RingsInv, OnceInv, NEW d \in Device, WriteSends(d)
    PROVE  RingsInv' /\ (Queues!Input \/ UNCHANGED Queues!qvars)
<1>1. IndInv /\ booted \in Nat /\ DriverOK(driver[d])
  BY DEF OnceInv, Background, Loading, IndInv, DriversOK
<1>2. PICK w : w = [driver[d] EXCEPT !.i = @ + 1]
  OBVIOUS
<1>3. /\ driver[d].pc = "IO_WRITE" /\ Goes(d, w)
      /\ UNCHANGED <<rx, booted>>
  BY <1>2 DEF WriteSends
<1>4. driver[d].pc # NONE /\ driver[d].pc \notin {"advance", "init"}
  BY <1>3 DEF NONE
<1>5. w.pc = driver[d].pc /\ w.char = driver[d].char /\ driver[d].char = NoChar
  BY <1>1, <1>2, <1>4 DEF DriverOK, RingsInv, Phase
<1>6. CASE d # "loopback" \/ ~(next <= MaxInput)
  <2>1. UNCHANGED <<dev, next>>
    BY <1>6 DEF WriteSends
  <2> QED BY <2>1, <1>1, <1>3, <1>4, <1>5, Silently
<1>7. CASE d = "loopback" /\ next <= MaxInput
  <2>1. PICK v : v = Store(d, dev[d], next)
    OBVIOUS
  <2>2. dev' = [dev EXCEPT ![d] = v] /\ next' = next + 1 /\ ~IsFull(d, dev[d])
    BY <1>7, <2>1 DEF WriteSends
  <2>3. ~Booting(d) /\ ~dev[d].half /\ RingOK(d, dev[d]) /\ next \in Nat
    BY <1>1, <1>4, AtWork DEF RingsInv, Hardware
  <2>4. Grew(d, dev[d], v) /\ RingOK(d, v) /\ ~v.half
    BY <2>1, <2>2, <2>3, StoreGrows DEF Grew
  <2>5. Hardware' /\ dev'[d] = v /\ \A e \in Device \ {d} : dev'[e] = dev[e]
    BY <2>4, <2>2, <1>3, OneDevice
  <2>6. driver'[d] = w /\ \A e \in Device \ {d} : driver'[e] = driver[e]
    BY <1>1, <1>3, OneDriver
  <2>7. ASSUME NEW e \in Device PROVE Grew(e, dev[e], dev'[e])
    <3>1. CASE e = d
      BY <3>1, <2>4, <2>5
    <3>2. CASE e # d
      <4>1. RingOK(e, dev[e]) /\ dev'[e] = dev[e]
        BY <3>2, <2>5 DEF RingsInv, Hardware
      <4> QED BY <4>1, GrewNot
    <3> QED BY <3>1, <3>2
  <2>8. ASSUME NEW e \in Device
        PROVE  /\ driver'[e].char = driver[e].char
               /\ driver'[e].pc = "advance" <=> driver[e].pc = "advance"
    <3>1. CASE e = d
      BY <3>1, <2>6, <1>5
    <3>2. CASE e # d
      BY <3>2, <2>6
    <3> QED BY <3>1, <3>2
  <2>9. Queues!Input
    BY <2>7, <2>8, Comes
  <2>10. \A e \in Device \ {d} : Phase(e)'
    BY <2>5, <2>6, <1>3, Elsewhere
  <2>11. booted >= 2 * NbDevices
    BY <1>4 DEF RingsInv, Phase
  <2>12. (booted >= 2 * NbDevices)' /\ ~Booting(d)'
    BY <2>11, <2>3, <1>3 DEF NbDevices, Booting
  <2>13. Phase(d)'
    BY <2>4, <2>5, <2>6, <2>12, <1>4, <1>5 DEF Phase
  <2> QED BY <2>5, <2>9, <2>10, <2>13 DEF RingsInv
<1> QED BY <1>6, <1>7

-----------------------------------------------------------------------------
(* The I/O thread.                                                         *)

\* The devices in their order.
LEMMA Ordered ==
    /\ NbDevices \in Nat
    /\ \A i \in 1 .. NbDevices : Order[i] \in Device /\ i \in DOMAIN Order
BY IOAssumption DEF NbDevices

\* The I/O thread initialises a device in two steps.
LEMMA BootQueues ==
    ASSUME RingsInv, OnceInv, Boot
    PROVE  RingsInv' /\ \E d \in Device : Queues!Reset(d) \/ Queues!Open(d)
<1>1. IndInv /\ booted \in Nat
  BY DEF OnceInv, Background, Loading
<1>2. PICK n \in Nat : n = NbDevices
  BY Ordered
<1>3. /\ booted < 2 * n /\ booted' = booted + 1 /\ UNCHANGED <<rx, next, driver>>
  BY <1>2 DEF Boot
<1>4. PICK k : k = booted \div 2
  OBVIOUS
<1>5. k \in Nat /\ k + 1 \in 1 .. n /\ (booted = 2 * k \/ booted = 2 * k + 1)
      /\ booted % 2 = booted - 2 * k
  BY <1>1, <1>3, <1>4
<1>6. PICK d \in Device : d = Order[k + 1]
  BY <1>2, <1>5, Ordered
<1>7. \A e \in Device : driver[e].pc = NONE
  <2>1. ~(booted >= 2 * n)
    BY <1>1, <1>3
  <2> QED BY <2>1, <1>2 DEF RingsInv, Phase
<1>8. \A e \in Device : /\ driver[e].char = NoChar
                        /\ driver[e].pc # "advance" /\ driver[e].pc # "init"
  BY <1>7 DEF RingsInv, Phase, NONE
<1>9. RingOK(d, dev[d])
  BY DEF RingsInv, Hardware
<1>10. n = NbDevices'
  BY <1>2 DEF NbDevices
<1>11. \A e \in Device : Booting(e) <=> booted % 2 = 1 /\ e = d
  BY <1>2, <1>3, <1>4, <1>6 DEF Booting
<1>12. CASE booted % 2 = 0
  <2>1. PICK v : v = InitIn(dev[d])
    OBVIOUS
  <2>2. RingOK(d, v) /\ v.init /\ v.half /\ Waiting(d, v) = << >>
    BY <2>1, <1>9, InitialisesOK
  <2>3. dev' = [dev EXCEPT ![d] = v]
    BY <1>12, <2>1, <1>4, <1>6 DEF Boot
  <2>4. Hardware' /\ dev'[d] = v /\ \A e \in Device \ {d} : dev'[e] = dev[e]
    BY <2>2, <2>3, <1>3, OneDevice
  <2>5. booted = 2 * k
    BY <1>12, <1>5
  <2>6. booted' \div 2 = k /\ booted' % 2 = 1 /\ booted' < 2 * n
    BY <2>5, <1>3, <1>5
  <2>7. \A e \in Device : Booting(e)' <=> e = d
    BY <2>6, <1>10, <1>6 DEF Booting
  <2>8. \A e \in Device : ~Booting(e)
    BY <1>11, <1>12
  <2>9. ASSUME NEW e \in Device PROVE Phase(e)'
    <3>1. CASE e = d
      BY <3>1, <2>2, <2>4, <2>7, <1>3, <1>7, <1>8 DEF Phase
    <3>2. CASE e # d
      <4>1. ~dev[e].half
        BY <2>8, <1>8 DEF RingsInv, Phase
      <4> QED BY <4>1, <3>2, <2>4, <2>7, <1>3, <1>7, <1>8 DEF Phase
    <3> QED BY <3>1, <3>2
  <2>10. Ready(d)' = FALSE /\ Queue(d)' = << >>
    BY <2>2, <2>4, <1>3, <1>8 DEF Ready, Queue, Waits
  <2>11. \A e \in Device \ {d} : /\ Ready(e)' = Ready(e) /\ Queue(e)' = Queue(e)
                                 /\ driver'[e].char = driver[e].char
    BY <2>4, <1>3 DEF Ready, Queue, Waits
  <2>12. driver'[d].char = NoChar
    BY <1>3, <1>8
  <2>13. Queues!Reset(d)
    BY <2>10, <2>11, <2>12, <1>8, Resets
  <2> QED BY <2>4, <2>9, <2>13 DEF RingsInv
<1>13. CASE booted % 2 # 0
  <2>1. PICK v : v = InitOut(dev[d])
    OBVIOUS
  <2>2. booted % 2 = 1 /\ booted = 2 * k + 1
    BY <1>13, <1>5
  <2>3. dev[d].half /\ dev[d].init
    BY <2>2, <1>11 DEF RingsInv, Phase
  <2>4. RingOK(d, v) /\ v.init /\ ~v.half /\ Waiting(d, v) = Waiting(d, dev[d])
    BY <2>1, <2>3, <1>9, InitialisesOK
  <2>5. dev' = [dev EXCEPT ![d] = v]
    BY <1>13, <2>1, <1>4, <1>6 DEF Boot
  <2>6. Hardware' /\ dev'[d] = v /\ \A e \in Device \ {d} : dev'[e] = dev[e]
    BY <2>4, <2>5, <1>3, OneDevice
  <2>7. booted' % 2 # 1
    BY <2>2, <1>3, <1>5
  <2>8. \A e \in Device : ~Booting(e)'
    BY <2>7 DEF Booting
  <2>9. ASSUME NEW e \in Device PROVE Phase(e)'
    <3>1. CASE e = d
      BY <3>1, <2>4, <2>6, <2>8, <1>3, <1>7, <1>8 DEF Phase
    <3>2. CASE e # d
      <4>1. ~dev[e].half
        BY <3>2, <1>11, <1>8 DEF RingsInv, Phase
      <4> QED BY <4>1, <3>2, <2>6, <2>8, <1>3, <1>7, <1>8 DEF Phase
    <3> QED BY <3>1, <3>2
  <2>10. Ready(d)' /\ Queue(d)' = Queue(d)
    BY <2>4, <2>6, <1>3, <1>8 DEF Ready, Queue, Waits
  <2>11. \A e \in Device \ {d} : /\ Ready(e)' = Ready(e) /\ Queue(e)' = Queue(e)
                                 /\ driver'[e].char = driver[e].char
    BY <2>6, <1>3 DEF Ready, Queue, Waits
  <2>12. driver'[d].char = driver[d].char
    BY <1>3
  <2>13. Queues!Open(d)
    BY <2>10, <2>11, <2>12, Opens
  <2> QED BY <2>6, <2>9, <2>13 DEF RingsInv
<1> QED BY <1>12, <1>13

\* A driver is loaded: its device has been initialised.
LEMMA LoadQueues ==
    ASSUME RingsInv, OnceInv, ioLoadDriver
    PROVE  RingsInv' /\ UNCHANGED Queues!qvars
<1>1. IndInv /\ booted \in Nat /\ Loading
  BY DEF OnceInv, Background, Loading
<1>2. PICK n \in Nat : n = NbDevices
  BY Ordered
<1>3. booted >= 2 * n /\ booted < 3 * n /\ booted' = booted + 1 /\ UNCHANGED <<dev, rx, next>>
  BY <1>1, <1>2 DEF ioLoadDriver
<1>4. PICK i \in 1 .. n : i = booted - 2 * n + 1
  BY <1>1, <1>3
<1>5. PICK d \in Device : d = Order[i] /\ i \in DOMAIN Order
  BY <1>2, <1>4, Ordered
<1>6. Goes(d, Idle)
  BY <1>2, <1>4, <1>5 DEF ioLoadDriver, Goes
<1>7. booted < 2 * n + i
  BY <1>1, <1>4
<1>8. driver[d] = NotStarted
  BY <1>1, <1>2, <1>5, <1>7 DEF Loading
<1>9. /\ NotStarted.pc = NONE /\ NotStarted.char = NoChar
      /\ Idle.pc = "recv" /\ Idle.char = NoChar
  BY DEF NotStarted, Idle
<1>10. driver'[d] = Idle /\ \A e \in Device \ {d} : driver'[e] = driver[e]
  BY <1>1, <1>6, OneDriver
<1>11. Hardware' /\ \A e \in Device : dev'[e] = dev[e]
  BY <1>3, NoDevice
<1>12. n = NbDevices' /\ booted' >= 2 * n /\ ~(booted' < 2 * n) /\ ~(booted < 2 * n)
  BY <1>1, <1>2, <1>3 DEF NbDevices
<1>13. \A e \in Device : ~Booting(e) /\ ~Booting(e)'
  BY <1>12, <1>2 DEF Booting
<1>14. ASSUME NEW e \in Device PROVE Phase(e)'
  <2>1. CASE e = d
    <3>1. ~dev[d].half
      BY <1>8, <1>9, <1>13 DEF RingsInv, Phase, NONE
    <3> QED BY <3>1, <2>1, <1>9, <1>10, <1>11, <1>12, <1>13 DEF Phase
  <2>2. CASE e # d
    <3>1. driver'[e] = driver[e] /\ dev'[e] = dev[e]
      BY <2>2, <1>10, <1>11
    <3> QED BY <3>1, <1>12, <1>13 DEF RingsInv, Phase
  <2> QED BY <2>1, <2>2
<1>15. ASSUME NEW e \in Device
       PROVE  /\ driver'[e].pc = "advance" <=> driver[e].pc = "advance"
              /\ driver'[e].char = driver[e].char
  <2>1. CASE e = d
    BY <2>1, <1>8, <1>9, <1>10 DEF NONE
  <2>2. CASE e # d
    BY <2>2, <1>10
  <2> QED BY <2>1, <2>2
<1>16. UNCHANGED Queues!qvars
  BY <1>11, <1>15, Same
<1> QED BY <1>11, <1>14, <1>16 DEF RingsInv

\* Steps of the others.
LEMMA OthersQueues ==
    ASSUME RingsInv, UNCHANGED <<dev, driver, booted>>, next' = next \/ next' = next + 1,
           rx' \in [Device -> Seq(Nat)]
    PROVE  RingsInv' /\ UNCHANGED Queues!qvars
<1>1. Hardware'
  BY DEF RingsInv, Hardware
<1>2. ASSUME NEW d \in Device PROVE Phase(d)'
  BY DEF RingsInv, Phase, Booting
<1>3. UNCHANGED Queues!qvars
  BY Same
<1> QED BY <1>1, <1>2, <1>3 DEF RingsInv

\* Every step keeps the invariant and is one of the queues or not seen.
LEMMA QueuesStep ==
    RingsInv /\ OnceInv /\ [Next]_vars => RingsInv' /\ [Queues!Next]_Queues!qvars
<1> SUFFICES ASSUME RingsInv, OnceInv, [Next]_vars
             PROVE  RingsInv' /\ [Queues!Next]_Queues!qvars
  OBVIOUS
<1>0. rx \in [Device -> Seq(Nat)] /\ next \in Nat
  BY DEF RingsInv, Hardware
<1>1. ASSUME NEW d \in Device, Arrive(d) PROVE RingsInv' /\ UNCHANGED Queues!qvars
  <2>1. rx' \in [Device -> Seq(Nat)]
    BY <1>0, <1>1 DEF Arrive
  <2> QED BY <2>1, <1>1, OthersQueues DEF Arrive
<1>2. ASSUME NEW c \in Client, ClientCall(c) PROVE RingsInv' /\ UNCHANGED Queues!qvars
  BY <1>0, <1>2, OthersQueues DEF ClientCall
<1>3. ASSUME Open \/ Close \/ Unknown PROVE RingsInv' /\ UNCHANGED Queues!qvars
  BY <1>0, <1>3, OthersQueues DEF Open, Close, Unknown
<1>4. CASE UNCHANGED vars
  BY <1>0, <1>4, OthersQueues DEF vars
<1>5. ASSUME NEW d \in Device, DriverStep(d)
      PROVE  /\ RingsInv'
             /\ \/ Queues!Input \/ UNCHANGED Queues!qvars
                \/ Queues!Take(d) \/ Queues!HandOver(d) \/ Queues!Open(d) \/ Queues!Reset(d)
  BY <1>5, ReceiveQueues, InitEndsQueues, ReadCopiesQueues, ReadAdvancesQueues, EndsQueues,
     WriteSendsQueues DEF DriverStep
<1>6. CASE Next
  <2>1. CASE Interrupt
    BY <2>1, InterruptComes DEF Queues!Next
  <2>2. CASE IOThread
    BY <2>2, <1>3, BootQueues, LoadQueues DEF IOThread, Queues!Next
  <2>3. CASE \E d \in Device : Arrive(d) \/ DriverStep(d)
    BY <2>3, <1>1, <1>5 DEF Queues!Next
  <2> QED BY <2>1, <2>2, <2>3, <1>2, <1>6 DEF Next
<1> QED BY <1>4, <1>6

\* Queues are empty at first.
LEMMA QueuesInit == Init => RingsInv /\ Queues!Init
<1> SUFFICES ASSUME Init PROVE RingsInv /\ Queues!Init
  OBVIOUS
<1>1. dev = [d \in Device |-> NewDevice] /\ driver = [d \in Device |-> NotStarted] /\ booted = 0
      /\ rx = [d \in Device |-> << >>] /\ next = 1
  BY DEF Init
<1>2. \A d \in Device : dev[d] = NewDevice /\ driver[d] = NotStarted
  BY <1>1
<1>3. NotStarted.pc = NONE /\ NotStarted.char = NoChar
  BY DEF NotStarted
<1>4. Hardware
  BY <1>1, <1>2, NewIsEmpty DEF Hardware
<1>5. \A d \in Device : ~Booting(d)
  BY <1>1 DEF Booting
<1>6. ASSUME NEW d \in Device PROVE Phase(d)
  BY <1>2, <1>3, <1>5, NewIsEmpty DEF Phase, NONE
<1>7. \A d \in Device : /\ (dev[d].init /\ ~dev[d].half) = FALSE
                        /\ Waiting(d, dev[d]) = << >>
                        /\ driver[d].char = NoChar /\ driver[d].pc # "advance"
  BY <1>2, <1>3, NewIsEmpty DEF NONE
<1>8. [d \in Device |-> dev[d].init /\ ~dev[d].half] = [d \in Device |-> FALSE]
  BY <1>7
<1>9. [d \in Device |-> IF driver[d].pc = "advance" THEN Tail(Waiting(d, dev[d]))
                        ELSE Waiting(d, dev[d])] = [d \in Device |-> << >>]
  BY <1>7
<1>10. [d \in Device |-> driver[d].char] = [d \in Device |-> Queues!NoChar]
  BY <1>7 DEF NoChar, Queues!NoChar
<1>11. Queues!Init
  BY <1>8, <1>9, <1>10 DEF Queues!Init
<1> QED BY <1>4, <1>6, <1>11 DEF RingsInv

\* The rings of all drivers, with their readers and writers and the interrupt
\* handlers that come in between any two steps, initialisations and closes
\* included, are queues: for rings of any size, any input and any clients,
\* characters are read in the order in which they came, none of them twice, and
\* none that is in a ring is lost unless the device is initialised or closed.
THEOREM DevicesAreQueues == Spec => ImplementsQueues
<1>1. Init => Queues!Init /\ RingsInv /\ OnceInv
  BY QueuesInit, OnceInit
<1>2. RingsInv /\ OnceInv /\ [Next]_vars => RingsInv' /\ OnceInv' /\ [Queues!Next]_Queues!qvars
  BY QueuesStep, OnceStep
<1> QED BY <1>1, <1>2, PTL DEF Spec, ImplementsQueues, Queues!Spec
=============================================================================
