------------------------------ MODULE IOServer ------------------------------
(***************************************************************************)
(* The I/O thread (IO/IOMain.c), one thread for each device running        *)
(* ioDeviceMain (IO/IODevice.c) with the functions of its driver, clients  *)
(* that use the I/O calls of Topsy/Syscall.c, and the interrupts of the    *)
(* devices (mips/TMHal.c).                                                 *)
(*                                                                         *)
(* Interrupts are level triggered: while one is raised no thread executes  *)
(* an instruction, only its handler does.  Between two steps of threads    *)
(* characters may arrive.  Messages are delivered at once and in order;    *)
(* how they are lost or block a sender is the subject of TMIPC.            *)
(***************************************************************************)
EXTENDS Drivers

CONSTANTS
    IO, Client,         \* the I/O thread and threads of users
    TM, Nobody,         \* a thread that is no driver, and an id without a thread
    Order,              \* the devices in the order of ioDeviceTable
    Used,               \* the sets of devices that a run is about
    MaxInput,           \* how many characters arrive or are written in all
    WORD,               \* 2 to the width of an address
    UserStart, UserSize, \* mmAddressSpaceRange(USER)
    Asks,               \* Asks[c]: what client c may ask for
    Transfers           \* the buffers that clients pass: <<address, size>>

NONE == "none"

\* Every device is in the table once, and threads are told from each other.
ASSUME IOAssumption ==
    /\ Order \in Seq(Device)
    /\ \A d \in Device : \E i \in DOMAIN Order : Order[i] = d
    /\ \A i, j \in DOMAIN Order : Order[i] = Order[j] => i = j
    /\ {IO, TM, Nobody, NONE} \cap (Client \cup Device) = {}
    /\ TM # Nobody /\ Used \subseteq SUBSET Device
    /\ UserStart + UserSize <= WORD

ASSUME AddressAssumption ==
    /\ WORD \in Nat \ {0} /\ UserStart \in Nat /\ UserSize \in Nat
    /\ Transfers \subseteq (0 .. WORD - 1) \X (0 .. WORD - 1)

DUART == 5
FPGA_CARD == 4
InterruptOf == [d \in Device |-> IF d \in Serial THEN DUART
                                 ELSE IF d = "fpga" THEN FPGA_CARD ELSE -1]

VARIABLES
    dev,        \* the devices
    rx,         \* the characters that wait in the hardware of each device
    used,       \* the devices that clients and the outside use in this run
    next,       \* the next character: they are numbered
    loaded,     \* interrupts whose handler is the driver's
    booted,     \* how many steps of its boot the I/O thread has made
    driver,     \* what the thread of each device is doing
    mail,       \* the messages in the queue of each server
    call,       \* what each client waits for
    wild        \* a driver or a handler has used memory that was given back

vars == <<dev, rx, used, next, loaded, booted, driver, mail, call, wild>>

Msg(id, from) == [id |-> id, from |-> from, to |-> NONE, client |-> NONE,
                  buffer |-> 0, size |-> 0]

NotCalling == [op |-> NONE, to |-> NONE]
NotStarted == [pc |-> NONE, msg |-> Msg(NONE, NONE), i |-> 0, char |-> NoChar]
Idle == [NotStarted EXCEPT !.pc = "recv"]

Devs == [dev |-> dev, rx |-> rx]

-----------------------------------------------------------------------------
(* The hardware *)

Arrive(d) ==
    /\ ~wild
    /\ d \in used \ {"loopback"} /\ dev[d].on /\ next <= MaxInput
    /\ rx' = [rx EXCEPT ![d] = Append(@, next)]
    /\ next' = next + 1
    /\ UNCHANGED <<dev, used, loaded, booted, driver, mail, call, wild>>

Raised == {InterruptOf[d] : d \in {e \in Device : rx[e] # << >>}}

\* intDispatcher serves the highest of those that are raised.
Highest == CHOOSE l \in Raised : \A k \in Raised : k <= l

Handled(l) == IF l = DUART THEN devSCN2681_interruptHandler(Devs)
              ELSE devFPGA_interruptHandler(Devs)

\* The default handler leaves an interrupt raised.
Interrupt ==
    /\ Raised # {} /\ ~wild
    /\ IF Highest \notin loaded THEN UNCHANGED <<dev, rx, wild>>
       ELSE IF Highest = FPGA_CARD /\ ~dev["fpga"].init
       THEN wild' = TRUE /\ UNCHANGED <<dev, rx>>
       ELSE dev' = Handled(Highest).dev /\ rx' = Handled(Highest).rx /\ UNCHANGED wild
    /\ UNCHANGED <<used, next, loaded, booted, driver, mail, call>>

\* Its handler cannot make an interrupt go away: the machine does nothing else.
Storm ==
    /\ Raised # {}
    /\ Highest \notin loaded \/ (Highest = DUART /\ Handled(DUART) = Devs)

Runs == Raised = {} /\ ~wild

-----------------------------------------------------------------------------
(* Clients *)

Send(s, m) == mail' = [mail EXCEPT ![s] = Append(@, m)]

Started(d) == driver[d].pc # NONE

\* ioOpen, with a number that may not be in the table.
ioOpen(c) ==
    \E d \in used \cup {Nobody} :
        /\ "IO_OPEN" \in Asks[c]
        /\ Send(IO, [Msg("IO_OPEN", c) EXCEPT !.to = d])
        /\ call' = [call EXCEPT ![c] = [op |-> "IO_OPEN", to |-> IO]]

\* ioClose, with the id of a driver, of no thread or of any other.
ioClose(c) ==
    \E t \in {d \in used : Started(d)} \cup {TM, Nobody} :
        /\ "IO_CLOSE" \in Asks[c]
        /\ Send(IO, [Msg("IO_CLOSE", c) EXCEPT !.to = t])
        /\ call' = [call EXCEPT ![c] = [op |-> "IO_CLOSE", to |-> t]]

\* ioRead and ioWrite
Transfer(c) ==
    \E d \in used, op \in {"IO_READ", "IO_WRITE"} \cap Asks[c], t \in Transfers :
        /\ Started(d)
        /\ Send(d, [Msg(op, c) EXCEPT !.buffer = t[1], !.size = t[2]])
        /\ call' = [call EXCEPT ![c] = [op |-> op, to |-> d]]

\* ioInit, and requests that a driver does not take from a client.
Command(c) ==
    \E d \in used, op \in {"IO_INIT", "IO_DRIVERCLOSE", "UNKNOWN"} \cap Asks[c] :
        /\ Started(d)
        /\ Send(d, Msg(op, c))
        /\ call' = [call EXCEPT ![c] = [op |-> op, to |-> d]]

ClientCall(c) ==
    /\ Runs
    /\ call[c] = NotCalling
    /\ ioOpen(c) \/ ioClose(c) \/ Transfer(c) \/ Command(c)
    /\ UNCHANGED <<dev, rx, used, next, loaded, booted, driver, wild>>

\* The answer to c wakes it from its receive.
Answer(c) == call' = [call EXCEPT ![c] = NotCalling]

-----------------------------------------------------------------------------
(* The I/O thread *)

NbDevices == Len(Order)

\* ioMain: two steps of initialisation for every device, then ioLoadDriver for
\* every device.
Boot ==
    LET d == Order[(booted \div 2) + 1]
    IN  /\ Runs
        /\ booted < 2 * NbDevices
        /\ dev' = [dev EXCEPT ![d] = IF booted % 2 = 0 THEN InitIn(@) ELSE InitOut(@)]
        /\ booted' = booted + 1
        /\ UNCHANGED <<rx, used, next, loaded, driver, mail, call, wild>>

\* Only ttya and fpga have an interrupt handler in the table.
ioLoadDriver ==
    LET d == Order[booted - 2 * NbDevices + 1]
    IN  /\ Runs
        /\ booted \in 2 * NbDevices .. 3 * NbDevices - 1
        /\ loaded' = loaded \cup (IF d \in {"ttya", "fpga"} THEN {InterruptOf[d]} ELSE {})
        /\ driver' = [driver EXCEPT ![d] = Idle]
        /\ booted' = booted + 1
        /\ UNCHANGED <<dev, rx, used, next, mail, call, wild>>

Serves == Runs /\ booted = 3 * NbDevices /\ mail[IO] # << >>

\* IO_OPEN: the reply says whether the number is one of a device.
Open ==
    /\ Serves
    /\ Head(mail[IO]).id = "IO_OPEN"
    /\ Answer(Head(mail[IO]).from)
    /\ mail' = [mail EXCEPT ![IO] = Tail(@)]
    /\ UNCHANGED <<dev, rx, used, next, loaded, booted, driver, wild>>

\* What the close m becomes: it is forwarded to the thread that the client has
\* named.  One that is no driver answers the I/O thread instead of the client.
Forwarded(m) ==
    IF m.to \in Device
    THEN [mail EXCEPT ![IO] = Tail(@),
                      ![m.to] = Append(@, [Msg("IO_DRIVERCLOSE", IO) EXCEPT !.client = m.from])]
    ELSE [mail EXCEPT ![IO] = IF m.to = TM THEN Append(Tail(@), Msg("UNKNOWN_SYSCALL", TM))
                              ELSE Tail(@)]

\* Wrong: a close that cannot be forwarded is not answered.
CloseUnanswered ==
    /\ Serves
    /\ Head(mail[IO]).id = "IO_CLOSE"
    /\ mail' = Forwarded(Head(mail[IO]))
    /\ UNCHANGED <<dev, rx, used, next, loaded, booted, driver, wild, call>>

\* IO_CLOSE: the client is told if there is no thread to forward it to.
Close ==
    LET m == Head(mail[IO])
    IN  /\ Serves
        /\ m.id = "IO_CLOSE"
        /\ mail' = Forwarded(m)
        /\ IF m.to = Nobody THEN Answer(m.from) ELSE UNCHANGED call
        /\ UNCHANGED <<dev, rx, used, next, loaded, booted, driver, wild>>

Unknown ==
    /\ Serves
    /\ Head(mail[IO]).id = "UNKNOWN_SYSCALL"
    /\ mail' = [mail EXCEPT ![IO] = Tail(@)]
    /\ UNCHANGED <<dev, rx, used, next, loaded, booted, driver, wild, call>>

-----------------------------------------------------------------------------
(* The thread of a device *)

\* Wrong: the end of the buffer is not looked at.
ioCheckBufferStart(address, size) == address >= UserStart

\* Does the buffer lie in user space?  The sum wraps around.
ioCheckBufferAddress(address, size) ==
    /\ address >= UserStart
    /\ (address + size) % WORD <= (UserStart + UserSize) % WORD
    /\ WORD - 1 - address >= size

Goes(d, do) == driver' = [driver EXCEPT ![d] = do]
Changes(d, v) == dev' = [dev EXCEPT ![d] = v]

\* What the receive of ioDeviceMain leads to, and what is answered at once.
Receive(d) ==
    LET m == Head(mail[d])
        ok == ioCheckBufferAddress(m.buffer, m.size)
        at(pc) == [Idle EXCEPT !.pc = pc, !.msg = m]
    IN  /\ Runs
        /\ driver[d].pc = "recv"
        /\ mail[d] # << >>
        /\ mail' = [mail EXCEPT ![d] = Tail(@)]
        /\ \/ /\ m.id \in {"IO_READ", "IO_WRITE"} /\ ok
              /\ Goes(d, at(m.id))
              /\ UNCHANGED <<dev, call>>
           \/ /\ m.id \in {"IO_READ", "IO_WRITE"} /\ ~ok
              /\ Answer(m.from)
              /\ UNCHANGED <<dev, driver>>
           \/ /\ m.id = "IO_DRIVERCLOSE" /\ m.from = IO
              /\ IF d = "fpga" THEN Changes(d, devFPGA_close(dev[d])) ELSE UNCHANGED dev
              /\ Answer(m.client)
              /\ UNCHANGED driver
           \/ /\ m.id = "UNKNOWN" \/ (m.id = "IO_DRIVERCLOSE" /\ m.from # IO)
              /\ Answer(m.from)
              /\ UNCHANGED <<dev, driver>>
           \/ /\ m.id = "IO_INIT"
              /\ Changes(d, InitIn(dev[d]))
              /\ Goes(d, at("init"))
              /\ UNCHANGED call
        /\ UNCHANGED <<rx, used, next, loaded, booted, wild>>

InitEnds(d) ==
    /\ Runs
    /\ driver[d].pc = "init"
    /\ Changes(d, InitOut(dev[d]))
    /\ Goes(d, Idle)
    /\ Answer(driver[d].msg.from)
    /\ UNCHANGED <<rx, used, next, loaded, booted, mail, wild>>

\* A round of the loop of devSCN2681_read, devFPGA_read or devLoopback_read:
\* the character is copied, and then it leaves the ring.
ReadCopies(d) ==
    LET v == driver[d]
    IN  /\ Runs
        /\ v.pc = "IO_READ"
        /\ ~IsEmpty(d, dev[d]) /\ v.i < v.msg.size
        /\ dev[d].init
        /\ Goes(d, [v EXCEPT !.pc = "advance", !.i = @ + 1,
                             !.char = dev[d].buffer[dev[d].out]])
        /\ UNCHANGED <<dev, rx, used, next, loaded, booted, mail, call, wild>>

ReadAdvances(d) ==
    /\ Runs
    /\ driver[d].pc = "advance"
    /\ Changes(d, Advance(d, dev[d]))
    /\ Goes(d, [driver[d] EXCEPT !.pc = "IO_READ", !.char = NoChar])
    /\ UNCHANGED <<rx, used, next, loaded, booted, mail, call, wild>>

ReadEnds(d) ==
    LET v == driver[d]
    IN  /\ Runs
        /\ v.pc = "IO_READ"
        /\ IsEmpty(d, dev[d]) \/ v.i >= v.msg.size
        /\ dev[d].init
        /\ Goes(d, Idle)
        /\ Answer(v.msg.from)
        /\ UNCHANGED <<dev, rx, used, next, loaded, booted, mail, wild>>

\* The descriptor of the ring has been given back.
ReadAfterClose(d) ==
    /\ Runs
    /\ driver[d].pc = "IO_READ"
    /\ ~dev[d].init
    /\ wild' = TRUE
    /\ UNCHANGED <<dev, rx, used, next, loaded, booted, driver, mail, call>>

\* A round of devLoopback_write, or of one that waits until its hardware is
\* ready and sends a character to it.
WriteSends(d) ==
    LET v == driver[d]
        stores == d = "loopback" /\ next <= MaxInput
    IN  /\ Runs
        /\ v.pc = "IO_WRITE"
        /\ v.i < v.msg.size
        /\ d = "loopback" => ~IsFull(d, dev[d]) /\ stores
        /\ Goes(d, [v EXCEPT !.i = @ + 1])
        /\ dev' = IF stores THEN [dev EXCEPT ![d] = Store(d, @, next)] ELSE dev
        /\ next' = IF stores THEN next + 1 ELSE next
        /\ UNCHANGED <<rx, used, loaded, booted, mail, call, wild>>

WriteEnds(d) ==
    LET v == driver[d]
    IN  /\ Runs
        /\ v.pc = "IO_WRITE"
        /\ \/ v.i >= v.msg.size
           \/ d = "loopback" /\ (IsFull(d, dev[d]) \/ next > MaxInput)
        /\ Goes(d, Idle)
        /\ Answer(v.msg.from)
        /\ UNCHANGED <<dev, rx, used, next, loaded, booted, mail, wild>>

DriverStep(d) ==
    \/ Receive(d) \/ InitEnds(d)
    \/ ReadCopies(d) \/ ReadAdvances(d) \/ ReadEnds(d) \/ ReadAfterClose(d)
    \/ WriteSends(d) \/ WriteEnds(d)

-----------------------------------------------------------------------------
Init ==
    /\ dev = [d \in Device |-> NewDevice]
    /\ rx = [d \in Device |-> << >>]
    /\ used \in Used
    /\ next = 1
    /\ loaded = {}
    /\ booted = 0
    /\ driver = [d \in Device |-> NotStarted]
    /\ mail = [s \in Device \cup {IO} |-> << >>]
    /\ call = [c \in Client |-> NotCalling]
    /\ wild = FALSE

IOThread == Boot \/ ioLoadDriver \/ Open \/ Close \/ Unknown

Next ==
    \/ \E d \in Device : Arrive(d) \/ DriverStep(d)
    \/ \E c \in Client : ClientCall(c)
    \/ Interrupt \/ IOThread

Spec == Init /\ [][Next]_vars

\* The clock gives every thread its turn, and only so much input arrives.
Fairness ==
    /\ WF_vars(Interrupt) /\ WF_vars(IOThread)
    /\ \A d \in Device : WF_vars(DriverStep(d))

FairSpec == Spec /\ Fairness

-----------------------------------------------------------------------------
\* Every request is on its way exactly once until it is answered, unless it was
\* a close of a thread that is no driver: clients never wait for an answer that
\* nobody is going to send, and get no second one (ioMain, ioDeviceMain, which
\* answer a close on behalf of each other).
Copies(c) ==
    LET concerns(m) == m.from = c \/ m.client = c
        in(s) == {<<s, i>> : i \in {j \in DOMAIN mail[s] : concerns(mail[s][j])}}
    IN  (UNION {in(s) : s \in DOMAIN mail}) \cup
        {<<d, 0>> : d \in {e \in Device : driver[e] # Idle /\ concerns(driver[e].msg)}}

EachRequestOnce ==
    \A c \in Client :
        IF call[c] = NotCalling THEN Copies(c) = {}
        ELSE call[c].to # TM => Cardinality(Copies(c)) = 1

\* A driver copies no character from or to memory outside user space for a user
\* (ioCheckBufferAddress, whose sums wrap around).
BuffersInUserSpace ==
    \A d \in Device :
        LET v == driver[d]
        IN  v.pc \in {"IO_READ", "IO_WRITE"} /\ v.i < v.msg.size =>
                v.msg.buffer + v.i \in UserStart .. UserStart + UserSize - 1

\* The devices implement queues of bounded size.
Queues == INSTANCE InputQueues WITH
    Room   <- [d \in Device |-> IF d = "loopback" THEN BUFSIZE ELSE BUFSIZE - 1],
    ready  <- [d \in Device |-> dev[d].init /\ ~dev[d].half],
    queue  <- [d \in Device |-> IF driver[d].pc = "advance" THEN Tail(Waiting(d, dev[d]))
                                ELSE Waiting(d, dev[d])],
    handed <- [d \in Device |-> driver[d].char]

ImplementsQueues == Queues!Spec

\* Every call of a client is answered, save a close of a thread that is no
\* driver, as long as no interrupt handler has to give up and no memory is used
\* that was given back.
CallsAnswered ==
    \A c \in Client :
        call[c] # NotCalling /\ call[c].to # TM ~> call[c] = NotCalling \/ Storm \/ wild
=============================================================================
