------------------------------- MODULE Drivers -------------------------------
(***************************************************************************)
(* The device drivers of Topsy that keep characters (IO/Drivers): two      *)
(* channels of a serial chip, the FPGA card and the loopback device.  A    *)
(* device is a record                                                      *)
(*   init      isInitialised: it has a buffer and a descriptor             *)
(*   on        its hardware has been told to receive and to interrupt      *)
(*   half      its initialisation has set in, but not out                  *)
(*   in, out   indices into buffer, a ring of BUFSIZE characters           *)
(*   count     used by the loopback device instead of comparing indices    *)
(* An operator takes a device and returns it changed.  A cell of a ring    *)
(* that no character is waiting in is NoChar here, whatever the code has   *)
(* left there.                                                             *)
(***************************************************************************)
EXTENDS Integers, Sequences, FiniteSets

CONSTANT BUFSIZE

ASSUME DriversAssumption == BUFSIZE \in Nat /\ BUFSIZE > 1

Device == {"ttya", "ttyb", "fpga", "loopback"}
Serial == {"ttya", "ttyb"}

NoChar == 0

Ring == 0 .. BUFSIZE - 1
Next1(i) == (i + 1) % BUFSIZE

\* ioDeviceTable
NewDevice == [init |-> FALSE, on |-> FALSE, half |-> FALSE, in |-> 0, out |-> 0,
              count |-> 0, buffer |-> [i \in Ring |-> NoChar]]

\* Wrong: the test forgets that a ring wraps around.
IsFullUnwrapped(d, v) ==
    IF d = "loopback" THEN v.count = BUFSIZE ELSE v.in + 1 = v.out

\* The readers' test for an empty ring, and those of the interrupt handlers and
\* the loopback device for a full one.
IsEmpty(d, v) == IF d = "loopback" THEN v.count = 0 ELSE v.in = v.out
IsFull(d, v) == IF d = "loopback" THEN v.count = BUFSIZE ELSE Next1(v.in) = v.out

\* A character goes into the ring: both interrupt handlers, devLoopback_write.
Store(d, v, c) ==
    [v EXCEPT !.buffer[v.in] = c,
              !.in = Next1(v.in),
              !.count = IF d = "loopback" THEN @ + 1 ELSE @]

\* One round of a reader's loop after it has copied a character.
Advance(d, v) ==
    [v EXCEPT !.buffer[v.out] = NoChar,
              !.out = Next1(v.out),
              !.count = IF d = "loopback" THEN @ - 1 ELSE @]

-----------------------------------------------------------------------------
(* Initialisation.  The interrupt handler may run between its two halves,  *)
(* save that of the loopback device, which has none.                       *)

InitIn(v) == [v EXCEPT !.init = TRUE, !.on = TRUE, !.half = TRUE, !.in = 0,
                       !.count = 0, !.buffer = [i \in Ring |-> NoChar]]

InitOut(v) == [v EXCEPT !.half = FALSE, !.out = 0]

\* The memory goes back to the heap; the card is not told.
devFPGA_close(v) == [NewDevice EXCEPT !.on = v.on]

-----------------------------------------------------------------------------
(* Interrupt handlers: [dev, rx] after the handler, where rx[d] are the    *)
(* characters that wait in the hardware of d.                              *)

Received(s, d) ==
    [dev |-> [s.dev EXCEPT ![d] = Store(d, @, Head(s.rx[d]))],
     rx  |-> [s.rx EXCEPT ![d] = Tail(@)]]

\* One channel: the character stays in the chip if there is no room for it.
CanReceive(s, d) == s.rx[d] # << >> /\ ~IsFull(d, s.dev[d])

\* An overflow of channel A ends the handler before it looks at channel B.
devSCN2681_interruptHandler(s) ==
    LET afterA == IF CanReceive(s, "ttya") THEN Received(s, "ttya") ELSE s
    IN  IF s.rx["ttya"] # << >> /\ ~CanReceive(s, "ttya") THEN s
        ELSE IF CanReceive(afterA, "ttyb") THEN Received(afterA, "ttyb")
        ELSE afterA

\* All that the card has; what does not fit is read and lost.
devFPGA_interruptHandler(s) ==
    LET from[r \in 0 .. Len(s.rx["fpga"])] ==
            IF r = 0 THEN s
            ELSE LET before == from[r - 1]
                 IN  IF IsFull("fpga", before.dev["fpga"])
                     THEN [before EXCEPT !.rx["fpga"] = Tail(@)]
                     ELSE Received(before, "fpga")
    IN  from[Len(s.rx["fpga"])]

-----------------------------------------------------------------------------
\* What is in the ring, oldest character first: from out to in, or, in the
\* middle of an initialisation, from where out is going to be.
Waiting(d, v) ==
    LET from == IF v.half THEN 0 ELSE v.out
        n == IF d = "loopback" THEN v.count ELSE (v.in - from + BUFSIZE) % BUFSIZE
    IN  [k \in 1 .. n |-> v.buffer[(from + k - 1) % BUFSIZE]]
=============================================================================
