----------------------------- MODULE InputQueues -----------------------------
(***************************************************************************)
(* What a device promises to those who read from it: characters come out   *)
(* in the order in which they went in, each of them once at most, and none *)
(* that is in gets lost unless the device is initialised or closed.        *)
(***************************************************************************)
EXTENDS Integers, Sequences

CONSTANTS
    Device,
    Room            \* Room[d]: how many characters device d can hold

NoChar == 0

VARIABLES
    ready,          \* which devices are open and initialised
    queue,          \* what has been put into each device and not taken
    handed          \* the character that is being handed to a reader

qvars == <<ready, queue, handed>>

\* Some characters come in, for several devices at once perhaps.
Input ==
    /\ \A d \in Device :
          /\ Len(queue'[d]) \in Len(queue[d]) .. Room[d]
          /\ SubSeq(queue'[d], 1, Len(queue[d])) = queue[d]
    /\ UNCHANGED <<ready, handed>>

Take(d) ==
    /\ ready[d]
    /\ handed[d] = NoChar
    /\ queue[d] # << >>
    /\ queue' = [queue EXCEPT ![d] = Tail(@)]
    /\ handed' = [handed EXCEPT ![d] = Head(queue[d])]
    /\ UNCHANGED ready

HandOver(d) ==
    /\ handed[d] # NoChar
    /\ handed' = [handed EXCEPT ![d] = NoChar]
    /\ UNCHANGED <<ready, queue>>

Open(d) ==
    /\ ready' = [ready EXCEPT ![d] = TRUE]
    /\ UNCHANGED <<queue, handed>>

\* What waits is forgotten.
Reset(d) ==
    /\ handed[d] = NoChar
    /\ ready' = [ready EXCEPT ![d] = FALSE]
    /\ queue' = [queue EXCEPT ![d] = << >>]
    /\ UNCHANGED handed

Init ==
    /\ ready = [d \in Device |-> FALSE]
    /\ queue = [d \in Device |-> << >>]
    /\ handed = [d \in Device |-> NoChar]

Next == Input \/ \E d \in Device : Take(d) \/ HandOver(d) \/ Open(d) \/ Reset(d)

Spec == Init /\ [][Next]_qvars
=============================================================================
