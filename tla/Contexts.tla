------------------------------- MODULE Contexts -------------------------------
(***************************************************************************)
(* The processor's registers and the contexts they are saved in:           *)
(* Threads/mips/TMHalAsm.S, TMHal.c, TMClock.c and the context that        *)
(* threadBuild (TMThread.c) prepares.                                      *)
(*                                                                         *)
(* Of the registers the model keeps those that the code treats in ways of  *)
(* their own: the program counter, the first argument register, the return *)
(* value, the interrupt enable bits of the status register, and two that   *)
(* stand for all the others (a program keeps its variables in them).  A    *)
(* program counter is a block of code and an index into it.                *)
(*                                                                         *)
(* k is the record of the kernel's view of the user threads: cpu, running  *)
(* and context are the fields used here.                                   *)
(***************************************************************************)
EXTENDS Naturals

CONSTANT NULL

Register == [pc |-> <<"tmIdleMain", 1>>, a0 |-> NULL, v0 |-> "OK",
             x |-> NULL, y |-> NULL, sr |-> TRUE]

\* What a context holds is of no interest while its thread runs or is gone.
Dead == Register

Following(pc) == <<pc[1], pc[2] + 1>>

-----------------------------------------------------------------------------
(* Entering and leaving the kernel *)

\* The first instructions of generalExceptionHandler and UTLBMissHandler put
\* the registers aside that they are about to use.
exceptionContext(cpu) == [a0 |-> cpu.a0, pc |-> cpu.pc]

\* a0 becomes the address of the context, and the code is the handler's.
InHandler(cpu) == [cpu EXCEPT !.a0 = <<"context">>,
                              !.pc = <<"generalExceptionHandler", 1>>]

\* Wrong: a0 and pc saved like the others.
saveContextOfHandler(cpu, put) == cpu

saveContext(cpu, put) == [cpu EXCEPT !.a0 = put.a0, !.pc = put.pc]

generalExceptionHandler(k) ==
    [k EXCEPT !.context[k.running] =
                  saveContext(InHandler(k.cpu), exceptionContext(k.cpu)),
              !.cpu = InHandler(k.cpu)]

\* It does the same for accesses to unmapped user pages, at a vector of its own.
UTLBMissHandler(k) == generalExceptionHandler(k)

\* The saved program counter still points to the system call.
syscallExceptionHandler(k) ==
    LET s == generalExceptionHandler(k)
    IN  [s EXCEPT !.context[k.running].pc = Following(@)]

\* Every handler ends here, with whatever thread schedule() chose.
restoreContext(k, next) ==
    [k EXCEPT !.running = next,
              !.cpu = k.context[next],
              !.context[next] = Dead]

-----------------------------------------------------------------------------
(* Contexts of threads that do not run *)

tmSetReturnValue(k, t, value) ==
    [k EXCEPT !.context = [u \in DOMAIN @ |-> IF u = t THEN [@[u] EXCEPT !.v0 = value]
                                                       ELSE @[u]]]

enableAllInterruptsInContext(context) == [context EXCEPT !.sr = TRUE]

\* tmSetProgramCounter, tmSetArgument0, tmSetStatusRegister and the others, in
\* the context of a new thread
InitialContext(mainFunction, parameter) ==
    [Register EXCEPT !.pc = <<mainFunction, 1>>, !.a0 = parameter, !.sr = FALSE]

\* Wrong: a new thread runs with interrupts off.
NewContextMasked(mainFunction, parameter) == InitialContext(mainFunction, parameter)

\* threadBuild.  The return address is the code of automaticThreadExit that it
\* copies onto the stack: a program that runs past its end executes tmExit.
NewContext(mainFunction, parameter) ==
    enableAllInterruptsInContext(InitialContext(mainFunction, parameter))

-----------------------------------------------------------------------------
(* The clock *)

\* setClockValue: in mode RATEGENERATOR the clock interrupts for ever, in mode
\* SWTRIGGER once.
setClockValue(mode) ==
    [armed |-> TRUE, periodic |-> mode = "RATEGENERATOR", raised |-> FALSE]

Tick(clock) == [clock EXCEPT !.armed = clock.periodic, !.raised = TRUE]

tmResetClockInterrupt(clock) == [clock EXCEPT !.raised = FALSE]
=============================================================================
