------------------------------ MODULE MCIOServer ------------------------------
(* IOServer with rings of three characters and addresses of six bits.         *)
EXTENDS IOServer

MCOrder == <<"ttya", "ttyb", "fpga", "loopback">>
\* One client transfers, the other one opens, initialises and closes.
MCAsks == [c1 |-> {"IO_READ", "IO_WRITE"},
           c2 |-> {"IO_OPEN", "IO_INIT", "IO_CLOSE", "IO_DRIVERCLOSE", "UNKNOWN"}]
MCUsed  == {{"ttya", "ttyb"}, {"fpga"}, {"loopback"}}
MCTransfers == {<<32, 2>>, <<63, 1>>}
=============================================================================
