--------------------------- MODULE MCUserPrograms ---------------------------
(* The sessions at the console that are checked. *)
EXTENDS UserPrograms

Command(do, program) == [do |-> do, program |-> program]
InForeground(program) == Command("start", program)
InBackground(program) == Command("background", program)
Kill == Command("kill", "none")
Ps == Command("ps", "none")
Exit == Command("exit", "none")

MCScripts ==
    { <<InBackground("Testback1"), InForeground("Testback1")>>,
      <<InBackground("Testback1"), InBackground("Testback1"), Kill>>,
      <<InBackground("Testback1"), Kill, Exit>>,
      <<InBackground("trap"), InBackground("trap"), InForeground("Hello")>>,
      <<InForeground("Start_Reservation")>>,
      <<InForeground("Demo"), Ps>>,
      <<InBackground("Demo"), InForeground("test_timer")>>,
      <<InForeground("crashMeMaster")>>,
      <<InBackground("crashMeMaster"), Kill>> }
=============================================================================
