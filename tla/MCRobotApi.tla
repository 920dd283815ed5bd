------------------------------ MODULE MCRobotApi ------------------------------
(* Instances of RobotApi for TLC.  The speeds: usable; with a first entry  *)
(* of zero, which joint speeds may have; negative; with the second entry   *)
(* not set, as a single number given to set_velx leaves it.                *)
EXTENDS RobotApi

MCSpeeds    == {<<1, 1>>, <<0, 1>>, <<0 - 1, 1>>, <<1, Unset>>}
MCFewSpeeds == {<<1, 1>>}
MCTimes     == {0 - 1, 0, 2}
MCFewTimes  == {0 - 1, 0}
MCRefs      == {BASE, TOOL, 3, 101}
MCFewRefs   == {TOOL, 3}
MCFewOutputs == {3, 11}

MCCalls   == {"speeds", "streams", "motions", "system", "questions",
              "realtime", "controls", "coordinates", "inout", "program"}
MCThreads == {"coord", "system", "analog"}
=============================================================================
