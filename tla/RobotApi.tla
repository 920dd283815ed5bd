------------------------------- MODULE RobotApi -------------------------------
(***************************************************************************)
(* Programs that call the free functions of DSR_ROBOT2.py, and what they   *)
(* may rely on.  A program is any interleaving of calls of the families it *)
(* uses; the controller answers, refuses, is not up yet, or goes down.     *)
(***************************************************************************)
EXTENDS ApiInOut

Uses(family) == family \in Families

Caller(t) ==
  /\ ~Busy(t)
  /\ \/ Uses("speeds") /\ SpeedDefaults(t)
     \/ Uses("coord") /\ set_ref_coord(t)
     \/ Uses("system") /\ System(t)
     \/ Uses("questions") /\ Questions(t)
     \/ Uses("streams") /\ Streams(t)
     \/ Uses("realtime") /\ Realtime(t)
     \/ Uses("motions") /\ Motions(t)
     \/ Uses("controls") /\ Controls(t)
     \/ Uses("coordinates") /\ Coordinates(t)
     \/ Uses("inout") /\ InOut(t)
     \/ Uses("analog") /\ Analog(t)
     \/ Uses("program") /\ Program(t)

Next == (\E t \in Threads : Caller(t) \/ Service(t) \/ Collide(t))
        \/ ComeUp \/ GoDown

Spec == InitCall /\ [][Next]_apiVars

(* The controller is started in the end and its handlers return; a thread  *)
(* that can go on does.  Nothing makes a program call, or two spins        *)
(* collide.                                                                *)
Fairness ==
  /\ WF_apiVars(ComeUp)
  /\ \A t \in Threads : WF_apiVars(Service(t))
FairSpec == Spec /\ Fairness

-----------------------------------------------------------------------------
(* Every variable has its type: speeds are pairs, the reference is one the *)
(* checks let through, a call is idle or a request in one of its phases.   *)
JointMotions ==
  {"movej", "movesj", "servoj", "servoj_rt", "speedj", "speedj_rt"}
TaskMotions ==
  {"movejx", "movel", "movec", "movesx", "moveb", "move_spiral", "servol",
   "servol_rt", "speedl", "speedl_rt"}
Requests ==
  [kind : {"plain"}] \cup [kind : {"coord"}, value : {r \in Int : IsRef(r)}]
  \cup [kind : {"mode"}, channel : 1 .. 2, value : Modes]
  \cup [kind : {"analog"}, channel : 1 .. 2, value : Int]
  \cup [kind : {"motion"}, fn : JointMotions \cup TaskMotions,
        pos : {"joint", "task"}, vel : Int \X Int, acc : Int \X Int, time : Int]
  \cup [kind : {"alter"}, fn : {"alter_motion", "alter_motion_stream"},
        pos : {"joint", "task"}]
Calls == {Idle} \cup [phase : Phases, req : Requests, single : BOOLEAN]
AnalogModes == [1 .. 2 -> Modes \cup {0 - 1}]

TypeOK ==
  /\ alive \in BOOLEAN
  /\ velj \in Int \X Int /\ accj \in Int \X Int
  /\ velx \in Int \X Int /\ accx \in Int \X Int
  /\ coord \in Int /\ IsRef(coord)
  /\ aomode \in AnalogModes
  /\ call \in [Threads -> Calls] /\ attached \in BOOLEAN
  /\ up \in BOOLEAN /\ restarts \in 0 .. MaxRestarts
  /\ devCoord \in Int /\ devMode \in AnalogModes
  /\ unsure \subseteq Settings

(* The Python module remembers the reference coordinate, which it gives as *)
(* default to later calls.  It agrees with the controller's as long as the *)
(* last set_ref_coord was granted, overlapped no other and no restart came *)
(* after it.                                                               *)
Asking(setting) ==
  \E t \in Threads : Busy(t) /\ setting \in Setting(call[t].req)

CoordTracks == "coord" \notin unsure /\ ~Asking("coord") => coord = devCoord

(* The same for the modes of the analog outputs, against which             *)
(* set_analog_output checks its value.                                     *)
ModeTracks == \A ch \in 1 .. 2 :
  ChannelName[ch] \notin unsure /\ ~Asking(ChannelName[ch])
    => aomode[ch] = devMode[ch]

(* What an untimed motion goes out with, in the message it goes out in:    *)
(* - a task motion has a first speed and a first acceleration above zero,  *)
(*   and a second one above zero or left to the robot;                     *)
(* - a motion that carries a list as joint motions do has none below zero  *)
(*   and one above; speedj may go backward, but does not stand still;      *)
(* - of movej and movejx, which check a list and send its first entry,     *)
(*   only that this is not negative: it may be zero.                       *)
(* The defaults may have changed in any way before.  Only moveb goes out   *)
(* with a time that is negative, and then without a look at its speeds.    *)
OfOneNumber == {"movej", "movejx"}
OfList      == (JointMotions \ OfOneNumber) \cup {"move_spiral"}
Backward    == {"speedj", "speedj_rt"}

Some(v, bound)   == v[1] > bound \/ v[2] > bound
NonNeg(v)        == ~(v[1] < 0 \/ v[2] < 0)
Fast(fn, v) ==
  IF fn \in OfOneNumber THEN NonNeg(v)
  ELSE IF fn \in OfList THEN NonNeg(v) /\ Some(v, 0)
  ELSE v[1] > 0 /\ (v[2] > 0 \/ v[2] = Unset)

Usable(m) ==
  /\ m.time >= 0 \/ m.time = Unset \/ m.fn = "moveb"
  /\ m.time \in {0, Unset} =>
       /\ \/ Fast(m.fn, m.vel)
          \/ m.fn \in Backward /\ (m.vel[1] # 0 \/ m.vel[2] # 0)
       /\ Fast(m.fn, m.acc)
Moving(t) == Busy(t) /\ call[t].req.kind = "motion"

MotionUsable == \A t \in Threads : Moving(t) => Usable(call[t].req)

(* A message that moves the robot or alters a motion carries six numbers   *)
(* and no word of what they are.  Those of a posx never go out where the   *)
(* robot takes them for joint angles, and those of a posj never where it   *)
(* takes them for a pose, except in movel, movec and alter_motion, whose   *)
(* checks let a posj through.                                              *)
Matched(m) == \/ m.pos = (IF m.fn \in JointMotions THEN "joint" ELSE "task")
              \/ m.fn \in {"movel", "movec", "alter_motion"}
Carrying(t) == Busy(t) /\ call[t].req.kind \in {"motion", "alter"}

NumbersMatch == \A t \in Threads : Carrying(t) => Matched(call[t].req)

(* A value that the controller takes for an analog output fits the mode    *)
(* the output is in there, when the last change of the mode was granted    *)
(* and no thread asked for another while the value was on its way.         *)
OutputFitsMode ==
  [][\A t \in Threads :
       /\ In(t, {"sent"}) /\ In(t, {"granted"})'
       /\ call[t].req.kind = "analog" /\ call[t].single
       /\ ChannelName[call[t].req.channel] \notin unsure
       => InRange(devMode[call[t].req.channel], call[t].req.value)]_apiVars

(* A thread that waits while the node is out of the executor: another took *)
(* it out on its return, and no answer reaches this one.                   *)
Stranded(t) == In(t, Waiting) /\ ~attached

(* A call returns, unless it is lost, for good as long as the context is   *)
(* up, or the return of another thread leaves it stranded.                 *)
CallReturns ==
  \A t \in Threads :
    Busy(t) ~> (~Busy(t) \/ call[t].phase = "lost" \/ Stranded(t))

(* Not all threads are ever stranded: the one that began to wait last put  *)
(* the node in, and whoever took it out has returned.  A program that      *)
(* calls from one thread never is.                                         *)
NotAllStranded ==
  \A t \in Threads : Stranded(t) => \E u \in Threads : ~In(u, Waiting)

(* One DR_Error in one thread releases every call of every other, even one *)
(* that is lost.                                                           *)
ErrorFreesAll == \A t \in Threads : (~alive /\ Busy(t)) ~> ~Busy(t)

=============================================================================
