----------------------------- MODULE ApiStreams -----------------------------
(***************************************************************************)
(* DSR_ROBOT2.py, L433-L464 and L1420-L1970: the checks on speeds that all *)
(* motions share, and the functions that publish a motion on a topic.      *)
(***************************************************************************)
EXTENDS ApiQueries

SpeedArgs == Speeds \cup {None, Junk}
TimeArgs  == Ints \cup {None, Junk}

(* An untimed motion (time 0 or not set) needs speeds.  A joint speed is   *)
(* usable when any entry is not zero; a task speed when the first is       *)
(* positive and the second positive or not set.                            *)
Time(s)  == OrElse(s, 0)
Timed(s) == Time(s) \notin {0, Unset}

SomeNonZero(v)  == v[1] # 0 \/ v[2] # 0
NonNegative(v)  == v[1] >= 0 /\ v[2] >= 0
(* Mutant: a speed or an acceleration is enough.                           *)
CheckEitherJoint(v, a, s, rest) ==
  Check(Timed(s) \/ SomeNonZero(v) \/ SomeNonZero(a), "VALUE", rest)

CheckUsableJoint(v, a, s, rest) ==
  Check(Timed(s) \/ (SomeNonZero(v) /\ SomeNonZero(a)), "VALUE", rest)
CheckUsableTask(v, a, s, rest) ==
  Check(Timed(s) \/ (FirstPositive(v) /\ FirstPositive(a)), "VALUE", rest)

CheckTime(s, rest) ==
  CheckInt(Time(s), Check(Time(s) >= 0 \/ Time(s) = Unset, "VALUE", rest))

(* A speed argument, or the default it falls back to.                      *)
CheckSpeed(arg, default, rest) ==
  Check(arg # Junk, "TYPE",
        Check(NonNegative(OrElse(arg, default)), "VALUE", rest))

(* A speed that must be given.                                             *)
CheckGiven(arg, rest) ==
  Check(arg # None, "VALUE", Check(arg # Junk, "TYPE", rest))

JointSpeeds(v, a, s, rest) ==
  CheckSpeed(v, velj, CheckSpeed(a, accj, CheckTime(s, rest)))

(* What the numbers of a position are: an object tells, a list is taken    *)
(* for what the function expects.                                          *)
NumbersOf(p, listed) == CASE p = "posj" -> "joint"
                          [] p = "posx" -> "task"
                          [] OTHER -> listed

Message(fn, numbers, v, a, s) == Publish(Motion(fn, numbers, v, a, s))

alter_motion_stream(t) == \E p \in Positions :
  Begin(t, CheckPosx(p, Filled(p,
           Publish(Alteration("alter_motion_stream", NumbersOf(p, "task"))))))

servoj(t) ==
  \E p \in Positions, v, a \in SpeedArgs, s \in TimeArgs, mode \in IntArgs :
    LET vel == OrElse(v, velj)
        acc == OrElse(a, accj)
    IN
    Begin(t, CheckPosj(p, JointSpeeds(v, a, s, CheckIn(mode, {0, 1},
             CheckUsableJoint(vel, acc, s, Filled(p,
             Message("servoj", NumbersOf(p, "joint"), vel, acc, Time(s))))))))

(* The default of servol is the one set_velx leaves: with its second entry *)
(* not set (Unset is negative) it is never accepted.                       *)
servol(t) == \E p \in Positions, v, a \in SpeedArgs, s \in TimeArgs :
  LET vel == OrElse(v, velx)
      acc == OrElse(a, accx)
  IN
  Begin(t, CheckPosx(p, CheckSpeed(v, velx, CheckSpeed(a, accx, CheckTime(s,
           CheckUsableTask(vel, acc, s, Filled(p,
           Message("servol", NumbersOf(p, "task"), vel, acc, Time(s)))))))))

(* A speed may be negative; an untimed one passes the same check, so that  *)
(* speedl only ever goes in the positive direction.                        *)
speedj(t) == \E v, a \in SpeedArgs, s \in TimeArgs :
  Begin(t, CheckGiven(v, CheckGiven(a, Check(NonNegative(a), "VALUE",
           CheckTime(s, CheckUsableJoint(v, a, s,
           Message("speedj", "joint", v, a, Time(s))))))))

speedl(t) == \E v, a \in SpeedArgs, s \in TimeArgs :
  Begin(t, CheckGiven(v, CheckGiven(a, Check(NonNegative(a), "VALUE",
           CheckTime(s, CheckUsableTask(v, a, s,
           Message("speedl", "task", v, a, Time(s))))))))

servoj_rt(t) == \E p \in Positions, v, a \in SpeedArgs, s \in TimeArgs :
  LET vel == OrElse(v, velj)
      acc == OrElse(a, accj)
  IN
  Begin(t, CheckPosj(p, JointSpeeds(v, a, s, CheckUsableJoint(vel, acc, s,
           Filled(p, Message("servoj_rt", NumbersOf(p, "joint"), vel, acc,
                             Time(s)))))))

servol_rt(t) == \E p \in Positions, v, a \in SpeedArgs, s \in TimeArgs :
  LET vel == OrElse(v, <<Unset, Unset>>)
      acc == OrElse(a, <<Unset, Unset>>)
  IN
  Begin(t, CheckPosx(p, Check(s # None, "VALUE", CheckTime(s,
           Check(v # Junk, "TYPE", Check(a # Junk, "TYPE",
           CheckUsableTask(vel, acc, s, Filled(p,
           Message("servol_rt", NumbersOf(p, "task"), vel, acc, Time(s))))))))))

speedj_rt(t) == \E v, a \in Speeds \cup {Junk}, s \in TimeArgs :
  Begin(t, Check(v # Junk, "TYPE", Check(a # Junk, "TYPE",
           Check(NonNegative(a), "VALUE", CheckTime(s,
           CheckUsableJoint(v, a, s,
           Message("speedj_rt", "joint", v, a, Time(s))))))))

speedl_rt(t) == \E v \in Speeds \cup {Junk}, a \in SpeedArgs, s \in TimeArgs :
  LET acc == OrElse(a, <<Unset, Unset>>) IN
  Begin(t, Check(v # Junk, "TYPE", Check(a # Junk, "TYPE",
           Check(a = None \/ NonNegative(acc), "VALUE", CheckTime(s,
           CheckUsableTask(v, acc, s,
           Message("speedl_rt", "task", v, acc, Time(s))))))))

torque_rt(t) == \E tor \in Speeds \cup {Junk}, s \in TimeArgs :
  Begin(t, Check(tor # Junk, "TYPE", CheckTime(s, Publish(Plain))))

Streams(t) ==
  \/ alter_motion_stream(t) \/ servoj(t) \/ servol(t) \/ speedj(t)
  \/ speedl(t) \/ servoj_rt(t) \/ servol_rt(t) \/ speedj_rt(t)
  \/ speedl_rt(t) \/ torque_rt(t)

-----------------------------------------------------------------------------
(* The services of the realtime interface, L2005-L2436: each looks for its *)
(* service and posts.  A list is six numbers, or Junk.                     *)
Lists == {"list", "other"}
CheckList(x, rest) == Check(x = "list", "TYPE", rest)
Named == {"name", Junk}
CheckName(x, rest) == Check(x # Junk, "TYPE", rest)

connect_rt_control(t) ==
  \E ip \in Named \cup {None}, port \in IntArgs \cup {None} :
  Begin(t, CheckName(ip, Check(port = None \/ port \in Int, "TYPE",
           FindAndPost(Plain))))
disconnect_rt_control(t) == Begin(t, FindAndPost(Plain))  \* and the versions
start_rt_control(t) == Begin(t, FindAndPost(Plain))       \* and stop
get_rt_control_data_list(t) == \E version \in Named :
  Begin(t, CheckName(version, FindAndPost(Plain)))
set_rt_control(t) == \E version, period \in Named, loss \in IntArgs :
  Begin(t, CheckName(version, CheckName(period, CheckInt(loss,
           FindAndPost(Plain)))))
set_joint_limits_rt(t) == \E x \in Lists :
  Begin(t, CheckList(x, FindAndPost(Plain)))
set_task_limits_rt(t) == \E x, r \in Named :
  Begin(t, CheckName(x, CheckName(r, FindAndPost(Plain))))
read_data_rt(t) == Begin(t, FindAndPost(Plain))
write_data_rt(t) == \E f, ai, ao \in Lists, i, o \in IntArgs :
  Begin(t, CheckList(f, CheckInt(i, CheckInt(o, CheckList(ai, CheckList(ao,
           FindAndPost(Plain)))))))

Realtime(t) ==
  \/ connect_rt_control(t) \/ disconnect_rt_control(t) \/ start_rt_control(t)
  \/ get_rt_control_data_list(t) \/ set_rt_control(t)
  \/ set_joint_limits_rt(t) \/ set_task_limits_rt(t) \/ read_data_rt(t)
  \/ write_data_rt(t)

=============================================================================
