--------------------------- MODULE RobotApiProofs ---------------------------
(***************************************************************************)
(* Proofs about RobotApi, for any number of threads and all values of the  *)
(* arguments.  First every function is shown to place only requests that   *)
(* passed their checks, then the steps of a call in progress are shown to  *)
(* keep what the Python module remembers in agreement with the controller. *)
(***************************************************************************)
EXTENDS RobotApi, TLAPS

(* What a function may ask: a request of a known form, a motion with       *)
(* speeds, six numbers of the kind its name stands for, an analog value    *)
(* that fits the mode recorded; and no setting by a message on a topic.    *)
Lawful(req) ==
  /\ req \in Requests
  /\ req.kind = "motion" => Usable(req)
  /\ req.kind \in {"motion", "alter"} => Matched(req)
InMode(req) ==
  req.kind = "analog" => InRange(aomode[req.channel], req.value)
Good(o) ==
  \/ o.tag = "raise"
  \/ o.tag \in {"publish", "post"} /\ Lawful(o.req) /\ InMode(o.req)

Begins(t) == \E o : Good(o) /\ Begin(t, o)

-----------------------------------------------------------------------------
(* Outcomes that are good.                                                 *)
LEMMA GoodRaise == \A kind : Good(Raise(kind))
BY DEF Good, Raise

(* A plain request.                                                       *)
LEMMA GoodPlain == Good(Post(Plain)) /\ Good(FindAndPost(Plain))
                   /\ Good(Publish(Plain))
BY DEF Good, Post, FindAndPost, Publish, Plain, Lawful, InMode, Requests

(* A reference that is one.                                               *)
LEMMA GoodCoord == \A c \in Int : IsRef(c) => Good(Post(SetCoord(c)))
BY DEF Good, Post, SetCoord, Lawful, InMode, Requests

(* A mode of a channel.                                                   *)
LEMMA GoodMode ==
  \A ch \in 1 .. 2, m \in Modes : Good(Post(SetMode(ch, m)))
BY DEF Good, Post, SetMode, Lawful, InMode, Requests

(* A value that fits the mode recorded.                                   *)
LEMMA GoodAnalog ==
  \A ch \in 1 .. 2, v \in Int :
    InRange(aomode[ch], v) => Good(Post(SetAnalog(ch, v)))
BY DEF Good, Post, SetAnalog, Lawful, InMode, Requests

(* An alteration in the numbers of a pose, or the one that takes any.      *)
LEMMA GoodAlteration ==
  ASSUME NEW p \in {"joint", "task"}
  PROVE  /\ Good(Post(Alteration("alter_motion", p)))
         /\ p = "task" => Good(Publish(Alteration("alter_motion_stream", p)))
BY DEF Good, Post, Publish, Alteration, Lawful, InMode, Requests, Matched,
   JointMotions

(* A motion that is usable and carries the numbers its name stands for.   *)
LEMMA GoodMotion ==
  ASSUME NEW fn \in JointMotions \cup TaskMotions,
         NEW p \in {"joint", "task"},
         fn \in {"movel", "movec"} \/ (p = "joint" <=> fn \in JointMotions),
         NEW v \in Int \X Int, NEW a \in Int \X Int, NEW s \in Int,
         Usable(Motion(fn, p, v, a, s))
  PROVE  /\ Good(Publish(Motion(fn, p, v, a, s)))
         /\ Good(Post(Motion(fn, p, v, a, s)))
         /\ Good(FindAndPost(Motion(fn, p, v, a, s)))
<1>1. /\ Motion(fn, p, v, a, s) \in Requests
      /\ Motion(fn, p, v, a, s).kind = "motion"
  BY DEF Motion, Requests
<1>2. Matched(Motion(fn, p, v, a, s))
  BY DEF Matched, Motion
<1>3. Lawful(Motion(fn, p, v, a, s)) /\ InMode(Motion(fn, p, v, a, s))
  BY <1>1, <1>2 DEF Lawful, InMode
<1> QED
  BY <1>1, <1>3 DEF Good, Publish, Post, FindAndPost

(* Which motion carries its speeds how.                                    *)
LEMMA Sorts ==
  /\ \A fn \in {"movesj", "servoj", "servoj_rt", "speedj", "speedj_rt"} :
       fn \in OfList /\ fn \in JointMotions
  /\ "move_spiral" \in OfList /\ "move_spiral" \notin JointMotions
  /\ "speedj" \in Backward /\ "speedj_rt" \in Backward
  /\ "movej" \in OfOneNumber /\ "movej" \in JointMotions
  /\ "movejx" \in OfOneNumber /\ "movejx" \notin JointMotions
  /\ \A fn \in {"movel", "movec", "movesx", "moveb", "servol", "servol_rt",
                 "speedl", "speedl_rt"} :
       fn \in TaskMotions /\ fn \notin OfOneNumber /\ fn \notin OfList
BY DEF OfList, OfOneNumber, Backward, JointMotions, TaskMotions

(* A pair of speeds is one of numbers.                                     *)
LEMMA Pair == \A v \in Int \X Int : v[1] \in Int /\ v[2] \in Int
OBVIOUS

(* The checks of a motion with a list of joint speeds, ...                 *)
LEMMA JointGood ==
  ASSUME NEW fn \in OfList, NEW p \in {"joint", "task"},
         p = "joint" <=> fn \in JointMotions,
         NEW v \in Int \X Int, NEW a \in Int \X Int, NEW s \in Int,
         NonNegative(v) \/ fn \in Backward, NonNegative(a),
         s >= 0 \/ s = Unset,
         s \notin {0, Unset} \/ (SomeNonZero(v) /\ SomeNonZero(a))
  PROVE  /\ Good(Publish(Motion(fn, p, v, a, s)))
         /\ Good(Post(Motion(fn, p, v, a, s)))
         /\ Good(FindAndPost(Motion(fn, p, v, a, s)))
<1>1. /\ fn \in JointMotions \cup TaskMotions
      /\ fn \notin OfOneNumber /\ fn # "moveb"
  BY DEF OfList, OfOneNumber, JointMotions, TaskMotions
<1>2. Fast(fn, v) \/ fn \in Backward \/ ~SomeNonZero(v)
  BY <1>1, Pair DEF Fast, NonNeg, Some, NonNegative, SomeNonZero
<1>3. Fast(fn, a) \/ ~SomeNonZero(a)
  BY <1>1, Pair DEF Fast, NonNeg, Some, NonNegative, SomeNonZero
<1>4. Usable(Motion(fn, p, v, a, s))
  BY <1>2, <1>3 DEF Usable, SomeNonZero, Motion
<1> QED
  BY <1>1, <1>4, GoodMotion

(* ... of one of which only the first goes out, ...                        *)
LEMMA OneNumberGood ==
  ASSUME NEW fn \in OfOneNumber, NEW p \in {"joint", "task"},
         p = "joint" <=> fn \in JointMotions,
         NEW v \in Int \X Int, NEW a \in Int \X Int, NEW s \in Int,
         NonNegative(v), NonNegative(a), s >= 0 \/ s = Unset
  PROVE  Good(FindAndPost(Motion(fn, p, First(v), First(a), s)))
<1>1. fn \in JointMotions \cup TaskMotions
  BY DEF OfOneNumber, JointMotions, TaskMotions
<1>2. First(v) \in Int \X Int /\ First(a) \in Int \X Int
  BY Pair DEF First
<1>3. Fast(fn, First(v)) /\ Fast(fn, First(a))
  BY Pair DEF Fast, NonNeg, First, NonNegative
<1>4. Usable(Motion(fn, p, First(v), First(a), s))
  BY <1>3 DEF Usable, Motion
<1> QED
  BY <1>1, <1>2, <1>4, GoodMotion

(* ... and of one with the two speeds of a pose.  moveb passes any time.   *)
LEMMA TaskGood ==
  ASSUME NEW fn \in TaskMotions, fn \notin OfOneNumber, fn \notin OfList,
         NEW p \in {"joint", "task"}, fn \in {"movel", "movec"} \/ p = "task",
         NEW v \in Int \X Int, NEW a \in Int \X Int, NEW s \in Int,
         s >= 0 \/ s = Unset \/ fn = "moveb",
         s \notin {0, Unset} \/ (FirstPositive(v) /\ FirstPositive(a))
  PROVE  /\ Good(Publish(Motion(fn, p, v, a, s)))
         /\ Good(Post(Motion(fn, p, v, a, s)))
         /\ Good(FindAndPost(Motion(fn, p, v, a, s)))
<1>1. /\ FirstPositive(v) => Fast(fn, v)
      /\ FirstPositive(a) => Fast(fn, a)
  BY DEF Fast, FirstPositive
<1>2. Usable(Motion(fn, p, v, a, s))
  BY <1>1 DEF Usable, Motion
<1>3. fn \in JointMotions \cup TaskMotions /\ fn \notin JointMotions
  BY DEF JointMotions, TaskMotions
<1> QED
  BY <1>2, <1>3, GoodMotion

(* Arguments that are given or fall back to a default, and times.          *)
LEMMA Speedy ==
  ASSUME TypeOK, NEW v \in SpeedArgs, v # Junk
  PROVE  /\ OrElse(v, velj) \in Int \X Int /\ OrElse(v, accj) \in Int \X Int
         /\ OrElse(v, velx) \in Int \X Int /\ OrElse(v, accx) \in Int \X Int
         /\ OrElse(v, <<Unset, Unset>>) \in Int \X Int
         /\ v # None => v \in Int \X Int
BY ApiAssumption DEF TypeOK, SpeedArgs, OrElse, IsSpeeds, IsSpeed, Unset

(* A speed is a pair of numbers.                                          *)
LEMMA SpeedsPairs == \A v \in Speeds : v \in Int \X Int
BY ApiAssumption DEF IsSpeeds, IsSpeed

(* A time that float() takes is a number.                                 *)
LEMMA Timely == \A s \in TimeArgs : Time(s) # Junk => Time(s) \in Int
BY ApiAssumption DEF TimeArgs, Time, OrElse

-----------------------------------------------------------------------------
(* set_robot_mode to set_safety_mode: plain requests.                     *)
LEMMA BeginsSystem == ASSUME NEW t, System(t) PROVE Begins(t)
<1> USE GoodPlain, GoodRaise DEF Begins, Ask, Check, CheckInt
<1>1. CASE set_robot_mode(t)
  BY <1>1 DEF set_robot_mode
<1>2. CASE get_robot_mode(t)
  BY <1>2 DEF get_robot_mode
<1>3. CASE set_robot_system(t)
  BY <1>3 DEF set_robot_system
<1>4. CASE get_robot_system_state(t)
  BY <1>4 DEF get_robot_system_state
<1>5. CASE set_robot_speed_mode(t)
  BY <1>5 DEF set_robot_speed_mode
<1>6. CASE get_robot_speed_mode(t)
  BY <1>6 DEF get_robot_speed_mode
<1>7. CASE set_safe_stop_reset_type(t)
  BY <1>7 DEF set_safe_stop_reset_type
<1>8. CASE set_safety_mode(t)
  BY <1>8 DEF set_safety_mode
<1> QED
  BY <1>1, <1>2, <1>3, <1>4, <1>5, <1>6, <1>7, <1>8 DEF System

(* The questions about the robot: plain requests.                         *)
LEMMA BeginsQuestions == ASSUME NEW t, Questions(t) PROVE Begins(t)
<1> USE GoodPlain, GoodRaise DEF Begins, Ask, Check, CheckInt, CheckIn,
    CheckPosj, CheckPosx, Filled, CheckRef, CheckFixedRef
<1>1. CASE get_current_pose(t)
  BY <1>1 DEF get_current_pose
<1>2. CASE get_control_state(t)
  BY <1>2 DEF get_control_state
<1>3. CASE get_joint_state(t)
  BY <1>3 DEF get_joint_state
<1>4. CASE get_torque(t)
  BY <1>4 DEF get_torque
<1>5. CASE get_current_posx(t)
  BY <1>5 DEF get_current_posx
<1>6. CASE get_desired_posx(t)
  BY <1>6 DEF get_desired_posx
<1>7. CASE get_current_tool_flange_posx(t)
  BY <1>7 DEF get_current_tool_flange_posx
<1>8. CASE get_current_velx(t)
  BY <1>8 DEF get_current_velx
<1>9. CASE get_desired_velx(t)
  BY <1>9 DEF get_desired_velx
<1>10. CASE get_current_rotm(t)
  BY <1>10 DEF get_current_rotm
<1>11. CASE get_tool_force(t)
  BY <1>11 DEF get_tool_force
<1>12. CASE get_solution_space(t)
  BY <1>12 DEF get_solution_space
<1>13. CASE get_orientation_error(t)
  BY <1>13 DEF get_orientation_error
<1>14. CASE trans(t)
  BY <1>14 DEF trans
<1>15. CASE fkin(t)
  BY <1>15 DEF fkin
<1>16. CASE ikin(t)
  BY <1>16 DEF ikin
<1> QED
  BY <1>1, <1>2, <1>3, <1>4, <1>5, <1>6, <1>7, <1>8, <1>9, <1>10, <1>11,
     <1>12, <1>13, <1>14, <1>15, <1>16 DEF Questions

(* The motions on topics: what is published passed the checks.            *)
LEMMA BeginsStreams == ASSUME TypeOK, NEW t, Streams(t) PROVE Begins(t)
<1> USE GoodPlain, GoodRaise DEF Begins, Ask, Check, CheckInt, CheckIn,
    CheckPosj, CheckPosx, Filled, CheckTime, CheckSpeed, CheckGiven,
    JointSpeeds, CheckUsableJoint, CheckUsableTask, Message, Timed
<1>1. CASE alter_motion_stream(t)
  BY <1>1, GoodAlteration DEF alter_motion_stream, NumbersOf
<1>2. CASE servoj(t)
  BY <1>2, JointGood, Sorts, Speedy, SpeedsPairs, Timely, SMTT(60)
    DEF servoj, NumbersOf
<1>3. CASE servol(t)
  BY <1>3, TaskGood, Sorts, Speedy, SpeedsPairs, Timely, SMTT(60)
    DEF servol, NumbersOf
<1>4. CASE speedj(t)
  BY <1>4, JointGood, Sorts, Speedy, SpeedsPairs, Timely DEF speedj,
    NumbersOf
<1>5. CASE speedl(t)
  BY <1>5, TaskGood, Sorts, Speedy, SpeedsPairs, Timely, ZenonT(60)
    DEF speedl, NumbersOf
<1>6. CASE servoj_rt(t)
  BY <1>6, JointGood, Sorts, Speedy, SpeedsPairs, Timely, SMTT(60)
    DEF servoj_rt, NumbersOf
<1>7. CASE servol_rt(t)
  <2>1. ASSUME NEW p \in Positions, p \notin {"posj", "other"},
               NEW v \in SpeedArgs, v # Junk, NEW a \in SpeedArgs, a # Junk,
               NEW s \in TimeArgs, Time(s) \in Int,
               Time(s) >= 0 \/ Time(s) = Unset,
               Timed(s) \/ (/\ FirstPositive(OrElse(v, <<Unset, Unset>>))
                           /\ FirstPositive(OrElse(a, <<Unset, Unset>>)))
        PROVE  Good(Message("servol_rt", NumbersOf(p, "task"),
                            OrElse(v, <<Unset, Unset>>),
                            OrElse(a, <<Unset, Unset>>), Time(s)))
    <3>1. NumbersOf(p, "task") = "task"
      BY <2>1 DEF NumbersOf
    <3>2. /\ OrElse(v, <<Unset, Unset>>) \in Int \X Int
          /\ OrElse(a, <<Unset, Unset>>) \in Int \X Int
      BY <2>1, Speedy
    <3> QED
      BY <2>1, <3>1, <3>2, TaskGood, Sorts
  <2> HIDE DEF Message, Timed, Filled
  <2>2. PICK p \in Positions, v \in SpeedArgs, a \in SpeedArgs,
             s \in TimeArgs :
          Begin(t, CheckPosx(p, Check(s # None, "VALUE", CheckTime(s,
            Check(v # Junk, "TYPE", Check(a # Junk, "TYPE",
            CheckUsableTask(OrElse(v, <<Unset, Unset>>),
              OrElse(a, <<Unset, Unset>>), s, Filled(p,
              Message("servol_rt", NumbersOf(p, "task"),
                      OrElse(v, <<Unset, Unset>>),
                      OrElse(a, <<Unset, Unset>>), Time(s))))))))))
    <3> HIDE DEF Check, CheckPosx, CheckTime, CheckUsableTask
    <3> QED
      BY <1>7 DEF servol_rt
  <2> DEFINE vel  == OrElse(v, <<Unset, Unset>>)
             acc  == OrElse(a, <<Unset, Unset>>)
             fit  == p \notin {"posj", "other"}
             ok   == Time(s) \in Int /\ (Time(s) >= 0 \/ Time(s) = Unset)
             fast == Timed(s) \/ (FirstPositive(vel) /\ FirstPositive(acc))
             m    == Message("servol_rt", NumbersOf(p, "task"), vel, acc,
                             Time(s))
             fill == Filled(p, m)
             used == CheckUsableTask(vel, acc, s, fill)
             sped == Check(v # Junk, "TYPE", Check(a # Junk, "TYPE", used))
             timd == CheckTime(s, sped)
  <2>3. fit /\ ok /\ v # Junk /\ a # Junk /\ fast => Good(m)
    BY <2>1
  <2> HIDE DEF m
  <2>4. fit /\ ok /\ v # Junk /\ a # Junk /\ fast => Good(fill)
    BY <2>3 DEF Filled
  <2> HIDE DEF fill
  <2>5. fit /\ ok /\ v # Junk /\ a # Junk => Good(used)
    BY <2>4
  <2> HIDE DEF used
  <2>6. fit /\ ok => Good(sped)
    BY <2>5
  <2> HIDE DEF sped
  <2>7. fit => Good(timd)
    BY <2>6
  <2> HIDE DEF timd
  <2>8. Good(CheckPosx(p, Check(s # None, "VALUE", timd)))
    BY <2>7
  <2> QED
    BY <2>2, <2>8 DEF Begins, timd, sped, used, fill, m
<1>8. CASE speedj_rt(t)
  BY <1>8, JointGood, Sorts, Speedy, SpeedsPairs, Timely DEF speedj_rt,
    NumbersOf
<1>9. CASE speedl_rt(t)
  BY <1>9, TaskGood, Sorts, Speedy, SpeedsPairs, Timely, ZenonT(60)
    DEF speedl_rt, NumbersOf
<1>10. CASE torque_rt(t)
  BY <1>10 DEF torque_rt
<1> QED
  BY <1>1, <1>2, <1>3, <1>4, <1>5, <1>6, <1>7, <1>8, <1>9, <1>10 DEF Streams

(* The realtime services: plain requests.                                 *)
LEMMA BeginsRealtime == ASSUME NEW t, Realtime(t) PROVE Begins(t)
<1> USE GoodPlain, GoodRaise DEF Begins, Ask, Check, CheckInt, CheckList,
    CheckName
<1>1. CASE connect_rt_control(t)
  BY <1>1 DEF connect_rt_control
<1>2. CASE disconnect_rt_control(t)
  BY <1>2 DEF disconnect_rt_control
<1>3. CASE start_rt_control(t)
  BY <1>3 DEF start_rt_control
<1>4. CASE get_rt_control_data_list(t)
  BY <1>4 DEF get_rt_control_data_list
<1>5. CASE set_rt_control(t)
  BY <1>5 DEF set_rt_control
<1>6. CASE set_joint_limits_rt(t)
  BY <1>6 DEF set_joint_limits_rt
<1>7. CASE set_task_limits_rt(t)
  BY <1>7 DEF set_task_limits_rt
<1>8. CASE read_data_rt(t)
  BY <1>8 DEF read_data_rt
<1>9. CASE write_data_rt(t)
  BY <1>9 DEF write_data_rt
<1> QED
  BY <1>1, <1>2, <1>3, <1>4, <1>5, <1>6, <1>7, <1>8, <1>9 DEF Realtime

(* The motion services: what is asked passed the checks.                  *)
LEMMA BeginsMotions == ASSUME TypeOK, NEW t, Motions(t) PROVE Begins(t)
<1> USE GoodPlain, GoodRaise DEF Begins, Ask, Check, CheckInt, CheckIn,
    CheckPosj, CheckPosx, CheckPos, Filled, CheckRefRange, CheckTime,
    CheckSpeed, JointSpeeds, CheckUsableJoint, CheckUsableTask,
    CheckTaskSpeed, TaskSpeeds, CheckJointMove, CheckTaskMove, CheckRadius,
    CheckMotionRef, CheckModes, Timed
<1>1. CASE movej(t)
  BY <1>1, OneNumberGood, Sorts, Speedy, SpeedsPairs, Timely, SMTT(60)
    DEF movej, NumbersOf
<1>2. CASE movejx(t)
  BY <1>2, OneNumberGood, Sorts, Speedy, SpeedsPairs, Timely, SMTT(60)
    DEF movejx, NumbersOf
<1>3. CASE movel(t)
  BY <1>3, TaskGood, Sorts, Speedy, SpeedsPairs, Timely, SMTT(60)
    DEF movel, Numbers, NumbersOf
<1>4. CASE movec(t)
  BY <1>4, TaskGood, Sorts, Speedy, SpeedsPairs, Timely, SMTT(60)
    DEF movec, Numbers, NumbersOf
<1>5. CASE movesj(t)
  BY <1>5, JointGood, Sorts, Speedy, SpeedsPairs, Timely, SMTT(60)
    DEF movesj, NumbersOf
<1>6. CASE movesx(t)
  BY <1>6, TaskGood, Sorts, Speedy, SpeedsPairs, Timely, SMTT(60)
    DEF movesx, NumbersOf
<1>7. CASE moveb(t)
  BY <1>7, TaskGood, Sorts, Speedy, SpeedsPairs, Timely, SMTT(60)
    DEF moveb, NumbersOf
<1>8. CASE move_spiral(t)
  BY <1>8, JointGood, Sorts, Speedy, SpeedsPairs, Timely, SMTT(60)
    DEF move_spiral, NumbersOf
<1>9. CASE move_periodic(t)
  BY <1>9 DEF move_periodic
<1>10. CASE move_home(t)
  BY <1>10 DEF move_home
<1>11. CASE mwait(t)
  BY <1>11 DEF mwait
<1>12. CASE check_motion(t)
  BY <1>12 DEF check_motion
<1>13. CASE change_operation_speed(t)
  BY <1>13 DEF change_operation_speed
<1> QED
  BY <1>1, <1>2, <1>3, <1>4, <1>5, <1>6, <1>7, <1>8, <1>9, <1>10, <1>11,
     <1>12, <1>13 DEF Motions

(* Force, compliance and conditions: plain requests.                      *)
LEMMA BeginsControls == ASSUME NEW t, Controls(t) PROVE Begins(t)
<1> USE GoodPlain, GoodRaise DEF Begins, Ask, Check, CheckInt, CheckIn,
    CheckPos, Filled, CheckRef, CheckRefRange, CheckMotionRef, CheckSix,
    CheckRamp, CheckRange
<1>1. CASE enable_alter_motion(t)
  BY <1>1 DEF enable_alter_motion
<1>2. CASE alter_motion(t)
  BY <1>2, GoodAlteration DEF alter_motion, NumbersOf
<1>3. CASE disable_alter_motion(t)
  BY <1>3 DEF disable_alter_motion
<1>4. CASE set_singular_handling(t)
  BY <1>4 DEF set_singular_handling
<1>5. CASE set_singularity_handling(t)
  BY <1>5 DEF set_singularity_handling, set_singular_handling
<1>6. CASE jog(t)
  BY <1>6 DEF jog
<1>7. CASE jog_multi(t)
  BY <1>7 DEF jog_multi
<1>8. CASE get_workpiece_weight(t)
  BY <1>8 DEF get_workpiece_weight
<1>9. CASE reset_workpiece_weight(t)
  BY <1>9 DEF reset_workpiece_weight
<1>10. CASE is_done_bolt_tightening(t)
  BY <1>10 DEF is_done_bolt_tightening
<1>11. CASE release_compliance_ctrl(t)
  BY <1>11 DEF release_compliance_ctrl
<1>12. CASE task_compliance_ctrl(t)
  BY <1>12 DEF task_compliance_ctrl
<1>13. CASE set_stiffnessx(t)
  BY <1>13 DEF set_stiffnessx
<1>14. CASE set_desired_force(t)
  BY <1>14 DEF set_desired_force
<1>15. CASE release_force(t)
  BY <1>15 DEF release_force
<1>16. CASE check_position_condition(t)
  BY <1>16 DEF check_position_condition
<1>17. CASE check_force_condition(t)
  BY <1>17 DEF check_force_condition
<1>18. CASE check_orientation_condition(t)
  BY <1>18 DEF check_orientation_condition,
    BetweenPositions, BetweenNumbers
<1> QED
  BY <1>1, <1>2, <1>3, <1>4, <1>5, <1>6, <1>7, <1>8, <1>9, <1>10, <1>11,
     <1>12, <1>13, <1>14, <1>15, <1>16, <1>17, <1>18 DEF Controls

(* User coordinates, in every form of arguments: plain requests.          *)
LEMMA BeginsCoordinates == ASSUME NEW t, Coordinates(t) PROVE Begins(t)
<1> USE GoodPlain, GoodRaise DEF Begins, Ask, Check, CheckInt, CheckIn,
    CheckPosx, CheckPos, Filled, CheckFixedRef, CheckVector, CheckAxis,
    CheckBaseOrWorld
<1>1. CASE parallel_axis(t)
  BY <1>1 DEF parallel_axis
<1>2. CASE align_axis(t)
  BY <1>2 DEF align_axis
<1>3. CASE calc_coord(t)
  BY <1>3 DEF calc_coord
<1>4. CASE set_user_cart_coord(t)
  BY <1>4 DEF set_user_cart_coord
<1>5. CASE overwrite_user_cart_coord(t)
  BY <1>5 DEF overwrite_user_cart_coord
<1>6. CASE get_user_cart_coord(t)
  BY <1>6 DEF get_user_cart_coord
<1>7. CASE coord_transform(t)
  BY <1>7 DEF coord_transform
<1> QED
  BY <1>1, <1>2, <1>3, <1>4, <1>5, <1>6, <1>7 DEF Coordinates

(* Inputs and outputs: plain requests.                                    *)
LEMMA BeginsInOut == ASSUME NEW t, InOut(t) PROVE Begins(t)
<1> USE GoodPlain, GoodRaise DEF Begins, Ask, Check, CheckInt, CheckIn,
    CheckName, GetInput, SetOutput
<1>1. CASE get_digital_input(t)
  BY <1>1 DEF get_digital_input
<1>2. CASE get_tool_digital_input(t)
  BY <1>2 DEF get_tool_digital_input
<1>3. CASE get_digital_output(t)
  BY <1>3 DEF get_digital_output
<1>4. CASE get_tool_digital_output(t)
  BY <1>4 DEF get_tool_digital_output
<1>5. CASE get_analog_input(t)
  BY <1>5 DEF get_analog_input
<1>6. CASE set_digital_output(t)
  BY <1>6 DEF set_digital_output
<1>7. CASE set_tool_digital_output(t)
  BY <1>7 DEF set_tool_digital_output
<1>8. CASE add_modbus_signal(t)
  BY <1>8 DEF add_modbus_signal
<1>9. CASE del_modbus_signal(t)
  BY <1>9 DEF del_modbus_signal
<1>10. CASE set_modbus_output(t)
  BY <1>10 DEF set_modbus_output
<1>11. CASE get_modbus_input(t)
  BY <1>11 DEF get_modbus_input
<1> QED
  BY <1>1, <1>2, <1>3, <1>4, <1>5, <1>6, <1>7, <1>8, <1>9, <1>10, <1>11
     DEF InOut

(* Analog outputs: modes, and values that fit the mode recorded.          *)
LEMMA BeginsAnalog == ASSUME NEW t, Analog(t) PROVE Begins(t)
<1> USE GoodPlain, GoodRaise DEF Begins, Check, CheckInt, CheckMode
<1>1. CASE set_analog_output(t)
  BY <1>1, GoodAnalog DEF set_analog_output, Channels
<1>2. CASE set_mode_analog_output(t)
  BY <1>2, GoodMode DEF set_mode_analog_output, Channels
<1>3. CASE set_mode_analog_input(t)
  BY <1>3 DEF set_mode_analog_input
<1> QED
  BY <1>1, <1>2, <1>3 DEF Analog

(* Tools and scripts: plain requests.                                     *)
LEMMA BeginsProgram == ASSUME NEW t, Program(t) PROVE Begins(t)
<1> USE GoodPlain, GoodRaise DEF Begins, Ask, Check, CheckInt, CheckName,
    Filled, ByName, ByNameAndNumbers
<1>1. CASE set_tcp(t)
  BY <1>1 DEF set_tcp
<1>2. CASE get_tcp(t)
  BY <1>2 DEF get_tcp
<1>3. CASE set_tool(t)
  BY <1>3 DEF set_tool
<1>4. CASE get_tool(t)
  BY <1>4 DEF get_tool
<1>5. CASE set_tool_shape(t)
  BY <1>5 DEF set_tool_shape
<1>6. CASE add_tcp(t)
  BY <1>6 DEF add_tcp
<1>7. CASE del_tcp(t)
  BY <1>7 DEF del_tcp
<1>8. CASE add_tool(t)
  BY <1>8 DEF add_tool
<1>9. CASE del_tool(t)
  BY <1>9 DEF del_tool
<1>10. CASE drl_script_run(t)
  BY <1>10 DEF drl_script_run
<1>11. CASE drl_script_stop(t)
  BY <1>11 DEF drl_script_stop
<1>12. CASE drl_script_pause(t)
  BY <1>12 DEF drl_script_pause
<1>13. CASE drl_script_resume(t)
  BY <1>13 DEF drl_script_resume
<1>14. CASE get_drl_state(t)
  BY <1>14 DEF get_drl_state
<1> QED
  BY <1>1, <1>2, <1>3, <1>4, <1>5, <1>6, <1>7, <1>8, <1>9, <1>10, <1>11,
     <1>12, <1>13, <1>14 DEF Program

(* set_ref_coord: the reference is one that it checked.                    *)
LEMMA BeginsCoord == ASSUME NEW t, set_ref_coord(t) PROVE Begins(t)
BY GoodRaise, GoodCoord DEF set_ref_coord, Begins, Check, CheckInt

-----------------------------------------------------------------------------
(* What binds the calls in progress to what is remembered and to the       *)
(* controller.  A call is single as long as no other call changed a        *)
(* setting that regards it: then the controller has what it was granted,   *)
(* the mode it recorded is still recorded, and the value it checked fits.  *)
Asks(t, setting) == Busy(t) /\ setting \in Setting(call[t].req)

CallsLawful == \A t \in Threads : Busy(t) => Lawful(call[t].req)
Exclusive ==
  \A t, u \in Threads :
    t # u /\ Busy(t) /\ call[t].single
      => \A setting \in Regards(call[t].req) : ~Asks(u, setting)
GrantHolds ==
  \A t \in Threads :
    Busy(t) /\ call[t].single /\ call[t].phase \in {"granted", "accepted"} =>
    /\ call[t].req.kind = "coord" => devCoord = call[t].req.value
    /\ call[t].req.kind = "mode"
         => devMode[call[t].req.channel] = call[t].req.value
ModeRecorded ==
  \A t \in Threads : Busy(t) /\ call[t].single /\ call[t].req.kind = "mode" =>
    aomode[call[t].req.channel] = call[t].req.value
ValueFits ==
  \A t \in Threads : Busy(t) /\ call[t].single => InMode(call[t].req)

Inv == /\ TypeOK /\ CallsLawful /\ CoordTracks /\ ModeTracks
       /\ Exclusive /\ GrantHolds /\ ModeRecorded /\ ValueFits

(* Requests by their kind, and the settings they change or regard.         *)
LEMMA Kinds ==
  ASSUME NEW r \in Requests
  PROVE  /\ r.kind \in {"plain", "coord", "mode", "analog", "motion", "alter"}
         /\ r.kind = "coord" => r.value \in Int /\ IsRef(r.value)
         /\ r.kind = "mode" => r.channel \in 1 .. 2 /\ r.value \in Modes
         /\ r.kind = "analog" => r.channel \in 1 .. 2 /\ r.value \in Int
BY DEF Requests

(* The names of the channels differ from each other and from "coord".     *)
LEMMA Names ==
  /\ ChannelName[1] = "ch1" /\ ChannelName[2] = "ch2"
  /\ \A i \in 1 .. 2 : ChannelName[i] \in Settings /\ ChannelName[i] # "coord"
  /\ \A i, j \in 1 .. 2 : ChannelName[i] = ChannelName[j] => i = j
<1>1. ChannelName[1] = "ch1" /\ ChannelName[2] = "ch2"
  BY DEF ChannelName
<1>2. \A i \in 1 .. 2 : i = 1 \/ i = 2
  OBVIOUS
<1> QED
  BY <1>1, <1>2 DEF Settings

(* What a request sets and what it regards.                               *)
LEMMA Sets ==
  ASSUME NEW r \in Requests, NEW setting
  PROVE  /\ setting \in Setting(r) <=>
              \/ r.kind = "coord" /\ setting = "coord"
              \/ r.kind = "mode" /\ setting = ChannelName[r.channel]
         /\ setting \in Regards(r) <=>
              \/ setting \in Setting(r)
              \/ r.kind = "analog" /\ setting = ChannelName[r.channel]
         /\ Setting(r) \subseteq Settings
<1>1. Setting(r) \subseteq Settings
  BY Kinds, Names DEF Setting, Settings
<1> QED
  BY <1>1 DEF Setting, Regards

(* The record of a call.                                                   *)
LEMMA Records ==
  ASSUME NEW c \in Calls, c # Idle
  PROVE  c.phase \in Phases /\ c.req \in Requests /\ c.single \in BOOLEAN
BY DEF Calls

(* Another phase leaves the rest of the record.                           *)
LEMMA Phased ==
  ASSUME NEW c \in Calls, c # Idle, NEW ph \in Phases, NEW d,
         d = [c EXCEPT !.phase = ph]
  PROVE  /\ d \in Calls /\ d # Idle
         /\ d.phase = ph /\ d.req = c.req /\ d.single = c.single
BY DEF Calls, Idle

(* So does the loss of being single.                                      *)
LEMMA Doubled ==
  ASSUME NEW c \in Calls, c # Idle, NEW d, d = [c EXCEPT !.single = FALSE]
  PROVE  /\ d \in Calls /\ d # Idle
         /\ d.phase = c.phase /\ d.req = c.req /\ ~d.single
BY DEF Calls, Idle

(* A call that is placed.                                                 *)
LEMMA Placed ==
  ASSUME NEW ph \in Phases, NEW r \in Requests, NEW b \in BOOLEAN
  PROVE  /\ InCall(ph, r, b) \in Calls /\ InCall(ph, r, b) # Idle
         /\ InCall(ph, r, b).phase = ph /\ InCall(ph, r, b).req = r
         /\ InCall(ph, r, b).single = b
BY DEF Calls, Idle, InCall

(* Nothing is in progress and both sides have their first settings.       *)
LEMMA InitInv == InitCall => Inv
<1> SUFFICES ASSUME InitCall PROVE Inv
  OBVIOUS
<1> USE DEF InitCall
<1>1. \A t \in Threads : ~Busy(t)
  BY DEF Busy
<1>2. TypeOK
  <2>1. call \in [Threads -> Calls]
    BY DEF Calls
  <2>2. aomode \in AnalogModes /\ devMode \in AnalogModes
    BY DEF AnalogModes
  <2>3. coord \in Int /\ IsRef(coord) /\ devCoord \in Int
    BY DEF BASE, IsRef
  <2>4. restarts \in 0 .. MaxRestarts
    BY ApiAssumption
  <2>5. /\ velj \in Int \X Int /\ accj \in Int \X Int
        /\ velx \in Int \X Int /\ accx \in Int \X Int
    BY DEF Unset
  <2> QED
    BY <2>1, <2>2, <2>3, <2>4, <2>5 DEF TypeOK
<1>3. CoordTracks /\ ModeTracks
  BY DEF CoordTracks, ModeTracks
<1> QED
  BY <1>1, <1>2, <1>3 DEF Inv, CallsLawful, Exclusive, GrantHolds,
     ModeRecorded, ValueFits

-----------------------------------------------------------------------------
(* Steps that keep every request, and make no call single again.           *)
SameCalls ==
  /\ call' \in [Threads -> Calls]
  /\ \A u \in Threads : call'[u] = Idle <=> call[u] = Idle
  /\ \A u \in Threads : call[u] # Idle =>
       /\ call'[u].req = call[u].req
       /\ call'[u].single => call[u].single

(* Such steps keep what is said about the requests.                       *)
LEMMA Static ==
  ASSUME Inv, SameCalls, UNCHANGED <<coord, aomode>>
  PROVE  /\ CallsLawful' /\ Exclusive' /\ ModeRecorded' /\ ValueFits'
         /\ \A setting : Asking(setting)' <=> Asking(setting)
<1>1. CallsLawful'
  BY DEF Inv, SameCalls, CallsLawful, Busy
<1>2. Exclusive'
  BY DEF Inv, SameCalls, Exclusive, Asks, Busy
<1>3. ModeRecorded'
  BY DEF Inv, SameCalls, ModeRecorded, Busy
<1>4. ValueFits'
  BY DEF Inv, SameCalls, ValueFits, InMode, Busy
<1>5. \A setting : Asking(setting)' <=> Asking(setting)
  BY DEF SameCalls, Asking, Busy
<1> QED
  BY <1>1, <1>2, <1>3, <1>4, <1>5

(* Steps that leave the settings as they are on both sides.                *)
LEMMA Tracking ==
  ASSUME Inv, \A setting : Asking(setting)' <=> Asking(setting),
         UNCHANGED <<coord, aomode, devCoord, devMode, unsure>>
  PROVE  CoordTracks' /\ ModeTracks'
BY DEF Inv, CoordTracks, ModeTracks

(* With the calls left alone as well, the whole invariant stays.           *)
LEMMA Quiet ==
  ASSUME Inv, TypeOK',
         UNCHANGED <<coord, aomode, call, devCoord, devMode, unsure>>
  PROVE  Inv'
<1>1. SameCalls
  BY DEF Inv, TypeOK, SameCalls, Busy
<1>2. GrantHolds'
  BY DEF Inv, GrantHolds, Busy
<1> QED
  BY <1>1, <1>2, Static, Tracking DEF Inv

(* A call goes on to another phase.                                        *)
LEMMA Going ==
  ASSUME Inv, NEW t \in Threads, Busy(t), NEW ph \in Phases, Goes(t, ph)
  PROVE  /\ SameCalls
         /\ call'[t].phase = ph
         /\ \A u \in Threads \ {t} : call'[u] = call[u]
<1>1. call \in [Threads -> Calls]
  BY DEF Inv, TypeOK
<1>2. call'[t] = [call[t] EXCEPT !.phase = ph]
  BY <1>1 DEF Goes
<1>3. \A u \in Threads \ {t} : call'[u] = call[u]
  BY <1>1 DEF Goes
<1>4. /\ call'[t] \in Calls \ {Idle} /\ call'[t].req = call[t].req
      /\ call'[t].phase = ph /\ call'[t].single = call[t].single
  <2>1. call[t] \in Calls /\ call[t] # Idle
    BY <1>1 DEF Busy
  <2> QED
    BY <1>2, <2>1, Phased
<1>5. call' \in [Threads -> Calls]
  <2>1. \A u \in Threads : call'[u] \in Calls
    BY <1>1, <1>3, <1>4
  <2>2. call' = [u \in Threads |-> call'[u]]
    BY <1>1 DEF Goes
  <2> QED
    BY <2>1, <2>2
<1> QED
  BY <1>3, <1>4, <1>5 DEF SameCalls, Busy

(* The service is found, and the request sent.                            *)
LEMMA FindStep == ASSUME Inv, NEW t \in Threads, Find(t) PROVE Inv'
<1>1. Goes(t, "sent") /\ Busy(t) /\ "sent" \in Phases
  BY DEF Find, In, Phases, Waiting
<1>2. /\ SameCalls /\ call'[t].phase = "sent"
      /\ \A u \in Threads \ {t} : call'[u] = call[u]
  BY <1>1, Going
<1>3. UNCHANGED <<alive, velj, accj, velx, accx, coord, aomode, up, restarts,
                  devCoord, devMode, unsure>> /\ attached' = TRUE
  BY DEF Find, defaults, device
<1>4. TypeOK'
  BY <1>2, <1>3 DEF Inv, TypeOK, SameCalls
<1>5. GrantHolds'
  BY <1>2, <1>3 DEF Inv, GrantHolds, Busy
<1> QED
  BY <1>2, <1>3, <1>4, <1>5, Static, Tracking DEF Inv

(* The controller refuses: nothing is set.                                *)
LEMMA RefuseStep == ASSUME Inv, NEW t \in Threads, Refuse(t) PROVE Inv'
<1>1. Goes(t, "refused") /\ Busy(t) /\ "refused" \in Phases
  BY DEF Refuse, In, Phases, Waiting, Answered
<1>2. /\ SameCalls /\ call'[t].phase = "refused"
      /\ \A u \in Threads \ {t} : call'[u] = call[u]
  BY <1>1, Going
<1>3. UNCHANGED <<alive, attached, velj, accj, velx, accx, coord, aomode, up,
                  restarts, devCoord, devMode, unsure>>
  BY DEF Refuse, defaults, device
<1>4. TypeOK'
  BY <1>2, <1>3 DEF Inv, TypeOK, SameCalls
<1>5. GrantHolds'
  BY <1>2, <1>3 DEF Inv, GrantHolds, Busy
<1> QED
  BY <1>2, <1>3, <1>4, <1>5, Static, Tracking DEF Inv

(* A spin handles the answer: what was granted stays granted.              *)
LEMMA HandleStep == ASSUME Inv, NEW t \in Threads, Handle(t) PROVE Inv'
<1> DEFINE ph == IF call[t].phase = "granted" THEN "accepted" ELSE "rejected"
<1>1. Goes(t, ph) /\ Busy(t) /\ ph \in Phases
  BY DEF Handle, In, Phases, Waiting, Done
<1> HIDE DEF ph
<1>2. /\ SameCalls /\ call'[t].phase = ph
      /\ \A u \in Threads \ {t} : call'[u] = call[u]
  BY <1>1, Going
<1>3. UNCHANGED <<alive, attached, velj, accj, velx, accx, coord, aomode, up,
                  restarts, devCoord, devMode, unsure>>
  BY DEF Handle, defaults, device
<1>4. TypeOK'
  BY <1>2, <1>3 DEF Inv, TypeOK, SameCalls
<1>5. GrantHolds'
  <2>1. ph = "accepted" => call[t].phase = "granted"
    BY DEF ph
  <2>2. ph # "granted"
    BY DEF ph
  <2> QED
    BY <1>2, <1>3, <2>1, <2>2 DEF Inv, GrantHolds, SameCalls, Busy
<1> QED
  BY <1>2, <1>3, <1>4, <1>5, Static, Tracking DEF Inv

(* The controller takes a setting over.  No other call is single that      *)
(* regards it.                                                             *)
LEMMA TakesStep ==
  ASSUME Inv, NEW t \in Threads, Busy(t), Takes(call[t].req)
  PROVE  /\ devCoord' \in Int /\ devMode' \in AnalogModes
         /\ "coord" \notin Setting(call[t].req) => devCoord' = devCoord
         /\ \A ch \in 1 .. 2 : ChannelName[ch] \notin Setting(call[t].req)
              => devMode'[ch] = devMode[ch]
         /\ \A u \in Threads \ {t} :
              /\ Busy(u) /\ call[u].single
              /\ call[u].phase \in {"granted", "accepted"}
              => /\ call[u].req.kind = "coord"
                      => devCoord' = call[u].req.value
                 /\ call[u].req.kind = "mode"
                      => devMode'[call[u].req.channel] = call[u].req.value
<1> DEFINE req == call[t].req
<1>1. req \in Requests
  BY Records DEF Inv, TypeOK, Busy
<1>2. /\ req.kind = "coord" => devCoord' = req.value
      /\ req.kind # "coord" => devCoord' = devCoord
      /\ req.kind = "mode"
           => devMode' = [devMode EXCEPT ![req.channel] = req.value]
      /\ req.kind # "mode" => devMode' = devMode
  BY DEF Takes
<1>3. devCoord' \in Int
  BY <1>1, <1>2, Kinds DEF Inv, TypeOK
<1>4. devMode' \in AnalogModes
  BY <1>1, <1>2, Kinds DEF Inv, TypeOK, AnalogModes
<1>5. "coord" \notin Setting(req) => devCoord' = devCoord
  BY <1>1, <1>2, Sets
<1>6. \A ch \in 1 .. 2 :
        ChannelName[ch] \notin Setting(req) => devMode'[ch] = devMode[ch]
  <2> TAKE ch \in 1 .. 2
  <2>1. ChannelName[ch] \notin Setting(req) /\ req.kind = "mode"
          => req.channel # ch
    BY <1>1, Sets
  <2> QED
    BY <1>1, <1>2, <2>1, Kinds DEF Inv, TypeOK, AnalogModes
<1>7. ASSUME NEW u \in Threads \ {t}, Busy(u), call[u].single,
             call[u].phase \in {"granted", "accepted"}
      PROVE  /\ call[u].req.kind = "coord" => devCoord' = call[u].req.value
             /\ call[u].req.kind = "mode"
                  => devMode'[call[u].req.channel] = call[u].req.value
  <2>1. call[u].req \in Requests
    BY <1>7, Records DEF Inv, TypeOK, Busy
  <2>2. \A setting \in Regards(call[u].req) : setting \notin Setting(req)
    BY <1>7 DEF Inv, Exclusive, Asks
  <2>3. /\ call[u].req.kind = "coord" => "coord" \notin Setting(req)
        /\ call[u].req.kind = "mode"
             => ChannelName[call[u].req.channel] \notin Setting(req)
    BY <2>1, <2>2, Sets
  <2>4. /\ call[u].req.kind = "coord" => devCoord = call[u].req.value
        /\ call[u].req.kind = "mode"
             => devMode[call[u].req.channel] = call[u].req.value
    BY <1>7 DEF Inv, GrantHolds
  <2> QED
    BY <1>5, <1>6, <2>1, <2>3, <2>4, Kinds
<1> QED
  BY <1>3, <1>4, <1>5, <1>6, <1>7

(* A grant: what it sets is asked for as long as this call is not back.    *)
LEMMA GrantStep == ASSUME Inv, NEW t \in Threads, Grant(t) PROVE Inv'
<1> DEFINE req == call[t].req
<1>1. /\ Goes(t, "granted") /\ Busy(t) /\ Takes(req)
      /\ "granted" \in Phases
  BY DEF Grant, In, Phases, Waiting, Answered
<1>2. /\ SameCalls /\ call'[t].phase = "granted"
      /\ \A u \in Threads \ {t} : call'[u] = call[u]
  BY <1>1, Going
<1>3. UNCHANGED <<alive, attached, velj, accj, velx, accx, coord, aomode, up,
                  restarts, unsure>>
  BY DEF Grant, Takes, defaults
<1>4. req \in Requests /\ call'[t].req = req
  <2>1. call[t] \in Calls /\ call[t] # Idle
    BY <1>1 DEF Inv, TypeOK, Busy
  <2> QED
    BY <1>1, <1>2, <2>1, Records DEF SameCalls, Busy
<1>5. /\ devCoord' \in Int /\ devMode' \in AnalogModes
      /\ "coord" \notin Setting(req) => devCoord' = devCoord
      /\ \A ch \in 1 .. 2 : ChannelName[ch] \notin Setting(req)
           => devMode'[ch] = devMode[ch]
  BY <1>1, TakesStep
<1>6. TypeOK'
  BY <1>2, <1>3, <1>5 DEF Inv, TypeOK, SameCalls
<1>7. \A setting : Asking(setting)' <=> Asking(setting)
  BY <1>2, <1>3, Static
<1>8. \A setting \in Setting(req) : Asking(setting)
  BY <1>1 DEF Asking
<1>9. CoordTracks' /\ ModeTracks'
  BY <1>3, <1>5, <1>7, <1>8 DEF Inv, CoordTracks, ModeTracks
<1>10. GrantHolds'
  <2> SUFFICES ASSUME NEW u \in Threads, Busy(u)', call'[u].single,
                      call'[u].phase \in {"granted", "accepted"}
               PROVE  /\ call'[u].req.kind = "coord"
                           => devCoord' = call'[u].req.value
                      /\ call'[u].req.kind = "mode"
                           => devMode'[call'[u].req.channel]
                                = call'[u].req.value
    BY DEF GrantHolds
  <2>1. CASE u = t
    BY <1>1, <1>4, <2>1, Kinds DEF Takes, Inv, TypeOK, AnalogModes
  <2>2. CASE u # t
    <3>1. call'[u] = call[u] /\ Busy(u)
      BY <1>2, <2>2 DEF Busy
    <3> QED
      BY <1>1, <2>2, <3>1, TakesStep
  <2> QED
    BY <2>1, <2>2
<1> QED
  BY <1>2, <1>3, <1>6, <1>9, <1>10, Static DEF Inv

(* A function goes on without a valid answer or with one: what it asked    *)
(* for is remembered; it is the controller's if the call was single and    *)
(* granted.                                                                *)
Ended(t) == call' = [call EXCEPT ![t] = Idle]

(* The end of a call and what the others keep.                            *)
LEMMA Ending ==
  ASSUME Inv, NEW t \in Threads, Busy(t), Ended(t), UNCHANGED aomode
  PROVE  /\ call' \in [Threads -> Calls] /\ call'[t] = Idle
         /\ \A u \in Threads \ {t} : call'[u] = call[u]
         /\ CallsLawful' /\ Exclusive' /\ ModeRecorded' /\ ValueFits'
         /\ \A setting : Asking(setting) =>
              Asking(setting)' \/ setting \in Setting(call[t].req)
<1>1. /\ call' \in [Threads -> Calls] /\ call'[t] = Idle
      /\ \A u \in Threads \ {t} : call'[u] = call[u]
  BY DEF Inv, TypeOK, Ended, Calls
<1>2. CallsLawful'
  BY <1>1 DEF Inv, CallsLawful, Busy
<1>3. Exclusive'
  BY <1>1 DEF Inv, Exclusive, Asks, Busy
<1>4. ModeRecorded'
  BY <1>1 DEF Inv, ModeRecorded, Busy
<1>5. ValueFits'
  BY <1>1 DEF Inv, ValueFits, InMode, Busy
<1>6. \A setting : Asking(setting) =>
        Asking(setting)' \/ setting \in Setting(call[t].req)
  BY <1>1 DEF Asking, Busy
<1> QED
  BY <1>1, <1>2, <1>3, <1>4, <1>5, <1>6

(* A setting that was answered is remembered, whatever the answer.         *)
LEMMA FinishStep ==
  ASSUME Inv, NEW t \in Threads, Busy(t), Finish(t), UNCHANGED alive
  PROVE  Inv'
<1> DEFINE req == call[t].req
           sure == /\ call[t].phase \in {"granted", "accepted"}
                   /\ call[t].single
<1>1. /\ Ended(t) /\ attached' = FALSE
      /\ UNCHANGED <<velj, accj, velx, accx, aomode, up, restarts, devCoord,
                     devMode>>
  BY DEF Finish, Ended, defaults, device
<1>2. /\ call' \in [Threads -> Calls] /\ call'[t] = Idle
      /\ \A u \in Threads \ {t} : call'[u] = call[u]
      /\ CallsLawful' /\ Exclusive' /\ ModeRecorded' /\ ValueFits'
      /\ \A setting : Asking(setting) =>
           Asking(setting)' \/ setting \in Setting(req)
  BY <1>1, Ending
<1>3. req \in Requests
  BY Records DEF Inv, TypeOK, Busy
<1>4. /\ req.kind = "coord" => coord' = req.value
      /\ req.kind # "coord" => coord' = coord
  BY DEF Finish, Stored
<1>5. /\ sure => unsure' = unsure \ Setting(req)
      /\ ~sure => unsure' = unsure \cup Setting(req)
  BY DEF Finish
<1>6. TypeOK'
  <2>1. coord' \in Int /\ IsRef(coord')
    BY <1>3, <1>4, Kinds DEF Inv, TypeOK
  <2>2. unsure' \subseteq Settings
    BY <1>3, <1>5, Sets DEF Inv, TypeOK
  <2> QED
    BY <1>1, <1>2, <2>1, <2>2 DEF Inv, TypeOK
<1>7. CoordTracks'
  <2> SUFFICES ASSUME "coord" \notin unsure', ~Asking("coord")'
               PROVE  coord' = devCoord
    BY <1>1 DEF CoordTracks
  <2>1. CASE req.kind = "coord"
    <3>1. sure
      BY <1>3, <1>5, <2>1, Sets
    <3> QED
      BY <1>4, <2>1, <3>1 DEF Inv, GrantHolds
  <2>2. CASE req.kind # "coord"
    <3>1. "coord" \notin Setting(req)
      BY <1>3, <2>2, Sets, Kinds, Names
    <3>2. "coord" \notin unsure /\ ~Asking("coord")
      BY <1>2, <1>5, <3>1
    <3> QED
      BY <1>4, <2>2, <3>2 DEF Inv, CoordTracks
  <2> QED
    BY <2>1, <2>2
<1>8. ModeTracks'
  <2> SUFFICES ASSUME NEW ch \in 1 .. 2, ChannelName[ch] \notin unsure',
                      ~Asking(ChannelName[ch])'
               PROVE  aomode[ch] = devMode[ch]
    BY <1>1 DEF ModeTracks
  <2>1. CASE ChannelName[ch] \in Setting(req)
    <3>1. req.kind = "mode" /\ req.channel = ch
      BY <1>3, <2>1, Sets, Kinds, Names
    <3>2. sure
      BY <1>5, <2>1
    <3> QED
      BY <3>1, <3>2 DEF Inv, GrantHolds, ModeRecorded
  <2>2. CASE ChannelName[ch] \notin Setting(req)
    <3>1. ChannelName[ch] \notin unsure /\ ~Asking(ChannelName[ch])
      BY <1>2, <1>5, <2>2
    <3> QED
      BY <3>1 DEF Inv, ModeTracks
  <2> QED
    BY <2>1, <2>2
<1>9. GrantHolds'
  BY <1>1, <1>2 DEF Inv, GrantHolds, Busy
<1> QED
  BY <1>2, <1>6, <1>7, <1>8, <1>9 DEF Inv

(* The wait ends with an exception: what was asked for is not sure any     *)
(* more, whatever the controller makes of it.                              *)
LEMMA LeaveStep ==
  ASSUME Inv, NEW t \in Threads, Busy(t), Leave(t), attached' \in BOOLEAN,
         Takes(call[t].req) \/ UNCHANGED device
  PROVE  Inv'
<1> DEFINE req == call[t].req
<1>1. /\ UNCHANGED <<alive, velj, accj, velx, accx, coord, aomode, up,
                     restarts>>
      /\ Ended(t) /\ unsure' = unsure \cup Setting(req)
  BY DEF Leave, Ended, Takes, defaults, device
<1>2. /\ call' \in [Threads -> Calls] /\ call'[t] = Idle
      /\ \A u \in Threads \ {t} : call'[u] = call[u]
      /\ CallsLawful' /\ Exclusive' /\ ModeRecorded' /\ ValueFits'
      /\ \A setting : Asking(setting) =>
           Asking(setting)' \/ setting \in Setting(req)
  BY <1>1, Ending
<1>3. req \in Requests
  BY Records DEF Inv, TypeOK, Busy
<1>4. /\ devCoord' \in Int /\ devMode' \in AnalogModes
      /\ "coord" \notin Setting(req) => devCoord' = devCoord
      /\ \A ch \in 1 .. 2 : ChannelName[ch] \notin Setting(req)
           => devMode'[ch] = devMode[ch]
  BY TakesStep DEF device, Inv, TypeOK
<1>5. TypeOK'
  <2>1. unsure' \subseteq Settings
    BY <1>1, <1>3, Sets DEF Inv, TypeOK
  <2> QED
    BY <1>1, <1>2, <1>4, <2>1 DEF Inv, TypeOK
<1>6. CoordTracks' /\ ModeTracks'
  BY <1>1, <1>2, <1>4 DEF Inv, CoordTracks, ModeTracks
<1>7. GrantHolds'
  <2> SUFFICES ASSUME NEW u \in Threads, Busy(u)', call'[u].single,
                      call'[u].phase \in {"granted", "accepted"}
               PROVE  /\ call'[u].req.kind = "coord"
                           => devCoord' = call'[u].req.value
                      /\ call'[u].req.kind = "mode"
                           => devMode'[call'[u].req.channel]
                                = call'[u].req.value
    BY DEF GrantHolds
  <2>1. u # t /\ call'[u] = call[u] /\ Busy(u)
    BY <1>2 DEF Busy
  <2>2. CASE Takes(req)
    BY <2>1, <2>2, TakesStep
  <2>3. CASE UNCHANGED device
    BY <2>1, <2>3 DEF Inv, GrantHolds, device
  <2> QED
    BY <2>2, <2>3
<1> QED
  BY <1>2, <1>5, <1>6, <1>7 DEF Inv

(* So with the wait for the service, ...                                   *)
LEMMA GiveUpStep == ASSUME Inv, NEW t \in Threads, GiveUp(t) PROVE Inv'
<1>1. attached' \in BOOLEAN
  BY DEF GiveUp, Inv, TypeOK
<1> QED
  BY <1>1, LeaveStep DEF GiveUp, In

(* ... the wait for an answer next to another, ...                         *)
LEMMA CollideStep == ASSUME Inv, NEW t \in Threads, Collide(t) PROVE Inv'
<1>1. attached' \in BOOLEAN
  BY DEF Collide
<1> QED
  BY <1>1, LeaveStep DEF Collide, In

(* ... and a message, which sets nothing.                                  *)
LEMMA PublishedStep ==
  ASSUME Inv, NEW t \in Threads, Published(t) PROVE Inv'
<1>1. attached' \in BOOLEAN
  BY DEF Published, Inv, TypeOK
<1> QED
  BY <1>1, LeaveStep DEF Published, In

(* When the controller goes down nothing is sure and no call is single.    *)
LEMMA DownStep == ASSUME Inv, GoDown PROVE Inv'
<1>1. /\ UNCHANGED <<alive, attached, velj, accj, velx, accx, coord, aomode>>
      /\ up' = FALSE /\ restarts < MaxRestarts /\ restarts' = restarts + 1
      /\ devCoord' = BASE /\ devMode' = [ch \in 1 .. 2 |-> 0 - 1]
      /\ unsure' = Settings
  BY DEF GoDown, defaults
<1>2. /\ SameCalls
      /\ \A u \in Threads : call'[u] # Idle => ~call'[u].single
  <2> DEFINE After(u) ==
        IF ~Busy(u) THEN call[u]
        ELSE [call[u] EXCEPT !.phase = IF @ = "sent" THEN "lost" ELSE @,
                             !.single = FALSE]
  <2>1. call' = [u \in Threads |-> After(u)]
    BY DEF GoDown
  <2> SUFFICES ASSUME NEW u \in Threads
               PROVE  /\ After(u) \in Calls
                      /\ After(u) = Idle <=> call[u] = Idle
                      /\ call[u] # Idle => /\ After(u).req = call[u].req
                                           /\ ~After(u).single
    BY <2>1 DEF SameCalls
  <2>2. call[u] \in Calls
    BY DEF Inv, TypeOK
  <2>3. CASE call[u] = Idle
    BY <2>2, <2>3 DEF Busy
  <2>4. CASE call[u] # Idle
    <3>1. call[u].phase \in Phases
      BY <2>2, <2>4, Records
    <3> DEFINE ph  == IF call[u].phase = "sent" THEN "lost" ELSE call[u].phase
               mid == [call[u] EXCEPT !.phase = ph]
               end == [mid EXCEPT !.single = FALSE]
    <3>2. ph \in Phases
      BY <3>1 DEF Phases, Waiting
    <3>3. After(u) = end
      BY <2>2, <2>4, <3>1 DEF Busy, Calls
    <3> HIDE DEF ph
    <3>4. mid \in Calls /\ mid # Idle /\ mid.req = call[u].req
      BY <2>2, <2>4, <3>2, Phased
    <3> HIDE DEF mid
    <3>5. end \in Calls /\ end # Idle /\ end.req = mid.req /\ ~end.single
      BY <3>4, Doubled
    <3> HIDE DEF end, After
    <3> QED
      BY <2>4, <3>3, <3>4, <3>5
  <2> QED
    BY <2>3, <2>4
<1>3. TypeOK'
  <2>1. restarts' \in 0 .. MaxRestarts
    BY <1>1, ApiAssumption DEF Inv, TypeOK
  <2>2. devCoord' \in Int /\ devMode' \in AnalogModes
    BY <1>1 DEF BASE, AnalogModes
  <2> QED
    BY <1>1, <1>2, <2>1, <2>2 DEF Inv, TypeOK, SameCalls
<1>4. CoordTracks' /\ ModeTracks'
  BY <1>1, Names DEF CoordTracks, ModeTracks, Settings
<1>5. GrantHolds'
  BY <1>2 DEF GrantHolds, Busy
<1> QED
  BY <1>1, <1>2, <1>3, <1>4, <1>5, Static DEF Inv

(* A function begins: the request it places disturbs the calls whose       *)
(* settings it changes, and those no longer count as single.               *)
LEMMA PlaceStep ==
  ASSUME Inv, NEW t \in Threads, ~Busy(t), NEW r, Lawful(r), InMode(r),
         NEW ph \in Phases, Place(t, r, ph),
         ph \notin {"granted", "accepted"}
  PROVE  Inv'
<1>1. /\ UNCHANGED <<alive, velj, accj, velx, accx, coord, up, restarts,
                     devCoord, devMode, unsure>>
      /\ r \in Requests /\ attached' \in BOOLEAN
  BY DEF Place, defaults, device, Lawful, Inv, TypeOK
<1>2. /\ r.kind = "mode" => aomode' = [aomode EXCEPT ![r.channel] = r.value]
      /\ r.kind # "mode" => aomode' = aomode
  BY DEF Place, Record
<1>3. aomode' \in AnalogModes
  BY <1>1, <1>2, Kinds DEF Inv, TypeOK, AnalogModes
<1>4. /\ call'[t] \in Calls \ {Idle} /\ call'[t].req = r
      /\ call'[t].phase = ph /\ call'[t].single \in BOOLEAN
      /\ call'[t].single => Alone(t, r)
  <2>1. call'[t] = InCall(ph, r, Alone(t, r))
    BY DEF Place
  <2>2. Alone(t, r) \in BOOLEAN
    BY DEF Alone
  <2> QED
    BY <1>1, <2>1, <2>2, Placed
<1>5. \A u \in Threads \ {t} :
        /\ call'[u] \in Calls
        /\ call'[u] = Idle <=> call[u] = Idle
        /\ call[u] # Idle =>
             /\ call'[u].req = call[u].req /\ call'[u].phase = call[u].phase
             /\ call'[u].single =>
                  /\ call[u].single
                  /\ \A setting \in Regards(call[u].req) :
                       setting \notin Setting(r)
  <2> TAKE u \in Threads \ {t}
  <2>1. call[u] \in Calls
    BY DEF Inv, TypeOK
  <2>2. CASE u \in Disturbed(t, r)
    <3>1. call'[u] = [call[u] EXCEPT !.single = FALSE] /\ call[u] # Idle
      BY <2>2 DEF Place, Disturbed, Busy
    <3> QED
      BY <2>1, <3>1, Doubled
  <2>3. CASE u \notin Disturbed(t, r)
    <3>1. call'[u] = call[u]
      BY <2>3 DEF Place
    <3>2. call[u] # Idle => Regards(call[u].req) \cap Setting(r) = {}
      BY <2>3 DEF Disturbed, Busy
    <3> QED
      BY <2>1, <3>1, <3>2
  <2> QED
    BY <2>2, <2>3
<1>6. call' \in [Threads -> Calls]
  <2>1. \A u \in Threads : call'[u] \in Calls
    BY <1>4, <1>5
  <2>2. call' = [u \in Threads |-> call'[u]]
    BY DEF Place
  <2> QED
    BY <2>1, <2>2
<1>7. TypeOK'
  BY <1>1, <1>3, <1>6 DEF Inv, TypeOK
<1>8. CallsLawful'
  BY <1>4, <1>5 DEF Inv, CallsLawful, Busy
<1>9. Exclusive'
  <2> SUFFICES ASSUME NEW v \in Threads, NEW u \in Threads, v # u,
                      call'[v] # Idle, call'[v].single,
                      NEW setting \in Regards(call'[v].req),
                      call'[u] # Idle, setting \in Setting(call'[u].req)
               PROVE  FALSE
    BY DEF Exclusive, Asks, Busy
  <2>1. CASE v = t
    BY <1>4, <1>5, <2>1 DEF Alone, Busy
  <2>2. CASE u = t
    BY <1>4, <1>5, <2>2
  <2>3. CASE v # t /\ u # t
    BY <1>5, <2>3 DEF Inv, Exclusive, Asks, Busy
  <2> QED
    BY <2>1, <2>2, <2>3
<1>10. \A setting :
         Asking(setting)' <=> Asking(setting) \/ setting \in Setting(r)
  BY <1>4, <1>5 DEF Asking, Busy
<1>11. CoordTracks'
  BY <1>1, <1>10 DEF Inv, CoordTracks
<1>12. \A ch \in 1 .. 2 : ChannelName[ch] \notin Setting(r)
         => aomode'[ch] = aomode[ch]
  BY <1>1, <1>2, Kinds, Sets DEF Inv, TypeOK, AnalogModes
<1>13. ModeTracks'
  BY <1>1, <1>10, <1>12 DEF Inv, ModeTracks
<1>14. GrantHolds'
  BY <1>1, <1>4, <1>5 DEF Inv, GrantHolds, Busy
<1>15. ModeRecorded'
  <2> SUFFICES ASSUME NEW u \in Threads, call'[u] # Idle, call'[u].single,
                      call'[u].req.kind = "mode"
               PROVE  aomode'[call'[u].req.channel] = call'[u].req.value
    BY DEF ModeRecorded, Busy
  <2>1. CASE u = t
    BY <1>1, <1>2, <1>4, <2>1, Kinds DEF Inv, TypeOK, AnalogModes
  <2>2. CASE u # t
    <3>1. call[u] # Idle /\ call'[u].req = call[u].req /\ call[u].single
      BY <1>5, <2>2
    <3>2. call[u].req \in Requests
      BY <3>1, Records DEF Inv, TypeOK
    <3>3. ChannelName[call[u].req.channel] \notin Setting(r)
      BY <1>5, <2>2, <3>1, <3>2, Sets
    <3>4. aomode'[call[u].req.channel] = aomode[call[u].req.channel]
      BY <1>12, <3>1, <3>2, <3>3, Kinds
    <3> QED
      BY <3>1, <3>4 DEF Inv, ModeRecorded, Busy
  <2> QED
    BY <2>1, <2>2
<1>16. ValueFits'
  <2> SUFFICES ASSUME NEW u \in Threads, call'[u] # Idle, call'[u].single,
                      call'[u].req.kind = "analog"
               PROVE  InRange(aomode'[call'[u].req.channel],
                              call'[u].req.value)
    BY DEF ValueFits, InMode, Busy
  <2>1. CASE u = t
    BY <1>2, <1>4, <2>1 DEF InMode
  <2>2. CASE u # t
    <3>1. call[u] # Idle /\ call'[u].req = call[u].req /\ call[u].single
      BY <1>5, <2>2
    <3>2. call[u].req \in Requests
      BY <3>1, Records DEF Inv, TypeOK
    <3>3. ChannelName[call[u].req.channel] \notin Setting(r)
      BY <1>5, <2>2, <3>1, <3>2, Sets
    <3>4. aomode'[call[u].req.channel] = aomode[call[u].req.channel]
      BY <1>12, <3>1, <3>2, <3>3, Kinds
    <3> QED
      BY <3>1, <3>4 DEF Inv, ValueFits, InMode, Busy
  <2> QED
    BY <2>1, <2>2
<1> QED
  BY <1>7, <1>8, <1>9, <1>11, <1>13, <1>14, <1>15, <1>16 DEF Inv

(* A check that raises changes no setting.                                *)
LEMMA FailStep == ASSUME Inv, NEW kind, Fail(kind) PROVE Inv'
<1>1. TypeOK'
  BY DEF Inv, TypeOK, Fail, defaults, calls, device
<1> QED
  BY <1>1, Quiet DEF Fail, calls, device

(* A function begins, in any outcome that is good.                        *)
LEMMA BeginsStep == ASSUME Inv, NEW t \in Threads, Begins(t) PROVE Inv'
<1>1. PICK o : Good(o) /\ Begin(t, o)
  BY DEF Begins
<1>2. CASE o.tag = "raise"
  BY <1>1, <1>2, FailStep DEF Begin
<1>3. CASE o.tag # "raise"
  <2>1. Lawful(o.req) /\ InMode(o.req) /\ ~Busy(t)
    BY <1>1, <1>3 DEF Good, Begin
  <2>2. CASE o.tag = "publish"
    <3>1. Fail("PYTHON") \/ Place(t, o.req, "published")
      BY <1>1, <2>2 DEF Begin
    <3>2. "published" \in Phases
      BY DEF Phases
    <3> QED
      BY <2>1, <3>1, <3>2, FailStep, PlaceStep
  <2>3. CASE o.tag = "post"
    <3>1. PICK ph \in {"seek", "sent", "lost"} : Place(t, o.req, ph)
      BY <1>1, <2>3 DEF Begin
    <3>2. ph \in Phases /\ ph \notin {"granted", "accepted"}
      BY DEF Phases, Waiting
    <3> QED
      BY <2>1, <3>1, <3>2, PlaceStep
  <2> QED
    BY <1>1, <1>3, <2>2, <2>3 DEF Good
<1> QED
  BY <1>2, <1>3

(* set_velj and its like.                                                  *)
LEMMA DefaultsStep ==
  ASSUME Inv, NEW t \in Threads, SpeedDefaults(t) PROVE Inv'
<1>1. CASE Fail("VALUE")
  BY <1>1, FailStep
<1>2. CASE ~Fail("VALUE")
  <2>1. /\ UNCHANGED <<alive, coord, aomode, call, attached, up, restarts,
                       devCoord, devMode, unsure>>
        /\ velj' \in Int \X Int /\ accj' \in Int \X Int
        /\ velx' \in Int \X Int /\ accx' \in Int \X Int
    BY <1>2, SpeedsPairs DEF Inv, TypeOK, SpeedDefaults, set_velj, set_accj,
       set_velx, set_accx, Default, calls, device
  <2>2. TypeOK'
    BY <2>1 DEF Inv, TypeOK
  <2> QED
    BY <2>1, <2>2, Quiet
<1> QED
  BY <1>1, <1>2

-----------------------------------------------------------------------------
(* Any function that a thread may call.                                   *)
LEMMA CallerStep == ASSUME Inv, NEW t \in Threads, Caller(t) PROVE Inv'
<1>1. CASE SpeedDefaults(t)
  BY <1>1, DefaultsStep
<1>2. CASE ~SpeedDefaults(t)
  <2>1. Begins(t)
    BY <1>2, BeginsCoord, BeginsSystem, BeginsQuestions, BeginsStreams,
       BeginsRealtime, BeginsMotions, BeginsControls, BeginsCoordinates,
       BeginsInOut, BeginsAnalog, BeginsProgram DEF Inv, Caller
  <2> QED
    BY <2>1, BeginsStep
<1> QED
  BY <1>1, <1>2

(* Any step of a call in progress.                                        *)
LEMMA ServiceStep == ASSUME Inv, NEW t \in Threads, Service(t) PROVE Inv'
<1>1. CASE Return(t) \/ Abandon(t)
  <2>1. Busy(t) /\ Finish(t) /\ UNCHANGED alive
    BY <1>1 DEF Return, Abandon, In, Finish
  <2> QED
    BY <2>1, FinishStep
<1> QED
  BY <1>1, PublishedStep, FindStep, GrantStep, RefuseStep, HandleStep,
     GiveUpStep DEF Service

(* Any step.                                                              *)
LEMMA StepInv == ASSUME Inv, [Next]_apiVars PROVE Inv'
<1>1. CASE \E t \in Threads : Caller(t) \/ Service(t) \/ Collide(t)
  BY <1>1, CallerStep, ServiceStep, CollideStep
<1>2. CASE ComeUp
  <2>1. TypeOK'
    BY <1>2 DEF Inv, TypeOK, ComeUp, defaults, calls
  <2> QED
    BY <1>2, <2>1, Quiet DEF ComeUp, calls
<1>3. CASE GoDown
  BY <1>3, DownStep
<1>4. CASE UNCHANGED apiVars
  <2>1. TypeOK'
    BY <1>4 DEF Inv, TypeOK, apiVars, defaults, calls, device
  <2> QED
    BY <1>4, <2>1, Quiet DEF apiVars, calls, device
<1> QED
  BY <1>1, <1>2, <1>3, <1>4 DEF Next

(* Everything that binds the calls to both sides holds at all times.       *)
THEOREM Invariance == Spec => []Inv
<1>1. InitCall => Inv
  BY InitInv
<1>2. Inv /\ [Next]_apiVars => Inv'
  BY StepInv
<1> QED
  BY <1>1, <1>2, PTL DEF Spec

-----------------------------------------------------------------------------
(* Every variable keeps its type; the reference is always one that the     *)
(* checks let through, and what a call asks one of the known requests.     *)
THEOREM ApiTypes == Spec => []TypeOK
<1>1. Inv => TypeOK
  BY DEF Inv
<1> QED
  BY <1>1, Invariance, PTL

(* DSR_ROBOT2.py L1397-L1417: whatever the threads do, the reference       *)
(* remembered is the controller's wherever it can be.                      *)
THEOREM Reference == Spec => []CoordTracks
<1>1. Inv => CoordTracks
  BY DEF Inv
<1> QED
  BY <1>1, Invariance, PTL

(* DSR_ROBOT2.py L5872-L5914: so are the modes of the analog outputs.      *)
THEOREM AnalogOutputs == Spec => []ModeTracks
<1>1. Inv => ModeTracks
  BY DEF Inv
<1> QED
  BY <1>1, Invariance, PTL

(* DSR_ROBOT2.py L433-L464, L1433-L1935, L2437-L3620: an untimed motion    *)
(* goes out with the speeds its kind of message needs, whatever the        *)
(* arguments and the defaults; of movej and movejx no speed is negative.   *)
THEOREM Speeded == Spec => []MotionUsable
<1>1. Inv => MotionUsable
  BY DEF Inv, CallsLawful, Lawful, MotionUsable, Moving
<1> QED
  BY <1>1, Invariance, PTL

(* DSR_ROBOT2.py L1420-L1935, L2437-L3620, L3883-L3895: nor one with the   *)
(* numbers of the wrong kind, but by movel, movec and alter_motion.        *)
THEOREM Numbered == Spec => []NumbersMatch
<1>1. Inv => NumbersMatch
  BY DEF Inv, CallsLawful, Lawful, NumbersMatch, Carrying
<1> QED
  BY <1>1, Invariance, PTL

(* DSR_ROBOT2.py L2554 and wherever else a function waits: never are all   *)
(* threads stranded, because the last to wait put the node in.             *)
THEOREM NeverAllStranded == Spec => []NotAllStranded
<1>1. InitCall => NotAllStranded
  BY DEF InitCall, NotAllStranded, Stranded, In, Busy
<1>2. ASSUME Inv, NotAllStranded, [Next]_apiVars PROVE NotAllStranded'
  <2>1. call \in [Threads -> Calls]
    BY <1>2 DEF Inv, TypeOK
  <2>2. ASSUME NEW t \in Threads, call'[t] = Idle PROVE NotAllStranded'
    BY <2>2 DEF NotAllStranded, In, Busy
  <2>3. ASSUME attached' PROVE NotAllStranded'
    BY <2>3 DEF NotAllStranded, Stranded
  <2>4. ASSUME attached' = attached,
               \A t \in Threads : In(t, Waiting)' <=> In(t, Waiting)
        PROVE  NotAllStranded'
    BY <1>2, <2>4 DEF NotAllStranded, Stranded
  <2>5. ASSUME NEW t \in Threads, NEW from \in SUBSET Waiting,
               NEW to \in Waiting, In(t, from), Goes(t, to),
               attached' = attached
        PROVE  NotAllStranded'
    <3>1. \A u \in Threads \ {t} : call'[u] = call[u]
      BY <2>1, <2>5 DEF Goes
    <3>2. call'[t] = [call[t] EXCEPT !.phase = to] /\ call[t] # Idle
      BY <2>1, <2>5 DEF Goes, In, Busy
    <3>3. In(t, Waiting) /\ In(t, Waiting)'
      BY <2>1, <2>5, <3>2, Phased DEF In, Busy, Phases
    <3> QED
      BY <2>4, <2>5, <3>1, <3>3 DEF In, Busy
  <2>6. ASSUME UNCHANGED calls PROVE NotAllStranded'
    BY <2>4, <2>6 DEF calls, In, Busy
  <2>7. ASSUME NEW t \in Threads, NEW r, NEW ph \in Phases,
               Place(t, r, ph), ~Busy(t)
        PROVE  NotAllStranded'
    <3>1. CASE ph \in Waiting
      BY <2>3, <2>7, <3>1 DEF Place
    <3>2. CASE ph \notin Waiting
      <4>1. call'[t].phase = ph
        BY <2>7 DEF Place, InCall
      <4> QED
        BY <3>2, <4>1 DEF NotAllStranded, In
    <3> QED
      BY <3>1, <3>2
  <2>8. ASSUME NEW t \in Threads, NEW o, Begin(t, o) PROVE NotAllStranded'
    <3>1. {"published", "seek", "sent", "lost"} \subseteq Phases
      BY DEF Phases, Waiting
    <3> QED
      BY <2>6, <2>7, <2>8, <3>1 DEF Begin, Fail
  <2>9. ASSUME NEW t \in Threads, Caller(t) PROVE NotAllStranded'
    <3>1. CASE SpeedDefaults(t)
      BY <2>6, <2>8, <3>1 DEF SpeedDefaults, set_velj, set_accj, set_velx,
         set_accx, Default, Fail
    <3>2. CASE ~SpeedDefaults(t)
      <4>1. Begins(t)
        BY <1>2, <2>9, <3>2, BeginsCoord, BeginsSystem, BeginsQuestions,
           BeginsStreams, BeginsRealtime, BeginsMotions, BeginsControls,
           BeginsCoordinates, BeginsInOut, BeginsAnalog, BeginsProgram
           DEF Inv, Caller
      <4> QED
        BY <2>8, <4>1 DEF Begins
    <3> QED
      BY <3>1, <3>2
  <2>10. ASSUME NEW t \in Threads, Service(t) \/ Collide(t)
         PROVE  NotAllStranded'
    <3>1. CASE Published(t) \/ GiveUp(t) \/ Collide(t)
      <4>1. call'[t] = Idle
        BY <2>1, <3>1 DEF Published, GiveUp, Collide, Leave
      <4> QED
        BY <2>2, <4>1
    <3>2. CASE Return(t) \/ Abandon(t)
      <4>1. call'[t] = Idle
        BY <2>1, <3>2 DEF Return, Abandon, Finish
      <4> QED
        BY <2>2, <4>1
    <3>3. CASE Find(t)
      BY <2>3, <3>3 DEF Find
    <3>4. CASE Grant(t) \/ Refuse(t)
      <4>1. /\ {"sent"} \subseteq Waiting
            /\ "granted" \in Waiting /\ "refused" \in Waiting
        BY DEF Waiting, Answered
      <4> QED
        BY <2>5, <3>4, <4>1 DEF Grant, Refuse
    <3>5. CASE Handle(t)
      <4>1. /\ Answered \subseteq Waiting
            /\ "accepted" \in Waiting /\ "rejected" \in Waiting
        BY DEF Waiting, Done
      <4> QED
        BY <2>5, <3>5, <4>1 DEF Handle
    <3> QED
      BY <2>10, <3>1, <3>2, <3>3, <3>4, <3>5 DEF Service
  <2>11. CASE GoDown
    <3>1. attached' = attached
      BY <2>11 DEF GoDown
    <3>2. \A t \in Threads : In(t, Waiting)' <=> In(t, Waiting)
      <4> TAKE t \in Threads
      <4>1. CASE ~Busy(t)
        BY <2>11, <4>1 DEF GoDown, In, Busy
      <4>2. CASE Busy(t)
        <5> DEFINE ph == IF call[t].phase = "sent" THEN "lost"
                         ELSE call[t].phase
        <5>1. call'[t] = [call[t] EXCEPT !.phase = ph, !.single = FALSE]
          BY <2>11, <4>2 DEF GoDown
        <5>2. call[t] \in Calls \ {Idle}
          BY <2>1, <4>2 DEF Busy
        <5>3. call'[t] # Idle /\ call'[t].phase = ph
          BY <5>1, <5>2 DEF Calls, Idle
        <5>4. ph \in Waiting <=> call[t].phase \in Waiting
          BY DEF Waiting
        <5> QED
          BY <4>2, <5>3, <5>4 DEF In, Busy
      <4> QED
        BY <4>1, <4>2
    <3> QED
      BY <2>4, <3>1, <3>2
  <2> QED
    BY <1>2, <2>6, <2>9, <2>10, <2>11 DEF Next, ComeUp, apiVars
<1> QED
  BY <1>1, <1>2, Invariance, PTL DEF Spec

(* DSR_ROBOT2.py L5817-L5914: a value that is granted fits the mode its    *)
(* output is in, when the mode was granted and none changed it meanwhile.  *)
THEOREM OutputsFit == Spec => OutputFitsMode
<1>1. ASSUME Inv, NEW t \in Threads, Busy(t), call[t].req.kind = "analog",
             call[t].single, ChannelName[call[t].req.channel] \notin unsure
      PROVE  InRange(devMode[call[t].req.channel], call[t].req.value)
  <2> DEFINE req == call[t].req
             name == ChannelName[req.channel]
  <2>1. req \in Requests
    BY <1>1, Records DEF Inv, TypeOK, Busy
  <2>2. /\ req.channel \in 1 .. 2
        /\ name \notin Setting(req) /\ name \in Regards(req)
    BY <1>1, <2>1, Kinds, Sets
  <2>3. ~Asking(name)
    BY <1>1, <2>2 DEF Inv, Exclusive, Asks, Asking
  <2>4. aomode[req.channel] = devMode[req.channel]
    BY <1>1, <2>2, <2>3 DEF Inv, ModeTracks
  <2>5. InRange(aomode[req.channel], req.value)
    BY <1>1 DEF Inv, ValueFits, InMode
  <2> QED
    BY <2>4, <2>5
<1>2. Inv /\ [Next]_apiVars =>
        [\A t \in Threads :
           /\ In(t, {"sent"}) /\ In(t, {"granted"})'
           /\ call[t].req.kind = "analog" /\ call[t].single
           /\ ChannelName[call[t].req.channel] \notin unsure
           => InRange(devMode[call[t].req.channel], call[t].req.value)]_apiVars
  BY <1>1 DEF In
<1> QED
  BY <1>2, Invariance, PTL DEF Spec, OutputFitsMode

=============================================================================
