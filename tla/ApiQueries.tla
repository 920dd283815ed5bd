----------------------------- MODULE ApiQueries -----------------------------
(***************************************************************************)
(* DSR_ROBOT2.py, L466-L1430: the defaults for speeds, the system settings *)
(* and the questions about the robot.  None of these functions looks for   *)
(* its service, except set_robot_mode and set_safety_mode.                 *)
(***************************************************************************)
EXTENDS RobotCall

IntArgs == Ints \cup {Junk}
RefArgs == Refs \cup {None, Junk}

(* set_velj and its like end in one assignment, or raise.                  *)
Default(t, accepted, assign) ==
  /\ ~Busy(t)
  /\ IF accepted
     THEN assign /\ UNCHANGED <<alive, coord, aomode, calls, device, unsure>>
     ELSE Fail("VALUE")

AllPositive(s) == s[1] > 0 /\ s[2] > 0
FirstPositive(s) == s[1] > 0 /\ (s[2] # Unset => s[2] > 0)

set_velj(t) == \E v \in Speeds :
  Default(t, AllPositive(v), velj' = v /\ UNCHANGED <<accj, velx, accx>>)
set_accj(t) == \E a \in Speeds :
  Default(t, AllPositive(a), accj' = a /\ UNCHANGED <<velj, velx, accx>>)
set_velx(t) == \E v \in Speeds :
  Default(t, FirstPositive(v), velx' = v /\ UNCHANGED <<velj, accj, accx>>)
set_accx(t) == \E a \in Speeds :
  Default(t, FirstPositive(a), accx' = a /\ UNCHANGED <<velj, accj, velx>>)

SpeedDefaults(t) == set_velj(t) \/ set_accj(t) \/ set_velx(t) \/ set_accx(t)

-----------------------------------------------------------------------------
(* A question without arguments is posted and its answer handed on.        *)
Ask(t) == Begin(t, Post(Plain))

set_robot_mode(t) == \E m \in IntArgs :
  Begin(t, CheckInt(m, FindAndPost(Plain)))
get_robot_mode(t) == Ask(t)
set_robot_system(t) == \E s \in IntArgs : Begin(t, CheckInt(s, Post(Plain)))
get_robot_system_state(t) == Ask(t)
set_robot_speed_mode(t) == \E m \in IntArgs : Begin(t, CheckInt(m, Post(Plain)))
get_robot_speed_mode(t) == Ask(t)
set_safe_stop_reset_type(t) == \E r \in IntArgs :
  Begin(t, CheckInt(r, Post(Plain)))
set_safety_mode(t) == \E m, e \in IntArgs :
  Begin(t, CheckInt(m, CheckInt(e, FindAndPost(Plain))))

get_current_pose(t) == \E s \in IntArgs : Begin(t, CheckInt(s, Post(Plain)))
get_control_state(t) == Ask(t)   \* solution space, last alarm, control mode
get_joint_state(t) == Ask(t)     \* current and desired posj, velj
get_torque(t) == Ask(t)          \* solution space, joint and external torque

(* The tool coordinate is no answer to where the tool is: after            *)
(* set_ref_coord(DR_TOOL) a call without argument raises.                  *)
get_current_posx(t) == \E r \in RefArgs :
  LET ref == OrElse(r, coord) IN
  Begin(t, CheckInt(ref,
           Check(ref \in {BASE, WORLD} \/ IsUser(ref), "VALUE", Post(Plain))))

get_desired_posx(t) == \E r \in RefArgs :
  Begin(t, CheckRef(OrElse(r, coord), Post(Plain)))

get_current_tool_flange_posx(t) == \E r \in RefArgs :
  Begin(t, CheckFixedRef(r, Post(Plain)))
get_current_velx(t) == \E r \in RefArgs :
  Begin(t, CheckFixedRef(r, Post(Plain)))
get_desired_velx(t) == \E r \in RefArgs :
  Begin(t, CheckFixedRef(r, Post(Plain)))
get_current_rotm(t) == \E r \in RefArgs :
  Begin(t, CheckFixedRef(r, Post(Plain)))

get_tool_force(t) == \E r \in RefArgs :
  Begin(t, Check(OrElse(r, BASE) \in {BASE, TOOL, WORLD}, "VALUE",
                 Post(Plain)))

get_solution_space(t) == \E p \in Positions :
  Begin(t, CheckPosj(p, Filled(p, Post(Plain))))

Axes     == {0, 1, 2}        \* DR_AXIS_X, _Y, _Z
RotAxes  == {10, 11, 12}     \* DR_AXIS_A, _B, _C
Solutions == 0 .. 7

get_orientation_error(t) == \E d, c \in Positions, axis \in IntArgs :
  Begin(t, CheckPosx(d, CheckPosx(c, CheckIn(axis, Axes \cup RotAxes,
           Filled(d, Filled(c, Post(Plain)))))))

trans(t) == \E p, d \in Positions, r, out \in RefArgs :
  Begin(t, CheckPosx(p, CheckPosx(d, CheckRef(OrElse(r, coord),
           CheckInt(out, Check(IsRef(out) /\ out # TOOL, "VALUE",
           Filled(p, Filled(d, Post(Plain)))))))))

fkin(t) == \E p \in Positions, r \in RefArgs :
  Begin(t, CheckPosj(p, CheckFixedRef(r, Filled(p, Post(Plain)))))

ikin(t) == \E p \in Positions, sol \in IntArgs, r \in RefArgs :
  Begin(t, CheckPosx(p, CheckFixedRef(r, CheckIn(sol, Solutions,
           Filled(p, Post(Plain))))))

(* Mutant: any integer passes for a coordinate.                            *)
set_any_ref_coord(t) == \E c \in RefArgs :
  Begin(t, CheckInt(c, Post(SetCoord(c))))

set_ref_coord(t) == \E c \in RefArgs :
  Begin(t, CheckInt(c, Check(IsRef(c), "VALUE", Post(SetCoord(c)))))

System(t) ==
  \/ set_robot_mode(t) \/ get_robot_mode(t) \/ set_robot_system(t)
  \/ get_robot_system_state(t) \/ set_robot_speed_mode(t)
  \/ get_robot_speed_mode(t) \/ set_safe_stop_reset_type(t)
  \/ set_safety_mode(t)

Questions(t) ==
  \/ get_current_pose(t) \/ get_control_state(t) \/ get_joint_state(t)
  \/ get_torque(t) \/ get_current_posx(t) \/ get_desired_posx(t)
  \/ get_current_tool_flange_posx(t) \/ get_current_velx(t)
  \/ get_desired_velx(t) \/ get_current_rotm(t) \/ get_tool_force(t)
  \/ get_solution_space(t) \/ get_orientation_error(t) \/ trans(t)
  \/ fkin(t) \/ ikin(t)

=============================================================================
