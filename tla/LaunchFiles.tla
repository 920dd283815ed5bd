----------------------------- MODULE LaunchFiles -----------------------------
(***************************************************************************)
(* What the launch files of doosan-robot2 ask ROS 2 launch to do.  A       *)
(* launch file is a set of rules: on some event - the launch itself, the   *)
(* start or the exit of a process - start these processes, at once or when *)
(* a timer has run out.  An action that the file defines but does not put  *)
(* in the list it returns is no rule: the actions so forgotten, event      *)
(* handlers that were to delay a process among them, do not happen.        *)
(*                                                                         *)
(* The arguments that decide what is started are flags: mode is virtual,   *)
(* gui, remap_tf, a 2f85 gripper, whether a name (space) is given, and     *)
(* rt_host, which every file but one declares with a default; rviz and     *)
(* start_emulator are arguments of the tests' file alone.                  *)
(***************************************************************************)
EXTENDS Naturals, FiniteSets

Flags == {"virtual", "gui", "remap_tf", "gripper", "name", "rt_host", "rviz",
          "start_emulator"}

Rule(on, of, delayed, do) == [on |-> on, of |-> of, delayed |-> delayed, do |-> do]
Now(list, S)   == Rule("launch", list, FALSE, S)
Later(list, S) == Rule("launch", list, TRUE, S)     \* TimerAction
OnExit(p, S)   == Rule("exit", p, FALSE, S)         \* OnProcessExit
OnStart(p, S)  == Rule("start", p, TRUE, S)         \* OnProcessStart, TimerAction
If(condition, S) == IF condition THEN S ELSE {}

(* Mutant: included at once.                                               *)
IncludedAtOnce(p, rules) == rules

(* Mutant: included on the exit of the other spawner.                      *)
IncludedOnOtherExit(p, rules) ==
  {IF r.on = "launch" THEN [r EXCEPT !.on = "exit", !.of = "broadcaster_spawner"]
                      ELSE r : r \in rules}

(* IncludeLaunchDescription as the on_exit action of p.                    *)
IncludedOnExit(p, rules) ==
  {IF r.on = "launch" THEN [r EXCEPT !.on = "exit", !.of = p] ELSE r : r \in rules}

(* Mutant: neither group has a condition.                                  *)
BothTfGroups(o, S) == {Now("original_tf", S), Now("remapped_tf", S)}

(* Two groups with the same processes, of which the flag chooses one.      *)
TfGroups(o, S) == {Now("original_tf", If("remap_tf" \notin o, S)),
                   Now("remapped_tf", If("remap_tf" \in o, S))}

Emulator(o) == If("virtual" \in o, {"run_emulator"})
Gui(o)      == If("gui" \in o, {"rviz"})

-----------------------------------------------------------------------------
(* The files, one definition each.  With bringup_rviz, rviz always starts; *)
(* where the tf groups of the others hold it, with gui only.               *)
bringup_rviz(o) ==
  {Now("nodes", Emulator(o) \cup
       {"controller_spawner", "broadcaster_spawner", "control_node"})}
  \cup TfGroups(o, {"state_pub", "rviz"})

gazebo(o) ==
  {Now("nodes", {"gazebo", "spawn_entity"}), Later("nodes", {"sim_position_spawner"})}
  \cup TfGroups(o, {"sim_state_pub"})

spawn_on_gazebo(o) ==
  {Now("nodes", {"spawn_entity"}), Later("nodes", {"sim_position_spawner"})}
  \cup TfGroups(o, {"sim_state_pub"})

bringup_gazebo(o) ==
  {Now("nodes", Emulator(o) \cup
       {"connection", "controller_spawner", "broadcaster_spawner", "control_node"})}
  \cup TfGroups(o, {"state_pub"} \cup Gui(o))
  \cup IncludedOnExit("controller_spawner", gazebo(o))

bringup_spawn_on_gazebo(o) ==
  {Now("nodes", Emulator(o) \cup
       {"connection", "controller_spawner", "broadcaster_spawner", "control_node"})}
  \cup TfGroups(o, {"state_pub"} \cup Gui(o))
  \cup IncludedOnExit("controller_spawner", spawn_on_gazebo(o))

mujoco(o) ==
  {Now("nodes", {"mujoco"}),
   OnStart("mujoco", {"sim_broadcaster_spawner"}),
   OnStart("mujoco", {"sim_position_spawner"}
                     \cup If("gripper" \in o, {"sim_gripper_spawner"}))}

mujoco_default(o) ==
  {Now("nodes", {"mujoco"}),
   OnStart("mujoco", {"sim_broadcaster_spawner"}),
   OnStart("mujoco", {"sim_position_spawner"})}

bringup_mujoco(o) ==
  {Now("nodes", Emulator(o) \cup
       {"state_pub", "controller_spawner", "broadcaster_spawner", "control_node",
        "connection"}),
   OnExit("controller_spawner", Gui(o))}
  \cup IncludedOnExit("controller_spawner", mujoco(o))

(* The start.launch.py of each MoveIt configuration; the ten differ in     *)
(* file names and the default model only.  run_emulator decides itself     *)
(* whether there is something to emulate.                                  *)
start(o) ==
  {Now("nodes", {"run_emulator", "state_pub", "controller_spawner",
                 "broadcaster_spawner", "moveit_spawner", "control_node"}),
   OnExit("controller_spawner", {"move_group", "rviz"})}

bringup_moveit(o) == start(o)

(* The demo.launch.py of nine of them.  MoveItConfigsBuilder takes the     *)
(* package from the robot's name, a0509_moveit_config and the like, where  *)
(* these are called dsr_moveit_config_a0509: generate_launch_description    *)
(* raises and there is no list.                                            *)
demo(o) == {}

controller2(o) ==
  {Now("nodes", {"control_node", "state_pub", "broadcaster_spawner"}),
   OnExit("broadcaster_spawner", {"rviz"}),
   OnExit("broadcaster_spawner", {"controller_spawner"})}

visual_servoing_gazebo(o) ==
  {Now("nodes", {"sim_state_pub", "spawn_entity", "sim_broadcaster_spawner"}),
   Rule("exit", "sim_broadcaster_spawner", TRUE, {"sim_position_spawner"})}

(* rt_host is used by the first process of the list and declared nowhere:  *)
(* unless it is given the launch ends there, before anything is started.   *)
(* The handler that would start the controller after the broadcaster is    *)
(* registered, but the broadcaster is not in the list.                     *)
bringup_visual_servoing(o) ==
  If("rt_host" \in o,
     {Now("nodes", {"run_emulator", "connection", "state_pub", "camera_bridge",
                    "controller_spawner", "control_node"}),
      OnExit("controller_spawner", Gui(o)),
      OnExit("broadcaster_spawner", {"controller_spawner"})}
     \cup IncludedOnExit("controller_spawner", visual_servoing_gazebo(o)))

(* The tests launch these two one after the other; whether there is an     *)
(* emulator has nothing to do with the mode.                               *)
test_without_spawner(o) ==
  {Now("nodes", If("start_emulator" \in o, {"run_emulator"})
                \cup {"state_pub", "control_node"}
                \cup If("rviz" \in o, {"rviz"}))}

test_spawner_cli(o) ==
  {Now("nodes", {"controller_spawner", "broadcaster_spawner"})}

=============================================================================
