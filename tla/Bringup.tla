------------------------------- MODULE Bringup -------------------------------
(***************************************************************************)
(* The launch system executing a launch file of the driver.  Processes run *)
(* and end; a spawner asks a controller manager to load, configure and     *)
(* activate one controller and exits; the handlers of OnProcessExit run    *)
(* whatever the exit code was.  control_node holds the controller manager  *)
(* of the driver and serves once on_init of the hardware interface has     *)
(* come back (module DriverInit); mujoco and an entity in Gazebo hold one  *)
(* of their own.                                                           *)
(***************************************************************************)
EXTENDS LaunchFiles

CONSTANTS Files,      \* names of the files one may launch
          Arguments,  \* the sets of flags they are launched with
          MaxFaults   \* bound: processes and spawners that fail

FileNames == {"bringup_rviz", "bringup_gazebo", "bringup_spawn_on_gazebo",
  "bringup_mujoco", "bringup_moveit", "start", "demo", "controller2",
  "bringup_visual_servoing", "gazebo", "spawn_on_gazebo", "mujoco",
  "mujoco_default", "visual_servoing_gazebo", "test_without_spawner",
  "test_spawner_cli"}

ASSUME BringupAssumption ==
  /\ Files \subseteq FileNames
  /\ Arguments \subseteq SUBSET Flags
  /\ MaxFaults \in Nat

RulesOf(f, o) ==
  CASE f = "bringup_rviz" -> bringup_rviz(o)
    [] f = "bringup_gazebo" -> bringup_gazebo(o)
    [] f = "bringup_spawn_on_gazebo" -> bringup_spawn_on_gazebo(o)
    [] f = "bringup_mujoco" -> bringup_mujoco(o)
    [] f = "bringup_moveit" -> bringup_moveit(o)
    [] f = "start" -> start(o)
    [] f = "demo" -> demo(o)
    [] f = "controller2" -> controller2(o)
    [] f = "bringup_visual_servoing" -> bringup_visual_servoing(o)
    [] f = "gazebo" -> gazebo(o)
    [] f = "spawn_on_gazebo" -> spawn_on_gazebo(o)
    [] f = "mujoco" -> mujoco(o)
    [] f = "mujoco_default" -> mujoco_default(o)
    [] f = "visual_servoing_gazebo" -> visual_servoing_gazebo(o)
    [] f = "test_without_spawner" -> test_without_spawner(o)
    [] f = "test_spawner_cli" -> test_spawner_cli(o)

(* What a spawner activates, and the process whose controller manager it   *)
(* asks.                                                                   *)
Controller ==
  [controller_spawner |-> "dsr_controller2",
   broadcaster_spawner |-> "joint_state_broadcaster",
   moveit_spawner |-> "dsr_moveit_controller",
   sim_broadcaster_spawner |-> "sim_joint_state_broadcaster",
   sim_position_spawner |-> "dsr_position_controller",
   sim_gripper_spawner |-> "left_knuckle_position_controller"]
Spawners == DOMAIN Controller
Simulated(s) == s \in {"sim_broadcaster_spawner", "sim_position_spawner",
                       "sim_gripper_spawner"}
Hosts(s) == IF Simulated(s) THEN {"mujoco", "spawn_entity"} ELSE {"control_node"}

Processes == Spawners \cup
  {"run_emulator", "control_node", "state_pub", "rviz", "move_group",
   "connection", "camera_bridge", "gazebo", "spawn_entity", "sim_state_pub",
   "mujoco"}

VARIABLES
  launched,    \* the files launched so far
  flags,       \* the arguments they were given
  rules,       \* what they registered
  proc,        \* per process: not started, running, ended well or not
  count,       \* per process: how often its action was executed
  timers,      \* processes that a timer will start
  serving,     \* processes whose controller manager has hardware to offer
  active,      \* controllers that are active
  faults

vars == <<launched, flags, rules, proc, count, timers, serving, active, faults>>

Init ==
  /\ launched = {} /\ flags \in Arguments /\ rules = {}
  /\ proc = [p \in Processes |-> "none"]
  /\ count = [p \in Processes |-> 0]
  /\ timers = {} /\ serving = {} /\ active = {} /\ faults = 0

(* Executing rules: the processes they start at once, those whose timers   *)
(* begin, and the timers that begin because a process has started.         *)
Do(fired) == UNION {r.do : r \in {x \in fired : ~x.delayed}}
Wait(fired, all) ==
  (UNION {r.do : r \in {x \in fired : x.delayed}}) \cup
  (UNION {r.do : r \in {x \in all : x.on = "start" /\ x.of \in Do(fired)}})
Times(fired, p) == Cardinality({r \in fired : ~r.delayed /\ p \in r.do})

Execute(fired, all, ended, how) ==
  /\ proc' = [p \in Processes |->
                IF p \in Do(fired) THEN "running"
                ELSE IF p \in ended THEN how ELSE proc[p]]
  /\ count' = [p \in Processes |-> count[p] + Times(fired, p)]
  /\ timers' = timers \cup Wait(fired, all)

(* The tests launch a second file into a running system.                   *)
LaunchFile(f) ==
  /\ f \in Files
  /\ \/ launched = {} /\ f # "test_spawner_cli"
     \/ launched = {"test_without_spawner"} /\ f = "test_spawner_cli"
  /\ launched' = launched \cup {f}
  /\ LET new == RulesOf(f, flags) IN
     /\ rules' = rules \cup new
     /\ Execute({r \in new : r.on = "launch"}, new, {}, "none")
  /\ UNCHANGED <<flags, serving, active, faults>>

TimerAction(p) ==
  /\ p \in timers
  /\ timers' = timers \ {p}
  /\ proc' = [proc EXCEPT ![p] = "running"]
  /\ count' = [count EXCEPT ![p] = @ + 1]
  /\ UNCHANGED <<launched, flags, rules, serving, active, faults>>

(* Mutant: the handlers run after a success only.                          *)
OnProcessDone(p, how) ==
  Execute({r \in rules : r.on = "exit" /\ r.of = p /\ how = "done"}, rules,
          {p}, how)

OnProcessExit(p, how) ==
  Execute({r \in rules : r.on = "exit" /\ r.of = p}, rules, {p}, how)

-----------------------------------------------------------------------------
(* The controller managers.  In virtual mode the driver has a controller   *)
(* to connect to only while the emulator runs, which run_emulator removes  *)
(* as it ends; a robot that is not there, or an emulator someone else      *)
(* started, is not part of the launch.  The entity exists in a Gazebo that *)
(* this launch or another one started.                                     *)
Connected == "virtual" \in flags /\ count["run_emulator"] > 0
               => proc["run_emulator"] = "running"

Serve(p) ==
  /\ proc[p] = "running" /\ p \in {"control_node", "mujoco"} \ serving
  /\ p = "control_node" => Connected
  /\ serving' = serving \cup {p}
  /\ UNCHANGED <<launched, flags, rules, proc, count, timers, active, faults>>

SpawnEntity ==
  /\ proc["spawn_entity"] = "running"
  /\ count["gazebo"] > 0 => proc["gazebo"] = "running"
  /\ serving' = serving \cup {"spawn_entity"}
  /\ OnProcessExit("spawn_entity", "done")
  /\ UNCHANGED <<launched, flags, rules, active, faults>>

(* The spawners of controller2 name the controller manager of the root     *)
(* name space, where control_node is only without a name.                  *)
Reachable(s) == launched = {"controller2"} => "name" \notin flags

(* Mutant: what is activated goes by the name of the spawner.              *)
LoadSpawner(s) ==
  /\ proc[s] = "running" /\ Reachable(s) /\ Hosts(s) \cap serving # {}
  /\ active' = active \cup {s}
  /\ OnProcessExit(s, "done")
  /\ UNCHANGED <<launched, flags, rules, serving, faults>>

Load(s) ==
  /\ proc[s] = "running" /\ Reachable(s) /\ Hosts(s) \cap serving # {}
  /\ active' = active \cup {Controller[s]}
  /\ OnProcessExit(s, "done")
  /\ UNCHANGED <<launched, flags, rules, serving, faults>>

(* A spawner gives up: it found no controller manager in time, or its      *)
(* controller did not load, configure or activate.                         *)
GiveUp(s) ==
  /\ proc[s] = "running" /\ faults < MaxFaults
  /\ faults' = faults + 1
  /\ OnProcessExit(s, "failed")
  /\ UNCHANGED <<launched, flags, rules, serving, active>>

(* Any other process ends; its controllers are gone with it.  The entity   *)
(* is part of the process gazebo.                                          *)
Lost(p) == {Controller[s] : s \in {x \in Spawners :
              \/ p \in Hosts(x)
              \/ p = "gazebo" /\ "spawn_entity" \in Hosts(x)}}

Die(p) ==
  /\ p \notin Spawners /\ proc[p] = "running" /\ faults < MaxFaults
  /\ faults' = faults + 1
  /\ OnProcessExit(p, "failed")
  /\ serving' = serving \ (IF p = "gazebo" THEN {"spawn_entity"} ELSE {p})
  /\ active' = active \ Lost(p)
  /\ UNCHANGED <<launched, flags, rules>>

(* GetCurrentPose has no pose to give and read reports an error: the       *)
(* controller manager lets the hardware go, and the controllers with it.   *)
(* The library may as well go on to give the last pose it had.             *)
ReadFails ==
  /\ "control_node" \in serving /\ ~Connected
  /\ serving' = serving \ {"control_node"}
  /\ active' = active \ Lost("control_node")
  /\ UNCHANGED <<launched, flags, rules, proc, count, timers, faults>>

Next ==
  \/ \E f \in Files : LaunchFile(f)
  \/ \E p \in Processes : TimerAction(p) \/ Serve(p) \/ Die(p)
  \/ SpawnEntity \/ ReadFails
  \/ \E s \in Spawners : Load(s) \/ GiveUp(s)

(* The launch system handles its events, controller managers come up and   *)
(* spawners that reach one end.                                            *)
Fairness ==
  /\ \A f \in Files : WF_vars(LaunchFile(f))
  /\ \A p \in Processes : WF_vars(TimerAction(p)) /\ WF_vars(Serve(p))
  /\ WF_vars(SpawnEntity)
  /\ \A s \in Spawners : WF_vars(Load(s))

Spec == Init /\ [][Next]_vars /\ Fairness

-----------------------------------------------------------------------------
(* Every variable has its type.                                            *)
TypeOK ==
  /\ launched \subseteq Files /\ flags \in Arguments
  /\ proc \in [Processes -> {"none", "running", "done", "failed"}]
  /\ count \in [Processes -> Nat]
  /\ timers \subseteq Processes /\ serving \subseteq Processes
  /\ active \subseteq {Controller[s] : s \in Spawners}
  /\ faults \in 0 .. MaxFaults

(* No action is executed twice, which the launch system refuses: each      *)
(* process belongs to one list or handler that happens, though the tf      *)
(* groups and handlers of the files name many of them more than once.      *)
StartedOnce == \A p \in Processes : count[p] <= 1

Ended(p) == proc[p] \in {"done", "failed"}
Started(p) == count[p] > 0

(* The simulation of a bringup, whose position controller follows what     *)
(* the driver reports, is started only when the spawner of dsr_controller2 *)
(* is through; so are rviz and move_group of the MoveIt configurations,    *)
(* and the controller itself comes after the broadcaster in controller2.   *)
Bringups == {"bringup_gazebo", "bringup_spawn_on_gazebo", "bringup_mujoco",
             "bringup_visual_servoing"}
InOrder ==
  /\ launched \cap Bringups # {} /\ (Started("spawn_entity") \/ Started("mujoco"))
       => Ended("controller_spawner")
  /\ launched \cap {"start", "bringup_moveit"} # {} /\ Started("move_group")
       => Ended("controller_spawner")
  /\ launched = {"controller2"} /\ Started("controller_spawner")
       => Ended("broadcaster_spawner")

(* Gone for good: no controller manager will be, or is any more, there.    *)
(* The robot spawned into Gazebo goes with it, the hardware of the driver  *)
(* with the emulator.                                                      *)
Gone(h) == \/ proc[h] = "failed"
           \/ h = "control_node" /\ ~Connected
           \/ h = "spawn_entity" /\ proc["gazebo"] = "failed"

(* A simulation beside a driver runs with the controller of the driver     *)
(* active, whatever else failed: only where the spawner of that controller *)
(* itself did, or the driver or its emulator is gone, it may not be.       *)
SimulationDriven ==
  /\ Started("control_node") /\ (Started("spawn_entity") \/ Started("mujoco"))
  /\ proc["controller_spawner"] # "failed" /\ ~Gone("control_node")
  => Controller["controller_spawner"] \in active

(* Everything that the launched files ever start is started in the end:    *)
(* what waits for an exit is wanted once that process has ended, well or   *)
(* not, so that no failure keeps anything else from starting.  And every   *)
(* controller a spawner asked for is active, unless that spawner failed,   *)
(* a name hides the controller manager of controller2 from it, or the      *)
(* process with the controller manager, or the robot behind it, is gone:   *)
(* the death of any other process costs no controller.                     *)
Wanted == {p \in Processes : \E r \in rules :
             /\ p \in r.do
             /\ r.on = "exit" => Ended(r.of)
             /\ r.on = "start" => Started(r.of)}
Complete == /\ \A p \in Wanted : Started(p)
            /\ \A s \in Wanted \cap Spawners :
                 \/ proc[s] = "failed" \/ Controller[s] \in active
                 \/ ~Reachable(s) \/ \E h \in Hosts(s) : Gone(h)
Settles == []<>(launched # {} /\ Complete)

=============================================================================
