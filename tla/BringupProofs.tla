---------------------------- MODULE BringupProofs ----------------------------
(***************************************************************************)
(* Proofs about Bringup, for every set of files and arguments and any      *)
(* number of failures.  A process is started once because at most one rule *)
(* that may come to pass names it, and because the event of a rule happens *)
(* once: the first half is about the launch files, the second about the    *)
(* launch system.                                                          *)
(***************************************************************************)
EXTENDS Bringup, FiniteSetTheorems, TLAPS

(* A rule that may come to pass: its event is the launch itself, or one of *)
(* a process that some rule starts.                                        *)
Live(R, r)  == r.on = "launch" \/ \E x \in R : r.of \in x.do
(* No two rules that may come to pass name the same process.               *)
OneCause(R) == \A r, x \in R : /\ Live(R, r) /\ Live(R, x)
                               /\ r.do \cap x.do # {}
                               => r = x

(* Rules of processes, about processes.                                    *)
Names(R)  == UNION {r.do : r \in R}
Proper(R) == /\ Names(R) \subseteq Processes
             /\ \A r \in R : r.on = "launch" \/ r.of \in Processes

(* Rules that name the processes of S, none of them twice.                 *)
Apart(R, S) == /\ Names(R) \subseteq S
               /\ \A r, x \in R : r.do \cap x.do # {} => r = x
               /\ \A r \in R : r.on = "launch" \/ r.of \in Processes

-----------------------------------------------------------------------------
(* The processes by name.                                                  *)
LEMMA SpawnerNames ==
  Spawners = {"controller_spawner", "broadcaster_spawner", "moveit_spawner",
              "sim_broadcaster_spawner", "sim_position_spawner",
              "sim_gripper_spawner"}
BY DEF Spawners, Controller

(* A rule by itself.                                                       *)
LEMMA ApartOne ==
  ASSUME NEW r, NEW S, r.do = S, r.on = "launch" \/ r.of \in Processes
  PROVE  Apart({r}, S)
BY DEF Apart, Names

(* Processes started at the launch.                                        *)
LEMMA ApartNow == \A S : Apart({Now("nodes", S)}, S)
<1> TAKE S
<1> DEFINE r == Now("nodes", S)
<1>1. r.do = S /\ r.on = "launch"
  BY DEF Now, Rule
<1> QED
  BY <1>1, ApartOne

(* Processes started by a timer.                                           *)
LEMMA ApartLater == \A S : Apart({Later("nodes", S)}, S)
<1> TAKE S
<1> DEFINE r == Later("nodes", S)
<1>1. r.do = S /\ r.on = "launch"
  BY DEF Later, Rule
<1> QED
  BY <1>1, ApartOne

(* Processes started when another one exits.                               *)
LEMMA ApartOnExit == \A p \in Processes : \A S : Apart({OnExit(p, S)}, S)
<1> TAKE p \in Processes
<1> TAKE S
<1> DEFINE r == OnExit(p, S)
<1>1. r.do = S /\ r.of = p
  BY DEF OnExit, Rule
<1> QED
  BY <1>1, ApartOne

(* Processes started by a timer when another one starts.                   *)
LEMMA ApartOnStart == \A p \in Processes : \A S : Apart({OnStart(p, S)}, S)
<1> TAKE p \in Processes
<1> TAKE S
<1> DEFINE r == OnStart(p, S)
<1>1. r.do = S /\ r.of = p
  BY DEF OnStart, Rule
<1> QED
  BY <1>1, ApartOne

(* Fewer names.                                                            *)
LEMMA ApartWider ==
  ASSUME NEW R, NEW S, NEW T, Apart(R, S), S \subseteq T
  PROVE  Apart(R, T)
BY DEF Apart

(* What a condition leaves.                                                *)
LEMMA Switched ==
  \A o : /\ Emulator(o) \subseteq {"run_emulator"} /\ Gui(o) \subseteq {"rviz"}
         /\ If("gripper" \in o, {"sim_gripper_spawner"})
              \subseteq {"sim_gripper_spawner"}
BY DEF Emulator, Gui, If

(* Lists that have no process in common.                                   *)
LEMMA ApartBoth ==
  ASSUME NEW R, NEW Q, NEW S, NEW T, Apart(R, S), Apart(Q, T), S \cap T = {}
  PROVE  Apart(R \cup Q, S \cup T)
BY DEF Apart, Names

(* The two groups never both hold something.                               *)
LEMMA ApartTf ==
  ASSUME NEW o, NEW S
  PROVE  Apart(TfGroups(o, S), S)
<1> DEFINE A == If("remap_tf" \notin o, S)
           B == If("remap_tf" \in o, S)
<1>1. (A = S /\ B = {}) \/ (A = {} /\ B = S)
  BY DEF If
<1>2. TfGroups(o, S) = {Now("original_tf", A), Now("remapped_tf", B)}
  BY DEF TfGroups
<1> HIDE DEF A, B
<1> DEFINE a == Now("original_tf", A)
           b == Now("remapped_tf", B)
<1>3. a.do = A /\ b.do = B /\ a.on = "launch" /\ b.on = "launch"
  BY DEF Now, Rule
<1> HIDE DEF a, b
<1>4. TfGroups(o, S) = {a, b}
  BY <1>2 DEF a, b
<1> QED
  BY <1>1, <1>3, <1>4 DEF Apart, Names

(* Inclusion changes events only.                                          *)
LEMMA ApartIncluded ==
  ASSUME NEW p \in Processes, NEW R, NEW S, Apart(R, S)
  PROVE  Apart(IncludedOnExit(p, R), S)
<1> DEFINE M(r) == IF r.on = "launch" THEN [r EXCEPT !.on = "exit", !.of = p]
                   ELSE r
<1>1. \A r \in R : /\ M(r).do = r.do
                   /\ M(r).on = "launch" \/ M(r).of \in Processes
  BY DEF Apart
<1>2. IncludedOnExit(p, R) = {M(r) : r \in R}
  BY DEF IncludedOnExit
<1> HIDE DEF M
<1> QED
  BY <1>1, <1>2 DEF Names, Apart

(* Rules that start processes of S on the exit of p only.                  *)
After(R, p, S) ==
  \A r \in R : r.do \cap S # {} => r.on = "exit" /\ r.of = p
Sims == {"spawn_entity", "mujoco"}

(* Rules about other processes change nothing of it.                       *)
LEMMA AfterBoth ==
  ASSUME NEW R, NEW Q, NEW p, NEW S, NEW T, Apart(R, T), T \cap S = {},
         After(Q, p, S)
  PROVE  After(R \cup Q, p, S)
BY DEF After, Apart, Names

(* A file included on the exit of p starts everything after p.             *)
LEMMA AfterIncluded ==
  ASSUME NEW R, NEW p, NEW S, \A r \in R : r.do \cap S # {} => r.on = "launch"
  PROVE  After(IncludedOnExit(p, R), p, S)
<1> DEFINE M(r) == IF r.on = "launch" THEN [r EXCEPT !.on = "exit", !.of = p]
                   ELSE r
<1>1. IncludedOnExit(p, R) = {M(r) : r \in R}
  BY DEF IncludedOnExit
<1>2. ASSUME NEW r \in R, M(r).do \cap S # {}
      PROVE  M(r).on = "exit" /\ M(r).of = p
  <2>1. M(r).do = r.do
    OBVIOUS
  <2>2. r.on = "launch"
    BY <1>2, <2>1
  <2> QED
    BY <2>2
<1> HIDE DEF M
<1> QED
  BY <1>1, <1>2 DEF After

(* What the proofs of the launch system use.                               *)
LEMMA ApartUsed ==
  ASSUME NEW R, NEW S \in SUBSET Processes, Apart(R, S)
  PROVE  OneCause(R) /\ Proper(R)
BY DEF Apart, OneCause, Proper

-----------------------------------------------------------------------------
(* The files that others include.                                          *)
LEMMA ApartGazebo ==
  \A o : Apart(gazebo(o), {"gazebo", "spawn_entity", "sim_position_spawner",
                           "sim_state_pub"})
<1> TAKE o
<1> DEFINE a == {Now("nodes", {"gazebo", "spawn_entity"})}
           b == {Later("nodes", {"sim_position_spawner"})}
           c == TfGroups(o, {"sim_state_pub"})
<1>1. /\ Apart(a, {"gazebo", "spawn_entity"})
      /\ Apart(b, {"sim_position_spawner"}) /\ Apart(c, {"sim_state_pub"})
  BY ApartNow, ApartLater, ApartTf
<1>2. gazebo(o) = (a \cup b) \cup c
  BY DEF gazebo
<1> HIDE DEF a, b, c
<1>3. Apart(a \cup b, {"gazebo", "spawn_entity", "sim_position_spawner"})
  BY <1>1, ApartBoth, ApartWider
<1> QED
  BY <1>1, <1>2, <1>3, ApartBoth, ApartWider

(* The file that spawns the robot into a running Gazebo.                   *)
LEMMA ApartSpawnOnGazebo ==
  \A o : Apart(spawn_on_gazebo(o), {"spawn_entity", "sim_position_spawner",
                                    "sim_state_pub"})
<1> TAKE o
<1> DEFINE a == {Now("nodes", {"spawn_entity"})}
           b == {Later("nodes", {"sim_position_spawner"})}
           c == TfGroups(o, {"sim_state_pub"})
<1>1. /\ Apart(a, {"spawn_entity"})
      /\ Apart(b, {"sim_position_spawner"}) /\ Apart(c, {"sim_state_pub"})
  BY ApartNow, ApartLater, ApartTf
<1>2. spawn_on_gazebo(o) = (a \cup b) \cup c
  BY DEF spawn_on_gazebo
<1> HIDE DEF a, b, c
<1>3. Apart(a \cup b, {"spawn_entity", "sim_position_spawner"})
  BY <1>1, ApartBoth, ApartWider
<1> QED
  BY <1>1, <1>2, <1>3, ApartBoth, ApartWider

(* The MuJoCo simulation, with and without a gripper.                      *)
LEMMA ApartMujoco ==
  \A o : Apart(mujoco(o), {"mujoco", "sim_broadcaster_spawner",
                           "sim_position_spawner", "sim_gripper_spawner"})
<1> TAKE o
<1> DEFINE g == If("gripper" \in o, {"sim_gripper_spawner"})
           x == Now("nodes", {"mujoco"})
           y == OnStart("mujoco", {"sim_broadcaster_spawner"})
           z == OnStart("mujoco", {"sim_position_spawner"} \cup g)
<1>1. mujoco(o) = {x, y, z}
  BY DEF mujoco
<1>2. g \subseteq {"sim_gripper_spawner"}
  BY Switched
<1> HIDE DEF g
<1>3. /\ Apart({x}, {"mujoco"}) /\ Apart({y}, {"sim_broadcaster_spawner"})
      /\ Apart({z}, {"sim_position_spawner"} \cup g)
  BY ApartNow, ApartOnStart DEF Processes
<1> HIDE DEF x, y, z
<1>4. Apart({x} \cup {y}, {"mujoco", "sim_broadcaster_spawner"})
  BY <1>3, ApartBoth, ApartWider
<1>5. Apart({z}, {"sim_position_spawner", "sim_gripper_spawner"})
  <2>1. {"sim_position_spawner"} \cup g
           \subseteq {"sim_position_spawner", "sim_gripper_spawner"}
    BY <1>2
  <2> QED
    BY <2>1, <1>3, ApartWider
<1>6. mujoco(o) = ({x} \cup {y}) \cup {z}
  BY <1>1
<1> QED
  BY <1>4, <1>5, <1>6, ApartBoth, ApartWider

(* The MuJoCo simulation of the first launch file.                         *)
LEMMA ApartMujocoDefault ==
  \A o : Apart(mujoco_default(o), {"mujoco", "sim_broadcaster_spawner",
                                   "sim_position_spawner"})
<1> TAKE o
<1> DEFINE x == Now("nodes", {"mujoco"})
           y == OnStart("mujoco", {"sim_broadcaster_spawner"})
           z == OnStart("mujoco", {"sim_position_spawner"})
<1>1. mujoco_default(o) = {x, y, z}
  BY DEF mujoco_default
<1>2. /\ Apart({x}, {"mujoco"}) /\ Apart({y}, {"sim_broadcaster_spawner"})
      /\ Apart({z}, {"sim_position_spawner"})
  BY ApartNow, ApartOnStart DEF Processes
<1> HIDE DEF x, y, z
<1>3. mujoco_default(o) = ({x} \cup {y}) \cup {z}
  BY <1>1
<1>4. Apart({x} \cup {y}, {"mujoco", "sim_broadcaster_spawner"})
  BY <1>2, ApartBoth, ApartWider
<1> QED
  BY <1>2, <1>3, <1>4, ApartBoth, ApartWider

(* The simulation of the visual servoing example.                          *)
LEMMA ApartVisualServoing ==
  \A o : Apart(visual_servoing_gazebo(o),
               {"sim_state_pub", "spawn_entity", "sim_broadcaster_spawner",
                "sim_position_spawner"})
<1> TAKE o
<1> DEFINE x == Now("nodes", {"sim_state_pub", "spawn_entity",
                              "sim_broadcaster_spawner"})
           y == Rule("exit", "sim_broadcaster_spawner", TRUE,
                     {"sim_position_spawner"})
<1>1. visual_servoing_gazebo(o) = {x} \cup {y}
  BY DEF visual_servoing_gazebo
<1>2. y.do = {"sim_position_spawner"} /\ y.of = "sim_broadcaster_spawner"
  BY DEF Rule
<1>3. Apart({x}, {"sim_state_pub", "spawn_entity", "sim_broadcaster_spawner"})
  BY ApartNow
<1> HIDE DEF x, y
<1>4. Apart({y}, {"sim_position_spawner"})
  BY <1>2, ApartOne, SpawnerNames DEF Processes
<1> QED
  BY <1>1, <1>3, <1>4, ApartBoth, ApartWider

-----------------------------------------------------------------------------
(* The files of the driver: its processes, and what may start beside them. *)
Driver == {"run_emulator", "control_node", "controller_spawner",
           "broadcaster_spawner"}

(* The emulator and what is launched with it.                              *)
LEMMA ApartDriver ==
  ASSUME NEW o, NEW S, S \cap {"run_emulator"} = {}
  PROVE  Apart({Now("nodes", Emulator(o) \cup S)}, {"run_emulator"} \cup S)
BY ApartNow, ApartWider, Switched

(* The driver with rviz beside it.                                         *)
LEMMA ApartRviz ==
  \A o : Apart(bringup_rviz(o), Driver \cup {"state_pub", "rviz"})
<1> TAKE o
<1> DEFINE S == {"controller_spawner", "broadcaster_spawner", "control_node"}
           a == {Now("nodes", Emulator(o) \cup S)}
           b == TfGroups(o, {"state_pub", "rviz"})
<1>1. Apart(a, {"run_emulator"} \cup S) /\ Apart(b, {"state_pub", "rviz"})
  BY ApartDriver, ApartTf
<1>2. bringup_rviz(o) = a \cup b
  BY DEF bringup_rviz
<1> HIDE DEF a, b
<1> QED
  BY <1>1, <1>2, ApartBoth, ApartWider DEF Driver

(* The list and the groups of the two bringups that start a Gazebo.        *)
LEMMA ApartBeforeGazebo ==
  \A o : Apart({Now("nodes", Emulator(o) \cup
                   {"connection", "controller_spawner", "broadcaster_spawner",
                    "control_node"})}
               \cup TfGroups(o, {"state_pub"} \cup Gui(o)),
               Driver \cup {"connection", "state_pub", "rviz"})
<1> TAKE o
<1> DEFINE S == {"connection", "controller_spawner", "broadcaster_spawner",
                 "control_node"}
           a == {Now("nodes", Emulator(o) \cup S)}
           b == TfGroups(o, {"state_pub"} \cup Gui(o))
<1>1. Apart(a, {"run_emulator"} \cup S)
  BY ApartDriver
<1>2. Apart(b, {"state_pub", "rviz"})
  BY ApartTf, ApartWider, Switched
<1> HIDE DEF a, b
<1>3. Apart(a \cup b, Driver \cup {"connection", "state_pub", "rviz"})
  BY <1>1, <1>2, ApartBoth, ApartWider DEF Driver
<1> QED
  BY <1>3 DEF a, b

(* The driver, and Gazebo after the controller spawner.                    *)
LEMMA ApartBringupGazebo ==
  \A o : /\ Apart(bringup_gazebo(o),
                  Driver \cup {"connection", "state_pub", "rviz", "gazebo",
                     "spawn_entity", "sim_position_spawner", "sim_state_pub"})
         /\ After(bringup_gazebo(o), "controller_spawner", Sims)
<1> TAKE o
<1> DEFINE S == {"connection", "controller_spawner", "broadcaster_spawner",
                 "control_node"}
           a == {Now("nodes", Emulator(o) \cup S)}
                \cup TfGroups(o, {"state_pub"} \cup Gui(o))
           b == IncludedOnExit("controller_spawner", gazebo(o))
<1>1. bringup_gazebo(o) = a \cup b
  BY DEF bringup_gazebo
<1>2. Apart(a, Driver \cup {"connection", "state_pub", "rviz"})
  BY ApartBeforeGazebo
<1>3. Apart(b, {"gazebo", "spawn_entity", "sim_position_spawner",
                "sim_state_pub"})
  BY ApartGazebo, ApartIncluded, SpawnerNames DEF Processes
<1>4. After(b, "controller_spawner", Sims)
  <2>1. \A r \in gazebo(o) : r.on = "launch"
    BY DEF gazebo, Now, Later, Rule, TfGroups
  <2> QED
    BY <2>1, AfterIncluded
<1> HIDE DEF a, b
<1> QED
  BY <1>1, <1>2, <1>3, <1>4, AfterBoth, ApartBoth, ApartWider DEF Driver, Sims

(* The driver, and a robot spawned into a Gazebo that runs already.        *)
LEMMA ApartBringupSpawnOnGazebo ==
  \A o : /\ Apart(bringup_spawn_on_gazebo(o),
                  Driver \cup {"connection", "state_pub", "rviz",
                     "spawn_entity", "sim_position_spawner", "sim_state_pub"})
         /\ After(bringup_spawn_on_gazebo(o), "controller_spawner", Sims)
<1> TAKE o
<1> DEFINE S == {"connection", "controller_spawner", "broadcaster_spawner",
                 "control_node"}
           a == {Now("nodes", Emulator(o) \cup S)}
                \cup TfGroups(o, {"state_pub"} \cup Gui(o))
           b == IncludedOnExit("controller_spawner", spawn_on_gazebo(o))
<1>1. bringup_spawn_on_gazebo(o) = a \cup b
  BY DEF bringup_spawn_on_gazebo
<1>2. Apart(a, Driver \cup {"connection", "state_pub", "rviz"})
  BY ApartBeforeGazebo
<1>3. Apart(b, {"spawn_entity", "sim_position_spawner", "sim_state_pub"})
  BY ApartSpawnOnGazebo, ApartIncluded, SpawnerNames DEF Processes
<1>4. After(b, "controller_spawner", Sims)
  <2>1. \A r \in spawn_on_gazebo(o) : r.on = "launch"
    BY DEF spawn_on_gazebo, Now, Later, Rule, TfGroups
  <2> QED
    BY <2>1, AfterIncluded
<1> HIDE DEF a, b
<1> QED
  BY <1>1, <1>2, <1>3, <1>4, AfterBoth, ApartBoth, ApartWider DEF Driver, Sims

(* The driver, and MuJoCo after the controller spawner.                    *)
LEMMA ApartBringupMujoco ==
  \A o : /\ Apart(bringup_mujoco(o),
                  Driver \cup {"connection", "state_pub", "rviz", "mujoco",
                     "sim_broadcaster_spawner", "sim_position_spawner",
                     "sim_gripper_spawner"})
         /\ After(bringup_mujoco(o), "controller_spawner", Sims)
<1> TAKE o
<1> DEFINE S == {"state_pub", "controller_spawner", "broadcaster_spawner",
                 "control_node", "connection"}
           x == Now("nodes", Emulator(o) \cup S)
           y == OnExit("controller_spawner", Gui(o))
           b == IncludedOnExit("controller_spawner", mujoco(o))
<1>1. bringup_mujoco(o) = ({x} \cup {y}) \cup b
  BY DEF bringup_mujoco
<1>2. Apart({x}, {"run_emulator"} \cup S)
  BY ApartDriver
<1>3. Apart({y}, {"rviz"})
  BY ApartOnExit, ApartWider, Switched, SpawnerNames DEF Processes
<1>4. Apart(b, {"mujoco", "sim_broadcaster_spawner", "sim_position_spawner",
                "sim_gripper_spawner"})
  BY ApartMujoco, ApartIncluded, SpawnerNames DEF Processes
<1>5. After(b, "controller_spawner", Sims)
  <2>1. \A r \in mujoco(o) : r.do \cap Sims # {} => r.on = "launch"
    BY Switched DEF mujoco, Now, OnStart, Rule, Sims
  <2> QED
    BY <2>1, AfterIncluded
<1> HIDE DEF x, y, b
<1>6. Apart({x} \cup {y}, Driver \cup {"connection", "state_pub", "rviz"})
  BY <1>2, <1>3, ApartBoth, ApartWider DEF Driver
<1> QED
  BY <1>1, <1>4, <1>5, <1>6, AfterBoth, ApartBoth, ApartWider DEF Driver, Sims

(* The MoveIt configurations: move_group and rviz wait for the controller. *)
LEMMA ApartStart ==
  \A o : /\ Apart(start(o), Driver \cup {"state_pub", "moveit_spawner",
                                         "move_group", "rviz"})
         /\ After(start(o), "controller_spawner", {"move_group"})
<1> TAKE o
<1> DEFINE S == {"run_emulator", "state_pub", "controller_spawner",
                 "broadcaster_spawner", "moveit_spawner", "control_node"}
           a == {Now("nodes", S)}
           b == {OnExit("controller_spawner", {"move_group", "rviz"})}
<1>1. start(o) = a \cup b
  BY DEF start
<1>2. Apart(a, S) /\ Apart(b, {"move_group", "rviz"})
  BY ApartNow, ApartOnExit, SpawnerNames DEF Processes
<1>3. After(b, "controller_spawner", {"move_group"})
  BY DEF After, OnExit, Rule
<1> HIDE DEF a, b
<1> QED
  BY <1>1, <1>2, <1>3, AfterBoth, ApartBoth, ApartWider DEF Driver

(* A file that fails before it has a list.                                 *)
LEMMA ApartNothing == \A S : Apart({}, S)
BY DEF Apart, Names

(* controller2: the controller waits for the broadcaster.                  *)
LEMMA ApartController2 ==
  \A o : /\ Apart(controller2(o), Driver \cup {"state_pub", "rviz"})
         /\ After(controller2(o), "broadcaster_spawner",
                  {"controller_spawner"})
<1> TAKE o
<1> DEFINE x == Now("nodes", {"control_node", "state_pub",
                              "broadcaster_spawner"})
           y == OnExit("broadcaster_spawner", {"rviz"})
           z == OnExit("broadcaster_spawner", {"controller_spawner"})
<1>1. controller2(o) = {x, y, z}
  BY DEF controller2
<1>2. /\ Apart({x}, {"control_node", "state_pub", "broadcaster_spawner"})
      /\ Apart({y}, {"rviz"}) /\ Apart({z}, {"controller_spawner"})
  BY ApartNow, ApartOnExit, SpawnerNames DEF Processes
<1>3. After({z}, "broadcaster_spawner", {"controller_spawner"})
  BY DEF After, OnExit, Rule
<1> HIDE DEF x, y, z
<1>4. Apart({x} \cup {y}, {"control_node", "state_pub", "broadcaster_spawner",
                          "rviz"})
  BY <1>2, ApartBoth, ApartWider
<1>5. controller2(o) = ({x} \cup {y}) \cup {z}
  BY <1>1
<1>6. Apart(controller2(o), Driver \cup {"state_pub", "rviz"})
  <2>1. Apart(({x} \cup {y}) \cup {z},
              {"control_node", "state_pub", "broadcaster_spawner", "rviz"}
              \cup {"controller_spawner"})
    BY <1>2, <1>4, ApartBoth
  <2> QED
    BY <1>5, <2>1, ApartWider DEF Driver
<1>7. After(controller2(o), "broadcaster_spawner", {"controller_spawner"})
  BY <1>3, <1>4, <1>5, AfterBoth
<1> QED
  BY <1>6, <1>7

(* The handler of an exit that never comes leaves the others apart.        *)
LEMMA NeverComes ==
  ASSUME NEW R, NEW S \in SUBSET Processes, Apart(R, S), NEW d,
         d.on # "launch", d.of \in Processes \ S, d.of \notin d.do,
         d.do \subseteq Processes
  PROVE  OneCause(R \cup {d}) /\ Proper(R \cup {d})
<1>1. ~Live(R \cup {d}, d)
  BY DEF Live, Apart, Names
<1> QED
  BY <1>1 DEF OneCause, Proper, Apart, Names

(* The example names processes twice, of which only one rule is live.      *)
LEMMA OneCauseVisualServoing ==
  \A o : /\ OneCause(bringup_visual_servoing(o))
         /\ Proper(bringup_visual_servoing(o))
         /\ After(bringup_visual_servoing(o), "controller_spawner", Sims)
<1> TAKE o
<1>0. CASE "rt_host" \notin o
  <2>1. bringup_visual_servoing(o) = {}
    BY <1>0 DEF bringup_visual_servoing, If
  <2> QED
    BY <2>1, ApartNothing, ApartUsed DEF After
<1> DEFINE S == {"run_emulator", "connection", "state_pub", "camera_bridge",
                 "controller_spawner", "control_node"}
           T == {"sim_state_pub", "spawn_entity", "sim_broadcaster_spawner",
                 "sim_position_spawner"}
           x == Now("nodes", S)
           y == OnExit("controller_spawner", Gui(o))
           d == OnExit("broadcaster_spawner", {"controller_spawner"})
           b == IncludedOnExit("controller_spawner", visual_servoing_gazebo(o))
<1> SUFFICES ASSUME "rt_host" \in o
             PROVE  /\ OneCause(bringup_visual_servoing(o))
                    /\ Proper(bringup_visual_servoing(o))
                    /\ After(bringup_visual_servoing(o),
                             "controller_spawner", Sims)
  BY <1>0
<1>1. bringup_visual_servoing(o) = {x, y, d} \cup b
  BY DEF bringup_visual_servoing, If
<1>2. /\ Apart({x}, S) /\ Apart({y}, {"rviz"})
      /\ Apart({d}, {"controller_spawner"})
  BY ApartNow, ApartOnExit, ApartWider, Switched, SpawnerNames DEF Processes
<1>3. Apart(b, T)
  BY ApartVisualServoing, ApartIncluded, SpawnerNames DEF Processes
<1>4. After(b, "controller_spawner", Sims)
  <2>1. \A r \in visual_servoing_gazebo(o) :
          r.do \cap Sims # {} => r.on = "launch"
    BY DEF visual_servoing_gazebo, Now, Rule, Sims
  <2> QED
    BY <2>1, AfterIncluded
<1>5. d.on = "exit" /\ d.of = "broadcaster_spawner"
      /\ d.do = {"controller_spawner"}
  BY DEF OnExit, Rule
<1> HIDE DEF x, y, d, b
<1>6. Apart({x} \cup {y}, S \cup {"rviz"})
  BY <1>2, ApartBoth
<1>7. Apart(({x} \cup {y}) \cup b, S \cup {"rviz"} \cup T)
  BY <1>3, <1>6, ApartBoth
<1>8. S \cup {"rviz"} \cup T \subseteq Processes
  BY SpawnerNames DEF Processes
<1>9. OneCause((({x} \cup {y}) \cup b) \cup {d})
      /\ Proper((({x} \cup {y}) \cup b) \cup {d})
  BY <1>5, <1>7, <1>8, NeverComes, SpawnerNames DEF Processes
<1>10. After(({x} \cup {y}) \cup b, "controller_spawner", Sims)
  BY <1>4, <1>6, AfterBoth DEF Sims
<1>11. After({d} \cup (({x} \cup {y}) \cup b), "controller_spawner", Sims)
  BY <1>2, <1>10, AfterBoth DEF Sims
<1>12. bringup_visual_servoing(o) = (({x} \cup {y}) \cup b) \cup {d}
       /\ bringup_visual_servoing(o) = {d} \cup (({x} \cup {y}) \cup b)
  BY <1>1
<1> QED
  BY <1>9, <1>11, <1>12

(* The files of the tests.                                                 *)
LEMMA ApartTests ==
  \A o : /\ Apart(test_without_spawner(o),
                  {"run_emulator", "state_pub", "control_node", "rviz"})
         /\ Apart(test_spawner_cli(o),
                  {"controller_spawner", "broadcaster_spawner"})
         /\ Apart(test_without_spawner(o) \cup test_spawner_cli(o),
                  Driver \cup {"state_pub", "rviz"})
<1> TAKE o
<1> DEFINE S == If("start_emulator" \in o, {"run_emulator"})
                \cup {"state_pub", "control_node"}
                \cup If("rviz" \in o, {"rviz"})
<1>1. S \subseteq {"run_emulator", "state_pub", "control_node", "rviz"}
  BY DEF If
<1>2. Apart(test_without_spawner(o),
            {"run_emulator", "state_pub", "control_node", "rviz"})
  BY <1>1, ApartNow, ApartWider DEF test_without_spawner
<1>3. Apart(test_spawner_cli(o), {"controller_spawner", "broadcaster_spawner"})
  BY ApartNow DEF test_spawner_cli
<1> QED
  BY <1>2, <1>3, ApartBoth, ApartWider DEF Driver

-----------------------------------------------------------------------------
(* All files together.                                                     *)
Few == {"run_emulator", "control_node", "state_pub", "rviz", "move_group",
        "moveit_spawner", "controller_spawner",
        "broadcaster_spawner"}
Simulation == {"connection", "state_pub", "rviz", "gazebo", "mujoco",
               "spawn_entity", "sim_state_pub", "sim_broadcaster_spawner",
               "sim_position_spawner", "sim_gripper_spawner"}

(* All of these are processes.                                             *)
LEMMA Listed ==
  /\ Few \subseteq Processes /\ Driver \subseteq Few
  /\ Simulation \subseteq Processes
  /\ Driver \cup Simulation \subseteq Processes
BY SpawnerNames DEF Few, Simulation, Driver, Processes

(* A file starts a simulation or a driver, but for the four bringups.      *)
LEMMA OneOrTheOther ==
  \A o : /\ Apart(bringup_rviz(o), Few) /\ Apart(start(o), Few)
         /\ Apart(demo(o), Few) /\ Apart(controller2(o), Few)
         /\ Apart(test_without_spawner(o), Few)
         /\ Apart(test_spawner_cli(o), Few)
         /\ Apart(test_without_spawner(o) \cup test_spawner_cli(o), Few)
         /\ Apart(gazebo(o), Simulation)
         /\ Apart(spawn_on_gazebo(o), Simulation)
         /\ Apart(mujoco(o), Simulation)
         /\ Apart(mujoco_default(o), Simulation)
         /\ Apart(visual_servoing_gazebo(o), Simulation)
<1> TAKE o
<1>1. Apart(bringup_rviz(o), Few)
  BY ApartRviz, ApartWider DEF Few, Driver
<1>2. Apart(start(o), Few)
  BY ApartStart, ApartWider DEF Few, Driver
<1>3. Apart(demo(o), Few)
  BY ApartNothing DEF demo
<1>4. Apart(controller2(o), Few)
  BY ApartController2, ApartWider DEF Few, Driver
<1>5. Apart(test_without_spawner(o), Few) /\ Apart(test_spawner_cli(o), Few)
  <2> DEFINE S == {"run_emulator", "state_pub", "control_node", "rviz"}
             T == {"controller_spawner", "broadcaster_spawner"}
  <2>1. S \subseteq Few /\ T \subseteq Few
    BY DEF Few
  <2>2. Apart(test_without_spawner(o), S) /\ Apart(test_spawner_cli(o), T)
    BY ApartTests
  <2> HIDE DEF S, T
  <2> QED
    BY <2>1, <2>2, ApartWider
<1>6. Apart(test_without_spawner(o) \cup test_spawner_cli(o), Few)
  <2>1. Driver \cup {"state_pub", "rviz"} \subseteq Few
    BY DEF Few, Driver
  <2> QED
    BY <2>1, ApartTests, ApartWider
<1>7. Apart(gazebo(o), Simulation) /\ Apart(spawn_on_gazebo(o), Simulation)
  BY ApartGazebo, ApartSpawnOnGazebo, ApartWider DEF Simulation
<1>8. Apart(mujoco(o), Simulation) /\ Apart(mujoco_default(o), Simulation)
  BY ApartMujoco, ApartMujocoDefault, ApartWider DEF Simulation
<1>9. Apart(visual_servoing_gazebo(o), Simulation)
  BY ApartVisualServoing, ApartWider DEF Simulation
<1> QED
  BY <1>1, <1>2, <1>3, <1>4, <1>5, <1>6, <1>7, <1>8, <1>9

(* In every file, at most one rule that may come to pass names a process.  *)
LEMMA FilesOneCause ==
  \A f \in FileNames : \A o :
    OneCause(RulesOf(f, o)) /\ Proper(RulesOf(f, o))
<1> TAKE f \in FileNames
<1> TAKE o
<1>1. CASE f \in {"bringup_rviz", "start", "bringup_moveit", "demo",
                  "controller2", "test_without_spawner", "test_spawner_cli"}
  <2>1. Apart(RulesOf(f, o), Few)
    BY <1>1, OneOrTheOther DEF RulesOf, bringup_moveit
  <2> QED
    BY <2>1, Listed, ApartUsed
<1>2. CASE f \in {"gazebo", "spawn_on_gazebo", "mujoco", "mujoco_default",
                  "visual_servoing_gazebo"}
  <2>1. Apart(RulesOf(f, o), Simulation)
    BY <1>2, OneOrTheOther DEF RulesOf
  <2> QED
    BY <2>1, Listed, ApartUsed
<1>3. CASE f \in {"bringup_gazebo", "bringup_spawn_on_gazebo",
                "bringup_mujoco"}
  <2>1. /\ Apart(bringup_gazebo(o), Driver \cup Simulation)
        /\ Apart(bringup_spawn_on_gazebo(o), Driver \cup Simulation)
        /\ Apart(bringup_mujoco(o), Driver \cup Simulation)
    BY ApartBringupGazebo, ApartBringupSpawnOnGazebo, ApartBringupMujoco,
       ApartWider DEF Simulation
  <2>2. Apart(RulesOf(f, o), Driver \cup Simulation)
    BY <1>3, <2>1 DEF RulesOf
  <2> QED
    BY <2>2, Listed, ApartUsed
<1>4. CASE f = "bringup_visual_servoing"
  BY <1>4, OneCauseVisualServoing DEF RulesOf
<1> QED
  BY <1>1, <1>2, <1>3, <1>4 DEF FileNames

-----------------------------------------------------------------------------
(* The inductive invariant.  What was registered are the rules of the      *)
(* files launched; what was started, or waits for its timer, was named by  *)
(* a rule whose event has happened.                                        *)
Registered ==
  /\ \/ launched = {} \/ \E f \in Files : launched = {f}
     \/ launched = {"test_without_spawner", "test_spawner_cli"}
  /\ rules = UNION {RulesOf(f, flags) : f \in launched}

(* The event of a rule has happened.                                       *)
Fired(r) == \/ r.on = "launch"
            \/ r.on = "exit" /\ Ended(r.of)
            \/ r.on = "start" /\ Started(r.of)
Caused ==
  \A p \in Processes :
    Started(p) \/ p \in timers => \E r \in rules : p \in r.do /\ Fired(r)

(* A process has a state once it was started.                              *)
Placed == \A p \in Processes : proc[p] = "none" <=> ~Started(p)
(* A process that waits for its timer was not started.                     *)
NotYet == \A p \in timers : ~Started(p)

(* Where its spawner succeeded, the controller of the driver is active as  *)
(* long as the driver and what it drives are there.                        *)
Kept == proc["controller_spawner"] = "done" /\ ~Gone("control_node")
          => Controller["controller_spawner"] \in active

(* The inductive invariant.                                                *)
Inv == /\ TypeOK /\ StartedOnce
       /\ Registered /\ Caused /\ Placed /\ NotYet /\ Kept

(* The rules registered are those of one file or of the two tests.         *)
LEMMA LaunchedOneCause ==
  ASSUME NEW L \in SUBSET Files, NEW o,
         \/ L = {} \/ \E f \in Files : L = {f}
         \/ L = {"test_without_spawner", "test_spawner_cli"}
  PROVE  /\ OneCause(UNION {RulesOf(f, o) : f \in L})
         /\ Proper(UNION {RulesOf(f, o) : f \in L})
<1> DEFINE R == UNION {RulesOf(f, o) : f \in L}
<1>1. CASE L = {}
  BY <1>1 DEF OneCause, Proper, Names
<1>2. CASE \E f \in Files : L = {f}
  <2>1. PICK f \in Files : L = {f}
    BY <1>2
  <2>2. R = RulesOf(f, o)
    BY <2>1
  <2>3. f \in FileNames
    BY BringupAssumption
  <2>4. OneCause(RulesOf(f, o)) /\ Proper(RulesOf(f, o))
    BY <2>3, FilesOneCause
  <2> QED
    BY <2>2, <2>4
<1>3. CASE L = {"test_without_spawner", "test_spawner_cli"}
  <2>1. R = test_without_spawner(o) \cup test_spawner_cli(o)
    BY <1>3 DEF RulesOf
  <2> QED
    BY <2>1, OneOrTheOther, Listed, ApartUsed
<1> QED
  BY <1>1, <1>2, <1>3

(* So it is for the rules registered in every state.                       *)
LEMMA Causes == Inv => OneCause(rules) /\ Proper(rules)
BY LaunchedOneCause DEF Inv, TypeOK, Registered

(* An event that has happened was that of a rule that may come to pass.    *)
LEMMA FiredLive ==
  ASSUME Inv, NEW r \in rules, Fired(r)
  PROVE  Live(rules, r)
<1>1. CASE r.on = "launch"
  BY <1>1 DEF Live
<1>2. CASE r.on # "launch"
  <2>1. r.of \in Processes
    BY <1>2, Causes DEF Proper
  <2>2. Started(r.of)
    BY <1>2, <2>1 DEF Fired, Inv, Placed, Ended
  <2> QED
    BY <2>1, <2>2 DEF Inv, Caused, Live
<1> QED
  BY <1>1, <1>2

(* What a rule names whose event has not happened has not been started.    *)
LEMMA Untouched ==
  ASSUME Inv, NEW r \in rules, Live(rules, r), ~Fired(r), NEW q \in r.do
  PROVE  q \in Processes /\ ~Started(q) /\ q \notin timers
<1>1. OneCause(rules) /\ Proper(rules)
  BY Causes
<1>2. q \in Processes
  BY <1>1 DEF Proper, Names
<1>3. ASSUME Started(q) \/ q \in timers PROVE FALSE
  <2>1. PICK x \in rules : q \in x.do /\ Fired(x)
    BY <1>2, <1>3 DEF Inv, Caused
  <2>2. x = r
    BY <1>1, <2>1, FiredLive DEF OneCause
  <2> QED
    BY <2>1, <2>2
<1> QED
  BY <1>2, <1>3

(* A set of rules of which one, or none, names a process executes it once, *)
(* or not.                                                                 *)
LEMMA OneTime ==
  ASSUME NEW fired, NEW q,
         \A r, x \in fired : r.do \cap x.do # {} => r = x
  PROVE  Times(fired, q) = IF q \in Do(fired) THEN 1 ELSE 0
<1> DEFINE T == {r \in fired : ~r.delayed /\ q \in r.do}
<1>1. CASE q \in Do(fired)
  <2>1. PICK r \in T : TRUE
    BY <1>1 DEF Do
  <2>2. T = {r}
    BY <2>1
  <2> HIDE DEF T
  <2>3. Cardinality(T) = 1
    BY <2>2, FS_Singleton
  <2> QED
    BY <1>1, <2>3 DEF Times, T
<1>2. CASE q \notin Do(fired)
  <2>1. T = {}
    BY <1>2 DEF Do
  <2> HIDE DEF T
  <2>2. Cardinality(T) = 0
    BY <2>1, FS_EmptySet
  <2> QED
    BY <1>2, <2>2 DEF Times, T
<1> QED
  BY <1>1, <1>2

(* Rules whose event has just happened, and the processes that ended.      *)
Due(fired, all, ended, how) ==
  /\ fired \subseteq all /\ all \subseteq rules' /\ rules \subseteq rules'
  /\ OneCause(rules') /\ Proper(rules')
  /\ ended \subseteq Processes /\ how \in {"none", "done", "failed"}
  /\ \A q \in ended : Started(q) /\ how # "none"
  /\ \A r \in fired : Live(rules', r) /\ Fired(r)'
  /\ \A r \in fired : \A q \in r.do : ~Started(q) /\ q \notin timers
  /\ \A x \in all : x.on = "start" /\ x.of \in Do(fired) =>
       x \notin fired /\ \A q \in x.do : ~Started(q) /\ q \notin timers

(* What they name starts for the first time.                               *)
Done(fired, ended, how) ==
  /\ proc' \in [Processes -> {"none", "running", "done", "failed"}]
  /\ count' \in [Processes -> Nat] /\ timers' \subseteq Processes
  /\ StartedOnce' /\ Caused' /\ Placed' /\ NotYet'
  /\ \A q \in Processes :
       proc'[q] = IF q \in Do(fired) THEN "running"
                  ELSE IF q \in ended THEN how ELSE proc[q]
  /\ \A q \in Do(fired) : q \in Processes /\ ~Started(q)

(* Executing rules that are due starts each of their processes once.       *)
LEMMA Executed ==
  ASSUME Inv, NEW fired, NEW all, NEW ended, NEW how,
         Due(fired, all, ended, how), Execute(fired, all, ended, how)
  PROVE  Done(fired, ended, how)
<1> USE DEF Due
<1>a. /\ proc \in [Processes -> {"none", "running", "done", "failed"}]
      /\ count \in [Processes -> Nat] /\ timers \subseteq Processes
      /\ \A q \in Processes : proc[q] = "none" <=> count[q] = 0
      /\ \A q \in Processes : count[q] <= 1
  BY DEF Inv, TypeOK, Placed, Started, StartedOnce
<1>b. \A q \in Do(fired) : q \in Processes /\ count[q] = 0 /\ q \notin timers
  <2>1. TAKE q \in Do(fired)
  <2>2. PICK r \in fired : q \in r.do
    BY DEF Do
  <2>3. q \in Processes
    BY <2>2 DEF Proper, Names
  <2> QED
    BY <2>2, <2>3, <1>a DEF Started
<1>1. \A q \in Processes : proc'[q] = IF q \in Do(fired) THEN "running"
                                      ELSE IF q \in ended THEN how ELSE proc[q]
  BY DEF Execute
<1>2. \A q \in Processes :
        count'[q] = IF q \in Do(fired) THEN 1 ELSE count[q]
  <2>1. \A r, x \in fired : r.do \cap x.do # {} => r = x
    BY DEF OneCause
  <2> TAKE q \in Processes
  <2>2. count'[q] = count[q] + Times(fired, q)
    BY DEF Execute
  <2>3. Times(fired, q) = IF q \in Do(fired) THEN 1 ELSE 0
    BY <2>1, OneTime
  <2> QED
    BY <2>2, <2>3, <1>a, <1>b
<1>3. proc' \in [Processes -> {"none", "running", "done", "failed"}]
  <2>1. \A q \in Processes : proc'[q] \in {"none", "running", "done", "failed"}
    BY <1>1, <1>a
  <2> QED
    BY <2>1 DEF Execute
<1>4. count' \in [Processes -> Nat]
  <2>1. \A q \in Processes : count'[q] \in Nat
    BY <1>2, <1>a
  <2>2. count' = [q \in Processes |-> count[q] + Times(fired, q)]
    BY DEF Execute
  <2> QED
    BY <2>1, <2>2
<1>5. StartedOnce'
  BY <1>2, <1>a DEF StartedOnce
<1>6. Placed'
  <2> SUFFICES ASSUME NEW q \in Processes
               PROVE  proc'[q] = "none" <=> ~(count'[q] > 0)
    BY DEF Placed, Started
  <2>1. CASE q \in Do(fired)
    BY <2>1, <1>1, <1>2
  <2>2. CASE q \notin Do(fired) /\ q \in ended
    BY <2>2, <1>1, <1>2, <1>a DEF Started
  <2>3. CASE q \notin Do(fired) /\ q \notin ended
    BY <2>3, <1>1, <1>2, <1>a
  <2> QED
    BY <2>1, <2>2, <2>3
<1>7. \A q \in Wait(fired, all) :
        /\ q \in Processes /\ count[q] = 0 /\ q \notin Do(fired)
        /\ \E r \in rules' : q \in r.do /\ Fired(r)'
  <2> TAKE q \in Wait(fired, all)
  <2>1. CASE \E x \in fired : x.delayed /\ q \in x.do
    <3>1. PICK x \in fired : x.delayed /\ q \in x.do
      BY <2>1
    <3>2. q \in Processes
      BY <3>1 DEF Proper, Names
    <3>3. q \notin Do(fired)
      BY <3>1 DEF Do, OneCause
    <3> QED
      BY <3>1, <3>2, <3>3, <1>a DEF Started
  <2>2. CASE \E x \in all : x.on = "start" /\ x.of \in Do(fired) /\ q \in x.do
    <3>1. PICK x \in all : x.on = "start" /\ x.of \in Do(fired) /\ q \in x.do
      BY <2>2
    <3>2. q \in Processes
      BY <3>1 DEF Proper, Names
    <3>3. Live(rules', x)
      BY <3>1 DEF Do, Live
    <3>4. q \notin Do(fired)
      BY <3>1, <3>3 DEF Do, OneCause
    <3>5. Fired(x)'
      BY <3>1, <1>2, <1>b DEF Fired, Started
    <3> QED
      BY <3>1, <3>2, <3>4, <3>5, <1>a DEF Started
  <2> QED
    BY <2>1, <2>2 DEF Wait
<1>8. timers' = timers \cup Wait(fired, all)
  BY DEF Execute
<1>9. timers' \subseteq Processes /\ NotYet'
  <2>1. \A q \in timers : count[q] = 0 /\ q \notin Do(fired)
    BY <1>a, <1>b DEF Inv, NotYet, Started
  <2> QED
    BY <2>1, <1>2, <1>7, <1>8, <1>a DEF NotYet, Started
<1>10. \A r \in rules : Fired(r) => Fired(r)'
  <2> SUFFICES ASSUME NEW r \in rules, Fired(r), r.on # "launch"
               PROVE  Fired(r)'
    BY DEF Fired
  <2>1. r.of \in Processes
    BY DEF Proper
  <2>2. Started(r.of) => Started(r.of)'
    BY <2>1, <1>2, <1>a DEF Started
  <2>3. Ended(r.of) => Ended(r.of)'
    BY <2>1, <1>1, <1>a, <1>b DEF Ended
  <2> QED
    BY <2>2, <2>3 DEF Fired
<1>11. Caused'
  <2> SUFFICES ASSUME NEW q \in Processes, Started(q)' \/ q \in timers'
               PROVE  \E r \in rules' : q \in r.do /\ Fired(r)'
    BY DEF Caused
  <2>1. CASE q \in Do(fired)
    BY <2>1 DEF Do
  <2>2. CASE q \in Wait(fired, all)
    BY <2>2, <1>7
  <2>3. CASE q \notin Do(fired) /\ q \notin Wait(fired, all)
    <3>1. Started(q) \/ q \in timers
      BY <2>3, <1>2, <1>8 DEF Started
    <3>2. PICK r \in rules : q \in r.do /\ Fired(r)
      BY <3>1 DEF Inv, Caused
    <3> QED
      BY <3>2, <1>10
  <2> QED
    BY <2>1, <2>2, <2>3
<1> QED
  BY <1>1, <1>3, <1>4, <1>5, <1>6, <1>9, <1>11, <1>b DEF Started, Done

-----------------------------------------------------------------------------
(* Initially nothing is registered and nothing started.                    *)
LEMMA InitInv == Init => Inv
<1> SUFFICES ASSUME Init PROVE Inv
  OBVIOUS
<1> USE DEF Init
<1>1. TypeOK
  BY BringupAssumption DEF TypeOK
<1>2. StartedOnce /\ Placed /\ NotYet /\ Caused
  BY DEF StartedOnce, Placed, NotYet, Caused, Started
<1>3. Registered
  BY DEF Registered
<1>4. Kept
  BY DEF Kept, Processes, Spawners, Controller
<1> QED
  BY <1>1, <1>2, <1>3, <1>4 DEF Inv

(* Spawners are processes, and no spawner spawns the robot.                *)
LEMMA SpawnersRun ==
  Spawners \subseteq Processes /\ "spawn_entity" \notin Spawners
BY SpawnerNames DEF Processes

(* What has ended or failed stays so, and what was started was.            *)
Stays == \A q \in Processes :
           /\ Started(q) => Started(q)'
           /\ proc[q] = "failed" => proc'[q] = "failed"
           /\ Started(q) /\ proc[q] # "running" => proc'[q] # "running"

(* What is gone does not come back.                                        *)
LEMMA GoneStays ==
  ASSUME Stays, flags' = flags, Gone("control_node")
  PROVE  Gone("control_node")'
<1>1. "control_node" \in Processes /\ "run_emulator" \in Processes
  BY DEF Processes
<1>2. CASE proc["control_node"] = "failed"
  BY <1>1, <1>2 DEF Stays, Gone
<1>3. CASE ~Connected
  <2>1. /\ "virtual" \in flags /\ Started("run_emulator")
        /\ proc["run_emulator"] # "running"
    BY <1>3 DEF Connected, Started
  <2>2. Started("run_emulator")' /\ proc'["run_emulator"] # "running"
    BY <1>1, <2>1 DEF Stays
  <2>3. ~Connected'
    BY <2>1, <2>2 DEF Connected, Started
  <2> QED
    BY <2>3 DEF Gone
<1> QED
  BY <1>2, <1>3 DEF Gone

(* How a step keeps the controller of the driver: by taking none away, or  *)
(* with what it drives.                                                    *)
LEMMA KeptStep ==
  ASSUME Kept, Stays, flags' = flags,
         proc'["controller_spawner"] = "done"
           => \/ proc["controller_spawner"] = "done"
              \/ Controller["controller_spawner"] \in active',
         \/ Controller["controller_spawner"] \in active
              => Controller["controller_spawner"] \in active'
         \/ Gone("control_node")'
  PROVE  Kept'
BY GoneStays DEF Kept

(* What is left alone.                                                     *)
LEMMA Static ==
  /\ Placed /\ UNCHANGED <<proc, count>> => Placed'
  /\ StartedOnce /\ UNCHANGED count => StartedOnce'
  /\ NotYet /\ UNCHANGED <<count, timers>> => NotYet'
  /\ Caused /\ UNCHANGED <<proc, count, timers, rules>> => Caused'
  /\ Registered /\ UNCHANGED <<launched, flags, rules>> => Registered'
  /\ Kept /\ UNCHANGED <<proc, count, flags, active>> => Kept'
BY DEF Placed, StartedOnce, NotYet, Caused, Registered, Kept, Gone, Connected,
       Started, Ended, Fired

(* A file is launched: its rules on the launch are executed.               *)
LEMMA LaunchStep ==
  ASSUME Inv, NEW f \in Files, LaunchFile(f)
  PROVE  Inv'
<1> DEFINE new   == RulesOf(f, flags)
           fired == {r \in new : r.on = "launch"}
<1>1. /\ launched' = launched \cup {f} /\ rules' = rules \cup new
      /\ Execute(fired, new, {}, "none")
      /\ UNCHANGED <<flags, serving, active, faults>>
      /\ \/ launched = {} /\ f # "test_spawner_cli"
         \/ launched = {"test_without_spawner"} /\ f = "test_spawner_cli"
  BY DEF LaunchFile
<1> HIDE DEF new
<1>2. Registered'
  <2>1. CASE launched = {}
    <3>1. rules = {} /\ launched' = {f}
      BY <1>1, <2>1 DEF Inv, Registered
    <3>2. UNION {RulesOf(g, flags) : g \in {f}} = new
      BY DEF new
    <3> QED
      BY <1>1, <3>1, <3>2 DEF Registered
  <2>2. CASE launched = {"test_without_spawner"} /\ f = "test_spawner_cli"
    <3>1. launched' = {"test_without_spawner", "test_spawner_cli"}
      BY <1>1, <2>2
    <3>2. rules = RulesOf("test_without_spawner", flags)
      BY <2>2 DEF Inv, Registered
    <3>3. rules' = UNION {RulesOf(g, flags) : g \in launched'}
      BY <1>1, <2>2, <3>1, <3>2 DEF new
    <3> QED
      BY <1>1, <3>1, <3>3 DEF Registered
  <2> QED
    BY <1>1, <2>1, <2>2
<1>3. launched' \subseteq Files
  BY <1>1 DEF Inv, TypeOK
<1>4. OneCause(rules') /\ Proper(rules')
  BY <1>2, <1>3, LaunchedOneCause DEF Registered
<1>5. ASSUME NEW r \in new, NEW q \in r.do PROVE ~Started(q) /\ q \notin timers
  <2>1. q \in Processes
    BY <1>1, <1>4, <1>5 DEF Proper, Names
  <2>2. \A x \in rules : q \notin x.do
    <3>1. CASE launched = {}
      BY <3>1 DEF Inv, Registered
    <3>2. CASE launched = {"test_without_spawner"} /\ f = "test_spawner_cli"
      <4>1. rules = test_without_spawner(flags)
            /\ new = test_spawner_cli(flags)
        BY <3>2 DEF Inv, Registered, RulesOf, new
      <4> QED
        BY <4>1, <1>5, ApartTests DEF Apart, Names
    <3> QED
      BY <1>1, <3>1, <3>2
  <2> QED
    BY <2>1, <2>2 DEF Inv, Caused
<1>6. ASSUME NEW x \in new, x.on = "start"
      PROVE  x \notin fired
  BY <1>6
<1>7. Done(fired, {}, "none")
  <2>1. /\ fired \subseteq new
        /\ new \subseteq rules' /\ rules \subseteq rules'
        /\ {} \subseteq Processes
        /\ \A q \in {} : Started(q) /\ "none" # "none"
    BY <1>1
  <2>2. \A r \in fired : Live(rules', r) /\ Fired(r)'
    BY DEF Live, Fired
  <2>3. \A r \in fired : \A q \in r.do : ~Started(q) /\ q \notin timers
    BY <1>5
  <2>4. \A x \in new : x.on = "start" /\ x.of \in Do(fired) =>
          x \notin fired /\ \A q \in x.do : ~Started(q) /\ q \notin timers
    BY <1>5, <1>6
  <2> HIDE DEF fired
  <2>5. Due(fired, new, {}, "none")
    BY <1>4, <2>1, <2>2, <2>3, <2>4 DEF Due
  <2> QED
    BY <1>1, <2>5, Executed
<1>8. Kept'
  <2>1. \A q \in Processes : \/ proc'[q] = proc[q]
                             \/ ~Started(q) /\ proc'[q] = "running"
    BY <1>7 DEF Done
  <2>2. Placed /\ Placed' /\ Kept
    BY <1>7 DEF Done, Inv
  <2>3. Stays
    BY <2>1, <2>2 DEF Stays, Placed
  <2>4. proc'["controller_spawner"] = "done"
          => proc["controller_spawner"] = "done"
    BY <2>1, SpawnerNames, SpawnersRun
  <2> QED
    BY <1>1, <2>2, <2>3, <2>4, KeptStep
<1>9. TypeOK'
  BY <1>1, <1>3, <1>7 DEF Inv, TypeOK, Done
<1> QED
  BY <1>2, <1>7, <1>8, <1>9 DEF Inv, Done

(* A timer has run out: its process starts for the first time.             *)
LEMMA TimerStep ==
  ASSUME Inv, NEW p \in Processes, TimerAction(p)
  PROVE  Inv'
<1>1. /\ p \in timers /\ timers' = timers \ {p}
      /\ proc' = [proc EXCEPT ![p] = "running"]
      /\ count' = [count EXCEPT ![p] = @ + 1]
      /\ UNCHANGED <<launched, flags, rules, serving, active, faults>>
  BY DEF TimerAction
<1>2. /\ count \in [Processes -> Nat] /\ count[p] = 0 /\ proc[p] = "none"
      /\ proc \in [Processes -> {"none", "running", "done", "failed"}]
  BY <1>1 DEF Inv, TypeOK, NotYet, Started, Placed
<1>3. TypeOK'
  BY <1>1, <1>2 DEF Inv, TypeOK
<1>4. StartedOnce' /\ Placed' /\ NotYet'
  BY <1>1, <1>2 DEF Inv, StartedOnce, Placed, NotYet, Started
<1>5. \A r \in rules : Fired(r) => Fired(r)'
  BY <1>1, <1>2 DEF Fired, Started, Ended
<1>6. Caused'
  BY <1>1, <1>2, <1>5 DEF Inv, Caused, Started
<1>7. Kept'
  <2>1. Placed' /\ Placed /\ Kept
    BY <1>4 DEF Inv
  <2>2. Stays
    BY <1>1, <1>2, <2>1 DEF Stays, Placed
  <2>3. proc'["controller_spawner"] = "done"
          => proc["controller_spawner"] = "done"
    BY <1>1, <1>2
  <2> QED
    BY <1>1, <2>1, <2>2, <2>3, KeptStep
<1> QED
  BY <1>1, <1>3, <1>4, <1>6, <1>7, Static DEF Inv

(* A running process ends: the handlers of its exit are executed.          *)
LEMMA ExitStep ==
  ASSUME Inv, NEW p \in Processes, proc[p] = "running",
         NEW how \in {"done", "failed"}, OnProcessExit(p, how),
         UNCHANGED <<launched, flags, rules>>
  PROVE  /\ Done({r \in rules : r.on = "exit" /\ r.of = p}, {p}, how)
         /\ proc'[p] = how
<1> DEFINE fired == {r \in rules : r.on = "exit" /\ r.of = p}
<1>1. Execute(fired, rules, {p}, how)
  BY DEF OnProcessExit
<1>2. Started(p) /\ ~Ended(p)
  BY DEF Inv, Placed, Ended
<1>3. OneCause(rules') /\ Proper(rules')
  BY Causes
<1>4. \A r \in fired : Live(rules, r) /\ ~Fired(r)
  <2>1. \E x \in rules : p \in x.do
    BY <1>2 DEF Inv, Caused
  <2> QED
    BY <1>2, <2>1 DEF Live, Fired
<1>5. \A r \in fired : \A q \in r.do :
        q \in Processes /\ ~Started(q) /\ q \notin timers
  BY <1>4, Untouched
<1>6. p \notin Do(fired)
  BY <1>2, <1>5 DEF Do
<1>7. proc'[p] = how
  BY <1>1, <1>6 DEF Execute
<1>8. \A r \in fired : Fired(r)'
  BY <1>7 DEF Fired, Ended
<1>9. ASSUME NEW x \in rules, x.on = "start", x.of \in Do(fired)
      PROVE  x \notin fired /\ \A q \in x.do : ~Started(q) /\ q \notin timers
  <2>1. PICK r \in fired : x.of \in r.do
    BY <1>9 DEF Do
  <2>2. Live(rules, x) /\ ~Started(x.of)
    BY <2>1, <1>5 DEF Live
  <2>3. ~Fired(x)
    BY <1>9, <2>2 DEF Fired
  <2> QED
    BY <1>9, <2>2, <2>3, Untouched
<1> HIDE DEF fired
<1>10. Due(fired, rules, {p}, how)
  <2>1. fired \subseteq rules
    BY DEF fired
  <2>2. \A r \in fired : Live(rules', r) /\ Fired(r)'
    BY <1>4, <1>8
  <2>3. \A x \in rules : x.on = "start" /\ x.of \in Do(fired) =>
          x \notin fired /\ \A q \in x.do : ~Started(q) /\ q \notin timers
    BY <1>9
  <2> QED
    BY <1>2, <1>3, <1>5, <2>1, <2>2, <2>3 DEF Due
<1>11. Done(fired, {p}, how)
  BY <1>1, <1>10, Executed
<1> QED
  BY <1>7, <1>11 DEF fired

(* What every exit keeps, whatever it does to controllers.                 *)
LEMMA ExitKeeps ==
  ASSUME Inv, NEW p \in Processes, proc[p] = "running",
         NEW how \in {"done", "failed"}, OnProcessExit(p, how),
         UNCHANGED <<launched, flags, rules>>
  PROVE  /\ proc' \in [Processes -> {"none", "running", "done", "failed"}]
         /\ count' \in [Processes -> Nat] /\ timers' \subseteq Processes
         /\ StartedOnce' /\ Caused' /\ Placed' /\ NotYet' /\ Registered'
         /\ Stays /\ proc'[p] = how
         /\ \A q \in Processes \ {p} : proc'[q] \in {proc[q], "running"}
<1> DEFINE fired == {r \in rules : r.on = "exit" /\ r.of = p}
<1>1. Done(fired, {p}, how) /\ proc'[p] = how
  BY ExitStep
<1> HIDE DEF fired
<1>2. \A q \in Processes : \/ q # p /\ proc'[q] = proc[q]
                           \/ ~Started(q) /\ proc'[q] = "running"
                           \/ q = p
  BY <1>1 DEF Done
<1>3. Placed /\ Placed'
  BY <1>1 DEF Done, Inv
<1>4. Stays
  BY <1>1, <1>2, <1>3 DEF Stays, Placed
<1> QED
  BY <1>1, <1>2, <1>4, Static DEF Done, Inv

(* Controllers by the spawners that ask for them.                          *)
LEMMA ControllerOf ==
  \A s, x \in Spawners : Controller[s] = Controller[x] => s = x
BY DEF Spawners, Controller

(* A spawner succeeds: some controller manager it asks is serving.         *)
LEMMA LoadStep ==
  ASSUME Inv, NEW s \in Spawners, Load(s)
  PROVE  Inv'
<1>1. /\ proc[s] = "running" /\ Hosts(s) \cap serving # {}
      /\ active' = active \cup {Controller[s]} /\ OnProcessExit(s, "done")
      /\ UNCHANGED <<launched, flags, rules, serving, faults>>
  BY DEF Load
<1>2. s \in Processes
  BY SpawnersRun
<1>3. /\ proc' \in [Processes -> {"none", "running", "done", "failed"}]
      /\ count' \in [Processes -> Nat] /\ timers' \subseteq Processes
      /\ StartedOnce' /\ Caused' /\ Placed' /\ NotYet' /\ Registered'
      /\ Stays
      /\ \A q \in Processes \ {s} : proc'[q] \in {proc[q], "running"}
  BY <1>1, <1>2, ExitKeeps
<1>4. TypeOK'
  BY <1>1, <1>3 DEF Inv, TypeOK
<1>5. proc'["controller_spawner"] = "done"
        => \/ proc["controller_spawner"] = "done"
           \/ Controller["controller_spawner"] \in active'
  BY <1>1, <1>3, SpawnerNames, SpawnersRun
<1>6. Kept'
  BY <1>1, <1>3, <1>5, KeptStep DEF Inv
<1> QED
  BY <1>3, <1>4, <1>6 DEF Inv

(* The entity is there: its controller manager serves.                     *)
LEMMA EntityStep ==
  ASSUME Inv, SpawnEntity
  PROVE  Inv'
<1>1. /\ proc["spawn_entity"] = "running"
      /\ serving' = serving \cup {"spawn_entity"}
      /\ OnProcessExit("spawn_entity", "done")
      /\ UNCHANGED <<launched, flags, rules, active, faults>>
  BY DEF SpawnEntity
<1>2. "spawn_entity" \in Processes
  BY DEF Processes
<1>3. /\ proc' \in [Processes -> {"none", "running", "done", "failed"}]
      /\ count' \in [Processes -> Nat] /\ timers' \subseteq Processes
      /\ StartedOnce' /\ Caused' /\ Placed' /\ NotYet' /\ Registered'
      /\ Stays
      /\ \A q \in Processes \ {"spawn_entity"} :
           proc'[q] \in {proc[q], "running"}
  BY <1>1, <1>2, ExitKeeps
<1>4. TypeOK'
  BY <1>1, <1>2, <1>3 DEF Inv, TypeOK
<1>5. proc'["controller_spawner"] = "done"
        => proc["controller_spawner"] = "done"
  BY <1>3, SpawnerNames, SpawnersRun
<1>6. Kept'
  BY <1>1, <1>3, <1>5, KeptStep DEF Inv
<1> QED
  BY <1>3, <1>4, <1>6 DEF Inv

(* A controller manager comes up.                                          *)
LEMMA ServeStep ==
  ASSUME Inv, NEW p \in Processes, Serve(p)
  PROVE  Inv'
<1>1. /\ serving' = serving \cup {p}
      /\ UNCHANGED <<launched, flags, rules, proc, count, timers, active,
                     faults>>
  BY DEF Serve
<1>2. TypeOK'
  BY <1>1 DEF Inv, TypeOK
<1> QED
  BY <1>1, <1>2, Static DEF Inv

(* A spawner gives up.                                                     *)
LEMMA GiveUpStep ==
  ASSUME Inv, NEW s \in Spawners, GiveUp(s)
  PROVE  Inv'
<1>1. /\ proc[s] = "running" /\ faults < MaxFaults /\ faults' = faults + 1
      /\ OnProcessExit(s, "failed")
      /\ UNCHANGED <<launched, flags, rules, serving, active>>
  BY DEF GiveUp
<1>2. s \in Processes
  BY SpawnersRun
<1>3. /\ proc' \in [Processes -> {"none", "running", "done", "failed"}]
      /\ count' \in [Processes -> Nat] /\ timers' \subseteq Processes
      /\ StartedOnce' /\ Caused' /\ Placed' /\ NotYet' /\ Registered'
      /\ Stays /\ proc'[s] = "failed"
      /\ \A q \in Processes \ {s} : proc'[q] \in {proc[q], "running"}
  BY <1>1, <1>2, ExitKeeps
<1>4. TypeOK'
  BY <1>1, <1>3, BringupAssumption DEF Inv, TypeOK
<1>5. proc'["controller_spawner"] = "done"
        => proc["controller_spawner"] = "done"
  BY <1>3, SpawnerNames, SpawnersRun
<1>6. Kept'
  BY <1>1, <1>3, <1>5, KeptStep DEF Inv
<1> QED
  BY <1>3, <1>4, <1>6 DEF Inv

(* Only with its own process does the controller of the driver go.         *)
LEMMA LostFromDriver ==
  ASSUME NEW p, p # "control_node"
  PROVE  Controller["controller_spawner"] \notin Lost(p)
<1> SUFFICES ASSUME NEW x \in Spawners,
                    Controller[x] = Controller["controller_spawner"]
             PROVE  Hosts(x) = {"control_node"}
  BY DEF Lost
<1>1. x = "controller_spawner"
  BY ControllerOf, SpawnerNames
<1> QED
  BY <1>1 DEF Hosts, Simulated

(* Another process ends, and its controllers with it.                      *)
LEMMA DieStep ==
  ASSUME Inv, NEW p \in Processes, Die(p)
  PROVE  Inv'
<1> DEFINE gone == IF p = "gazebo" THEN {"spawn_entity"} ELSE {p}
<1>1. /\ p \notin Spawners /\ proc[p] = "running"
      /\ faults < MaxFaults /\ faults' = faults + 1
      /\ OnProcessExit(p, "failed")
      /\ serving' = serving \ gone /\ active' = active \ Lost(p)
      /\ UNCHANGED <<launched, flags, rules>>
  BY DEF Die
<1>2. /\ proc' \in [Processes -> {"none", "running", "done", "failed"}]
      /\ count' \in [Processes -> Nat] /\ timers' \subseteq Processes
      /\ StartedOnce' /\ Caused' /\ Placed' /\ NotYet' /\ Registered'
      /\ Stays /\ proc'[p] = "failed"
      /\ \A q \in Processes \ {p} : proc'[q] \in {proc[q], "running"}
  BY <1>1, ExitKeeps
<1>3. TypeOK'
  BY <1>1, <1>2, BringupAssumption DEF Inv, TypeOK
<1>4. proc'["controller_spawner"] = "done"
        => proc["controller_spawner"] = "done"
  BY <1>1, <1>2, SpawnerNames, SpawnersRun
<1>5. \/ Controller["controller_spawner"] \in active
          => Controller["controller_spawner"] \in active'
      \/ Gone("control_node")'
  <2>1. CASE p = "control_node"
    BY <1>2, <2>1 DEF Gone
  <2>2. CASE p # "control_node"
    BY <1>1, <2>2, LostFromDriver
  <2> QED
    BY <2>1, <2>2
<1>6. Kept'
  BY <1>1, <1>2, <1>4, <1>5, KeptStep DEF Inv
<1> QED
  BY <1>2, <1>3, <1>6 DEF Inv

(* The driver loses its hardware, because the emulator is gone.            *)
LEMMA ReadStep ==
  ASSUME Inv, ReadFails
  PROVE  Inv'
<1>1. /\ ~Connected /\ serving' = serving \ {"control_node"}
      /\ active' = active \ Lost("control_node")
      /\ UNCHANGED <<launched, flags, rules, proc, count, timers, faults>>
  BY DEF ReadFails
<1>2. TypeOK'
  BY <1>1 DEF Inv, TypeOK
<1>3. Kept'
  <2>1. ~Connected'
    BY <1>1 DEF Connected
  <2> QED
    BY <2>1 DEF Kept, Gone
<1> QED
  BY <1>1, <1>2, <1>3, Static DEF Inv

(* Every step keeps the invariant.                                         *)
LEMMA NextInv == Inv /\ [Next]_vars => Inv'
<1> SUFFICES ASSUME Inv, [Next]_vars PROVE Inv'
  OBVIOUS
<1>1. CASE \E f \in Files : LaunchFile(f)
  BY <1>1, LaunchStep
<1>2. CASE \E p \in Processes : TimerAction(p) \/ Serve(p) \/ Die(p)
  BY <1>2, TimerStep, ServeStep, DieStep
<1>3. CASE SpawnEntity \/ ReadFails
  BY <1>3, EntityStep, ReadStep
<1>4. CASE \E s \in Spawners : Load(s) \/ GiveUp(s)
  BY <1>4, LoadStep, GiveUpStep
<1>5. CASE UNCHANGED vars
  BY <1>5, Static DEF Inv, TypeOK, vars
<1> QED
  BY <1>1, <1>2, <1>3, <1>4, <1>5 DEF Next

-----------------------------------------------------------------------------
(* What only starts on the exit of p is not started before p has ended.    *)
LEMMA StartedAfter ==
  ASSUME Inv, NEW p, NEW S, After(rules, p, S), NEW q \in Processes \cap S,
         Started(q)
  PROVE  Ended(p)
BY DEF Inv, Caused, After, Fired

(* The rules of the file launched.                                         *)
LEMMA RulesOfOne ==
  ASSUME Inv, NEW f, f \in launched,
         f \notin {"test_without_spawner", "test_spawner_cli"}
  PROVE  launched = {f} /\ rules = RulesOf(f, flags) /\ f \in FileNames
<1>1. launched = {f} /\ f \in FileNames
  BY BringupAssumption DEF Inv, Registered, TypeOK
<1> QED
  BY <1>1 DEF Inv, Registered

(* The simulation of a bringup waits for the controller of the driver.     *)
LEMMA SimulationAfter ==
  ASSUME Inv, launched \cap Bringups # {}
  PROVE  After(rules, "controller_spawner", Sims)
<1>1. PICK f \in Bringups : f \in launched
  OBVIOUS
<1>2. rules = RulesOf(f, flags)
  BY <1>1, RulesOfOne DEF Bringups
<1> QED
  BY <1>2, ApartBringupGazebo, ApartBringupSpawnOnGazebo, ApartBringupMujoco,
     OneCauseVisualServoing DEF Bringups, RulesOf

(* The order of starting follows from the invariant.                       *)
LEMMA InvInOrder == Inv => InOrder
<1> SUFFICES ASSUME Inv PROVE InOrder
  OBVIOUS
<1>1. ASSUME launched \cap Bringups # {},
             Started("spawn_entity") \/ Started("mujoco")
      PROVE  Ended("controller_spawner")
  BY <1>1, SimulationAfter, StartedAfter DEF Sims, Processes
<1>2. ASSUME launched \cap {"start", "bringup_moveit"} # {},
             Started("move_group")
      PROVE  Ended("controller_spawner")
  <2>1. PICK f \in {"start", "bringup_moveit"} : f \in launched
    BY <1>2
  <2>2. rules = start(flags)
    BY <2>1, RulesOfOne DEF RulesOf, bringup_moveit
  <2>3. After(rules, "controller_spawner", {"move_group"})
    BY <2>2, ApartStart
  <2> QED
    BY <1>2, <2>3, StartedAfter DEF Processes
<1>3. ASSUME launched = {"controller2"}, Started("controller_spawner")
      PROVE  Ended("broadcaster_spawner")
  <2>1. rules = controller2(flags)
    BY <1>3, RulesOfOne DEF RulesOf
  <2>2. After(rules, "broadcaster_spawner", {"controller_spawner"})
    BY <2>1, ApartController2
  <2> QED
    BY <1>3, <2>2, StartedAfter, SpawnerNames DEF Processes
<1> QED
  BY <1>1, <1>2, <1>3 DEF InOrder

(* A file that starts a driver and a simulation is one of the bringups.    *)
LEMMA BothInBringups ==
  ASSUME Inv, Started("control_node"),
         Started("spawn_entity") \/ Started("mujoco")
  PROVE  launched \cap Bringups # {}
<1>1. /\ "control_node" \in Names(rules)
      /\ "spawn_entity" \in Names(rules) \/ "mujoco" \in Names(rules)
  BY DEF Inv, Caused, Names, Processes
<1>2. "control_node" \notin Simulation
      /\ "spawn_entity" \notin Few /\ "mujoco" \notin Few
  BY DEF Simulation, Few
<1>3. ~Apart(rules, Few) /\ ~Apart(rules, Simulation)
  BY <1>1, <1>2 DEF Apart
<1>4. CASE launched = {}
  BY <1>1, <1>4 DEF Inv, Registered, Names
<1>5. CASE launched = {"test_without_spawner", "test_spawner_cli"}
  <2>1. rules = test_without_spawner(flags) \cup test_spawner_cli(flags)
    BY <1>5 DEF Inv, Registered, RulesOf
  <2> QED
    BY <1>3, <2>1, OneOrTheOther
<1>6. CASE \E f \in Files : launched = {f}
  <2>1. PICK f \in Files : launched = {f}
    BY <1>6
  <2>2. f \in FileNames /\ rules = RulesOf(f, flags)
    BY <2>1, BringupAssumption DEF Inv, Registered
  <2>3. CASE f \in {"bringup_rviz", "start", "bringup_moveit", "demo",
                    "controller2", "test_without_spawner", "test_spawner_cli"}
    <3>1. Apart(RulesOf(f, flags), Few)
      BY <2>3, OneOrTheOther DEF RulesOf, bringup_moveit
    <3> QED
      BY <1>3, <2>2, <3>1
  <2>4. CASE f \in {"gazebo", "spawn_on_gazebo", "mujoco", "mujoco_default",
                    "visual_servoing_gazebo"}
    <3>1. Apart(RulesOf(f, flags), Simulation)
      BY <2>4, OneOrTheOther DEF RulesOf
    <3> QED
      BY <1>3, <2>2, <3>1
  <2>5. CASE f \in Bringups
    BY <2>1, <2>5
  <2> QED
    BY <2>2, <2>3, <2>4, <2>5 DEF FileNames, Bringups
<1> QED
  BY <1>4, <1>5, <1>6 DEF Inv, Registered

(* So does that a simulation finds the controller active.                  *)
LEMMA InvSimulationDriven == Inv => SimulationDriven
<1> SUFFICES ASSUME Inv, Started("control_node"),
                    Started("spawn_entity") \/ Started("mujoco"),
                    proc["controller_spawner"] # "failed",
                    ~Gone("control_node")
             PROVE  Controller["controller_spawner"] \in active
  BY DEF SimulationDriven
<1>1. Ended("controller_spawner")
  BY BothInBringups, InvInOrder DEF InOrder
<1> QED
  BY <1>1 DEF Inv, Kept, Ended

-----------------------------------------------------------------------------
(* The invariant holds in every state.                                     *)
THEOREM InvHolds == Spec => []Inv
<1>1. Inv /\ [][Next]_vars => []Inv
  BY NextInv, PTL
<1> QED
  BY <1>1, InitInv, PTL DEF Spec

(* Every variable has its type: what a rule names is a process, and the    *)
(* number of times it is executed is one.                                  *)
THEOREM TypeCorrect == Spec => []TypeOK
<1>1. Inv => TypeOK
  BY DEF Inv
<1> QED
  BY <1>1, InvHolds, PTL

(* Whatever file is launched with whatever flags, no process is started    *)
(* twice.                                                                  *)
THEOREM StartsOnce == Spec => []StartedOnce
<1>1. Inv => StartedOnce
  BY DEF Inv
<1> QED
  BY <1>1, InvHolds, PTL

(* Simulations, move_group and the controller of controller2 start after   *)
(* the spawner they are to wait for, whatever fails on the way.            *)
THEOREM StartsInOrder == Spec => []InOrder
BY InvInOrder, InvHolds, PTL

(* A simulation beside a driver runs with the controller of the driver     *)
(* active, whatever else failed.                                           *)
THEOREM SimulationIsDriven == Spec => []SimulationDriven
BY InvSimulationDriven, InvHolds, PTL

=============================================================================
