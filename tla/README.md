# Formal model of the window cleaning robot

This directory holds TLA+ models of the program that drives a Doosan arm
through window cleaning tasks and of the parts of the driver stack it stands
on, the TLC configurations that check them on small instances, and TLAPS proofs
of what matters most. The models are translated from the source. Line numbers
`L…` refer to `sky_cleaner.py` where the controller is spoken of, to
`DSR_ROBOT2.py` for the Python API and to `dsr_hw_interface2.cpp` for the
hardware interface; all paths begin with `src/doosan-robot2/`.

```
tlc -workers 2 -config MCSkyCleaner_pause_resume.cfg MCSkyCleaner
tlapm SkyCleanerProofs.tla
```

## 1. Inventory of the system

The repository is a ROS 2 workspace. Its own logic is small and sits in the task
controller, the operator panel and a master sequence; the rest is the
manufacturer's driver stack, robot descriptions and launch files.

| Component | State | Operations | Talks to |
|---|---|---|---|
| Task controller `sky_cleaner.py` | 7 globals: `latest_cmd`, `active_task_cmd`, `current_step_index`, `task_thread`, `shared_progress`, `shared_status`, `final_publish_needed`; `progress_lock` | `cmd_callback`; main loop (spin, publish, reap, start); worker `perform_task_logic`; `safe_move`; 16 step functions; progress timer | panel by `/dsr01/task/start`, `/task/progress`, `/task/status` (depth 1); robot by service calls |
| Operator panel `examples_widget.py` | last progress, last status, label, path tracking | START, CONTINUE, E-STOP; two subscriptions | controller |
| Python robot API `DSR_ROBOT2.py`, `DR_common2.py`, `DR_error2.py` | module globals: `_g_velj`, `_g_accj`, `_g_velx`, `_g_accx`, `_g_coord`, `_g_analog_output_mode_ch1/2`; the rclpy context | about 150 free functions (L466-L6531), each of which checks its arguments, places one request and waits; `DR_Error` ends the context | controller node by services and topics |
| Hardware interface `dsr_hw_interface2.cpp` | `get_control_access`, `is_standby`, the idle flag of `write` | `on_init`, the library's callbacks, `read`, `write` | closed robot library |
| Controller node `dsr_controller2.cpp` | authority, robot state, error log | about 100 services, monitoring callbacks | closed robot library |
| Launch files of bringup, Gazebo, MuJoCo, MoveIt, tests | what is running | lists, timers, handlers on start and exit | every process above |
| Master sequence `master_runner.py` with `wriper_msg.py`, `move_vertical_ooo.py`, `grip_tool.py`; `status_monitor.py` | none but its place in the sequence; monitor: alive or not | one callback that runs the whole sequence; monitor stops at 100 % | `/task/start`, `cleaning_status` |
| Pose publisher `ee_pose_pkg` | none | a timer, a transform | panel |
| Realtime example, socket helpers, `CRobotSync`, bridges, emulator, tests | see `PROJECT.json` | | |

**What is hard.**

- *Controller.* Two threads and one callback that runs in either of them, seven
  globals of which only progress and status are written under a lock, a
  checkpoint written from eight places, a pause that must take effect in the
  middle of a step, and a robot call that itself spins the node and so runs
  callbacks inside the worker.
- *Python API.* What the module remembers of the robot (reference coordinate,
  modes of the analog outputs) is written before or after a request that may be
  refused, lost in a restart or overtaken by another thread's; the defaults for
  speeds come from earlier calls; one failed argument check ends the context
  for every thread; and all threads wait in one executor, out of which the first
  to return takes the node.
- *Hardware interface.* `on_init` reads two plain booleans, in three places of a
  loop of ten rounds, which the library's thread writes one after the other.
- *Launch files.* Order is by exit handlers that fire whatever the exit code,
  by timers, and by actions that a file defines and forgets to return; two files
  end before they start anything.

**What makes it correct.** A pause stops the arm; a resume goes on with the
step that was interrupted and skips none; "completed" and 100 % are said only
of a task all of whose steps have run, and such a task leaves the gripper open and
compliance off but for what the robot refused; every completion is shown; the
operator can always start again; shutdown ends. A motion has a time or a speed;
joint angles are sent as a pose where three named functions let them through and
nowhere else; what the module remembers is what the controller has. The driver
believes only in an authority it holds. Whatever fails in a launch, the rest of
what waits for something that has happened comes up. `PROJECT.json` lists the hazards
line by line and the properties that would catch each.

## 2. Modules

| Module | What it is |
|---|---|
| `CleaningSteps` | the task tables (L179-L278): each step as its sequence of calls - guarded move, digital output, compliance, partial progress report |
| `SkyCleaner` | the controller: callback, main loop, worker, robot calls; specification and properties |
| `PausableTask` | the abstract specification: steps begin in their order, a broken-off step is begun again before any later one, completion is said after the last |
| `SkyCleanerInv` | the inductive invariants |
| `SkyCleanerProofs` | theorems and proofs: types, pause, publication, no step skipped |
| `SkyCleanerEndProofs` | theorems and proofs: what 100 % and COMPLETED mean |
| `SkyCleanerRefinement` | the proof that `SkyCleaner` implements `PausableTask` |
| `CleanerPanel` | the operator panel composed with `SkyCleaner`: buttons, topics of one message, the progress timer, the label |
| `CleanerPanelProofs` | theorem and proof: the progress shown never goes back |
| `RobotCall` | how any function of the Python API runs: checks, request, wait, the controller's answer, restart, the end of the context |
| `ApiQueries`, `ApiStreams`, `ApiMotion`, `ApiControl`, `ApiInOut` | the functions of the API, one action each, in the order of the file |
| `RobotApi` | programs that call them, and the properties |
| `RobotApiProofs` | theorems and proofs |
| `DriverInit` | `on_init` against the library's callbacks and the robot; the safety mode of `write` |
| `DriverInitProofs` | theorems and proofs |
| `LaunchFiles` | each launch file as a set of rules |
| `Bringup` | the launch system executing them, with failures |
| `BringupProofs` | theorems and proofs |
| `MCSkyCleaner`, `MCCleanerPanel`, `MCRobotApi`, `MCDriverInit`, `MCBringup` | instances for TLC |

### SkyCleaner and the code

*Grain.* An action reads or writes at most one global outside `progress_lock`,
or is one block under the lock. CPython switches threads between bytecodes, so
this is the interleaving the code really has: for example
`latest_cmd = active_task_cmd` is `LoadActive` then `StoreLatest`, and a worker
may reset `active_task_cmd` between them.

*Three activities.* `mpc` walks through the main loop (spin, publish, clear,
reap, reset, start; join, exit after shutdown); `wpc` through the worker
(init, announce, loop, call, go, moving, ... finally and its resets, dead);
`cpc` through `cmd_callback`. `MarkPaused`, `ShareProgress`, `Report`,
`ResetShown`, ... are the blocks under the lock. The three writes of L374-L377
are separate actions, because the main loop reads `final_publish_needed` and
`shared_status` without the lock; `LockFree` keeps the other locked blocks
out meanwhile.

*Who runs callbacks.* A callback needs a thread that spins the node. The main
loop does in `spin_once`; the worker does inside each DSR_ROBOT2 call, which
waits with `rclpy.spin_until_future_complete(g_node, future)`. The answer of the
robot is itself a callback of the node: it is handled when no other callback is
running (`Answer`). rclpy's function adds the node to the global executor -
which makes the main loop's executor lose it - and removes it on return; from
the first robot call on the main loop spins nothing. The constant `Detaches`
says whether the model does so. With `Detaches = TRUE` the model is the code
with that library; this is how the runs are made that show the code at fault.
With `FALSE` every thread that spins has the node, which allows every behaviour
of the code and those it would have once the loop is repaired: the runs that
must pass use it, so what they show holds in either case.

*Data.* A status string is the sequence of its words, so `_PAUSED` and
`_RUNNING` are exchanged as the code does. Positions, speeds and waits are left
out. A robot call returns or raises. It returns also when the robot refused, with
a -1 that nobody looks at: of a motion nothing is kept, so that a refused one is
`MoveDone`; a compliance or output call that is refused leaves the robot as it was
and the task goes on (`CallRefused`). Refusals of those calls and raises happen
at most `MaxFaults` times, and any number of times after shutdown, when the
context is gone. Percentages are integers;
`int(x / y * 100)` with doubles gives the same number as integer division for
every whole step of the three tables, and differs by one for one report within
a step (full task, step 12, pass 7 of 10).

*History variables.* `covered` and `coveredTask` count the steps that have run
since the task was last started afresh; `lateMoves` counts the moves begun
since the last pause took effect; `refused` holds the channels (compliance, the two
outputs of the gripper) whose last answer was a refusal. They are read by no guard.

### RobotApi and the code

*A call.* Each function of `DSR_ROBOT2.py` is one action: its checks in the
order of the code, ending in `Raise` or in a request. `Check(condition, kind,
rest)` is one `if ...: raise`. `Publish` puts a message on a topic and returns;
`Post` calls `call_async` whether or not anyone serves; `FindAndPost` first loops
on `wait_for_service`. The code up to the request is one step; from there
`RobotCall` continues with a phase per thread: `published`, or `seek` (waiting for
the service), `sent`, `lost` (nobody served it, or the controller went down),
`granted` or `refused` by the controller, `accepted` or `rejected` once a spin has
handled that answer (`Handle`), and then `Return`. Between the request and the
return other threads run, which is where the module's globals go stale.

*The executor.* Every wait is `rclpy.spin_until_future_complete(g_node, future)`,
which puts the node into the one global executor of the process and takes it out
on return, whoever else still waits. `attached` says whether the node is in: a
wait sets it (`Place`, `Find`), a return clears it (`Finish`). Answers, anybody's,
are handled only while it is in; a thread that waits while it is out is `Stranded`
until some other call begins to wait. Two threads that spin the executor at the
same time may moreover end with an exception in one of them, out of which it
stores nothing (`Collide`): whether the library raises depends on its version, so
it may or may not.

*The context.* The constructor of `DR_Error` calls `rclpy.shutdown()`
(`DR_error2.py` L89): `Fail` clears `alive`. From then on every thread that waits
in `spin_until_future_complete`, stranded or not, is released without an answer
(`Abandon`), and the loop on `wait_for_service` raises (`GiveUp`). Other exceptions
(a later list entry that is no number, met by `float()`) leave the context alone.

*What the module remembers.* `velj` ... `accx`, `coord` and `aomode` are the
globals. `set_ref_coord` stores its argument after the wait whatever the answer
(`Stored` in `Finish`); the analog modes are recorded before the request (`Record`).
`devCoord` and `devMode` are what the controller has, and `unsure` is a history
variable: the settings whose last request was refused, lost or overlapped.

*Data.* A position is one of six sorts (`posj`, `posx`, a list, a list with text
first, with text later, something else), a speed a pair, an option or an index a
small integer or `Junk` (a wrong type) or `None` (not given). Of a request the
model keeps what a property tells apart, and as it goes out: for motions the
function, whether the numbers are those of a `posj` or a pose, time, and the
speeds the message has room for - of a list of six joint speeds the pair stands
for the first and for the rest, and `movej` and `movejx`, which check the list and
send `_vel[0]` and `_acc[0]` (L2541, L2692), send the first twice (`First`). For
`alter_motion` and its stream the request keeps the sort of the position; for settings
the value. Other requests that carry a position (questions for kinematics,
coordinate systems, conditions on a position) move nothing and are `Plain`.
A number given for a speed stands for the list the function makes of it.
Answers are handed to the caller and not kept.

### DriverInit and the code

`pc` walks through `on_init`: connect (20 tries), set callbacks, then the loop
with its four separate reads of `get_control_access` and `is_standby`, the two
reads after the loop, the question for the state, the settings. Each read is an action.
`events` are the notifications of the robot on their way, `library` is the
thread that delivers them: the callback for authority assigns
`get_control_access` (`OnAccess`) and then clears `is_standby` (`ClearStandby`), the
callback for states assigns `is_standby` (`OnState`). A notification before the
callbacks are registered is lost (`Drop`). The robot, which is external, grants
what is asked, may give the authority to another client and change its state by
itself, `MaxChanges` times.
`WriteMoving` and `WriteIdle` are the cycles of `write` with its static `idle`;
`ServiceMotionEnds` is the safety mode switched off at L381.

### LaunchFiles, Bringup and the code

A launch file is a set of rules `on` an event - the launch, the start or the exit
of a process - `do` start processes, at once or behind a timer. Only what is in
the list a file returns is a rule: an action defined and not returned does not
happen. Flags are the arguments that decide what starts: the mode, `gui`, `remap_tf`,
the gripper, a name; `rviz` and `start_emulator`, which the tests' file alone has
and which do not depend on the mode there; and `rt_host`. Every file that uses
`rt_host` declares it with a default except
`dsr_bringup2_visual_servoing_gazebo.launch.py`, which uses it at L99 in the first
node of its list: without it on the command line the substitution fails and
nothing starts (`bringup_visual_servoing`). The `demo.launch.py` of the MoveIt
configurations starts nothing at all (`demo`): it has `MoveItConfigsBuilder` look
for a package `a0509_moveit_config`, and the repository's is called
`dsr_moveit_config_a0509`.

`Bringup` executes rules: it counts executions, runs timers, fires exit handlers
whatever the exit code, lets controller managers come to serve, lets spawners
load, and lets processes die and spawners fail, `MaxFaults` times. In virtual mode
the driver gets through `on_init` only while the emulator runs; when the emulator
dies later, `read` may find no pose and return an error (`dsr_hw_interface2.cpp`
L318-L348), on which the controller manager lets the hardware go with its
controllers (`ReadFails`), or the closed library goes on to give the last pose.
What a spawner and a controller manager do is external and taken from how the
launch files use them.

## 3. Runs

The runs of the controller use the real tables (10, 4 and 13 steps) with
`LoopCount` 2 instead of 10: the passes differ only in number, and two have one
that is followed by a sideways move and one that is not. The panel run uses 1.

| Run | Instance | Shows |
|---|---|---|
| `pause_resume` | commands 0, 1, 3, 4; 3 sent; 2 faults | type invariant; at most one move begins after a pause; no step is lost over pauses, resumes, restarts and faults; 100 % only when all steps ran; gripper and compliance released at completion but for what the robot refused; the refinement of `PausableTask` |
| `continue` | 0, 1, 4, 150, 250; 3 sent; 1 fault | the same bound on moves and the order of publications when 1xx / 2xx overtake everything |
| `liveness` | 0, 1, 4; 3 sent; 1 fault; shutdown at any time; fair | requests are served, completions published, the controller comes to rest, and once `rclpy.ok()` is false the program ends; deadlock is not checked because then it does stop |
| `panel_result` | all buttons but two; 1 sent; 1 fault; fair | the progress shown never goes back; a completion is shown with 100 % |
| `api_calls` | one thread; every function but those for the reference and the analog outputs; four speeds, three times, four coordinates | what speeds an untimed motion goes out with, function by function, whatever the defaults have become; no pose is sent as joint angles, and angles as a pose by `movel`, `movec` and `alter_motion` only |
| `api_threads` | two threads; the reference, the system settings, the analog outputs; two coordinates, one restart; fair | what the module remembers is what the controller has, unless a call was refused, lost or overlapped; a granted analog value fits the mode; a call returns unless it is lost or another's return strands it; never are all threads stranded; one `DR_Error` releases every thread |
| `driver_handshake` | 2 connection tries, 4 rounds, 3 changes by the robot, 3 notifications on their way; fair | authority and standby are true or about to be corrected; initialisation returns, and goes past its checks only with the authority; the safety mode comes back |
| `launches` | every file; every set of up to three flags, and all eight; 2 failures | each process is started once; a simulation starts after the controller that drives it and, whatever else fails, with it active as long as its own spawner did not fail and driver and emulator live; everything that waits for something that has happened is started, and every controller asked for is active unless its own spawner failed or its robot is gone |

*Bounds of the controller.* Three commands are the shortest histories in which a
command meets the remains of two earlier ones: start-pause-resume,
start-pause-restart, start-restart-pause, continue-continue-pause. The races
shown below need one to three; one (`zero`) is found with five. One fault is
enough to combine an error with each of them; `pause_resume` has two, so that a call
refused and an error, a refusal and the same call repeated, or two refused
channels meet in one task. Deadlock is checked in every run of
the controller but `liveness`: with the operator's commands used up, the main loop
still turns. `panel_result` sends one command because its properties are about
what follows *one* command (`sent <= 1` is in the properties themselves).

*Bounds of the API.* The motion properties concern one call and the defaults that
earlier calls leave, so one thread, but every sort of argument: the four speeds
are usable, with a zero first entry (which joint speeds may have, and which is all
that `movej` sends), negative, and with the second entry unset as `set_velx`
with one number leaves it. The settings concern overlaps: two threads give each overlap of a change with another
change or with a value on its way, one restart each loss, and every order in which
two waits share the executor. Deadlock is
not checked: when the context is gone a program may have nothing left to do, and
without a controller a call waits for good.

*Bounds of the driver.* Four rounds let each of the three conditions of the loop fail
and succeed once and be overtaken once more; more rounds repeat. Three changes
are a grant lost, asked again and lost again. When on_init
has failed nothing more need happen, so deadlock is not checked.

*Bounds of the launches.* Two failures are the first that combine a failed spawner
with a dead process. No file has a process that depends on more than two flags at
once, and files include one other at most; every three flags together, and all
of them, cover the combinations.
A launch that has come up stops, so deadlock is not checked.

Four runs end in a counterexample. Each refutes what a comment in the source
says; `PROJECT.json` quotes it.

| Run | What happens |
|---|---|
| `estop` | `stop` does not exist in DSR_ROBOT2: the swallowed ImportError leaves the motion running |
| `resume` | after the first robot call the main loop hears no command; a resume of a paused task is never read |
| `zero` | a task runs with `active_task_cmd = 0` and ignores every 0 |
| `completed` | a task is declared completed without running a step |

The first two need nothing but ordinary use; `resume` is the one a repair
should begin with.

**Met while modelling, in the models, without a run.**

- A resume that arrives while the worker winds up is taken for a failure and
  wipes the checkpoint (L382).
- 100 % can go out with a RUNNING status; a RUNNING status can overwrite PAUSED
  (L310, L345 against L383).
- A start that repeats the running command is accepted (L91 against L90); a
  continue command changes the globals but not the task that runs (L109).
- The panel shows a pause as RUNNING and an error not at all
  (`examples_widget.py` L208).
- After a granted `set_ref_coord(DR_TOOL)`, `get_current_posx()` raises, because
  it takes the default and allows only BASE and WORLD; its exception ends the
  context.
- `set_velx` with one number leaves the second entry at -10000; `movel` accepts
  that, `servol` and `move_spiral` raise.
- `moveb` checks no time: a negative one goes out.
- `movej` and `movejx` check six speeds and send the first: a list that begins with
  0 goes out as speed 0 (L2541, L2692).
- `alter_motion` takes a `posj` and sends its angles as a change of pose (L3885).
- Two threads that call at once share the global executor: the return of one can
  leave the other waiting for an answer that nobody handles, until another call is made
  or the context ends.
- A refused `release_compliance_ctrl` or `set_digital_output` returns -1, and the
  task goes on to COMPLETED with compliance on or the gripper closed (L230, L249).
- Two forms of `set_user_cart_coord` that its comment lists test `pos` the wrong way
  round and raise just when it is given (L4932, L4948).
- The check that a list holds numbers looks at its first entry only.
- A spawner of the visual-servoing bringup and a handler of the MoveIt start
  file are defined and never returned, so they do nothing; with a name,
  `dsr_controller2.launch.py` asks a controller manager that is not there.
- The README of the visual servoing example (L30) launches its bringup without
  `rt_host`, which the file uses and does not declare: nothing comes up. Nor does
  anything of `demo.launch.py` in the nine MoveIt configurations that have one.

## 4. Fairness

*Controller.* `FairSpec` is weak fairness of the main loop, the worker and a
callback that has started. The main loop never blocks (spin_once has a timeout,
the lock is held for a few assignments); the worker blocks only in robot calls,
and that each returns or raises is the assumption made of the robot; a callback
has no blocking call. Operators, the arrival of messages, faults and shutdown are
not fair. `HearSpec` adds that a thread that spins the node again and again takes
the waiting message, which is what an executor is for. `FairPanelSpec` adds the
panel's subscriptions; the timer is not fair, since it may be late at any one
moment.

*API.* The controller comes up in the end (`ComeUp`), and a thread inside a
call goes on when it can (`Service`): the message is published, the service handler
answers one way or the other, a spin that has the node handles the answer, and the
wait returns. No program is made to call anything, so nothing is sure to free a
stranded thread; and no two spins are made to collide (`Collide`).

*Driver.* The two threads go on. The robot owes nothing: `InitReturns` holds even
if it never answers.

*Launch.* Launching, timers, controller managers coming up, and spawners that
reach one are fair; nothing has to fail, `ReadFails` included, and a spawner that
reaches no manager may wait for good.

## 5. Proofs

### The task controller

`SkyCleanerProofs` proves, for every task table, every set of commands and all
bounds:

- `TypeCorrect`: `Spec => []TypeOK`. Includes that no index leaves a table.
- `PauseBound`: `Spec => []AtMostOneMoveAfterPause`. The invariant is
  `PauseIInv`. The point is that while a worker is in its loop, `latest_cmd = 0`
  implies `active_task_cmd # 0`, so the check of L63 fires; this must be
  carried through each place of the callback (`cread`, the value read, is not 0
  when it will be stored) and needs `ThreadInv` to know that no second worker
  is started. A move that has passed its check is the first since the pause.
- `PublicationOrder`: `Spec => []PublishedBeforeNextTask`, by `PublishIInv`: a
  publication owed belongs to a worker that is winding up, and once it is dead
  nothing has been requested while the main loop is between its publication and
  its start.
- `NoStepSkipped`: without continue commands, `Spec => []CompletedMeansAllSteps`,
  by `StepsIInv`: the checkpoint never exceeds the steps covered, and belongs to
  the task that would be resumed from it; callback, worker and globals agree on
  that task for as long as the worker lives. The assumption is necessary: see
  the run `completed`.
- `StepOrder` (in `SkyCleanerRefinement`): without continue commands,
  `Spec => StepsInOrder`, where `StepsInOrder` is the specification of
  `PausableTask` under the mapping `task <- coveredTask`, `done <- covered`,
  `running <- StepUnderWay`, `completed <- Completing`. Given `StepsIInv`,
  entering a step is `BeginStep`, the checkpoint is `EndStep`, a pause or a
  failure inside a step is `BreakOff`, reading start index 0 is `StartAfresh`,
  and every other step is a stutter.

`SkyCleanerEndProofs` adds what the end of a task means, again without continue
commands. Both results rest on `ExactInv`: the worker runs the steps exactly in
turn, none twice, so `covered` *is* the worker's place in the table and the
checkpoint is 0 or `covered`. `OutsideKeeps` shows once what callback and main
loop leave alone; the rest is one step per action of the worker.

- `HundredIsTrue`: `Spec => []HundredMeansAllSteps`, by `HundredIInv`. A quotient of
  fewer steps than the table has is below 100 (`PercentLess`), so is a partial
  report (`PartialLess`), and `ShownInv` adds that the 100 of the last task is
  taken back before the next worker begins.
- `CompletedReleased`: `Spec => []CompletedMeansReleased`, by `ReleasedIInv`. For each
  channel the table has a last call that releases it (`EndsReleased`). `ReleaseInv`
  says that from the moment this call has been made (`Made`) the channel is
  released or in `refused`, and stays so: a later call of the table does not set it,
  and when the step is broken off and run again, `Made` is false until the call is
  made again. That the exception for `refused` covers no more than it says - a channel
  whose *last* call was refused - is in its definition: a call that is granted takes
  its channel out (`CallDone`).

Each proof is by one lemma per part of the invariant (`TypeStep`, `ThreadStep`,
`PauseStep`, `WorkStep`, `IndexStep`, `AgreeStep`, `StartStep`, `PublishStep`,
`ExactStep`, `ShownStep`, `KindStep`, `ReleaseStep`), each with one step per
action. The assumptions are those on the constants: `TasksAssumption` (each task
a non-empty sequence of steps), `CommandsAssumption`, `BoundsAssumption`,
`LoopCountAssumption`; and three on the tables, which TLC evaluates on the real
ones in every run: `ReleaseAssumption` (each table ends with the gripper open,
the two that wipe also with compliance off), `ReportAssumption` (partial reports
are at most `LoopCount` and not in the last step) and, for the panel,
`AscendAssumption` (those of one step ascend).

### The panel

`CleanerPanelProofs` proves `ProgressGrows`: `PanelSpec => ShownProgressGrows`, for
every table, command and typed number, the continue commands included. A
percentage goes from the worker's index to `shared_progress`, from there (by the
timer or by the forced publication) into the queue of one message, and from the
queue to the panel. `OrderInv` says that along this way nothing overtakes: what
the panel has is at most what is in the queue, and that at most what is shared -
or the main loop has taken the progress back (`Over`), and then the timer's guard
(L99) is false for good. For `Over` to be final there must be no second worker
and no second report: this is `OneInv`, true as long as one command at most has
been sent. Its parts: before the command is heard nothing is shown
(`HearingInv`), what the callback stores fits together (`FirstInv`), a dead worker
leaves no request (`OnceInv`), an owed publication is one of a true 100
(`OwedInv`), and the worker only raises what is shared (`RisingInv`). The last
needs arithmetic: a report of pass `j` of a step lies between the percentages of
the steps before and after it (`ShareMore`, `ShareLess`, from `QuotientIs`). The
bound of one command is necessary: the start of a second task sets 0.

### The Python API

`RobotApiProofs` proves, for any number of threads, any arguments, any families
of functions and any number of restarts, from `ApiAssumption` alone (what
integers and speeds are, and that `None` and `Junk` are neither):

- `ApiTypes`: `Spec => []TypeOK`; the default reference stays one the checks let
  through, and every call is a well-formed request.
- `Speeded`: `Spec => []MotionUsable`, and `Numbered`: `Spec => []NumbersMatch`.
  What `MotionUsable` promises depends on the function, since the checks do: a task
  motion without a time has a first speed and acceleration above zero; a list of
  joint speeds has none below zero and one above; of the one number `movej` and
  `movejx` send no more is true than that it is not negative. Both theorems follow from
  `CallsLawful`, an invariant on the requests in progress; the work is in showing
  for each function (lemmas `Begins...`) that the checks it makes imply what its request
  needs, from the types of the defaults.
- `Reference`: `Spec => []CoordTracks`, and `AnalogOutputs`: `Spec => []ModeTracks`.
  The strengthening is what holds *during* a call: a change that overlapped no
  other is the only one in progress (`Exclusive`), once granted the controller
  has its value (`GrantHolds`), and a mode asked for is the one recorded
  (`ModeRecorded`).
- `OutputsFit`: `Spec => OutputFitsMode`, an action property. `ValueFits` carries
  the check of the value from the moment it was made: as long as no change of
  the mode overlaps, the recorded mode is the controller's.
- `NeverAllStranded`: `Spec => []NotAllStranded`. Whoever takes the node out returns by
  doing so, and whoever begins to wait puts it in: all threads are never waiting
  with the node out, so a program of one thread is never stranded.

One lemma per function or family shows that it begins only lawful requests
(`Begins`), one per step of a call (`FindStep` ... `DownStep`) that it keeps the
invariant, and `StepInv` puts them together.

### The hardware interface

`DriverInitProofs` proves, for every number of tries, rounds, changes and
notifications (`DriverAssumption`), the five invariants of the run:
`DriverTypes`, `Authority` (`AccessIsAuthority`), `Standby` (`StandbyIsState`),
`Ready` (`ReadyHasAuthority`) and `Safety` (`SafetyRestored`). The invariant adds
to them:

- `Retries`: at most `ConnectTries` tries while connecting, and no round above
  `GrantTries`; needed for the bound in `TypeOK`.
- `Deaf`: before the callbacks are set both flags are false and no callback runs.
- `GrantNews` and `StandbyNews`: the *last* notification of its sort decides. A
  grant still on its way that no loss follows means that the driver holds the
  authority, so that believing it on delivery is right; the same for standby.
- `NeverTaken`: as long as the robot has changed nothing, no loss is under way.

### The launch files

`BringupProofs` proves, for every set of launch files, arguments and failures
(`BringupAssumption` says only that they are such), the four invariants of the
run: `TypeCorrect` (`TypeOK`), `StartsOnce` (`StartedOnce`), `StartsInOrder`
(`InOrder`) and `SimulationIsDriven` (`SimulationDriven`).

The first half is about the files alone. `FilesOneCause`: in every file, with
any arguments, at most one rule that can ever come to pass names a process
(`OneCause`). It is shown file by file (`Apart...`): rules with no process in
common are put together (`ApartBoth`); the two tf groups name the same processes
and exactly one of them is not empty (`ApartTf`); including a file on an exit
changes events only (`ApartIncluded`); `bringup_visual_servoing` names the
controller's spawner twice, but the handler waits for the exit of a process that
no rule starts (`NeverComes`); and the two files of the test, launched one after
the other, share no process (`LaunchedOneCause`).

The second half is the launch system executing any rules with one cause each.
`Inv` is inductive: the rules are those of the launched files (`Registered`); a
process that was started, or that a timer will start, has a rule whose event has
happened (`Caused`, `Placed`, `NotYet`), and an event happens once, so that none
is started a second time; a controller whose spawner ended well is active until
the driver or its emulator is gone (`Kept`), and what is gone stays so
(`GoneStays`), because nothing is started twice. `InOrder` follows because the
simulations have the spawner's exit as their only cause; `SimulationDriven`
because that spawner has then ended, not with a failure, and `Kept` holds.

### Only model-checked

Every invariant and every action property that a run checks is stated by a
theorem. What stays with TLC is liveness, for fairness and ENABLED are outside
the prover: `RequestServed`, `ComesToRest`, `CompletionPublished`, `ShutdownEnds`,
`HundredShown`, `CallReturns`, `ErrorFreesAll`, `InitReturns`, `Settles`; and the
four runs that find a violation. That the tables of `CleaningSteps` satisfy
`ReleaseAssumption`, `ReportAssumption` and `AscendAssumption` is evaluated by TLC
for the `LoopCount` of each run and not proved for every `LoopCount`: the wiping
loop is a recursive function, and induction over data is outside the prover too.

## 6. Not modelled

- *Controller and panel.* Positions, speeds, waits and what the arm physically
  does; the drawing of the path; the print-outs; the branch of
  `perform_task_logic` for an unknown task (L290-L296), which no command reaches.
- *Class `CDsrRobot`* (`DSR_ROBOT2.py` L6537-L11598). It repeats the free functions
  as methods, and no program of the repository creates one. Two things differ
  and would have to be modelled first: the request objects belong to the object,
  so two threads that use one object overwrite each other's requests; and
  `set_ref_coord` writes the global `_g_coord` while the motions read
  `self._g_coord`, which stays BASE.
- *Master sequence.* It runs inside a subscription callback and makes its robot
  calls there; the answer of the first belongs to the callback's own mutually
  exclusive group, so it waits for good. Nothing behind it is reachable.
- *Socket helpers and `CRobotSync`.* Vendored; nothing in the repository uses them.
- *Controller node.* Its services each make one library call; what a caller sees
  is in `RobotCall`. The callbacks it installs in place of the driver's depend on
  answers of a closed library.
- *Hardware interface.* The values of `read` (of which only the failure is modelled,
  in `Bringup`), the export of interfaces and the parsing of parameters are
  conversions.
- *Realtime example.* Its unlocked copies are undefined behaviour, and it states
  nothing that a torn copy would break.
- *Launch files* that only show a description, and nine of the ten MoveIt
  configurations, which are copies with other names.
- Meshes, descriptions, generated interfaces, image processing examples,
  simulator relays. `PROJECT.json` gives the reason for each component.

## 7. Plan

In this order:

1. The safety part of the liveness properties as invariants of their own: that
   no state is reached from which `ShutdownEnds` or `CompletionPublished` needs a
   step nobody takes (each activity always has its next action or waits for a
   named other one).
2. A second abstract specification: what the panel shows of a task, implemented
   by `CleanerPanel`.
3. The controller node's callbacks for authority and safe stop, composed with
   `DriverInit`: two drivers that ask for the authority over one robot.
4. `CDsrRobot` as an instance of the API modules, once a program uses it.
