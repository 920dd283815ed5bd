----------------------------- MODULE SkyCleaner -----------------------------
(***************************************************************************)
(* The task controller of sky_cleaner.py.  Three activities share seven    *)
(* globals: the main loop (spin, publish, reap, start), the worker thread  *)
(* that runs perform_task_logic, and cmd_callback.  An action reads or     *)
(* writes at most one global outside progress_lock, or is one block under  *)
(* progress_lock.  A callback runs in whichever thread spins the node: the *)
(* main loop inside spin_once, or the worker inside a DSR_ROBOT2 call,     *)
(* whose rclpy.spin_until_future_complete(node) spins the same node.  That *)
(* function also hands the node to rclpy's global executor, which takes it *)
(* out of the main loop's for good; with Detaches FALSE the model gives    *)
(* both threads the node all along, and allows every interleaving the      *)
(* code could meet if rclpy did not do so.                                 *)
(***************************************************************************)
EXTENDS CleaningSteps, FiniteSets

CONSTANTS
  Tasks,        \* [1..3 -> sequence of steps, a step being a sequence of Op]
  Commands,     \* the values the operator may send on /dsr01/task/start
  MaxCmds,      \* bound: commands sent in a behaviour
  MaxFaults,    \* bound: DSR_ROBOT2 calls that raise or, outside
                \* safe_move, are refused before a shutdown
  CanShutDown,  \* may rclpy.ok() become false?
  Detaches      \* does a DSR_ROBOT2 call take the node from the main loop?

OpKinds == {"move", "out", "comply", "partial"}
OpSet   == [kind : OpKinds, a : Nat, b : Nat]

IsStart(c)    == c \in 1 .. 3
RollerFrom(c) == 100 < c /\ c < 200
ClothFrom(c)  == 200 < c /\ c < 300
IsContinue(c) == RollerFrom(c) \/ ClothFrom(c)

ASSUME TasksAssumption ==
  /\ Tasks \in [1 .. 3 -> Seq(Seq(OpSet))]
  /\ \A c \in 1 .. 3 : Tasks[c] # <<>>
ASSUME CommandsAssumption == Commands \subseteq Nat
ASSUME BoundsAssumption ==
  MaxCmds \in Nat /\ MaxFaults \in Nat /\ CanShutDown \in BOOLEAN
  /\ Detaches \in BOOLEAN

(* What a call sets: channel 0 is the compliance control, 1 and 2 are the  *)
(* outputs of the gripper.  Released, the gripper is commanded open.       *)
Sets(op, d) ==
  IF d = 0 THEN op.kind = "comply" ELSE op.kind = "out" /\ op.a = d
Releases(op, d) == Sets(op, d) /\ IF d = 0 THEN op.a # 1 ELSE op.b = d - 1

(* Call k of step s releases channel d, and no later call of task c sets it*)
ReleasesLast(c, d, s, k) ==
  /\ s \in 1 .. Len(Tasks[c]) /\ k \in 1 .. Len(Tasks[c][s])
  /\ Releases(Tasks[c][s][k], d)
  /\ \A t \in s .. Len(Tasks[c]) : \A j \in 1 .. Len(Tasks[c][t]) :
       Sets(Tasks[c][t][j], d) => t = s /\ j <= k
EndsReleased(c, d) ==
  \E s \in 1 .. Len(Tasks[c]) : \E k \in 1 .. Len(Tasks[c][s]) :
    ReleasesLast(c, d, s, k)

(* The tables: each ends with the gripper open, the two that wipe also with*)
(* compliance off; the partial reports of a step ascend, and the last step *)
(* of a task makes none.                                                   *)
ASSUME ReleaseAssumption ==
  \A c \in 1 .. 3 : \A d \in IF c = 1 THEN 1 .. 2 ELSE 0 .. 2 :
    EndsReleased(c, d)
ASSUME ReportAssumption ==
  \A c \in 1 .. 3 : \A s \in 1 .. Len(Tasks[c]) :
    \A k \in 1 .. Len(Tasks[c][s]) :
      Tasks[c][s][k].kind = "partial"
        => Tasks[c][s][k].a <= LoopCount /\ s < Len(Tasks[c])
ASSUME AscendAssumption ==
  \A c \in 1 .. 3 : \A s \in 1 .. Len(Tasks[c]) :
    \A k \in 1 .. Len(Tasks[c][s]) : \A j \in k .. Len(Tasks[c][s]) :
      Tasks[c][s][k].kind = "partial" /\ Tasks[c][s][j].kind = "partial"
        => Tasks[c][s][k].a <= Tasks[c][s][j].a

VARIABLES
  latest_cmd, active_task_cmd, current_step_index,
  task_thread,           \* is the global not None?
  shared_progress, shared_status, final_publish_needed,
  mpc,                   \* where the main loop is
  wpc, wcmd, wi, wk,     \* worker: place, cmd, loop variable i, call in step
  wread,                 \* worker: current_step_index as read at L330
  outcome,               \* worker: task_completed, or what ended the loop
  cpc, ccmd, cread, cby, \* cmd_callback: place, message, value read, thread
  inbox, sent,           \* the depth-1 subscription queue; commands sent
  spinners,              \* the threads whose executor holds the node
  faults,                \* calls that raised or were refused
  compliance, outputs,   \* the robot: compliance control, digital outputs
  refused,               \* history: channels whose last answer was a refusal
  covered, coveredTask,  \* history: steps run since the last fresh start
  lateMoves              \* history: moves begun since a pause took effect

globals  == <<latest_cmd, active_task_cmd, current_step_index>>
shown    == <<shared_progress, shared_status, final_publish_needed>>
mainVars == <<task_thread, mpc>>
workVars == <<wpc, wcmd, wi, wk, wread, outcome>>
cbVars   == <<cpc, ccmd, cread, cby>>
envVars  == <<inbox, sent, spinners, faults>>
robot    == <<compliance, outputs, refused>>
history  == <<covered, coveredTask, lateMoves>>
vars == <<globals, shown, mainVars, workVars, cbVars, envVars, robot, history>>

NoCmd == 0 - 1           \* an empty queue
IDLE  == <<"IDLE">>
TaskName == <<"ROLLER_TASK", "CLOTH_TASK", "FULL_TASK">>

(* A status string is the sequence of its words, "FULL_TASK_RUNNING" being *)
(* <<"FULL_TASK", "RUNNING">>; _PAUSED replaces a final _RUNNING and is    *)
(* appended to anything else, and the other way round on resume.           *)
Remark(status, from, to) ==
  IF status[Len(status)] = from
  THEN [status EXCEPT ![Len(status)] = to]
  ELSE Append(status, to)
Paused(status)  == Remark(status, "RUNNING", "PAUSED")
Resumed(status) == Remark(status, "PAUSED", "RUNNING")

Percent(n, d) == (100 * n) \div d

Total == Len(Tasks[wcmd])
Calls == Tasks[wcmd][wi + 1]           \* the calls of step i
Call  == Calls[wk]

Alive       == wpc # "dead"
InCall      == wpc \in {"moving", "calling"}
LockFree    == wpc \notin {"fin_flag", "fin_status"}
MainBusy    == cpc # "idle" /\ cby = "main"     \* spin_once runs a callback
WorkerBusy  == cpc # "idle" /\ cby = "worker"
CanSpin(t)  == IF t = "main" THEN mpc = "spin" /\ spinners = "both"
               ELSE InCall

Init ==
  /\ latest_cmd = 0 /\ active_task_cmd = 0 /\ current_step_index = 0
  /\ shared_progress = 0 /\ shared_status = IDLE
  /\ final_publish_needed = FALSE
  /\ task_thread = FALSE /\ mpc = "spin"
  /\ wpc = "dead" /\ wcmd = 1 /\ wi = 0 /\ wk = 1 /\ wread = 0
  /\ outcome = "running"
  /\ cpc = "idle" /\ ccmd = NoCmd /\ cread = 0 /\ cby = "main"
  /\ inbox = NoCmd /\ sent = 0 /\ spinners = "both" /\ faults = 0
  /\ compliance = FALSE /\ outputs = [pin \in 1 .. 2 |-> 0]
  /\ refused = {}
  /\ covered = 0 /\ coveredTask = 1 /\ lateMoves = 0

-----------------------------------------------------------------------------
(* cmd_callback                                                            *)

(* The operator publishes; the queue holds one message, a newer one        *)
(* overwrites it.                                                          *)
Send(c) ==
  /\ sent < MaxCmds
  /\ sent' = sent + 1
  /\ inbox' = c
  /\ UNCHANGED <<globals, shown, mainVars, workVars, cbVars, spinners, faults,
                 robot, history>>

(* Where the guards at the head of cmd_callback lead.                      *)
Busy(c) == task_thread /\ Alive /\ latest_cmd # c
CanPause  == active_task_cmd # 0 /\ latest_cmd # 0
CanResume == active_task_cmd # 0 /\ latest_cmd = 0 /\ current_step_index > 0

Branch(c) ==
  CASE IsStart(c) /\ ~Busy(c)  -> "active"
    [] IsContinue(c)           -> "active"
    [] c = 0 /\ CanPause       -> "pause"
    [] c = 4 /\ CanResume      -> "load"
    [] OTHER                   -> "idle"

(* A spinning thread takes the message and evaluates the guards; a message *)
(* no branch accepts is dropped.                                           *)
Receive(t) ==
  /\ cpc = "idle" /\ inbox # NoCmd /\ CanSpin(t)
  /\ inbox' = NoCmd
  /\ cpc' = Branch(inbox)
  /\ ccmd' = inbox /\ cby' = t
  /\ UNCHANGED <<globals, shown, mainVars, workVars, cread, sent, spinners,
                 faults, robot, history>>

CallbackStep(from, to) ==
  /\ cpc = from /\ cpc' = to
  /\ UNCHANGED <<ccmd, cby, mainVars, workVars, envVars, robot>>

Target(c)    == IF IsStart(c) THEN c ELSE IF RollerFrom(c) THEN 1 ELSE 2
FromIndex(c) == IF IsStart(c) THEN 0
                ELSE IF RollerFrom(c) THEN (c - 100) \div 10
                ELSE (c - 200) \div 25

StoreActive ==
  /\ CallbackStep("active", "index")
  /\ active_task_cmd' = Target(ccmd)
  /\ UNCHANGED <<latest_cmd, current_step_index, shown, cread, history>>

StoreIndex ==
  /\ CallbackStep("index", "load")
  /\ current_step_index' = FromIndex(ccmd)
  /\ UNCHANGED <<latest_cmd, active_task_cmd, shown, cread, history>>

(* latest_cmd = active_task_cmd is a read and a write; a start stores the  *)
(* message itself.                                                         *)
LoadActive ==
  /\ CallbackStep("load", "store")
  /\ cread' = IF IsStart(ccmd) THEN ccmd ELSE active_task_cmd
  /\ UNCHANGED <<globals, shown, history>>

StoreLatest ==
  /\ CallbackStep("store", "report")
  /\ latest_cmd' = cread
  /\ UNCHANGED <<active_task_cmd, current_step_index, shown, cread, history>>

StorePause ==
  /\ CallbackStep("pause", "report")
  /\ latest_cmd' = 0
  /\ lateMoves' = 0
  /\ UNCHANGED <<active_task_cmd, current_step_index, shown, cread, covered,
                 coveredTask>>

(* The block under progress_lock that ends each branch.                    *)
StartStatus(c) ==
  CASE c = 3           -> <<"FULL_TASK", "ROLLER_PHASE", "RUNNING">>
    [] c \in 1 .. 2    -> <<TaskName[c], "RUNNING">>
    [] OTHER           -> <<"UNKNOWN_TASK", "RUNNING">>

Report ==
  /\ LockFree
  /\ CallbackStep("report", IF ccmd = 0 THEN "stop" ELSE "idle")
  /\ shared_progress' =
       CASE IsStart(ccmd)    -> 0
         [] IsContinue(ccmd) ->
              Percent(current_step_index, Len(Tasks[Target(ccmd)]))
         [] OTHER            -> shared_progress
  /\ shared_status' =
       CASE ccmd = 0 -> Paused(shared_status)
         [] ccmd = 4 -> Resumed(shared_status)
         [] OTHER    -> StartStatus(ccmd)
  /\ UNCHANGED <<globals, final_publish_needed, cread, history>>

(* "from DSR_ROBOT2 import stop": the module defines no stop, the          *)
(* ImportError is swallowed, and the motion in progress goes on.           *)
StopMotion ==
  /\ CallbackStep("stop", "idle")
  /\ UNCHANGED <<globals, shown, cread, history>>

Callback == StoreActive \/ StoreIndex \/ LoadActive \/ StoreLatest
            \/ StorePause \/ Report \/ StopMotion

-----------------------------------------------------------------------------
(* The main loop                                                           *)

MainStep(from, to) ==
  /\ mpc = from /\ mpc' = to
  /\ UNCHANGED <<globals, cbVars, envVars, robot, history>>

(* Mutant: the final publication only while the worker is still there.     *)
SpinOnceAlive ==
  /\ ~MainBusy
  /\ MainStep("spin",
              IF final_publish_needed /\ Alive THEN "publish" ELSE "reap")
  /\ UNCHANGED <<task_thread, shown, workVars>>

(* spin_once returns (timeout or callbacks done); "if final_publish_needed"*)
SpinOnce ==
  /\ ~MainBusy
  /\ MainStep("spin", IF final_publish_needed THEN "publish" ELSE "reap")
  /\ UNCHANGED <<task_thread, shown, workVars>>

(* Publish 100 and shared_status, which is read without the lock.          *)
ForcedPublish ==
  /\ MainStep("publish", "clear")
  /\ UNCHANGED <<task_thread, shown, workVars>>

ClearFlag ==
  /\ MainStep("clear", "reap")
  /\ final_publish_needed' = FALSE
  /\ UNCHANGED <<task_thread, shared_progress, shared_status, workVars>>

(* Mutant: the dead thread object is joined but not dropped.               *)
ReapKept ==
  /\ task_thread /\ ~Alive
  /\ MainStep("reap", "reset")
  /\ UNCHANGED <<task_thread, shown, workVars>>

Reap ==
  /\ task_thread /\ ~Alive
  /\ MainStep("reap", "reset")
  /\ task_thread' = FALSE
  /\ UNCHANGED <<shown, workVars>>

NothingToReap ==
  /\ ~(task_thread /\ ~Alive)
  /\ MainStep("reap", "start")
  /\ UNCHANGED <<task_thread, shown, workVars>>

ResetShown ==
  /\ LockFree
  /\ MainStep("reset", "start")
  /\ shared_progress' = 0 /\ shared_status' = IDLE
  /\ UNCHANGED <<task_thread, final_publish_needed, workVars>>

StartThread ==
  /\ latest_cmd # 0 /\ ~task_thread
  /\ MainStep("start", "spin")
  /\ task_thread' = TRUE
  /\ wcmd' = latest_cmd /\ wpc' = "init" /\ outcome' = "running"
  /\ UNCHANGED <<shown, wi, wk, wread>>

NothingToStart ==
  /\ latest_cmd = 0 \/ task_thread
  /\ MainStep("start", "spin")
  /\ UNCHANGED <<task_thread, shown, workVars>>

(* rclpy.ok() is false: leave the loop, join the worker, exit.             *)
Shutdown ==
  /\ CanShutDown /\ ~MainBusy
  /\ MainStep("spin", "join")
  /\ UNCHANGED <<task_thread, shown, workVars>>

(* Mutant: shutdown waits for the loop it has left to drop the thread.     *)
ExitReaped ==
  /\ ~task_thread
  /\ MainStep("join", "exit")
  /\ UNCHANGED <<task_thread, shown, workVars>>

Exit ==
  /\ ~Alive
  /\ MainStep("join", "exit")
  /\ UNCHANGED <<task_thread, shown, workVars>>

Main == SpinOnce \/ ForcedPublish \/ ClearFlag \/ Reap \/ NothingToReap
        \/ ResetShown \/ StartThread \/ NothingToStart \/ Exit

-----------------------------------------------------------------------------
(* perform_task_logic                                                      *)

WorkerStep(from, to) ==
  /\ wpc = from /\ wpc' = to
  /\ spinners' = IF Detaches /\ to \in {"moving", "calling"} THEN "worker"
                 ELSE spinners
  /\ UNCHANGED <<mainVars, wcmd, cbVars, inbox, sent>>

(* start_index = current_step_index.  A start from step 0 is a fresh one.  *)
ReadStart ==
  /\ WorkerStep("init", "announce")
  /\ wi' = current_step_index
  /\ IF current_step_index = 0
     THEN covered' = 0 /\ coveredTask' = wcmd
     ELSE UNCHANGED <<covered, coveredTask>>
  /\ UNCHANGED <<globals, shown, wk, wread, outcome, faults, robot, lateMoves>>

Announce ==
  /\ WorkerStep("announce", "loop")
  /\ shared_status' = <<TaskName[wcmd], "RUNNING">>
  /\ UNCHANGED <<globals, shared_progress, final_publish_needed, wi, wk, wread,
                 outcome, faults, robot, history>>

(* The loop head: exhausted, told to stop, or on to step i.                *)
LoopDone ==
  /\ WorkerStep("loop", "finally")
  /\ wi >= Total
  /\ outcome' = "completed"
  /\ UNCHANGED <<globals, shown, wi, wk, wread, faults, robot, history>>

LoopStopped ==
  /\ WorkerStep("loop", "save")
  /\ wi < Total /\ latest_cmd = 0
  /\ UNCHANGED <<globals, shown, wi, wk, wread, outcome, faults, robot,
                 history>>

EnterStep ==
  /\ WorkerStep("loop", "call")
  /\ wi < Total /\ latest_cmd # 0
  /\ wk' = 1
  /\ UNCHANGED <<globals, shown, wi, wread, outcome, faults, robot, history>>

(* Mutant: a pause before step i saves the step after it.                  *)
SaveNextIndex ==
  /\ WorkerStep("save", "finally")
  /\ current_step_index' = wi + 1
  /\ outcome' = "paused"
  /\ UNCHANGED <<latest_cmd, active_task_cmd, shown, wi, wk, wread, faults,
                 robot, history>>

SaveIndex ==
  /\ WorkerStep("save", "finally")
  /\ current_step_index' = wi
  /\ outcome' = "paused"
  /\ UNCHANGED <<latest_cmd, active_task_cmd, shown, wi, wk, wread, faults,
                 robot, history>>

(* Mutant: safe_move without its check.                                    *)
NeverStop == FALSE

(* safe_move: raise when paused, else move.  Both globals are read, but    *)
(* while the worker is here only a callback writes active_task_cmd, and    *)
(* never to 0.                                                             *)
StopRequested == latest_cmd = 0 /\ active_task_cmd # 0

CheckMove ==
  /\ WorkerStep("call", IF StopRequested THEN "interrupted" ELSE "go")
  /\ wk <= Len(Calls) /\ Call.kind = "move"
  /\ UNCHANGED <<globals, shown, wi, wk, wread, outcome, faults, robot,
                 history>>

BeginMove ==
  /\ WorkerStep("go", "moving")
  /\ lateMoves' = IF latest_cmd = 0 /\ lateMoves < 2 THEN lateMoves + 1
                  ELSE lateMoves
  /\ UNCHANGED <<globals, shown, wi, wk, wread, outcome, faults, robot,
                 covered, coveredTask>>

(* The service answers.  The answer is a callback of the node like any     *)
(* other: it is handled when no other one runs, and ends the spinning.     *)
Answer ==
  /\ cpc = "idle"
  /\ WorkerStep("moving", "moved") \/ WorkerStep("calling", "called")
  /\ UNCHANGED <<globals, shown, wi, wk, wread, outcome, faults, robot,
                 history>>

(* A motion the robot refused only returns -1.                             *)
MoveDone ==
  /\ WorkerStep("moved", "call")
  /\ wk' = wk + 1
  /\ UNCHANGED <<globals, shown, wi, wread, outcome, faults, robot, history>>

CanRaise == faults < MaxFaults \/ mpc = "join"
CountFault == faults' = IF mpc = "join" THEN faults ELSE faults + 1

(* The call raises: a clean interruption if paused meanwhile, else fatal.  *)
MoveRaises ==
  /\ CanRaise
  /\ WorkerStep("moved", IF latest_cmd = 0 THEN "interrupted" ELSE "error")
  /\ CountFault
  /\ UNCHANGED <<globals, shown, wi, wk, wread, outcome, robot, history>>

(* The calls outside safe_move.                                            *)
BeginCall ==
  /\ WorkerStep("call", "calling")
  /\ wk <= Len(Calls) /\ Call.kind \in {"out", "comply"}
  /\ UNCHANGED <<globals, shown, wi, wk, wread, outcome, faults, robot,
                 history>>

(* The channel a call sets.                                                *)
Channel(op) == {d \in 0 .. 2 : Sets(op, d)}

CallDone ==
  /\ WorkerStep("called", "call")
  /\ wk' = wk + 1
  /\ refused' = refused \ Channel(Call)
  /\ IF Call.kind = "comply"
     THEN compliance' = (Call.a = 1) /\ UNCHANGED outputs
     ELSE outputs' = [outputs EXCEPT ![Call.a] = Call.b]
          /\ UNCHANGED compliance
  /\ UNCHANGED <<globals, shown, wi, wread, outcome, faults, history>>

(* The robot refuses, or the context ended the wait without an answer: the *)
(* function returns -1, and the task goes on as if the call had succeeded. *)
CallRefused ==
  /\ CanRaise
  /\ WorkerStep("called", "call")
  /\ CountFault
  /\ wk' = wk + 1
  /\ refused' = refused \cup Channel(Call)
  /\ UNCHANGED <<globals, shown, wi, wread, outcome, compliance, outputs,
                 history>>

CallRaises ==
  /\ CanRaise
  /\ WorkerStep("called", "error")
  /\ CountFault
  /\ UNCHANGED <<globals, shown, wi, wk, wread, outcome, robot, history>>

(* cloth_task reports (current_step_index + (j / LOOP_COUNT)) / total_steps*)
PartialReport ==
  /\ WorkerStep("call", "call")
  /\ wk <= Len(Calls) /\ Call.kind = "partial"
  /\ wk' = wk + 1
  /\ shared_progress' = Percent(current_step_index * LoopCount + Call.a,
                                Total * LoopCount)
  /\ UNCHANGED <<globals, shared_status, final_publish_needed, wi, wread,
                 outcome, faults, robot, history>>

(* The step function returned: current_step_index = i + 1.                 *)
Checkpoint ==
  /\ WorkerStep("call", "calc")
  /\ wk > Len(Calls)
  /\ current_step_index' = wi + 1
  /\ covered' = IF coveredTask = wcmd /\ covered = wi THEN wi + 1 ELSE covered
  /\ UNCHANGED <<latest_cmd, active_task_cmd, shown, wi, wk, wread, outcome,
                 faults, robot, coveredTask, lateMoves>>

(* progress_percent and phase_suffix are computed before the lock is taken.*)
ReadBack ==
  /\ WorkerStep("calc", "share")
  /\ wread' = current_step_index
  /\ UNCHANGED <<globals, shown, wi, wk, outcome, faults, robot, history>>

RunningStatus ==
  IF wcmd # 3 THEN <<TaskName[wcmd], "RUNNING">>
  ELSE <<"FULL_TASK",
         IF wread <= 10 THEN "ROLLER_PHASE" ELSE "CLOTH_PHASE", "RUNNING">>

ShareProgress ==
  /\ WorkerStep("share", "loop")
  /\ shared_progress' = Percent(wread, Total)
  /\ shared_status' = RunningStatus
  /\ wi' = wi + 1
  /\ UNCHANGED <<globals, final_publish_needed, wk, wread, outcome, faults,
                 robot, history>>

(* Mutant: an interrupted step counts as done.                             *)
InterruptedAsDone ==
  /\ WorkerStep("interrupted", "mark")
  /\ current_step_index' = wi + 1
  /\ outcome' = "paused"
  /\ UNCHANGED <<latest_cmd, active_task_cmd, shown, wi, wk, wread, faults,
                 robot, history>>

(* except: an interruption keeps index i and marks the status, ...         *)
Interrupted ==
  /\ WorkerStep("interrupted", "mark")
  /\ current_step_index' = wi
  /\ outcome' = "paused"
  /\ UNCHANGED <<latest_cmd, active_task_cmd, shown, wi, wk, wread, faults,
                 robot, history>>

MarkPaused ==
  /\ WorkerStep("mark", "finally")
  /\ shared_status' = Paused(shared_status)
  /\ UNCHANGED <<globals, shared_progress, final_publish_needed, wi, wk, wread,
                 outcome, faults, robot, history>>

(* ... anything else is an error.                                          *)
MarkError ==
  /\ WorkerStep("error", "finally")
  /\ shared_status' = <<TaskName[wcmd], "ERROR">>
  /\ outcome' = "error"
  /\ UNCHANGED <<globals, shared_progress, final_publish_needed, wi, wk, wread,
                 faults, robot, history>>

(* finally: completed; still paused; or reset everything.                  *)
Finally ==
  /\ WorkerStep("finally",
       IF outcome = "completed" THEN "fin_progress"
       ELSE IF latest_cmd = 0 THEN "dead" ELSE "reset_index")
  /\ UNCHANGED <<globals, shown, wi, wk, wread, outcome, faults, robot,
                 history>>

(* The three writes under progress_lock; final_publish_needed is read      *)
(* elsewhere without it.                                                   *)
FinProgress ==
  /\ WorkerStep("fin_progress", "fin_flag")
  /\ shared_progress' = 100
  /\ UNCHANGED <<globals, shared_status, final_publish_needed, wi, wk, wread,
                 outcome, faults, robot, history>>

FinFlag ==
  /\ WorkerStep("fin_flag", "fin_status")
  /\ final_publish_needed' = TRUE
  /\ UNCHANGED <<globals, shared_progress, shared_status, wi, wk, wread,
                 outcome, faults, robot, history>>

FinStatus ==
  /\ WorkerStep("fin_status", "reset_index")
  /\ shared_status' = <<TaskName[wcmd], "COMPLETED">>
  /\ UNCHANGED <<globals, shared_progress, final_publish_needed, wi, wk, wread,
                 outcome, faults, robot, history>>

(* Mutant: -1 for "no checkpoint".                                         *)
ResetIndexToNone ==
  /\ WorkerStep("reset_index", "reset_active")
  /\ current_step_index' = NoCmd
  /\ UNCHANGED <<latest_cmd, active_task_cmd, shown, wi, wk, wread, outcome,
                 faults, robot, history>>

ResetIndex ==
  /\ WorkerStep("reset_index", "reset_active")
  /\ current_step_index' = 0
  /\ UNCHANGED <<latest_cmd, active_task_cmd, shown, wi, wk, wread, outcome,
                 faults, robot, history>>

ResetActive ==
  /\ WorkerStep("reset_active", "reset_latest")
  /\ active_task_cmd' = 0
  /\ UNCHANGED <<latest_cmd, current_step_index, shown, wi, wk, wread, outcome,
                 faults, robot, history>>

(* Mutant: a finished task leaves its request standing.                    *)
ResetLatestForgotten ==
  /\ WorkerStep("reset_latest", "dead")
  /\ UNCHANGED <<globals, shown, wi, wk, wread, outcome, faults, robot,
                 history>>

ResetLatest ==
  /\ WorkerStep("reset_latest", "dead")
  /\ latest_cmd' = 0
  /\ UNCHANGED <<active_task_cmd, current_step_index, shown, wi, wk, wread,
                 outcome, faults, robot, history>>

RunSteps == ReadStart \/ Announce \/ LoopDone \/ LoopStopped \/ EnterStep
            \/ SaveIndex \/ CheckMove \/ BeginMove \/ Answer \/ MoveDone
            \/ MoveRaises \/ BeginCall \/ CallDone \/ CallRefused \/ CallRaises
            \/ PartialReport \/ Checkpoint \/ ReadBack \/ ShareProgress
WindUp == Interrupted \/ MarkPaused \/ MarkError \/ Finally \/ FinProgress
          \/ FinFlag \/ FinStatus \/ ResetIndex \/ ResetActive \/ ResetLatest
Worker == RunSteps \/ WindUp

-----------------------------------------------------------------------------
Next ==
  \/ \E c \in Commands : Send(c)
  \/ \E t \in {"main", "worker"} : Receive(t)
  \/ Callback \/ Main \/ Shutdown \/ Worker

Spec == Init /\ [][Next]_vars

(* The main loop never blocks, every DSR_ROBOT2 call returns or raises, and*)
(* a callback that started runs to its end.  Operators, message delivery   *)
(* and shutdown are not fair.                                              *)
FairSpec == Spec /\ WF_vars(Main) /\ WF_vars(Worker) /\ WF_vars(Callback)

(* Besides, a thread that spins the node again and again takes a message   *)
(* that waits.                                                             *)
HearSpec == FairSpec /\ SF_vars(Receive("main")) /\ SF_vars(Receive("worker"))

-----------------------------------------------------------------------------
MainPlaces == {"spin", "publish", "clear", "reap", "reset", "start", "join",
               "exit"}
StepPlaces ==                                             \* inside a step
  {"call", "go", "moving", "moved", "calling", "called"}
BodyPlaces == StepPlaces \cup {"init", "announce", "loop", "calc", "share"}
FinPlaces  == {"fin_progress", "fin_flag", "fin_status"}
ResetPlaces == {"reset_index", "reset_active", "reset_latest"}
WorkerPlaces == BodyPlaces \cup FinPlaces \cup ResetPlaces \cup
  {"dead", "save", "interrupted", "mark", "error", "finally"}
CallbackPlaces == {"idle", "active", "index", "load", "store", "report",
                   "pause", "stop"}

Word == {"IDLE", "ROLLER_TASK", "CLOTH_TASK", "FULL_TASK", "UNKNOWN_TASK",
         "ROLLER_PHASE", "CLOTH_PHASE", "RUNNING", "PAUSED", "COMPLETED",
         "ERROR"}

(* The shape of every global and local.                                    *)
TypeOK ==
  /\ latest_cmd \in 0 .. 3 /\ active_task_cmd \in 0 .. 3
  /\ current_step_index \in Nat
  /\ shared_progress \in Nat /\ shared_status \in Seq(Word)
  /\ shared_status # <<>> /\ final_publish_needed \in BOOLEAN
  /\ task_thread \in BOOLEAN /\ mpc \in MainPlaces
  /\ wpc \in WorkerPlaces /\ wcmd \in 1 .. 3 /\ wi \in Nat /\ wk \in Nat \ {0}
  /\ wread \in Nat /\ outcome \in {"running", "completed", "paused", "error"}
  /\ cpc \in CallbackPlaces /\ ccmd \in Commands \cup {NoCmd}
  /\ cread \in 0 .. 3 /\ cby \in {"main", "worker"}
  /\ inbox \in Commands \cup {NoCmd} /\ sent \in Nat /\ faults \in Nat
  /\ spinners \in {"both", "worker"}
  /\ compliance \in BOOLEAN /\ outputs \in [1 .. 2 -> Nat]
  /\ refused \subseteq 0 .. 2
  /\ covered \in Nat /\ coveredTask \in 1 .. 3 /\ lateMoves \in 0 .. 2

Completing == wpc \in FinPlaces

(* Once a pause has taken effect (latest_cmd = 0, L130) the worker begins  *)
(* at most the one move whose check at L63 it had already passed.          *)
AtMostOneMoveAfterPause == lateMoves <= 1

(* A task is declared completed (L349, L374) only when each of its steps   *)
(* has run since the task was started afresh, across every pause, resume,  *)
(* restart and fault in between: no checkpoint ever skips a step.          *)
CompletedMeansAllSteps ==
  Completing => coveredTask = wcmd /\ covered = Total

(* The operator sees 100 % only when every step has run (L343, L375).      *)
HundredMeansAllSteps ==
  shared_progress = 100 => covered = Len(Tasks[coveredTask])

(* The forced 100 % publication of one task (L455-L459) never leaks into   *)
(* the next: no worker starts while it is still owed.                      *)
PublishedBeforeNextTask == wpc = "init" => ~final_publish_needed

(* A completed task leaves the gripper commanded open, and one that wipes  *)
(* leaves compliance control off, whatever was paused, raised or begun     *)
(* again on the way: only a call that the robot itself refused, an answer  *)
(* the task does not look at (L230, L249, L261), leaves a channel set, and *)
(* no pause or fault of another call does.                                 *)
Released(d) == IF d = 0 THEN ~compliance ELSE outputs[d] = d - 1
CompletedMeansReleased ==
  Completing => \A d \in (IF wcmd = 1 THEN 1 .. 2 ELSE 0 .. 2) \ refused :
                  Released(d)

StepUnderWay == IF wpc \in StepPlaces THEN wi + 1 ELSE 0

(* The controller implements PausableTask: at the robot no step is begun   *)
(* before all earlier ones have run to their end, whatever pauses, resumes,*)
(* restarts and faults come in between (L303, L313, L318, L327, L354).     *)
Abstract == INSTANCE PausableTask WITH
  Steps     <- [c \in 1 .. 3 |-> Len(Tasks[c])],
  task      <- coveredTask,
  done      <- covered,
  running   <- StepUnderWay,
  completed <- Completing

StepsInOrder == Abstract!Spec

Leaving == mpc \in {"join", "exit"}

(* A request that no worker is serving is taken up or withdrawn (L475),    *)
(* unless the program is told to stop.                                     *)
RequestServed ==
  (latest_cmd # 0 /\ ~Alive) ~> (Alive \/ latest_cmd = 0 \/ Leaving)

(* When the operator stops sending commands the controller comes to rest:  *)
(* no race of completion, pause and resume leaves it restarting a task.    *)
ComesToRest == <>[](mpc = "exit" \/ (~task_thread /\ latest_cmd = 0))

(* Every completion reaches the operator: the main loop publishes the      *)
(* final 100 % after the worker asked for it (L376, L455); only a shutdown *)
(* that finds it still to be done drops it.                                *)
CompletionPublished == (wpc = "fin_flag") ~> (mpc = "publish" \/ Leaving)

(* Shutdown waits for the worker and no longer (L492-L494).                *)
ShutdownEnds == (mpc = "join") ~> (mpc = "exit")
-----------------------------------------------------------------------------
(* What comments of sky_cleaner.py say and the code does not do.           *)

(* L422: 4 resumes.  While the main loop runs, a 4 that the operator sends *)
(* is read from the queue.                                                 *)
ResumeHeard == (inbox = 4 /\ mpc = "spin") ~> inbox # 4

(* L80, L127: command 0 is a forced stop; after stop() nothing moves.      *)
EStopEndsMotion ==
  [][cpc = "stop" /\ cpc' = "idle" => wpc' # "moving"]_vars

(* L422: 0 pauses.  A 0 received while the steps of a task run and it is   *)
(* not paused yet is accepted.                                             *)
ZeroPauses ==
  [][cpc = "idle" /\ inbox = 0 /\ inbox' = NoCmd /\ latest_cmd # 0
       /\ wpc \in StepPlaces => cpc' = "pause"]_vars

(* L349, L371: "completed successfully" is said after the last step.       *)
CompletedAfterLastStep == Completing => wi = Total
=============================================================================
