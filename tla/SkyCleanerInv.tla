---------------------------- MODULE SkyCleanerInv ---------------------------
(***************************************************************************)
(* The inductive invariants behind the theorems about SkyCleaner, proved   *)
(* inductive in SkyCleanerProofs.                                          *)
(***************************************************************************)
EXTENDS SkyCleaner

(* A step place has a step, a pending call has a call, and a callback that *)
(* sets a task came from a message that names one.                         *)
PlaceInv ==
  /\ wpc \in StepPlaces => wi < Total
  /\ wpc \in {"calling", "called"} => wk <= Len(Calls)
  /\ cpc \in {"active", "index"} => IsStart(ccmd) \/ IsContinue(ccmd)

(* Who runs what: a live worker is recorded in task_thread, and a callback *)
(* in progress keeps the thread that runs it where it spins.               *)
ThreadInv ==
  /\ Alive => task_thread
  /\ MainBusy => mpc = "spin"
  /\ WorkerBusy => InCall

(* While a worker is in the body of the loop, latest_cmd = 0 can only mean *)
(* a pause: active_task_cmd is set, so the check of safe_move fires; and a *)
(* move whose check has passed is the first since the pause.               *)
PauseInv ==
  /\ wpc \in BodyPlaces /\ latest_cmd = 0 => active_task_cmd # 0
  /\ cpc \in {"pause", "index", "load"} /\ wpc \in BodyPlaces
       => active_task_cmd # 0
  /\ cpc = "store" /\ wpc \in BodyPlaces => cread # 0
  /\ wpc = "go" /\ latest_cmd = 0 => lateMoves = 0
  /\ lateMoves <= 1

(* The strengthening for AtMostOneMoveAfterPause.                          *)
PauseIInv == TypeOK /\ PlaceInv /\ ThreadInv /\ PauseInv

(* A final publication still owed belongs to a worker that is done with its*)
(* task, and once that worker is dead nothing has been requested before    *)
(* the main loop reaches its publication again.                            *)
PublishInv ==
  /\ final_publish_needed =>
       wpc \in ResetPlaces \cup {"fin_status", "dead"}
  /\ final_publish_needed /\ wpc = "dead" /\ mpc \in {"reap", "reset", "start"}
       => latest_cmd = 0

(* The strengthening for PublishedBeforeNextTask.                          *)
PublishIInv == TypeOK /\ PlaceInv /\ ThreadInv /\ PublishInv

-----------------------------------------------------------------------------
(* Checkpoints, when no continue command (1xx, 2xx) is sent.               *)

(* Past "init" and before the reset: the places at which the worker's      *)
(* command and loop variable are those of the task in progress.            *)
LivePlaces == (BodyPlaces \ {"init"}) \cup FinPlaces \cup
              {"save", "interrupted", "mark", "error", "finally"}
Early == LivePlaces \cup {"init", "reset_index"}

(* The steps before wi have all run, and the one just run is counted.      *)
WorkInv ==
  /\ wpc \in LivePlaces => coveredTask = wcmd /\ wi <= covered
  /\ wpc \in {"calc", "share"} => wi < covered
  /\ Completing => wi >= Total
  /\ outcome = "completed" /\ wpc = "finally" => wi >= Total
  /\ wpc \in BodyPlaces \cup {"save", "interrupted", "error"}
       => outcome = "running"
  /\ wpc = "mark" => outcome = "paused"
  /\ wpc \in {"calc", "share", "save", "interrupted"} => wi < Total
  /\ covered <= Len(Tasks[coveredTask])

(* The checkpoint never runs ahead of the steps that have run, and it      *)
(* belongs to the task that would be resumed from it.                      *)
IndexInv ==
  /\ current_step_index <= covered
  /\ current_step_index > 0 /\ latest_cmd # 0 => latest_cmd = coveredTask
  /\ current_step_index > 0 /\ cpc # "index"
       => active_task_cmd \in {0, coveredTask}
  /\ current_step_index > 0 /\ wpc = "init" => wcmd = coveredTask
  /\ current_step_index > 0 /\ cpc = "store" => cread \in {0, coveredTask}
  /\ wpc \in {"reset_active", "reset_latest"} => current_step_index = 0

(* latest_cmd, active_task_cmd and the callback's local agree with the     *)
(* worker's command for as long as the worker lives.                       *)
AgreeInv ==
  /\ wpc \in Early => latest_cmd \in {0, wcmd}
  /\ wpc \in Early => active_task_cmd \in {0, wcmd}
  /\ cpc = "store" /\ wpc \in Early => cread \in {0, wcmd}
  /\ cpc \in {"idle", "pause", "report", "stop"} /\ latest_cmd # 0
       => active_task_cmd \in {0, latest_cmd}
  /\ cpc = "store" => active_task_cmd \in {0, cread}
  /\ cpc = "store" /\ IsStart(ccmd) => cread = ccmd
  /\ cpc \in {"active", "index", "load", "store"}
       => IsStart(ccmd) \/ cpc \in {"load", "store"}

(* A start accepted while a worker lives repeats the worker's own command. *)
StartInv ==
  cpc \in {"active", "index", "load", "store"} /\ IsStart(ccmd) =>
    /\ wpc \in Early => latest_cmd = ccmd
    /\ cpc \in {"index", "load"} => active_task_cmd \in {0, ccmd}
    /\ cpc \in {"load", "store"} /\ ~Alive => current_step_index = 0

(* The strengthening for CompletedMeansAllSteps.                           *)
StepsIInv ==
  /\ TypeOK /\ PlaceInv /\ ThreadInv
  /\ WorkInv /\ IndexInv /\ AgreeInv /\ StartInv

-----------------------------------------------------------------------------
(* No step is run twice either: without continue commands a worker takes   *)
(* up the task at the first step that has not run, or afresh.              *)
ExactInv ==
  /\ current_step_index \in {0, covered}
  /\ wpc \in LivePlaces \ {"calc", "share"} => wi = covered
  /\ wpc \in {"calc", "share"} => wi + 1 = covered

(* A shown 100 % belongs to the task that has just run: main takes it back *)
(* before the next worker starts, and the worker computes it from an index *)
(* that no other thread can have raised.                                   *)
ShownInv ==
  /\ shared_progress = 100 => covered = Len(Tasks[coveredTask])
  /\ ~task_thread /\ mpc # "reset" => shared_progress # 100
  /\ wpc = "init" => shared_progress # 100
  /\ wpc = "share" => wread <= covered

(* The strengthening for HundredMeansAllSteps.                             *)
HundredIInv == StepsIInv /\ ExactInv /\ ShownInv

(* Has call k of step s been made since the task was started afresh, with  *)
(* nothing of the step broken off since?                                   *)
Made(s, k) ==
  covered >= s \/ (wpc \in StepPlaces /\ covered = s - 1 /\ wk > k)

(* What the last call on a channel released stays released.                *)
ReleaseInv ==
  \A d \in 0 .. 2 : \A s, k \in Nat :
    ReleasesLast(coveredTask, d, s, k) /\ Made(s, k)
      => d \in refused \/ Released(d)

(* The call under way is of the kind its place is for.                     *)
KindInv ==
  /\ wpc \in {"go", "moving", "moved"}
       => wk <= Len(Calls) /\ Call.kind = "move"
  /\ wpc \in {"calling", "called"} => Call.kind \in {"out", "comply"}

(* The strengthening for CompletedMeansReleased.                           *)
ReleasedIInv == StepsIInv /\ ExactInv /\ KindInv /\ ReleaseInv
=============================================================================
