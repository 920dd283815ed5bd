---------------------------- MODULE CleanerPanel ----------------------------
(***************************************************************************)
(* The operator panel (examples_widget.py) around the task controller: its *)
(* buttons send the commands, and what the controller's timer and its      *)
(* forced final publication put on /task/progress and /task/status is what *)
(* the label shows.  Each topic has a queue of one message (QoS depth 1).  *)
(***************************************************************************)
EXTENDS SkyCleaner

CONSTANT Typed         \* the numbers the operator types for CONTINUE

ASSUME TypedAssumption == Typed \subseteq Int

VARIABLES
  progressTopic, statusTopic,          \* queues of one message
  progress_value, status_message,      \* what the panel has received
  is_path_tracking_active,
  label                                \* heading of the state label

topics == <<progressTopic, statusTopic>>
panel  == <<progress_value, status_message, is_path_tracking_active, label>>
panelVars == <<vars, topics, panel>>

NoStatus == <<>>

Last(status) == status[Len(status)]

PanelInit ==
  /\ Init
  /\ progressTopic = NoCmd /\ statusTopic = NoStatus
  /\ progress_value = 0 /\ status_message = IDLE
  /\ is_path_tracking_active = FALSE
  /\ label = "Waiting for command..."

-----------------------------------------------------------------------------
(* The buttons                                                             *)

(* START: the value chosen by the two check boxes.                         *)
StartValue(roller, cloth) ==
  CASE roller /\ cloth   -> 3
    [] roller /\ ~cloth  -> 1
    [] ~roller /\ cloth  -> 2
    [] OTHER             -> 5

on_start_clicked ==
  \E roller, cloth \in BOOLEAN : Send(StartValue(roller, cloth))

(* CONTINUE: the number typed, offset by the task; without a check box     *)
(* msg_value is unbound and nothing is sent.                               *)
on_start_continue_clicked ==
  \E n \in Typed : Send(n + 100) \/ Send(n + 200)

on_estop_clicked == Send(0)

Click ==
  /\ on_start_clicked \/ on_start_continue_clicked \/ on_estop_clicked
  /\ inbox' \in Commands
  /\ UNCHANGED <<topics, panel>>

-----------------------------------------------------------------------------
(* The publications of the controller                                      *)

(* Mutant: the timer publishes whatever it reads.                          *)
TimerAlways(progress, status) == TRUE

TimerGuard(progress, status) ==
  progress > 0 \/ (task_thread /\ Alive) \/ progress = 100 \/ status # IDLE

(* progress_timer_callback, in the thread that spins the node.  It reads   *)
(* the pair under progress_lock; until it has published it nothing else is *)
(* published, for a forced publication is owed only outside worker calls   *)
(* and is made by the main loop.                                           *)
progress_timer_callback(t) ==
  /\ cpc = "idle" /\ CanSpin(t) /\ LockFree
  /\ TimerGuard(shared_progress, shared_status)
  /\ progressTopic' = shared_progress /\ statusTopic' = shared_status
  /\ UNCHANGED <<vars, panel>>

(* Every step of the controller; the forced publication also publishes.    *)
Controller ==
  /\ \/ \E t \in {"main", "worker"} : Receive(t)
     \/ Callback \/ Main \/ Shutdown \/ Worker
  /\ IF mpc = "publish" /\ mpc' = "clear"
     THEN progressTopic' = 100 /\ statusTopic' = shared_status
     ELSE UNCHANGED topics
  /\ UNCHANGED panel

-----------------------------------------------------------------------------
(* The subscriptions of the panel                                          *)

(* update_ui_label: the heading that goes with the end of the status.      *)
Heading(status) ==
  CASE status = IDLE -> "Waiting for command..."
    [] Last(status) \in {"COMPLETED", "STOP", "ERROR"} -> Last(status)
    [] OTHER -> "RUNNING"

ClampPercent(n) == IF n > 100 THEN 100 ELSE IF n < 0 THEN 0 ELSE n

progress_callback ==
  /\ progressTopic # NoCmd
  /\ progressTopic' = NoCmd
  /\ progress_value' = ClampPercent(progressTopic)
  /\ label' = Heading(status_message)
  /\ UNCHANGED <<vars, statusTopic, status_message, is_path_tracking_active>>

(* The path is drawn while a RUNNING status names ROLLER or CLOTH.         *)
Tracked(status) ==
  /\ \E i \in 1 .. Len(status) : status[i] = "RUNNING"
  /\ \E i \in 1 .. Len(status) : status[i] \in
       {"ROLLER_TASK", "ROLLER_PHASE", "CLOTH_TASK", "CLOTH_PHASE"}

status_callback ==
  /\ statusTopic # NoStatus
  /\ statusTopic' = NoStatus
  /\ status_message' = statusTopic
  /\ is_path_tracking_active' = Tracked(statusTopic)
  /\ label' = Heading(statusTopic)
  /\ UNCHANGED <<vars, progressTopic, progress_value>>

Panel == progress_callback \/ status_callback

PanelNext ==
  \/ Click \/ Controller \/ Panel
  \/ \E t \in {"main", "worker"} : progress_timer_callback(t)

PanelSpec == PanelInit /\ [][PanelNext]_panelVars

(* The panel keeps receiving; the controller's threads run.  The timer may *)
(* be late at any time, so it is not fair.                                 *)
FairPanelSpec ==
  /\ PanelSpec
  /\ WF_panelVars(Controller /\ Main)
  /\ WF_panelVars(Controller /\ Worker)
  /\ WF_panelVars(Controller /\ Callback)
  /\ WF_panelVars(progress_callback) /\ WF_panelVars(status_callback)

-----------------------------------------------------------------------------
(* The progress the operator sees of one command never goes back: not by a *)
(* step that reports less than the one before (L232, L330), not by the     *)
(* reset to 0/IDLE (L467-L470), not by a message that arrives late.        *)
ShownProgressGrows ==
  [][sent <= 1 => progress_value' >= progress_value]_panelVars

(* A completed task is shown with 100 %, however late the timer is: the    *)
(* forced publication (L454-L459) precedes the reset.  A second command    *)
(* may overwrite the message in the queue of one.                          *)
HundredShown == (wpc = "fin_flag") ~> (progress_value = 100 \/ sent > 1)

=============================================================================
