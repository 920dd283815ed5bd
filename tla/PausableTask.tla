---------------------------- MODULE PausableTask ----------------------------
(***************************************************************************)
(* What the task controller promises of the robot: the steps of a task are *)
(* begun in their order, a step that was broken off is begun again before  *)
(* any later one, and a task is called completed when all its steps have   *)
(* run to their end.  Between two steps a task may be started afresh.      *)
(***************************************************************************)
EXTENDS Integers

CONSTANT Steps       \* [1..3 -> number of steps]

VARIABLES
  task, done,        \* the task and how many of its steps have run
  running,           \* the step under way, 0 for none
  completed          \* is the task being called completed?

taskVars == <<task, done, running, completed>>

Init == task = 1 /\ done = 0 /\ running = 0 /\ completed = FALSE

StartAfresh(t) ==
  /\ running = 0
  /\ task' = t /\ done' = 0
  /\ UNCHANGED <<running, completed>>

BeginStep(i) ==
  /\ running = 0 /\ ~completed
  /\ i <= done + 1                  \* all before it have run
  /\ running' = i
  /\ UNCHANGED <<task, done, completed>>

(* A step that is run again after a later one counts for nothing new.      *)
EndStep ==
  /\ running # 0
  /\ running' = 0
  /\ done' = IF running > done THEN running ELSE done
  /\ UNCHANGED <<task, completed>>

BreakOff ==
  /\ running # 0
  /\ running' = 0
  /\ UNCHANGED <<task, done, completed>>

Complete ==
  /\ running = 0 /\ done = Steps[task]
  /\ completed' = TRUE
  /\ UNCHANGED <<task, done, running>>

CompletionTold ==
  /\ completed' = FALSE
  /\ UNCHANGED <<task, done, running>>

Next ==
  \/ \E t \in 1 .. 3 : StartAfresh(t)
  \/ \E i \in 1 .. Steps[task] : BeginStep(i)
  \/ EndStep \/ BreakOff \/ Complete \/ CompletionTold

Spec == Init /\ [][Next]_taskVars
=============================================================================
