--------------------------- MODULE CleaningSteps ---------------------------
(***************************************************************************)
(* The task tables of sky_cleaner.py: what each step function asks of the  *)
(* robot, call by call, and the order of the steps in the three tasks.     *)
(* Positions, speeds and waits are left out; the calls that matter to the  *)
(* controller are a guarded move (safe_move), a digital output, switching  *)
(* compliance, and the partial progress report of cloth_task.              *)
(***************************************************************************)
EXTENDS Integers, Sequences

CONSTANT LoopCount       \* LOOP_COUNT of cloth_task, 10 in the source

ASSUME LoopCountAssumption == LoopCount \in Nat \ {0}

Op(kind, a, b) == [kind |-> kind, a |-> a, b |-> b]

Move         == Op("move", 0, 0)          \* safe_move(movej | movel, ...)
Out(pin, v)  == Op("out", pin, v)         \* set_digital_output(pin, v)
Comply(on)   == Op("comply", on, 0)       \* task_ / release_compliance_ctrl
Partial(j)   == Op("partial", j, 0)       \* progress of cloth_task, loop j

Open     == <<Out(1, 0), Out(2, 1)>>      \* gripper open
GripRoll == <<Out(1, 1), Out(2, 1)>>      \* grip width of the roller
GripWipe == <<Out(1, 1), Out(2, 0)>>      \* grip width of the cloth

pickup_roller == <<Move>> \o Open \o <<Move>> \o GripRoll \o <<Move, Move>>
return_roller == <<Move, Move, Move>> \o Open \o <<Move>>
pickup_cloth  == <<Move>> \o Open \o <<Move>> \o GripWipe \o <<Move>>
return_cloth  == <<Move, Move>> \o Open \o <<Move>>

(* One pass of the wiping loop: compliance on, press and wipe, compliance  *)
(* off, report, and step sideways unless this was the last pass.           *)
WipePass(j) ==
  <<Comply(1), Move, Move, Comply(0), Partial(j)>>
    \o (IF j < LoopCount THEN <<Move>> ELSE <<>>)

WipePasses[j \in 0 .. LoopCount] ==
  IF j = 0 THEN <<>> ELSE WipePasses[j - 1] \o WipePass(j)

cloth_task == <<Move>> \o WipePasses[LoopCount] \o <<Move>>

Ops(step) ==
  CASE step = "move_to_safe_pos" -> <<Move, Move, Move>>
    [] step = "pickup_roller"    -> pickup_roller
    [] step = "return_roller"    -> return_roller
    [] step = "pickup_cloth"     -> pickup_cloth
    [] step = "cloth_task"       -> cloth_task
    [] step = "return_cloth"     -> return_cloth
    [] OTHER                     -> <<Move>>      \* the roller's strokes

RollerStroke ==
  <<"roller_move_p1", "roller_move_p2", "roller_move_p3", "roller_move_p4",
    "roller_move_p5", "roller_move_p6", "roller_move_final_ready">>

task_sequence_roller ==
  <<"move_to_safe_pos", "pickup_roller">> \o RollerStroke
    \o <<"return_roller">>

task_sequence_cloth ==
  <<"move_to_safe_pos", "pickup_cloth", "cloth_task", "return_cloth">>

task_sequence_full ==
  task_sequence_roller \o <<"pickup_cloth", "cloth_task", "return_cloth">>

TASK_CMD_MAP ==
  <<task_sequence_roller, task_sequence_cloth, task_sequence_full>>

(* The calls of each task, step by step: what a run gives SkyCleaner.      *)
TaskOps ==
  [cmd \in 1 .. 3 |->
     [s \in 1 .. Len(TASK_CMD_MAP[cmd]) |-> Ops(TASK_CMD_MAP[cmd][s])]]
=============================================================================
