------------------------ MODULE SkyCleanerEndProofs -------------------------
(***************************************************************************)
(* What the end of a task means: 100 % is shown, and a task is called      *)
(* completed, only when the operator may take it for that.  Both rest on   *)
(* the worker running the steps of a task exactly in turn, which it does   *)
(* when no continue command is sent.                                       *)
(***************************************************************************)
EXTENDS SkyCleanerProofs

Outside == \/ \E c \in Commands : Send(c)
           \/ \E t \in {"main", "worker"} : Receive(t)
           \/ Callback \/ Main \/ Shutdown

(* What the operator, the callback and the main loop leave to the worker.  *)
(* A start is the one index the callback stores when no command continues. *)
LEMMA OutsideKeeps ==
  ASSUME Outside
  PROVE  /\ UNCHANGED <<wi, wk, wread, robot, covered, coveredTask>>
         /\ (StartThread /\ wpc' = "init") \/ UNCHANGED <<wpc, wcmd>>
         /\ StoreIndex \/ UNCHANGED current_step_index
<1>. DEFINE Kept == /\ UNCHANGED <<wi, wk, wread, robot, covered, coveredTask>>
                    /\ \/ StartThread /\ wpc' = "init"
                       \/ UNCHANGED <<wpc, wcmd>>
                    /\ StoreIndex \/ UNCHANGED current_step_index
<1>. USE DEF workVars, history, robot, globals, CallbackStep, MainStep
<1>1. ASSUME NEW c \in Commands, Send(c) PROVE Kept
  BY <1>1 DEF Send
<1>2. ASSUME NEW t \in {"main", "worker"}, Receive(t) PROVE Kept
  BY <1>2 DEF Receive
<1>3. CASE Callback
  BY <1>3 DEF Callback, StoreActive, StoreIndex, LoadActive, StoreLatest,
     StorePause, Report, StopMotion
<1>4. CASE Main \/ Shutdown
  BY <1>4 DEF Main, SpinOnce, ForcedPublish, ClearFlag, Reap, NothingToReap,
     ResetShown, StartThread, NothingToStart, Exit, Shutdown
<1>. QED BY <1>1, <1>2, <1>3, <1>4 DEF Outside

(* Every step keeps the worker in turn.                                    *)
LEMMA ExactStep ==
  ASSUME \A c \in Commands : ~IsContinue(c), StepsIInv, ExactInv, [Next]_vars
  PROVE  ExactInv'
<1>. USE DEF ExactInv, StepsIInv, TypeOK, WorkInv, LivePlaces, BodyPlaces,
      StepPlaces, FinPlaces, WorkerStep, globals, workVars, history
<1>1. CASE Outside
  <2>1. StoreIndex => current_step_index' = 0
    BY DEF StoreIndex, CallbackStep, AgreeInv, FromIndex
  <2>. QED BY <1>1, <2>1, OutsideKeeps
<1>2. CASE ReadStart
  BY <1>2 DEF ReadStart
<1>3. CASE Announce
  BY <1>3 DEF Announce
<1>4. CASE LoopDone
  BY <1>4 DEF LoopDone
<1>5. CASE LoopStopped
  BY <1>5 DEF LoopStopped
<1>6. CASE EnterStep
  BY <1>6 DEF EnterStep
<1>7. CASE SaveIndex
  BY <1>7 DEF SaveIndex
<1>8. CASE CheckMove
  BY <1>8 DEF CheckMove
<1>9. CASE BeginMove
  BY <1>9 DEF BeginMove
<1>10. CASE Answer
  BY <1>10 DEF Answer
<1>11. CASE MoveDone
  BY <1>11 DEF MoveDone
<1>12. CASE MoveRaises
  BY <1>12 DEF MoveRaises
<1>13. CASE BeginCall
  BY <1>13 DEF BeginCall
<1>14. CASE CallDone
  BY <1>14 DEF CallDone
<1>15. CASE CallRaises
  BY <1>15 DEF CallRaises
<1>16. CASE PartialReport
  BY <1>16 DEF PartialReport
<1>17. CASE Checkpoint
  BY <1>17 DEF Checkpoint
<1>18. CASE ReadBack
  BY <1>18 DEF ReadBack
<1>19. CASE ShareProgress
  BY <1>19 DEF ShareProgress
<1>20. CASE Interrupted
  BY <1>20 DEF Interrupted
<1>21. CASE MarkPaused
  BY <1>21 DEF MarkPaused
<1>22. CASE MarkError
  BY <1>22 DEF MarkError
<1>23. CASE Finally
  BY <1>23 DEF Finally
<1>24. CASE FinProgress
  BY <1>24 DEF FinProgress
<1>25. CASE FinFlag
  BY <1>25 DEF FinFlag
<1>26. CASE FinStatus
  BY <1>26 DEF FinStatus
<1>27. CASE ResetIndex
  BY <1>27 DEF ResetIndex
<1>28. CASE ResetActive
  BY <1>28 DEF ResetActive
<1>29. CASE ResetLatest
  BY <1>29 DEF ResetLatest
<1>30. CASE UNCHANGED vars
  BY <1>30 DEF vars
<1>31. CASE CallRefused
  BY <1>31 DEF CallRefused
<1>. QED BY <1>1, <1>2, <1>3, <1>4, <1>5, <1>6, <1>7, <1>8, <1>9, <1>10,
    <1>11, <1>12, <1>13, <1>14, <1>15, <1>16, <1>17, <1>18, <1>19, <1>20,
    <1>21, <1>22, <1>23, <1>24, <1>25, <1>26, <1>27, <1>28, <1>29, <1>30, <1>31
    DEF Next, Outside, Worker, RunSteps, WindUp

-----------------------------------------------------------------------------
(* Part of a whole is less than 100 %.                                     *)
LEMMA PercentLess ==
  ASSUME NEW n \in Nat, NEW d \in Nat, n < d
  PROVE  Percent(n, d) # 100
<1>. DEFINE q == (100 * n) \div d
<1>1. q * d <= 100 * n
  OBVIOUS
<1>2. q = 100 => FALSE
  BY <1>1
<1>. QED BY <1>2 DEF Percent

(* A partial report falls short of 100 %.                                  *)
LEMMA PartialLess ==
  ASSUME NEW n \in Nat, NEW a \in Nat, NEW d \in Nat, a <= LoopCount, n + 1 < d
  PROVE  Percent(n * LoopCount + a, d * LoopCount) # 100
<1>1. LoopCount \in Nat /\ LoopCount > 0
  BY LoopCountAssumption
<1>2. (n + 1) * LoopCount = n * LoopCount + LoopCount
  BY <1>1
<1>3. (n + 1) * LoopCount < d * LoopCount
  BY <1>1
<1>4. n * LoopCount \in Nat /\ d * LoopCount \in Nat
  BY <1>1
<1>5. n * LoopCount + a < d * LoopCount
  BY <1>1, <1>2, <1>3, <1>4
<1>. QED BY <1>4, <1>5, PercentLess

(* What they do to what is shown: they leave a percentage or set it to 0,  *)
(* and the main loop starts the next worker from there.                    *)
LEMMA OutsideShows ==
  ASSUME \A c \in Commands : ~IsContinue(c), TypeOK, ThreadInv, Outside
  PROVE  /\ shared_progress' \in {0, shared_progress}
         /\ ~task_thread' /\ mpc' # "reset"
              => (~task_thread /\ mpc # "reset") \/ shared_progress' = 0
         /\ wpc' = "init" => wpc = "init" \/ (~task_thread /\ mpc # "reset")
<1>. DEFINE
  Shows == /\ shared_progress' \in {0, shared_progress}
           /\ ~task_thread' /\ mpc' # "reset"
                => (~task_thread /\ mpc # "reset") \/ shared_progress' = 0
           /\ wpc' = "init" => wpc = "init" \/ (~task_thread /\ mpc # "reset")
<1>. USE DEF workVars, mainVars, shown, globals, CallbackStep, MainStep
<1>1. ASSUME NEW c \in Commands, Send(c) PROVE Shows
  BY <1>1 DEF Send
<1>2. ASSUME NEW t \in {"main", "worker"}, Receive(t) PROVE Shows
  BY <1>2 DEF Receive
<1>3. CASE Report
  <2>1. ccmd \in Commands \cup {NoCmd} /\ ~IsContinue(NoCmd)
    BY DEF TypeOK, NoCmd, IsContinue, RollerFrom, ClothFrom
  <2>2. ~IsContinue(ccmd)
    BY <2>1
  <2>3. shared_progress' = IF IsStart(ccmd) THEN 0 ELSE shared_progress
    BY <1>3, <2>2 DEF Report
  <2>. QED BY <1>3, <2>3 DEF Report
<1>4. CASE Callback /\ ~Report
  BY <1>4 DEF Callback, StoreActive, StoreIndex, LoadActive, StoreLatest,
     StorePause, StopMotion
<1>5. CASE ResetShown \/ StartThread
  BY <1>5 DEF ResetShown, StartThread
<1>6. CASE (Main \/ Shutdown) /\ ~ResetShown /\ ~StartThread
  BY <1>6 DEF Main, SpinOnce, ForcedPublish, ClearFlag, Reap, NothingToReap,
     NothingToStart, Exit, Shutdown
<1>. QED BY <1>1, <1>2, <1>3, <1>4, <1>5, <1>6 DEF Outside, Main, Callback

(* Every step keeps a shown 100 % true.                                    *)
LEMMA ShownStep ==
  ASSUME \A c \in Commands : ~IsContinue(c), HundredIInv, [Next]_vars
  PROVE  ShownInv'
<1>. USE DEF HundredIInv, ShownInv, StepsIInv, TypeOK, ThreadInv, ExactInv,
      WorkInv, PlaceInv, Alive, LivePlaces, BodyPlaces, StepPlaces, FinPlaces,
      Completing, Total, WorkerStep, mainVars, workVars, globals, shown,
      history
<1>1. CASE Outside
  BY <1>1, OutsideKeeps, OutsideShows, TaskLength
<1>2. CASE ReadStart
  BY <1>2, TaskLength DEF ReadStart
<1>3. CASE Announce
  BY <1>3, TaskLength DEF Announce
<1>4. CASE LoopDone
  BY <1>4, TaskLength DEF LoopDone
<1>5. CASE LoopStopped
  BY <1>5, TaskLength DEF LoopStopped
<1>6. CASE EnterStep
  BY <1>6, TaskLength DEF EnterStep
<1>7. CASE SaveIndex
  BY <1>7, TaskLength DEF SaveIndex
<1>8. CASE CheckMove
  BY <1>8, TaskLength DEF CheckMove
<1>9. CASE BeginMove
  BY <1>9, TaskLength DEF BeginMove
<1>10. CASE Answer
  BY <1>10, TaskLength DEF Answer
<1>11. CASE MoveDone
  BY <1>11, TaskLength DEF MoveDone
<1>12. CASE MoveRaises
  BY <1>12, TaskLength DEF MoveRaises
<1>13. CASE BeginCall
  BY <1>13, TaskLength DEF BeginCall
<1>14. CASE CallDone
  BY <1>14, TaskLength DEF CallDone
<1>15. CASE CallRaises
  BY <1>15, TaskLength DEF CallRaises
<1>16. CASE PartialReport
  <2>1. Call \in OpSet /\ Call.kind = "partial"
    BY <1>16, CallType DEF PartialReport
  <2>2. /\ wi + 1 \in 1 .. Len(Tasks[wcmd])
        /\ wk \in 1 .. Len(Tasks[wcmd][wi + 1])
    BY <1>16, TaskLength DEF PartialReport, Calls
  <2>3. Call.a \in Nat /\ Call.a <= LoopCount /\ wi + 1 < Total
    BY <2>1, <2>2, ReportAssumption DEF Call, Calls, OpSet
  <2>4. current_step_index <= wi
    BY <1>16 DEF PartialReport
  <2>5. Percent(current_step_index * LoopCount + Call.a, Total * LoopCount)
          # 100
    <3>1. current_step_index \in Nat /\ wi \in Nat /\ Total \in Nat
      BY TaskLength
    <3>2. current_step_index + 1 < Total
      BY <2>3, <2>4, <3>1
    <3>. QED BY <2>3, <3>1, <3>2, PartialLess
  <2>6. shared_progress' # 100
    BY <1>16, <2>5 DEF PartialReport
  <2>. QED BY <1>16, <2>6 DEF PartialReport
<1>17. CASE Checkpoint
  BY <1>17, TaskLength DEF Checkpoint
<1>18. CASE ReadBack
  BY <1>18, TaskLength DEF ReadBack
<1>19. CASE ShareProgress
  <2>1. covered <= Len(Tasks[wcmd]) /\ wread <= covered
    BY <1>19 DEF ShareProgress
  <2>2. wread < Len(Tasks[wcmd]) => shared_progress' # 100
    BY <1>19, PercentLess, TaskLength DEF ShareProgress
  <2>. QED BY <1>19, <2>1, <2>2, TaskLength DEF ShareProgress
<1>20. CASE Interrupted
  BY <1>20, TaskLength DEF Interrupted
<1>21. CASE MarkPaused
  BY <1>21, TaskLength DEF MarkPaused
<1>22. CASE MarkError
  BY <1>22, TaskLength DEF MarkError
<1>23. CASE Finally
  BY <1>23, TaskLength DEF Finally
<1>24. CASE FinProgress
  BY <1>24, TaskLength DEF FinProgress
<1>25. CASE FinFlag
  BY <1>25, TaskLength DEF FinFlag
<1>26. CASE FinStatus
  BY <1>26, TaskLength DEF FinStatus
<1>27. CASE ResetIndex
  BY <1>27, TaskLength DEF ResetIndex
<1>28. CASE ResetActive
  BY <1>28, TaskLength DEF ResetActive
<1>29. CASE ResetLatest
  BY <1>29, TaskLength DEF ResetLatest
<1>30. CASE UNCHANGED vars
  BY <1>30, TaskLength DEF vars
<1>31. CASE CallRefused
  BY <1>31, TaskLength DEF CallRefused
<1>. QED BY <1>1, <1>2, <1>3, <1>4, <1>5, <1>6, <1>7, <1>8, <1>9, <1>10,
    <1>11, <1>12, <1>13, <1>14, <1>15, <1>16, <1>17, <1>18, <1>19, <1>20,
    <1>21, <1>22, <1>23, <1>24, <1>25, <1>26, <1>27, <1>28, <1>29, <1>30, <1>31
    DEF Next, Outside, Worker, RunSteps, WindUp

(* The table does not change: the same place has the same call.            *)
LEMMA CallStable ==
  UNCHANGED <<wcmd, wi, wk>> => UNCHANGED <<Calls, Call>>
BY DEF Calls, Call

(* Every step keeps the kind of call that its place is for.                *)
LEMMA KindStep ==
  ASSUME TypeOK, ThreadInv, KindInv, [Next]_vars
  PROVE  KindInv'
<1>. USE DEF KindInv, TypeOK, ThreadInv, Alive, WorkerStep, workVars, vars
<1>1. CASE Outside
  BY <1>1, OutsideKeeps, CallStable
<1>2. CASE ReadStart
  BY <1>2, CallStable DEF ReadStart
<1>3. CASE Announce
  BY <1>3, CallStable DEF Announce
<1>4. CASE LoopDone
  BY <1>4, CallStable DEF LoopDone
<1>5. CASE LoopStopped
  BY <1>5, CallStable DEF LoopStopped
<1>6. CASE EnterStep
  BY <1>6, CallStable DEF EnterStep
<1>7. CASE SaveIndex
  BY <1>7, CallStable DEF SaveIndex
<1>8. CASE CheckMove
  BY <1>8, CallStable DEF CheckMove
<1>9. CASE BeginMove
  BY <1>9, CallStable DEF BeginMove
<1>10. CASE Answer
  BY <1>10, CallStable DEF Answer
<1>11. CASE MoveDone
  BY <1>11, CallStable DEF MoveDone
<1>12. CASE MoveRaises
  BY <1>12, CallStable DEF MoveRaises
<1>13. CASE BeginCall
  BY <1>13, CallStable DEF BeginCall
<1>14. CASE CallDone
  BY <1>14, CallStable DEF CallDone
<1>15. CASE CallRaises
  BY <1>15, CallStable DEF CallRaises
<1>16. CASE PartialReport
  BY <1>16, CallStable DEF PartialReport
<1>17. CASE Checkpoint
  BY <1>17, CallStable DEF Checkpoint
<1>18. CASE ReadBack
  BY <1>18, CallStable DEF ReadBack
<1>19. CASE ShareProgress
  BY <1>19, CallStable DEF ShareProgress
<1>20. CASE Interrupted
  BY <1>20, CallStable DEF Interrupted
<1>21. CASE MarkPaused
  BY <1>21, CallStable DEF MarkPaused
<1>22. CASE MarkError
  BY <1>22, CallStable DEF MarkError
<1>23. CASE Finally
  BY <1>23, CallStable DEF Finally
<1>24. CASE FinProgress
  BY <1>24, CallStable DEF FinProgress
<1>25. CASE FinFlag
  BY <1>25, CallStable DEF FinFlag
<1>26. CASE FinStatus
  BY <1>26, CallStable DEF FinStatus
<1>27. CASE ResetIndex
  BY <1>27, CallStable DEF ResetIndex
<1>28. CASE ResetActive
  BY <1>28, CallStable DEF ResetActive
<1>29. CASE ResetLatest
  BY <1>29, CallStable DEF ResetLatest
<1>30. CASE UNCHANGED vars
  BY <1>30, CallStable DEF vars
<1>31. CASE CallRefused
  BY <1>31, CallStable DEF CallRefused
<1>. QED BY <1>1, <1>2, <1>3, <1>4, <1>5, <1>6, <1>7, <1>8, <1>9, <1>10,
    <1>11, <1>12, <1>13, <1>14, <1>15, <1>16, <1>17, <1>18, <1>19, <1>20,
    <1>21, <1>22, <1>23, <1>24, <1>25, <1>26, <1>27, <1>28, <1>29, <1>30, <1>31
    DEF Next, Outside, Worker, RunSteps, WindUp

(* A step that makes no call and begins none keeps what was released.      *)
LEMMA QuietRelease ==
  ASSUME ReleaseInv, UNCHANGED <<robot, covered, coveredTask, wk>>,
         wpc' \in StepPlaces => wpc \in StepPlaces
  PROVE  ReleaseInv'
BY DEF ReleaseInv, ReleasesLast, Made, Released, robot

(* So does one that makes a call that sets nothing.                        *)
LEMMA IdleRelease ==
  ASSUME TypeOK, WorkInv, ExactInv, ReleaseInv, wpc \in StepPlaces,
         \A d \in 0 .. 2 : ~Sets(Call, d),
         UNCHANGED <<robot, covered, coveredTask>>, wk' = wk + 1
  PROVE  ReleaseInv'
<1>. SUFFICES ASSUME NEW d \in 0 .. 2, NEW s \in Nat, NEW k \in Nat,
                     ReleasesLast(coveredTask, d, s, k), Made(s, k)'
              PROVE  d \in refused \/ Released(d)
  BY DEF ReleaseInv, ReleasesLast, Released, robot
<1>1. coveredTask = wcmd /\ wi = covered
  BY DEF WorkInv, ExactInv, LivePlaces, BodyPlaces, StepPlaces
<1>2. covered = s - 1 /\ wk = k => FALSE
  <2>. SUFFICES ASSUME covered = s - 1, wk = k PROVE FALSE
    OBVIOUS
  <2>1. s = wi + 1
    BY <1>1 DEF TypeOK
  <2>2. Call = Tasks[coveredTask][s][k]
    BY <1>1, <2>1 DEF Call, Calls
  <2>. QED BY <2>2 DEF ReleasesLast, Releases
<1>3. Made(s, k)
  BY <1>2 DEF Made, TypeOK
<1>. QED BY <1>3 DEF ReleaseInv

(* A step of a task has a length.                                          *)
LEMMA CallsLength ==
  ASSUME TypeOK, wi < Total
  PROVE  Len(Calls) \in Nat
<1>1. Tasks[wcmd] \in Seq(Seq(OpSet))
  BY TasksAssumption DEF TypeOK
<1>2. wi + 1 \in 1 .. Len(Tasks[wcmd])
  BY <1>1, LenProperties DEF TypeOK, Total
<1>. QED BY <1>1, <1>2, ElementOfSeq, LenProperties DEF Calls

(* The call under way is the one that releases channel d last, ...         *)
LEMMA CallMade ==
  ASSUME TypeOK, wcmd = coveredTask, wi = covered,
         NEW d \in 0 .. 2, NEW s \in Nat, NEW k \in Nat,
         ReleasesLast(coveredTask, d, s, k), covered = s - 1, wk = k
  PROVE  Releases(Call, d)
<1>1. s = wi + 1
  BY DEF TypeOK
<1>. QED BY <1>1 DEF ReleasesLast, Call, Calls

(* ... or it comes after that one and does not set the channel.            *)
LEMMA CallAfter ==
  ASSUME TypeOK, wcmd = coveredTask, wi = covered, wi < Total,
         wk <= Len(Calls), wpc = "called",
         NEW d \in 0 .. 2, NEW s \in Nat, NEW k \in Nat,
         ReleasesLast(coveredTask, d, s, k), Made(s, k)
  PROVE  ~Sets(Call, d)
<1>1. wi + 1 \in s .. Len(Tasks[coveredTask])
  <2>1. wi + 1 >= s
    BY DEF Made, TypeOK
  <2>2. Len(Tasks[coveredTask]) \in Nat /\ wi < Len(Tasks[coveredTask])
    BY TaskLength DEF TypeOK, Total
  <2>3. wi \in Nat
    BY DEF TypeOK
  <2>. QED BY <2>1, <2>2, <2>3
<1>2. wk \in 1 .. Len(Tasks[coveredTask][wi + 1])
  BY CallsLength DEF Calls, TypeOK
<1>3. ~(wi + 1 = s /\ wk <= k)
  <2>1. covered \in Nat /\ wi = covered /\ wk \in Nat
    BY DEF TypeOK
  <2>. QED BY <2>1 DEF Made
<1>. QED BY <1>1, <1>2, <1>3 DEF ReleasesLast, Call, Calls

(* Every step keeps what was released: a later call does not set it again. *)
LEMMA ReleaseStep ==
  ASSUME ReleasedIInv, [Next]_vars
  PROVE  ReleaseInv'
<1>. USE DEF ReleasedIInv, StepsIInv, TypeOK, PlaceInv, WorkInv, ExactInv,
      KindInv, LivePlaces, BodyPlaces, StepPlaces, FinPlaces, WorkerStep,
      workVars, robot, history
<1>1. CASE Outside
  BY <1>1, OutsideKeeps, QuietRelease
<1>2. CASE ReadStart
  <2>1. CASE current_step_index = 0
    <3>1. covered' = 0 /\ wpc' \notin StepPlaces
      BY <1>2, <2>1 DEF ReadStart
    <3>. QED BY <3>1 DEF ReleaseInv, ReleasesLast, Made
  <2>2. CASE current_step_index # 0
    BY <1>2, <2>2, QuietRelease DEF ReadStart
  <2>. QED BY <2>1, <2>2
<1>3. CASE Announce
  BY <1>3, QuietRelease DEF Announce
<1>4. CASE LoopDone
  BY <1>4, QuietRelease DEF LoopDone
<1>5. CASE LoopStopped
  BY <1>5, QuietRelease DEF LoopStopped
<1>6. CASE EnterStep
  <2>1. UNCHANGED <<robot, covered, coveredTask>> /\ wk' = 1
    BY <1>6 DEF EnterStep
  <2>. SUFFICES ASSUME NEW d \in 0 .. 2, NEW s \in Nat, NEW k \in Nat,
                       ReleasesLast(coveredTask, d, s, k), Made(s, k)'
                PROVE  d \in refused \/ Released(d)
    BY <2>1 DEF ReleaseInv, ReleasesLast, Released, robot
  <2>2. k >= 1
    BY TaskLength DEF ReleasesLast
  <2>3. Made(s, k)
    BY <2>1, <2>2 DEF Made
  <2>. QED BY <2>3 DEF ReleaseInv
<1>7. CASE SaveIndex
  BY <1>7, QuietRelease DEF SaveIndex
<1>8. CASE CheckMove
  BY <1>8, QuietRelease DEF CheckMove
<1>9. CASE BeginMove
  BY <1>9, QuietRelease DEF BeginMove
<1>10. CASE Answer
  BY <1>10, QuietRelease DEF Answer
<1>11. CASE MoveDone
  <2>1. Call.kind \notin {"out", "comply"}
    BY <1>11 DEF MoveDone
  <2>2. \A d \in 0 .. 2 : ~Sets(Call, d)
    BY <2>1 DEF Sets
  <2>. QED BY <1>11, <2>2, IdleRelease DEF MoveDone
<1>12. CASE MoveRaises
  BY <1>12, QuietRelease DEF MoveRaises
<1>13. CASE BeginCall
  BY <1>13, QuietRelease DEF BeginCall
<1>14. CASE CallDone
  <2>. SUFFICES ASSUME NEW d \in 0 .. 2, NEW s \in Nat, NEW k \in Nat,
                       ReleasesLast(coveredTask, d, s, k), Made(s, k)'
                PROVE  d \in refused' \/ Released(d)'
    BY <1>14 DEF ReleaseInv, ReleasesLast, CallDone
  <2>1. /\ wpc = "called" /\ covered' = covered /\ wk' = wk + 1
        /\ coveredTask' = coveredTask
        /\ refused' = refused \ Channel(Call)
        /\ IF Call.kind = "comply"
           THEN compliance' = (Call.a = 1) /\ outputs' = outputs
           ELSE /\ outputs' = [outputs EXCEPT ![Call.a] = Call.b]
                /\ compliance' = compliance
    BY <1>14 DEF CallDone
  <2>2. /\ wcmd = coveredTask /\ wi = covered
        /\ wi < Total /\ wk <= Len(Calls) /\ Call.kind \in {"out", "comply"}
    BY <2>1 DEF WorkInv, PlaceInv, KindInv
  <2>3. CASE covered = s - 1 /\ wk = k
    <3>1. Releases(Call, d)
      BY <2>2, <2>3, CallMade
    <3>2. CASE d = 0
      BY <2>1, <3>1, <3>2 DEF Releases, Sets, Released
    <3>3. CASE d # 0
      <4>1. Call.kind = "out" /\ Call.a = d /\ Call.b = d - 1 /\ d \in 1 .. 2
        BY <3>1, <3>3 DEF Releases, Sets
      <4>2. outputs'[d] = d - 1
        BY <2>1, <4>1 DEF TypeOK
      <4>. QED BY <4>1, <4>2 DEF Released
    <3>. QED BY <3>2, <3>3
  <2>4. CASE ~(covered = s - 1 /\ wk = k)
    <3>1. Made(s, k)
      BY <2>1, <2>4 DEF Made
    <3>2. d \in refused \/ Released(d)
      BY <3>1 DEF ReleaseInv
    <3>3. ~Sets(Call, d)
      BY <2>1, <2>2, <2>4, <3>1, CallAfter
    <3>4. Released(d) => Released(d)'
      BY <2>1, <2>2, <3>3 DEF Sets, Released
    <3>. QED BY <2>1, <3>2, <3>3, <3>4 DEF Channel
  <2>. QED BY <2>3, <2>4
<1>31. CASE CallRefused
  <2>. SUFFICES ASSUME NEW d \in 0 .. 2, NEW s \in Nat, NEW k \in Nat,
                       ReleasesLast(coveredTask, d, s, k), Made(s, k)'
                PROVE  d \in refused' \/ Released(d)'
    BY <1>31 DEF ReleaseInv, ReleasesLast, CallRefused
  <2>1. /\ wpc = "called" /\ covered' = covered /\ wk' = wk + 1
        /\ refused' = refused \cup Channel(Call)
        /\ outputs' = outputs /\ compliance' = compliance
    BY <1>31 DEF CallRefused
  <2>2. /\ wcmd = coveredTask /\ wi = covered
        /\ wi < Total /\ wk <= Len(Calls) /\ Call.kind \in {"out", "comply"}
    BY <2>1 DEF WorkInv, PlaceInv, KindInv
  <2>3. CASE covered = s - 1 /\ wk = k
    <3>1. Sets(Call, d)
      BY <2>2, <2>3, CallMade DEF Releases
    <3>. QED BY <2>1, <3>1 DEF Channel
  <2>4. CASE ~(covered = s - 1 /\ wk = k)
    <3>1. Made(s, k)
      BY <2>1, <2>4 DEF Made
    <3>. QED BY <2>1, <3>1 DEF ReleaseInv, Released
  <2>. QED BY <2>3, <2>4
<1>15. CASE CallRaises
  BY <1>15, QuietRelease DEF CallRaises
<1>16. CASE PartialReport
  <2>1. Call.kind \notin {"out", "comply"}
    BY <1>16 DEF PartialReport
  <2>2. \A d \in 0 .. 2 : ~Sets(Call, d)
    BY <2>1 DEF Sets
  <2>. QED BY <1>16, <2>2, IdleRelease DEF PartialReport
<1>17. CASE Checkpoint
  <2>. SUFFICES ASSUME NEW d \in 0 .. 2, NEW s \in Nat, NEW k \in Nat,
                       ReleasesLast(coveredTask, d, s, k), Made(s, k)'
                PROVE  d \in refused \/ Released(d)
    BY <1>17 DEF ReleaseInv, ReleasesLast, Checkpoint, Released, robot
  <2>1. /\ wpc = "call" /\ wpc' = "calc" /\ covered' = covered + 1
        /\ wk > Len(Calls) /\ coveredTask = wcmd /\ wi = covered
    BY <1>17 DEF Checkpoint
  <2>2. covered = s - 1 => wk > k
    BY <2>1, CallsLength DEF ReleasesLast, Calls
  <2>3. Made(s, k)
    BY <2>1, <2>2 DEF Made
  <2>. QED BY <2>3 DEF ReleaseInv
<1>18. CASE ReadBack
  BY <1>18, QuietRelease DEF ReadBack
<1>19. CASE ShareProgress
  BY <1>19, QuietRelease DEF ShareProgress
<1>20. CASE Interrupted
  BY <1>20, QuietRelease DEF Interrupted
<1>21. CASE MarkPaused
  BY <1>21, QuietRelease DEF MarkPaused
<1>22. CASE MarkError
  BY <1>22, QuietRelease DEF MarkError
<1>23. CASE Finally
  BY <1>23, QuietRelease DEF Finally
<1>24. CASE FinProgress
  BY <1>24, QuietRelease DEF FinProgress
<1>25. CASE FinFlag
  BY <1>25, QuietRelease DEF FinFlag
<1>26. CASE FinStatus
  BY <1>26, QuietRelease DEF FinStatus
<1>27. CASE ResetIndex
  BY <1>27, QuietRelease DEF ResetIndex
<1>28. CASE ResetActive
  BY <1>28, QuietRelease DEF ResetActive
<1>29. CASE ResetLatest
  BY <1>29, QuietRelease DEF ResetLatest
<1>30. CASE UNCHANGED vars
  BY <1>30, QuietRelease DEF vars
<1>. QED BY <1>1, <1>2, <1>3, <1>4, <1>5, <1>6, <1>7, <1>8, <1>9, <1>10,
    <1>11, <1>12, <1>13, <1>14, <1>15, <1>16, <1>17, <1>18, <1>19, <1>20,
    <1>21, <1>22, <1>23, <1>24, <1>25, <1>26, <1>27, <1>28, <1>29, <1>30, <1>31
    DEF Next, Outside, Worker, RunSteps, WindUp

-----------------------------------------------------------------------------
(* Neither 100 % nor anything to release is there before the first command.*)
LEMMA EndInit ==
  ASSUME Init
  PROVE  HundredIInv /\ ReleasedIInv
<1>1. StepsIInv
  BY InitInv
<1>2. ExactInv /\ ShownInv /\ KindInv
  BY DEF Init, ExactInv, ShownInv, KindInv, LivePlaces, BodyPlaces,
     StepPlaces, FinPlaces
<1>3. ReleaseInv
  BY DEF Init, ReleaseInv, ReleasesLast, Made, StepPlaces
<1>. QED BY <1>1, <1>2, <1>3 DEF HundredIInv, ReleasedIInv

(* Without the continue commands the operator sees 100 % (L343, L375) only *)
(* when every step of the task has run since its last fresh start: neither *)
(* a partial report, computed from an index another thread stores, nor the *)
(* 100 % of the task before is ever taken for it.                          *)
THEOREM HundredIsTrue ==
  ASSUME \A c \in Commands : ~IsContinue(c)
  PROVE  Spec => []HundredMeansAllSteps
<1>1. Init => HundredIInv
  BY EndInit
<1>2. HundredIInv /\ [Next]_vars => HundredIInv'
  BY StepsInductive, ExactStep, ShownStep DEF HundredIInv
<1>3. HundredIInv => HundredMeansAllSteps
  BY DEF HundredIInv, ShownInv, HundredMeansAllSteps
<1>. QED BY <1>1, <1>2, <1>3, PTL DEF Spec

(* Without the continue commands a task that is called completed (L374)    *)
(* has released the gripper's outputs and, if it wiped, compliance,        *)
(* whatever was interrupted, ended by an error or begun again on the way:  *)
(* every channel but those whose last call the robot refused, which        *)
(* run_pausable_task does not notice (L230-L261).                          *)
THEOREM CompletedReleased ==
  ASSUME \A c \in Commands : ~IsContinue(c)
  PROVE  Spec => []CompletedMeansReleased
<1>1. Init => ReleasedIInv
  BY EndInit
<1>2. ReleasedIInv /\ [Next]_vars => ReleasedIInv'
  BY StepsInductive, ExactStep, KindStep, ReleaseStep
     DEF ReleasedIInv, StepsIInv
<1>3. ASSUME ReleasedIInv PROVE CompletedMeansReleased
  <2>. SUFFICES ASSUME Completing,
                       NEW c \in (IF wcmd = 1 THEN 1 .. 2 ELSE 0 .. 2)
                                 \ refused
                PROVE  Released(c)
    BY DEF CompletedMeansReleased
  <2>1. wcmd \in 1 .. 3 /\ coveredTask = wcmd /\ covered >= Len(Tasks[wcmd])
    BY <1>3, TaskLength DEF ReleasedIInv, StepsIInv, WorkInv, TypeOK, Total,
       Completing, LivePlaces
  <2>2. ASSUME NEW d \in 0 .. 2, EndsReleased(wcmd, d)
        PROVE  d \in refused \/ Released(d)
    <3>a. PICK s \in 1 .. Len(Tasks[wcmd]) :
            \E k \in 1 .. Len(Tasks[wcmd][s]) : ReleasesLast(wcmd, d, s, k)
      BY <2>2 DEF EndsReleased
    <3>1. PICK k \in 1 .. Len(Tasks[wcmd][s]) : ReleasesLast(wcmd, d, s, k)
      BY <3>a
    <3>2. s \in Nat /\ k \in Nat /\ Made(s, k)
      BY <1>3, <2>1, <3>1, TaskLength
         DEF Made, ReleasedIInv, StepsIInv, TypeOK
    <3>. QED BY <1>3, <2>1, <3>1, <3>2 DEF ReleasedIInv, ReleaseInv
  <2>3. c \in 0 .. 2 /\ c \notin refused /\ EndsReleased(wcmd, c)
    BY <2>1, ReleaseAssumption
  <2>. QED BY <2>2, <2>3
<1>. QED BY <1>1, <1>2, <1>3, PTL DEF Spec
=============================================================================
