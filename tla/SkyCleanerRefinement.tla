------------------------- MODULE SkyCleanerRefinement -----------------------
(***************************************************************************)
(* SkyCleaner implements PausableTask when no continue command is sent.    *)
(***************************************************************************)
EXTENDS SkyCleanerProofs

AbstractStep == [Abstract!Next]_(Abstract!taskVars)

(* A step that leaves the four abstract variables alone is a stutter.      *)
LEMMA Stutter ==
  ASSUME UNCHANGED <<coveredTask, covered, StepUnderWay, Completing>>
  PROVE  AbstractStep
BY DEF AbstractStep, Abstract!taskVars

(* A step that goes from one place outside a step and outside the writes   *)
(* of a completion to another is a stutter; so is one inside a step.       *)
LEMMA QuietStutter ==
  ASSUME UNCHANGED <<coveredTask, covered, wi>>,
         (wpc \in StepPlaces) = (wpc' \in StepPlaces),
         (wpc \in FinPlaces) = (wpc' \in FinPlaces)
  PROVE  AbstractStep
BY Stutter DEF StepUnderWay, Completing

(* Every step of the controller is one of PausableTask or a stutter.       *)
LEMMA StepMaps ==
  ASSUME StepsIInv, [Next]_vars, \A c \in Commands : ~IsContinue(c)
  PROVE  AbstractStep
<1>. USE DEF StepsIInv, CallbackStep, MainStep, WorkerStep, workVars, history
<1>. USE DEF StepPlaces, FinPlaces
<1>1. ASSUME NEW c \in Commands, Send(c) PROVE AbstractStep
  BY <1>1, QuietStutter DEF Send
<1>2. ASSUME NEW t \in {"main", "worker"}, Receive(t) PROVE AbstractStep
  BY <1>2, QuietStutter DEF Receive
<1>3. CASE StoreActive
  BY <1>3, QuietStutter DEF StoreActive
<1>4. CASE StoreIndex
  BY <1>4, QuietStutter DEF StoreIndex
<1>5. CASE LoadActive
  BY <1>5, QuietStutter DEF LoadActive
<1>6. CASE StoreLatest
  BY <1>6, QuietStutter DEF StoreLatest
<1>7. CASE StorePause
  BY <1>7, QuietStutter DEF StorePause
<1>8. CASE Report
  BY <1>8, QuietStutter DEF Report
<1>9. CASE StopMotion
  BY <1>9, QuietStutter DEF StopMotion
<1>10. CASE SpinOnce
  BY <1>10, QuietStutter DEF SpinOnce
<1>11. CASE ForcedPublish
  BY <1>11, QuietStutter DEF ForcedPublish
<1>12. CASE ClearFlag
  BY <1>12, QuietStutter DEF ClearFlag
<1>13. CASE Reap
  BY <1>13, QuietStutter DEF Reap
<1>14. CASE NothingToReap
  BY <1>14, QuietStutter DEF NothingToReap
<1>15. CASE ResetShown
  BY <1>15, QuietStutter DEF ResetShown
<1>16. CASE StartThread
  <2>1. wpc = "dead"
    BY <1>16 DEF StartThread, TypeOK, ThreadInv, Alive
  <2>. QED BY <1>16, <2>1, QuietStutter DEF StartThread
<1>17. CASE NothingToStart
  BY <1>17, QuietStutter DEF NothingToStart
<1>18. CASE Exit
  BY <1>18, QuietStutter DEF Exit
<1>19. CASE Shutdown
  BY <1>19, QuietStutter DEF Shutdown
<1>20. CASE ReadStart
  <2>1. /\ StepUnderWay = 0 /\ StepUnderWay' = 0
        /\ Completing' = Completing
    BY <1>20 DEF ReadStart, StepUnderWay, Completing
  <2>2. CASE current_step_index = 0
    <3>1. wcmd \in 1 .. 3
      BY DEF TypeOK
    <3>2. Abstract!StartAfresh(wcmd)
      BY <1>20, <2>1, <2>2 DEF ReadStart, Abstract!StartAfresh
    <3>. QED BY <3>1, <3>2 DEF AbstractStep, Abstract!Next
  <2>3. CASE current_step_index # 0
    BY <1>20, <2>1, <2>3, Stutter DEF ReadStart
  <2>. QED BY <2>2, <2>3
<1>21. CASE Announce
  BY <1>21, QuietStutter DEF Announce
<1>22. CASE LoopDone
  BY <1>22, QuietStutter DEF LoopDone
<1>23. CASE LoopStopped
  BY <1>23, QuietStutter DEF LoopStopped
<1>24. CASE EnterStep
  <2>1. /\ coveredTask = wcmd /\ wi <= covered /\ wi < Len(Tasks[wcmd])
        /\ wi \in Nat /\ covered \in Nat /\ wcmd \in 1 .. 3
        /\ Len(Tasks[wcmd]) \in Nat
    BY <1>24, TaskLength DEF EnterStep, Total, WorkInv, LivePlaces, BodyPlaces,
       TypeOK
  <2>2. /\ StepUnderWay = 0 /\ StepUnderWay' = wi + 1
        /\ ~Completing /\ Completing' = Completing
    BY <1>24 DEF EnterStep, StepUnderWay, Completing
  <2>3. Abstract!BeginStep(wi + 1)
    BY <1>24, <2>1, <2>2 DEF EnterStep, Abstract!BeginStep
  <2>4. wi + 1 \in 1 .. [c \in 1 .. 3 |-> Len(Tasks[c])][coveredTask]
    BY <2>1
  <2>. QED BY <2>3, <2>4 DEF AbstractStep, Abstract!Next
<1>25. CASE SaveIndex
  BY <1>25, QuietStutter DEF SaveIndex
<1>26. CASE CheckMove
  <2>1. CASE wpc' = "go"
    BY <1>26, <2>1, QuietStutter DEF CheckMove
  <2>2. CASE wpc' = "interrupted"
    <3>1. /\ StepUnderWay = wi + 1 /\ StepUnderWay' = 0 /\ wi \in Nat
          /\ Completing' = Completing
          /\ UNCHANGED <<coveredTask, covered>>
      BY <1>26, <2>2 DEF CheckMove, StepUnderWay, Completing, TypeOK
    <3>2. Abstract!BreakOff
      BY <3>1 DEF Abstract!BreakOff
    <3>. QED BY <3>2 DEF AbstractStep, Abstract!Next
  <2>. QED BY <1>26, <2>1, <2>2 DEF CheckMove
<1>27. CASE BeginMove
  BY <1>27, QuietStutter DEF BeginMove
<1>28. CASE Answer
  BY <1>28, QuietStutter DEF Answer
<1>29. CASE MoveDone
  BY <1>29, QuietStutter DEF MoveDone
<1>30. CASE MoveRaises
  <2>1. /\ StepUnderWay = wi + 1 /\ StepUnderWay' = 0 /\ wi \in Nat
        /\ Completing' = Completing
        /\ UNCHANGED <<coveredTask, covered>>
    BY <1>30 DEF MoveRaises, StepUnderWay, Completing, TypeOK
  <2>2. Abstract!BreakOff
    BY <2>1 DEF Abstract!BreakOff
  <2>. QED BY <2>2 DEF AbstractStep, Abstract!Next
<1>31. CASE BeginCall
  BY <1>31, QuietStutter DEF BeginCall
<1>32. CASE CallDone
  BY <1>32, QuietStutter DEF CallDone
<1>33. CASE CallRaises
  <2>1. /\ StepUnderWay = wi + 1 /\ StepUnderWay' = 0 /\ wi \in Nat
        /\ Completing' = Completing
        /\ UNCHANGED <<coveredTask, covered>>
    BY <1>33 DEF CallRaises, StepUnderWay, Completing, TypeOK
  <2>2. Abstract!BreakOff
    BY <2>1 DEF Abstract!BreakOff
  <2>. QED BY <2>2 DEF AbstractStep, Abstract!Next
<1>34. CASE PartialReport
  BY <1>34, QuietStutter DEF PartialReport
<1>35. CASE Checkpoint
  <2>1. /\ coveredTask = wcmd /\ wi <= covered
        /\ wi \in Nat /\ covered \in Nat
    BY <1>35 DEF Checkpoint, WorkInv, LivePlaces, BodyPlaces, TypeOK
  <2>2. /\ StepUnderWay = wi + 1 /\ StepUnderWay' = 0
        /\ Completing' = Completing /\ coveredTask' = coveredTask
    BY <1>35 DEF Checkpoint, StepUnderWay, Completing
  <2>3. covered' = IF wi + 1 > covered THEN wi + 1 ELSE covered
    BY <1>35, <2>1 DEF Checkpoint
  <2>4. Abstract!EndStep
    BY <2>1, <2>2, <2>3 DEF Abstract!EndStep
  <2>. QED BY <2>4 DEF AbstractStep, Abstract!Next
<1>36. CASE ReadBack
  BY <1>36, QuietStutter DEF ReadBack
<1>37. CASE ShareProgress
  BY <1>37, Stutter DEF ShareProgress, StepUnderWay, Completing
<1>38. CASE Interrupted
  BY <1>38, QuietStutter DEF Interrupted
<1>39. CASE MarkPaused
  BY <1>39, QuietStutter DEF MarkPaused
<1>40. CASE MarkError
  BY <1>40, QuietStutter DEF MarkError
<1>41. CASE Finally
  <2>1. CASE wpc' = "fin_progress"
    <3>1. coveredTask = wcmd /\ covered = Len(Tasks[coveredTask])
      <4>1. wpc = "finally" /\ outcome = "completed"
        BY <1>41, <2>1 DEF Finally
      <4>2. /\ coveredTask = wcmd /\ wi <= covered /\ wi >= Total
            /\ covered <= Len(Tasks[coveredTask])
        BY <4>1 DEF WorkInv, LivePlaces
      <4>3. wi \in Nat /\ covered \in Nat /\ Len(Tasks[wcmd]) \in Nat
        BY TaskLength DEF TypeOK
      <4>. QED BY <4>2, <4>3 DEF Total
    <3>2. /\ StepUnderWay = 0 /\ StepUnderWay' = 0 /\ Completing'
          /\ UNCHANGED <<coveredTask, covered>>
      BY <1>41, <2>1 DEF Finally, StepUnderWay, Completing
    <3>3. coveredTask \in 1 .. 3
      BY DEF TypeOK
    <3>4. Abstract!Complete
      BY <3>1, <3>2, <3>3 DEF Abstract!Complete
    <3>. QED BY <3>4 DEF AbstractStep, Abstract!Next
  <2>2. CASE wpc' # "fin_progress"
    BY <1>41, <2>2, QuietStutter DEF Finally
  <2>. QED BY <2>1, <2>2
<1>42. CASE FinProgress
  BY <1>42, QuietStutter DEF FinProgress
<1>43. CASE FinFlag
  BY <1>43, QuietStutter DEF FinFlag
<1>44. CASE FinStatus
  <2>1. /\ StepUnderWay = 0 /\ StepUnderWay' = 0
        /\ Completing' = FALSE
        /\ UNCHANGED <<coveredTask, covered>>
    BY <1>44 DEF FinStatus, StepUnderWay, Completing
  <2>2. Abstract!CompletionTold
    BY <2>1 DEF Abstract!CompletionTold
  <2>. QED BY <2>2 DEF AbstractStep, Abstract!Next
<1>45. CASE ResetIndex
  BY <1>45, QuietStutter DEF ResetIndex
<1>46. CASE ResetActive
  BY <1>46, QuietStutter DEF ResetActive
<1>47. CASE ResetLatest
  BY <1>47, QuietStutter DEF ResetLatest
<1>48. CASE UNCHANGED vars
  BY <1>48, QuietStutter DEF vars
<1>49. CASE CallRefused
  BY <1>49, QuietStutter DEF CallRefused
<1>. QED BY <1>1, <1>2, <1>3, <1>4, <1>5, <1>6, <1>7, <1>8, <1>9, <1>10,
    <1>11, <1>12, <1>13, <1>14, <1>15, <1>16, <1>17, <1>18, <1>19, <1>20,
    <1>21, <1>22, <1>23, <1>24, <1>25, <1>26, <1>27, <1>28, <1>29, <1>30,
    <1>31, <1>32, <1>33, <1>34, <1>35, <1>36, <1>37, <1>38, <1>39, <1>40,
    <1>41, <1>42, <1>43, <1>44, <1>45, <1>46, <1>47, <1>48, <1>49
    DEF Next, Callback, Main, Worker, RunSteps, WindUp

(* Without the continue commands the controller implements PausableTask:   *)
(* it begins no step before all earlier ones have run to their end and     *)
(* calls a task completed only after its last one, for every task table    *)
(* and every interleaving (L303, L313-L327, L349-L354, L374).              *)
THEOREM StepOrder ==
  ASSUME \A c \in Commands : ~IsContinue(c)
  PROVE  Spec => StepsInOrder
<1>1. Init => Abstract!Init
  BY DEF Init, Abstract!Init, StepUnderWay, Completing, StepPlaces, FinPlaces
<1>2. Init => StepsIInv
  BY InitInv
<1>3. StepsIInv /\ [Next]_vars => StepsIInv'
  BY StepsInductive
<1>4. StepsIInv /\ [Next]_vars => [Abstract!Next]_(Abstract!taskVars)
  BY StepMaps DEF AbstractStep
<1>. QED BY <1>1, <1>2, <1>3, <1>4, PTL DEF Spec, StepsInOrder, Abstract!Spec
=============================================================================
