-------------------------- MODULE SkyCleanerProofs --------------------------
(***************************************************************************)
(* Theorems about SkyCleaner, for every task table, set of commands, and   *)
(* bound on commands and faults.                                           *)
(***************************************************************************)
EXTENDS SkyCleanerInv, SequenceTheorems, TLAPS

(* A percentage of a task that has steps is a number.                      *)
LEMMA PercentType ==
  ASSUME NEW n \in Nat, NEW d \in Nat, d > 0
  PROVE  Percent(n, d) \in Nat
BY DEF Percent

(* Exchanging or appending the last word of a status gives a status.       *)
LEMMA RemarkType ==
  ASSUME NEW W, NEW s \in Seq(W), s # <<>>, NEW from \in W, NEW to \in W
  PROVE  /\ Remark(s, from, to) \in Seq(W)
         /\ Remark(s, from, to) # <<>>
<1>1. Len(s) \in 1 .. Len(s)
  BY EmptySeq
<1>2. CASE s[Len(s)] = from
  <2>. DEFINE r == [s EXCEPT ![Len(s)] = to]
  <2>1. r \in Seq(W) /\ Len(r) = Len(s)
    BY <1>1, ExceptSeq
  <2>2. r # <<>>
    BY <1>1, <2>1, EmptySeq
  <2>3. Remark(s, from, to) = r
    BY <1>2 DEF Remark
  <2>. HIDE DEF r
  <2>. QED BY <2>1, <2>2, <2>3
<1>3. CASE s[Len(s)] # from
  <2>1. Remark(s, from, to) = Append(s, to)
    BY <1>3 DEF Remark
  <2>. QED BY <2>1, AppendProperties
<1>. QED BY <1>2, <1>3

(* What Announce, Report and the rest of the code assign to shared_status. *)
LEMMA PhraseType ==
  ASSUME NEW W, NEW a \in W, NEW b \in W, NEW c \in W
  PROVE  /\ <<a>> \in Seq(W) /\ <<a>> # <<>>
         /\ <<a, b>> \in Seq(W) /\ <<a, b>> # <<>>
         /\ <<a, b, c>> \in Seq(W) /\ <<a, b, c>> # <<>>
OBVIOUS

(* The name of a task is a word of a status.                               *)
LEMMA TaskWord ==
  ASSUME NEW c \in 1 .. 3
  PROVE  TaskName[c] \in Word
BY DEF TaskName, Word

(* The other words the code uses.                                          *)
LEMMA Words ==
  /\ "RUNNING" \in Word /\ "PAUSED" \in Word /\ "COMPLETED" \in Word
  /\ "ERROR" \in Word /\ "IDLE" \in Word /\ "FULL_TASK" \in Word
  /\ "ROLLER_PHASE" \in Word /\ "CLOTH_PHASE" \in Word
  /\ "UNKNOWN_TASK" \in Word
BY DEF Word

(* Every status the code builds from its parts is a status.                *)
LEMMA StatusType ==
  /\ IDLE \in Seq(Word) /\ IDLE # <<>>
  /\ \A c : StartStatus(c) \in Seq(Word) /\ StartStatus(c) # <<>>
  /\ \A c \in 1 .. 3, w \in {"RUNNING", "ERROR", "COMPLETED"} :
       <<TaskName[c], w>> \in Seq(Word) /\ <<TaskName[c], w>> # <<>>
  /\ wcmd \in 1 .. 3 => RunningStatus \in Seq(Word) /\ RunningStatus # <<>>
<1>1. \A a, b, c \in Word : /\ <<a>> \in Seq(Word) /\ <<a>> # <<>>
                           /\ <<a, b>> \in Seq(Word) /\ <<a, b>> # <<>>
                           /\ <<a, b, c>> \in Seq(Word) /\ <<a, b, c>> # <<>>
  BY PhraseType
<1>2. IDLE \in Seq(Word) /\ IDLE # <<>>
  BY <1>1, Words DEF IDLE
<1>3. \A c : StartStatus(c) \in Seq(Word) /\ StartStatus(c) # <<>>
  BY <1>1, Words, TaskWord DEF StartStatus
<1>4. \A c \in 1 .. 3, w \in {"RUNNING", "ERROR", "COMPLETED"} :
        <<TaskName[c], w>> \in Seq(Word) /\ <<TaskName[c], w>> # <<>>
  BY <1>1, Words, TaskWord
<1>5. wcmd \in 1 .. 3 => RunningStatus \in Seq(Word) /\ RunningStatus # <<>>
  BY <1>1, Words, TaskWord DEF RunningStatus
<1>. QED BY <1>2, <1>3, <1>4, <1>5

(* Pausing and resuming mark a status and keep it a status.                *)
LEMMA MarkType ==
  ASSUME shared_status \in Seq(Word), shared_status # <<>>
  PROVE  /\ Paused(shared_status) \in Seq(Word) /\ Paused(shared_status) # <<>>
         /\ Resumed(shared_status) \in Seq(Word)
         /\ Resumed(shared_status) # <<>>
BY RemarkType, Words DEF Paused, Resumed

(* What a start or a continue command stores: a task and a step index.     *)
LEMMA FromIndexType ==
  ASSUME NEW c \in Nat, IsStart(c) \/ IsContinue(c)
  PROVE  FromIndex(c) \in Nat /\ Target(c) \in 1 .. 3
BY DEF FromIndex, Target, IsStart, IsContinue, RollerFrom, ClothFrom

(* Every task has a step.                                                  *)
LEMMA TaskLength ==
  ASSUME NEW c \in 1 .. 3
  PROVE  Len(Tasks[c]) \in Nat /\ Len(Tasks[c]) > 0
<1>1. Tasks[c] \in Seq(Seq(OpSet)) /\ Tasks[c] # <<>>
  BY TasksAssumption
<1>. QED BY <1>1, EmptySeq

(* The call a live worker is at is a call of the task table.               *)
LEMMA CallType ==
  ASSUME TypeOK, wi < Total, wk <= Len(Calls)
  PROVE  Call \in OpSet
<1>1. Tasks[wcmd] \in Seq(Seq(OpSet))
  BY TasksAssumption DEF TypeOK
<1>2. wi + 1 \in 1 .. Len(Tasks[wcmd])
  BY <1>1, LenProperties DEF TypeOK, Total
<1>3. Calls \in Seq(OpSet)
  BY <1>1, <1>2, ElementOfSeq DEF Calls
<1>4. wk \in 1 .. Len(Calls)
  BY <1>3, LenProperties DEF TypeOK
<1>. QED BY <1>3, <1>4, ElementOfSeq DEF Call

(* The task table does not change: a step that keeps the worker's command  *)
(* and loop variable keeps its task and its calls.                         *)
LEMMA TableStable ==
  /\ wcmd' = wcmd => Total' = Total
  /\ wcmd' = wcmd /\ wi' = wi => Calls' = Calls
BY DEF Total, Calls

(* Every step preserves the types.                                         *)
LEMMA TypeStep ==
  ASSUME TypeOK, PlaceInv, [Next]_vars
  PROVE  TypeOK' /\ PlaceInv'
<1>. USE DEF MainPlaces, StepPlaces, BodyPlaces, FinPlaces, ResetPlaces,
      WorkerPlaces, CallbackPlaces
<1>. USE DEF CallbackStep, MainStep, WorkerStep, globals, shown, mainVars,
      workVars, cbVars, envVars, robot, history
<1>1. ASSUME NEW c \in Commands, Send(c) PROVE TypeOK' /\ PlaceInv'
  <2>1. TypeOK'
    BY <1>1 DEF TypeOK, Send
  <2>2. PlaceInv'
    BY <1>1, TableStable DEF PlaceInv, TypeOK, Send
  <2>. QED BY <2>1, <2>2
<1>2. ASSUME NEW t \in {"main", "worker"}, Receive(t)
      PROVE  TypeOK' /\ PlaceInv'
  <2>1. Branch(inbox) \in CallbackPlaces
    BY DEF Branch
  <2>2. TypeOK'
    BY <1>2, <2>1 DEF TypeOK, Receive, Alive
  <2>3. PlaceInv'
    BY <1>2, TableStable DEF PlaceInv, TypeOK, Receive, Alive, Branch
  <2>. QED BY <2>2, <2>3
<1>3. CASE StoreActive
  <2>1. Target(ccmd) \in 0 .. 3
    BY <1>3 DEF StoreActive, CallbackStep, PlaceInv, Target, IsStart
  <2>2. TypeOK'
    BY <1>3, <2>1 DEF TypeOK, StoreActive, PlaceInv
  <2>3. PlaceInv'
    BY <1>3, TableStable DEF PlaceInv, TypeOK, StoreActive
  <2>. QED BY <2>2, <2>3
<1>4. CASE StoreIndex
  <2>1. FromIndex(ccmd) \in Nat
    BY <1>4, FromIndexType, CommandsAssumption
       DEF StoreIndex, PlaceInv, TypeOK, NoCmd, IsStart, IsContinue,
           RollerFrom, ClothFrom
  <2>2. TypeOK'
    BY <1>4, <2>1 DEF TypeOK, StoreIndex, PlaceInv
  <2>3. PlaceInv'
    BY <1>4, TableStable DEF PlaceInv, TypeOK, StoreIndex
  <2>. QED BY <2>2, <2>3
<1>5. CASE LoadActive
  <2>1. TypeOK'
    BY <1>5 DEF TypeOK, LoadActive, IsStart
  <2>2. PlaceInv'
    BY <1>5, TableStable DEF PlaceInv, TypeOK, LoadActive
  <2>. QED BY <2>1, <2>2
<1>6. CASE StoreLatest
  <2>1. TypeOK'
    BY <1>6 DEF TypeOK, StoreLatest
  <2>2. PlaceInv'
    BY <1>6, TableStable DEF PlaceInv, TypeOK, StoreLatest
  <2>. QED BY <2>1, <2>2
<1>7. CASE StorePause
  <2>1. TypeOK'
    BY <1>7 DEF TypeOK, StorePause
  <2>2. PlaceInv'
    BY <1>7, TableStable DEF PlaceInv, TypeOK, StorePause
  <2>. QED BY <2>1, <2>2
<1>8. CASE Report
  <2>1. shared_progress' \in Nat
    <3>1. IsContinue(ccmd) =>
            Percent(current_step_index, Len(Tasks[Target(ccmd)])) \in Nat
      <4>1. Target(ccmd) \in 1 .. 3
        BY DEF Target, IsStart
      <4>2. current_step_index \in Nat
        BY DEF TypeOK
      <4>. QED BY <4>1, <4>2, PercentType, TaskLength
    <3>2. CASE IsStart(ccmd)
      <4>1. ~IsContinue(ccmd)
        BY <3>2 DEF IsStart, IsContinue, RollerFrom, ClothFrom
      <4>. QED BY <1>8, <3>2, <4>1 DEF Report
    <3>3. CASE ~IsStart(ccmd) /\ IsContinue(ccmd)
      BY <1>8, <3>1, <3>3 DEF Report
    <3>4. CASE ~IsStart(ccmd) /\ ~IsContinue(ccmd)
      BY <1>8, <3>4 DEF Report, TypeOK
    <3>. QED BY <3>2, <3>3, <3>4
  <2>2. shared_status' \in Seq(Word)
    BY <1>8, MarkType, StatusType DEF Report, TypeOK
  <2>3. shared_status' # <<>>
    BY <1>8, MarkType, StatusType DEF Report, TypeOK
  <2>4. TypeOK'
    BY <1>8, <2>1, <2>2, <2>3 DEF TypeOK, Report
  <2>5. PlaceInv'
    BY <1>8, TableStable DEF PlaceInv, TypeOK, Report
  <2>. QED BY <2>4, <2>5
<1>9. CASE StopMotion
  <2>1. TypeOK'
    BY <1>9 DEF TypeOK, StopMotion
  <2>2. PlaceInv'
    BY <1>9, TableStable DEF PlaceInv, TypeOK, StopMotion
  <2>. QED BY <2>1, <2>2
<1>10. CASE SpinOnce
  <2>1. TypeOK'
    BY <1>10 DEF TypeOK, SpinOnce
  <2>2. PlaceInv'
    BY <1>10, TableStable DEF PlaceInv, TypeOK, SpinOnce
  <2>. QED BY <2>1, <2>2
<1>11. CASE ForcedPublish
  <2>1. TypeOK'
    BY <1>11 DEF TypeOK, ForcedPublish
  <2>2. PlaceInv'
    BY <1>11, TableStable DEF PlaceInv, TypeOK, ForcedPublish
  <2>. QED BY <2>1, <2>2
<1>12. CASE ClearFlag
  <2>1. final_publish_needed' \in BOOLEAN
    BY <1>12, Zenon DEF ClearFlag
  <2>2. TypeOK'
    BY <1>12, <2>1 DEF TypeOK, ClearFlag
  <2>3. PlaceInv'
    BY <1>12, TableStable DEF PlaceInv, TypeOK, ClearFlag
  <2>. QED BY <2>2, <2>3
<1>13. CASE Reap
  <2>1. task_thread' \in BOOLEAN
    BY <1>13, Zenon DEF Reap
  <2>2. TypeOK'
    BY <1>13, <2>1 DEF TypeOK, Reap
  <2>3. PlaceInv'
    BY <1>13, TableStable DEF PlaceInv, TypeOK, Reap
  <2>. QED BY <2>2, <2>3
<1>14. CASE NothingToReap
  <2>1. TypeOK'
    BY <1>14 DEF TypeOK, NothingToReap
  <2>2. PlaceInv'
    BY <1>14, TableStable DEF PlaceInv, TypeOK, NothingToReap
  <2>. QED BY <2>1, <2>2
<1>15. CASE ResetShown
  <2>1. shared_status' \in Seq(Word) /\ shared_status' # <<>>
    BY <1>15, StatusType, MarkType DEF ResetShown, TypeOK
  <2>2. TypeOK'
    BY <1>15, <2>1 DEF TypeOK, ResetShown
  <2>3. PlaceInv'
    BY <1>15, TableStable DEF PlaceInv, TypeOK, ResetShown
  <2>. QED BY <2>2, <2>3
<1>16. CASE StartThread
  <2>1. TypeOK'
    BY <1>16 DEF TypeOK, StartThread
  <2>2. PlaceInv'
    BY <1>16, TableStable DEF PlaceInv, TypeOK, StartThread
  <2>. QED BY <2>1, <2>2
<1>17. CASE NothingToStart
  <2>1. TypeOK'
    BY <1>17 DEF TypeOK, NothingToStart
  <2>2. PlaceInv'
    BY <1>17, TableStable DEF PlaceInv, TypeOK, NothingToStart
  <2>. QED BY <2>1, <2>2
<1>18. CASE Exit
  <2>1. TypeOK'
    BY <1>18 DEF TypeOK, Exit
  <2>2. PlaceInv'
    BY <1>18, TableStable DEF PlaceInv, TypeOK, Exit
  <2>. QED BY <2>1, <2>2
<1>19. CASE Shutdown
  <2>1. TypeOK'
    BY <1>19 DEF TypeOK, Shutdown
  <2>2. PlaceInv'
    BY <1>19, TableStable DEF PlaceInv, TypeOK, Shutdown
  <2>. QED BY <2>1, <2>2
<1>20. CASE ReadStart
  <2>1. TypeOK'
    BY <1>20 DEF TypeOK, ReadStart
  <2>2. PlaceInv'
    BY <1>20, TableStable DEF PlaceInv, TypeOK, ReadStart
  <2>. QED BY <2>1, <2>2
<1>21. CASE Announce
  <2>1. shared_status' \in Seq(Word) /\ shared_status' # <<>>
    BY <1>21, StatusType, MarkType DEF Announce, TypeOK, WorkerStep
  <2>2. TypeOK'
    BY <1>21, <2>1 DEF TypeOK, Announce
  <2>3. PlaceInv'
    BY <1>21, TableStable DEF PlaceInv, TypeOK, Announce
  <2>. QED BY <2>2, <2>3
<1>22. CASE LoopDone
  <2>1. TypeOK'
    BY <1>22 DEF TypeOK, LoopDone
  <2>2. PlaceInv'
    BY <1>22, TableStable DEF PlaceInv, TypeOK, LoopDone
  <2>. QED BY <2>1, <2>2
<1>23. CASE LoopStopped
  <2>1. TypeOK'
    BY <1>23 DEF TypeOK, LoopStopped
  <2>2. PlaceInv'
    BY <1>23, TableStable DEF PlaceInv, TypeOK, LoopStopped
  <2>. QED BY <2>1, <2>2
<1>24. CASE EnterStep
  <2>1. TypeOK'
    BY <1>24 DEF TypeOK, EnterStep
  <2>2. PlaceInv'
    BY <1>24, TableStable DEF PlaceInv, TypeOK, EnterStep
  <2>. QED BY <2>1, <2>2
<1>25. CASE SaveIndex
  <2>1. TypeOK'
    BY <1>25 DEF TypeOK, SaveIndex
  <2>2. PlaceInv'
    BY <1>25, TableStable DEF PlaceInv, TypeOK, SaveIndex
  <2>. QED BY <2>1, <2>2
<1>26. CASE CheckMove
  <2>1. TypeOK'
    BY <1>26 DEF TypeOK, CheckMove
  <2>2. PlaceInv'
    BY <1>26, TableStable DEF PlaceInv, TypeOK, CheckMove
  <2>. QED BY <2>1, <2>2
<1>27. CASE BeginMove
  <2>1. TypeOK'
    BY <1>27 DEF TypeOK, BeginMove
  <2>2. PlaceInv'
    BY <1>27, TableStable DEF PlaceInv, TypeOK, BeginMove
  <2>. QED BY <2>1, <2>2
<1>28. CASE Answer
  <2>1. TypeOK'
    BY <1>28 DEF TypeOK, Answer
  <2>2. PlaceInv'
    BY <1>28, TableStable DEF PlaceInv, TypeOK, Answer
  <2>. QED BY <2>1, <2>2
<1>29. CASE MoveDone
  <2>1. TypeOK'
    BY <1>29 DEF TypeOK, MoveDone
  <2>2. PlaceInv'
    BY <1>29, TableStable DEF PlaceInv, TypeOK, MoveDone
  <2>. QED BY <2>1, <2>2
<1>30. CASE MoveRaises
  <2>1. faults' \in Nat
    BY <1>30 DEF MoveRaises, CountFault, TypeOK
  <2>2. TypeOK'
    BY <1>30, <2>1 DEF TypeOK, MoveRaises
  <2>3. PlaceInv'
    BY <1>30, TableStable DEF PlaceInv, TypeOK, MoveRaises
  <2>. QED BY <2>2, <2>3
<1>31. CASE BeginCall
  <2>1. TypeOK'
    BY <1>31 DEF TypeOK, BeginCall
  <2>2. PlaceInv'
    BY <1>31, TableStable DEF PlaceInv, TypeOK, BeginCall
  <2>. QED BY <2>1, <2>2
<1>32. CASE CallDone
  <2>1. outputs' \in [1 .. 2 -> Nat]
    <3>1. Call \in OpSet
      BY <1>32, CallType DEF CallDone, WorkerStep, PlaceInv
    <3>. QED BY <1>32, <3>1 DEF CallDone, TypeOK, OpSet
  <2>2. compliance' \in BOOLEAN
    BY <1>32, Zenon DEF CallDone, TypeOK
  <2>3. refused' \subseteq 0 .. 2
    BY <1>32 DEF CallDone, TypeOK
  <2>4. TypeOK'
    BY <1>32, <2>1, <2>2, <2>3 DEF TypeOK, CallDone
  <2>5. PlaceInv'
    BY <1>32, TableStable DEF PlaceInv, TypeOK, CallDone
  <2>. QED BY <2>4, <2>5
<1>33. CASE CallRaises
  <2>1. faults' \in Nat
    BY <1>33 DEF CallRaises, CountFault, TypeOK
  <2>2. TypeOK'
    BY <1>33, <2>1 DEF TypeOK, CallRaises
  <2>3. PlaceInv'
    BY <1>33, TableStable DEF PlaceInv, TypeOK, CallRaises
  <2>. QED BY <2>2, <2>3
<1>34. CASE PartialReport
  <2>1. shared_progress' \in Nat
    <3>1. Call \in OpSet
      BY <1>34, CallType DEF PartialReport, WorkerStep, PlaceInv
    <3>2. Total \in Nat /\ Total > 0
      BY TaskLength DEF Total, TypeOK
    <3>3. Total * LoopCount \in Nat /\ Total * LoopCount > 0
      BY <3>2, LoopCountAssumption
    <3>4. current_step_index * LoopCount + Call.a \in Nat
      BY <3>1, LoopCountAssumption DEF TypeOK, OpSet
    <3>. QED BY <1>34, <3>3, <3>4, PercentType DEF PartialReport
  <2>2. TypeOK'
    BY <1>34, <2>1 DEF TypeOK, PartialReport
  <2>3. PlaceInv'
    BY <1>34, TableStable DEF PlaceInv, TypeOK, PartialReport
  <2>. QED BY <2>2, <2>3
<1>35. CASE Checkpoint
  <2>1. TypeOK'
    BY <1>35 DEF TypeOK, Checkpoint
  <2>2. PlaceInv'
    BY <1>35, TableStable DEF PlaceInv, TypeOK, Checkpoint
  <2>. QED BY <2>1, <2>2
<1>36. CASE ReadBack
  <2>1. TypeOK'
    BY <1>36 DEF TypeOK, ReadBack
  <2>2. PlaceInv'
    BY <1>36, TableStable DEF PlaceInv, TypeOK, ReadBack
  <2>. QED BY <2>1, <2>2
<1>37. CASE ShareProgress
  <2>1. shared_progress' \in Nat
    BY <1>37, PercentType, TaskLength DEF ShareProgress, Total, TypeOK
  <2>2. shared_status' \in Seq(Word) /\ shared_status' # <<>>
    BY <1>37, StatusType DEF ShareProgress, TypeOK
  <2>3. TypeOK'
    BY <1>37, <2>1, <2>2 DEF TypeOK, ShareProgress
  <2>4. PlaceInv'
    BY <1>37, TableStable DEF PlaceInv, TypeOK, ShareProgress
  <2>. QED BY <2>3, <2>4
<1>38. CASE Interrupted
  <2>1. TypeOK'
    BY <1>38 DEF TypeOK, Interrupted
  <2>2. PlaceInv'
    BY <1>38, TableStable DEF PlaceInv, TypeOK, Interrupted
  <2>. QED BY <2>1, <2>2
<1>39. CASE MarkPaused
  <2>1. shared_status' \in Seq(Word) /\ shared_status' # <<>>
    BY <1>39, StatusType, MarkType DEF MarkPaused, TypeOK, WorkerStep
  <2>2. TypeOK'
    BY <1>39, <2>1 DEF TypeOK, MarkPaused
  <2>3. PlaceInv'
    BY <1>39, TableStable DEF PlaceInv, TypeOK, MarkPaused
  <2>. QED BY <2>2, <2>3
<1>40. CASE MarkError
  <2>1. shared_status' \in Seq(Word) /\ shared_status' # <<>>
    BY <1>40, StatusType, MarkType DEF MarkError, TypeOK, WorkerStep
  <2>2. TypeOK'
    BY <1>40, <2>1 DEF TypeOK, MarkError
  <2>3. PlaceInv'
    BY <1>40, TableStable DEF PlaceInv, TypeOK, MarkError
  <2>. QED BY <2>2, <2>3
<1>41. CASE Finally
  <2>1. TypeOK'
    BY <1>41 DEF TypeOK, Finally
  <2>2. PlaceInv'
    BY <1>41, TableStable DEF PlaceInv, TypeOK, Finally
  <2>. QED BY <2>1, <2>2
<1>42. CASE FinProgress
  <2>1. TypeOK'
    BY <1>42 DEF TypeOK, FinProgress
  <2>2. PlaceInv'
    BY <1>42, TableStable DEF PlaceInv, TypeOK, FinProgress
  <2>. QED BY <2>1, <2>2
<1>43. CASE FinFlag
  <2>1. TypeOK'
    BY <1>43 DEF TypeOK, FinFlag
  <2>2. PlaceInv'
    BY <1>43, TableStable DEF PlaceInv, TypeOK, FinFlag
  <2>. QED BY <2>1, <2>2
<1>44. CASE FinStatus
  <2>1. shared_status' \in Seq(Word) /\ shared_status' # <<>>
    BY <1>44, StatusType, MarkType DEF FinStatus, TypeOK, WorkerStep
  <2>2. TypeOK'
    BY <1>44, <2>1 DEF TypeOK, FinStatus
  <2>3. PlaceInv'
    BY <1>44, TableStable DEF PlaceInv, TypeOK, FinStatus
  <2>. QED BY <2>2, <2>3
<1>45. CASE ResetIndex
  <2>1. TypeOK'
    BY <1>45 DEF TypeOK, ResetIndex
  <2>2. PlaceInv'
    BY <1>45, TableStable DEF PlaceInv, TypeOK, ResetIndex
  <2>. QED BY <2>1, <2>2
<1>46. CASE ResetActive
  <2>1. TypeOK'
    BY <1>46 DEF TypeOK, ResetActive
  <2>2. PlaceInv'
    BY <1>46, TableStable DEF PlaceInv, TypeOK, ResetActive
  <2>. QED BY <2>1, <2>2
<1>47. CASE ResetLatest
  <2>1. TypeOK'
    BY <1>47 DEF TypeOK, ResetLatest
  <2>2. PlaceInv'
    BY <1>47, TableStable DEF PlaceInv, TypeOK, ResetLatest
  <2>. QED BY <2>1, <2>2
<1>48. CASE UNCHANGED vars
  <2>1. TypeOK'
    BY <1>48 DEF TypeOK, vars
  <2>2. PlaceInv'
    BY <1>48, TableStable DEF PlaceInv, vars
  <2>. QED BY <2>1, <2>2
<1>49. CASE CallRefused
  <2>1. faults' \in Nat
    BY <1>49 DEF CallRefused, CountFault, TypeOK
  <2>2. refused' \subseteq 0 .. 2
    BY <1>49 DEF CallRefused, Channel, TypeOK
  <2>3. TypeOK'
    BY <1>49, <2>1, <2>2 DEF TypeOK, CallRefused
  <2>4. PlaceInv'
    BY <1>49, TableStable DEF PlaceInv, TypeOK, CallRefused
  <2>. QED BY <2>3, <2>4
<1>. QED BY <1>1, <1>2, <1>3, <1>4, <1>5, <1>6, <1>7, <1>8, <1>9, <1>10, <1>11,
    <1>12, <1>13, <1>14, <1>15, <1>16, <1>17, <1>18, <1>19, <1>20, <1>21,
    <1>22, <1>23, <1>24, <1>25, <1>26, <1>27, <1>28, <1>29, <1>30, <1>31,
    <1>32, <1>33, <1>34, <1>35, <1>36, <1>37, <1>38, <1>39, <1>40, <1>41,
    <1>42, <1>43, <1>44, <1>45, <1>46, <1>47, <1>48, <1>49
    DEF Next, Callback, Main, Worker, RunSteps, WindUp

(* Every step keeps track of who runs what.                               *)
LEMMA ThreadStep ==
  ASSUME TypeOK, ThreadInv, [Next]_vars
  PROVE  ThreadInv'
<1>. USE DEF ThreadInv, TypeOK, Alive, InCall, MainBusy, WorkerBusy,
      MainPlaces, StepPlaces, BodyPlaces, FinPlaces, ResetPlaces, WorkerPlaces,
      CallbackPlaces
<1>. USE DEF CallbackStep, MainStep, WorkerStep, globals, shown, mainVars,
      workVars, cbVars, envVars, robot, history
<1>1. ASSUME NEW c \in Commands, Send(c) PROVE ThreadInv'
  BY <1>1 DEF Send
<1>2. ASSUME NEW t \in {"main", "worker"}, Receive(t) PROVE ThreadInv'
  BY <1>2 DEF Receive, CanSpin, Branch
<1>3. CASE StoreActive
  BY <1>3 DEF StoreActive
<1>4. CASE StoreIndex
  BY <1>4 DEF StoreIndex
<1>5. CASE LoadActive
  BY <1>5 DEF LoadActive
<1>6. CASE StoreLatest
  BY <1>6 DEF StoreLatest
<1>7. CASE StorePause
  BY <1>7 DEF StorePause
<1>8. CASE Report
  BY <1>8 DEF Report
<1>9. CASE StopMotion
  BY <1>9 DEF StopMotion
<1>10. CASE SpinOnce
  BY <1>10 DEF SpinOnce
<1>11. CASE ForcedPublish
  BY <1>11 DEF ForcedPublish
<1>12. CASE ClearFlag
  BY <1>12 DEF ClearFlag
<1>13. CASE Reap
  BY <1>13 DEF Reap
<1>14. CASE NothingToReap
  BY <1>14 DEF NothingToReap
<1>15. CASE ResetShown
  BY <1>15 DEF ResetShown
<1>16. CASE StartThread
  BY <1>16 DEF StartThread
<1>17. CASE NothingToStart
  BY <1>17 DEF NothingToStart
<1>18. CASE Exit
  BY <1>18 DEF Exit
<1>19. CASE Shutdown
  BY <1>19 DEF Shutdown
<1>20. CASE ReadStart
  BY <1>20 DEF ReadStart
<1>21. CASE Announce
  BY <1>21 DEF Announce
<1>22. CASE LoopDone
  BY <1>22 DEF LoopDone
<1>23. CASE LoopStopped
  BY <1>23 DEF LoopStopped
<1>24. CASE EnterStep
  BY <1>24 DEF EnterStep
<1>25. CASE SaveIndex
  BY <1>25 DEF SaveIndex
<1>26. CASE CheckMove
  BY <1>26 DEF CheckMove
<1>27. CASE BeginMove
  BY <1>27 DEF BeginMove
<1>28. CASE Answer
  BY <1>28 DEF Answer
<1>29. CASE MoveDone
  BY <1>29 DEF MoveDone
<1>30. CASE MoveRaises
  BY <1>30 DEF MoveRaises
<1>31. CASE BeginCall
  BY <1>31 DEF BeginCall
<1>32. CASE CallDone
  BY <1>32 DEF CallDone
<1>33. CASE CallRaises
  BY <1>33 DEF CallRaises
<1>34. CASE PartialReport
  BY <1>34 DEF PartialReport
<1>35. CASE Checkpoint
  BY <1>35 DEF Checkpoint
<1>36. CASE ReadBack
  BY <1>36 DEF ReadBack
<1>37. CASE ShareProgress
  BY <1>37 DEF ShareProgress
<1>38. CASE Interrupted
  BY <1>38 DEF Interrupted
<1>39. CASE MarkPaused
  BY <1>39 DEF MarkPaused
<1>40. CASE MarkError
  BY <1>40 DEF MarkError
<1>41. CASE Finally
  BY <1>41 DEF Finally
<1>42. CASE FinProgress
  BY <1>42 DEF FinProgress
<1>43. CASE FinFlag
  BY <1>43 DEF FinFlag
<1>44. CASE FinStatus
  BY <1>44 DEF FinStatus
<1>45. CASE ResetIndex
  BY <1>45 DEF ResetIndex
<1>46. CASE ResetActive
  BY <1>46 DEF ResetActive
<1>47. CASE ResetLatest
  BY <1>47 DEF ResetLatest
<1>48. CASE UNCHANGED vars
  BY <1>48 DEF vars
<1>49. CASE CallRefused
  BY <1>49 DEF CallRefused
<1>. QED BY <1>1, <1>2, <1>3, <1>4, <1>5, <1>6, <1>7, <1>8, <1>9, <1>10, <1>11,
    <1>12, <1>13, <1>14, <1>15, <1>16, <1>17, <1>18, <1>19, <1>20, <1>21,
    <1>22, <1>23, <1>24, <1>25, <1>26, <1>27, <1>28, <1>29, <1>30, <1>31,
    <1>32, <1>33, <1>34, <1>35, <1>36, <1>37, <1>38, <1>39, <1>40, <1>41,
    <1>42, <1>43, <1>44, <1>45, <1>46, <1>47, <1>48, <1>49
    DEF Next, Callback, Main, Worker, RunSteps, WindUp

(* Every step keeps a pause effective.                                     *)
LEMMA PauseStep ==
  ASSUME TypeOK, PlaceInv, ThreadInv, PauseInv, [Next]_vars
  PROVE  PauseInv'
<1>. USE DEF PauseInv, PlaceInv, ThreadInv, TypeOK, Alive, InCall, MainBusy,
      WorkerBusy, MainPlaces, StepPlaces, BodyPlaces, FinPlaces, ResetPlaces,
      WorkerPlaces, CallbackPlaces
<1>. USE DEF CallbackStep, MainStep, WorkerStep, globals, shown, mainVars,
      workVars, cbVars, envVars, robot, history
<1>1. ASSUME NEW c \in Commands, Send(c) PROVE PauseInv'
  BY <1>1 DEF Send
<1>2. ASSUME NEW t \in {"main", "worker"}, Receive(t) PROVE PauseInv'
  BY <1>2 DEF Receive, CanSpin, Branch, IsStart, Busy, CanPause, CanResume
<1>3. CASE StoreActive
  BY <1>3 DEF StoreActive, Target, IsStart
<1>4. CASE StoreIndex
  BY <1>4 DEF StoreIndex
<1>5. CASE LoadActive
  BY <1>5 DEF LoadActive, IsStart
<1>6. CASE StoreLatest
  BY <1>6 DEF StoreLatest
<1>7. CASE StorePause
  BY <1>7 DEF StorePause
<1>8. CASE Report
  BY <1>8 DEF Report
<1>9. CASE StopMotion
  BY <1>9 DEF StopMotion
<1>10. CASE SpinOnce
  BY <1>10 DEF SpinOnce
<1>11. CASE ForcedPublish
  BY <1>11 DEF ForcedPublish
<1>12. CASE ClearFlag
  BY <1>12 DEF ClearFlag
<1>13. CASE Reap
  BY <1>13 DEF Reap
<1>14. CASE NothingToReap
  BY <1>14 DEF NothingToReap
<1>15. CASE ResetShown
  BY <1>15 DEF ResetShown
<1>16. CASE StartThread
  BY <1>16 DEF StartThread
<1>17. CASE NothingToStart
  BY <1>17 DEF NothingToStart
<1>18. CASE Exit
  BY <1>18 DEF Exit
<1>19. CASE Shutdown
  BY <1>19 DEF Shutdown
<1>20. CASE ReadStart
  BY <1>20 DEF ReadStart
<1>21. CASE Announce
  BY <1>21 DEF Announce
<1>22. CASE LoopDone
  BY <1>22 DEF LoopDone
<1>23. CASE LoopStopped
  BY <1>23 DEF LoopStopped
<1>24. CASE EnterStep
  BY <1>24 DEF EnterStep
<1>25. CASE SaveIndex
  BY <1>25 DEF SaveIndex
<1>26. CASE CheckMove
  BY <1>26 DEF CheckMove, StopRequested
<1>27. CASE BeginMove
  BY <1>27 DEF BeginMove
<1>28. CASE Answer
  BY <1>28 DEF Answer
<1>29. CASE MoveDone
  BY <1>29 DEF MoveDone
<1>30. CASE MoveRaises
  BY <1>30 DEF MoveRaises
<1>31. CASE BeginCall
  BY <1>31 DEF BeginCall
<1>32. CASE CallDone
  BY <1>32 DEF CallDone
<1>33. CASE CallRaises
  BY <1>33 DEF CallRaises
<1>34. CASE PartialReport
  BY <1>34 DEF PartialReport
<1>35. CASE Checkpoint
  BY <1>35 DEF Checkpoint
<1>36. CASE ReadBack
  BY <1>36 DEF ReadBack
<1>37. CASE ShareProgress
  BY <1>37 DEF ShareProgress
<1>38. CASE Interrupted
  BY <1>38 DEF Interrupted
<1>39. CASE MarkPaused
  BY <1>39 DEF MarkPaused
<1>40. CASE MarkError
  BY <1>40 DEF MarkError
<1>41. CASE Finally
  BY <1>41 DEF Finally
<1>42. CASE FinProgress
  BY <1>42 DEF FinProgress
<1>43. CASE FinFlag
  BY <1>43 DEF FinFlag
<1>44. CASE FinStatus
  BY <1>44 DEF FinStatus
<1>45. CASE ResetIndex
  BY <1>45 DEF ResetIndex
<1>46. CASE ResetActive
  BY <1>46 DEF ResetActive
<1>47. CASE ResetLatest
  BY <1>47 DEF ResetLatest
<1>48. CASE UNCHANGED vars
  BY <1>48 DEF vars
<1>49. CASE CallRefused
  BY <1>49 DEF CallRefused
<1>. QED BY <1>1, <1>2, <1>3, <1>4, <1>5, <1>6, <1>7, <1>8, <1>9, <1>10, <1>11,
    <1>12, <1>13, <1>14, <1>15, <1>16, <1>17, <1>18, <1>19, <1>20, <1>21,
    <1>22, <1>23, <1>24, <1>25, <1>26, <1>27, <1>28, <1>29, <1>30, <1>31,
    <1>32, <1>33, <1>34, <1>35, <1>36, <1>37, <1>38, <1>39, <1>40, <1>41,
    <1>42, <1>43, <1>44, <1>45, <1>46, <1>47, <1>48, <1>49
    DEF Next, Callback, Main, Worker, RunSteps, WindUp

(* Every step keeps count of the steps that have run.                       *)
LEMMA WorkStep ==
  ASSUME \A c \in Commands : ~IsContinue(c), StepsIInv, [Next]_vars
  PROVE  WorkInv'
<1>. USE DEF WorkInv, StepsIInv, PlaceInv, ThreadInv, IndexInv, TypeOK, Alive,
      InCall, MainBusy, WorkerBusy, MainPlaces, StepPlaces, BodyPlaces,
      FinPlaces, ResetPlaces, WorkerPlaces, CallbackPlaces, LivePlaces, Early,
      Completing
<1>. USE DEF CallbackStep, MainStep, WorkerStep, globals, shown, mainVars,
      workVars, cbVars, envVars, robot, history
<1>1. ASSUME NEW c \in Commands, Send(c) PROVE WorkInv'
  BY <1>1, TableStable, TaskLength DEF Send
<1>2. ASSUME NEW t \in {"main", "worker"}, Receive(t) PROVE WorkInv'
  BY <1>2, TableStable, TaskLength DEF Receive, CanSpin, Branch, NoCmd,
     IsStart, Busy, CanPause, CanResume
<1>3. CASE StoreActive
  BY <1>3, TableStable, TaskLength DEF StoreActive, Target, FromIndex, IsStart
<1>4. CASE StoreIndex
  BY <1>4, TableStable, TaskLength DEF StoreIndex, Target, FromIndex, IsStart
<1>5. CASE LoadActive
  BY <1>5, TableStable, TaskLength DEF LoadActive, Target, FromIndex, IsStart
<1>6. CASE StoreLatest
  BY <1>6, TableStable, TaskLength DEF StoreLatest, Target, FromIndex, IsStart
<1>7. CASE StorePause
  BY <1>7, TableStable, TaskLength DEF StorePause
<1>8. CASE Report
  BY <1>8, TableStable, TaskLength DEF Report, Target, FromIndex, IsStart
<1>9. CASE StopMotion
  BY <1>9, TableStable, TaskLength DEF StopMotion
<1>10. CASE SpinOnce
  BY <1>10, TableStable, TaskLength DEF SpinOnce
<1>11. CASE ForcedPublish
  BY <1>11, TableStable, TaskLength DEF ForcedPublish
<1>12. CASE ClearFlag
  BY <1>12, TableStable, TaskLength DEF ClearFlag
<1>13. CASE Reap
  BY <1>13, TableStable, TaskLength DEF Reap
<1>14. CASE NothingToReap
  BY <1>14, TableStable, TaskLength DEF NothingToReap
<1>15. CASE ResetShown
  BY <1>15, TableStable, TaskLength DEF ResetShown
<1>16. CASE StartThread
  BY <1>16, TableStable, TaskLength DEF StartThread
<1>17. CASE NothingToStart
  BY <1>17, TableStable, TaskLength DEF NothingToStart
<1>18. CASE Exit
  BY <1>18, TableStable, TaskLength DEF Exit
<1>19. CASE Shutdown
  BY <1>19, TableStable, TaskLength DEF Shutdown
<1>20. CASE ReadStart
  BY <1>20, TableStable, TaskLength DEF ReadStart
<1>21. CASE Announce
  BY <1>21, TableStable, TaskLength DEF Announce
<1>22. CASE LoopDone
  BY <1>22, TableStable, TaskLength DEF LoopDone
<1>23. CASE LoopStopped
  BY <1>23, TableStable, TaskLength DEF LoopStopped
<1>24. CASE EnterStep
  BY <1>24, TableStable, TaskLength DEF EnterStep
<1>25. CASE SaveIndex
  BY <1>25, TableStable, TaskLength DEF SaveIndex
<1>26. CASE CheckMove
  BY <1>26, TableStable, TaskLength DEF CheckMove
<1>27. CASE BeginMove
  BY <1>27, TableStable, TaskLength DEF BeginMove
<1>28. CASE Answer
  BY <1>28, TableStable, TaskLength DEF Answer
<1>29. CASE MoveDone
  BY <1>29, TableStable, TaskLength DEF MoveDone
<1>30. CASE MoveRaises
  BY <1>30, TableStable, TaskLength DEF MoveRaises
<1>31. CASE BeginCall
  BY <1>31, TableStable, TaskLength DEF BeginCall
<1>32. CASE CallDone
  BY <1>32, TableStable, TaskLength DEF CallDone
<1>33. CASE CallRaises
  BY <1>33, TableStable, TaskLength DEF CallRaises
<1>34. CASE PartialReport
  BY <1>34, TableStable, TaskLength DEF PartialReport
<1>35. CASE Checkpoint
  BY <1>35, TableStable, TaskLength DEF Checkpoint, Total
<1>36. CASE ReadBack
  BY <1>36, TableStable, TaskLength DEF ReadBack
<1>37. CASE ShareProgress
  BY <1>37, TableStable, TaskLength DEF ShareProgress
<1>38. CASE Interrupted
  BY <1>38, TableStable, TaskLength DEF Interrupted
<1>39. CASE MarkPaused
  BY <1>39, TableStable, TaskLength DEF MarkPaused
<1>40. CASE MarkError
  BY <1>40, TableStable, TaskLength DEF MarkError
<1>41. CASE Finally
  BY <1>41, TableStable, TaskLength DEF Finally, IsStart
<1>42. CASE FinProgress
  BY <1>42, TableStable, TaskLength DEF FinProgress
<1>43. CASE FinFlag
  BY <1>43, TableStable, TaskLength DEF FinFlag
<1>44. CASE FinStatus
  BY <1>44, TableStable, TaskLength DEF FinStatus
<1>45. CASE ResetIndex
  BY <1>45, TableStable, TaskLength DEF ResetIndex
<1>46. CASE ResetActive
  BY <1>46, TableStable, TaskLength DEF ResetActive
<1>47. CASE ResetLatest
  BY <1>47, TableStable, TaskLength DEF ResetLatest
<1>48. CASE UNCHANGED vars
  BY <1>48, TableStable, TaskLength DEF vars
<1>49. CASE CallRefused
  BY <1>49, TableStable, TaskLength DEF CallRefused
<1>. QED BY <1>1, <1>2, <1>3, <1>4, <1>5, <1>6, <1>7, <1>8, <1>9, <1>10, <1>11,
    <1>12, <1>13, <1>14, <1>15, <1>16, <1>17, <1>18, <1>19, <1>20, <1>21,
    <1>22, <1>23, <1>24, <1>25, <1>26, <1>27, <1>28, <1>29, <1>30, <1>31,
    <1>32, <1>33, <1>34, <1>35, <1>36, <1>37, <1>38, <1>39, <1>40, <1>41,
    <1>42, <1>43, <1>44, <1>45, <1>46, <1>47, <1>48, <1>49
    DEF Next, Callback, Main, Worker, RunSteps, WindUp

(* Every step keeps the checkpoint behind them.                             *)
LEMMA IndexStep ==
  ASSUME \A c \in Commands : ~IsContinue(c), StepsIInv, [Next]_vars
  PROVE  IndexInv'
<1>. USE DEF IndexInv, StepsIInv, PlaceInv, ThreadInv, WorkInv, AgreeInv,
      StartInv, TypeOK, Alive, InCall, MainBusy, WorkerBusy, MainPlaces,
      StepPlaces, BodyPlaces, FinPlaces, ResetPlaces, WorkerPlaces,
      CallbackPlaces, LivePlaces, Early, Completing
<1>. USE DEF CallbackStep, MainStep, WorkerStep, globals, shown, mainVars,
      workVars, cbVars, envVars, robot, history
<1>1. ASSUME NEW c \in Commands, Send(c) PROVE IndexInv'
  BY <1>1 DEF Send
<1>2. ASSUME NEW t \in {"main", "worker"}, Receive(t) PROVE IndexInv'
  BY <1>2 DEF Receive, CanSpin, Branch, NoCmd, IsStart, Busy, CanPause,
     CanResume
<1>3. CASE StoreActive
  BY <1>3 DEF StoreActive, Target, FromIndex, IsStart
<1>4. CASE StoreIndex
  BY <1>4 DEF StoreIndex, Target, FromIndex, IsStart
<1>5. CASE LoadActive
  BY <1>5 DEF LoadActive, Target, FromIndex, IsStart
<1>6. CASE StoreLatest
  BY <1>6 DEF StoreLatest, Target, FromIndex, IsStart
<1>7. CASE StorePause
  BY <1>7 DEF StorePause
<1>8. CASE Report
  BY <1>8 DEF Report, Target, FromIndex, IsStart
<1>9. CASE StopMotion
  BY <1>9 DEF StopMotion
<1>10. CASE SpinOnce
  BY <1>10 DEF SpinOnce
<1>11. CASE ForcedPublish
  BY <1>11 DEF ForcedPublish
<1>12. CASE ClearFlag
  BY <1>12 DEF ClearFlag
<1>13. CASE Reap
  BY <1>13 DEF Reap
<1>14. CASE NothingToReap
  BY <1>14 DEF NothingToReap
<1>15. CASE ResetShown
  BY <1>15 DEF ResetShown
<1>16. CASE StartThread
  BY <1>16 DEF StartThread
<1>17. CASE NothingToStart
  BY <1>17 DEF NothingToStart
<1>18. CASE Exit
  BY <1>18 DEF Exit
<1>19. CASE Shutdown
  BY <1>19 DEF Shutdown
<1>20. CASE ReadStart
  BY <1>20 DEF ReadStart
<1>21. CASE Announce
  BY <1>21 DEF Announce
<1>22. CASE LoopDone
  BY <1>22 DEF LoopDone
<1>23. CASE LoopStopped
  BY <1>23 DEF LoopStopped
<1>24. CASE EnterStep
  BY <1>24 DEF EnterStep
<1>25. CASE SaveIndex
  BY <1>25 DEF SaveIndex
<1>26. CASE CheckMove
  BY <1>26 DEF CheckMove
<1>27. CASE BeginMove
  BY <1>27 DEF BeginMove
<1>28. CASE Answer
  BY <1>28 DEF Answer
<1>29. CASE MoveDone
  BY <1>29 DEF MoveDone
<1>30. CASE MoveRaises
  BY <1>30 DEF MoveRaises
<1>31. CASE BeginCall
  BY <1>31 DEF BeginCall
<1>32. CASE CallDone
  BY <1>32 DEF CallDone
<1>33. CASE CallRaises
  BY <1>33 DEF CallRaises
<1>34. CASE PartialReport
  BY <1>34 DEF PartialReport
<1>35. CASE Checkpoint
  BY <1>35 DEF Checkpoint, Total
<1>36. CASE ReadBack
  BY <1>36 DEF ReadBack
<1>37. CASE ShareProgress
  BY <1>37 DEF ShareProgress
<1>38. CASE Interrupted
  BY <1>38 DEF Interrupted
<1>39. CASE MarkPaused
  BY <1>39 DEF MarkPaused
<1>40. CASE MarkError
  BY <1>40 DEF MarkError
<1>41. CASE Finally
  BY <1>41 DEF Finally, IsStart
<1>42. CASE FinProgress
  BY <1>42 DEF FinProgress
<1>43. CASE FinFlag
  BY <1>43 DEF FinFlag
<1>44. CASE FinStatus
  BY <1>44 DEF FinStatus
<1>45. CASE ResetIndex
  BY <1>45 DEF ResetIndex
<1>46. CASE ResetActive
  BY <1>46 DEF ResetActive
<1>47. CASE ResetLatest
  BY <1>47 DEF ResetLatest
<1>48. CASE UNCHANGED vars
  BY <1>48 DEF vars
<1>49. CASE CallRefused
  BY <1>49 DEF CallRefused
<1>. QED BY <1>1, <1>2, <1>3, <1>4, <1>5, <1>6, <1>7, <1>8, <1>9, <1>10, <1>11,
    <1>12, <1>13, <1>14, <1>15, <1>16, <1>17, <1>18, <1>19, <1>20, <1>21,
    <1>22, <1>23, <1>24, <1>25, <1>26, <1>27, <1>28, <1>29, <1>30, <1>31,
    <1>32, <1>33, <1>34, <1>35, <1>36, <1>37, <1>38, <1>39, <1>40, <1>41,
    <1>42, <1>43, <1>44, <1>45, <1>46, <1>47, <1>48, <1>49
    DEF Next, Callback, Main, Worker, RunSteps, WindUp

(* Every step keeps the commands in agreement with the worker.              *)
LEMMA AgreeStep ==
  ASSUME \A c \in Commands : ~IsContinue(c), StepsIInv, [Next]_vars
  PROVE  AgreeInv'
<1>. USE DEF AgreeInv, StepsIInv, PlaceInv, ThreadInv, WorkInv, IndexInv,
      StartInv, TypeOK, Alive, InCall, MainBusy, WorkerBusy, MainPlaces,
      StepPlaces, BodyPlaces, FinPlaces, ResetPlaces, WorkerPlaces,
      CallbackPlaces, LivePlaces, Early, Completing
<1>. USE DEF CallbackStep, MainStep, WorkerStep, globals, shown, mainVars,
      workVars, cbVars, envVars, robot, history
<1>1. ASSUME NEW c \in Commands, Send(c) PROVE AgreeInv'
  BY <1>1 DEF Send
<1>2. ASSUME NEW t \in {"main", "worker"}, Receive(t) PROVE AgreeInv'
  BY <1>2 DEF Receive, CanSpin, Branch, NoCmd, IsStart, Busy, CanPause,
     CanResume
<1>3. CASE StoreActive
  BY <1>3 DEF StoreActive, Target, FromIndex, IsStart
<1>4. CASE StoreIndex
  BY <1>4 DEF StoreIndex, Target, FromIndex, IsStart
<1>5. CASE LoadActive
  BY <1>5 DEF LoadActive, Target, FromIndex, IsStart
<1>6. CASE StoreLatest
  BY <1>6 DEF StoreLatest, Target, FromIndex, IsStart
<1>7. CASE StorePause
  BY <1>7 DEF StorePause
<1>8. CASE Report
  BY <1>8 DEF Report, Target, FromIndex, IsStart
<1>9. CASE StopMotion
  BY <1>9 DEF StopMotion
<1>10. CASE SpinOnce
  BY <1>10 DEF SpinOnce
<1>11. CASE ForcedPublish
  BY <1>11 DEF ForcedPublish
<1>12. CASE ClearFlag
  BY <1>12 DEF ClearFlag
<1>13. CASE Reap
  BY <1>13 DEF Reap
<1>14. CASE NothingToReap
  BY <1>14 DEF NothingToReap
<1>15. CASE ResetShown
  BY <1>15 DEF ResetShown
<1>16. CASE StartThread
  BY <1>16 DEF StartThread
<1>17. CASE NothingToStart
  BY <1>17 DEF NothingToStart
<1>18. CASE Exit
  BY <1>18 DEF Exit
<1>19. CASE Shutdown
  BY <1>19 DEF Shutdown
<1>20. CASE ReadStart
  BY <1>20 DEF ReadStart
<1>21. CASE Announce
  BY <1>21 DEF Announce
<1>22. CASE LoopDone
  BY <1>22 DEF LoopDone
<1>23. CASE LoopStopped
  BY <1>23 DEF LoopStopped
<1>24. CASE EnterStep
  BY <1>24 DEF EnterStep
<1>25. CASE SaveIndex
  BY <1>25 DEF SaveIndex
<1>26. CASE CheckMove
  BY <1>26 DEF CheckMove
<1>27. CASE BeginMove
  BY <1>27 DEF BeginMove
<1>28. CASE Answer
  BY <1>28 DEF Answer
<1>29. CASE MoveDone
  BY <1>29 DEF MoveDone
<1>30. CASE MoveRaises
  BY <1>30 DEF MoveRaises
<1>31. CASE BeginCall
  BY <1>31 DEF BeginCall
<1>32. CASE CallDone
  BY <1>32 DEF CallDone
<1>33. CASE CallRaises
  BY <1>33 DEF CallRaises
<1>34. CASE PartialReport
  BY <1>34 DEF PartialReport
<1>35. CASE Checkpoint
  BY <1>35 DEF Checkpoint, Total
<1>36. CASE ReadBack
  BY <1>36 DEF ReadBack
<1>37. CASE ShareProgress
  BY <1>37 DEF ShareProgress
<1>38. CASE Interrupted
  BY <1>38 DEF Interrupted
<1>39. CASE MarkPaused
  BY <1>39 DEF MarkPaused
<1>40. CASE MarkError
  BY <1>40 DEF MarkError
<1>41. CASE Finally
  BY <1>41 DEF Finally, IsStart
<1>42. CASE FinProgress
  BY <1>42 DEF FinProgress
<1>43. CASE FinFlag
  BY <1>43 DEF FinFlag
<1>44. CASE FinStatus
  BY <1>44 DEF FinStatus
<1>45. CASE ResetIndex
  BY <1>45 DEF ResetIndex
<1>46. CASE ResetActive
  BY <1>46 DEF ResetActive
<1>47. CASE ResetLatest
  BY <1>47 DEF ResetLatest
<1>48. CASE UNCHANGED vars
  BY <1>48 DEF vars
<1>49. CASE CallRefused
  BY <1>49 DEF CallRefused
<1>. QED BY <1>1, <1>2, <1>3, <1>4, <1>5, <1>6, <1>7, <1>8, <1>9, <1>10, <1>11,
    <1>12, <1>13, <1>14, <1>15, <1>16, <1>17, <1>18, <1>19, <1>20, <1>21,
    <1>22, <1>23, <1>24, <1>25, <1>26, <1>27, <1>28, <1>29, <1>30, <1>31,
    <1>32, <1>33, <1>34, <1>35, <1>36, <1>37, <1>38, <1>39, <1>40, <1>41,
    <1>42, <1>43, <1>44, <1>45, <1>46, <1>47, <1>48, <1>49
    DEF Next, Callback, Main, Worker, RunSteps, WindUp

(* Every step keeps an accepted start in agreement with the worker.         *)
LEMMA StartStep ==
  ASSUME \A c \in Commands : ~IsContinue(c), StepsIInv, [Next]_vars
  PROVE  StartInv'
<1>. USE DEF StartInv, StepsIInv, PlaceInv, ThreadInv, WorkInv, IndexInv,
      AgreeInv, TypeOK, Alive, InCall, MainBusy, WorkerBusy, MainPlaces,
      StepPlaces, BodyPlaces, FinPlaces, ResetPlaces, WorkerPlaces,
      CallbackPlaces, LivePlaces, Early, Completing
<1>. USE DEF CallbackStep, MainStep, WorkerStep, globals, shown, mainVars,
      workVars, cbVars, envVars, robot, history
<1>1. ASSUME NEW c \in Commands, Send(c) PROVE StartInv'
  BY <1>1 DEF Send
<1>2. ASSUME NEW t \in {"main", "worker"}, Receive(t) PROVE StartInv'
  <2>1. cpc' = Branch(inbox) /\ ccmd' = inbox /\ inbox \in Commands
    BY <1>2 DEF Receive, NoCmd
  <2>2. UNCHANGED <<wpc, latest_cmd, active_task_cmd, current_step_index>>
    BY <1>2 DEF Receive
  <2>3. cpc' \in {"active", "pause", "load", "idle"}
    BY <2>1 DEF Branch
  <2>4. CASE cpc' = "load"
    BY <2>1, <2>4 DEF Branch, IsStart
  <2>5. CASE cpc' = "active"
    <3>1. ~IsContinue(inbox)
      BY <2>1
    <3>2. ~Busy(inbox)
      BY <2>1, <2>5, <3>1 DEF Branch
    <3> QED
      BY <1>2, <2>1, <2>2, <2>5, <3>2 DEF Receive, Busy
  <2> QED
    BY <2>3, <2>4, <2>5
<1>3. CASE StoreActive
  BY <1>3 DEF StoreActive, Target, FromIndex, IsStart
<1>4. CASE StoreIndex
  BY <1>4 DEF StoreIndex, Target, FromIndex, IsStart
<1>5. CASE LoadActive
  BY <1>5 DEF LoadActive, Target, FromIndex, IsStart
<1>6. CASE StoreLatest
  BY <1>6 DEF StoreLatest, Target, FromIndex, IsStart
<1>7. CASE StorePause
  BY <1>7 DEF StorePause
<1>8. CASE Report
  BY <1>8 DEF Report, Target, FromIndex, IsStart
<1>9. CASE StopMotion
  BY <1>9 DEF StopMotion
<1>10. CASE SpinOnce
  BY <1>10 DEF SpinOnce
<1>11. CASE ForcedPublish
  BY <1>11 DEF ForcedPublish
<1>12. CASE ClearFlag
  BY <1>12 DEF ClearFlag
<1>13. CASE Reap
  BY <1>13 DEF Reap
<1>14. CASE NothingToReap
  BY <1>14 DEF NothingToReap
<1>15. CASE ResetShown
  BY <1>15 DEF ResetShown
<1>16. CASE StartThread
  BY <1>16 DEF StartThread
<1>17. CASE NothingToStart
  BY <1>17 DEF NothingToStart
<1>18. CASE Exit
  BY <1>18 DEF Exit
<1>19. CASE Shutdown
  BY <1>19 DEF Shutdown
<1>20. CASE ReadStart
  BY <1>20 DEF ReadStart
<1>21. CASE Announce
  BY <1>21 DEF Announce
<1>22. CASE LoopDone
  BY <1>22 DEF LoopDone
<1>23. CASE LoopStopped
  BY <1>23 DEF LoopStopped
<1>24. CASE EnterStep
  BY <1>24 DEF EnterStep
<1>25. CASE SaveIndex
  BY <1>25 DEF SaveIndex
<1>26. CASE CheckMove
  BY <1>26 DEF CheckMove
<1>27. CASE BeginMove
  BY <1>27 DEF BeginMove
<1>28. CASE Answer
  BY <1>28 DEF Answer
<1>29. CASE MoveDone
  BY <1>29 DEF MoveDone
<1>30. CASE MoveRaises
  BY <1>30 DEF MoveRaises
<1>31. CASE BeginCall
  BY <1>31 DEF BeginCall
<1>32. CASE CallDone
  BY <1>32 DEF CallDone
<1>33. CASE CallRaises
  BY <1>33 DEF CallRaises
<1>34. CASE PartialReport
  BY <1>34 DEF PartialReport
<1>35. CASE Checkpoint
  BY <1>35 DEF Checkpoint, Total
<1>36. CASE ReadBack
  BY <1>36 DEF ReadBack
<1>37. CASE ShareProgress
  BY <1>37 DEF ShareProgress
<1>38. CASE Interrupted
  BY <1>38 DEF Interrupted
<1>39. CASE MarkPaused
  BY <1>39 DEF MarkPaused
<1>40. CASE MarkError
  BY <1>40 DEF MarkError
<1>41. CASE Finally
  BY <1>41 DEF Finally, IsStart
<1>42. CASE FinProgress
  BY <1>42 DEF FinProgress
<1>43. CASE FinFlag
  BY <1>43 DEF FinFlag
<1>44. CASE FinStatus
  BY <1>44 DEF FinStatus
<1>45. CASE ResetIndex
  BY <1>45 DEF ResetIndex
<1>46. CASE ResetActive
  BY <1>46 DEF ResetActive
<1>47. CASE ResetLatest
  BY <1>47 DEF ResetLatest
<1>48. CASE UNCHANGED vars
  BY <1>48 DEF vars
<1>49. CASE CallRefused
  BY <1>49 DEF CallRefused
<1>. QED BY <1>1, <1>2, <1>3, <1>4, <1>5, <1>6, <1>7, <1>8, <1>9, <1>10, <1>11,
    <1>12, <1>13, <1>14, <1>15, <1>16, <1>17, <1>18, <1>19, <1>20, <1>21,
    <1>22, <1>23, <1>24, <1>25, <1>26, <1>27, <1>28, <1>29, <1>30, <1>31,
    <1>32, <1>33, <1>34, <1>35, <1>36, <1>37, <1>38, <1>39, <1>40, <1>41,
    <1>42, <1>43, <1>44, <1>45, <1>46, <1>47, <1>48, <1>49
    DEF Next, Callback, Main, Worker, RunSteps, WindUp

(* Every step keeps a publication ahead of the next task.                   *)
LEMMA PublishStep ==
  ASSUME TypeOK, ThreadInv, PublishInv, [Next]_vars
  PROVE  PublishInv'
<1>. USE DEF PublishInv, ThreadInv, TypeOK, Alive, InCall, MainBusy,
      WorkerBusy, MainPlaces, StepPlaces, BodyPlaces, FinPlaces, ResetPlaces,
      WorkerPlaces, CallbackPlaces
<1>. USE DEF CallbackStep, MainStep, WorkerStep, globals, shown, mainVars,
      workVars, cbVars, envVars, robot, history
<1>1. ASSUME NEW c \in Commands, Send(c) PROVE PublishInv'
  BY <1>1 DEF Send
<1>2. ASSUME NEW t \in {"main", "worker"}, Receive(t) PROVE PublishInv'
  BY <1>2 DEF Receive, CanSpin
<1>3. CASE StoreActive
  BY <1>3 DEF StoreActive
<1>4. CASE StoreIndex
  BY <1>4 DEF StoreIndex
<1>5. CASE LoadActive
  BY <1>5 DEF LoadActive
<1>6. CASE StoreLatest
  BY <1>6 DEF StoreLatest
<1>7. CASE StorePause
  BY <1>7 DEF StorePause
<1>8. CASE Report
  BY <1>8 DEF Report
<1>9. CASE StopMotion
  BY <1>9 DEF StopMotion
<1>10. CASE SpinOnce
  BY <1>10 DEF SpinOnce
<1>11. CASE ForcedPublish
  BY <1>11 DEF ForcedPublish
<1>12. CASE ClearFlag
  BY <1>12 DEF ClearFlag
<1>13. CASE Reap
  BY <1>13 DEF Reap
<1>14. CASE NothingToReap
  BY <1>14 DEF NothingToReap
<1>15. CASE ResetShown
  BY <1>15 DEF ResetShown
<1>16. CASE StartThread
  BY <1>16 DEF StartThread
<1>17. CASE NothingToStart
  BY <1>17 DEF NothingToStart
<1>18. CASE Exit
  BY <1>18 DEF Exit
<1>19. CASE Shutdown
  BY <1>19 DEF Shutdown
<1>20. CASE ReadStart
  BY <1>20 DEF ReadStart
<1>21. CASE Announce
  BY <1>21 DEF Announce
<1>22. CASE LoopDone
  BY <1>22 DEF LoopDone
<1>23. CASE LoopStopped
  BY <1>23 DEF LoopStopped
<1>24. CASE EnterStep
  BY <1>24 DEF EnterStep
<1>25. CASE SaveIndex
  BY <1>25 DEF SaveIndex
<1>26. CASE CheckMove
  BY <1>26 DEF CheckMove
<1>27. CASE BeginMove
  BY <1>27 DEF BeginMove
<1>28. CASE Answer
  BY <1>28 DEF Answer
<1>29. CASE MoveDone
  BY <1>29 DEF MoveDone
<1>30. CASE MoveRaises
  BY <1>30 DEF MoveRaises
<1>31. CASE BeginCall
  BY <1>31 DEF BeginCall
<1>32. CASE CallDone
  BY <1>32 DEF CallDone
<1>33. CASE CallRaises
  BY <1>33 DEF CallRaises
<1>34. CASE PartialReport
  BY <1>34 DEF PartialReport
<1>35. CASE Checkpoint
  BY <1>35 DEF Checkpoint
<1>36. CASE ReadBack
  BY <1>36 DEF ReadBack
<1>37. CASE ShareProgress
  BY <1>37 DEF ShareProgress
<1>38. CASE Interrupted
  BY <1>38 DEF Interrupted
<1>39. CASE MarkPaused
  BY <1>39 DEF MarkPaused
<1>40. CASE MarkError
  BY <1>40 DEF MarkError
<1>41. CASE Finally
  BY <1>41 DEF Finally
<1>42. CASE FinProgress
  BY <1>42 DEF FinProgress
<1>43. CASE FinFlag
  BY <1>43 DEF FinFlag
<1>44. CASE FinStatus
  BY <1>44 DEF FinStatus
<1>45. CASE ResetIndex
  BY <1>45 DEF ResetIndex
<1>46. CASE ResetActive
  BY <1>46 DEF ResetActive
<1>47. CASE ResetLatest
  BY <1>47 DEF ResetLatest
<1>48. CASE UNCHANGED vars
  BY <1>48 DEF vars
<1>49. CASE CallRefused
  BY <1>49 DEF CallRefused
<1>. QED BY <1>1, <1>2, <1>3, <1>4, <1>5, <1>6, <1>7, <1>8, <1>9, <1>10, <1>11,
    <1>12, <1>13, <1>14, <1>15, <1>16, <1>17, <1>18, <1>19, <1>20, <1>21,
    <1>22, <1>23, <1>24, <1>25, <1>26, <1>27, <1>28, <1>29, <1>30, <1>31,
    <1>32, <1>33, <1>34, <1>35, <1>36, <1>37, <1>38, <1>39, <1>40, <1>41,
    <1>42, <1>43, <1>44, <1>45, <1>46, <1>47, <1>48, <1>49
    DEF Next, Callback, Main, Worker, RunSteps, WindUp

(* The three invariants hold before the first command.                     *)
LEMMA InitInv ==
  ASSUME Init
  PROVE  PauseIInv /\ PublishIInv /\ StepsIInv
<1>1. TypeOK
  <2>1. IDLE \in Seq(Word) /\ IDLE # <<>>
    BY StatusType
  <2>2. /\ final_publish_needed \in BOOLEAN /\ task_thread \in BOOLEAN
        /\ compliance \in BOOLEAN
    BY Zenon DEF Init
  <2>3. outputs \in [1 .. 2 -> Nat]
    BY DEF Init
  <2>. QED BY <2>1, <2>2, <2>3 DEF Init, TypeOK, MainPlaces, WorkerPlaces,
           BodyPlaces, StepPlaces, FinPlaces, ResetPlaces, CallbackPlaces
<1>2. PlaceInv /\ ThreadInv /\ PauseInv /\ PublishInv
  BY DEF Init, PlaceInv, ThreadInv, PauseInv, PublishInv, Alive, MainBusy,
     WorkerBusy, InCall, StepPlaces, BodyPlaces, ResetPlaces
<1>3. WorkInv
  BY TaskLength DEF Init, WorkInv, LivePlaces, BodyPlaces, StepPlaces,
     FinPlaces, Completing
<1>4. IndexInv /\ AgreeInv /\ StartInv
  BY DEF Init, IndexInv, AgreeInv, StartInv, Early, LivePlaces, BodyPlaces,
     StepPlaces, FinPlaces
<1>. QED BY <1>1, <1>2, <1>3, <1>4 DEF PauseIInv, PublishIInv, StepsIInv

-----------------------------------------------------------------------------
(* Every reachable state has the shape of TypeOK: the commands, indices,   *)
(* percentages and status strings the code computes are of the expected    *)
(* kind, and no division by an empty task or index out of a table occurs.  *)
THEOREM TypeCorrect == Spec => []TypeOK
<1>1. Init => TypeOK /\ PlaceInv
  BY InitInv DEF PauseIInv
<1>2. TypeOK /\ PlaceInv /\ [Next]_vars => TypeOK' /\ PlaceInv'
  BY TypeStep
<1>. QED BY <1>1, <1>2, PTL DEF Spec

(* Once a pause has taken effect the worker begins at most the move whose  *)
(* check (L63) it had passed, in every interleaving of callbacks, main     *)
(* loop, worker and faults, for any tasks and any commands, the continue   *)
(* commands included.                                                      *)
THEOREM PauseBound == Spec => []AtMostOneMoveAfterPause
<1>1. Init => PauseIInv
  BY InitInv
<1>2. PauseIInv /\ [Next]_vars => PauseIInv'
  BY TypeStep, ThreadStep, PauseStep DEF PauseIInv
<1>3. PauseIInv => AtMostOneMoveAfterPause
  BY DEF PauseIInv, PauseInv, AtMostOneMoveAfterPause
<1>. QED BY <1>1, <1>2, <1>3, PTL DEF Spec

(* No worker starts while the final 100 % of the previous task is still to *)
(* be published (L455-L459 against L475), although final_publish_needed,   *)
(* latest_cmd and task_thread are read and written without a lock.         *)
THEOREM PublicationOrder == Spec => []PublishedBeforeNextTask
<1>1. Init => PublishIInv
  BY InitInv
<1>2. PublishIInv /\ [Next]_vars => PublishIInv'
  BY TypeStep, ThreadStep, PublishStep DEF PublishIInv
<1>3. PublishIInv => PublishedBeforeNextTask
  BY DEF PublishIInv, PublishInv, PublishedBeforeNextTask, ResetPlaces
<1>. QED BY <1>1, <1>2, <1>3, PTL DEF Spec

(* The parts of StepsIInv together: it is inductive.                        *)
LEMMA StepsInductive ==
  ASSUME \A c \in Commands : ~IsContinue(c), StepsIInv, [Next]_vars
  PROVE  StepsIInv'
<1>1. TypeOK' /\ PlaceInv' /\ ThreadInv'
  BY TypeStep, ThreadStep DEF StepsIInv
<1>2. WorkInv' /\ IndexInv'
  BY WorkStep, IndexStep
<1>3. AgreeInv' /\ StartInv'
  BY AgreeStep, StartStep
<1>. QED BY <1>1, <1>2, <1>3 DEF StepsIInv

(* Without the continue commands (1xx, 2xx) a task is declared completed   *)
(* (L349, L374) only when every one of its steps has run since its last    *)
(* fresh start: no pause, resume, repeated start, fault or race of them    *)
(* makes a checkpoint skip a step.                                         *)
THEOREM NoStepSkipped ==
  ASSUME \A c \in Commands : ~IsContinue(c)
  PROVE  Spec => []CompletedMeansAllSteps
<1>1. Init => StepsIInv
  BY InitInv
<1>2. StepsIInv /\ [Next]_vars => StepsIInv'
  BY StepsInductive
<1>3. ASSUME StepsIInv PROVE CompletedMeansAllSteps
  <2>1. Completing => wpc \in LivePlaces
    BY DEF Completing, LivePlaces
  <2>2. Total \in Nat
    BY <1>3, TaskLength DEF Total, StepsIInv, TypeOK
  <2>. QED BY <1>3, <2>1, <2>2 DEF StepsIInv, WorkInv, TypeOK, Total,
           CompletedMeansAllSteps
<1>. QED BY <1>1, <1>2, <1>3, PTL DEF Spec
=============================================================================
