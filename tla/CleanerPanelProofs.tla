------------------------- MODULE CleanerPanelProofs -------------------------
(***************************************************************************)
(* The progress the operator sees of one command never goes back.  Along   *)
(* the way from the worker's index to the panel's label, shared_progress,  *)
(* the queue of the topic and the received value are each no less than the *)
(* next, until the main loop takes the progress back; from then on the     *)
(* timer publishes nothing.                                                *)
(***************************************************************************)
EXTENDS CleanerPanel, SkyCleanerProofs

(* No command has been sent, or the one that was is still being heard.     *)
Hearing == sent = 0 \/ inbox # NoCmd \/ cpc # "idle"

(* Nothing has been shown, and the worker was never started.               *)
HearingInv ==
  /\ Hearing => /\ ~task_thread /\ ~final_publish_needed
                /\ shared_progress = 0 /\ shared_status = IDLE
                /\ mpc \notin {"publish", "clear", "reset"}
  /\ sent = 0 => inbox = NoCmd
  /\ sent = 0 \/ inbox # NoCmd
       => cpc = "idle" /\ active_task_cmd = 0 /\ latest_cmd = 0

(* The callback of the first command: it starts a task or continues one.   *)
FirstInv ==
  /\ cpc # "idle" => /\ cby = "main" /\ (IsStart(ccmd) \/ IsContinue(ccmd))
                     /\ cpc \in {"active", "index", "load", "store", "report"}
  /\ cpc \in {"index", "load"} => active_task_cmd = Target(ccmd)
  /\ cpc = "store" => cread = Target(ccmd)
  /\ cpc = "report" => latest_cmd = Target(ccmd)

(* One command makes one worker: once it is dead nothing is requested.     *)
OnceInv ==
  /\ task_thread /\ ~Alive => latest_cmd = 0
  /\ mpc = "reset" => latest_cmd = 0 /\ ~task_thread
  /\ ~task_thread /\ latest_cmd # 0 /\ cpc = "idle"
       => shared_progress <= Percent(current_step_index,
                                     Len(Tasks[latest_cmd]))

(* The worker is done and its progress taken back; the timer is silent.    *)
Over == /\ ~task_thread /\ latest_cmd = 0
        /\ shared_progress = 0 /\ shared_status = IDLE

(* A final publication owed is one of 100 %.                               *)
OwedInv ==
  /\ mpc \in {"publish", "clear"} => final_publish_needed
  /\ final_publish_needed => shared_progress = 100 \/ Over
  /\ wpc = "fin_flag" => shared_progress = 100

(* What the worker has shared is no more than it will share next.          *)
RisingInv ==
  /\ wpc \in {"announce", "loop"} \cup StepPlaces => current_step_index = wi
  /\ wpc \in {"calc", "share"} => current_step_index = wi + 1
  /\ wpc = "share" => wread = wi + 1
  /\ wpc = "init" => shared_progress <= Percent(current_step_index, Total)
  /\ wpc \in {"announce", "loop"} => shared_progress <= Percent(wi, Total)
  /\ wpc \in StepPlaces \cup {"calc", "share"}
       => shared_progress <= Percent(wi + 1, Total)
  /\ wpc \in StepPlaces => \A j \in 1 .. Len(Calls) :
       j >= wk /\ Calls[j].kind = "partial"
         => shared_progress <= Percent(wi * LoopCount + Calls[j].a,
                                       Total * LoopCount)

OneInv == HearingInv /\ FirstInv /\ OnceInv /\ OwedInv /\ RisingInv

(* What the panel has received or will is no more than what is shared.     *)
Level == IF progressTopic = NoCmd THEN progress_value
         ELSE ClampPercent(progressTopic)
OrderInv ==
  /\ progress_value \in 0 .. 100 /\ progressTopic \in Nat \cup {NoCmd}
  /\ progress_value <= Level
  /\ Hearing => Level = 0
  /\ Level <= ClampPercent(shared_progress) \/ Over

(* The strengthening for ShownProgressGrows.                               *)
GrowsIInv == PublishIInv /\ (sent <= 1 => OneInv /\ OrderInv)

-----------------------------------------------------------------------------
(* A quotient is the greatest number of whole parts.                       *)
LEMMA QuotientIs ==
  ASSUME NEW x \in Nat, NEW d \in Nat, d > 0, NEW q \in Nat, q * d <= x
  PROVE  q <= x \div d
<1>1. x = d * (x \div d) + (x % d) /\ x % d \in 0 .. d - 1 /\ x \div d \in Nat
  OBVIOUS
<1>. DEFINE p == x \div d
<1>2. p \in Nat /\ x < d * p + d
  BY <1>1
<1>. HIDE DEF p
<1>3. d * p + d = d * (p + 1)
  BY <1>2
<1>4. q >= p + 1 => d * q >= d * (p + 1)
  BY <1>2
<1>5. q * d = d * q /\ d * q \in Nat /\ d * (p + 1) \in Nat
  BY <1>2
<1>6. ~(q >= p + 1)
  BY <1>2, <1>3, <1>4, <1>5
<1>. QED BY <1>2, <1>6 DEF p

(* What a percentage is worth.                                             *)
LEMMA PercentWorth ==
  ASSUME NEW n \in Nat, NEW d \in Nat, d > 0
  PROVE  Percent(n, d) \in Nat /\ Percent(n, d) * d <= 100 * n
<1>1. 100 * n \in Nat
  OBVIOUS
<1>. DEFINE x == 100 * n
<1>. HIDE DEF x
<1>2. x \in Nat /\ x \div d \in Nat /\ (x \div d) * d <= x
  BY <1>1 DEF x
<1>. QED BY <1>2 DEF Percent, x

(* More steps make no smaller percentage.                                  *)
LEMMA PercentRises ==
  ASSUME NEW n \in Nat, NEW m \in Nat, NEW d \in Nat, d > 0, n <= m
  PROVE  Percent(n, d) <= Percent(m, d)
<1>1. Percent(n, d) \in Nat /\ Percent(n, d) * d <= 100 * n
  BY PercentWorth
<1>. DEFINE q == Percent(n, d)
<1>. HIDE DEF q
<1>2. q * d \in Nat /\ q \in Nat /\ q * d <= 100 * m /\ 100 * m \in Nat
  BY <1>1 DEF q
<1>. QED BY <1>2, QuotientIs DEF Percent, q

(* A share of step n + 1 is worth more than n steps ...                    *)
LEMMA ShareMore ==
  ASSUME NEW n \in Nat, NEW a \in Nat, NEW d \in Nat, d > 0
  PROVE  Percent(n, d) <= Percent(n * LoopCount + a, d * LoopCount)
<1>. DEFINE q == Percent(n, d)
            L == LoopCount
<1>1. L \in Nat /\ L > 0
  BY LoopCountAssumption
<1>2. q \in Nat /\ q * d <= 100 * n
  BY PercentWorth
<1>. HIDE DEF q, L
<1>3. d * L \in Nat /\ d * L > 0 /\ n * L + a \in Nat /\ n * L \in Nat
  BY <1>1
<1>4. q * d \in Nat /\ (q * d) * L <= (100 * n) * L
  BY <1>1, <1>2
<1>5. q * (d * L) = (q * d) * L /\ (100 * n) * L = 100 * (n * L)
  BY <1>1, <1>2
<1>6. 100 * (n * L) <= 100 * (n * L + a)
  BY <1>3
<1>7. (q * d) * L \in Nat
  BY <1>1, <1>4
<1>8. q * (d * L) <= 100 * (n * L + a)
  BY <1>3, <1>4, <1>5, <1>6, <1>7
<1>9. 100 * (n * L + a) \in Nat
  BY <1>3
<1>10. q <= (100 * (n * L + a)) \div (d * L)
  BY <1>2, <1>3, <1>8, <1>9, QuotientIs
<1>. QED BY <1>10 DEF Percent, q, L

(* ... and no more than n + 1.                                             *)
LEMMA ShareLess ==
  ASSUME NEW n \in Nat, NEW a \in Nat, NEW d \in Nat, d > 0, a <= LoopCount
  PROVE  Percent(n * LoopCount + a, d * LoopCount) <= Percent(n + 1, d)
<1>. DEFINE L == LoopCount
            q == Percent(n * L + a, d * L)
<1>1. L \in Nat /\ L > 0 /\ a <= L
  BY LoopCountAssumption
<1>. HIDE DEF L
<1>2. d * L \in Nat /\ d * L > 0 /\ n * L + a \in Nat /\ n * L \in Nat
  BY <1>1
<1>3. q \in Nat /\ q * (d * L) <= 100 * (n * L + a)
  BY <1>2, PercentWorth
<1>. HIDE DEF q
<1>4. (n + 1) * L = n * L + L
  BY <1>1
<1>5. 100 * (n * L + a) <= 100 * ((n + 1) * L)
  BY <1>1, <1>2, <1>4
<1>6. q * (d * L) = (q * d) * L /\ 100 * ((n + 1) * L) = (100 * (n + 1)) * L
  BY <1>1, <1>3
<1>7. q * d \in Nat /\ 100 * (n + 1) \in Nat
  BY <1>3
<1>. DEFINE x == q * d
            y == 100 * (n + 1)
            z == 100 * (n * L + a)
<1>8. /\ z \in Nat /\ x * L <= z /\ z <= y * L
      /\ x \in Nat /\ y \in Nat
  BY <1>2, <1>3, <1>5, <1>6, <1>7
<1>. HIDE DEF x, y, z
<1>9. x \in Nat /\ y \in Nat /\ x * L <= y * L
  BY <1>1, <1>8
<1>10. x > y => x * L > y * L
  BY <1>1, <1>9
<1>11. x <= y
  BY <1>1, <1>9, <1>10
<1>12. q <= (100 * (n + 1)) \div d
  BY <1>3, <1>7, <1>11, QuotientIs DEF x, y
<1>. QED BY <1>12 DEF Percent, q, L

(* The greater of two partial reports of a step is the later.              *)
LEMMA ShareRises ==
  ASSUME NEW n \in Nat, NEW a \in Nat, NEW b \in Nat, NEW d \in Nat, d > 0,
         a <= b
  PROVE  Percent(n * LoopCount + a, d * LoopCount)
           <= Percent(n * LoopCount + b, d * LoopCount)
<1>. DEFINE L == LoopCount
<1>1. L \in Nat /\ L > 0
  BY LoopCountAssumption
<1>. HIDE DEF L
<1>2. n * L \in Nat /\ d * L \in Nat /\ d * L > 0
  BY <1>1
<1>3. n * L + a \in Nat /\ n * L + b \in Nat /\ n * L + a <= n * L + b
  BY <1>2
<1>. QED BY <1>2, <1>3, PercentRises DEF L

(* The panel cuts a greater number off no lower.                           *)
LEMMA ClampRises ==
  ASSUME NEW n \in Nat
  PROVE  /\ ClampPercent(n) \in 0 .. 100 /\ ClampPercent(0) = 0
         /\ ClampPercent(100) = 100
         /\ \A m \in Nat : n <= m => ClampPercent(n) <= ClampPercent(m)
BY DEF ClampPercent

(* Every call the worker may be at is one of the tables'.                  *)
LEMMA TableType ==
  ASSUME TypeOK, wi < Total
  PROVE  /\ wi + 1 \in 1 .. Len(Tasks[wcmd])
         /\ Calls \in Seq(OpSet) /\ Len(Calls) \in Nat
         /\ \A k \in Nat \ {0} : k <= Len(Calls) => k \in 1 .. Len(Calls)
<1>1. Tasks[wcmd] \in Seq(Seq(OpSet))
  BY TasksAssumption DEF TypeOK
<1>2. wi + 1 \in 1 .. Len(Tasks[wcmd])
  BY <1>1, LenProperties DEF TypeOK, Total
<1>3. Calls \in Seq(OpSet)
  BY <1>1, <1>2, ElementOfSeq DEF Calls
<1>. QED BY <1>2, <1>3, LenProperties

(* A partial report is a share of its step.                                *)
LEMMA PartialOf ==
  ASSUME TypeOK, wi < Total, NEW k \in 1 .. Len(Calls),
         Calls[k].kind = "partial"
  PROVE  Calls[k].a \in Nat /\ Calls[k].a <= LoopCount
<1>1. wi + 1 \in 1 .. Len(Tasks[wcmd]) /\ Calls \in Seq(OpSet)
  BY TableType
<1>2. Calls[k] \in OpSet
  BY <1>1, ElementOfSeq
<1>3. wcmd \in 1 .. 3
  BY DEF TypeOK
<1>. QED BY <1>1, <1>2, <1>3, ReportAssumption DEF Calls, OpSet

(* The partial reports of a step ascend.                                   *)
LEMMA Ascending ==
  ASSUME TypeOK, wi < Total,
         NEW k \in 1 .. Len(Calls), NEW j \in 1 .. Len(Calls), k <= j,
         Calls[k].kind = "partial", Calls[j].kind = "partial"
  PROVE  Calls[k].a <= Calls[j].a
<1>1. wi + 1 \in 1 .. Len(Tasks[wcmd]) /\ wcmd \in 1 .. 3
  BY TableType DEF TypeOK
<1>2. /\ k \in 1 .. Len(Tasks[wcmd][wi + 1])
      /\ j \in k .. Len(Tasks[wcmd][wi + 1])
  BY DEF Calls
<1>. QED BY <1>1, <1>2, AscendAssumption DEF Calls

(* The percentage of a partial report is a number.                         *)
LEMMA ShareType ==
  ASSUME NEW n \in Nat, NEW a \in Nat, NEW d \in Nat, d > 0
  PROVE  Percent(n * LoopCount + a, d * LoopCount) \in Nat
<1>. DEFINE L == LoopCount
<1>1. L \in Nat /\ L > 0
  BY LoopCountAssumption
<1>. HIDE DEF L
<1>2. n * L + a \in Nat /\ d * L \in Nat /\ d * L > 0
  BY <1>1
<1>. QED BY <1>2, PercentType DEF L

-----------------------------------------------------------------------------
(* A step of the controller in a behaviour with one command or none.       *)
OneStep == /\ PublishIInv /\ OneInv /\ sent <= 1
           /\ [Next]_vars /\ sent' <= 1

(* It is a step.                                                           *)
LEMMA OneStepNext ==
  ASSUME OneStep
  PROVE  [Next]_vars
BY DEF OneStep

(* A live worker means that the command has been heard.                    *)
LEMMA AliveHeard ==
  ASSUME OneStep
  PROVE  Alive => task_thread /\ ~Hearing /\ mpc # "reset" /\ ~Over
BY DEF OneStep, PublishIInv, ThreadInv, OneInv, HearingInv, OnceInv, Over

(* What the worker leaves to the others.                                   *)
LEMMA WorkerKeeps ==
  ASSUME Worker
  PROVE  /\ Alive
         /\ UNCHANGED <<task_thread, mpc, wcmd, cbVars, inbox, sent>>
         /\ wpc' = "dead" => latest_cmd' = 0
<1>. DEFINE Kept ==
  /\ Alive
  /\ UNCHANGED <<task_thread, mpc, wcmd, cbVars, inbox, sent>>
  /\ wpc' = "dead" => latest_cmd' = 0
<1>. SUFFICES Kept
  OBVIOUS
<1>. USE DEF WorkerStep, Alive, mainVars, globals
<1>1. CASE ReadStart
  BY <1>1 DEF ReadStart
<1>2. CASE Announce
  BY <1>2 DEF Announce
<1>3. CASE LoopDone
  BY <1>3 DEF LoopDone
<1>4. CASE LoopStopped
  BY <1>4 DEF LoopStopped
<1>5. CASE EnterStep
  BY <1>5 DEF EnterStep
<1>6. CASE SaveIndex
  BY <1>6 DEF SaveIndex
<1>7. CASE CheckMove
  BY <1>7 DEF CheckMove
<1>8. CASE BeginMove
  BY <1>8 DEF BeginMove
<1>9. CASE Answer
  BY <1>9 DEF Answer
<1>10. CASE MoveDone
  BY <1>10 DEF MoveDone
<1>11. CASE MoveRaises
  BY <1>11 DEF MoveRaises
<1>12. CASE BeginCall
  BY <1>12 DEF BeginCall
<1>13. CASE CallDone
  BY <1>13 DEF CallDone
<1>14. CASE CallRaises
  BY <1>14 DEF CallRaises
<1>15. CASE PartialReport
  BY <1>15 DEF PartialReport
<1>16. CASE Checkpoint
  BY <1>16 DEF Checkpoint
<1>17. CASE ReadBack
  BY <1>17 DEF ReadBack
<1>18. CASE ShareProgress
  BY <1>18 DEF ShareProgress
<1>19. CASE Interrupted
  BY <1>19 DEF Interrupted
<1>20. CASE MarkPaused
  BY <1>20 DEF MarkPaused
<1>21. CASE MarkError
  BY <1>21 DEF MarkError
<1>22. CASE Finally
  BY <1>22 DEF Finally
<1>23. CASE FinProgress
  BY <1>23 DEF FinProgress
<1>24. CASE FinFlag
  BY <1>24 DEF FinFlag
<1>25. CASE FinStatus
  BY <1>25 DEF FinStatus
<1>26. CASE ResetIndex
  BY <1>26 DEF ResetIndex
<1>27. CASE ResetActive
  BY <1>27 DEF ResetActive
<1>28. CASE ResetLatest
  BY <1>28 DEF ResetLatest
<1>29. CASE CallRefused
  BY <1>29 DEF CallRefused
<1>. QED BY <1>1, <1>2, <1>3, <1>4, <1>5, <1>6, <1>7, <1>8, <1>9, <1>10,
    <1>11, <1>12, <1>13, <1>14, <1>15, <1>16, <1>17, <1>18, <1>19, <1>20,
    <1>21, <1>22, <1>23, <1>24, <1>25, <1>26, <1>27, <1>28, <1>29
    DEF Worker, RunSteps, WindUp

(* Every step keeps the silence before the command.                        *)
LEMMA HearingStep ==
  ASSUME OneStep
  PROVE  HearingInv'
<1>. USE DEF Hearing, HearingInv, FirstInv, InCall, OneStep, PublishIInv,
      OneInv, TypeOK, ThreadInv, Alive, MainBusy, CallbackStep, MainStep,
      globals, shown, mainVars, workVars, cbVars, envVars
<1>1. ASSUME NEW c \in Commands, Send(c) PROVE HearingInv'
  BY <1>1, CommandsAssumption DEF Send
<1>2. ASSUME NEW t \in {"main", "worker"}, Receive(t) PROVE HearingInv'
  BY <1>2 DEF Receive, CanSpin, Branch, CanPause, CanResume
<1>3. CASE StoreActive
  BY <1>3 DEF StoreActive
<1>4. CASE StoreIndex
  BY <1>4 DEF StoreIndex
<1>5. CASE LoadActive
  BY <1>5 DEF LoadActive
<1>6. CASE StoreLatest
  BY <1>6 DEF StoreLatest
<1>7. CASE StorePause
  BY <1>7 DEF StorePause
<1>8. CASE Report
  BY <1>8 DEF Report, IsStart, IsContinue, RollerFrom, ClothFrom
<1>9. CASE StopMotion
  BY <1>9 DEF StopMotion
<1>10. CASE SpinOnce
  BY <1>10 DEF SpinOnce
<1>11. CASE ForcedPublish
  BY <1>11 DEF ForcedPublish
<1>12. CASE ClearFlag
  BY <1>12 DEF ClearFlag
<1>13. CASE Reap
  BY <1>13 DEF Reap
<1>14. CASE NothingToReap
  BY <1>14 DEF NothingToReap
<1>15. CASE ResetShown
  BY <1>15 DEF ResetShown
<1>16. CASE StartThread
  BY <1>16 DEF StartThread
<1>17. CASE NothingToStart
  BY <1>17 DEF NothingToStart
<1>18. CASE Exit
  BY <1>18 DEF Exit
<1>19. CASE Shutdown
  BY <1>19 DEF Shutdown
<1>20. CASE Worker
  BY <1>20, WorkerKeeps, AliveHeard
<1>21. CASE UNCHANGED vars
  BY <1>21, TableStable DEF vars, globals, shown, mainVars,
     workVars, cbVars, envVars
<1>. QED BY OneStepNext, <1>1, <1>2, <1>3, <1>4, <1>5, <1>6, <1>7, <1>8, <1>9,
    <1>10, <1>11, <1>12, <1>13, <1>14, <1>15, <1>16, <1>17, <1>18, <1>19,
    <1>20, <1>21
    DEF Callback, Main, Next

(* ... and the callback on its way.                                        *)
LEMMA FirstStep ==
  ASSUME OneStep
  PROVE  FirstInv'
<1>. USE DEF Hearing, HearingInv, FirstInv, InCall, Target, OneStep,
      PublishIInv, OneInv, TypeOK, ThreadInv, Alive, MainBusy, CallbackStep,
      MainStep, globals, shown, mainVars, workVars, cbVars, envVars
<1>1. ASSUME NEW c \in Commands, Send(c) PROVE FirstInv'
  BY <1>1 DEF Send
<1>2. ASSUME NEW t \in {"main", "worker"}, Receive(t) PROVE FirstInv'
  BY <1>2 DEF Receive, CanSpin, Branch, CanPause, CanResume
<1>3. CASE StoreActive
  BY <1>3 DEF StoreActive
<1>4. CASE StoreIndex
  BY <1>4 DEF StoreIndex
<1>5. CASE LoadActive
  BY <1>5 DEF LoadActive
<1>6. CASE StoreLatest
  BY <1>6 DEF StoreLatest
<1>7. CASE StorePause
  BY <1>7 DEF StorePause
<1>8. CASE Report
  BY <1>8 DEF Report, IsStart, IsContinue, RollerFrom, ClothFrom
<1>9. CASE StopMotion
  BY <1>9 DEF StopMotion
<1>10. CASE SpinOnce
  BY <1>10 DEF SpinOnce
<1>11. CASE ForcedPublish
  BY <1>11 DEF ForcedPublish
<1>12. CASE ClearFlag
  BY <1>12 DEF ClearFlag
<1>13. CASE Reap
  BY <1>13 DEF Reap
<1>14. CASE NothingToReap
  BY <1>14 DEF NothingToReap
<1>15. CASE ResetShown
  BY <1>15 DEF ResetShown
<1>16. CASE StartThread
  BY <1>16 DEF StartThread
<1>17. CASE NothingToStart
  BY <1>17 DEF NothingToStart
<1>18. CASE Exit
  BY <1>18 DEF Exit
<1>19. CASE Shutdown
  BY <1>19 DEF Shutdown
<1>20. CASE Worker
  BY <1>20, WorkerKeeps, AliveHeard
<1>21. CASE UNCHANGED vars
  BY <1>21, TableStable DEF vars, globals, shown, mainVars,
     workVars, cbVars, envVars
<1>. QED BY OneStepNext, <1>1, <1>2, <1>3, <1>4, <1>5, <1>6, <1>7, <1>8, <1>9,
    <1>10, <1>11, <1>12, <1>13, <1>14, <1>15, <1>16, <1>17, <1>18, <1>19,
    <1>20, <1>21
    DEF Callback, Main, Next

(* ... and the one worker.                                                 *)
LEMMA OnceStep ==
  ASSUME OneStep
  PROVE  OnceInv'
<1>. USE DEF OnceInv, Hearing, HearingInv, FirstInv, OneStep, PublishIInv,
      OneInv, TypeOK, ThreadInv, Alive, MainBusy, CallbackStep, MainStep,
      globals, shown, mainVars, workVars, cbVars, envVars
<1>1. ASSUME NEW c \in Commands, Send(c) PROVE OnceInv'
  BY <1>1 DEF Send
<1>2. ASSUME NEW t \in {"main", "worker"}, Receive(t) PROVE OnceInv'
  BY <1>2 DEF Receive, CanSpin
<1>3. CASE StoreActive
  BY <1>3 DEF StoreActive
<1>4. CASE StoreIndex
  BY <1>4 DEF StoreIndex
<1>5. CASE LoadActive
  BY <1>5 DEF LoadActive
<1>6. CASE StoreLatest
  BY <1>6 DEF StoreLatest
<1>7. CASE StorePause
  BY <1>7 DEF StorePause
<1>8. CASE Report
  <2>1. latest_cmd = Target(ccmd) /\ Target(ccmd) \in 1 .. 3
    BY <1>8 DEF Report, FirstInv, Target, IsStart
  <2>2. Len(Tasks[Target(ccmd)]) \in Nat /\ Len(Tasks[Target(ccmd)]) > 0
    BY <2>1, TaskLength
  <2>3. Percent(current_step_index, Len(Tasks[Target(ccmd)])) \in Nat
    BY <2>2, PercentType
  <2>4. shared_progress' <= Percent(current_step_index,
                                    Len(Tasks[Target(ccmd)]))
    BY <1>8, <2>3 DEF Report
  <2>. QED BY <1>8, <2>1, <2>4 DEF Report
<1>9. CASE StopMotion
  BY <1>9 DEF StopMotion
<1>10. CASE SpinOnce
  BY <1>10 DEF SpinOnce
<1>11. CASE ForcedPublish
  BY <1>11 DEF ForcedPublish
<1>12. CASE ClearFlag
  BY <1>12 DEF ClearFlag
<1>13. CASE Reap
  BY <1>13 DEF Reap
<1>14. CASE NothingToReap
  BY <1>14 DEF NothingToReap
<1>15. CASE ResetShown
  BY <1>15 DEF ResetShown
<1>16. CASE StartThread
  BY <1>16 DEF StartThread
<1>17. CASE NothingToStart
  BY <1>17 DEF NothingToStart
<1>18. CASE Exit
  BY <1>18 DEF Exit
<1>19. CASE Shutdown
  BY <1>19 DEF Shutdown
<1>20. CASE Worker
  BY <1>20, WorkerKeeps, AliveHeard
<1>21. CASE UNCHANGED vars
  BY <1>21, TableStable DEF vars, globals, shown, mainVars,
     workVars, cbVars, envVars
<1>. QED BY OneStepNext, <1>1, <1>2, <1>3, <1>4, <1>5, <1>6, <1>7, <1>8, <1>9,
    <1>10, <1>11, <1>12, <1>13, <1>14, <1>15, <1>16, <1>17, <1>18, <1>19,
    <1>20, <1>21
    DEF Callback, Main, Next

(* ... and the final publication.                                          *)
LEMMA OwedStep ==
  ASSUME OneStep
  PROVE  OwedInv'
<1>. USE DEF OwedInv, PublishInv, ResetPlaces, Over, OnceInv, Hearing,
      HearingInv, WorkerStep, OneStep, PublishIInv, OneInv, TypeOK, ThreadInv,
      Alive, MainBusy, CallbackStep, MainStep, globals, shown, mainVars,
      workVars, cbVars, envVars
<1>1. ASSUME NEW c \in Commands, Send(c) PROVE OwedInv'
  BY <1>1 DEF Send
<1>2. ASSUME NEW t \in {"main", "worker"}, Receive(t) PROVE OwedInv'
  BY <1>2 DEF Receive, CanSpin
<1>3. CASE StoreActive
  BY <1>3, AliveHeard DEF StoreActive
<1>4. CASE StoreIndex
  BY <1>4, AliveHeard DEF StoreIndex
<1>5. CASE LoadActive
  BY <1>5, AliveHeard DEF LoadActive
<1>6. CASE StoreLatest
  BY <1>6, AliveHeard DEF StoreLatest
<1>7. CASE StorePause
  BY <1>7, AliveHeard DEF StorePause
<1>8. CASE Report
  BY <1>8, AliveHeard DEF Report
<1>9. CASE StopMotion
  BY <1>9, AliveHeard DEF StopMotion
<1>10. CASE SpinOnce
  BY <1>10, AliveHeard DEF SpinOnce
<1>11. CASE ForcedPublish
  BY <1>11, AliveHeard DEF ForcedPublish
<1>12. CASE ClearFlag
  BY <1>12, AliveHeard DEF ClearFlag
<1>13. CASE Reap
  BY <1>13, AliveHeard DEF Reap
<1>14. CASE NothingToReap
  BY <1>14, AliveHeard DEF NothingToReap
<1>15. CASE ResetShown
  BY <1>15, AliveHeard DEF ResetShown
<1>16. CASE StartThread
  BY <1>16, AliveHeard DEF StartThread
<1>17. CASE NothingToStart
  BY <1>17, AliveHeard DEF NothingToStart
<1>18. CASE Exit
  BY <1>18, AliveHeard DEF Exit
<1>19. CASE Shutdown
  BY <1>19, AliveHeard DEF Shutdown
<1>20. CASE ReadStart
  BY <1>20, AliveHeard DEF ReadStart
<1>21. CASE Announce
  BY <1>21, AliveHeard DEF Announce
<1>22. CASE LoopDone
  BY <1>22, AliveHeard DEF LoopDone
<1>23. CASE LoopStopped
  BY <1>23, AliveHeard DEF LoopStopped
<1>24. CASE EnterStep
  BY <1>24, AliveHeard DEF EnterStep
<1>25. CASE SaveIndex
  BY <1>25, AliveHeard DEF SaveIndex
<1>26. CASE CheckMove
  BY <1>26, AliveHeard DEF CheckMove
<1>27. CASE BeginMove
  BY <1>27, AliveHeard DEF BeginMove
<1>28. CASE Answer
  BY <1>28, AliveHeard DEF Answer
<1>29. CASE MoveDone
  BY <1>29, AliveHeard DEF MoveDone
<1>30. CASE MoveRaises
  BY <1>30, AliveHeard DEF MoveRaises
<1>31. CASE BeginCall
  BY <1>31, AliveHeard DEF BeginCall
<1>32. CASE CallDone
  BY <1>32, AliveHeard DEF CallDone
<1>33. CASE CallRaises
  BY <1>33, AliveHeard DEF CallRaises
<1>34. CASE PartialReport
  BY <1>34, AliveHeard DEF PartialReport
<1>35. CASE Checkpoint
  BY <1>35, AliveHeard DEF Checkpoint
<1>36. CASE ReadBack
  BY <1>36, AliveHeard DEF ReadBack
<1>37. CASE ShareProgress
  BY <1>37, AliveHeard DEF ShareProgress
<1>38. CASE Interrupted
  BY <1>38, AliveHeard DEF Interrupted
<1>39. CASE MarkPaused
  BY <1>39, AliveHeard DEF MarkPaused
<1>40. CASE MarkError
  BY <1>40, AliveHeard DEF MarkError
<1>41. CASE Finally
  BY <1>41, AliveHeard DEF Finally
<1>42. CASE FinProgress
  BY <1>42, AliveHeard DEF FinProgress
<1>43. CASE FinFlag
  BY <1>43, AliveHeard DEF FinFlag
<1>44. CASE FinStatus
  BY <1>44, AliveHeard DEF FinStatus
<1>45. CASE ResetIndex
  BY <1>45, AliveHeard DEF ResetIndex
<1>46. CASE ResetActive
  BY <1>46, AliveHeard DEF ResetActive
<1>47. CASE ResetLatest
  BY <1>47, AliveHeard DEF ResetLatest
<1>48. CASE UNCHANGED vars
  BY <1>48, TableStable DEF vars, globals, shown, mainVars,
     workVars, cbVars, envVars
<1>49. CASE CallRefused
  BY <1>49, AliveHeard DEF CallRefused
<1>. QED BY OneStepNext, <1>1, <1>2, <1>3, <1>4, <1>5, <1>6, <1>7, <1>8, <1>9,
    <1>10, <1>11, <1>12, <1>13, <1>14, <1>15, <1>16, <1>17, <1>18, <1>19,
    <1>20, <1>21, <1>22, <1>23, <1>24, <1>25, <1>26, <1>27, <1>28, <1>29,
    <1>30, <1>31, <1>32, <1>33, <1>34, <1>35, <1>36, <1>37, <1>38, <1>39,
    <1>40, <1>41, <1>42, <1>43, <1>44, <1>45, <1>46, <1>47, <1>48, <1>49
    DEF Callback, Main, Next, Worker, RunSteps, WindUp

(* ... and the order of what the worker shares.                            *)
LEMMA RisingStep ==
  ASSUME OneStep
  PROVE  RisingInv'
<1>. USE DEF RisingInv, StepPlaces, Hearing, HearingInv, WorkerStep, PlaceInv,
      OneStep, PublishIInv, OneInv, TypeOK, ThreadInv, Alive, MainBusy,
      CallbackStep, MainStep, globals, shown, mainVars, workVars, cbVars,
      envVars
<1>1. ASSUME NEW c \in Commands, Send(c) PROVE RisingInv'
  BY <1>1 DEF Send
<1>2. ASSUME NEW t \in {"main", "worker"}, Receive(t) PROVE RisingInv'
  BY <1>2 DEF Receive, CanSpin
<1>3. CASE StoreActive
  BY <1>3, AliveHeard, TableStable DEF StoreActive
<1>4. CASE StoreIndex
  BY <1>4, AliveHeard, TableStable DEF StoreIndex
<1>5. CASE LoadActive
  BY <1>5, AliveHeard, TableStable DEF LoadActive
<1>6. CASE StoreLatest
  BY <1>6, AliveHeard, TableStable DEF StoreLatest
<1>7. CASE StorePause
  BY <1>7, AliveHeard, TableStable DEF StorePause
<1>8. CASE Report
  BY <1>8, AliveHeard, TableStable DEF Report
<1>9. CASE StopMotion
  BY <1>9, AliveHeard, TableStable DEF StopMotion
<1>10. CASE SpinOnce
  BY <1>10, AliveHeard, TableStable DEF SpinOnce
<1>11. CASE ForcedPublish
  BY <1>11, AliveHeard, TableStable DEF ForcedPublish
<1>12. CASE ClearFlag
  BY <1>12, AliveHeard, TableStable DEF ClearFlag
<1>13. CASE Reap
  BY <1>13, AliveHeard, TableStable DEF Reap
<1>14. CASE NothingToReap
  BY <1>14, AliveHeard, TableStable DEF NothingToReap
<1>15. CASE ResetShown
  BY <1>15, AliveHeard, TableStable DEF ResetShown
<1>16. CASE StartThread
  <2>1. cpc = "idle"
    BY <1>16 DEF StartThread, FirstInv
  <2>2. wpc' = "init" /\ Total' = Len(Tasks[latest_cmd])
    BY <1>16 DEF StartThread, Total
  <2>. QED BY <1>16, <2>1, <2>2 DEF StartThread, OnceInv
<1>17. CASE NothingToStart
  BY <1>17, AliveHeard, TableStable DEF NothingToStart
<1>18. CASE Exit
  BY <1>18, AliveHeard, TableStable DEF Exit
<1>19. CASE Shutdown
  BY <1>19, AliveHeard, TableStable DEF Shutdown
<1>20. CASE ReadStart
  BY <1>20, AliveHeard, TableStable DEF ReadStart
<1>21. CASE Announce
  BY <1>21, AliveHeard, TableStable DEF Announce
<1>22. CASE LoopDone
  BY <1>22, AliveHeard, TableStable DEF LoopDone
<1>23. CASE LoopStopped
  BY <1>23, AliveHeard, TableStable DEF LoopStopped
<1>24. CASE EnterStep
  <2>1. Total \in Nat /\ Total > 0
    BY TaskLength DEF Total
  <2>2. Percent(wi, Total) <= Percent(wi + 1, Total)
    BY <2>1, PercentRises
  <2>3. /\ Percent(wi, Total) \in Nat /\ Percent(wi + 1, Total) \in Nat
        /\ shared_progress \in Nat
    <3>1. wi \in Nat /\ wi + 1 \in Nat
      OBVIOUS
    <3>. QED BY <2>1, <3>1, PercentType
  <2>4. shared_progress <= Percent(wi, Total)
    BY <1>24 DEF EnterStep
  <2>5. shared_progress <= Percent(wi + 1, Total)
    BY <2>2, <2>3, <2>4
  <2>6. ASSUME NEW j \in 1 .. Len(Calls), Calls[j].kind = "partial"
        PROVE  shared_progress <= Percent(wi * LoopCount + Calls[j].a,
                                          Total * LoopCount)
    <3>1. Calls[j].a \in Nat /\ Calls[j].a <= LoopCount
      BY <1>24, <2>6, PartialOf DEF EnterStep
    <3>. DEFINE p == Percent(wi * LoopCount + Calls[j].a, Total * LoopCount)
    <3>2. Percent(wi, Total) <= p
      BY <2>1, <3>1, ShareMore
    <3>3. p \in Nat
      BY <2>1, <3>1, ShareType
    <3>. HIDE DEF p
    <3>4. shared_progress <= p
      BY <2>3, <2>4, <3>2, <3>3
    <3>. QED BY <3>4 DEF p
  <2>. QED BY <1>24, <2>5, <2>6, TableStable DEF EnterStep
<1>25. CASE SaveIndex
  BY <1>25, AliveHeard, TableStable DEF SaveIndex
<1>26. CASE CheckMove
  BY <1>26, AliveHeard, TableStable DEF CheckMove
<1>27. CASE BeginMove
  BY <1>27, AliveHeard, TableStable DEF BeginMove
<1>28. CASE Answer
  BY <1>28, AliveHeard, TableStable DEF Answer
<1>29. CASE MoveDone
  BY <1>29, AliveHeard, TableStable DEF MoveDone
<1>30. CASE MoveRaises
  BY <1>30, AliveHeard, TableStable DEF MoveRaises
<1>31. CASE BeginCall
  BY <1>31, AliveHeard, TableStable DEF BeginCall
<1>32. CASE CallDone
  BY <1>32, AliveHeard, TableStable DEF CallDone
<1>33. CASE CallRaises
  BY <1>33, AliveHeard, TableStable DEF CallRaises
<1>34. CASE PartialReport
  <2>1. Total \in Nat /\ Total > 0
    BY TaskLength DEF Total
  <2>2. wk \in 1 .. Len(Calls) /\ Calls[wk].kind = "partial" /\ wi < Total
    BY <1>34, TableType DEF PartialReport, Call
  <2>3. Calls[wk].a \in Nat /\ Calls[wk].a <= LoopCount
    BY <2>2, PartialOf
  <2>4. shared_progress' = Percent(wi * LoopCount + Calls[wk].a,
                                   Total * LoopCount)
    BY <1>34 DEF PartialReport, Call
  <2>5. shared_progress' <= Percent(wi + 1, Total)
    BY <2>1, <2>3, <2>4, ShareLess
  <2>6. ASSUME NEW j \in 1 .. Len(Calls), j >= wk, Calls[j].kind = "partial"
        PROVE  shared_progress' <= Percent(wi * LoopCount + Calls[j].a,
                                           Total * LoopCount)
    <3>1. Calls[j].a \in Nat
      BY <2>2, <2>6, PartialOf
    <3>2. Calls[wk].a <= Calls[j].a
      BY <2>2, <2>6, Ascending
    <3>. QED BY <2>1, <2>3, <2>4, <3>1, <3>2, ShareRises
  <2>7. wpc' = "call" /\ wk' = wk + 1 /\ wi' = wi
        /\ current_step_index' = current_step_index /\ current_step_index = wi
    BY <1>34 DEF PartialReport
  <2>8. Total' = Total /\ Calls' = Calls
    BY <1>34, TableStable DEF PartialReport
  <2>9. \A j \in 1 .. Len(Calls') :
          j >= wk' /\ Calls'[j].kind = "partial"
            => shared_progress' <= Percent(wi' * LoopCount + Calls'[j].a,
                                           Total' * LoopCount)
    BY <2>6, <2>7, <2>8
  <2>. QED BY <2>5, <2>7, <2>8, <2>9
<1>35. CASE Checkpoint
  BY <1>35, AliveHeard, TableStable DEF Checkpoint
<1>36. CASE ReadBack
  BY <1>36, AliveHeard, TableStable DEF ReadBack
<1>37. CASE ShareProgress
  <2>1. Total \in Nat /\ Total > 0
    BY TaskLength DEF Total
  <2>2. shared_progress' = Percent(wi + 1, Total) /\ wi + 1 \in Nat
    BY <1>37 DEF ShareProgress
  <2>3. Percent(wi + 1, Total) \in Nat
    BY <2>1, <2>2, PercentType
  <2>4. Total' = Total
    BY <1>37, TableStable DEF ShareProgress
  <2>. QED BY <1>37, <2>2, <2>3, <2>4 DEF ShareProgress
<1>38. CASE Interrupted
  BY <1>38, AliveHeard, TableStable DEF Interrupted
<1>39. CASE MarkPaused
  BY <1>39, AliveHeard, TableStable DEF MarkPaused
<1>40. CASE MarkError
  BY <1>40, AliveHeard, TableStable DEF MarkError
<1>41. CASE Finally
  BY <1>41, AliveHeard, TableStable DEF Finally
<1>42. CASE FinProgress
  BY <1>42, AliveHeard, TableStable DEF FinProgress
<1>43. CASE FinFlag
  BY <1>43, AliveHeard, TableStable DEF FinFlag
<1>44. CASE FinStatus
  BY <1>44, AliveHeard, TableStable DEF FinStatus
<1>45. CASE ResetIndex
  BY <1>45, AliveHeard, TableStable DEF ResetIndex
<1>46. CASE ResetActive
  BY <1>46, AliveHeard, TableStable DEF ResetActive
<1>47. CASE ResetLatest
  BY <1>47, AliveHeard, TableStable DEF ResetLatest
<1>48. CASE UNCHANGED vars
  BY <1>48, TableStable DEF vars, globals, shown, mainVars,
     workVars, cbVars, envVars
<1>49. CASE CallRefused
  BY <1>49, AliveHeard, TableStable DEF CallRefused
<1>. QED BY OneStepNext, <1>1, <1>2, <1>3, <1>4, <1>5, <1>6, <1>7, <1>8, <1>9,
    <1>10, <1>11, <1>12, <1>13, <1>14, <1>15, <1>16, <1>17, <1>18, <1>19,
    <1>20, <1>21, <1>22, <1>23, <1>24, <1>25, <1>26, <1>27, <1>28, <1>29,
    <1>30, <1>31, <1>32, <1>33, <1>34, <1>35, <1>36, <1>37, <1>38, <1>39,
    <1>40, <1>41, <1>42, <1>43, <1>44, <1>45, <1>46, <1>47, <1>48, <1>49
    DEF Callback, Main, Next, Worker, RunSteps, WindUp

-----------------------------------------------------------------------------
(* What the next worker shares of the table is no less than before.        *)
LEMMA WorkerRises ==
  ASSUME OneStep, Worker
  PROVE  /\ shared_progress' \in Nat
         /\ ClampPercent(shared_progress) <= ClampPercent(shared_progress')
<1>1. shared_progress \in Nat /\ shared_progress' \in Nat
  BY TypeStep DEF OneStep, PublishIInv, TypeOK
<1>2. ~(PartialReport \/ ShareProgress \/ FinProgress)
        => shared_progress' = shared_progress
  BY DEF Worker, RunSteps, WindUp, ReadStart, Announce, LoopDone, LoopStopped,
     EnterStep, SaveIndex, CheckMove, BeginMove, Answer, MoveDone, MoveRaises,
     BeginCall, CallDone, CallRefused, CallRaises, Checkpoint, ReadBack,
     Interrupted, MarkPaused, MarkError, Finally, FinFlag, FinStatus,
     ResetIndex, ResetActive, ResetLatest, shown
<1>3. CASE FinProgress
  BY <1>1, <1>3, ClampRises DEF FinProgress, ClampPercent
<1>4. CASE PartialReport
  <2>1. wk \in 1 .. Len(Calls) /\ Calls[wk].kind = "partial"
    BY <1>4, TableType DEF PartialReport, Call, OneStep, PublishIInv, TypeOK,
       PlaceInv, WorkerStep, StepPlaces
  <2>2. /\ wpc = "call" /\ RisingInv /\ wk >= wk
        /\ shared_progress' = Percent(current_step_index * LoopCount
                                        + Calls[wk].a, Total * LoopCount)
    BY <1>4 DEF PartialReport, WorkerStep, Call, OneStep, OneInv, PublishIInv,
       TypeOK
  <2>3. shared_progress <= shared_progress'
    BY <2>1, <2>2 DEF RisingInv, StepPlaces
  <2>. QED BY <1>1, <2>3, ClampRises
<1>5. CASE ShareProgress
  <2>1. shared_progress <= shared_progress'
    BY <1>5 DEF ShareProgress, WorkerStep, OneStep, OneInv, RisingInv
  <2>. QED BY <1>1, <2>1, ClampRises
<1>. QED BY <1>1, <1>2, <1>3, <1>4, <1>5, ClampRises

(* Once the command has been heard, what is shared never falls but when all*)
(* is over; and then it is over for good.                                  *)
LEMMA SharedRises ==
  ASSUME OneStep, ~Hearing
  PROVE  /\ ~Hearing'
         /\ Over => Over'
         /\ \/ ClampPercent(shared_progress) <= ClampPercent(shared_progress')
            \/ Over'
<1>. DEFINE Rises ==
  /\ ~Hearing'
  /\ Over => Over'
  /\ \/ ClampPercent(shared_progress) <= ClampPercent(shared_progress')
     \/ Over'
<1>. SUFFICES Rises
  OBVIOUS
<1>1. sent = 1 /\ inbox = NoCmd /\ cpc = "idle"
  BY DEF OneStep, PublishIInv, TypeOK, Hearing
<1>2. \A n \in Nat : ClampPercent(n) <= ClampPercent(n)
  BY ClampRises
<1>3. shared_progress \in Nat
  BY DEF OneStep, PublishIInv, TypeOK
<1>4. CASE Worker
  BY <1>1, <1>4, WorkerKeeps, WorkerRises, AliveHeard DEF Hearing, cbVars
<1>5. CASE (Main \/ Shutdown) /\ ~ResetShown
  <2>1. UNCHANGED <<shared_progress, shared_status, latest_cmd, inbox, sent,
                    cpc>>
    BY <1>5 DEF Main, Shutdown, SpinOnce, ForcedPublish, ClearFlag, Reap,
       NothingToReap, StartThread, NothingToStart, Exit, MainStep, shown,
       globals, cbVars, envVars
  <2>2. latest_cmd = 0 /\ ~task_thread => ~task_thread'
    BY <1>5 DEF Main, Shutdown, SpinOnce, ForcedPublish, ClearFlag, Reap,
       NothingToReap, StartThread, NothingToStart, Exit, MainStep
  <2>. QED BY <1>1, <1>2, <1>3, <2>1, <2>2 DEF Hearing, Over
<1>6. CASE ResetShown
  BY <1>1, <1>6 DEF ResetShown, MainStep, Over, Hearing, OneStep, OneInv,
     OnceInv, globals, cbVars, envVars
<1>7. CASE UNCHANGED vars
  BY <1>1, <1>2, <1>3, <1>7 DEF vars, globals, shown, mainVars, cbVars,
     envVars, Hearing, Over
<1>8. ~\E c \in Commands : Send(c)
  BY <1>1 DEF Send, OneStep
<1>9. ~\E t \in {"main", "worker"} : Receive(t)
  BY <1>1 DEF Receive
<1>10. ~Callback
  BY <1>1 DEF Callback, CallbackStep, StoreActive, StoreIndex, LoadActive,
     StoreLatest, StorePause, Report, StopMotion
<1>. QED BY <1>4, <1>5, <1>6, <1>7, <1>8, <1>9, <1>10, OneStepNext DEF Next

(* OneInv is inductive up to the first command.                            *)
LEMMA OneInductive ==
  ASSUME OneStep
  PROVE  OneInv'
BY HearingStep, FirstStep, OnceStep, OwedStep, RisingStep DEF OneInv

-----------------------------------------------------------------------------
(* The panel's actions are steps of the controller or leave it alone.      *)
LEMMA PanelSteps ==
  ASSUME PublishIInv, [PanelNext]_panelVars
  PROVE  [Next]_vars /\ sent \in Nat /\ sent' \in Nat /\ sent <= sent'
<1>1. [Next]_vars
  <2>1. CASE Click
    <3>1. PICK c : Send(c)
      BY <2>1 DEF Click, on_start_clicked, on_start_continue_clicked,
         on_estop_clicked
    <3>2. c \in Commands
      BY <2>1, <3>1 DEF Click, Send
    <3>. QED BY <3>1, <3>2 DEF Next
  <2>2. CASE Controller
    BY <2>2 DEF Controller, Next
  <2>3. CASE Panel
    BY <2>3 DEF Panel, progress_callback, status_callback
  <2>4. CASE \E t \in {"main", "worker"} : progress_timer_callback(t)
    BY <2>4 DEF progress_timer_callback
  <2>5. CASE UNCHANGED panelVars
    BY <2>5 DEF panelVars
  <2>. QED BY <2>1, <2>2, <2>3, <2>4, <2>5 DEF PanelNext
<1>2. sent' \in {sent, sent + 1}
  <2>1. CASE Main \/ Shutdown
    BY <2>1 DEF Main, Shutdown, SpinOnce, ForcedPublish, ClearFlag, Reap,
       NothingToReap, ResetShown, StartThread, NothingToStart, Exit, MainStep,
       envVars
  <2>2. CASE Callback
    BY <2>2 DEF Callback, StoreActive, StoreIndex, LoadActive, StoreLatest,
       StorePause, Report, StopMotion, CallbackStep, envVars
  <2>3. CASE Worker
    BY <2>3, WorkerKeeps
  <2>4. CASE \/ \E c \in Commands : Send(c)
             \/ \E t \in {"main", "worker"} : Receive(t)
    BY <2>4 DEF Send, Receive
  <2>5. CASE UNCHANGED vars
    BY <2>5 DEF vars, envVars
  <2>. QED BY <1>1, <2>1, <2>2, <2>3, <2>4, <2>5 DEF Next
<1>. QED BY <1>1, <1>2 DEF PublishIInv, TypeOK

(* While the timer may publish, the panel has nothing more than is shared. *)
LEMMA TimerInOrder ==
  ASSUME PublishIInv, OneInv, OrderInv,
         TimerGuard(shared_progress, shared_status)
  PROVE  ~Hearing /\ ~Over /\ Level <= ClampPercent(shared_progress)
BY DEF TimerGuard, OneInv, HearingInv, OrderInv, Over

(* Every step keeps the messages under way in order.                       *)
LEMMA OrderStep ==
  ASSUME PublishIInv, OneInv, OrderInv, sent' <= 1, [PanelNext]_panelVars,
         sent <= 1
  PROVE  OrderInv'
<1>1. OneStep
  BY PanelSteps DEF OneStep
<1>2. shared_progress \in Nat /\ shared_progress' \in Nat
  BY PanelSteps, TypeStep DEF PublishIInv, TypeOK
<1>3. /\ ClampPercent(shared_progress) \in 0 .. 100
      /\ ClampPercent(shared_progress') \in 0 .. 100
      /\ ClampPercent(100) = 100 /\ 100 \in Nat
  BY <1>2, ClampRises
<1>4. /\ Level \in 0 .. 100 /\ progress_value \in 0 .. 100
      /\ progress_value <= Level
  BY ClampRises DEF Level, OrderInv
<1>5. CASE Hearing' /\ ~Hearing
  BY <1>1, <1>5, SharedRises
<1>6. CASE UNCHANGED <<topics, panel>> /\ (Hearing' => Hearing)
  <2>1. Level' = Level /\ UNCHANGED <<progress_value, progressTopic>>
    BY <1>6 DEF Level, topics, panel
  <2>2. CASE Hearing
    <3>1. Level = 0
      BY <2>2 DEF OrderInv
    <3>. QED BY <1>3, <1>4, <2>1, <3>1 DEF OrderInv
  <2>3. CASE ~Hearing
    <3>1. Over => Over'
      BY <1>1, <2>3, SharedRises
    <3>2. \/ ClampPercent(shared_progress) <= ClampPercent(shared_progress')
          \/ Over'
      BY <1>1, <2>3, SharedRises
    <3>3. Level <= ClampPercent(shared_progress') \/ Over'
      BY <1>3, <1>4, <3>1, <3>2 DEF OrderInv
    <3>. QED BY <1>6, <2>1, <2>3, <3>3 DEF OrderInv
  <2>. QED BY <2>2, <2>3
<1>7. CASE Controller /\ mpc = "publish" /\ mpc' = "clear"
  <2>1. progressTopic' = 100 /\ progress_value' = progress_value
    BY <1>7 DEF Controller, panel
  <2>2. Level' = 100
    BY <1>3, <2>1 DEF Level, NoCmd
  <2>3. ~Hearing
    BY <1>7 DEF OneInv, HearingInv
  <2>4. shared_progress = 100 \/ Over
    BY <1>7 DEF OneInv, OwedInv
  <2>5. ~Hearing' /\ (Over => Over')
    BY <1>1, <2>3, SharedRises
  <2>6. \/ ClampPercent(shared_progress) <= ClampPercent(shared_progress')
        \/ Over'
    BY <1>1, <2>3, SharedRises
  <2>7. 100 <= ClampPercent(shared_progress') \/ Over'
    BY <1>3, <2>4, <2>5, <2>6
  <2>. QED BY <1>3, <1>4, <2>1, <2>2, <2>5, <2>7 DEF OrderInv
<1>8. CASE Controller /\ ~(mpc = "publish" /\ mpc' = "clear")
  <2>1. UNCHANGED <<topics, panel>>
    BY <1>8 DEF Controller
  <2>. QED BY <1>5, <1>6, <2>1
<1>9. CASE Click
  <2>1. UNCHANGED <<topics, panel>>
    BY <1>9 DEF Click
  <2>. QED BY <1>5, <1>6, <2>1
<1>10. CASE progress_callback
  <2>1. /\ progressTopic' = NoCmd
        /\ progress_value' = ClampPercent(progressTopic)
        /\ UNCHANGED vars /\ progressTopic # NoCmd
    BY <1>10 DEF progress_callback
  <2>2. progress_value' = Level /\ Level' = Level
    BY <2>1 DEF Level
  <2>3. /\ Hearing' = Hearing /\ Over' = Over
        /\ shared_progress' = shared_progress
    BY <2>1 DEF vars, Hearing, Over, envVars, cbVars, mainVars, shown, globals
  <2>. QED BY <1>4, <2>1, <2>2, <2>3 DEF OrderInv
<1>11. CASE status_callback \/ UNCHANGED panelVars
  <2>1. /\ UNCHANGED <<progressTopic, progress_value>> /\ UNCHANGED vars
    BY <1>11 DEF status_callback, panelVars, topics, panel
  <2>2. /\ Hearing' = Hearing /\ Over' = Over /\ Level' = Level
        /\ shared_progress' = shared_progress
    BY <2>1 DEF vars, Hearing, Over, Level, envVars, cbVars, mainVars, shown,
       globals
  <2>. QED BY <2>1, <2>2 DEF OrderInv
<1>12. CASE \E t \in {"main", "worker"} : progress_timer_callback(t)
  <2>1. /\ progressTopic' = shared_progress /\ UNCHANGED vars
        /\ progress_value' = progress_value
        /\ TimerGuard(shared_progress, shared_status)
    BY <1>12 DEF progress_timer_callback, panel
  <2>2. ~Hearing /\ ~Over /\ Level <= ClampPercent(shared_progress)
    BY <2>1, TimerInOrder
  <2>3. /\ Hearing' = Hearing /\ shared_progress' = shared_progress
    BY <2>1 DEF vars, Hearing, envVars, cbVars, shown
  <2>4. Level' = ClampPercent(shared_progress)
    BY <1>2, <2>1 DEF Level, NoCmd
  <2>. QED BY <1>2, <1>3, <1>4, <2>1, <2>2, <2>3, <2>4 DEF OrderInv
<1>. QED BY <1>7, <1>8, <1>9, <1>10, <1>11, <1>12 DEF PanelNext, Panel

(* The strengthening holds at the start ...                                *)
LEMMA GrowsInit ==
  ASSUME PanelInit
  PROVE  GrowsIInv
<1>1. Init /\ PublishIInv
  BY InitInv DEF PanelInit
<1>2. OneInv
  BY <1>1 DEF Init, OneInv, HearingInv, FirstInv, OnceInv, OwedInv, RisingInv,
     Hearing, StepPlaces, NoCmd
<1>3. progressTopic = NoCmd /\ progress_value = 0
  BY DEF PanelInit
<1>4. shared_progress = 0
  BY <1>1 DEF Init
<1>5. Level = 0 /\ ClampPercent(0) = 0
  BY <1>3 DEF Level, ClampPercent
<1>6. OrderInv
  BY <1>3, <1>4, <1>5 DEF OrderInv
<1>. QED BY <1>1, <1>2, <1>6 DEF GrowsIInv

(* ... and after every step of controller and panel.                       *)
LEMMA GrowsStep ==
  ASSUME GrowsIInv, [PanelNext]_panelVars
  PROVE  GrowsIInv'
<1>1. PublishIInv /\ [Next]_vars
  BY PanelSteps DEF GrowsIInv
<1>2. PublishIInv'
  BY <1>1, TypeStep, ThreadStep, PublishStep DEF PublishIInv
<1>3. ASSUME sent' <= 1
      PROVE  OneInv' /\ OrderInv'
  <2>1. sent <= 1
    BY <1>1, <1>3, PanelSteps
  <2>2. OneInv /\ OrderInv
    BY <2>1 DEF GrowsIInv
  <2>3. OneStep
    BY <1>1, <1>3, <2>1, <2>2 DEF OneStep
  <2>. QED BY <1>1, <1>3, <2>1, <2>2, <2>3, OneInductive, OrderStep
<1>. QED BY <1>2, <1>3 DEF GrowsIInv

(* The operator of one command sees its progress only grow, whichever task *)
(* is started or continued, whatever fails, and however late the timer, the*)
(* forced publication (L454-L459), the reset (L467-L470) and the panel's   *)
(* own callback come.                                                      *)
THEOREM ProgressGrows == PanelSpec => ShownProgressGrows
<1>1. PanelInit => GrowsIInv
  BY GrowsInit
<1>2. GrowsIInv /\ [PanelNext]_panelVars => GrowsIInv'
  BY GrowsStep
<1>3. GrowsIInv /\ [PanelNext]_panelVars
        => [sent <= 1 => progress_value' >= progress_value]_panelVars
  <2>. SUFFICES ASSUME GrowsIInv, [PanelNext]_panelVars, sent <= 1
                PROVE  progress_value' >= progress_value
    OBVIOUS
  <2>1. OrderInv
    BY DEF GrowsIInv
  <2>2. CASE progress_callback
    <3>1. progress_value' = Level
      BY <2>2 DEF progress_callback, Level
    <3>. QED BY <2>1, <3>1, ClampRises DEF OrderInv, Level
  <2>3. progress_value' = progress_value \/ progress_callback
    BY DEF PanelNext, Panel, Click, Controller, status_callback,
       progress_timer_callback, panel, panelVars
  <2>. QED BY <2>1, <2>2, <2>3 DEF OrderInv
<1>. QED BY <1>1, <1>2, <1>3, PTL DEF PanelSpec, ShownProgressGrows
=============================================================================
