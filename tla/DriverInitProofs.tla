--------------------------- MODULE DriverInitProofs ---------------------------
(***************************************************************************)
(* Proofs about DriverInit, for all numbers of attempts and all bounds.    *)
(* What the driver believes is compared with the robot through the news    *)
(* that is still on its way: the last notification about the authority in  *)
(* the queue tells who holds it, the last one about the state whether the  *)
(* robot stands by, and before the callbacks are set nothing is believed.  *)
(***************************************************************************)
EXTENDS DriverInit, TLAPS

Loop == {"access", "standby", "access again", "standby again"}

(* The loops end in time.                                                  *)
Retries ==
  /\ pc = "connect" => tries < ConnectTries
  /\ pc = "callbacks" => tries = 0
  /\ pc \in Loop => tries < GrantTries

Deaf == ~Registered => ~access /\ ~standby /\ library = "idle"

(* A notification no contrary one follows is true of the robot.            *)
Last(yes, no, i) ==
  events[i] = yes /\ \A j \in 1 .. Len(events) : j > i => events[j] # no
GrantNews == \A i \in 1 .. Len(events) :
  Last("grant", "loss", i) => holder = "driver"
StandbyNews == \A i \in 1 .. Len(events) :
  Last("standby", "off", i) => state = "standby"

NeverTaken == changes = 0 => ~Pending({"loss"})

Inv == /\ TypeOK /\ Retries /\ Deaf
       /\ GrantNews /\ AccessIsAuthority
       /\ StandbyNews /\ StandbyIsState
       /\ NeverTaken /\ ReadyHasAuthority

-----------------------------------------------------------------------------
(* Initially every part holds: there are no news and no beliefs.           *)
LEMMA InitInv == Init => Inv
<1> SUFFICES ASSUME Init PROVE Inv
  OBVIOUS
<1> USE DriverAssumption DEF Init
<1>1. events = <<>> /\ Len(events) = 0
  OBVIOUS
<1>2. TypeOK
  <2>1. tries \in 0 .. ConnectTries + GrantTries /\ changes \in 0 .. MaxChanges
    OBVIOUS
  <2>2. events \in Seq({"grant", "loss", "standby", "off"}) /\ Len(events) <= MaxEvents
    BY <1>1
  <2> QED
    BY <2>1, <2>2 DEF TypeOK, Places
<1>3. Retries /\ Deaf
  BY DEF Retries, Loop, Deaf, Registered
<1>4. GrantNews /\ AccessIsAuthority /\ StandbyNews /\ StandbyIsState
  BY <1>1 DEF GrantNews, StandbyNews, AccessIsAuthority, StandbyIsState
<1>5. NeverTaken /\ ReadyHasAuthority
  BY <1>1 DEF NeverTaken, ReadyHasAuthority, Pending
<1> QED
  BY <1>2, <1>3, <1>4, <1>5 DEF Inv

(* Steps that leave the queue, the robot and the beliefs alone keep all    *)
(* that is said about them.                                                *)
LEMMA Quiet ==
  ASSUME Inv, UNCHANGED <<access, standby, events, holder, state, changes>>
  PROVE  /\ GrantNews' /\ AccessIsAuthority' /\ StandbyNews' /\ StandbyIsState'
         /\ NeverTaken'
BY DEF Inv, GrantNews, StandbyNews, Last, AccessIsAuthority, StandbyIsState,
       NeverTaken, Pending

(* Adding a notification that is true of the robot from now on.            *)
LEMMA Reported ==
  ASSUME Inv, NEW e \in {"grant", "loss", "standby", "off"}, Report(e),
         UNCHANGED <<access, standby>>
  PROVE  /\ events' \in Seq({"grant", "loss", "standby", "off"})
         /\ Len(events') = Len(events) + 1
         /\ \A i \in 1 .. Len(events) : events'[i] = events[i]
         /\ events'[Len(events) + 1] = e
BY DEF Inv, TypeOK, Report

(* Taking the first notification shifts the others.                        *)
LEMMA Shifted ==
  ASSUME Inv, Taken
  PROVE  /\ Len(events) \in Nat \ {0}
         /\ events' \in Seq({"grant", "loss", "standby", "off"})
         /\ Len(events') = Len(events) - 1
         /\ \A i \in 1 .. Len(events') : events'[i] = events[i + 1]
         /\ Head(events) = events[1]
         /\ Head(events) \in {"grant", "loss", "standby", "off"}
BY DEF Inv, TypeOK, Taken

-----------------------------------------------------------------------------
(* A loop counter below its limit, one round later.                        *)
LEMMA OneMore ==
  ASSUME NEW limit \in {ConnectTries, GrantTries}, tries \in Nat, tries < limit,
         tries' = tries + 1
  PROVE  /\ tries' \in 0 .. ConnectTries + GrantTries
         /\ tries' # limit => tries' < limit
BY DriverAssumption

(* In a round of the loop for authority and standby.                       *)
LEMMA InRound ==
  ASSUME Inv, pc \in Loop
  PROVE  tries \in Nat /\ tries < GrantTries
BY DriverAssumption DEF Inv, TypeOK, Retries

(* The steps of on_init: the robot is asked but does not answer yet.       *)
LEMMA OnInitStep ==
  ASSUME Inv, OnInit
  PROVE  Inv'
<1> USE DriverAssumption
<1>a. tries \in 0 .. ConnectTries + GrantTries /\ Retries
  BY DEF Inv, TypeOK
<1>1. CASE ReadStandby
  <2>1. /\ pc = "standby" /\ pc' \in {"access", "last access", "access again"}
        /\ pc' \in {"access", "access again"} => tries' < GrantTries
    <3>1. tries \in Nat /\ tries < GrantTries
      BY <1>1, InRound DEF ReadStandby, Loop
    <3>2. CASE standby
      BY <1>1, <3>1, <3>2 DEF ReadStandby, Goto
    <3>3. CASE ~standby
      <4>1. tries' # GrantTries => tries' < GrantTries
        BY <1>1, <3>1, <3>3, OneMore DEF ReadStandby
      <4> QED
        BY <1>1, <3>3, <4>1 DEF ReadStandby
    <3> QED
      BY <3>2, <3>3
  <2>2. UNCHANGED <<access, standby, library, holder, asked, changes, idle,
                    safety, overlapped>>
    BY <1>1 DEF ReadStandby, Goto, bools, robot, cycles
  <2>3. state' \in {"booting", "standby", "off"}
    BY <1>1 DEF Inv, TypeOK, ReadStandby, Goto, robot
  <2>4. events' \in Seq({"grant", "loss", "standby", "off"})
        /\ Len(events') <= MaxEvents
    <3>1. CASE events' = events
      BY <3>1 DEF Inv, TypeOK
    <3>2. CASE Report("standby") /\ Len(events) < MaxEvents
      <4>1. Len(events) \in Nat
        BY DEF Inv, TypeOK
      <4>2. /\ events' \in Seq({"grant", "loss", "standby", "off"})
            /\ Len(events') = Len(events) + 1
        BY <3>2, <2>2, Reported
      <4> QED
        BY <3>2, <4>1, <4>2
    <3>3. events' = events \/ (Report("standby") /\ Len(events) < MaxEvents)
      BY <1>1 DEF ReadStandby, Goto
    <3> QED
      BY <3>1, <3>2, <3>3
  <2>5. tries' \in 0 .. ConnectTries + GrantTries
    <3>1. tries \in Nat /\ tries < GrantTries
      BY <1>1, InRound DEF ReadStandby, Loop
    <3>2. tries' = tries \/ tries' = tries + 1
      BY <1>1 DEF ReadStandby, Goto
    <3> QED
      BY <1>a, <3>1, <3>2, OneMore
  <2>6. TypeOK'
    <3>1. pc' \in Places
      BY <2>1 DEF Places
    <3>2. TypeOK
      BY DEF Inv
    <3> QED
      BY <2>2, <2>3, <2>4, <2>5, <3>1, <3>2 DEF TypeOK
  <2>7. Retries' /\ Deaf'
    BY <2>1, <2>2 DEF Inv, Retries, Loop, Deaf, Registered
  <2>8. GrantNews' /\ AccessIsAuthority' /\ StandbyNews' /\ StandbyIsState'
        /\ NeverTaken'
    <3>1. CASE UNCHANGED <<state, events>>
      BY <2>2, <3>1, Quiet
    <3>2. CASE state' = "standby" /\ Report("standby") /\ ~standby
               /\ UNCHANGED <<access, standby, holder, changes>>
      <4>1. /\ Len(events') = Len(events) + 1
            /\ \A i \in 1 .. Len(events) : events'[i] = events[i]
            /\ events'[Len(events) + 1] = "standby"
            /\ Len(events) \in Nat
        BY <3>2, Reported DEF Inv, TypeOK
      <4>2. GrantNews'
        BY <3>2, <4>1 DEF Inv, GrantNews, Last
      <4>3. AccessIsAuthority'
        BY <3>2, <4>1 DEF Inv, AccessIsAuthority, Pending
      <4>4. StandbyNews' /\ StandbyIsState'
        BY <3>2 DEF StandbyNews, StandbyIsState
      <4>5. NeverTaken'
        BY <3>2, <4>1 DEF Inv, NeverTaken, Pending
      <4> QED
        BY <4>2, <4>3, <4>4, <4>5
    <3> QED
      BY <1>1, <3>1, <3>2 DEF ReadStandby, Goto, bools, robot, cycles
  <2>9. ReadyHasAuthority'
    BY <2>1 DEF ReadyHasAuthority
  <2> QED
    BY <2>6, <2>7, <2>8, <2>9 DEF Inv
<1>2. CASE ~ReadStandby
  <2> USE <1>2
  <2>1. UNCHANGED <<access, standby, library, events, holder, state, changes>>
    BY DEF OnInit, Connect, SetCallbacks, ReadAccess, ReadAccessAgain,
       ReadStandbyAgain, ReadLastAccess, ReadLastStandby, AskState, Configure,
       NextRound, Goto, bools, robot, cycles
  <2>2. tries' \in 0 .. ConnectTries + GrantTries /\ Retries'
    <3>1. CASE Connect
      <4>1. tries \in Nat /\ tries < ConnectTries
        BY <3>1, <1>a DEF Retries, Connect
      <4>2. CASE pc' = "callbacks" /\ tries' = 0
        <5>1. tries' \in 0 .. ConnectTries + GrantTries
          BY <4>2
        <5> QED
          BY <4>2, <5>1 DEF Retries, Loop
      <4>3. CASE tries' = tries + 1 /\ pc' = IF tries' = ConnectTries
                                             THEN "unconnected" ELSE "connect"
        <5>1. /\ tries' \in 0 .. ConnectTries + GrantTries
              /\ tries' # ConnectTries => tries' < ConnectTries
          BY <4>1, <4>3, OneMore
        <5> QED
          BY <4>3, <5>1 DEF Retries, Loop
      <4> QED
        BY <3>1, <4>2, <4>3 DEF Connect, Goto
    <3>2. CASE SetCallbacks
      BY <3>2, <1>a DEF Retries, Loop, SetCallbacks, Goto
    <3>3. CASE ReadAccess \/ ReadAccessAgain \/ ReadStandbyAgain
      <4>1. pc \in Loop
        BY <3>3 DEF Loop, ReadAccess, ReadAccessAgain, ReadStandbyAgain
      <4>2. tries \in Nat /\ tries < GrantTries
        BY <4>1, InRound
      <4>3. CASE pc' \in Loop \cup {"last access"} /\ tries' = tries
        BY <1>a, <4>2, <4>3 DEF Retries, Loop
      <4>4. CASE NextRound
        <5>1. /\ tries' \in 0 .. ConnectTries + GrantTries
              /\ tries' # GrantTries => tries' < GrantTries
          BY <4>2, <4>4, OneMore DEF NextRound
        <5> QED
          BY <4>4, <5>1 DEF Retries, Loop, NextRound, Goto
      <4>5. (pc' \in Loop \cup {"last access"} /\ tries' = tries) \/ NextRound
        BY <3>3 DEF Loop, ReadAccess, ReadAccessAgain, ReadStandbyAgain, Goto
      <4> QED
        BY <4>3, <4>4, <4>5
    <3>4. CASE ReadLastAccess \/ ReadLastStandby \/ AskState \/ Configure
      BY <3>4, <1>a DEF Retries, Loop, ReadLastAccess, ReadLastStandby,
         AskState, Configure, Goto
    <3> QED
      BY <3>1, <3>2, <3>3, <3>4 DEF OnInit
  <2>3. TypeOK'
    <3>1. pc' \in Places
      BY DEF Places, OnInit, Connect, SetCallbacks, ReadAccess, ReadAccessAgain,
         ReadStandbyAgain, ReadLastAccess, ReadLastStandby, AskState, Configure,
         NextRound, Goto
    <3>2. asked' \in BOOLEAN /\ idle' \in BOOLEAN /\ safety' \in BOOLEAN
          /\ overlapped' \in BOOLEAN
      BY DEF Inv, TypeOK, OnInit, Connect, SetCallbacks, ReadAccess,
         ReadAccessAgain, ReadStandbyAgain, ReadLastAccess, ReadLastStandby,
         AskState, Configure, NextRound, Goto, robot, cycles
    <3> QED
      BY <2>1, <2>2, <3>1, <3>2 DEF Inv, TypeOK
  <2>4. Deaf'
    BY <2>1 DEF Inv, Deaf, Registered, OnInit, Connect, SetCallbacks,
       ReadAccess, ReadAccessAgain, ReadStandbyAgain, ReadLastAccess,
       ReadLastStandby, AskState, Configure, NextRound, Goto
  <2>5. GrantNews' /\ AccessIsAuthority' /\ StandbyNews' /\ StandbyIsState'
        /\ NeverTaken'
    BY <2>1, Quiet
  <2>6. ReadyHasAuthority'
    <3>1. pc' = "last standby" => access \/ pc = "last standby"
      BY DEF OnInit, Connect, SetCallbacks, ReadAccess, ReadAccessAgain,
         ReadStandbyAgain, ReadLastAccess, ReadLastStandby, AskState, Configure,
         NextRound, Goto
    <3>2. pc' = "ask state" => pc = "last standby"
      BY DEF OnInit, Connect, SetCallbacks, ReadAccess, ReadAccessAgain,
         ReadStandbyAgain, ReadLastAccess, ReadLastStandby, AskState, Configure,
         NextRound, Goto
    <3>3. pc' = "settings" => pc = "ask state"
      BY DEF OnInit, Connect, SetCallbacks, ReadAccess, ReadAccessAgain,
         ReadStandbyAgain, ReadLastAccess, ReadLastStandby, AskState, Configure,
         NextRound, Goto
    <3>4. access /\ changes = 0 => holder = "driver"
      BY DEF Inv, AccessIsAuthority, NeverTaken
    <3> QED
      BY <2>1, <3>1, <3>2, <3>3, <3>4 DEF Inv, ReadyHasAuthority
  <2> QED
    BY <2>2, <2>3, <2>4, <2>5, <2>6 DEF Inv
<1> QED
  BY <1>1, <1>2

(* The steps of the library's thread.                                      *)
LEMMA LibraryStep ==
  ASSUME Inv, Library
  PROVE  Inv'
<1> USE DriverAssumption
<1>1. CASE ClearStandby
  <2>1. /\ standby' = FALSE /\ library' = "idle"
        /\ UNCHANGED <<pc, tries, access, events, holder, state, asked,
                       changes, idle, safety, overlapped>>
    BY <1>1 DEF ClearStandby, robot, cycles
  <2>2. TypeOK' /\ Retries'
    <3>1. TypeOK /\ Retries
      BY DEF Inv
    <3>2. TypeOK'
      BY <2>1, <3>1 DEF TypeOK
    <3> QED
      BY <2>1, <3>1, <3>2 DEF Retries
  <2>a. Deaf'
    BY <2>1 DEF Inv, Deaf, Registered
  <2>3. GrantNews' /\ AccessIsAuthority' /\ NeverTaken'
    BY <2>1 DEF Inv, GrantNews, Last, AccessIsAuthority, NeverTaken, Pending
  <2>4. StandbyNews' /\ StandbyIsState'
    BY <2>1 DEF Inv, StandbyNews, Last, StandbyIsState
  <2>5. ReadyHasAuthority'
    BY <2>1 DEF Inv, ReadyHasAuthority
  <2> QED
    BY <2>2, <2>a, <2>3, <2>4, <2>5 DEF Inv
<1>2. CASE Drop \/ OnAccess \/ OnState
  <2>1. Taken
    BY <1>2 DEF Drop, OnAccess, OnState
  <2>2. /\ Len(events) \in Nat \ {0}
        /\ events' \in Seq({"grant", "loss", "standby", "off"})
        /\ Len(events') = Len(events) - 1
        /\ \A i \in 1 .. Len(events') : events'[i] = events[i + 1]
        /\ Head(events) = events[1]
        /\ Head(events) \in {"grant", "loss", "standby", "off"}
    BY <2>1, Shifted
  <2>3. UNCHANGED <<pc, tries, holder, state, asked, changes, idle, safety,
                    overlapped>>
    BY <1>2 DEF Drop, OnAccess, OnState, robot, cycles
  <2>4. TypeOK' /\ Retries'
    <3>1. access' \in BOOLEAN /\ standby' \in BOOLEAN
          /\ library' \in {"idle", "grant", "loss"}
      BY <1>2 DEF Inv, TypeOK, Drop, OnAccess, OnState, bools
    <3>2. Len(events') <= MaxEvents
      BY <2>2 DEF Inv, TypeOK
    <3> QED
      BY <2>2, <2>3, <3>1, <3>2 DEF Inv, TypeOK, Retries
  <2>5. Deaf'
    BY <1>2, <2>3 DEF Inv, Deaf, Registered, Drop, OnAccess, OnState, bools
  <2>6. GrantNews' /\ StandbyNews'
    <3>1. ASSUME NEW i \in 1 .. Len(events'), NEW yes, NEW no,
                 events'[i] = yes,
                 \A j \in 1 .. Len(events') : j > i => events'[j] # no
          PROVE  Last(yes, no, i + 1)
      <4> SUFFICES ASSUME NEW j \in 1 .. Len(events), j > i + 1
                   PROVE  events[i + 1] = yes /\ events[j] # no
        BY <2>2, <3>1 DEF Last
      <4>1. j - 1 \in 1 .. Len(events') /\ j - 1 > i
        BY <2>2
      <4>2. events'[j - 1] = events[j]
        BY <4>1, <2>2
      <4> QED
        BY <4>1, <4>2, <3>1, <2>2
    <3>2. \A i \in 1 .. Len(events') : i + 1 \in 1 .. Len(events)
      BY <2>2
    <3>3. GrantNews'
      <4> SUFFICES ASSUME NEW i \in 1 .. Len(events'), Last("grant", "loss", i)'
                   PROVE  holder' = "driver"
        BY DEF GrantNews
      <4>1. Last("grant", "loss", i + 1)
        BY <3>1 DEF Last
      <4> QED
        BY <4>1, <3>2, <2>3 DEF Inv, GrantNews
    <3>4. StandbyNews'
      <4> SUFFICES ASSUME NEW i \in 1 .. Len(events'), Last("standby", "off", i)'
                   PROVE  state' = "standby"
        BY DEF StandbyNews
      <4>1. Last("standby", "off", i + 1)
        BY <3>1 DEF Last
      <4> QED
        BY <4>1, <3>2, <2>3 DEF Inv, StandbyNews
    <3> QED
      BY <3>3, <3>4
  <2>7. \A e \in {"loss", "off"} :
          ~Pending({e})' => \A j \in 1 .. Len(events) : j > 1 => events[j] # e
    <3> SUFFICES ASSUME NEW e \in {"loss", "off"}, ~Pending({e})',
                        NEW j \in 1 .. Len(events), j > 1
                 PROVE  events[j] # e
      OBVIOUS
    <3>1. j - 1 \in 1 .. Len(events') /\ events'[j - 1] = events[j]
      BY <2>2
    <3> QED
      BY <3>1 DEF Pending
  <2>8. AccessIsAuthority'
    <3> SUFFICES ASSUME access', ~Pending({"loss"})' PROVE holder = "driver"
      BY <2>3 DEF AccessIsAuthority
    <3>1. \A j \in 1 .. Len(events) : j > 1 => events[j] # "loss"
      BY <2>7
    <3>2. CASE Head(events) = "grant"
      BY <3>1, <3>2, <2>2 DEF Inv, GrantNews, Last
    <3>3. CASE Head(events) # "grant"
      <4>1. access /\ Head(events) # "loss"
        BY <1>2, <3>3 DEF Inv, Deaf, Drop, OnAccess, OnState, bools
      <4>2. ~Pending({"loss"})
        BY <4>1, <3>1, <2>2 DEF Pending
      <4> QED
        BY <4>1, <4>2 DEF Inv, AccessIsAuthority
    <3> QED
      BY <3>2, <3>3
  <2>9. StandbyIsState'
    <3> SUFFICES ASSUME standby', ~Pending({"off"})' PROVE state = "standby"
      BY <2>3 DEF StandbyIsState
    <3>1. \A j \in 1 .. Len(events) : j > 1 => events[j] # "off"
      BY <2>7
    <3>2. CASE Head(events) = "standby"
      BY <3>1, <3>2, <2>2 DEF Inv, StandbyNews, Last
    <3>3. CASE Head(events) # "standby"
      <4>1. standby /\ Head(events) # "off"
        BY <1>2, <3>3 DEF Inv, Deaf, Drop, OnAccess, OnState, bools
      <4>2. ~Pending({"off"})
        BY <4>1, <3>1, <2>2 DEF Pending
      <4> QED
        BY <4>1, <4>2 DEF Inv, StandbyIsState
    <3> QED
      BY <3>2, <3>3
  <2>10. NeverTaken'
    <3>1. Pending({"loss"})' => Pending({"loss"})
      BY <2>2 DEF Pending
    <3> QED
      BY <3>1, <2>3 DEF Inv, NeverTaken
  <2>11. ReadyHasAuthority'
    <3>1. changes = 0 => Head(events) # "loss"
      BY <2>2 DEF Inv, NeverTaken, Pending
    <3>2. changes = 0 /\ access => access'
      BY <1>2, <3>1 DEF Drop, OnAccess, OnState, bools
    <3> QED
      BY <3>2, <2>3 DEF Inv, ReadyHasAuthority
  <2> QED
    BY <2>4, <2>5, <2>6, <2>8, <2>9, <2>10, <2>11 DEF Inv
<1> QED
  BY <1>1, <1>2 DEF Library

(* The steps of the robot: each adds the news of what it does.             *)
LEMMA RobotStep ==
  ASSUME Inv, Robot
  PROVE  Inv'
<1> USE DriverAssumption
<1>1. PICK e \in {"grant", "loss", "standby", "off"} :
        /\ Report(e) /\ Len(events) < MaxEvents
        /\ e = "grant" => GrantAuthority
        /\ e = "loss" => LoseAuthority
        /\ e \in {"standby", "off"} => ChangeState /\ state' = e
  BY DEF Robot, GrantAuthority, LoseAuthority, ChangeState, Change
<1>2. UNCHANGED <<pc, tries, access, standby, library, idle, safety, overlapped>>
  BY DEF Robot, GrantAuthority, LoseAuthority, ChangeState, bools, cycles
<1>3. /\ events' \in Seq({"grant", "loss", "standby", "off"})
      /\ Len(events') = Len(events) + 1
      /\ \A i \in 1 .. Len(events) : events'[i] = events[i]
      /\ events'[Len(events) + 1] = e
      /\ Len(events) \in Nat
  BY <1>1, <1>2, Reported DEF Inv, TypeOK
<1>4. TypeOK' /\ Retries' /\ Deaf'
  <2>1. /\ holder' \in {"nobody", "other", "driver"}
        /\ state' \in {"booting", "standby", "off"} /\ asked' \in BOOLEAN
    BY DEF Inv, TypeOK, Robot, GrantAuthority, LoseAuthority, ChangeState
  <2>2. changes' \in 0 .. MaxChanges
    BY DEF Inv, TypeOK, Robot, GrantAuthority, LoseAuthority, ChangeState, Change
  <2>3. Len(events') <= MaxEvents
    BY <1>1, <1>3
  <2>4. TypeOK'
    BY <1>2, <1>3, <2>1, <2>2, <2>3 DEF Inv, TypeOK
  <2> QED
    BY <1>2, <2>4 DEF Inv, Retries, Deaf, Registered
<1>5. /\ e = "grant" => holder' = "driver" /\ state' = state
      /\ e = "loss" => state' = state
      /\ e \in {"standby", "off"} => holder' = holder
  BY <1>1 DEF GrantAuthority, LoseAuthority, ChangeState
<1>6. e = "loss" => changes' > 0
  BY <1>1 DEF Inv, TypeOK, LoseAuthority, Change
<1>7. changes' = 0 => changes = 0
  BY DEF Inv, TypeOK, Robot, GrantAuthority, LoseAuthority, ChangeState, Change
<1>8. GrantNews'
  BY <1>3, <1>5 DEF Inv, GrantNews, Last
<1>9. StandbyNews'
  BY <1>1, <1>3, <1>5 DEF Inv, StandbyNews, Last
<1>10. AccessIsAuthority'
  BY <1>2, <1>3, <1>5 DEF Inv, AccessIsAuthority, Pending
<1>11. StandbyIsState'
  BY <1>1, <1>2, <1>3, <1>5 DEF Inv, StandbyIsState, Pending
<1>12. NeverTaken'
  BY <1>3, <1>6, <1>7 DEF Inv, NeverTaken, Pending
<1>13. ReadyHasAuthority'
  <2>1. changes' = 0 => holder' = holder \/ holder' = "driver"
    BY <1>1, <1>5, <1>6
  <2> QED
    BY <1>2, <1>7, <2>1 DEF Inv, ReadyHasAuthority
<1> QED
  BY <1>4, <1>8, <1>9, <1>10, <1>11, <1>12, <1>13 DEF Inv

(* The cycles of write touch nothing of this.                              *)
LEMMA CycleStep ==
  ASSUME Inv, Cycle
  PROVE  Inv'
<1>1. /\ UNCHANGED <<pc, tries, access, standby, library, events, holder, state,
                     asked, changes>>
      /\ idle' \in BOOLEAN /\ safety' \in BOOLEAN /\ overlapped' \in BOOLEAN
  BY DEF Inv, TypeOK, Cycle, WriteMoving, WriteIdle, ServiceMotionEnds, bools,
     robot
<1>2. GrantNews' /\ AccessIsAuthority' /\ StandbyNews' /\ StandbyIsState'
      /\ NeverTaken'
  BY <1>1, Quiet
<1>3. TypeOK'
  BY <1>1 DEF Inv, TypeOK
<1> QED
  BY <1>1, <1>2, <1>3 DEF Inv, Retries, Deaf, Registered, ReadyHasAuthority

(* Nothing happens.                                                        *)
LEMMA Stutter ==
  ASSUME Inv, UNCHANGED driverVars
  PROVE  Inv'
<1>1. GrantNews' /\ AccessIsAuthority' /\ StandbyNews' /\ StandbyIsState'
      /\ NeverTaken'
  BY Quiet DEF driverVars, bools, robot, cycles
<1>2. TypeOK'
  BY DEF Inv, TypeOK, driverVars, bools, robot, cycles
<1> QED
  BY <1>1, <1>2 DEF Inv, Retries, Deaf, Registered, ReadyHasAuthority,
     driverVars, bools, robot, cycles

(* Beliefs, news and robot agree in every reachable state.                 *)
THEOREM Invariance == Spec => []Inv
<1>1. Init => Inv
  BY InitInv
<1>2. Inv /\ [Next]_driverVars => Inv'
  BY OnInitStep, LibraryStep, RobotStep, CycleStep, Stutter DEF Next
<1> QED
  BY <1>1, <1>2, PTL DEF Spec

-----------------------------------------------------------------------------
(* dsr_hw_interface2.cpp L44-L280: every variable keeps its type, and the  *)
(* loops on the connection and on the authority keep to their bounds.      *)
THEOREM DriverTypes == Spec => []TypeOK
<1>1. Inv => TypeOK
  BY DEF Inv
<1> QED
  BY <1>1, Invariance, PTL

(* L152-L174: the callback for access never leaves a belief in an          *)
(* authority that is lost, however the notifications come.                 *)
THEOREM Authority == Spec => []AccessIsAuthority
<1>1. Inv => AccessIsAuthority
  BY DEF Inv
<1> QED
  BY <1>1, Invariance, PTL

(* L152-L174: nor does any order of the two callbacks leave a standby      *)
(* behind that the robot has left.                                         *)
THEOREM Standby == Spec => []StandbyIsState
<1>1. Inv => StandbyIsState
  BY DEF Inv
<1> QED
  BY <1>1, Invariance, PTL

(* L188-L231: past the last check the authority is the driver's, if nobody *)
(* took it.                                                                *)
THEOREM Ready == Spec => []ReadyHasAuthority
<1>1. Inv => ReadyHasAuthority
  BY DEF Inv
<1> QED
  BY <1>1, Invariance, PTL

(* L352-L400: the safety mode a service motion switched off is set again   *)
(* before the next command streams.                                        *)
THEOREM Safety == Spec => []SafetyRestored
<1>1. Init => SafetyRestored
  BY DEF Init, SafetyRestored
<1>2. SafetyRestored /\ TypeOK /\ TypeOK' /\ [Next]_driverVars => SafetyRestored'
  <2> SUFFICES ASSUME SafetyRestored, TypeOK, TypeOK', [Next]_driverVars
               PROVE  SafetyRestored'
    OBVIOUS
  <2>1. CASE OnInit
    BY <2>1 DEF SafetyRestored, OnInit, Connect, SetCallbacks, ReadAccess,
       ReadStandby, ReadAccessAgain, ReadStandbyAgain, ReadLastAccess,
       ReadLastStandby, AskState, Configure, NextRound, Goto, cycles
  <2>2. CASE Library \/ Robot \/ UNCHANGED driverVars
    BY <2>2 DEF SafetyRestored, Library, Drop, OnAccess, ClearStandby, OnState,
       Robot, GrantAuthority, LoseAuthority, ChangeState, driverVars, cycles
  <2>3. CASE Cycle
    BY <2>3 DEF SafetyRestored, TypeOK, Cycle, WriteMoving, WriteIdle,
       ServiceMotionEnds
  <2> QED
    BY <2>1, <2>2, <2>3 DEF Next
<1> QED
  BY <1>1, <1>2, DriverTypes, PTL DEF Spec

=============================================================================
