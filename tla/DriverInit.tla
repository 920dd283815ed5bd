------------------------------ MODULE DriverInit ------------------------------
(***************************************************************************)
(* The hardware interface of dsr_hw_interface2.cpp: on_init, which runs in *)
(* the thread of ros2_control_node, against the callbacks that the robot   *)
(* library calls from a thread of its own, and then the cycles of write.   *)
(*                                                                         *)
(* The two share get_control_access and is_standby, plain static booleans. *)
(* The robot controller is external: it grants the control authority when  *)
(* it is asked, may give it to another client, and reports its state when  *)
(* that changes.  What it reports before the callbacks are set is lost.    *)
(***************************************************************************)
EXTENDS Naturals, Sequences

CONSTANTS
  ConnectTries,   \* attempts at open_connection: 20
  GrantTries,     \* rounds of the loop for authority and standby: 10
  MaxChanges,     \* bound: changes the robot makes on its own
  MaxEvents       \* bound: notifications on their way

ASSUME DriverAssumption ==
  /\ ConnectTries \in Nat \ {0} /\ GrantTries \in Nat \ {0}
  /\ MaxChanges \in Nat /\ MaxEvents \in Nat \ {0}

VARIABLES
  pc,             \* where on_init is
  tries,          \* retry of the loop it is in
  access,         \* get_control_access
  standby,        \* is_standby
  library,        \* the library's thread: "idle", or in the access callback
  events,         \* notifications the robot has sent
  holder, state,  \* the robot: who has authority, its state
  asked,          \* the robot: a request for authority is on its way
  changes,        \* the robot: changes made on its own
  idle, safety,   \* write: static idle; the safety mode for motions is set
  overlapped      \* history: a service motion ended after the last idle cycle

bools   == <<access, standby>>
robot   == <<holder, state, asked, changes>>
cycles  == <<idle, safety, overlapped>>
driverVars == <<pc, tries, bools, library, events, robot, cycles>>

Init ==
  /\ pc = "connect" /\ tries = 0
  /\ access = FALSE /\ standby = FALSE
  /\ library = "idle" /\ events = <<>>
  /\ holder \in {"nobody", "other"}
  /\ state \in {"booting", "standby", "off"}
  /\ asked = FALSE /\ changes = 0
  /\ idle = FALSE /\ safety = FALSE /\ overlapped = FALSE

Goto(place) == pc' = place /\ UNCHANGED <<bools, library, events, cycles>>

-----------------------------------------------------------------------------
(* on_init.  Between two reads of the booleans the callbacks may run.      *)

Connect ==
  /\ pc = "connect"
  /\ \/ Goto("callbacks") /\ tries' = 0
     \/ /\ tries' = tries + 1
        /\ Goto(IF tries' = ConnectTries THEN "unconnected" ELSE "connect")
  /\ UNCHANGED robot

SetCallbacks == pc = "callbacks" /\ Goto("access") /\ UNCHANGED <<tries, robot>>

(* Mutants: a round that is not limited; one that is not counted.          *)
NextRoundUnlimited == tries' = tries + 1 /\ Goto("access")
NextRoundUncounted == tries' = tries /\ Goto("access")

(* A round that finds something missing asks for it and sleeps a second.   *)
NextRound ==
  /\ tries' = tries + 1
  /\ Goto(IF tries' = GrantTries THEN "last access" ELSE "access")

ReadAccess ==
  /\ pc = "access"
  /\ IF access
     THEN Goto("standby") /\ UNCHANGED <<tries, robot>>
     ELSE NextRound /\ asked' = TRUE /\ UNCHANGED <<holder, state, changes>>

(* set_robot_control(CONTROL_SERVO_ON): a robot that is off comes to       *)
(* standby and reports it; one in another state may ignore it.             *)
Report(event) == events' = Append(events, event)

ReadStandby ==
  /\ pc = "standby"
  /\ IF standby
     THEN Goto("access again") /\ UNCHANGED <<tries, robot>>
     ELSE /\ tries' = tries + 1
          /\ pc' = IF tries' = GrantTries THEN "last access" ELSE "access"
          /\ \/ UNCHANGED <<state, events>>
             \/ /\ state # "booting" /\ Len(events) < MaxEvents
                /\ state' = "standby" /\ Report("standby")
          /\ UNCHANGED <<bools, library, holder, asked, changes, cycles>>

(* The third condition of the round reads both booleans once more.         *)
ReadAccessAgain ==
  /\ pc = "access again"
  /\ IF access THEN Goto("standby again") /\ UNCHANGED tries ELSE NextRound
  /\ UNCHANGED robot

ReadStandbyAgain ==
  /\ pc = "standby again"
  /\ IF standby THEN Goto("last access") /\ UNCHANGED tries ELSE NextRound
  /\ UNCHANGED robot

(* Mutant: the last check looks at is_standby only.                        *)
SkipLastAccess ==
  /\ pc = "last access" /\ Goto("last standby")
  /\ UNCHANGED <<tries, robot>>

ReadLastAccess ==
  /\ pc = "last access"
  /\ Goto(IF access THEN "last standby" ELSE "error")
  /\ UNCHANGED <<tries, robot>>

ReadLastStandby ==
  /\ pc = "last standby"
  /\ Goto(IF standby THEN "ask state" ELSE "error")
  /\ UNCHANGED <<tries, robot>>

AskState ==
  /\ pc = "ask state"
  /\ Goto(IF state = "standby" THEN "settings" ELSE "error")
  /\ UNCHANGED <<tries, robot>>

(* The mode, the system, and for a real robot the realtime stream: each    *)
(* may fail.  The safety mode comes last.                                  *)
Configure ==
  /\ pc = "settings"
  /\ \/ pc' = "error" /\ UNCHANGED safety
     \/ pc' = "ready" /\ safety' = TRUE
  /\ UNCHANGED <<tries, bools, library, events, robot, idle, overlapped>>

OnInit ==
  \/ Connect \/ SetCallbacks \/ ReadAccess \/ ReadStandby \/ ReadAccessAgain
  \/ ReadStandbyAgain \/ ReadLastAccess \/ ReadLastStandby \/ AskState
  \/ Configure

-----------------------------------------------------------------------------
(* The library's thread hands one notification at a time to the callbacks. *)
(* That for access assigns get_control_access, then is_standby.            *)
Registered == pc \notin {"connect", "unconnected", "callbacks"}
Taken      == events # <<>> /\ library = "idle" /\ events' = Tail(events)

Drop ==
  /\ Taken /\ ~Registered
  /\ UNCHANGED <<pc, tries, bools, library, robot, cycles>>

(* Mutant: the loss is taken for a grant.                                  *)
OnAnyAccess ==
  /\ Taken /\ Registered /\ Head(events) \in {"grant", "loss"}
  /\ access' = TRUE /\ library' = Head(events)
  /\ UNCHANGED <<pc, tries, standby, robot, cycles>>

OnAccess ==
  /\ Taken /\ Registered /\ Head(events) \in {"grant", "loss"}
  /\ access' = (Head(events) = "grant")
  /\ library' = Head(events)
  /\ UNCHANGED <<pc, tries, standby, robot, cycles>>

ClearStandby ==
  /\ library # "idle"
  /\ standby' = FALSE /\ library' = "idle"
  /\ UNCHANGED <<pc, tries, access, events, robot, cycles>>

(* Mutant: standby once seen is kept.                                      *)
OnStateKeeping ==
  /\ Taken /\ Registered /\ Head(events) \in {"standby", "off"}
  /\ standby' = (standby \/ Head(events) = "standby")
  /\ UNCHANGED <<pc, tries, access, library, robot, cycles>>

OnState ==
  /\ Taken /\ Registered /\ Head(events) \in {"standby", "off"}
  /\ standby' = (Head(events) = "standby")
  /\ UNCHANGED <<pc, tries, access, library, robot, cycles>>

Library == Drop \/ OnAccess \/ ClearStandby \/ OnState

-----------------------------------------------------------------------------
(* The robot.                                                              *)
GrantAuthority ==
  /\ asked /\ Len(events) < MaxEvents
  /\ holder' = "driver" /\ asked' = FALSE /\ Report("grant")
  /\ UNCHANGED <<pc, tries, bools, library, state, changes, cycles>>

Change == changes < MaxChanges /\ changes' = changes + 1 /\ Len(events) < MaxEvents

LoseAuthority ==
  /\ Change /\ holder = "driver"
  /\ holder' = "other" /\ Report("loss")
  /\ UNCHANGED <<pc, tries, bools, library, state, asked, cycles>>

ChangeState ==
  /\ Change
  /\ state' \in {"standby", "off"} \ {state}
  /\ Report(state')
  /\ UNCHANGED <<pc, tries, bools, library, holder, asked, cycles>>

Robot == GrantAuthority \/ LoseAuthority \/ ChangeState

-----------------------------------------------------------------------------
(* write, once the interface is ready: a cycle whose position command      *)
(* changed streams it, setting the safety mode first when the last cycle   *)
(* was idle.  A motion that a service started switches the safety mode off *)
(* when it ends, L381.                                                     *)

(* Mutant: the safety mode is not set again.                               *)
WriteOnly ==
  /\ pc = "ready" /\ idle' = FALSE
  /\ UNCHANGED <<pc, tries, bools, library, events, robot, safety, overlapped>>

WriteMoving ==
  /\ pc = "ready"
  /\ safety' = (safety \/ idle) /\ idle' = FALSE
  /\ UNCHANGED <<pc, tries, bools, library, events, robot, overlapped>>

WriteIdle ==
  /\ pc = "ready"
  /\ idle' = TRUE /\ overlapped' = FALSE
  /\ UNCHANGED <<pc, tries, bools, library, events, robot, safety>>

ServiceMotionEnds ==
  /\ pc = "ready"
  /\ safety' = FALSE /\ overlapped' = ~idle
  /\ UNCHANGED <<pc, tries, bools, library, events, robot, idle>>

Cycle == WriteMoving \/ WriteIdle \/ ServiceMotionEnds

Next == OnInit \/ Library \/ Robot \/ Cycle
Spec == Init /\ [][Next]_driverVars

(* The thread that runs on_init and the library's thread go on.            *)
FairSpec == Spec /\ WF_driverVars(OnInit) /\ WF_driverVars(Library)

-----------------------------------------------------------------------------
Places == {"connect", "unconnected", "callbacks", "access", "standby",
           "access again", "standby again", "last access", "last standby",
           "ask state", "settings", "ready", "error"}

(* Every variable has its type; the bounds hold.                           *)
TypeOK ==
  /\ pc \in Places /\ tries \in 0 .. ConnectTries + GrantTries
  /\ access \in BOOLEAN /\ standby \in BOOLEAN
  /\ library \in {"idle", "grant", "loss"}
  /\ events \in Seq({"grant", "loss", "standby", "off"})
  /\ Len(events) <= MaxEvents
  /\ holder \in {"nobody", "other", "driver"}
  /\ state \in {"booting", "standby", "off"}
  /\ asked \in BOOLEAN /\ changes \in 0 .. MaxChanges
  /\ idle \in BOOLEAN /\ safety \in BOOLEAN /\ overlapped \in BOOLEAN

Pending(S) == \E i \in 1 .. Len(events) : events[i] \in S

(* The driver has the authority it believes to have, unless the news of    *)
(* its loss is still on the way: a grant is never believed longer than it  *)
(* lasts.                                                                  *)
AccessIsAuthority == access /\ ~Pending({"loss"}) => holder = "driver"

(* A robot believed to stand by does, or the news that it does not is on   *)
(* the way: no order of the notifications of access and of state leaves    *)
(* an old standby behind.                                                  *)
StandbyIsState == standby /\ ~Pending({"off"}) => state = "standby"

(* on_init goes on to the settings only with both flags read set; a robot  *)
(* that nobody took away and that nothing pending concerns is the driver's.*)
ReadyHasAuthority ==
  pc \in {"last standby", "ask state", "settings"} /\ changes = 0
    => access /\ holder = "driver"

(* on_init returns: it neither waits forever for the authority nor for the *)
(* robot to stand by.                                                      *)
InitReturns == <>(pc \in {"ready", "error", "unconnected"})

(* L381: the next command that streams sets the safety mode a service      *)
(* motion switched off, unless the motion ended while commands streamed.   *)
SafetyRestored == pc = "ready" /\ ~safety => idle \/ overlapped

=============================================================================
