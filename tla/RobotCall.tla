------------------------------ MODULE RobotCall ------------------------------
(***************************************************************************)
(* How a function of DSR_ROBOT2.py runs: it checks its arguments one after *)
(* the other, places one service request with call_async and waits in      *)
(* rclpy.spin_until_future_complete for the answer.  A check that fails    *)
(* raises DR_Error, whose constructor calls rclpy.shutdown(): the context  *)
(* of the whole process is gone, and every thread that waits is released   *)
(* without an answer.  Some functions first loop on wait_for_service; the  *)
(* others place the request whether or not anyone serves it.               *)
(*                                                                         *)
(* All waits share g_node and the one global executor of rclpy: each puts  *)
(* g_node into it and takes it out on return, whoever else still waits.    *)
(* Answers are handled only while it is in, and two threads that spin the  *)
(* executor at once may end with an exception in one of them.              *)
(*                                                                         *)
(* The modules Api* translate the functions; each is an action that ends   *)
(* in Begin.  This module holds the state they share: the defaults for     *)
(* speeds, the reference coordinate and the analog modes that the Python   *)
(* module remembers, the calls in progress, and what the controller holds. *)
(***************************************************************************)
EXTENDS Integers, Sequences

CONSTANTS
  Threads,      \* the threads of the program that call the robot
  None, Junk,   \* an argument not given; a value of a wrong type
  Ints,         \* the integers tried as options, indices, modes, times
  Refs,         \* the integers tried as coordinates
  Speeds,       \* the pairs tried as speeds and accelerations
  Families,     \* the families of functions the program uses
  MaxRestarts   \* bound: times the controller goes down

BASE  == 0
TOOL  == 1
WORLD == 2
Unset == 0 - 10000                           \* DR_COND_NONE
IsUser(ref) == 101 <= ref /\ ref <= 200      \* a user coordinate

(* A speed is a pair: of six joint speeds the first, which is the one that *)
(* MoveJoint carries, and one that stands for the rest; of a task speed    *)
(* the two entries.  A number given for it stands for the list the         *)
(* function makes of it.                                                   *)
IsSpeed(s) == s \in Int \X Int
IsSpeeds(S) == \A s \in S : IsSpeed(s)

ASSUME ApiAssumption ==
  /\ None \notin Int /\ Junk \notin Int /\ None # Junk
  /\ Ints \subseteq Int /\ Refs \subseteq Int
  /\ IsSpeeds(Speeds)
  /\ MaxRestarts \in Nat

VARIABLES
  alive,                   \* is the rclpy context valid?
  velj, accj, velx, accx,  \* _g_velj, ...
  coord,                   \* _g_coord
  aomode,                  \* _g_analog_output_mode_ch1, _ch2
  call,                    \* per thread: the call in progress
  attached,                \* is g_node in the global executor?
  up, restarts,            \* the controller: serving?  times gone down
  devCoord, devMode,       \* the controller: what was set
  unsure                   \* history: settings whose last request went wrong

defaults == <<velj, accj, velx, accx>>
device   == <<up, restarts, devCoord, devMode>>
calls    == <<call, attached>>
apiVars  == <<alive, defaults, coord, aomode, calls, device, unsure>>

Idle == [phase |-> "idle"]
Busy(t) == call[t] # Idle

(* A position argument: an object posj or posx, a list of six numbers, one *)
(* whose first entry is no number, one with a later such entry, or none of *)
(* these.  is_number returns after the first entry of a list, so a later   *)
(* one is only met by float(), outside DR_Error.                           *)
Positions == {"posj", "posx", "list", "text", "tail", "other"}

(* Outcomes of a function before it waits.  A raise of kind TYPE or VALUE  *)
(* is a DR_Error, one of kind PYTHON any other exception.                  *)
Raise(kind)      == [tag |-> "raise", kind |-> kind]
Publish(req)     == [tag |-> "publish", req |-> req]
Post(req)        == [tag |-> "post", req |-> req, waits |-> FALSE]
FindAndPost(req) == [tag |-> "post", req |-> req, waits |-> TRUE]

Check(condition, kind, rest) == IF condition THEN rest ELSE Raise(kind)

CheckInt(x, rest)    == Check(x \in Int, "TYPE", rest)
CheckIn(x, S, rest)  == CheckInt(x, Check(x \in S, "VALUE", rest))
(* Mutant: any position passes.                                           *)
CheckPosjAny(p, rest) == Check(p # "other", "TYPE",
                               Check(p # "text", "VALUE", rest))
CheckPosj(p, rest)   == Check(p \in {"posj", "list", "text", "tail"}, "TYPE",
                              Check(p # "text", "VALUE", rest))
CheckPosx(p, rest)   == Check(p \in {"posx", "list", "text", "tail"}, "TYPE",
                              Check(p # "text", "VALUE", rest))
CheckPos(p, rest)    == Check(p # "other", "TYPE",
                              Check(p # "text", "VALUE", rest))
Filled(p, rest)      == Check(p # "tail", "PYTHON", rest)

(* The coordinate a function works in: the one given, or a default.        *)
OrElse(x, default) == IF x = None THEN default ELSE x
IsRef(ref)         == ref \in {BASE, TOOL, WORLD} \/ IsUser(ref)
CheckRef(ref, rest) == CheckInt(ref, Check(IsRef(ref), "VALUE", rest))
CheckRefRange(ref, rest) ==
  CheckInt(ref, Check(BASE <= ref /\ ref <= 200, "VALUE", rest))
CheckFixedRef(ref, rest) ==
  Check(OrElse(ref, BASE) \in {BASE, WORLD}, "VALUE", rest)

(* Requests.  Of most the model only keeps that they were made.            *)
Plain              == [kind |-> "plain"]
SetCoord(c)        == [kind |-> "coord", value |-> c]
SetMode(ch, m)     == [kind |-> "mode", channel |-> ch, value |-> m]
SetAnalog(ch, v)   == [kind |-> "analog", channel |-> ch, value |-> v]
Motion(f, p, v, a, s) ==
  [kind |-> "motion", fn |-> f, pos |-> p, vel |-> v, acc |-> a, time |-> s]
Alteration(f, p)   == [kind |-> "alter", fn |-> f, pos |-> p]

ChannelName == <<"ch1", "ch2">>
Setting(req) == IF req.kind = "coord" THEN {"coord"}
                ELSE IF req.kind = "mode" THEN {ChannelName[req.channel]}
                ELSE {}
Settings == {"coord", "ch1", "ch2"}

(* The settings a request changes or was checked against.                  *)
Regards(req) == Setting(req) \cup (IF req.kind = "analog"
                                  THEN {ChannelName[req.channel]} ELSE {})

(* Two calls of which one changes a setting that regards the other         *)
(* overlap: which comes last differs between here and there.               *)
Disturbed(t, req) == {u \in Threads \ {t} :
                        Busy(u) /\ Regards(call[u].req) \cap Setting(req) # {}}
Alone(t, req) == \A u \in Threads \ {t} :
                   Busy(u) => Setting(call[u].req) \cap Regards(req) = {}

(* A record of call[t]: where the call is, what it asks, and whether no    *)
(* other call changed a setting that regards it meanwhile.  A message is   *)
(* published.  A request looks for its service, is sent, or lost because   *)
(* nobody served it; the controller granted or refused it, and its future  *)
(* is done once a spin has handled that answer: accepted or rejected.      *)
Answered == {"granted", "refused"}
Done     == {"accepted", "rejected"}
Waiting  == {"sent", "lost"} \cup Answered \cup Done
Phases   == {"seek", "published"} \cup Waiting
InCall(phase, req, single) ==
  [phase |-> phase, req |-> req, single |-> single]

InitCall ==
  /\ alive = TRUE
  /\ velj = <<0, 0>> /\ accj = <<0, 0>>
  /\ velx = <<0, Unset>> /\ accx = <<0, Unset>>
  /\ coord = BASE
  /\ aomode = [ch \in 1 .. 2 |-> 0 - 1]
  /\ call = [t \in Threads |-> Idle] /\ attached = FALSE
  /\ up = FALSE /\ restarts = 0
  /\ devCoord = BASE /\ devMode = [ch \in 1 .. 2 |-> 0 - 1]
  /\ unsure = {}

(* The code of a function up to where it waits, with the outcome o.  The   *)
(* mode of an analog channel is recorded before it is asked for.           *)
Fail(kind) ==
  /\ alive' = (alive /\ kind = "PYTHON")
  /\ UNCHANGED <<defaults, coord, aomode, calls, device, unsure>>

(* Mutant: the mode is not recorded.                                       *)
RecordNothing(req) == aomode' = aomode

Record(req) ==
  aomode' = IF req.kind = "mode"
            THEN [aomode EXCEPT ![req.channel] = req.value] ELSE aomode

Place(t, req, phase) ==
  LET disturbed == Disturbed(t, req) IN
  /\ Record(req)
  /\ call' = [u \in Threads |->
                IF u = t THEN InCall(phase, req, Alone(t, req))
                ELSE IF u \in disturbed THEN [call[u] EXCEPT !.single = FALSE]
                ELSE call[u]]
  /\ attached' = (attached \/ phase \in Waiting)
  /\ UNCHANGED <<alive, defaults, coord, device, unsure>>

Begin(t, o) ==
  /\ ~Busy(t)
  /\ \/ o.tag = "raise" /\ Fail(o.kind)
     \/ o.tag = "publish" /\ IF alive THEN Place(t, o.req, "published")
                            ELSE Fail("PYTHON")
     \/ o.tag = "post" /\ Place(t, o.req, IF o.waits THEN "seek"
                                         ELSE IF up THEN "sent" ELSE "lost")

-----------------------------------------------------------------------------
(* After the request.                                                      *)

In(t, phases) == Busy(t) /\ call[t].phase \in phases
Goes(t, phase) == call' = [call EXCEPT ![t].phase = phase]

(* The call ends without an answer, and what it asked for is not sure any  *)
(* more.                                                                   *)
Leave(t) ==
  /\ call' = [call EXCEPT ![t] = Idle]
  /\ unsure' = unsure \cup Setting(call[t].req)
  /\ UNCHANGED <<alive, defaults, coord, aomode>>

(* publish() returns at once.  A message asks for no setting.              *)
Published(t) ==
  In(t, {"published"}) /\ Leave(t) /\ UNCHANGED <<attached, device>>

(* Mutant: the wait does not put the node into the executor.               *)
FindDetached(t) ==
  /\ In(t, {"seek"}) /\ up /\ alive
  /\ Goes(t, "sent")
  /\ UNCHANGED <<alive, defaults, coord, aomode, attached, device, unsure>>

(* while not client.wait_for_service(timeout_sec=1.0), then the wait.      *)
Find(t) ==
  /\ In(t, {"seek"}) /\ up /\ alive
  /\ Goes(t, "sent") /\ attached' = TRUE
  /\ UNCHANGED <<alive, defaults, coord, aomode, device, unsure>>

(* The controller's handler: the call into the robot library succeeds and  *)
(* takes effect, or does not.                                              *)
Takes(req) ==
  /\ devCoord' = IF req.kind = "coord" THEN req.value ELSE devCoord
  /\ devMode' = IF req.kind = "mode"
                THEN [devMode EXCEPT ![req.channel] = req.value] ELSE devMode
  /\ UNCHANGED <<up, restarts>>

Grant(t) ==
  /\ In(t, {"sent"}) /\ up
  /\ Goes(t, "granted") /\ Takes(call[t].req)
  /\ UNCHANGED <<alive, defaults, coord, aomode, attached, unsure>>

Refuse(t) ==
  /\ In(t, {"sent"}) /\ up
  /\ Goes(t, "refused")
  /\ UNCHANGED <<alive, defaults, coord, aomode, attached, device, unsure>>

(* A spin handles the answer that has come in; it need not be the spin of  *)
(* the thread that asked.                                                  *)
Handle(t) ==
  /\ alive /\ attached /\ In(t, Answered)
  /\ Goes(t, IF call[t].phase = "granted" THEN "accepted" ELSE "rejected")
  /\ UNCHANGED <<alive, defaults, coord, aomode, attached, device, unsure>>

(* Mutant: set_ref_coord does not store its argument.                      *)
StoredNothing(req) == coord

(* set_ref_coord stores its argument whatever the answer was.              *)
Stored(req) == IF req.kind = "coord" THEN req.value ELSE coord

(* The function goes on after spin_until_future_complete, which takes the  *)
(* node out of the executor.                                               *)
Finish(t) ==
  LET c == call[t]
      set == Setting(c.req)
  IN
  /\ call' = [call EXCEPT ![t] = Idle] /\ attached' = FALSE
  /\ coord' = Stored(c.req)
  /\ unsure' = IF c.phase \in {"granted", "accepted"} /\ c.single
               THEN unsure \ set ELSE unsure \cup set
  /\ UNCHANGED <<alive, defaults, aomode, device>>

Return(t) == alive /\ In(t, Done) /\ Finish(t)

(* The executor is being spun by another thread: rclpy may raise, out of   *)
(* spin_until_future_complete, which takes the node out all the same.      *)
(* The function stores nothing.  A request that the controller has yet to  *)
(* handle takes effect or not; whether it does now or later, before the    *)
(* next request of its service, makes no difference to what is remembered. *)
Collide(t) ==
  /\ alive /\ In(t, Waiting)
  /\ \E u \in Threads \ {t} : In(u, Waiting)
  /\ Leave(t) /\ attached' = FALSE
  /\ \/ In(t, {"sent"}) /\ up /\ Takes(call[t].req)
     \/ UNCHANGED device

(* Mutant: the spin goes on when the context is gone.                      *)
AbandonAnswered(t) == ~alive /\ In(t, Answered \cup Done) /\ Finish(t)

(* The context is gone: the spin ends without an answer, the loop on       *)
(* wait_for_service with an exception.                                     *)
Abandon(t) == ~alive /\ In(t, Waiting) /\ Finish(t)

(* Mutant: the loop on wait_for_service swallows the exception.            *)
GiveUpNever(t) == ~alive /\ In(t, {"seek"}) /\ UNCHANGED apiVars

GiveUp(t) ==
  ~alive /\ In(t, {"seek"}) /\ Leave(t) /\ UNCHANGED <<attached, device>>

(* The controller comes up with its own settings; when it goes down the    *)
(* requests it has not answered are lost.                                  *)
ComeUp ==
  /\ ~up /\ up' = TRUE
  /\ UNCHANGED <<alive, defaults, coord, aomode, calls, restarts, devCoord,
                 devMode, unsure>>

GoDown ==
  /\ up /\ restarts < MaxRestarts
  /\ up' = FALSE /\ restarts' = restarts + 1
  /\ devCoord' = BASE /\ devMode' = [ch \in 1 .. 2 |-> 0 - 1]
  /\ call' = [t \in Threads |->
                IF ~Busy(t) THEN call[t]
                ELSE [call[t] EXCEPT !.phase = IF @ = "sent" THEN "lost" ELSE @,
                                     !.single = FALSE]]
  /\ unsure' = Settings
  /\ UNCHANGED <<alive, defaults, coord, aomode, attached>>

Service(t) == \/ Published(t) \/ Find(t) \/ Grant(t) \/ Refuse(t)
              \/ Handle(t) \/ Return(t) \/ Abandon(t) \/ GiveUp(t)

=============================================================================
