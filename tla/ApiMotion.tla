------------------------------ MODULE ApiMotion ------------------------------
(***************************************************************************)
(* DSR_ROBOT2.py, L2437-L3826: the motion services.  movej, movejx, movel, *)
(* movec, move_spiral and move_periodic look for their service, the others *)
(* only post.  amovej and its like are the same functions with sync_type 1 *)
(* and no blending radius.                                                 *)
(***************************************************************************)
EXTENDS ApiStreams

OptArgs == IntArgs \cup {None}
Switch  == {0, 1}                 \* mod, ra, vel_opt

(* A speed of a task motion may have entries that are not set.             *)
NonNegativeOrUnset(v) == \A i \in 1 .. 2 : v[i] >= 0 \/ v[i] = Unset
CheckTaskSpeed(arg, default, rest) ==
  Check(arg # Junk, "TYPE",
        Check(NonNegativeOrUnset(OrElse(arg, default)), "VALUE", rest))
TaskSpeeds(v, a, s, rest) ==
  CheckTaskSpeed(v, velx, CheckTaskSpeed(a, accx, CheckTime(s, rest)))

CheckJointMove(v, a, s, rest) ==
  JointSpeeds(v, a, s,
    CheckUsableJoint(OrElse(v, velj), OrElse(a, accj), s, rest))
CheckTaskMove(v, a, s, rest) ==
  TaskSpeeds(v, a, s,
    CheckUsableTask(OrElse(v, velx), OrElse(a, accx), s, rest))

(* _g_blend_state is never set, so a radius not given is 0.                *)
CheckRadius(r, rest) ==
  CheckInt(OrElse(r, 0), Check(OrElse(r, 0) >= 0, "VALUE", rest))

(* The reference, then mod and ra (or vel_opt); sol where it is asked for. *)
CheckMotionRef(r, rest) == CheckRefRange(OrElse(r, coord), rest)
CheckModes(m, ra, rest) == CheckIn(m, Switch, CheckIn(ra, Switch, rest))

(* Options that are tried: a radius, a mode, a second mode, a reference,   *)
(* one of them at a time other than the default.                           *)
Defaults ==
  [radius |-> None, mod |-> 0, ra |-> 0, ref |-> None, angle |-> None]
Options ==
  {[Defaults EXCEPT !.radius = x] : x \in {None, 0, 0 - 1, Junk}}
  \cup {[Defaults EXCEPT !.mod = x] : x \in {1, 2, Junk}}
  \cup {[Defaults EXCEPT !.ra = x] : x \in {1, 2, Junk}}
  \cup {[Defaults EXCEPT !.angle = x] : x \in {0 - 1, Junk}}
  \cup {[Defaults EXCEPT !.ref = x] : x \in Refs \cup {Junk}}

(* movej and movejx send the first of the speeds they have checked, for    *)
(* all joints.                                                             *)
First(v) == <<v[1], v[1]>>

movej(t) ==
  \E p \in Positions, v, a \in SpeedArgs, s \in TimeArgs, o \in Options :
    Begin(t, CheckPosj(p, CheckJointMove(v, a, s, CheckRadius(o.radius,
             CheckModes(o.mod, o.ra, Filled(p, FindAndPost(
             Motion("movej", NumbersOf(p, "joint"), First(OrElse(v, velj)),
                    First(OrElse(a, accj)), Time(s)))))))))

movejx(t) ==
  \E p \in Positions, v, a \in SpeedArgs, s \in TimeArgs, o \in Options,
     sol \in {0, 8, Junk} :
    Begin(t, CheckPosx(p, CheckJointMove(v, a, s, CheckRadius(o.radius,
             CheckMotionRef(o.ref, CheckModes(o.mod, o.ra,
             CheckIn(sol, Solutions, Filled(p, FindAndPost(
             Motion("movejx", NumbersOf(p, "task"), First(OrElse(v, velj)),
                    First(OrElse(a, accj)), Time(s)))))))))))

(* A posj is accepted here; the code computes qcommand from its type,      *)
(* which the request does not carry.                                       *)
Numbers(p) == NumbersOf(p, "task")

movel(t) ==
  \E p \in Positions, v, a \in SpeedArgs, s \in TimeArgs, o \in Options :
    Begin(t, CheckPos(p, CheckTaskMove(v, a, s, CheckRadius(o.radius,
             CheckMotionRef(o.ref, CheckModes(o.mod, o.ra,
             Filled(p, FindAndPost(
             Motion("movel", Numbers(p), OrElse(v, velx), OrElse(a, accx),
                    Time(s))))))))))

movec(t) ==
  \E p, q \in Positions, v, a \in SpeedArgs, s \in TimeArgs, o \in Options :
    Begin(t, CheckPos(p, CheckPos(q, Check(Numbers(p) = Numbers(q), "TYPE",
             CheckTaskMove(v, a, s, CheckRadius(o.radius, CheckMotionRef(o.ref,
             CheckIn(o.mod, Switch, CheckRadius(o.angle, CheckIn(o.ra, Switch,
             Filled(p, Filled(q, FindAndPost(
             Motion("movec", Numbers(p), OrElse(v, velx), OrElse(a, accx),
                    Time(s)))))))))))))))

(* A list of positions: each must be a posj, a posx or a posb object.      *)
PositionLists == {"posj", "posx", "posb", "other"}

movesj(t) ==
  \E p \in PositionLists, v, a \in SpeedArgs, s \in TimeArgs,
     mod \in {0, 2, Junk} :
    Begin(t, Check(p = "posj", "TYPE", CheckJointMove(v, a, s,
             CheckIn(mod, Switch, Post(
             Motion("movesj", NumbersOf(p, "joint"), OrElse(v, velj),
                    OrElse(a, accj), Time(s)))))))

movesx(t) ==
  \E p \in PositionLists, v, a \in SpeedArgs, s \in TimeArgs, r \in RefArgs,
     mod, opt \in {0, 2, Junk} :
    Begin(t, Check(p = "posx", "TYPE", CheckTaskMove(v, a, s,
             CheckMotionRef(r, CheckIn(mod, Switch, CheckIn(opt, Switch, Post(
             Motion("movesx", NumbersOf(p, "task"), OrElse(v, velx),
                    OrElse(a, accx), Time(s)))))))))

(* moveb asks each segment for its list before it looks at its type, and   *)
(* does not look at the time at all.                                       *)
moveb(t) ==
  \E p \in PositionLists \cup {"empty", Junk}, v, a \in SpeedArgs,
     s \in TimeArgs, r \in RefArgs, mod \in {0, 2, Junk} :
    Begin(t, Check(p # Junk, "TYPE", Check(p # "empty", "VALUE",
             Check(p = "posb", "PYTHON",
             CheckTaskSpeed(v, velx, CheckTaskSpeed(a, accx,
             Check(Time(s) # Junk, "PYTHON",
             CheckUsableTask(OrElse(v, velx), OrElse(a, accx), s,
             CheckMotionRef(r, CheckIn(mod, Switch, Post(
             Motion("moveb", "task", OrElse(v, velx), OrElse(a, accx),
                    Time(s)))))))))))))

(* Task speeds, but with the checks of joint speeds: the default that      *)
(* set_velx leaves with one argument is refused.                           *)
move_spiral(t) ==
  \E rev, rmax, lmax \in {0, 1, Junk}, v, a \in SpeedArgs, s \in TimeArgs,
     axis \in {2, 3, Junk}, r \in RefArgs :
    LET vel == OrElse(v, velx)
        acc == OrElse(a, accx)
    IN
    Begin(t, CheckInt(rev, Check(rev > 0, "VALUE", CheckInt(rmax,
             Check(rmax > 0, "VALUE", CheckInt(lmax,
             CheckSpeed(v, velx, CheckSpeed(a, accx, CheckTime(s,
             CheckUsableJoint(vel, acc, s, CheckIn(axis, Axes,
             CheckInt(r, Check(r \in {BASE, TOOL} \/ IsUser(r), "VALUE",
             FindAndPost(Motion("move_spiral", "task", vel, acc,
                                Time(s))))))))))))))))

(* Amplitudes, periods, acceleration time, repetitions, reference.         *)
move_periodic(t) ==
  \E amp, period \in {"list", "short", "other"}, atime, repeat \in OptArgs,
     r \in RefArgs :
    Begin(t, Check(amp # "other", "TYPE", Check(amp = "list", "VALUE",
             Check(period # "other", "TYPE", Check(period = "list", "VALUE",
             CheckRadius(atime, CheckRadius(repeat,
             CheckRefRange(OrElse(r, TOOL), FindAndPost(Plain)))))))))

move_home(t) == Ask(t)       \* the target goes out as it is given
mwait(t) == \E s \in IntArgs :
  Begin(t, CheckInt(s, Check(s >= 0, "VALUE", Post(Plain))))
check_motion(t) == Ask(t)
change_operation_speed(t) == \E s \in IntArgs :
  Begin(t, CheckIn(s, 1 .. 100, Post(Plain)))

Motions(t) ==
  \/ movej(t) \/ movejx(t) \/ movel(t) \/ movec(t) \/ movesj(t)
  \/ movesx(t) \/ moveb(t) \/ move_spiral(t) \/ move_periodic(t)
  \/ move_home(t) \/ mwait(t) \/ check_motion(t)
  \/ change_operation_speed(t)

=============================================================================
