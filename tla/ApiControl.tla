------------------------------ MODULE ApiControl ------------------------------
(***************************************************************************)
(* DSR_ROBOT2.py, L3827-L5682: altering a motion, jogging, the axes of the *)
(* tool, force and compliance control, conditions, and user coordinates.   *)
(* None of these functions looks for its service.                          *)
(***************************************************************************)
EXTENDS ApiMotion, FiniteSets

enable_alter_motion(t) == \E n, mode \in IntArgs, r \in RefArgs :
  Begin(t, CheckInt(n, Check(n >= 0, "TYPE", Check(mode # Junk, "PYTHON",
           Check(mode \in {0, 1}, "VALUE", CheckRef(OrElse(r, coord),
           Post(Plain)))))))

(* A posx is what the function refuses; a list becomes one, and a posj     *)
(* goes out as it is.                                                      *)
alter_motion(t) == \E p \in Positions :
  Begin(t, Check(p # "posx", "TYPE", CheckPos(p, Filled(p,
           Post(Alteration("alter_motion", NumbersOf(p, "task")))))))
disable_alter_motion(t) == Ask(t)

set_singular_handling(t) == \E m \in IntArgs :
  Begin(t, CheckIn(m, 0 .. 2, Post(Plain)))
set_singularity_handling(t) == set_singular_handling(t)

jog(t) == \E axis, ref, speed \in IntArgs :
  Begin(t, CheckInt(axis, CheckInt(ref, CheckInt(speed, Post(Plain)))))
jog_multi(t) == \E axes \in {"list", "text", "other"}, ref, speed \in IntArgs :
  Begin(t, Check(axes # "other", "TYPE", CheckInt(ref, CheckInt(speed,
           Check(axes = "list", "PYTHON", Post(Plain))))))

get_workpiece_weight(t) == Ask(t)
reset_workpiece_weight(t) == Ask(t)

is_done_bolt_tightening(t) == \E m, wait, axis \in OptArgs :
  Begin(t, CheckInt(m, CheckInt(wait, Check(wait >= 0, "VALUE",
           CheckIn(axis, Axes, Post(Plain))))))

-----------------------------------------------------------------------------
(* Force and compliance.  A list has six numbers, or a first or a later    *)
(* entry that is none, or is no list of six.  These work in the reference  *)
(* coordinate that is set.                                                 *)
SixLists == {"list", "text", "tail", "other"}
CheckSix(x, rest) ==
  Check(x # "other", "TYPE", Check(x # "text", "VALUE", rest))
CheckRamp(s, rest) ==
  CheckInt(s, Check(s >= 0 \/ s = 0 - 1, "VALUE", rest))

release_compliance_ctrl(t) == Ask(t)
task_compliance_ctrl(t) == \E stx \in SixLists, s \in IntArgs :
  Begin(t, CheckSix(stx, CheckRamp(s, Filled(stx, Post(Plain)))))
set_stiffnessx(t) == \E stx \in SixLists, s \in IntArgs :
  Begin(t, CheckSix(stx, CheckRamp(s, Filled(stx, Post(Plain)))))

(* The directions go into a list of bytes as they are.                     *)
set_desired_force(t) == \E fd, dir \in SixLists, s, mod \in IntArgs :
  Begin(t, CheckSix(fd, CheckSix(dir, CheckRamp(s, CheckInt(mod,
           Filled(fd, Filled(dir, Post(Plain))))))))
release_force(t) == \E s \in IntArgs : Begin(t, CheckRamp(s, Post(Plain)))

-----------------------------------------------------------------------------
(* Conditions: an axis, a range of which one end at least is set, and a    *)
(* reference.                                                              *)
AxisArgs == {0, 10, 20, Junk}
Ends == IntArgs \cup {Unset}
CheckRange(min, max, rest) ==
  Check(min # Unset \/ max # Unset, "VALUE",
        Check(min = Unset \/ max = Unset \/ min <= max, "VALUE", rest))
PositionArgs == Positions \cup {None}

check_position_condition(t) ==
  \E axis \in IntArgs, min, max \in Ends, r \in RefArgs, mod \in {0, 1, 2, Junk},
     p \in PositionArgs :
    Begin(t, CheckIn(axis, Axes, CheckInt(min, CheckInt(max,
             CheckRange(min, max, CheckMotionRef(r, CheckIn(mod, {0, 1},
             IF p = None THEN Check(mod = 0, "VALUE", Post(Plain))
             ELSE CheckPos(p, Filled(p, Post(Plain))))))))))

check_force_condition(t) ==
  \E axis \in AxisArgs, min, max \in Ends, r \in RefArgs :
    Begin(t, CheckIn(axis, Axes \cup RotAxes, CheckInt(min, CheckInt(max,
             Check(min # Unset \/ max # Unset, "VALUE",
             Check(min = Unset \/ min >= 0, "VALUE",
             Check(max = Unset \/ max >= 0, "VALUE",
             CheckRange(min, max, CheckMotionRef(r, Post(Plain))))))))))

(* The ends of an orientation are two positions or two numbers, of which   *)
(* either may be left out; a position and a number do not go together.  A  *)
(* mode given must be the one of that type.  Numbers are relative to a     *)
(* position.                                                               *)
BetweenPositions(t, min, max, r, mod) ==
  Begin(t, Check({min, max} \cap {"posj", "other"} = {}, "TYPE",
           Check("text" \notin {min, max}, "VALUE",
           CheckMotionRef(r, CheckIn(OrElse(mod, 0), {0},
           Filled(min, Filled(max, Post(Plain))))))))

BetweenNumbers(t, min, max, r, mod, p) ==
  Begin(t, CheckRange(OrElse(min, Unset), OrElse(max, Unset),
           CheckMotionRef(r, CheckIn(OrElse(mod, 1), {1},
           Check(p # None, "VALUE",
           CheckPos(p, Filled(p, Post(Plain))))))))

check_orientation_condition(t) ==
  \E axis \in AxisArgs, r \in RefArgs, mod \in {None, 0, 1, Junk} :
    IF axis \notin RotAxes THEN Begin(t, CheckIn(axis, RotAxes, Post(Plain)))
    ELSE \/ Begin(t, Raise("TYPE"))
         \/ \E min, max \in PositionArgs : BetweenPositions(t, min, max, r, mod)
         \/ \E min, max \in Ints \cup {None}, p \in PositionArgs :
              /\ {min, max} # {None}
              /\ BetweenNumbers(t, min, max, r, mod, p)

coord_transform(t) == \E p \in Positions, r, out \in RefArgs :
  Begin(t, CheckPos(p, CheckInt(r, CheckInt(out, Filled(p, Post(Plain))))))

-----------------------------------------------------------------------------
(* Functions of *args and **kargs tell their forms apart by the number of  *)
(* positional arguments and by the keywords.  A form is such a pair; Forms *)
(* are those that give the named arguments in their order, the first n by  *)
(* position.                                                               *)
Forms(names, counts) ==
  {<<n, {names[i] : i \in n + 1 .. Len(names)}>> : n \in counts}

x123 == <<"x1", "x2", "x3">>
Named3 == {"x1", "x2", "x3"}

(* A form given with one argument of each sort: positions, a vector, an    *)
(* axis, a reference.                                                      *)
Vectors == {"vector", "short", "other"}
CheckVector(v, rest) ==
  Check(v # "other", "TYPE", Check(v = "vector", "VALUE", rest))
CheckAxis(axis, rest) == CheckIn(axis, Axes, rest)
CheckBaseOrWorld(r, rest) == Check(r \in {BASE, WORLD}, "VALUE", rest)

ParallelPoints == [plain |-> Forms(x123 \o <<"axis">>, {0, 3, 4}),
                   ref |-> Forms(x123 \o <<"axis", "ref">>, {0, 4, 5})]
ParallelVector == [plain |-> Forms(<<"vect", "axis">>, {0, 1, 2}),
                   ref |-> Forms(<<"vect", "axis", "ref">>, {0, 2, 3})]
ParallelNames == Named3 \cup {"vect", "axis", "ref", "else"}

(* The form with a vector and no reference runs into undefined names.      *)
parallel_axis(t) ==
  \E f \in (0 .. 6) \X SUBSET ParallelNames :
    LET points == f \in ParallelPoints.plain \cup ParallelPoints.ref
        vector == f \in ParallelVector.plain \cup ParallelVector.ref
        ref    == f \in ParallelPoints.ref \cup ParallelVector.ref
    IN
    IF ~points /\ ~vector THEN Begin(t, Raise("TYPE"))
    ELSE \E p \in Positions, v \in Vectors, axis \in IntArgs,
            r \in IF ref THEN RefArgs ELSE {BASE} :
      LET Rest == CheckAxis(axis, CheckBaseOrWorld(r,
                    IF points THEN Filled(p, Post(Plain))
                    ELSE Check(ref, "PYTHON", Post(Plain))))
      IN Begin(t, IF points THEN CheckPosx(p, Rest) ELSE CheckVector(v, Rest))

AlignPoints == [plain |-> Forms(x123 \o <<"pos", "axis">>, {0, 3, 4, 5}),
                ref |-> Forms(x123 \o <<"pos", "axis", "ref">>, {0, 5, 6})]
AlignVector == [plain |-> Forms(<<"vect", "pos", "axis">>, {0, 1, 2, 3}),
                ref |-> Forms(<<"vect", "pos", "axis", "ref">>, {0, 3, 4})]
AlignNames == ParallelNames \cup {"pos"}

(* Five positional arguments with two keywords or more are ignored: the    *)
(* keywords alone must do.                                                 *)
Ignoring(f, names) ==
  f[1] = 5 /\ names \subseteq f[2] /\ "else" \notin f[2]

align_axis(t) ==
  \E f \in (0 .. 7) \X SUBSET AlignNames :
    LET ref    == f \in AlignPoints.ref \cup AlignVector.ref
        points == \/ f \in AlignPoints.plain \cup AlignPoints.ref
                  \/ Ignoring(f, Named3 \cup {"pos", "axis"})
        vector == \/ f \in AlignVector.plain \cup AlignVector.ref
                  \/ Ignoring(f, {"vect", "pos", "axis"})
                     /\ "x1" \notin f[2]
    IN
    IF ~points /\ ~vector THEN Begin(t, Raise("TYPE"))
    ELSE \E p, q \in Positions, v \in Vectors, axis \in IntArgs,
            r \in IF ref THEN RefArgs ELSE {BASE} :
      LET Rest == CheckPosx(q, CheckAxis(axis, CheckBaseOrWorld(r,
                    Check(~points \/ p # "tail", "PYTHON",
                    Filled(q, Post(Plain))))))
      IN Begin(t, IF points THEN CheckPosx(p, Rest) ELSE CheckVector(v, Rest))

(* Any keywords make a form of calc_coord, only their number counts; a     *)
(* reference or a mode left out goes into the request as None, which it    *)
(* does not take.                                                          *)
CoordNames == Named3 \cup {"x4", "ref", "mod", "else"}
IsCoordForm(n, k) ==
  \/ n = 0 /\ k \in 3 .. 6
  \/ n \in 1 .. 4 /\ k = 2
  \/ n \in 3 .. 6 /\ k = 0

calc_coord(t) ==
  \E f \in (0 .. 7) \X SUBSET CoordNames :
    IF "else" \in f[2] \/ ~IsCoordForm(f[1], Cardinality(f[2]))
    THEN Begin(t, Raise("TYPE"))
    ELSE LET Given(name) == f[2] = {} \/ name \in f[2] IN
      \E p \in Positions, r, mod \in IntArgs :
        Begin(t, CheckPosx(p,
                 Check(Given("ref") => r \in {BASE, WORLD}, "VALUE",
                 Check(Given("mod") => mod \in {0, 1}, "VALUE",
                 Check(Given("ref") /\ Given("mod"), "PYTHON",
                 Filled(p, Post(Plain)))))))

(* Two forms that L4850 lists are refused: (u1, v1, pos=...) and (x1, x2,  *)
(* x3, pos=...) raise just when pos is given.  Without pos, and in other   *)
(* forms that leave an argument out, None is taken for a list; three       *)
(* points alone end in an unbound variable.                                *)
UserNames == Named3 \cup {"pos", "u1", "v1", "ref", "else"}
UserBaseForms ==
  Forms(x123 \o <<"pos">>, {0, 1, 4}) \cup {<<5, {}>>}
  \cup Forms(<<"u1", "v1", "pos">>, {0}) \cup {<<1, {"u1", "v1"}>>, <<3, {}>>}
UserRefForms ==
  Forms(<<"pos", "ref">>, {0, 1, 2})
  \cup Forms(x123 \o <<"pos", "ref">>, {0, 4})
  \cup Forms(<<"u1", "v1", "pos", "ref">>, {0, 3})
UserBrokenForms ==
  {<<0, Named3>>}
  \cup {f \in {0} \X SUBSET (UserNames \ {"else"}) :
          "ref" \in f[2] /\ Cardinality(f[2]) \in {2, 4}}
  \cup {<<2, {k}>> : k \in UserNames \ {"else", "pos"}}
  \cup {<<3, {k}>> : k \in UserNames \ {"else", "pos", "ref"}}

set_user_cart_coord(t) ==
  \E f \in (0 .. 6) \X SUBSET UserNames :
    IF f \notin UserBaseForms \cup UserRefForms \cup UserBrokenForms
    THEN Begin(t, Raise("TYPE"))
    ELSE \E p \in Positions, r \in IntArgs, three \in BOOLEAN :
      LET broken == \/ f \notin UserBaseForms \cup UserRefForms
                    \/ f = <<3, {}>> /\ three        \* three points
      IN Begin(t, CheckPosx(p,
                  Check(f \in UserBaseForms \/ r \in {BASE, WORLD}, "VALUE",
                  Check(~broken, "PYTHON", Filled(p, Post(Plain))))))

overwrite_user_cart_coord(t) == \E p \in Positions, r \in RefArgs :
  Begin(t, CheckPosx(p, CheckFixedRef(r, Filled(p, Post(Plain)))))
get_user_cart_coord(t) == Ask(t)

Controls(t) ==
  \/ enable_alter_motion(t) \/ alter_motion(t) \/ disable_alter_motion(t)
  \/ set_singular_handling(t) \/ set_singularity_handling(t) \/ jog(t)
  \/ jog_multi(t) \/ get_workpiece_weight(t) \/ reset_workpiece_weight(t)
  \/ is_done_bolt_tightening(t) \/ release_compliance_ctrl(t)
  \/ task_compliance_ctrl(t) \/ set_stiffnessx(t) \/ set_desired_force(t)
  \/ release_force(t) \/ check_position_condition(t)
  \/ check_force_condition(t) \/ check_orientation_condition(t)

Coordinates(t) ==
  \/ parallel_axis(t) \/ align_axis(t) \/ calc_coord(t)
  \/ set_user_cart_coord(t) \/ overwrite_user_cart_coord(t)
  \/ get_user_cart_coord(t) \/ coord_transform(t)

=============================================================================
