------------------------------ MODULE MCBringup ------------------------------
EXTENDS Bringup

(* Every launch file, with none of its flags, with any one to three and    *)
(* with all.                                                               *)
MCFlags == {F \in SUBSET Flags : Cardinality(F) <= 3} \cup {Flags}
=============================================================================
