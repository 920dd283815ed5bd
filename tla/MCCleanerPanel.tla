--------------------------- MODULE MCCleanerPanel ---------------------------
EXTENDS CleanerPanel

RealTasks == TaskOps

(* Every value a button can send with the numbers typed.                   *)
ButtonValues == {0, 1, 2, 3, 5} \cup {n + 100 : n \in Typed}
                  \cup {n + 200 : n \in Typed}

(* Fewer starts: the roller and the full task add length and no new        *)
(* interleaving with the panel.                                            *)
FewValues == ButtonValues \ {1, 3}
=============================================================================
