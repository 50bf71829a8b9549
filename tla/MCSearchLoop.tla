---------------------------- MODULE MCSearchLoop ----------------------------
(***************************************************************************)
(* A small instance of SearchLoop: one field and two RTL sources, so four  *)
(* legal designs, one illegal one and one edit out of scope.               *)
(***************************************************************************)
EXTENDS SearchRefinement

MCField == {"gate"}

MCBaseline == [gate |-> 0]

(* gate = 2 breaks a legality rule.                                        *)
MCLegalConfig == {c \in Config : c.gate <= 1}

(* The second RTL source only shows in the netlist while the toggle is on. *)
MCNetlist(c, g, r) == <<g.gate, IF g.gate = 0 THEN "r0" ELSE r>>

(* Without an edit out of scope, the pinned tree among them.               *)
MCScopedTree ==
    {[cfg |-> [gate |-> g], rtl |-> "r1", clean |-> TRUE] : g \in 0..2}
        \union {BaseTree}

(* Two legal trees, one that breaks a rule and one out of scope.           *)
MCAgentTree ==
    {[cfg |-> [gate |-> g], rtl |-> "r1", clean |-> TRUE] : g \in 0..2}
        \union {[cfg |-> [gate |-> 1], rtl |-> "r1", clean |-> FALSE]}

(* The diff of an earlier run's design.                                    *)
MCSeedTrees == [cfg: {[gate |-> 1]}, rtl: {"r1"}, clean: {TRUE}]
=============================================================================
