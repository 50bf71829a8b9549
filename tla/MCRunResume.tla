---------------------------- MODULE MCRunResume -----------------------------
(***************************************************************************)
(* A small instance of RunResume: the designs of MCSearchLoop.             *)
(***************************************************************************)
EXTENDS RunResume

MCField == {"gate"}

MCBaseline == [gate |-> 0]

(* gate = 2 breaks a legality rule.                                        *)
MCLegalConfig == {c \in Config : c.gate <= 1}

(* The second RTL source only shows in the netlist while the toggle is on. *)
MCNetlist(c, g, r) == <<g.gate, IF g.gate = 0 THEN "r0" ELSE r>>

(* A legal tree, one that breaks a rule and one out of scope.              *)
MCAgentTree ==
    {[cfg |-> [gate |-> 1], rtl |-> "r1", clean |-> TRUE],
     [cfg |-> [gate |-> 2], rtl |-> "r1", clean |-> TRUE],
     [cfg |-> [gate |-> 0], rtl |-> "r1", clean |-> FALSE]}
=============================================================================
