---------------------------- MODULE MCRepairLoop ----------------------------
(***************************************************************************)
(* A small instance of RepairLoop.  Two fields: a hardware toggle ("gate") *)
(* and a software schedule field ("k").  The second RTL source only shows  *)
(* in the netlist while the toggle is on, as logic behind a Scala `if`.    *)
(***************************************************************************)
EXTENDS RepairLoop

MCField == {"gate", "k"}

MCBaseline == [gate |-> 0, k |-> 1]

(* gate = 2 breaks a legality rule, and so does the largest schedule while *)
(* the toggle is on: the two fields are coupled, as capacity and k_chunk   *)
(* are.                                                                    *)
MCLegalConfig == {c \in Config : c.gate + c.k <= 2}

MCNetlist(c, g, r) == <<g.gate, IF g.gate = 0 THEN "r0" ELSE r>>

(* Clean trees: the toggle off or on, or (with a rewritten RTL) pushed to  *)
(* an illegal value that a repair may move part of the way back; and one   *)
(* out-of-scope edit beside a moved schedule.                              *)
MCAgentTree ==
    {t \in Tree :
        \/ t.clean /\ t.cfg.gate <= 1 /\ (t.rtl = "r0" \/ t.cfg.k # 0)
        \/ t.clean /\ t.rtl # "r0" /\ t.cfg = [gate |-> 2, k |-> 1]
        \/ ~t.clean /\ t.rtl # "r0" /\ t.cfg = [gate |-> 0, k |-> 2]}
=============================================================================
