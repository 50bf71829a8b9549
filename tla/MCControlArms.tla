--------------------------- MODULE MCControlArms ---------------------------
(***************************************************************************)
(* A small instance of ControlArms: a lever that sets two fields together, *)
(* like array_dim, and one that is only legal once the first has moved.    *)
(***************************************************************************)
EXTENDS ControlArms

MCField == {"rows", "cols", "chunk"}

MCBaseline == [f \in MCField |-> 0]

MCLegalConfig ==
    {c \in Config : c.rows = c.cols /\ c.chunk <= c.rows}

MCNetlist(c, g, r) == <<c.rows, r>>

MCLever == {"dim", "chunk"}

MCSets == [dim |-> {"rows", "cols"}, chunk |-> {"chunk"}]

MCReads == [dim |-> "rows", chunk |-> "chunk"]

MCValues == [l \in MCLever |-> 0..MaxLevel]

(* Left out: what an iteration only writes, the history and the records    *)
(* included, but for what the properties ask of it.                        *)
MCView == <<iterVars, parentTree, base, score, armVars, JustRaised>>
=============================================================================
