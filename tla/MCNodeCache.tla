---------------------------- MODULE MCNodeCache ----------------------------
(***************************************************************************)
(* A small instance of NodeCache: two hardware states, two schedules, two  *)
(* RTL sources.  The second RTL only shows in the netlist of the second    *)
(* hardware state, whose toggle instantiates it.                           *)
(***************************************************************************)
EXTENDS NodeCache

MCBaseline == [hw |-> "h0", sw |-> "s0", rtl |-> "r0"]

MCDesigns ==
    {MCBaseline,
     [hw |-> "h1", sw |-> "s0", rtl |-> "r0"],
     [hw |-> "h0", sw |-> "s0", rtl |-> "r1"],
     [hw |-> "h1", sw |-> "s0", rtl |-> "r1"],
     [hw |-> "h1", sw |-> "s1", rtl |-> "r1"]}

(* Rounds and launches where each scope has something to show: reuse within *)
(* a run, reuse between runs, none.                                         *)
MCArgs ==
    {[cache_scope |-> "run", iters |-> 3, repair_budget |-> 1],
     [cache_scope |-> "global", iters |-> 2, repair_budget |-> 0],
     [cache_scope |-> "off", iters |-> 3, repair_budget |-> 1]}

MCNetlist(h, r) == <<h, IF h = "h0" THEN "r0" ELSE r>>

(* With the cache off its content is written and never read.               *)
MCView == <<launch, search, at, tree, round, prevNetlist, prevRtl, pending,
            IF args.cache_scope = "off" THEN <<>> ELSE cache>>
=============================================================================
