---------------------------- MODULE MCSpmmKernel ----------------------------
(***************************************************************************)
(* Instances of SpmmKernel.  The small one has blocks of 2, X three tiles  *)
(* wide and capacities counted in units of 32 bytes, so that the smallest  *)
(* legal scratchpad has 8 tiles: two blocks a chunk fill it to the last    *)
(* tile, and a row of three blocks takes two chunks.                       *)
(***************************************************************************)
EXTENDS SpmmKernel, SpmmWorkloads

MCDesign(kb, chunk, width, resident, dense) ==
  [ meshRows |-> SPMM_DIM, meshColumns |-> SPMM_DIM,
    tileRows |-> 1, tileColumns |-> 1,
    sp_capacity_kb |-> kb, acc_capacity_kb |-> 2,
    sp_banks |-> 4, acc_banks |-> 2,
    max_in_flight_mem_reqs |-> 64, dma_maxbytes |-> 2 * SPMM_DIM,
    dma_buswidth |-> 16,
    num_counter |-> 8, has_normalizations |-> TRUE,
    mvin_scale_shared |-> FALSE,
    zbu_enable |-> FALSE, granule_size |-> SPMM_DIM, zbu_operand |-> "A",
    dense_mode |-> dense, x_resident |-> resident,
    k_chunk |-> chunk, b_blocks |-> width, a_blocks |-> 1 ]

MCAllDesigns ==
  {MCDesign(kb, chunk, width, resident, dense) :
     kb \in {1, 2}, chunk \in 1 .. 4, width \in 0 .. 3,
     resident \in BOOLEAN, dense \in BOOLEAN}

(* Every schedule on two scratchpads; resident X only where it has room.   *)
MCDesigns ==
  {s \in MCAllDesigns :
     s.x_resident => SPMM_KB * J + s.k_chunk <= SpRows(s) \div SPMM_DIM}

(* Block patterns of two rows: a full row and any other.                   *)
MCPatterns ==
  {{<<0, c>> : c \in Cols} \cup {<<1, c>> : c \in S} : S \in SUBSET Cols}

MCPinned == [a_blocks |-> 1]

-----------------------------------------------------------------------------
(* The same check with the constants of the source. *)

Source == INSTANCE T0Legality WITH T0_N <- 64, Kilo <- 1024

SourceDesign(kb, resident) ==
  [MCDesign(kb, 16, 0, resident, FALSE) EXCEPT
     !.meshRows = 16, !.meshColumns = 16, !.acc_capacity_kb = 16,
     !.dma_maxbytes = 64, !.dma_buswidth = 128, !.granule_size = 16]

(* The state that keeps X resident in 32 KB is legal, and X alone takes    *)
(* all of it on the 512-row workloads; at 64 KB the same holds of dnn1024. *)
ASSUME SourceGap ==
  /\ Source!Legal(SourceDesign(32, TRUE), MCPinned)
  /\ \A w \in {dnn512, jag512} :
       XRows(w) + 16 * 16 > Source!SpRows(SourceDesign(32, TRUE))
  /\ Source!Legal(SourceDesign(64, TRUE), MCPinned)
  /\ XRows(dnn1024) + 16 * 16 > Source!SpRows(SourceDesign(64, TRUE))

(* Without resident X no workload needs more than the rules ask for.       *)
ASSUME SourceWidths == \A w \in Workloads : w.N <= 64 /\ w.N % w.DIM = 0
=============================================================================
