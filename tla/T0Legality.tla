----------------------------- MODULE T0Legality -----------------------------
(***************************************************************************)
(* The legality check of a design state (src/src/t0_legality.py): the      *)
(* rules a state has to satisfy before anything is built from it.  A state *)
(* is a record with the fields the rules read; `Legal' is the verdict, one *)
(* operator per family of rules.                                           *)
(*                                                                         *)
(* The area rule is left out: the caller passes no predicted area, so the  *)
(* code never applies it.                                                  *)
(***************************************************************************)
EXTENDS Integers

CONSTANTS
  T0_N,    \* SPMM_N of t0_legality.py: the width of X the rules assume (64)
  Kilo     \* bytes in one unit of capacity (1024; less in a small instance)

ASSUME T0Assumption == T0_N \in Nat \ {0} /\ Kilo \in Nat \ {0}

INPUT_W == 8
ACC_W == 32
INPUT_BYTES == 1
ACC_BYTES == 4
MEM_LATENCY_CYCLES == 100
CONCURRENT_GATHER_STREAMS == 3

(* The fields of DesignState that the rules or the kernel read. *)
Design ==
  [ meshRows : Nat, meshColumns : Nat, tileRows : Nat, tileColumns : Nat,
    sp_capacity_kb : Nat, acc_capacity_kb : Nat,
    sp_banks : Nat \ {0}, acc_banks : Nat \ {0},
    max_in_flight_mem_reqs : Nat, dma_maxbytes : Nat, dma_buswidth : Nat,
    num_counter : Nat, has_normalizations : BOOLEAN,
    mvin_scale_shared : BOOLEAN,
    zbu_enable : BOOLEAN, granule_size : Nat, zbu_operand : STRING,
    dense_mode : BOOLEAN, x_resident : BOOLEAN,
    k_chunk : Nat, b_blocks : Nat, a_blocks : Nat ]

MaxOf(a, b) == IF a < b THEN b ELSE a

(* Every width compared is far below 2^30. *)
IsPow2(n) == \E e \in 0 .. 30 : n = 2 ^ e

-----------------------------------------------------------------------------
(* What Gemmini derives from the parameters. *)

BlockRows(s) == s.meshRows * s.tileRows
BlockCols(s) == s.meshColumns * s.tileColumns
Dim(s) == BlockRows(s)

(* Rows of `width' bits in each of `banks' banks of a memory of `kb'. *)
BankEntries(kb, banks, width) ==
  IF width = 0 THEN 0 ELSE (kb * Kilo * 8) \div (banks * width)

SpBankEntries(s) ==
  BankEntries(s.sp_capacity_kb, s.sp_banks, BlockCols(s) * INPUT_W)
AccBankEntries(s) ==
  BankEntries(s.acc_capacity_kb, s.acc_banks, BlockCols(s) * ACC_W)
SpRows(s) == s.sp_banks * SpBankEntries(s)
AccRows(s) == s.acc_banks * AccBankEntries(s)

-----------------------------------------------------------------------------
(* The rules, in the families of the source. *)

(* The fields that select the benchmark keep the values of the launch. *)
Frozen(s, pinned) == \A f \in DOMAIN pinned : s[f] = pinned[f]

Elaborates(s) ==
  /\ BlockRows(s) = BlockCols(s)
  /\ BlockCols(s) >= 2
  /\ IsPow2(BlockCols(s))
  /\ s.num_counter < 256
  /\ SpBankEntries(s) > 0
  /\ IsPow2(SpBankEntries(s))
  /\ SpBankEntries(s) % BlockRows(s) = 0
  /\ AccBankEntries(s) > 0
  /\ AccBankEntries(s) % BlockRows(s) = 0
  /\ SpRows(s) \div Dim(s) - 2 >= AccRows(s) \div Dim(s)
  /\ ~s.mvin_scale_shared

WorkingSetFits(s) ==
  /\ (Dim(s) * Dim(s) + Dim(s) * T0_N) * INPUT_BYTES * 2
       <= s.sp_capacity_kb * Kilo
  /\ Dim(s) * T0_N * ACC_BYTES <= s.acc_capacity_kb * Kilo
  /\ AccRows(s) >= Dim(s)

ZbuFits(s) ==
  /\ s.granule_size > 0
  /\ Dim(s) % s.granule_size = 0
  /\ s.zbu_operand \in {"A", "B", "BOTH"}
  /\ s.zbu_enable => SpRows(s) * (Dim(s) \div MaxOf(1, s.granule_size)) * 20
                       <= s.sp_capacity_kb * Kilo * 8

(* Tiles of X's width, by the width the rules assume. *)
JTiles(s) == MaxOf(1, T0_N \div Dim(s))

(* Fault: the coupled rule on the chunk of A and X is missing. *)
ScheduleFits_NoChunk(s) ==
  /\ s.k_chunk >= 1
  /\ s.b_blocks <= MaxOf(1, s.dma_maxbytes \div Dim(s))
  /\ s.a_blocks = 1

ScheduleFits(s) ==
  /\ s.k_chunk >= 1
  /\ s.k_chunk * Dim(s) * (1 + JTiles(s)) <= SpRows(s)
  /\ s.b_blocks <= MaxOf(1, s.dma_maxbytes \div Dim(s))
  /\ s.a_blocks = 1

MemorySystemServes(s) ==
  /\ s.sp_banks >= CONCURRENT_GATHER_STREAMS
  /\ s.max_in_flight_mem_reqs * s.dma_maxbytes
       >= (s.dma_buswidth \div 8) * MEM_LATENCY_CYCLES
  /\ s.has_normalizations

Legal(s, pinned) ==
  /\ Frozen(s, pinned)
  /\ Elaborates(s)
  /\ WorkingSetFits(s)
  /\ ZbuFits(s)
  /\ ScheduleFits(s)
  /\ MemorySystemServes(s)
=============================================================================
