----------------------------- MODULE SpmmKernel -----------------------------
(***************************************************************************)
(* The measurement kernel (src/kernels/spmm.c) on a Gemmini that the       *)
(* legality check accepted: the processor issues loads, products and       *)
(* stores, and the accelerator completes them later, possibly out of       *)
(* order.                                                                  *)
(*                                                                         *)
(* Addresses are counted in tiles of SPMM_DIM rows.  All addresses of the  *)
(* kernel are multiples of that, and so is the size of a legal scratchpad. *)
(* A tile holds the name of the block moved into it; a sum is the bag of   *)
(* its products.                                                           *)
(*                                                                         *)
(* The accelerator is external.  What the kernel relies on, having no      *)
(* fence between its passes, is that commands of one kind complete in the  *)
(* order they were issued and that a command waits for the earlier ones    *)
(* whose scratchpad or accumulator tiles it shares.                        *)
(***************************************************************************)
EXTENDS T0Legality, FiniteSets, Sequences, SequencesExt, Bags

CONSTANTS
  SPMM_N, SPMM_DIM, SPMM_MB, SPMM_KB,   \* the shape of the workload
  Designs,      \* the design states the search may propose
  Patterns,     \* the sets of nonzero blocks A may have
  AccRes,       \* the values of the build flag SPMM_ACCRES
  Pinned,       \* the fields of the state frozen for the run
  InFlight      \* how many commands may be issued and not complete

ASSUME KernelAssumption ==
  /\ SPMM_DIM \in Nat \ {0} /\ SPMM_N \in Nat \ {0}
  /\ SPMM_N % SPMM_DIM = 0 /\ SPMM_N <= T0_N
  /\ SPMM_N <= SPMM_DIM * (SPMM_DIM + 1)
  /\ SPMM_MB \in Nat \ {0} /\ SPMM_KB \in Nat \ {0}
  /\ Designs \subseteq Design
  /\ \A s \in Designs : Dim(s) = SPMM_DIM /\ s.dma_maxbytes >= SPMM_DIM
  /\ AccRes \subseteq BOOLEAN
  /\ InFlight \in Nat \ {0}

Rows == 0 .. SPMM_MB - 1
Cols == 0 .. SPMM_KB - 1
J == SPMM_N \div SPMM_DIM
Tiles == 0 .. J - 1

VARIABLES
  design,     \* the state the kernel was built from
  accres,     \* SPMM_ACCRES
  blocks,     \* the nonzero blocks of A: spmm_blk_row, spmm_blk_col
  plan,       \* row_C: the block columns of each row, in the order walked
  at,         \* which loop of the program issues next
  row,        \* bi
  done,       \* blocks of the row in chunks already issued
  k, j,       \* the inner loop counters
  stride,     \* the row stride of loads, as last configured
  issued,     \* the commands issued and not complete, oldest first
  sp,         \* the scratchpad
  acc,        \* the accumulator
  Y,          \* the result in memory
  mismatch    \* the kernel's own comparison found a difference

program == <<at, row, done, k, j, stride>>
fixed == <<design, accres, blocks, plan>>
vars == <<fixed, program, issued, sp, acc, Y, mismatch>>

Contract == INSTANCE SpmmContract

-----------------------------------------------------------------------------
(* Names of what is moved.  A load with the wrong stride moves no block. *)

Zero == <<"Zero">>
Junk == <<"Junk">>
ABlock(r, c) == IF <<r, c>> \in blocks THEN Contract!ABlock(r, c) ELSE Zero

(* The plan of one row: sparse, its nonzero blocks; dense, all columns. *)
Walked(r) == {c \in Cols : design.dense_mode \/ <<r, c>> \in blocks}
Lists(p, S) ==
  /\ Range(p) = S
  /\ \A a, b \in DOMAIN p : a < b => p[a] < p[b]
Walks == UNION {[1 .. n -> Cols] : n \in 0 .. SPMM_KB}

-----------------------------------------------------------------------------
(* The layout of the scratchpad, in tiles. *)

SpTiles == SpRows(design) \div SPMM_DIM
AccTiles == AccRows(design) \div SPMM_DIM

B_BLOCKS ==
  IF design.b_blocks > 0 THEN design.b_blocks
  ELSE IF J < design.dma_maxbytes \div SPMM_DIM
       THEN J ELSE design.dma_maxbytes \div SPMM_DIM

(* X stays below A when it is resident; else B's window ends the scratchpad. *)
A_SP_BASE == IF design.x_resident THEN SPMM_KB * J ELSE 0

K == IF Len(plan[row]) - done > design.k_chunk THEN design.k_chunk
     ELSE Len(plan[row]) - done
B_sp == SpTiles - K * J

Col(i) == plan[row][done + i + 1]
AAddr(i) == A_SP_BASE + i
BAddr(i, t) == IF design.x_resident THEN Col(i) * J + t ELSE B_sp + i * J + t

(* How many column tiles one load of X takes from tile t on. *)
Width(t) == IF t + B_BLOCKS <= J THEN B_BLOCKS ELSE J - t

-----------------------------------------------------------------------------
(* The commands, and what each reads and writes.                           *)

Load(to, items) == [op |-> "mvin", to |-> to, items |-> items]
Compute(a, b, out, accumulate) ==
  [op |-> "compute", a |-> a, b |-> b, out |-> out, accumulate |-> accumulate]
Store(r, t) == [op |-> "mvout", row |-> r, tile |-> t]

SpReads(c) == IF c.op = "compute" THEN {c.a, c.b} ELSE {}
SpWrites(c) == IF c.op = "mvin" THEN c.to .. c.to + Len(c.items) - 1 ELSE {}
AccUses(c) == CASE c.op = "mvin" -> {}
                [] c.op = "compute" -> {c.out}
                [] c.op = "mvout" -> {c.tile}

Shares(c, d) ==
  \/ SpWrites(c) \cap (SpReads(d) \cup SpWrites(d)) # {}
  \/ SpReads(c) \cap SpWrites(d) # {}
  \/ AccUses(c) \cap AccUses(d) # {}

MayComplete(n) ==
  \A m \in 1 .. n - 1 : /\ issued[m].op # issued[n].op
                        /\ ~Shares(issued[m], issued[n])

-----------------------------------------------------------------------------
(* The processor.  Each loop issues its command and moves its counters.    *)

Issue(c) ==
  /\ Len(issued) < InFlight
  /\ issued' = Append(issued, c)
  /\ UNCHANGED <<fixed, sp, acc, Y, mismatch>>

Moved(name, at_stride) == IF stride = at_stride THEN name ELSE Junk
Slices(c, t) ==
  [i \in 1 .. Width(t) |-> Moved(Contract!XSlice(c, t + i - 1), SPMM_N)]

(* Fault: the stride of A's loads is not configured again after X's. *)
Enter_KeepsStride(loop) ==
  /\ at' = loop /\ k' = 0 /\ j' = 0
  /\ stride' = IF loop = "loadX" THEN SPMM_N ELSE stride

(* Enter a loop; the two that load configure their stride first. *)
Enter(loop) ==
  /\ at' = loop /\ k' = 0 /\ j' = 0
  /\ stride' = CASE loop = "loadX" -> SPMM_N
                 [] loop = "loadA" -> SPMM_DIM
                 [] OTHER -> stride

(* Fault: the inner loop tests <= where it should test <. *)
Advance_Closed(next_j, last, loop) ==
  \/ /\ next_j <= J
     /\ j' = next_j
     /\ UNCHANGED <<at, k, stride>>
  \/ /\ next_j > J /\ k + 1 < last
     /\ j' = 0 /\ k' = k + 1
     /\ UNCHANGED <<at, stride>>
  \/ /\ next_j > J /\ k + 1 >= last
     /\ Enter(loop)

(* Two nested loops: j up to J, k up to `last'; then on to `loop'. *)
Advance(next_j, last, loop) ==
  \/ /\ next_j < J
     /\ j' = next_j
     /\ UNCHANGED <<at, k, stride>>
  \/ /\ next_j >= J /\ k + 1 < last
     /\ j' = 0 /\ k' = k + 1
     /\ UNCHANGED <<at, stride>>
  \/ /\ next_j >= J /\ k + 1 >= last
     /\ Enter(loop)

FirstLoop == IF design.x_resident THEN "loadA" ELSE "loadX"
LastInChunk == k + 1 >= K /\ j + 1 >= J

(* All of X moves in once, before the rows. *)
PreloadX ==
  /\ at = "preload"
  /\ Issue(Load(k * J + j, Slices(k, j)))
  /\ Advance(j + B_BLOCKS, SPMM_KB, "fence")
  /\ UNCHANGED <<row, done>>

FenceX ==
  /\ at = "fence" /\ issued = <<>>
  /\ Enter("rows")
  /\ UNCHANGED <<fixed, row, done, issued, sp, acc, Y, mismatch>>

SkipEmptyRow ==
  /\ at = "rows" /\ row < SPMM_MB
  /\ plan[row] = <<>>
  /\ row' = row + 1
  /\ UNCHANGED <<fixed, at, done, k, j, stride, issued, sp, acc, Y, mismatch>>

RowMac ==
  /\ at = "rows" /\ row < SPMM_MB /\ accres
  /\ plan[row] # <<>>
  /\ done' = 0
  /\ Enter(FirstLoop)
  /\ UNCHANGED <<fixed, row, issued, sp, acc, Y, mismatch>>

LoadX ==
  /\ at = "loadX"
  /\ Issue(Load(BAddr(k, j), Slices(Col(k), j)))
  /\ Advance(j + B_BLOCKS, K, "loadA")
  /\ UNCHANGED <<row, done>>

LoadA ==
  /\ at = "loadA"
  /\ Issue(Load(AAddr(k), <<Moved(ABlock(row, Col(k)), SPMM_DIM)>>))
  /\ Advance(J, K, "mac")
  /\ UNCHANGED <<row, done>>

(* Fault: the first product of every chunk overwrites it. *)
Accumulates_NotAcrossChunks == k # 0

(* The first product of the row overwrites the accumulator. *)
Accumulates == ~(k = 0 /\ done = 0)

MacTile ==
  /\ at = "mac"
  /\ Issue(Compute(AAddr(k), BAddr(k, j), j, Accumulates))
  /\ Advance(j + 1, K,
             IF done + K < Len(plan[row]) THEN FirstLoop ELSE "store")
  /\ done' = IF LastInChunk THEN done + K ELSE done
  /\ UNCHANGED row

StoreY ==
  /\ at = "store"
  /\ Issue(Store(row, j))
  /\ Advance(j + 1, 1, "rows")
  /\ row' = IF j + 1 < J THEN row ELSE row + 1
  /\ UNCHANGED done

-----------------------------------------------------------------------------
(* The accelerator.                                                        *)

Held(a) == IF a \in DOMAIN sp THEN sp[a] ELSE Junk
Term(a, b) == IF a = Zero THEN EmptyBag ELSE SetToBag({<<a, b>>})

Retire(n) ==
  /\ n \in DOMAIN issued /\ MayComplete(n)
  /\ issued' = RemoveAt(issued, n)
  /\ UNCHANGED <<fixed, program, mismatch>>

CompleteLoad(n) ==
  /\ Retire(n) /\ issued[n].op = "mvin"
  /\ sp' = [a \in DOMAIN sp |->
              IF a \in SpWrites(issued[n])
              THEN issued[n].items[a - issued[n].to + 1] ELSE sp[a]]
  /\ UNCHANGED <<acc, Y>>

CompleteProduct(n) ==
  /\ Retire(n) /\ issued[n].op = "compute"
  /\ acc' = [acc EXCEPT ![issued[n].out] =
               (IF issued[n].accumulate THEN @ ELSE EmptyBag)
                 (+) Term(Held(issued[n].a), Held(issued[n].b))]
  /\ UNCHANGED <<sp, Y>>

CompleteStore(n) ==
  /\ Retire(n) /\ issued[n].op = "mvout"
  /\ Y' = [Y EXCEPT ![issued[n].row][issued[n].tile] = acc[issued[n].tile]]
  /\ UNCHANGED <<sp, acc>>

(* Fault: every block overwrites Y. *)
BlockMac_Overwrites ==
  /\ at = "rows" /\ row < SPMM_MB /\ ~accres
  /\ k < Len(plan[row])
  /\ LET c == plan[row][k + 1] IN
       Y' = [Y EXCEPT ![row] = [t \in Tiles |->
               Term(ABlock(row, c), Contract!XSlice(c, t))]]
  /\ IF k + 1 < Len(plan[row]) THEN k' = k + 1 /\ UNCHANGED row
                               ELSE k' = 0 /\ row' = row + 1
  /\ UNCHANGED <<fixed, at, done, j, stride, issued, sp, acc, mismatch>>

(* Without SPMM_ACCRES: one library call per block, which adds to Y in     *)
(* memory and returns when that is done.                                   *)
BlockMac ==
  /\ at = "rows" /\ row < SPMM_MB /\ ~accres
  /\ k < Len(plan[row])
  /\ LET c == plan[row][k + 1] IN
       Y' = [Y EXCEPT ![row] = [t \in Tiles |->
               (IF k = 0 THEN EmptyBag ELSE @[t])
                 (+) Term(ABlock(row, c), Contract!XSlice(c, t))]]
  /\ IF k + 1 < Len(plan[row]) THEN k' = k + 1 /\ UNCHANGED row
                               ELSE k' = 0 /\ row' = row + 1
  /\ UNCHANGED <<fixed, at, done, j, stride, issued, sp, acc, mismatch>>

-----------------------------------------------------------------------------
(* The clock is read after the last row was issued; then the kernel        *)
(* compares Y with the golden result.                                      *)

StopClock ==
  /\ at = "rows" /\ row = SPMM_MB
  /\ Enter("compare")
  /\ row' = 0
  /\ UNCHANGED <<fixed, done, issued, sp, acc, Y, mismatch>>

Compare ==
  /\ at = "compare"
  /\ mismatch' = (mismatch \/ Y[row] # Contract!Golden[row])
  /\ row' = (row + 1) % SPMM_MB
  /\ at' = IF row + 1 < SPMM_MB THEN at ELSE "end"
  /\ UNCHANGED <<fixed, done, k, j, stride, issued, sp, acc, Y>>

-----------------------------------------------------------------------------
Init ==
  /\ design \in {s \in Designs : Legal(s, Pinned)}
  /\ accres \in AccRes
  /\ blocks \in Patterns
  /\ plan \in [Rows -> Walks]
  /\ \A r \in Rows : Lists(plan[r], Walked(r))
  /\ at = IF design.x_resident THEN "preload" ELSE "rows"
  /\ row = 0 /\ done = 0 /\ k = 0 /\ j = 0
  /\ stride = IF design.x_resident THEN SPMM_N ELSE 0
  /\ issued = <<>>
  /\ sp = [a \in 0 .. SpTiles - 1 |-> Junk]
  /\ acc = [t \in Tiles |-> SetToBag({<<Junk, Junk>>})]
  /\ Y = [r \in Rows |-> [t \in Tiles |-> EmptyBag]]
  /\ mismatch = FALSE

Processor ==
  \/ PreloadX \/ FenceX
  \/ SkipEmptyRow \/ RowMac \/ LoadX \/ LoadA \/ MacTile \/ StoreY
  \/ BlockMac
  \/ StopClock \/ Compare

Accelerator ==
  \E n \in 1 .. Len(issued) :
    CompleteLoad(n) \/ CompleteProduct(n) \/ CompleteStore(n)

Next == Processor \/ Accelerator

(* The processor runs the program to its end, and the accelerator does not *)
(* hold a command for ever that it may complete.                           *)
Spec == Init /\ [][Next]_vars /\ WF_vars(Processor) /\ WF_vars(Accelerator)

-----------------------------------------------------------------------------
(* Properties.                                                             *)

Contents == {Zero, Junk} \cup {Contract!ABlock(r, c) : r \in Rows, c \in Cols}
              \cup {Contract!XSlice(c, t) : c \in Cols, t \in Tiles}

SpmmTypeOK ==
  /\ design \in Designs /\ accres \in BOOLEAN
  /\ at \in {"preload", "fence", "rows", "loadX", "loadA", "mac", "store",
             "compare", "end"}
  /\ row \in 0 .. SPMM_MB /\ done \in 0 .. SPMM_KB
  /\ k \in Cols /\ j \in Tiles
  /\ stride \in {0, SPMM_N, SPMM_DIM}
  /\ Len(issued) <= InFlight
  /\ \A a \in DOMAIN sp : sp[a] \in Contents
  /\ mismatch \in BOOLEAN

(* Every command in flight names tiles that exist: a load or an operand    *)
(* beyond the scratchpad, or below it, where the unsigned subtraction of   *)
(* B_sp wraps, would reach memory that belongs to something else.          *)
InScratchpad(c) == SpReads(c) \cup SpWrites(c) \subseteq 0 .. SpTiles - 1
InAccumulator(c) == AccUses(c) \subseteq 0 .. AccTiles - 1

(* The legality check accepts only schedules the hardware has room for:    *)
(* every address the kernel computes lies in the scratchpad.               *)
LegalSchedulesFit ==
  \A n \in DOMAIN issued : InScratchpad(issued[n]) /\ InAccumulator(issued[n])

(* The room that resident X needs beside a chunk of A.                     *)
ResidentXFits ==
  design.x_resident => SPMM_KB * J + design.k_chunk <= SpTiles

(* The same, where resident X has room.  That it has is no rule of the     *)
(* check; the rule on the chunk alone has to carry the rest, for widths of *)
(* X that are not the one it assumes.                                      *)
ScheduleStaysInBounds == ResidentXFits => LegalSchedulesFit

(* Y leaves the accumulator once: a tile of Y that a store changes was     *)
(* zero, and holds the whole product afterwards.  No schedule knob, no     *)
(* chunk boundary and no reordering by the accelerator may show in it.     *)
TilesLeaveOnceAndWhole ==
  [][accres => \A r \in Rows, t \in Tiles :
       Y'[r][t] # Y[r][t] => /\ Y[r][t] = EmptyBag
                             /\ Y'[r][t] = Contract!Golden[r][t]]_vars

(* Dense or sparse, accumulator-resident or block by block, the kernel     *)
(* implements the contract.                                                *)
ComputesTheProduct == Contract!ContractSpec

(* The program ends, and memory ends up with A * X and keeps it.           *)
ProductIsReached == <>[](at = "end" /\ Y = Contract!Golden)
=============================================================================
