-------------------------- MODULE SpmmKernelProofs --------------------------
(***************************************************************************)
(* Theorems about SpmmKernel, for every workload shape, design, pattern of *)
(* blocks, build flag and number of commands in flight.                    *)
(*                                                                         *)
(* The argument has two halves.  `Layout' turns the capacity rules of the  *)
(* legality check, which speak of bytes and rows, into what the kernel's   *)
(* addresses need, which are tiles.  `KernelInv' then bounds the counters  *)
(* by the loop the program is in and says of the commands in flight that   *)
(* they name tiles that exist; a command is only ever added by a loop and  *)
(* only ever removed by the accelerator.                                   *)
(***************************************************************************)
EXTENDS SpmmKernel, TLAPS

-----------------------------------------------------------------------------
(* Arithmetic. *)

LEMMA DivTimes ==
  ASSUME NEW d \in Nat \ {0}, NEW a \in Nat
  PROVE  a \div d \in Nat /\ d * (a \div d) <= a /\ a < d * (a \div d) + d
  OBVIOUS

LEMMA MultiplesOrder ==
  ASSUME NEW d \in Nat \ {0}, NEW a \in Int, NEW b \in Int, d * a < d * b
  PROVE  a < b
  OBVIOUS

LEMMA MultiplesKeepOrder ==
  ASSUME NEW d \in Nat, NEW a \in Int, NEW b \in Int, a <= b
  PROVE  d * a <= d * b /\ a * d <= b * d
  OBVIOUS

LEMMA DivAtLeast ==
  ASSUME NEW d \in Nat \ {0}, NEW a \in Nat, NEW b \in Nat, d * a <= b
  PROVE  a <= b \div d
<1>1. b \div d \in Nat /\ b < d * (b \div d) + d
  BY DivTimes
<1>2. d * a < d * ((b \div d) + 1)
  BY <1>1
<1> QED
  BY <1>1, <1>2, MultiplesOrder

LEMMA RemoveAtKeeps ==
  ASSUME NEW S, NEW s \in Seq(S), NEW n \in DOMAIN s
  PROVE  /\ RemoveAt(s, n) \in Seq(S)
         /\ Len(RemoveAt(s, n)) <= Len(s)
<1>1. n \in 1 .. Len(s) /\ Len(s) \in Nat
  OBVIOUS
<1>2. /\ SubSeq(s, 1, n - 1) \in Seq(S)
      /\ Len(SubSeq(s, 1, n - 1)) = n - 1
  BY <1>1
<1>3. /\ SubSeq(s, n + 1, Len(s)) \in Seq(S)
      /\ Len(SubSeq(s, n + 1, Len(s))) = Len(s) - n
  BY <1>1
<1> QED
  BY <1>1, <1>2, <1>3 DEF RemoveAt

(* A memory of c bytes in b banks, of rows of d elements of four bytes,    *)
(* with whole blocks in each bank, holds every tile of a row if it holds   *)
(* their bytes: what the division loses is less than a block.              *)
LEMMA BanksHoldTiles ==
  ASSUME NEW d \in Nat \ {0}, NEW b \in Nat \ {0}, NEW c \in Nat,
         NEW n \in Nat, NEW t \in Nat, NEW e \in Nat \ {0},
         d * n <= t, n <= d + 1,
         d * t * 4 <= c,
         e = (c * 8) \div (b * (d * 32)),
         e % d = 0
  PROVE  n <= (b * e) \div d
<1>1. b * (d * 32) \in Nat \ {0}
  OBVIOUS
<1>2. c * 8 < (b * (d * 32)) * e + b * (d * 32)
  <2>1. c * 8 \in Nat
    OBVIOUS
  <2>2. c * 8 < (b * (d * 32)) * ((c * 8) \div (b * (d * 32)))
                  + b * (d * 32)
    BY <1>1, <2>1, DivTimes
  <2> QED
    BY <2>2
<1>3. (d * 32) * t < (d * 32) * (b * e + b)
  BY <1>2
<1>4. t < b * e + b
  BY <1>3, MultiplesOrder
<1> DEFINE m == e \div d
<1>5. e = d * m /\ m \in Nat
  <2>1. e = d * (e \div d) + (e % d) /\ e \div d \in Nat
    OBVIOUS
  <2> QED
    BY <2>1
<1> HIDE DEF m
<1>6. m >= 1
  BY <1>5
<1>7. b * e = d * (b * m) /\ b * m \in Nat
  BY <1>5
<1>8. n <= b * m
  <2>1. CASE n <= b
    <3>1. b * 1 <= b * m
      BY <1>5, <1>6, MultiplesKeepOrder
    <3> QED
      BY <2>1, <3>1, <1>7
  <2>2. CASE b < n
    <3>1. b <= d
      BY <2>2
    <3>2. d * n < d * (b * m + 1)
      BY <1>4, <1>7, <3>1
    <3> QED
      BY <3>2, <1>7, MultiplesOrder
  <2> QED
    BY <2>1, <2>2
<1>9. d * n <= b * e /\ b * e \in Nat
  BY <1>7, <1>8, MultiplesKeepOrder
<1> QED
  BY <1>9, DivAtLeast

(* A window of K rows of J tiles, read by row and tile. *)
LEMMA WindowBounds ==
  ASSUME NEW rows \in Nat, NEW width \in Nat,
         NEW i \in 0 .. rows - 1, NEW t \in 0 .. width - 1
  PROVE  i * width + t \in Nat /\ i * width + t < rows * width
         /\ i * width + width <= rows * width
<1>1. (i + 1) * width <= rows * width
  BY MultiplesKeepOrder
<1>2. i * width \in Nat /\ (i + 1) * width = i * width + width
  OBVIOUS
<1> QED
  BY <1>1, <1>2

-----------------------------------------------------------------------------
(* What a legal design gives the kernel. *)

LEMMA ShapeTypes ==
  /\ SPMM_DIM \in Nat \ {0} /\ J \in Nat \ {0} /\ SPMM_N = SPMM_DIM * J
  /\ J <= SPMM_DIM + 1 /\ SPMM_DIM * J <= T0_N
  /\ SPMM_MB \in Nat \ {0} /\ SPMM_KB \in Nat \ {0} /\ SPMM_N \in Nat \ {0}
  /\ T0_N \in Nat \ {0} /\ Kilo \in Nat \ {0} /\ InFlight \in Nat \ {0}
<1> USE KernelAssumption, T0Assumption DEF KernelAssumption, T0Assumption
<1>1. J \in Nat /\ SPMM_N = SPMM_DIM * J
  BY DivTimes DEF J
<1>2. J # 0
  BY <1>1
<1>3. SPMM_DIM * J < SPMM_DIM * (SPMM_DIM + 2)
  BY <1>1
<1>4. J < SPMM_DIM + 2
  BY <1>1, <1>3, MultiplesOrder
<1> QED
  BY <1>1, <1>2, <1>4

LEMMA DesignFieldTypes ==
  ASSUME NEW s \in Designs
  PROVE  /\ s \in Design /\ Dim(s) = SPMM_DIM
         /\ s.dma_maxbytes \in Nat /\ s.dma_maxbytes >= SPMM_DIM
         /\ s.k_chunk \in Nat /\ s.b_blocks \in Nat
         /\ s.x_resident \in BOOLEAN /\ s.dense_mode \in BOOLEAN
         /\ s.sp_capacity_kb \in Nat /\ s.acc_capacity_kb \in Nat
         /\ s.sp_banks \in Nat \ {0} /\ s.acc_banks \in Nat \ {0}
  BY KernelAssumption DEF KernelAssumption, Design

LEMMA Layout ==
  ASSUME NEW s \in Designs, Legal(s, Pinned)
  PROVE  /\ SpRows(s) \div SPMM_DIM \in Nat
         /\ s.k_chunk \in Nat \ {0}
         /\ s.k_chunk * J + s.k_chunk <= SpRows(s) \div SPMM_DIM
         /\ J <= AccRows(s) \div SPMM_DIM
         /\ AccRows(s) \div SPMM_DIM \in Nat
<1>1. BlockCols(s) = SPMM_DIM /\ BlockRows(s) = SPMM_DIM
  BY DesignFieldTypes DEF Legal, Elaborates, Dim
<1>2. /\ SpBankEntries(s) \in Nat /\ SpRows(s) \in Nat
      /\ AccBankEntries(s) \in Nat \ {0} /\ AccRows(s) \in Nat
  <2>1. s.sp_banks * (SPMM_DIM * INPUT_W) \in Nat \ {0}
    BY DesignFieldTypes, ShapeTypes DEF INPUT_W
  <2>2. s.acc_banks * (SPMM_DIM * ACC_W) \in Nat \ {0}
    BY DesignFieldTypes, ShapeTypes DEF ACC_W
  <2>3. /\ s.sp_capacity_kb * Kilo * 8 \in Nat
        /\ s.acc_capacity_kb * Kilo * 8 \in Nat
    BY DesignFieldTypes, ShapeTypes
  <2>4. SpBankEntries(s) \in Nat
    BY <1>1, <2>1, <2>3, DivTimes DEF SpBankEntries, BankEntries
  <2>5. AccBankEntries(s) \in Nat
    BY <1>1, <2>2, <2>3, DivTimes DEF AccBankEntries, BankEntries
  <2>6. AccBankEntries(s) > 0
    BY DEF Legal, Elaborates
  <2> QED
    BY <2>4, <2>5, <2>6, DesignFieldTypes DEF SpRows, AccRows
<1>3. s.k_chunk * J + s.k_chunk <= SpRows(s) \div SPMM_DIM /\ s.k_chunk >= 1
  <2>1. /\ s.k_chunk >= 1
        /\ s.k_chunk * SPMM_DIM * (1 + JTiles(s)) <= SpRows(s)
    BY DesignFieldTypes DEF Legal, ScheduleFits
  <2>2. JTiles(s) \in Nat /\ J <= JTiles(s)
    <3>1. J <= T0_N \div SPMM_DIM /\ T0_N \div SPMM_DIM \in Nat
      BY ShapeTypes, DivAtLeast, DivTimes
    <3>2. JTiles(s) = IF 1 < T0_N \div SPMM_DIM THEN T0_N \div SPMM_DIM ELSE 1
      BY DesignFieldTypes DEF JTiles, MaxOf
    <3> QED
      BY <3>1, <3>2, ShapeTypes
  <2>3. s.k_chunk * SPMM_DIM \in Nat /\ 1 + J \in Nat /\ 1 + JTiles(s) \in Nat
    BY <2>2, DesignFieldTypes, ShapeTypes
  <2>4. (s.k_chunk * SPMM_DIM) * (1 + J)
          <= (s.k_chunk * SPMM_DIM) * (1 + JTiles(s))
    <3>1. 1 + J \in Int /\ 1 + JTiles(s) \in Int /\ 1 + J <= 1 + JTiles(s)
      BY <2>2, <2>3, ShapeTypes
    <3> QED
      BY <3>1, <2>3, MultiplesKeepOrder
  <2>5. SPMM_DIM * (s.k_chunk * J + s.k_chunk) <= SpRows(s)
    BY <2>1, <2>2, <2>4, <1>2, DesignFieldTypes, ShapeTypes
  <2>6. s.k_chunk * J + s.k_chunk \in Nat
    BY DesignFieldTypes, ShapeTypes
  <2> QED
    BY <2>1, <2>5, <2>6, <1>2, DivAtLeast, ShapeTypes
<1>4. J <= AccRows(s) \div SPMM_DIM
  <2>1. SPMM_DIM * T0_N * 4 <= s.acc_capacity_kb * Kilo
    BY DesignFieldTypes DEF Legal, WorkingSetFits, ACC_BYTES
  <2>2. AccBankEntries(s) =
          ((s.acc_capacity_kb * Kilo) * 8)
            \div (s.acc_banks * (SPMM_DIM * 32))
    BY <1>1, ShapeTypes DEF AccBankEntries, BankEntries, ACC_W
  <2>3. AccBankEntries(s) % SPMM_DIM = 0
    BY <1>1 DEF Legal, Elaborates
  <2>4. /\ s.acc_capacity_kb * Kilo \in Nat /\ s.acc_banks \in Nat \ {0}
        /\ J \in Nat /\ T0_N \in Nat /\ SPMM_DIM \in Nat \ {0}
        /\ SPMM_DIM * J <= T0_N /\ J <= SPMM_DIM + 1
    BY DesignFieldTypes, ShapeTypes
  <2>5. J <= (s.acc_banks * AccBankEntries(s)) \div SPMM_DIM
    BY <1>2, <2>1, <2>2, <2>3, <2>4, BanksHoldTiles
  <2> QED
    BY <2>5 DEF AccRows
<1> QED
  BY <1>2, <1>3, <1>4, DivTimes, DesignFieldTypes, ShapeTypes

-----------------------------------------------------------------------------
(* The invariant: where the program is tells how far its counters may be,  *)
(* and every command in flight names tiles that exist.                     *)

Command ==
  [op: {"mvin"}, to: Int, items: Seq(Contents)]
    \union [op: {"compute"}, a: Int, b: Int, out: Tiles, accumulate: BOOLEAN]
    \union [op: {"mvout"}, row: Rows, tile: Tiles]

Fitting ==
  {c \in Command : ResidentXFits => InScratchpad(c) /\ InAccumulator(c)}

Fixed ==
  /\ design \in Designs /\ Legal(design, Pinned)
  /\ plan \in [Rows -> Walks]

Counters ==
  /\ at \in {"loadX", "loadA", "mac", "store", "compare"} => row \in Rows
  /\ at \in {"loadX", "loadA", "mac"} => done < Len(plan[row]) /\ k < K
  /\ at = "loadX" => ~design.x_resident
  /\ at = "preload" => design.x_resident

KernelInv ==
  /\ SpmmTypeOK
  /\ Fixed
  /\ Counters
  /\ issued \in Seq(Fitting)

-----------------------------------------------------------------------------
LEMMA PlanTypes ==
  ASSUME Fixed, NEW r \in Rows
  PROVE  /\ Len(plan[r]) \in 0 .. SPMM_KB
         /\ \A i \in 1 .. Len(plan[r]) : plan[r][i] \in Cols
<1>1. PICK n \in 0 .. SPMM_KB : plan[r] \in [1 .. n -> Cols]
  BY DEF Fixed, Walks
<1>2. Len(plan[r]) = n
  BY <1>1, ShapeTypes
<1> QED
  BY <1>1, <1>2

LEMMA ChunkBounds ==
  ASSUME KernelInv, row \in Rows, done < Len(plan[row])
  PROVE  /\ K \in Nat \ {0} /\ K <= design.k_chunk
         /\ done + K <= Len(plan[row]) /\ Len(plan[row]) <= SPMM_KB
         /\ \A i \in 0 .. K - 1 : Col(i) \in Cols
         /\ SpTiles \in Nat /\ K * J + K <= SpTiles /\ K * J \in Nat
<1>1. /\ Len(plan[row]) \in 0 .. SPMM_KB
      /\ \A i \in 1 .. Len(plan[row]) : plan[row][i] \in Cols
  BY PlanTypes DEF KernelInv
<1>2. done \in Nat
  BY ShapeTypes DEF KernelInv, SpmmTypeOK
<1>3. /\ SpTiles \in Nat /\ design.k_chunk \in Nat \ {0}
      /\ design.k_chunk * J + design.k_chunk <= SpTiles
  BY Layout DEF KernelInv, Fixed, SpTiles
<1>4. K \in Nat \ {0} /\ K <= design.k_chunk /\ done + K <= Len(plan[row])
  BY <1>1, <1>2, <1>3, ShapeTypes DEF K
<1>5. \A i \in 0 .. K - 1 : Col(i) \in Cols
  BY <1>1, <1>2, <1>4, ShapeTypes DEF Col
<1>6. K * J <= design.k_chunk * J /\ K * J \in Nat
  BY <1>3, <1>4, ShapeTypes, MultiplesKeepOrder
<1>7. design.k_chunk * J \in Nat
  BY <1>3, ShapeTypes
<1> QED
  BY <1>1, <1>3, <1>4, <1>5, <1>6, <1>7, ShapeTypes

LEMMA TilesInAccumulator ==
  ASSUME KernelInv, NEW t \in Tiles
  PROVE  t \in 0 .. AccTiles - 1
<1>1. J <= AccTiles
  BY Layout DEF KernelInv, Fixed, AccTiles
<1>2. AccTiles \in Nat
  BY Layout DEF KernelInv, Fixed, AccTiles
<1> QED
  BY <1>1, <1>2, ShapeTypes DEF Tiles

(* One load of X takes tiles that X has. *)
LEMMA WidthBounds ==
  ASSUME KernelInv, NEW t \in Tiles
  PROVE  /\ Width(t) \in Nat /\ t + Width(t) <= J
         /\ B_BLOCKS \in Nat \ {0}
<1>1. B_BLOCKS \in Nat \ {0}
  <2>1. design.dma_maxbytes \div SPMM_DIM \in Nat \ {0}
    <3>1. SPMM_DIM * 1 <= design.dma_maxbytes /\ design.dma_maxbytes \in Nat
      BY DesignFieldTypes, ShapeTypes DEF KernelInv, Fixed
    <3>2. 1 <= design.dma_maxbytes \div SPMM_DIM
      BY <3>1, DivAtLeast, ShapeTypes
    <3>3. design.dma_maxbytes \div SPMM_DIM \in Nat
      BY <3>1, DivTimes, ShapeTypes
    <3> QED
      BY <3>2, <3>3
  <2> QED
    BY <2>1, DesignFieldTypes, ShapeTypes DEF B_BLOCKS, KernelInv, Fixed
<1> QED
  BY <1>1, ShapeTypes DEF Width, Tiles

(* The addresses, wherever X is. *)
LEMMA AddressBounds ==
  ASSUME KernelInv, row \in Rows, done < Len(plan[row]),
         NEW i \in 0 .. K - 1, NEW t \in Tiles
  PROVE  /\ AAddr(i) \in Int /\ BAddr(i, t) \in Int
         /\ ResidentXFits => AAddr(i) \in 0 .. SpTiles - 1
         /\ \A n \in Nat : ResidentXFits /\ t + n <= J =>
              BAddr(i, t) .. BAddr(i, t) + n - 1 \subseteq 0 .. SpTiles - 1
<1>1. /\ K \in Nat \ {0} /\ K <= design.k_chunk /\ Col(i) \in Cols
      /\ SpTiles \in Nat /\ K * J + K <= SpTiles /\ K * J \in Nat
      /\ design.k_chunk \in Nat
  BY ChunkBounds, DesignFieldTypes DEF KernelInv, Fixed
<1>2. SPMM_KB * J \in Nat /\ J \in Nat \ {0} /\ t \in 0 .. J - 1
  BY ShapeTypes DEF Tiles
<1>3. i * J + t \in Nat /\ i * J + J <= K * J /\ i * J \in Nat
  BY <1>1, <1>2, WindowBounds
<1>4. /\ Col(i) * J + t \in Nat /\ Col(i) * J + J <= SPMM_KB * J
      /\ Col(i) * J \in Nat
  <2>1. Col(i) \in 0 .. SPMM_KB - 1 /\ SPMM_KB \in Nat
    BY <1>1, ShapeTypes DEF Cols
  <2>2. \A c \in 0 .. SPMM_KB - 1 :
          c * J + t \in Nat /\ c * J + J <= SPMM_KB * J /\ c * J \in Nat
    BY <1>2, <2>1, WindowBounds
  <2> QED
    BY <2>1, <2>2
<1>5. AAddr(i) \in Int /\ (ResidentXFits => AAddr(i) \in 0 .. SpTiles - 1)
  BY <1>1, <1>2 DEF AAddr, A_SP_BASE, ResidentXFits
<1>6. CASE design.x_resident
  <2>1. BAddr(i, t) = Col(i) * J + t
    BY <1>6 DEF BAddr
  <2>2. ResidentXFits => Col(i) * J + J <= SpTiles
    BY <1>1, <1>2, <1>4, <1>6 DEF ResidentXFits
  <2> QED
    BY <1>1, <1>2, <1>4, <1>5, <2>1, <2>2
<1>7. CASE ~design.x_resident
  BY <1>1, <1>2, <1>3, <1>5, <1>7 DEF BAddr, B_sp
<1> QED
  BY <1>6, <1>7

-----------------------------------------------------------------------------
(* The commands the kernel issues are fitting ones. *)

LEMMA LoadFits ==
  ASSUME NEW to \in Int, NEW items \in Seq(Contents),
         ResidentXFits => to .. to + Len(items) - 1 \subseteq 0 .. SpTiles - 1
  PROVE  Load(to, items) \in Fitting
<1>1. Load(to, items) \in [op: {"mvin"}, to: Int, items: Seq(Contents)]
  BY DEF Load
<1>2. /\ SpReads(Load(to, items)) = {}
      /\ SpWrites(Load(to, items)) = to .. to + Len(items) - 1
      /\ AccUses(Load(to, items)) = {}
  BY DEF Load, SpReads, SpWrites, AccUses
<1> QED
  BY <1>1, <1>2 DEF Fitting, Command, InScratchpad, InAccumulator

LEMMA ComputeFits ==
  ASSUME NEW a \in Int, NEW b \in Int, NEW out \in Tiles,
         NEW accumulate \in BOOLEAN, KernelInv,
         ResidentXFits => a \in 0 .. SpTiles - 1 /\ b \in 0 .. SpTiles - 1
  PROVE  Compute(a, b, out, accumulate) \in Fitting
<1> DEFINE c == Compute(a, b, out, accumulate)
<1>1. c \in [op: {"compute"}, a: Int, b: Int, out: Tiles, accumulate: BOOLEAN]
  BY DEF Compute
<1>2. SpReads(c) = {a, b} /\ SpWrites(c) = {} /\ AccUses(c) = {out}
  BY DEF Compute, SpReads, SpWrites, AccUses
<1>3. out \in 0 .. AccTiles - 1
  BY TilesInAccumulator
<1> QED
  BY <1>1, <1>2, <1>3 DEF Fitting, Command, InScratchpad, InAccumulator

LEMMA StoreFits ==
  ASSUME NEW r \in Rows, NEW t \in Tiles, KernelInv
  PROVE  Store(r, t) \in Fitting
<1>1. Store(r, t) \in [op: {"mvout"}, row: Rows, tile: Tiles]
  BY DEF Store
<1>2. /\ SpReads(Store(r, t)) = {} /\ SpWrites(Store(r, t)) = {}
      /\ AccUses(Store(r, t)) = {t}
  BY DEF Store, SpReads, SpWrites, AccUses
<1>3. t \in 0 .. AccTiles - 1
  BY TilesInAccumulator
<1> QED
  BY <1>1, <1>2, <1>3 DEF Fitting, Command, InScratchpad, InAccumulator

(* What is loaded has a name. *)
LEMMA SlicesHaveNames ==
  ASSUME KernelInv, NEW c \in Cols, NEW t \in Tiles
  PROVE  Slices(c, t) \in Seq(Contents) /\ Len(Slices(c, t)) = Width(t)
<1>1. Width(t) \in Nat /\ t + Width(t) <= J
  BY WidthBounds
<1>2. ASSUME NEW i \in 1 .. Width(t)
      PROVE  Moved(Contract!XSlice(c, t + i - 1), SPMM_N) \in Contents
  <2>1. t + i - 1 \in Tiles
    BY <1>1, ShapeTypes DEF Tiles
  <2> QED
    BY <2>1 DEF Moved, Contents
<1> QED
  BY <1>1, <1>2 DEF Slices

LEMMA BlocksHaveNames ==
  ASSUME NEW r \in Rows, NEW c \in Cols
  PROVE  /\ <<Moved(ABlock(r, c), SPMM_DIM)>> \in Seq(Contents)
         /\ Len(<<Moved(ABlock(r, c), SPMM_DIM)>>) = 1
<1>1. Moved(ABlock(r, c), SPMM_DIM) \in Contents
  BY DEF Moved, ABlock, Contents
<1> QED
  BY <1>1

-----------------------------------------------------------------------------
(* Issuing a command and moving the counters. *)

LEMMA FittingIsFixed ==
  ASSUME UNCHANGED design
  PROVE  Fitting' = Fitting
  BY DEF Fitting, Command, ResidentXFits, InScratchpad, InAccumulator,
         SpTiles, AccTiles, SpReads, SpWrites, AccUses, Contents

LEMMA IssueKeeps ==
  ASSUME KernelInv, NEW c \in Fitting, Issue(c)
  PROVE  /\ Fixed' /\ issued' \in Seq(Fitting)' /\ Len(issued') <= InFlight
         /\ UNCHANGED <<fixed, sp, mismatch>>
<1>1. issued' \in Seq(Fitting) /\ Len(issued') <= InFlight
  BY ShapeTypes DEF KernelInv, Issue
<1> QED
  BY <1>1, FittingIsFixed DEF Issue, fixed, Fixed, KernelInv

LEMMA AdvanceMoves ==
  ASSUME KernelInv, NEW next \in Nat, NEW last \in Nat, NEW loop,
         k < last, Advance(next, last, loop)
  PROVE  /\ k' \in 0 .. last - 1 /\ j' \in Tiles
         /\ stride' \in {0, SPMM_N, SPMM_DIM}
         /\ at' = at \/ (at' = loop /\ k' = 0 /\ j' = 0)
<1>1. k \in Nat /\ stride \in {0, SPMM_N, SPMM_DIM} /\ J \in Nat \ {0}
  BY ShapeTypes DEF KernelInv, SpmmTypeOK, Cols
<1>2. CASE next < J /\ j' = next /\ UNCHANGED <<at, k, stride>>
  BY <1>1, <1>2 DEF Tiles
<1>3. CASE next >= J /\ k + 1 < last /\ j' = 0 /\ k' = k + 1
           /\ UNCHANGED <<at, stride>>
  BY <1>1, <1>3 DEF Tiles
<1>4. CASE Enter(loop)
  BY <1>1, <1>4 DEF Tiles, Enter
<1> QED
  BY <1>2, <1>3, <1>4 DEF Advance

Places == {"preload", "fence", "rows", "loadX", "loadA", "mac", "store",
           "compare", "end"}

LEMMA IssuedInv ==
  ASSUME KernelInv, NEW c \in Fitting, Issue(c),
         at' \in Places, row' \in 0 .. SPMM_MB, done' \in 0 .. SPMM_KB,
         k' \in Cols, j' \in Tiles, stride' \in {0, SPMM_N, SPMM_DIM},
         Counters'
  PROVE  KernelInv'
<1>1. /\ Fixed' /\ issued' \in Seq(Fitting)' /\ Len(issued') <= InFlight
      /\ UNCHANGED <<fixed, sp, mismatch>>
  BY IssueKeeps
<1>2. SpmmTypeOK'
  BY <1>1 DEF KernelInv, SpmmTypeOK, fixed, Places, Contents
<1> QED
  BY <1>1, <1>2 DEF KernelInv

-----------------------------------------------------------------------------
(* One lemma per action. *)

LEMMA PreloadXStep == KernelInv /\ PreloadX => KernelInv'
<1> SUFFICES ASSUME KernelInv, PreloadX PROVE KernelInv'
  OBVIOUS
<1>1. /\ k \in Cols /\ j \in Tiles /\ k \in 0 .. SPMM_KB - 1 /\ j \in 0 .. J - 1
      /\ SPMM_KB \in Nat /\ J \in Nat
      /\ row \in 0 .. SPMM_MB /\ done \in 0 .. SPMM_KB
  BY ShapeTypes DEF KernelInv, SpmmTypeOK, Cols, Tiles
<1>2. design.x_resident
  BY DEF PreloadX, KernelInv, Counters
<1> DEFINE c == Load(k * J + j, Slices(k, j))
<1>3. c \in Fitting
  <2>1. /\ Slices(k, j) \in Seq(Contents) /\ Len(Slices(k, j)) = Width(j)
        /\ Width(j) \in Nat /\ j + Width(j) <= J
    BY <1>1, SlicesHaveNames, WidthBounds
  <2>2. k * J + j \in Nat /\ k * J + J <= SPMM_KB * J
    BY <1>1, WindowBounds
  <2>3. ResidentXFits => SPMM_KB * J <= SpTiles
    <3>1. design.k_chunk \in Nat /\ SpTiles \in Nat /\ SPMM_KB * J \in Nat
      BY <1>1, Layout DEF KernelInv, Fixed, SpTiles
    <3> QED
      BY <1>2, <3>1 DEF ResidentXFits
  <2>4. SpTiles \in Nat /\ SPMM_KB * J \in Nat /\ k * J \in Nat
    BY <1>1, Layout DEF KernelInv, Fixed, SpTiles
  <2>5. ResidentXFits =>
          k * J + j .. k * J + j + Len(Slices(k, j)) - 1
            \subseteq 0 .. SpTiles - 1
    <3>1. k * J + j + Width(j) <= k * J + J
      BY <1>1, <2>1, <2>4
    <3>2. ResidentXFits => k * J + j + Width(j) <= SpTiles
      BY <1>1, <2>1, <2>2, <2>3, <2>4, <3>1
    <3> QED
      BY <2>1, <2>2, <2>4, <3>2
  <2> QED
    BY <2>1, <2>2, <2>5, LoadFits
<1>4. /\ k' \in 0 .. SPMM_KB - 1 /\ j' \in Tiles
      /\ stride' \in {0, SPMM_N, SPMM_DIM}
      /\ at' \in {"preload", "fence"}
  <2>1. j + B_BLOCKS \in Nat
    BY <1>1, WidthBounds
  <2> QED
    BY <1>1, <2>1, AdvanceMoves DEF PreloadX
<1>5. Issue(c) /\ UNCHANGED <<row, done, design>>
  BY DEF PreloadX, Issue, fixed
<1>6. Counters'
  BY <1>2, <1>4, <1>5 DEF Counters
<1> QED
  BY <1>1, <1>3, <1>4, <1>5, <1>6, IssuedInv DEF Places, Cols

(* In the three loops of a chunk the bounds of its walk hold. *)
LEMMA InChunk ==
  ASSUME KernelInv, at \in {"loadX", "loadA", "mac"}
  PROVE  /\ row \in Rows /\ row \in 0 .. SPMM_MB
         /\ done \in Nat /\ done < Len(plan[row]) /\ done \in 0 .. SPMM_KB
         /\ k \in 0 .. K - 1 /\ j \in Tiles /\ j \in Nat
         /\ K \in Nat \ {0} /\ K <= SPMM_KB /\ Col(k) \in Cols
         /\ done + K <= Len(plan[row]) /\ Len(plan[row]) <= SPMM_KB
<1>1. row \in Rows /\ done < Len(plan[row]) /\ k < K
  BY DEF KernelInv, Counters
<1>2. /\ done \in 0 .. SPMM_KB /\ k \in Nat /\ j \in Tiles /\ j \in Nat
      /\ row \in 0 .. SPMM_MB
  BY ShapeTypes DEF KernelInv, SpmmTypeOK, Cols, Tiles
<1>3. /\ K \in Nat \ {0} /\ done + K <= Len(plan[row])
      /\ Len(plan[row]) <= SPMM_KB /\ \A i \in 0 .. K - 1 : Col(i) \in Cols
  BY <1>1, ChunkBounds
<1>4. k \in 0 .. K - 1 /\ K <= SPMM_KB
  BY <1>1, <1>2, <1>3, ShapeTypes, PlanTypes DEF KernelInv
<1> QED
  BY <1>1, <1>2, <1>3, <1>4

LEMMA LoadXStep == KernelInv /\ LoadX => KernelInv'
<1> SUFFICES ASSUME KernelInv, LoadX PROVE KernelInv'
  OBVIOUS
<1>1. at = "loadX"
  BY DEF LoadX
<1> DEFINE c == Load(BAddr(k, j), Slices(Col(k), j))
<1>2. c \in Fitting
  <2>1. /\ Slices(Col(k), j) \in Seq(Contents)
        /\ Len(Slices(Col(k), j)) = Width(j)
        /\ Width(j) \in Nat /\ j + Width(j) <= J
    BY <1>1, InChunk, SlicesHaveNames, WidthBounds
  <2>2. /\ BAddr(k, j) \in Int
        /\ ResidentXFits => BAddr(k, j) .. BAddr(k, j) + Width(j) - 1
                              \subseteq 0 .. SpTiles - 1
    BY <1>1, <2>1, InChunk, AddressBounds
  <2> QED
    BY <2>1, <2>2, LoadFits
<1>3. /\ k' \in 0 .. K - 1 /\ j' \in Tiles
      /\ stride' \in {0, SPMM_N, SPMM_DIM}
      /\ at' \in {"loadX", "loadA"}
  <2>1. j + B_BLOCKS \in Nat
    BY <1>1, InChunk, WidthBounds
  <2> QED
    BY <1>1, <2>1, InChunk, AdvanceMoves DEF LoadX
<1>4. Issue(c) /\ UNCHANGED <<row, done, design, plan>>
  BY DEF LoadX, Issue, fixed
<1>5. Counters'
  <2>1. K' = K
    BY <1>4 DEF K
  <2> QED
    BY <1>1, <1>3, <1>4, <2>1, InChunk DEF Counters, KernelInv
<1>6. k' \in Cols
  BY <1>1, <1>3, InChunk, ShapeTypes DEF Cols
<1> QED
  BY <1>1, <1>2, <1>3, <1>4, <1>5, <1>6, InChunk, IssuedInv DEF Places

LEMMA LoadAStep == KernelInv /\ LoadA => KernelInv'
<1> SUFFICES ASSUME KernelInv, LoadA PROVE KernelInv'
  OBVIOUS
<1>1. at = "loadA"
  BY DEF LoadA
<1> DEFINE items == <<Moved(ABlock(row, Col(k)), SPMM_DIM)>>
           c == Load(AAddr(k), items)
<1>2. c \in Fitting
  <2>1. items \in Seq(Contents) /\ Len(items) = 1
    BY <1>1, InChunk, BlocksHaveNames
  <2>2. /\ AAddr(k) \in Int
        /\ ResidentXFits => AAddr(k) \in 0 .. SpTiles - 1
    BY <1>1, InChunk, AddressBounds
  <2>3. ResidentXFits => AAddr(k) .. AAddr(k) + Len(items) - 1
                          \subseteq 0 .. SpTiles - 1
    BY <2>1, <2>2
  <2> QED
    BY <2>1, <2>2, <2>3, LoadFits
<1>3. /\ k' \in 0 .. K - 1 /\ j' \in Tiles
      /\ stride' \in {0, SPMM_N, SPMM_DIM}
      /\ at' \in {"loadA", "mac"}
  BY <1>1, InChunk, AdvanceMoves, ShapeTypes DEF LoadA
<1>4. Issue(c) /\ UNCHANGED <<row, done, design, plan>>
  BY DEF LoadA, Issue, fixed
<1>5. Counters'
  <2>1. K' = K
    BY <1>4 DEF K
  <2> QED
    BY <1>1, <1>3, <1>4, <2>1, InChunk DEF Counters, KernelInv
<1>6. k' \in Cols
  BY <1>1, <1>3, InChunk, ShapeTypes DEF Cols
<1> QED
  BY <1>1, <1>2, <1>3, <1>4, <1>5, <1>6, InChunk, IssuedInv DEF Places

LEMMA MacTileStep == KernelInv /\ MacTile => KernelInv'
<1> SUFFICES ASSUME KernelInv, MacTile PROVE KernelInv'
  OBVIOUS
<1> DEFINE c == Compute(AAddr(k), BAddr(k, j), j, Accumulates)
           loop == IF done + K < Len(plan[row]) THEN FirstLoop ELSE "store"
<1>1. at = "mac"
  BY DEF MacTile
<1>2. c \in Fitting
  <2>1. /\ AAddr(k) \in Int /\ BAddr(k, j) \in Int
        /\ ResidentXFits => AAddr(k) \in 0 .. SpTiles - 1
        /\ \A n \in Nat : ResidentXFits /\ j + n <= J =>
             BAddr(k, j) .. BAddr(k, j) + n - 1 \subseteq 0 .. SpTiles - 1
    BY <1>1, InChunk, AddressBounds
  <2>2. j + 1 <= J
    BY <1>1, InChunk, ShapeTypes DEF Tiles
  <2>3. ResidentXFits => BAddr(k, j) \in 0 .. SpTiles - 1
    BY <2>1, <2>2
  <2> QED
    BY <1>1, <2>1, <2>3, InChunk, ComputeFits DEF Accumulates
<1>3. Issue(c) /\ UNCHANGED <<row, design, plan>> /\ Advance(j + 1, K, loop)
  BY DEF MacTile, Issue, fixed
<1>4. CASE LastInChunk
  <2>1. done' = done + K
    BY <1>4 DEF MacTile
  <2>2. Enter(loop)
    BY <1>1, <1>3, <1>4, InChunk, ShapeTypes DEF Advance, LastInChunk
  <2>3. k' = 0 /\ j' = 0 /\ at' = loop /\ at' \in {"loadX", "loadA", "store"}
    BY <2>2 DEF Enter, FirstLoop
  <2>4. stride' \in {0, SPMM_N, SPMM_DIM}
    BY <2>2 DEF Enter, KernelInv, SpmmTypeOK
  <2>5. at' \in {"loadX", "loadA"} => done' < Len(plan[row]) /\ 0 < K'
    <3>1. ASSUME at' \in {"loadX", "loadA"} PROVE done' < Len(plan[row])
      BY <2>1, <2>3, <3>1
    <3>2. K' = IF Len(plan[row]) - done' > design.k_chunk THEN design.k_chunk
               ELSE Len(plan[row]) - done'
      BY <1>3 DEF K
    <3>3. design.k_chunk \in Nat \ {0}
      BY Layout DEF KernelInv, Fixed
    <3>4. done' \in Nat /\ Len(plan[row]) \in Nat
      BY <1>1, <2>1, InChunk, PlanTypes, ShapeTypes DEF KernelInv
    <3> QED
      BY <3>1, <3>2, <3>3, <3>4
  <2>6. Counters'
    BY <1>1, <1>3, <2>3, <2>5, InChunk
       DEF Counters, KernelInv, FirstLoop
  <2>7. done' \in 0 .. SPMM_KB
    BY <1>1, <2>1, InChunk, ShapeTypes
  <2>8. k' \in Cols /\ j' \in Tiles
    BY <2>3, ShapeTypes DEF Cols, Tiles
  <2> QED
    BY <1>1, <1>2, <1>3, <2>3, <2>4, <2>6, <2>7, <2>8, InChunk, IssuedInv
       DEF Places
<1>5. CASE ~LastInChunk
  <2>1. done' = done
    BY <1>5 DEF MacTile
  <2>2. ~(j + 1 >= J /\ k + 1 >= K)
    BY <1>5 DEF LastInChunk
  <2>3. at' = at /\ k' \in 0 .. K - 1 /\ j' \in Tiles /\ UNCHANGED stride
    BY <1>1, <1>3, <2>2, InChunk, ShapeTypes DEF Advance, Tiles
  <2>4. Counters'
    <3>1. K' = K
      BY <1>3, <2>1 DEF K
    <3> QED
      BY <1>1, <1>3, <2>1, <2>3, <3>1, InChunk DEF Counters
  <2>5. k' \in Cols /\ stride' \in {0, SPMM_N, SPMM_DIM}
    BY <1>1, <2>3, InChunk, ShapeTypes DEF Cols, KernelInv, SpmmTypeOK
  <2> QED
    BY <1>1, <1>2, <1>3, <2>1, <2>3, <2>4, <2>5, InChunk, IssuedInv DEF Places
<1> QED
  BY <1>4, <1>5

LEMMA StoreYStep == KernelInv /\ StoreY => KernelInv'
<1> SUFFICES ASSUME KernelInv, StoreY PROVE KernelInv'
  OBVIOUS
<1>1. /\ at = "store" /\ row \in Rows /\ row \in 0 .. SPMM_MB - 1
      /\ j \in Tiles /\ j \in 0 .. J - 1
      /\ done \in 0 .. SPMM_KB /\ k \in Cols
  BY ShapeTypes
     DEF StoreY, KernelInv, Counters, SpmmTypeOK, Cols, Tiles, Rows
<1>2. Store(row, j) \in Fitting
  BY <1>1, StoreFits
<1>3. Issue(Store(row, j)) /\ UNCHANGED <<done, design, plan>>
  BY DEF StoreY, Issue, fixed
<1>4. CASE j + 1 < J
  <2>1. UNCHANGED <<row, at, k, stride>> /\ j' = j + 1
    BY <1>1, <1>4, ShapeTypes DEF StoreY, Advance
  <2>2. Counters'
    BY <1>1, <1>3, <2>1 DEF Counters
  <2>3. j' \in Tiles /\ stride' \in {0, SPMM_N, SPMM_DIM} /\ row' \in 0 .. SPMM_MB
    BY <1>1, <1>4, <2>1, ShapeTypes DEF Tiles, KernelInv, SpmmTypeOK
  <2> QED
    BY <1>1, <1>2, <1>3, <2>1, <2>2, <2>3, IssuedInv DEF Places
<1>5. CASE ~(j + 1 < J)
  <2>1. row' = row + 1 /\ Enter("rows")
    BY <1>1, <1>5, ShapeTypes DEF StoreY, Advance, Cols
  <2>2. at' = "rows" /\ k' = 0 /\ j' = 0 /\ stride' = stride
    BY <2>1 DEF Enter
  <2>3. Counters'
    BY <2>2 DEF Counters
  <2>4. /\ k' \in Cols /\ j' \in Tiles /\ row' \in 0 .. SPMM_MB
        /\ stride' \in {0, SPMM_N, SPMM_DIM}
    BY <1>1, <2>1, <2>2, ShapeTypes DEF Cols, Tiles, KernelInv, SpmmTypeOK
  <2> QED
    BY <1>1, <1>2, <1>3, <2>2, <2>3, <2>4, IssuedInv DEF Places
<1> QED
  BY <1>4, <1>5

(* A step of the program that issues nothing. *)
LEMMA QuietInv ==
  ASSUME KernelInv, UNCHANGED <<fixed, issued, sp>>,
         at' \in Places, row' \in 0 .. SPMM_MB, done' \in 0 .. SPMM_KB,
         k' \in Cols, j' \in Tiles, stride' \in {0, SPMM_N, SPMM_DIM},
         mismatch' \in BOOLEAN, Counters'
  PROVE  KernelInv'
<1>1. Fixed' /\ issued' \in Seq(Fitting)'
  BY FittingIsFixed DEF fixed, Fixed, KernelInv
<1>2. SpmmTypeOK'
  BY DEF KernelInv, SpmmTypeOK, fixed, Places, Contents
<1> QED
  BY <1>1, <1>2 DEF KernelInv

LEMMA CounterTypes ==
  ASSUME KernelInv
  PROVE  /\ row \in 0 .. SPMM_MB /\ row \in Nat /\ done \in 0 .. SPMM_KB
         /\ k \in Cols /\ k \in Nat /\ j \in Tiles
         /\ stride \in {0, SPMM_N, SPMM_DIM} /\ mismatch \in BOOLEAN
         /\ 0 \in Cols /\ 0 \in Tiles /\ 0 \in 0 .. SPMM_KB
         /\ 0 \in 0 .. SPMM_MB /\ Rows = 0 .. SPMM_MB - 1
         /\ SPMM_MB \in Nat \ {0} /\ design.x_resident \in BOOLEAN
  BY ShapeTypes, DesignFieldTypes
     DEF KernelInv, SpmmTypeOK, Fixed, Rows, Cols, Tiles

LEMMA FenceXStep == KernelInv /\ FenceX => KernelInv'
<1> SUFFICES ASSUME KernelInv, FenceX PROVE KernelInv'
  OBVIOUS
<1>1. /\ at' = "rows" /\ k' = 0 /\ j' = 0
      /\ UNCHANGED <<fixed, issued, sp, row, done, stride, mismatch>>
  BY DEF FenceX, Enter
<1>2. Counters'
  BY <1>1 DEF Counters
<1> QED
  BY <1>1, <1>2, CounterTypes, QuietInv DEF Places

LEMMA SkipEmptyRowStep == KernelInv /\ SkipEmptyRow => KernelInv'
<1> SUFFICES ASSUME KernelInv, SkipEmptyRow PROVE KernelInv'
  OBVIOUS
<1>1. /\ at' = "rows" /\ row' = row + 1 /\ row < SPMM_MB
      /\ UNCHANGED <<fixed, issued, sp, done, k, j, stride, mismatch>>
  BY DEF SkipEmptyRow
<1>2. Counters'
  BY <1>1 DEF Counters
<1>3. row' \in 0 .. SPMM_MB
  BY <1>1, CounterTypes
<1> QED
  BY <1>1, <1>2, <1>3, CounterTypes, QuietInv DEF Places

LEMMA RowMacStep == KernelInv /\ RowMac => KernelInv'
<1> SUFFICES ASSUME KernelInv, RowMac PROVE KernelInv'
  OBVIOUS
<1>1. /\ row \in Rows /\ plan[row] # <<>> /\ done' = 0
      /\ k' = 0 /\ j' = 0 /\ at' = FirstLoop
      /\ UNCHANGED <<fixed, issued, sp, row, mismatch>>
  BY CounterTypes DEF RowMac, Enter
<1>2. 0 < Len(plan[row]) /\ Len(plan[row]) \in Nat
  <2>1. PICK n \in 0 .. SPMM_KB : plan[row] \in [1 .. n -> Cols]
    BY <1>1 DEF KernelInv, Fixed, Walks
  <2>2. plan[row] \in Seq(Cols)
    BY <2>1, ShapeTypes
  <2> QED
    BY <1>1, <2>2
<1>3. 0 < K'
  <2>1. K' = IF Len(plan[row]) - 0 > design.k_chunk THEN design.k_chunk
             ELSE Len(plan[row]) - 0
    BY <1>1 DEF K, fixed
  <2>2. design.k_chunk \in Nat \ {0}
    BY Layout DEF KernelInv, Fixed
  <2> QED
    BY <1>2, <2>1, <2>2
<1>4. Counters'
  BY <1>1, <1>2, <1>3, CounterTypes DEF Counters, FirstLoop, fixed
<1>5. stride' \in {0, SPMM_N, SPMM_DIM} /\ at' \in Places
  BY <1>1, CounterTypes DEF RowMac, Enter, FirstLoop, Places
<1> QED
  BY <1>1, <1>4, <1>5, CounterTypes, QuietInv

LEMMA BlockMacStep == KernelInv /\ BlockMac => KernelInv'
<1> SUFFICES ASSUME KernelInv, BlockMac PROVE KernelInv'
  OBVIOUS
<1>1. /\ at' = "rows" /\ row \in Rows /\ k < Len(plan[row])
      /\ UNCHANGED <<fixed, issued, sp, done, j, stride, mismatch>>
  BY CounterTypes DEF BlockMac
<1>2. Len(plan[row]) \in 0 .. SPMM_KB
  BY <1>1, PlanTypes DEF KernelInv
<1>3. k' \in Cols /\ row' \in 0 .. SPMM_MB
  <2>1. CASE k + 1 < Len(plan[row])
    <3>1. k' = k + 1 /\ row' = row
      BY <2>1 DEF BlockMac
    <3> QED
      BY <1>2, <2>1, <3>1, CounterTypes, ShapeTypes DEF Cols
  <2>2. CASE ~(k + 1 < Len(plan[row]))
    <3>1. k' = 0 /\ row' = row + 1
      BY <2>2 DEF BlockMac
    <3> QED
      BY <1>1, <3>1, CounterTypes
  <2> QED
    BY <2>1, <2>2
<1>4. Counters'
  BY <1>1 DEF Counters
<1> QED
  BY <1>1, <1>3, <1>4, CounterTypes, QuietInv DEF Places

LEMMA StopClockStep == KernelInv /\ StopClock => KernelInv'
<1> SUFFICES ASSUME KernelInv, StopClock PROVE KernelInv'
  OBVIOUS
<1>1. /\ at' = "compare" /\ row' = 0 /\ k' = 0 /\ j' = 0
      /\ UNCHANGED <<fixed, issued, sp, done, stride, mismatch>>
  BY DEF StopClock, Enter
<1>2. Counters'
  BY <1>1, CounterTypes DEF Counters
<1> QED
  BY <1>1, <1>2, CounterTypes, QuietInv DEF Places

LEMMA CompareStep == KernelInv /\ Compare => KernelInv'
<1> SUFFICES ASSUME KernelInv, Compare PROVE KernelInv'
  OBVIOUS
<1>1. /\ row' \in 0 .. SPMM_MB - 1 /\ at' \in {"compare", "end"}
      /\ UNCHANGED <<fixed, issued, sp, done, k, j, stride>>
  BY CounterTypes DEF Compare
<1>2. mismatch' \in BOOLEAN
  BY CounterTypes DEF Compare
<1>3. Counters'
  BY <1>1, CounterTypes DEF Counters
<1>4. row' \in 0 .. SPMM_MB
  BY <1>1, CounterTypes
<1> QED
  BY <1>1, <1>2, <1>3, <1>4, CounterTypes, QuietInv DEF Places

-----------------------------------------------------------------------------
(* The accelerator: it forgets a command and touches no counter. *)

LEMMA RetireInv ==
  ASSUME KernelInv, NEW n \in DOMAIN issued, Retire(n),
         \A a \in DOMAIN sp' : sp'[a] \in Contents
  PROVE  KernelInv'
<1>1. issued' \in Seq(Fitting) /\ Len(issued') <= Len(issued)
  BY RemoveAtKeeps DEF Retire, KernelInv
<1>2. UNCHANGED <<fixed, at, row, done, k, j, stride, mismatch>>
  BY DEF Retire, program
<1>3. Fixed' /\ issued' \in Seq(Fitting)'
  BY <1>1, <1>2, FittingIsFixed DEF fixed, Fixed, KernelInv
<1>4. Len(issued') <= InFlight
  <2>1. Len(issued) <= InFlight
    BY DEF KernelInv, SpmmTypeOK
  <2>2. Len(issued) \in Nat /\ Len(issued') \in Nat
    BY <1>1 DEF KernelInv
  <2> QED
    BY <1>1, <2>1, <2>2, ShapeTypes
<1>5. SpmmTypeOK'
  BY <1>2, <1>4 DEF KernelInv, SpmmTypeOK, fixed, Contents
<1>6. Counters'
  BY <1>2 DEF KernelInv, Counters, K, fixed
<1> QED
  BY <1>3, <1>5, <1>6 DEF KernelInv

LEMMA AcceleratorStep == KernelInv /\ Accelerator => KernelInv'
<1> SUFFICES ASSUME KernelInv, NEW n \in 1 .. Len(issued),
                    CompleteLoad(n) \/ CompleteProduct(n) \/ CompleteStore(n)
             PROVE  KernelInv'
  BY DEF Accelerator
<1>1. n \in DOMAIN issued /\ issued[n] \in Command
  BY DEF KernelInv, Fitting
<1>2. \A a \in DOMAIN sp : sp[a] \in Contents
  BY DEF KernelInv, SpmmTypeOK
<1>3. CASE CompleteLoad(n)
  <2>1. issued[n] \in [op: {"mvin"}, to: Int, items: Seq(Contents)]
    BY <1>1, <1>3 DEF Command, CompleteLoad
  <2>2. ASSUME NEW a \in SpWrites(issued[n])
        PROVE  issued[n].items[a - issued[n].to + 1] \in Contents
    <3>1. /\ issued[n].items \in Seq(Contents) /\ issued[n].to \in Int
          /\ a \in issued[n].to .. issued[n].to + Len(issued[n].items) - 1
      BY <2>1, <2>2 DEF SpWrites
    <3>2. a - issued[n].to + 1 \in 1 .. Len(issued[n].items)
      BY <3>1
    <3> QED
      BY <3>1, <3>2
  <2>3. sp' = [a \in DOMAIN sp |->
                 IF a \in SpWrites(issued[n])
                 THEN issued[n].items[a - issued[n].to + 1] ELSE sp[a]]
    BY <1>3 DEF CompleteLoad
  <2>4. \A a \in DOMAIN sp' : sp'[a] \in Contents
    BY <1>2, <2>2, <2>3
  <2> QED
    BY <1>1, <1>3, <2>4, RetireInv DEF CompleteLoad
<1>4. CASE CompleteProduct(n) \/ CompleteStore(n)
  <2>1. Retire(n) /\ sp' = sp
    BY <1>4 DEF CompleteProduct, CompleteStore
  <2> QED
    BY <1>1, <1>2, <2>1, RetireInv
<1> QED
  BY <1>3, <1>4

-----------------------------------------------------------------------------
LEMMA KernelInit == Init => KernelInv
<1> SUFFICES ASSUME Init PROVE KernelInv
  OBVIOUS
<1>1. design \in Designs /\ Legal(design, Pinned) /\ plan \in [Rows -> Walks]
  BY DEF Init
<1>2. design.x_resident \in BOOLEAN
  BY <1>1, DesignFieldTypes
<1>3. SpmmTypeOK
  <2>1. accres \in BOOLEAN
    BY KernelAssumption DEF Init, KernelAssumption
  <2>2. Len(issued) <= InFlight
    <3>1. Len(issued) = 0
      BY DEF Init
    <3> QED
      BY <3>1, ShapeTypes
  <2>3. \A a \in DOMAIN sp : sp[a] \in Contents
    <3>1. sp = [a \in 0 .. SpTiles - 1 |-> Junk]
      BY DEF Init
    <3> QED
      BY <3>1 DEF Contents
  <2>4. /\ row \in 0 .. SPMM_MB /\ done \in 0 .. SPMM_KB
        /\ k \in Cols /\ j \in Tiles
    BY ShapeTypes DEF Init, Cols, Tiles
  <2>5. at \in {"preload", "rows"} /\ stride \in {0, SPMM_N}
    BY DEF Init
  <2> QED
    BY <1>1, <2>1, <2>2, <2>3, <2>4, <2>5 DEF Init, SpmmTypeOK
<1>4. Counters
  BY <1>2 DEF Init, Counters
<1>5. issued \in Seq(Fitting)
  BY DEF Init
<1> QED
  BY <1>1, <1>3, <1>4, <1>5 DEF KernelInv, Fixed

LEMMA KernelStep == KernelInv /\ [Next]_vars => KernelInv'
<1>1. KernelInv /\ UNCHANGED vars => KernelInv'
  <2> SUFFICES ASSUME KernelInv, UNCHANGED vars PROVE KernelInv'
    OBVIOUS
  <2>1. UNCHANGED <<fixed, at, row, done, k, j, stride, issued, sp, mismatch>>
    BY DEF vars, program
  <2>2. Counters'
    BY <2>1 DEF KernelInv, Counters, K, fixed
  <2>3. at' \in Places
    BY <2>1 DEF KernelInv, SpmmTypeOK, Places
  <2> QED
    BY <2>1, <2>2, <2>3, CounterTypes, QuietInv
<1> QED
  BY <1>1, PreloadXStep, FenceXStep, SkipEmptyRowStep, RowMacStep, LoadXStep,
     LoadAStep, MacTileStep, StoreYStep, BlockMacStep, StopClockStep,
     CompareStep, AcceleratorStep
     DEF Next, Processor

LEMMA KernelInvariant == Spec => []KernelInv
  BY KernelInit, KernelStep, PTL DEF Spec

(* The types of the kernel's state, for every workload shape, every set of *)
(* designs and every pattern of nonzero blocks.                            *)
THEOREM SpmmTypeCorrect == Spec => []SpmmTypeOK
  BY KernelInvariant, PTL DEF KernelInv

(* Every schedule the legality check accepts stays in the scratchpad and   *)
(* the accumulator, whatever the capacities, banks, chunk and load widths: *)
(* the coupled rules of the check imply the bounds of the kernel's layout. *)
THEOREM SchedulesStayInBounds == Spec => []ScheduleStaysInBounds
<1>1. KernelInv => ScheduleStaysInBounds
  BY DEF KernelInv, ScheduleStaysInBounds, LegalSchedulesFit, Fitting
<1> QED
  BY <1>1, KernelInvariant, PTL
=============================================================================
