---------------------------- MODULE SpmmContract ----------------------------
(***************************************************************************)
(* What the SpMM kernel promises, whatever its schedule: Y starts at zero, *)
(* and every row of blocks only ever gains products of that row of A with  *)
(* the matching slices of X, none of them twice, until Y is the product    *)
(* A * X and stays so.                                                     *)
(*                                                                         *)
(* A value of Y is the bag of the block products summed in it.             *)
(***************************************************************************)
EXTENDS Naturals, Bags

CONSTANTS
  Rows,     \* block rows of A and Y
  Cols,     \* block columns of A, block rows of X
  Tiles     \* the tiles of DIM columns that Y and X are wide

VARIABLES
  blocks,   \* the blocks of A that hold a nonzero
  Y         \* Y[r][c]: the tile of Y in block row r and column tile c

(* One dense block of A, one slice of X, and their product. *)
ABlock(r, c) == <<"A", r, c>>
XSlice(c, t) == <<"X", c, t>>
Product(r, c, t) == <<ABlock(r, c), XSlice(c, t)>>

(* The golden result: in each tile, every block of the row once. *)
Golden ==
  [r \in Rows |-> [t \in Tiles |->
     SetToBag({Product(r, c, t) : c \in {d \in Cols : <<r, d>> \in blocks}})]]

ContractInit ==
  /\ blocks \in SUBSET (Rows \X Cols)
  /\ Y = [r \in Rows |-> [t \in Tiles |-> EmptyBag]]

(* One row gains some of the products it still owes. *)
Gain(r) ==
  /\ \A t \in Tiles : /\ Y[r][t] \sqsubseteq Y'[r][t]
                      /\ Y'[r][t] \sqsubseteq Golden[r][t]
  /\ \A q \in Rows \ {r} : Y'[q] = Y[q]
  /\ UNCHANGED blocks

ContractNext == \E r \in Rows : Gain(r)

ContractSpec == ContractInit /\ [][ContractNext]_<<blocks, Y>>
=============================================================================
