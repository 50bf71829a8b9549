---------------------------- MODULE SpmmWorkloads ----------------------------
(***************************************************************************)
(* The shapes of the generated workloads (src/workload/generated/*.h), one *)
(* record per header: the macros the kernel is compiled against.  The      *)
(* numbers in the matrices are data the models do not look at.             *)
(***************************************************************************)
EXTENDS Integers

Shape(m, n, dim, nzb, nnz) ==
  [ M |-> m, K |-> m, N |-> n, DIM |-> dim,
    MB |-> m \div dim, KB |-> m \div dim, NZB |-> nzb, NNZ |-> nnz ]

dnn128 == Shape(128, 32, 16, 32, 512)
dnn256 == Shape(256, 32, 16, 128, 2048)
dnn512 == Shape(512, 64, 16, 512, 8192)
dnn1024 == Shape(1024, 64, 16, 2048, 32768)
jag512 == Shape(512, 64, 16, 117, 1889)

Workloads == {dnn128, dnn256, dnn512, dnn1024, jag512}

(* Rows of scratchpad that all of X takes. *)
XRows(w) == w.KB * (w.N \div w.DIM) * w.DIM
=============================================================================
