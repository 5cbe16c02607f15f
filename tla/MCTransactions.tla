--------------------------- MODULE MCTransactions ---------------------------
(* Instances of Transactions for TLC. *)
EXTENDS Transactions, TLC

ProcSymmetry == Permutations(Procs)
=============================================================================
