------------------------------- MODULE MCSrq -------------------------------
(* Instances of Srq for TLC.                                                 *)
EXTENDS Srq, TLC

\* Entries are interchangeable, and so are queues.
CellSymmetry == {a @@ b : a \in Permutations(Nodes), b \in Permutations(Queues)}

\* The steps before which a death is harmless, and those before which it is not:
\* shb_insert_prior, or the links of a removed entry, are yet to be reset.
Harmless == Steps \ {"clear_prior", "undo_prior", "init_node"}
BeforeClearPrior == {"clear_prior", "insert_prior"}
BeforeInitNode == {"init_node"}
=============================================================================
