------------------------------ MODULE MCIngest ------------------------------
(* The small instances of Ingest.                                          *)
EXTENDS Ingest, TLC

CONSTANTS main, dev, f1, f2, x1, x2, v

MCBranches  == {main, dev}
MCBatches   == {v}
MCFlushers  == {f1, f2}
MCOne       == {f1}
MCFork      == {x1}
MCForks     == {x1, x2}
MCForkPairs == {<<main, dev>>}

Symmetry    == Permutations(MCFlushers) \cup Permutations(MCForks)
=============================================================================
