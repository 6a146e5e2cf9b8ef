---------------------------- MODULE MCFetchStream ----------------------------
(* Small instances of FetchStream. *)
EXTENDS FetchStream, TLC

CONSTANTS w1, w2

MCTwoWorkers == {w1, w2}

\* One inline chunk, a batch of two chunks among batches of one: a caller can
\* break inside a batch and between batches.
MCBatchSize == [b \in 0..LastBatch |-> IF b = 2 THEN 2 ELSE 1]

MCSymmetry == Permutations(MCTwoWorkers)
=============================================================================
