--------------------------- MODULE MCBatchOptimizer ---------------------------
(* BatchOptimizer with three images.                                        *)
EXTENDS BatchOptimizer

CONSTANTS i, j, k, b
=============================================================================
