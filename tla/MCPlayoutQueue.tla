--------------------------- MODULE MCPlayoutQueue ---------------------------
(***************************************************************************)
(* Instances of PlayoutQueue for TLC.  Auto-fill and prefetch constants    *)
(* are scaled down and keep AUTO_FILL_THRESHOLD <= AUTO_FILL_BATCH.        *)
(***************************************************************************)
EXTENDS PlayoutQueue, TLC

CONSTANTS h1, h2, i1, i2, i3

\* Handlers are interchangeable: no definition tells one slot from another.
HandlerSymmetry == Permutations({h1, h2})

\* So are items, as long as all of them start in the pool.
ItemSymmetry == Permutations({i1, i2})
=============================================================================
