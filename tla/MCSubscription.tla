--------------------------- MODULE MCSubscription ---------------------------
EXTENDS Subscription, TLC

\* Requests are interchangeable: nothing orders or names them.
RequestSymmetry == Permutations(Requests)
=============================================================================
