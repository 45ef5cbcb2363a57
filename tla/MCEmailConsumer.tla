-------------------------- MODULE MCEmailConsumer --------------------------
EXTENDS EmailConsumer, TLC

CONSTANTS m1, m2, m3, m4, i1, i2

\* Two publications of one email (a report of the same hour published twice), one of
\* another.
TwoCopies == m1 :> i1 @@ m2 :> i1 @@ m3 :> i2

\* Two copies again, one that came without an id and one that no template renders.
OneOfEach == m1 :> i1 @@ m2 :> i1 @@ m3 :> NoId @@ m4 :> i2

\* Two publications only, of one email.
OnePair == m1 :> i1 @@ m2 :> i1

\* Instances are interchangeable.
ConsumerSymmetry == Permutations(Consumers)
=============================================================================
