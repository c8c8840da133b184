-------------------------- MODULE MCSignedInReads --------------------------
EXTENDS SignedInReads, TLC

\* Readers and users are interchangeable.
Symmetry == Permutations(Readers) \cup Permutations(Users)
=============================================================================
