---------------------------- MODULE MCTokenSwaps --------------------------
(* Model-checking instances of TokenSwaps.                                 *)
EXTENDS TokenSwaps, TLC

\* Workers run the same code, and so do rows: renaming them changes nothing.
Symmetry == Permutations(Workers) \cup Permutations(Sends)

=============================================================================
