--------------------------- MODULE MCMintQuote ----------------------------
(* Model-checking instances of MintQuote.                                  *)
EXTENDS MintQuote, TLC

Symmetry == Permutations(Keysets)

=============================================================================
