--------------------------- MODULE MCClaimScreen --------------------------
(* Model-checking instances of ClaimScreen: two tokens of different mints. *)
EXTENDS ClaimScreen, TLC

CONSTANTS t1, t2, m1, m2

MCMintOf == (t1 :> m1) @@ (t2 :> m2)

=============================================================================
