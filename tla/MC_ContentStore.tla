--------------------------- MODULE MC_ContentStore ---------------------------
(***************************************************************************)
(* ContentStore for TLC: a block tree of two competing two-block branches, *)
(* so that the Trunk can reorganise from one branch to the other and back, *)
(* and on either branch the first block's coin matures (Maturity 2) once   *)
(* the second is mined on it.  Every block pays the wallet.                *)
(*                                                                         *)
(*        G <- A1 <- A2                                                    *)
(*        G <- B1 <- B2                                                    *)
(***************************************************************************)
EXTENDS ContentStore, TLC

CONSTANTS G, A1, A2, B1, B2

MCBlocks == {G, A1, A2, B1, B2}
MCParent == (A1 :> G) @@ (A2 :> A1) @@ (B1 :> G) @@ (B2 :> B1)
MCPaysWallet == {A1, A2, B1, B2}

=============================================================================
