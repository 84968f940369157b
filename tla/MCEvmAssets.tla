------------------------------ MODULE MCEvmAssets ------------------------------
EXTENDS EvmAssets, TLC

CONSTANTS a1, a2, a3, a4, a5

MCAssetIds == {1, 2, 3, 4}
MCAddresses == {a1, a2, a3, a4, a5}
(* Four asset addresses and one address no asset maps to.                  *)
MCAssetAddress == (1 :> a1) @@ (2 :> a2) @@ (3 :> a3) @@ (4 :> a4)
=============================================================================
