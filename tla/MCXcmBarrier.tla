----------------------------- MODULE MCXcmBarrier -----------------------------
EXTENDS XcmBarrier

(* The Allow barrier admits the relay chain and a sibling parachain.       *)
MCAllowedOrigins ==
  {RelayChain, [parents |-> 1, interior |-> "Parachain"]}
=============================================================================
