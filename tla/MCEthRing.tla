----------------------------- MODULE MCEthRing -----------------------------
(* Rings of two and of four descriptors: a quarter of the receive ring is a *)
(* descriptor, so refilling waits for two empty ones.                      *)
EXTENDS EthRing
=============================================================================
