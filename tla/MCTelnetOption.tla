--------------------------- MODULE MCTelnetOption ---------------------------
(* One option of each kind: requested, offered, and unsupported.           *)
EXTENDS TelnetOption
=============================================================================
