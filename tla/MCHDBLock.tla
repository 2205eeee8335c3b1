----------------------------- MODULE MCHDBLock -----------------------------
(* HDBLock for a few processes, all of which may crash.                    *)
EXTENDS HDBLock
=============================================================================
