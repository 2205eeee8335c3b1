---------------------------- MODULE MCModemState ----------------------------
(* Two lines, any mask; a second of two milliseconds of three microseconds *)
EXTENDS ModemState
=============================================================================
