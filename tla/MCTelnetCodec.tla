--------------------------- MODULE MCTelnetCodec ---------------------------
(* Bytes that mean something to the codec, one that does not, and commands *)
(* of every length.                                                        *)
EXTENDS TelnetCodec

MCData == {SB, IAC, CR, LF, NUL}
MCParameter == {5, IAC, CR}
MCRate == {<<0, 0, 37, 128>>, <<0, IAC, 1, 0>>, <<CR, 0, CR, LF>>}
MCText == {<<>>, <<65, IAC, 66>>, <<65, 66, 67, 68, 69, 70, 71, 72>>}
MCSignature == <<115, 49>>
=============================================================================
