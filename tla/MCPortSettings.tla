--------------------------- MODULE MCPortSettings ---------------------------
(* A console's settings, and the settings of another program.              *)
EXTENDS PortSettings

Console == [speed |-> 9600, csize |-> 8, parenb |-> FALSE, parodd |-> FALSE,
            cstopb |-> FALSE, crtscts |-> FALSE, hupcl |-> FALSE,
            ixon |-> TRUE, ixoff |-> FALSE, raw |-> FALSE]
Other == [Console EXCEPT !.speed = 115200, !.csize = 7, !.parenb = TRUE,
                         !.parodd = TRUE, !.crtscts = TRUE]
MCSettings == {Console, Other}
=============================================================================
