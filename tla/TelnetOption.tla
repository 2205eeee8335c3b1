---------------------------- MODULE TelnetOption ----------------------------
(***************************************************************************)
(* Telnet option negotiation between sercd and a client.                   *)
(*                                                                         *)
(* sercd offers and requests its options once, when a client connects      *)
(* (SendTelnetInitialOptions), and afterwards only answers what the client *)
(* sends (HandleIACCommand).  For every option it remembers in tnstate     *)
(* whether it performs it (is_will), whether the client does (is_do), and  *)
(* whether an offer or a request of its own is still unanswered (sent_will *)
(* and sent_do).  The fields sent_wont and sent_dont are only ever set to  *)
(* 0 and never read, and are left out.                                     *)
(*                                                                         *)
(* The client is any program that negotiates with the queue of RFC 1143;   *)
(* it answers as it likes and changes its mind at any time.                *)
(***************************************************************************)
EXTENDS Naturals, Sequences

CONSTANTS Option,       \* the options there are; they do not interact, so
                        \* some can be left out
          MaxAsks,      \* bound on what the client asks of its own accord
          MaxSessions   \* bound on the reconnections

ASSUME TelnetAssumption ==
    /\ "COMPORT" \in Option
    /\ MaxAsks \in Nat
    /\ MaxSessions \in Nat

\* TN_TRANSMIT_BINARY, TN_ECHO, TN_SUPPRESS_GO_AHEAD and TNCOM_PORT_OPTION.
Supported == {"BINARY", "ECHO", "SGA", "COMPORT"}

VARIABLES
    tnstate,    \* what sercd knows of each option
    toClient,   \* commands on their way to the client
    toSercd,    \* commands on their way to sercd
    us,         \* the client's state for the options it performs itself
    him,        \* the client's state for the options sercd performs
    asks,       \* how often the client has asked so far
    sessions    \* how many clients have connected

vars == <<tnstate, toClient, toSercd, us, him, asks, sessions>>

Cmd == {"WILL", "WONT", "DO", "DONT", "SB"}

\* "_opp": the client has changed its mind since it asked.
QState == {"no", "yes", "wantno", "wantno_opp", "wantyes", "wantyes_opp"}

Msg(cmd, opt) == [cmd |-> cmd, opt |-> opt]

----------------------------------------------------------------------------
(* sercd.                                                                  *)

\* All bits are cleared for a new connection,
InitTelnetStateMachine(opt) ==
    [sent_will |-> FALSE, sent_do |-> FALSE, is_will |-> FALSE, is_do |-> FALSE]

\* six options are sent, as far as they are modelled,
InitialOption(cmd, opt) == IF opt \in Option THEN <<Msg(cmd, opt)>> ELSE <<>>

SendTelnetInitialOptions ==
       InitialOption("WILL", "BINARY") \o InitialOption("DO", "BINARY")
    \o InitialOption("WILL", "ECHO")
    \o InitialOption("WILL", "SGA") \o InitialOption("DO", "SGA")
    \o InitialOption("DO", "COMPORT")

\* and the ones sent are remembered.
InitialState(opt) ==
    [InitTelnetStateMachine(opt) EXCEPT
        !.sent_will = @ \/ opt \in {"BINARY", "ECHO", "SGA"},
        !.sent_do   = @ \/ opt \in {"BINARY", "SGA", "COMPORT"}]

MutSendTelnetOption(send, cmd, opt) ==
    toClient' = IF send THEN Append(toClient, Msg(opt, cmd)) ELSE toClient
SendTelnetOption(send, cmd, opt) ==
    toClient' = IF send THEN Append(toClient, Msg(cmd, opt)) ELSE toClient

\* WILL: the four supported options are accepted, any other is rejected.
MutWill(opt) ==
    /\ IF opt \in Supported
       THEN SendTelnetOption(~tnstate[opt].sent_do, "DO", opt)
       ELSE SendTelnetOption(TRUE, "DONT", opt)
    /\ tnstate' = [tnstate EXCEPT
                      ![opt].is_do = opt \in Supported /\ ~tnstate[opt].sent_do,
                      ![opt].sent_do = FALSE]
Will(opt) ==
    /\ IF opt \in Supported
       THEN SendTelnetOption(~tnstate[opt].sent_do, "DO", opt)
       ELSE SendTelnetOption(TRUE, "DONT", opt)
    /\ tnstate' = [tnstate EXCEPT ![opt].is_do = opt \in Supported,
                                  ![opt].sent_do = FALSE]

Do(opt) ==
    /\ IF opt \in Supported
       THEN SendTelnetOption(~tnstate[opt].sent_will, "WILL", opt)
       ELSE SendTelnetOption(TRUE, "WONT", opt)
    /\ tnstate' = [tnstate EXCEPT ![opt].is_will = opt \in Supported,
                                  ![opt].sent_will = FALSE]

\* DONT and WONT are confirmed only if the option was in effect.
Dont(opt) ==
    /\ SendTelnetOption(tnstate[opt].is_will, "WONT", opt)
    /\ tnstate' = [tnstate EXCEPT ![opt].is_will = FALSE,
                                  ![opt].sent_will = FALSE]

Wont(opt) ==
    /\ SendTelnetOption(tnstate[opt].is_do, "DONT", opt)
    /\ tnstate' = [tnstate EXCEPT ![opt].is_do = FALSE,
                                  ![opt].sent_do = FALSE]

\* A suboption is handled only if its option is in effect either way.
SuboptionAccepted(opt) == tnstate[opt].is_will \/ tnstate[opt].is_do

\* One complete command from the client.  What a suboption does to the port
\* is not part of the negotiation.
HandleIACCommand ==
    /\ toSercd # <<>>
    /\ toSercd' = Tail(toSercd)
    /\ LET m == Head(toSercd)
       IN  \/ m.cmd = "WILL" /\ Will(m.opt)
           \/ m.cmd = "WONT" /\ Wont(m.opt)
           \/ m.cmd = "DO"   /\ Do(m.opt)
           \/ m.cmd = "DONT" /\ Dont(m.opt)
           \/ m.cmd = "SB"   /\ UNCHANGED <<tnstate, toClient>>
    /\ UNCHANGED <<us, him, asks, sessions>>

----------------------------------------------------------------------------
(* The client.                                                             *)

\* What the client's state becomes, and what it answers ("on", "off" or
\* nothing), when sercd offers or requests an option (on) or ends it (~on).
ClientHears(q, on) ==
    IF on
    THEN CASE q = "no"          -> {<<"yes", "on">>, <<"no", "off">>}
           [] q = "yes"         -> {<<"yes", "nothing">>}
           [] q = "wantno"      -> {<<"no", "nothing">>}
           [] q = "wantno_opp"  -> {<<"yes", "nothing">>}
           [] q = "wantyes"     -> {<<"yes", "nothing">>}
           [] q = "wantyes_opp" -> {<<"wantno", "off">>}
    ELSE CASE q = "yes"         -> {<<"no", "off">>}
           [] q = "wantno_opp"  -> {<<"wantyes", "on">>}
           [] OTHER             -> {<<"no", "nothing">>}

\* The same when the client itself wants the option on or off.
ClientWants(q, on) ==
    CASE q = "no"          /\ on  -> <<"wantyes", "on">>
      [] q = "yes"         /\ ~on -> <<"wantno", "off">>
      [] q = "wantno"      /\ on  -> <<"wantno_opp", "nothing">>
      [] q = "wantno_opp"  /\ ~on -> <<"wantno", "nothing">>
      [] q = "wantyes"     /\ ~on -> <<"wantyes_opp", "nothing">>
      [] q = "wantyes_opp" /\ on  -> <<"wantyes", "nothing">>
      [] OTHER                    -> <<q, "nothing">>

\* The client's commands about its own options and about sercd's.
ClientSends(answer, on, off, opt) ==
    toSercd' = IF answer = "nothing" THEN toSercd
               ELSE Append(toSercd, Msg(IF answer = "on" THEN on ELSE off, opt))

ClientReceives ==
    /\ toClient # <<>>
    /\ toClient' = Tail(toClient)
    /\ LET m == Head(toClient)
       IN  \/ /\ m.cmd \in {"DO", "DONT"}
              /\ \E r \in ClientHears(us[m.opt], m.cmd = "DO") :
                    /\ us' = [us EXCEPT ![m.opt] = r[1]]
                    /\ ClientSends(r[2], "WILL", "WONT", m.opt)
              /\ UNCHANGED him
           \/ /\ m.cmd \in {"WILL", "WONT"}
              /\ \E r \in ClientHears(him[m.opt], m.cmd = "WILL") :
                    /\ him' = [him EXCEPT ![m.opt] = r[1]]
                    /\ ClientSends(r[2], "DO", "DONT", m.opt)
              /\ UNCHANGED us
    /\ UNCHANGED <<tnstate, asks, sessions>>

ClientAsksUs(opt, on) ==
    /\ asks < MaxAsks
    /\ LET r == ClientWants(us[opt], on)
       IN  /\ r[1] # us[opt]
           /\ us' = [us EXCEPT ![opt] = r[1]]
           /\ ClientSends(r[2], "WILL", "WONT", opt)
    /\ asks' = asks + 1
    /\ UNCHANGED <<tnstate, toClient, him, sessions>>

ClientAsksHim(opt, on) ==
    /\ asks < MaxAsks
    /\ LET r == ClientWants(him[opt], on)
       IN  /\ r[1] # him[opt]
           /\ him' = [him EXCEPT ![opt] = r[1]]
           /\ ClientSends(r[2], "DO", "DONT", opt)
    /\ asks' = asks + 1
    /\ UNCHANGED <<tnstate, toClient, us, sessions>>

\* A COM-PORT-OPTION command, once both sides have agreed to the option.
ClientCommands ==
    /\ asks < MaxAsks
    /\ us["COMPORT"] = "yes"
    /\ toSercd' = Append(toSercd, Msg("SB", "COMPORT"))
    /\ asks' = asks + 1
    /\ UNCHANGED <<tnstate, toClient, us, him, sessions>>

\* The connection is dropped, at any moment, and the next client connects.
MutNewConnection ==
    /\ sessions < MaxSessions
    /\ sessions' = sessions + 1
    /\ toClient' = SendTelnetInitialOptions
    /\ toSercd' = <<>>
    /\ us' = [opt \in Option |-> "no"]
    /\ him' = [opt \in Option |-> "no"]
    /\ UNCHANGED <<tnstate, asks>>
NewConnection ==
    /\ sessions < MaxSessions
    /\ sessions' = sessions + 1
    /\ tnstate' = [opt \in Option |-> InitialState(opt)]
    /\ toClient' = SendTelnetInitialOptions
    /\ toSercd' = <<>>
    /\ us' = [opt \in Option |-> "no"]
    /\ him' = [opt \in Option |-> "no"]
    /\ UNCHANGED asks

----------------------------------------------------------------------------

Init ==
    /\ sessions = 0
    /\ tnstate = [opt \in Option |-> InitialState(opt)]
    /\ toClient = SendTelnetInitialOptions
    /\ toSercd = <<>>
    /\ us = [opt \in Option |-> "no"]
    /\ him = [opt \in Option |-> "no"]
    /\ asks = 0

Next ==
    \/ HandleIACCommand
    \/ ClientReceives
    \/ \E opt \in Option, on \in BOOLEAN : ClientAsksUs(opt, on)
    \/ \E opt \in Option, on \in BOOLEAN : ClientAsksHim(opt, on)
    \/ ClientCommands
    \/ NewConnection

Spec == Init /\ [][Next]_vars

----------------------------------------------------------------------------
(* Properties.                                                             *)

\* Commands in flight are about options, and states are states.
TypeOK ==
    /\ tnstate \in [Option -> [sent_will : BOOLEAN, sent_do : BOOLEAN,
                               is_will : BOOLEAN, is_do : BOOLEAN]]
    /\ toClient \in Seq([cmd : Cmd \ {"SB"}, opt : Option])
    /\ toSercd \in Seq([cmd : Cmd, opt : Option])
    /\ us \in [Option -> QState]
    /\ him \in [Option -> QState]
    /\ asks \in 0 .. MaxAsks
    /\ sessions \in 0 .. MaxSessions

\* Once no command is in flight, both ends agree on which options are in
\* effect, the client is not waiting for an answer, and sercd does not
\* remember an offer or request that has been answered
\* (HandleIACCommand, SendTelnetInitialOptions).
Agreement ==
    (toClient = <<>> /\ toSercd = <<>>) =>
        \A opt \in Option :
            /\ us[opt] = IF tnstate[opt].is_do THEN "yes" ELSE "no"
            /\ him[opt] = IF tnstate[opt].is_will THEN "yes" ELSE "no"
            /\ ~tnstate[opt].sent_do /\ ~tnstate[opt].sent_will

\* A client that has agreed to the COM-PORT-OPTION can send commands right
\* away: none is ignored because sercd does not know of the agreement yet
\* (the condition on TNSB in HandleIACCommand).
CommandNotIgnored ==
    (toSercd # <<>> /\ Head(toSercd).cmd = "SB") =>
        SuboptionAccepted(Head(toSercd).opt)
=============================================================================
