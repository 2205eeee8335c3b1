---------------------------- MODULE TelnetCodec ----------------------------
(***************************************************************************)
(* The Telnet stream codec of sercd, in both directions.                   *)
(*                                                                         *)
(* From the client: EscRedirectChar takes the stream apart byte by byte,   *)
(* into data for the device and commands for HandleIACCommand.  Its state  *)
(* (IACEscape, IACSigEscape, IACCommand and a static Last) belongs to the  *)
(* program and not to the connection: it survives when a client is cut off *)
(* in the middle of a command and the next one connects.                   *)
(*                                                                         *)
(* To the client: EscWriteChar escapes the data of the device, and the     *)
(* parameters of every answer, with one static Last for both.              *)
(*                                                                         *)
(* The client conforms to RFC 854, 856 and 2217.  It sends whole messages, *)
(* one at a time, and the connection may break at any byte.  Bytes are the *)
(* numbers of the protocols, because some of them coincide.  On the way,   *)
(* the bytes that stand for one are grouped; both ends read them one by    *)
(* one and know nothing of the groups.                                     *)
(*                                                                         *)
(* The directions share only the options in effect, so each is explored on *)
(* its own, chosen at the start (side): answers come from what the client  *)
(* has sent, and to EscWriteChar they come at any time.                    *)
(***************************************************************************)
EXTENDS Integers, SequencesExt

CONSTANTS Data,         \* the bytes that the client and the device send
          MaxData,      \* bound on the length of one piece of data
          Parameter,    \* the one-byte parameters of the client's commands
          Rate,         \* the baud rates, as four bytes in network order
          Text,         \* the signatures of the client
          Signature,    \* the signature of sercd
          SizeofIACCommand   \* sizeof(IACCommand), TmpStrLen in the code

Byte == 0 .. 255

ASSUME CodecAssumption ==
    /\ Data \subseteq Byte /\ Parameter \subseteq Byte
    /\ MaxData \in Nat
    /\ Rate \subseteq [1 .. 4 -> Byte]
    /\ \A t \in Text \cup {Signature} : t \in Seq(Byte)
    /\ SizeofIACCommand \in Nat /\ SizeofIACCommand >= 10

IAC == 255
DONT == 254
DO == 253
WONT == 252
WILL == 251
SB == 250
NOP == 241
SE == 240
BINARY == 0
COM_PORT == 44
SIGNATURE == 0
BAUDRATE == 1
SUSPEND == 8
RESUME == 9
MODEMSTATE_MASK == 11
CR == 13
LF == 10
NUL == 0
ASC == 100      \* an answer has the code of its command plus 100

\* Option commands in a row after which a parser in any state is in step.
Heal == 2

VARIABLES
    IACEscape, IACSigEscape, IACCommand,    \* IACPos is Len(IACCommand)
    rxLast,     \* Last of EscRedirectChar
    txLast,     \* Last of EscWriteChar
    tnstate,    \* is_do and is_will of BINARY, is_do of COM_PORT, whose
                \* is_will the code takes as well and this client never asks for
    client,     \* the client's side: the modes it has asked for; mode and cr, the
                \* state of its decoder; last, the kind of what it was sent last
    wire,       \* bytes of the client's message that sercd has not read yet
    toClient,   \* bytes of sercd that the client has not read yet
    msg,        \* the client's message: its data and commands, and whether the
                \* parser should be in step when it starts;
    toDev,      \* what came of it at the device
    heard,      \* and at HandleIACCommand
    item,       \* what sercd has sent last, and what the client made of it
    pristine,   \* history: nothing has upset the parser since the start
    steady,     \* history: option commands in a row since it was last upset
    side        \* the direction that is explored

parser == <<IACEscape, IACSigEscape, IACCommand, rxLast>>
inVars == <<parser, wire, msg, toDev, heard, pristine, steady>>
outVars == <<txLast, toClient, item>>
vars == <<inVars, outVars, tnstate, client, side>>

EscState == {"Normal", "Received", "ComReceiving"}

NoItem == [given |-> <<>>, got |-> <<>>, fair |-> TRUE]
NoMsg == [data |-> <<>>, cmds |-> <<>>, insync |-> FALSE]
NewClient == [us |-> FALSE, him |-> FALSE, com_port |-> FALSE,
              mode |-> "data", cr |-> FALSE, last |-> "nothing"]

\* What is left of the groups when their first byte has been read.
FirstByte(groups) == Head(Head(groups))
ButFirstByte(groups) ==
    IF Len(Head(groups)) = 1 THEN Tail(groups)
    ELSE <<Tail(Head(groups))>> \o Tail(groups)

----------------------------------------------------------------------------
(* The client.                                                             *)

\* The client's decoder: data, and the contents of suboptions; in NVT mode
\* the NUL after a CR is not data.
ClientGets(mode, cr, out) ==
    /\ client' = [client EXCEPT !.mode = mode, !.cr = cr]
    /\ item' = [item EXCEPT !.got = @ \o out]

ClientByte(c) ==
    \/ /\ client.mode = "data"
       /\ IF c = IAC THEN ClientGets("iac", client.cr, <<>>)
          ELSE IF c = NUL /\ client.cr /\ ~client.him THEN ClientGets("data", FALSE, <<>>)
               ELSE ClientGets("data", c = CR, <<c>>)
    \/ /\ client.mode = "iac"
       /\ IF c = SB THEN ClientGets("sb", client.cr, <<>>)
                    ELSE ClientGets("data", FALSE, <<c>>)
    \/ /\ client.mode = "sb"
       /\ IF c = IAC THEN ClientGets("sbiac", client.cr, <<>>)
                     ELSE ClientGets("sb", client.cr, <<c>>)
    \/ /\ client.mode = "sbiac"
       /\ IF c = SE THEN ClientGets("data", client.cr, <<>>)
                    ELSE ClientGets("sb", client.cr, <<c>>)

ClientReads ==
    /\ toClient # <<>>
    /\ toClient' = ButFirstByte(toClient)
    /\ ClientByte(FirstByte(toClient))
    /\ UNCHANGED <<inVars, txLast, tnstate, side>>

\* 255 is doubled, and in NVT mode a CR that no LF follows is CR NUL.
ClientEscapes(d, binary) ==
    [i \in 1 .. Len(d) |->
        IF d[i] = IAC THEN <<IAC, IAC>>
        ELSE IF d[i] = CR /\ ~binary /\ ~(i < Len(d) /\ d[i + 1] = LF)
             THEN <<CR, NUL>> ELSE <<d[i]>>]

Suboption(code, groups) ==
    <<<<IAC, SB, COM_PORT, code>>>> \o groups \o <<<<IAC, SE>>>>

----------------------------------------------------------------------------
(* sercd to the client.                                                    *)

MutEscWriteChar(C, last) ==
    IF C # LF /\ ~tnstate.is_will /\ last = CR THEN <<NUL, C>>
    ELSE IF C = IAC THEN <<C, C>> ELSE <<C>>
EscWriteChar(C, last) ==
    IF C = IAC THEN <<C, C>>
    ELSE IF C # LF /\ ~tnstate.is_will /\ last = CR THEN <<NUL, C>>
         ELSE <<C>>

\* SendStr, and the parameters of SendBaudRate and SendCPCByteCommand.
SendStr(str) ==
    [i \in 1 .. Len(str) |-> EscWriteChar(str[i], IF i = 1 THEN txLast ELSE str[i - 1])]

\* The client is to receive groups for what sercd was given to send.  In NVT
\* mode nothing is promised when a CR and an answer meet, or two sessions, or
\* when a CR is part of an answer.
SendsToClient(given, groups, kind) ==
    /\ side = "out" /\ toClient = <<>>
    /\ toClient' = groups
    /\ txLast' = given[Len(given)]
    /\ item' = [given |-> given, got |-> <<>>,
                fair |-> \/ tnstate.is_will
                         \/ kind = "data" /\ client.last = "data"
                         \/ /\ txLast # CR /\ (kind = "answer" \/ ~client.cr)
                            /\ \A i \in 1 .. Len(given) - 1 :
                                   given[i] = CR => given[i + 1] \in {LF, IAC}]
    /\ client' = [client EXCEPT !.last = kind]
    /\ UNCHANGED <<inVars, tnstate, side>>

\* A byte of the device goes to the network buffer.
DeviceByte(c) == SendsToClient(<<c>>, SendStr(<<c>>), "data")

\* SendSignature, SendBaudRate and SendCPCByteCommand.
Answer(code, par) ==
    /\ par # <<>>
    /\ SendsToClient(<<COM_PORT, code>> \o par, Suboption(code, SendStr(par)), "answer")

\* DO or DONT BINARY takes effect at both ends, between two bytes and with nothing
\* under way: what a switch does to bytes in flight is not covered.
SwitchMode(binary) ==
    /\ side = "out" /\ toClient = <<>>
    /\ tnstate' = [tnstate EXCEPT !.is_will = binary]
    /\ client' = [client EXCEPT !.him = binary]
    /\ item' = NoItem
    /\ UNCHANGED <<inVars, txLast, toClient, side>>

----------------------------------------------------------------------------
(* The client to sercd.                                                    *)

\* The length at which a command other than a signature is complete.
MutCommandLength(cmd) ==
    IF cmd[2] # SB THEN 3 ELSE IF cmd[4] = BAUDRATE THEN 10 ELSE 6
CommandLength(cmd) ==
    IF cmd[2] # SB THEN 3
    ELSE CASE cmd[4] = BAUDRATE             -> 10
           [] cmd[4] \in {SUSPEND, RESUME}  -> 6
           [] OTHER                         -> 7

\* What HandleIACCommand makes of a command: an option, or a suboption of
\* COM_PORT if that is in effect.  Of a signature only the length matters.
Taken(cmd) ==
    IF cmd[2] # SB THEN <<Tail(cmd)>>
    ELSE IF cmd[3] # COM_PORT \/ ~tnstate.com_port THEN <<>>
    ELSE IF cmd[4] = SIGNATURE THEN <<<<SB, SIGNATURE, Len(cmd)>>>>
         ELSE <<<<SB>> \o SubSeq(cmd, 4, CommandLength(cmd) - 2)>>

HandleIACCommand(cmd) ==
    /\ heard' = heard \o Taken(cmd)
    /\ tnstate' = [tnstate EXCEPT
            !.is_do = IF cmd[2] \in {WILL, WONT} /\ cmd[3] = BINARY
                      THEN cmd[2] = WILL ELSE @,
            !.is_will = IF cmd[2] \in {DO, DONT} /\ cmd[3] = BINARY
                        THEN cmd[2] = DO ELSE @,
            !.com_port = IF cmd[2] \in {WILL, WONT} /\ cmd[3] = COM_PORT
                         THEN cmd[2] = WILL ELSE @]

\* IACCommand with the bytes added that there is room for.
MutStore(bytes) == IACCommand \o bytes
Store(bytes) ==
    LET all == IACCommand \o bytes
    IN  IF Len(all) <= SizeofIACCommand THEN all
        ELSE SubSeq(all, 1, SizeofIACCommand)

Nothing == UNCHANGED <<tnstate, heard>>

\* What is left in IACCommand is not read again.
CommandDone == IACEscape' = "Normal" /\ IACCommand' = <<>> /\ UNCHANGED IACSigEscape

ToDevice(bytes) == toDev' = toDev \o bytes

\* case IACNormal
MutNormal(C) ==
    /\ IACEscape' = IF C = IAC THEN "Received" ELSE "Normal"
    /\ ToDevice(IF C = IAC \/ (C = NUL /\ rxLast = CR) THEN <<>> ELSE <<C>>)
    /\ UNCHANGED <<IACSigEscape, IACCommand>>
    /\ Nothing
Normal(C) ==
    /\ IACEscape' = IF C = IAC THEN "Received" ELSE "Normal"
    /\ ToDevice(IF C = IAC \/ (~tnstate.is_do /\ C = NUL /\ rxLast = CR)
                THEN <<>> ELSE <<C>>)
    /\ UNCHANGED <<IACSigEscape, IACCommand>>
    /\ Nothing

\* case IACReceived
Received(C) ==
    /\ \/ /\ C = IAC
          /\ IACEscape' = "Normal"
          /\ ToDevice(<<C>>)
          /\ UNCHANGED <<IACSigEscape, IACCommand>>
       \/ /\ C # IAC
          /\ IACEscape' = "ComReceiving"
          /\ IACSigEscape' = "Normal"
          /\ IACCommand' = <<IAC, C>>
          /\ ToDevice(<<>>)
    /\ Nothing

\* case IACComReceiving, in a signature: it ends with an IAC that is not
\* doubled.  Its text is only logged, so one value stands for every character.
\* IACSigEscape is never IACComReceiving.
MutSig(C) ==
    \/ /\ IACSigEscape = "Normal"
       /\ IACSigEscape' = IF C = IAC THEN "Received" ELSE "Normal"
       /\ IACCommand' = IF C = IAC THEN IACCommand ELSE Store(<<0>>)
       /\ UNCHANGED IACEscape /\ Nothing
    \/ /\ IACSigEscape = "Received" /\ C = IAC
       /\ IACSigEscape' = "Normal"
       /\ IACCommand' = Store(<<0>>)
       /\ UNCHANGED IACEscape /\ Nothing
    \/ /\ IACSigEscape = "Received" /\ C = SE
       /\ HandleIACCommand(Store(<<0, 0>>))
       /\ CommandDone
    \/ /\ IACSigEscape = "Received" /\ C \notin {IAC, SE}
       /\ IACSigEscape' = "Normal"
       /\ UNCHANGED <<IACCommand, IACEscape>> /\ Nothing
Sig(C) ==
    \/ /\ IACSigEscape = "Normal"
       /\ IACSigEscape' = IF C = IAC THEN "Received" ELSE "Normal"
       /\ IACCommand' = IF C = IAC THEN IACCommand ELSE Store(<<0>>)
       /\ UNCHANGED IACEscape /\ Nothing
    \/ /\ IACSigEscape = "Received" /\ C = IAC
       /\ IACSigEscape' = "Normal"
       /\ IACCommand' = Store(<<0>>)
       /\ UNCHANGED IACEscape /\ Nothing
    \/ /\ IACSigEscape = "Received" /\ C # IAC
       /\ HandleIACCommand(Store(<<0, 0>>))
       /\ CommandDone

ComReceiving(C) ==
    /\ \/ /\ IACCommand[2] = SB /\ Len(IACCommand) < 4
          /\ IACCommand' = Append(IACCommand, C)
          /\ UNCHANGED <<IACEscape, IACSigEscape>> /\ Nothing
       \/ /\ IACCommand[2] = SB /\ Len(IACCommand) >= 4 /\ IACCommand[4] = SIGNATURE
          /\ Sig(C)
       \/ /\ ~(IACCommand[2] = SB /\ (Len(IACCommand) < 4 \/ IACCommand[4] = SIGNATURE))
          /\ IF Len(IACCommand) + 1 = CommandLength(IACCommand)
             THEN HandleIACCommand(Append(IACCommand, C)) /\ CommandDone
             ELSE /\ IACCommand' = Append(IACCommand, C)
                  /\ UNCHANGED <<IACEscape, IACSigEscape>> /\ Nothing
    /\ ToDevice(<<>>)

EscRedirectChar ==
    /\ wire # <<>>
    /\ wire' = ButFirstByte(wire)
    /\ LET C == FirstByte(wire)
       IN  /\ \/ IACEscape = "Normal" /\ Normal(C)
              \/ IACEscape = "Received" /\ Received(C)
              \/ IACEscape = "ComReceiving" /\ ComReceiving(C)
           /\ rxLast' = C
    /\ UNCHANGED <<msg, pristine, steady, outVars, client, side>>

----------------------------------------------------------------------------
(* What the client sends, and the end of a session.                        *)

\* The client starts a message when sercd has read the last one.
Sends(groups, data, cmds) ==
    /\ side = "in"
    /\ wire = <<>>
    /\ wire' = groups
    /\ msg' = [data |-> data, cmds |-> cmds, insync |-> pristine \/ steady = Heal]
    /\ toDev' = <<>> /\ heard' = <<>>
    /\ UNCHANGED <<parser, outVars, tnstate, side>>

\* Only option commands in a row count.
StartsOver == steady' = IF steady = Heal THEN Heal ELSE 0

ClientData(d) ==
    /\ d # <<>>
    /\ Sends(ClientEscapes(d, client.us), d, <<>>)
    /\ StartsOver
    /\ UNCHANGED <<client, pristine>>

\* An answer to one of the options that sercd has sent, or a change of mind.
ClientOption(cmd, opt) ==
    /\ opt = COM_PORT => cmd = WILL
    /\ Sends(<<<<IAC, cmd, opt>>>>, <<>>, <<<<cmd, opt>>>>)
    /\ client' = [client EXCEPT
            !.us = IF opt = BINARY /\ cmd \in {WILL, WONT} THEN cmd = WILL ELSE @,
            !.him = IF opt = BINARY /\ cmd \in {DO, DONT} THEN cmd = DO ELSE @,
            !.com_port = @ \/ opt = COM_PORT]
    /\ steady' = IF steady < Heal THEN steady + 1 ELSE steady
    /\ UNCHANGED pristine

\* A COM-PORT command.  A 255 that is doubled is more than the fixed lengths
\* of sercd allow for.
ClientCommand(code, par) ==
    /\ client.com_port
    /\ Sends(Suboption(code, ClientEscapes(par, TRUE)),
             <<>>, <<<<SB, code>> \o par>>)
    /\ IF IAC \in ToSet(par) THEN pristine' = FALSE /\ steady' = 0
                              ELSE StartsOver /\ UNCHANGED pristine
    /\ UNCHANGED client

\* A signature, of which sercd keeps as much as it has room for.  An empty
\* one asks for that of sercd.
ClientSignature(text) ==
    /\ client.com_port
    /\ Sends(Suboption(SIGNATURE, ClientEscapes(text, TRUE)),
             <<>>, <<<<SB, SIGNATURE, Min({Len(text) + 6, SizeofIACCommand})>>>>)
    /\ StartsOver
    /\ UNCHANGED <<client, pristine>>

\* A command of two bytes; sercd takes the next byte to belong to it.
ClientNop ==
    /\ Sends(<<<<IAC, NOP>>>>, <<>>, <<>>)
    /\ pristine' = FALSE /\ steady' = 0
    /\ UNCHANGED client

\* The connection breaks, and the next client connects.  Only tnstate starts
\* afresh (InitTelnetStateMachine).
Reconnect ==
    /\ tnstate' = [is_do |-> FALSE, is_will |-> FALSE, com_port |-> FALSE]
    /\ client' = NewClient
    /\ wire' = <<>> /\ toClient' = <<>>
    /\ msg' = NoMsg /\ toDev' = <<>> /\ heard' = <<>> /\ item' = NoItem
    /\ pristine' = (pristine /\ wire = <<>>
                    /\ ~(client.us /\ msg.data # <<>> /\ msg.data[Len(msg.data)] = CR))
    /\ steady' = 0
    /\ UNCHANGED <<parser, txLast, side>>

----------------------------------------------------------------------------

Init ==
    /\ IACEscape = "Normal" /\ IACSigEscape = "Normal" /\ IACCommand = <<>>
    /\ rxLast = 0 /\ txLast = 0
    /\ tnstate = [is_do |-> FALSE, is_will |-> FALSE, com_port |-> FALSE]
    /\ client = NewClient
    /\ wire = <<>> /\ toClient = <<>> /\ msg = NoMsg /\ toDev = <<>> /\ heard = <<>> /\ item = NoItem
    /\ pristine = TRUE /\ steady = 0
    /\ side \in {"in", "out"}

Next ==
    \/ EscRedirectChar
    \/ ClientReads
    \/ \E c \in Data : DeviceByte(c)
    \/ \E p \in Parameter : Answer(MODEMSTATE_MASK + ASC, <<p>>)
    \/ \E r \in Rate : Answer(BAUDRATE + ASC, r)
    \/ Answer(SIGNATURE + ASC, Signature)
    \/ \E binary \in BOOLEAN : SwitchMode(binary)
    \/ \E d \in BoundedSeq(Data, MaxData) : ClientData(d)
    \/ \E cmd \in {WILL, WONT, DO, DONT}, opt \in {BINARY, COM_PORT} :
            ClientOption(cmd, opt)
    \/ \E p \in Parameter : ClientCommand(MODEMSTATE_MASK, <<p>>)
    \/ \E r \in Rate : ClientCommand(BAUDRATE, r)
    \/ \E t \in Text : ClientSignature(t)
    \/ \E code \in {SUSPEND, RESUME} : ClientCommand(code, <<>>)
    \/ ClientNop
    \/ Reconnect

Spec == Init /\ [][Next]_vars

----------------------------------------------------------------------------
(* Properties.                                                             *)

\* The command being received stays within IACCommand, whatever the state
\* the last client left behind (IACPos in EscRedirectChar).
TypeOK ==
    /\ IACEscape \in EscState /\ IACSigEscape \in EscState \ {"ComReceiving"}
    /\ IACCommand \in Seq(Byte) /\ Len(IACCommand) <= SizeofIACCommand
    /\ IACEscape = "ComReceiving" => Len(IACCommand) >= 2
    /\ rxLast \in Byte /\ txLast \in Byte
    /\ tnstate \in [is_do : BOOLEAN, is_will : BOOLEAN, com_port : BOOLEAN]
    /\ client \in [us : BOOLEAN, him : BOOLEAN, com_port : BOOLEAN,
                   mode : {"data", "iac", "sb", "sbiac"}, cr : BOOLEAN,
                   last : {"nothing", "data", "answer"}]
    /\ wire \in Seq(Seq(Byte) \ {<<>>}) /\ toClient \in Seq(Seq(Byte) \ {<<>>})
    /\ toDev \in Seq(Byte)
    /\ pristine \in BOOLEAN /\ steady \in 0 .. Heal

\* As long as no client has sent a two-byte command or a doubled parameter,
\* and none was cut off within a message, every message has exactly the
\* effect it is meant to have: the device gets its data and nothing else, and
\* HandleIACCommand its command (EscRedirectChar).
MessageTransparent ==
    (pristine /\ wire = <<>>) =>
        /\ toDev = msg.data
        /\ heard = msg.cmds
        /\ tnstate = [is_do |-> client.us, is_will |-> client.him,
                      com_port |-> client.com_port]

\* Whatever a session leaves behind, the parser is in step again after two
\* option commands in a row, which every client sends to answer the options of
\* sercd: data then reach the device unchanged.  (The first of those commands
\* may be lost, so the modes may differ, and CR and NUL are left out.)
ParserHeals ==
    (steady = Heal /\ wire = <<>> /\ msg.data # <<>>
     /\ ToSet(msg.data) \cap {CR, NUL} = {}) =>
        IACEscape = "Normal" /\ toDev = msg.data

\* A command with a doubled parameter byte is carried out correctly, but the
\* SE at its end is sent to the device, and nothing worse happens: the fixed
\* length of 7 (EscRedirectChar) counts the doubled byte twice.
DoubledParameter ==
    (wire = <<>> /\ msg.insync /\ tnstate.com_port
     /\ msg.cmds = <<<<SB, MODEMSTATE_MASK, IAC>>>>) =>
        heard = msg.cmds /\ toDev = <<SE>> /\ IACEscape = "Normal"

\* The client understands what sercd sends: each byte of the device and each
\* parameter of an answer arrives once and unchanged (EscWriteChar), except
\* that in NVT mode a CR in or next to an answer is confused with it.
ClientTransparent == (toClient = <<>> /\ item.fair) => item.got = item.given
=============================================================================
