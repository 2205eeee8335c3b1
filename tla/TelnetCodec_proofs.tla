------------------------- MODULE TelnetCodec_proofs -------------------------
(***************************************************************************)
(* Proofs about TelnetCodec, for all data, parameters, rates and texts of  *)
(* every length, any size of IACCommand, and connections that break at any *)
(* byte.                                                                   *)
(*                                                                         *)
(* The inductive invariant says, of each kind of message, what the parser  *)
(* has made of the bytes that it has read; for a parser that is out of     *)
(* step, what it can still be waiting for after each byte of two option    *)
(* commands.  The same is said of the client and of what sercd sends it.   *)
(***************************************************************************)
EXTENDS TelnetCodec, SequenceTheorems, TLAPS

----------------------------------------------------------------------------
(* Groups of bytes, and what is left of them.                              *)

Group == Seq(Byte) \ {<<>>}
Groups == Seq(Group)

\* w is what is left of g from the k-th group on;
Rest(w, g, k) ==
    /\ k \in 1 .. Len(g) + 1
    /\ Len(w) = Len(g) - k + 1
    /\ \A i \in 1 .. Len(w) : w[i] = g[k + i - 1]

\* r is left of the k-th group, and all after it.
Left(w, g, k, r) ==
    /\ k \in 1 .. Len(g)
    /\ Len(w) = Len(g) - k + 1
    /\ w[1] = r
    /\ \A i \in 2 .. Len(w) : w[i] = g[k + i - 1]

----------------------------------------------------------------------------
(* The parser.                                                             *)

\* A command is being received: two bytes of an option; up to four bytes of a
\* suboption; a suboption that is not complete; a signature.
InOption == Len(IACCommand) = 2 /\ IACCommand[2] # SB
InHead(n) == Len(IACCommand) = n /\ n \in 2 .. 3 /\ IACCommand[2] = SB
InFixed(need) ==
    /\ Len(IACCommand) >= 4 /\ IACCommand[2] = SB /\ IACCommand[4] # SIGNATURE
    /\ Len(IACCommand) + need = CommandLength(IACCommand)
InSignature ==
    /\ Len(IACCommand) >= 4 /\ IACCommand[2] = SB /\ IACCommand[4] = SIGNATURE

ParserInv ==
    IACEscape = "ComReceiving" =>
        \/ InOption
        \/ \E n \in 2 .. 3 : InHead(n)
        \/ \E need \in 1 .. 6 : InFixed(need)
        \/ InSignature

\* A parser out of step, when so many bytes are left of two option commands.
IsNormal == IACEscape = "Normal"
Waits(need) == IACEscape = "ComReceiving" /\ InFixed(need)
WaitsSig(state) == IACEscape = "ComReceiving" /\ InSignature /\ IACSigEscape = state

Healing(left) ==
    CASE left = 6 -> TRUE
      [] left = 5 -> \/ IsNormal \/ IACEscape = "Received"
                     \/ IACEscape = "ComReceiving" /\ InHead(3)
                     \/ \E need \in 1 .. 5 : Waits(need)
                     \/ \E state \in {"Normal", "Received"} : WaitsSig(state)
      [] left = 4 -> \/ IsNormal
                     \/ IACEscape = "ComReceiving" /\ InOption
                     \/ \E need \in 1 .. 4 : Waits(need)
                     \/ WaitsSig("Normal")
      [] left = 3 -> IsNormal \/ (\E need \in 1 .. 3 : Waits(need)) \/ WaitsSig("Normal")
      [] left = 2 -> \/ IsNormal \/ IACEscape = "Received"
                     \/ \E need \in 1 .. 2 : Waits(need)
                     \/ WaitsSig("Received")
      [] left = 1 -> \/ IsNormal
                     \/ IACEscape = "ComReceiving" /\ InOption
                     \/ Waits(1)
      [] left = 0 -> IsNormal

----------------------------------------------------------------------------
(* A message that the parser has read in step.                             *)

Cmds == {WILL, WONT, DO, DONT}
Opts == {BINARY, COM_PORT}

\* Both ends have the same options in effect.
Agree(t) == t = [is_do |-> client.us, is_will |-> client.him, com_port |-> client.com_port]

\* What an option command makes of tnstate.
Effect(cmd, opt) ==
    [tnstate EXCEPT
        !.is_do = IF cmd \in {WILL, WONT} /\ opt = BINARY THEN cmd = WILL ELSE @,
        !.is_will = IF cmd \in {DO, DONT} /\ opt = BINARY THEN cmd = DO ELSE @,
        !.com_port = IF cmd \in {WILL, WONT} /\ opt = COM_PORT THEN cmd = WILL ELSE @]

\* Nothing has come of the message so far.
Untouched == toDev = <<>> /\ heard = <<>>

\* Data without the bytes that mean something in NVT mode.
Plain(d) == ToSet(d) \cap {CR, NUL} = {}

\* The device has the first k bytes, as far as something is promised.
Delivered(k) == pristine \/ Plain(msg.data) => toDev = SubSeq(msg.data, 1, k)

\* The k-th byte of the data is next, or has been read in part.
DataAt(g, k) ==
    \/ /\ Rest(wire, g, k) /\ IsNormal /\ Delivered(k - 1)
       /\ pristine /\ rxLast = CR => client.us \/ msg.data[k] = LF
    \/ /\ Left(wire, g, k, <<IAC>>) /\ IACEscape = "Received" /\ Delivered(k - 1)
       /\ msg.data[k] = IAC
    \/ /\ Left(wire, g, k, <<NUL>>) /\ IsNormal /\ Delivered(k)
       /\ msg.data[k] = CR /\ rxLast = CR /\ ~client.us

DataPhase ==
    /\ msg.data # <<>> /\ msg.cmds = <<>> /\ heard = <<>>
    /\ pristine => Agree(tnstate)
    /\ \E k \in 1 .. Len(msg.data) : DataAt(ClientEscapes(msg.data, client.us), k)

OptionPhase ==
    \E cmd \in Cmds, opt \in Opts :
        /\ msg.data = <<>> /\ msg.cmds = <<<<cmd, opt>>>> /\ Untouched
        /\ pristine => Agree(Effect(cmd, opt))
        /\ \/ wire = <<<<IAC, cmd, opt>>>> /\ IsNormal
           \/ wire = <<<<cmd, opt>>>> /\ IACEscape = "Received"
           \/ wire = <<<<opt>>>> /\ IACEscape = "ComReceiving" /\ IACCommand = <<IAC, cmd>>

\* The first four bytes of a suboption.
HeadPhase(g, code) ==
    \/ Left(wire, g, 1, <<IAC, SB, COM_PORT, code>>) /\ IsNormal
    \/ Left(wire, g, 1, <<SB, COM_PORT, code>>) /\ IACEscape = "Received"
    \/ /\ Left(wire, g, 1, <<COM_PORT, code>>) /\ IACEscape = "ComReceiving"
       /\ IACCommand = <<IAC, SB>> /\ IACSigEscape = "Normal"
    \/ /\ Left(wire, g, 1, <<code>>) /\ IACEscape = "ComReceiving"
       /\ IACCommand = <<IAC, SB, COM_PORT>> /\ IACSigEscape = "Normal"

\* n bytes of a suboption have been received.
Started(code, n) ==
    /\ IACEscape = "ComReceiving" /\ Len(IACCommand) = n
    /\ IACCommand[1] = IAC /\ IACCommand[2] = SB /\ IACCommand[3] = COM_PORT
    /\ IACCommand[4] = code

\* The commands of the client with their parameters.
Commands ==
    {<<MODEMSTATE_MASK, <<p>>>> : p \in Parameter} \cup {<<BAUDRATE, r>> : r \in Rate}
    \cup {<<code, <<>>>> : code \in {SUSPEND, RESUME}}

Command(code, par) ==
    /\ msg.data = <<>> /\ msg.cmds = <<<<SB, code>> \o par>> /\ Untouched
    /\ pristine => Agree(tnstate) /\ client.com_port

\* So much of the message g has been read.
CommandAt(code, par, g) ==
    \/ HeadPhase(g, code)
    \/ \E j \in 0 .. Len(par) :
          /\ Rest(wire, g, j + 2) /\ Started(code, j + 4)
          /\ \A i \in 1 .. j : IACCommand[i + 4] = par[i]
    \/ /\ Left(wire, g, Len(par) + 2, <<SE>>) /\ Started(code, Len(par) + 5)
       /\ \A i \in 1 .. Len(par) : IACCommand[i + 4] = par[i]

CommandPhase ==
    \E q \in Commands :
        /\ Command(q[1], q[2]) /\ IAC \notin ToSet(q[2])
        /\ CommandAt(q[1], q[2], Suboption(q[1], ClientEscapes(q[2], TRUE)))

\* The length of a signature of n bytes, as far as it is kept.
Kept(n) == IF n <= SizeofIACCommand THEN n ELSE SizeofIACCommand

SignatureAt(text, g) ==
    \/ HeadPhase(g, SIGNATURE)
    \/ \E j \in 0 .. Len(text) :
          /\ Rest(wire, g, j + 2) /\ Started(SIGNATURE, Kept(j + 4))
          /\ IACSigEscape = "Normal"
    \/ \E j \in 1 .. Len(text) :
          /\ Left(wire, g, j + 1, <<IAC>>) /\ Started(SIGNATURE, Kept(j + 3))
          /\ IACSigEscape = "Received" /\ text[j] = IAC
    \/ /\ Left(wire, g, Len(text) + 2, <<SE>>)
       /\ Started(SIGNATURE, Kept(Len(text) + 4)) /\ IACSigEscape = "Received"

SignaturePhase ==
    \E text \in Text :
        /\ msg.data = <<>> /\ msg.cmds = <<<<SB, SIGNATURE, Kept(Len(text) + 6)>>>>
        /\ Untouched
        /\ pristine => Agree(tnstate) /\ client.com_port
        /\ SignatureAt(text, Suboption(SIGNATURE, ClientEscapes(text, TRUE)))

\* The command of which the last byte of seven is the first IAC of its end.
Doubled == <<<<SB, MODEMSTATE_MASK, IAC>>>>

DoubledPhase ==
    LET g == Suboption(MODEMSTATE_MASK, <<<<IAC, IAC>>>>)
    IN  /\ msg.data = <<>> /\ msg.cmds = Doubled
        /\ ~pristine /\ steady = 0
        /\ toDev = <<>>
        /\ \/ HeadPhase(g, MODEMSTATE_MASK) /\ heard = <<>>
           \/ Rest(wire, g, 2) /\ Started(MODEMSTATE_MASK, 4) /\ heard = <<>>
           \/ /\ Left(wire, g, 2, <<IAC>>) /\ Started(MODEMSTATE_MASK, 5) /\ heard = <<>>
              /\ IACCommand[5] = IAC
           \/ /\ Rest(wire, g, 3) /\ Started(MODEMSTATE_MASK, 6) /\ heard = <<>>
              /\ IACCommand[5] = IAC
           \/ /\ Left(wire, g, 3, <<SE>>) /\ IsNormal /\ rxLast = IAC
              /\ tnstate.com_port => heard = Doubled

\* A message about which nothing is promised.
Upset == ~pristine /\ steady = 0 /\ msg.data = <<>> /\ msg.cmds # Doubled

InStep ==
    DataPhase \/ OptionPhase \/ CommandPhase \/ SignaturePhase \/ DoubledPhase \/ Upset

\* An option command, of which the parser may have made something else.
OutOfStep ==
    /\ ~pristine /\ msg.data = <<>>
    /\ \E cmd \in Cmds, opt \in Opts :
          \/ wire = <<<<IAC, cmd, opt>>>> /\ steady = 1
          \/ wire = <<<<cmd, opt>>>> /\ steady = 1 /\ Healing(5)
          \/ wire = <<<<opt>>>> /\ steady = 1 /\ Healing(4)
          \/ wire = <<<<IAC, cmd, opt>>>> /\ steady = 2 /\ Healing(3)
          \/ wire = <<<<cmd, opt>>>> /\ steady = 2 /\ Healing(2)
          \/ wire = <<<<opt>>>> /\ steady = 2 /\ Healing(1)

Settled ==
    /\ pristine =>
          /\ IsNormal /\ Agree(tnstate) /\ toDev = msg.data /\ heard = msg.cmds
          /\ rxLast = CR => /\ client.us /\ msg.data # <<>>
                            /\ msg.data[Len(msg.data)] = CR
    /\ steady = 1 => Healing(3)
    /\ steady = 2 => IsNormal /\ (msg.data # <<>> /\ Plain(msg.data) => toDev = msg.data)
    /\ msg.insync /\ msg.cmds = Doubled /\ tnstate.com_port =>
          heard = Doubled /\ toDev = <<SE>> /\ IsNormal

\* A message has been read in step.
Finished ==
    /\ IsNormal
    /\ pristine =>
          /\ Agree(tnstate) /\ toDev = msg.data /\ heard = msg.cmds
          /\ rxLast = CR => /\ client.us /\ msg.data # <<>>
                            /\ msg.data[Len(msg.data)] = CR
    /\ msg.data # <<>> /\ Plain(msg.data) => toDev = msg.data
    /\ msg.cmds # Doubled

InInv ==
    /\ wire = <<>> => Settled
    /\ wire # <<>> => /\ side = "in"
                      /\ IF msg.insync THEN InStep
                         ELSE ~pristine /\ (steady = 0 \/ OutOfStep)

----------------------------------------------------------------------------
(* What sercd sends.                                                       *)

\* The device's byte c.
DataOut ==
    \E c \in Byte :
        /\ item.given = <<c>> /\ txLast = c /\ client.last = "data"
        /\ \/ /\ toClient = <<<<IAC, IAC>>>> /\ client.mode = "data" /\ c = IAC
              /\ item.got = <<>>
           \/ /\ toClient = <<<<IAC>>>> /\ client.mode = "iac" /\ c = IAC
              /\ item.got = <<>>
           \/ /\ toClient = <<<<NUL, c>>>> /\ client.mode = "data" /\ c # IAC
              /\ item.got = <<>> /\ ~client.him /\ (item.fair => client.cr)
           \/ /\ toClient = <<<<c>>>> /\ client.mode = "data" /\ c # IAC
              /\ item.fair => /\ item.got = <<>>
                              /\ c = NUL /\ client.cr => client.him

Answers ==
    {<<MODEMSTATE_MASK + ASC, <<p>>>> : p \in Parameter}
    \cup {<<BAUDRATE + ASC, r>> : r \in Rate} \cup {<<SIGNATURE + ASC, Signature>>}

\* The groups of an answer that was sent after the byte prev.
Written(par, prev) ==
    [i \in 1 .. Len(par) |-> EscWriteChar(par[i], IF i = 1 THEN prev ELSE par[i - 1])]

\* The client has so many bytes of what sercd was given, if something is promised.
Got(n) == item.fair => item.got = SubSeq(item.given, 1, n)

AnswerPhase(code, par, g) ==
    \/ /\ Left(toClient, g, 1, <<IAC, SB, COM_PORT, code>>)
       /\ client.mode = "data" /\ Got(0)
    \/ /\ Left(toClient, g, 1, <<SB, COM_PORT, code>>)
       /\ client.mode = "iac" /\ Got(0)
    \/ /\ Left(toClient, g, 1, <<COM_PORT, code>>)
       /\ client.mode = "sb" /\ Got(0)
    \/ /\ Left(toClient, g, 1, <<code>>)
       /\ client.mode = "sb" /\ Got(1)
    \/ \E j \in 0 .. Len(par) :
          Rest(toClient, g, j + 2) /\ client.mode = "sb" /\ Got(j + 2)
    \/ \E j \in 1 .. Len(par) :
          /\ Left(toClient, g, j + 1, <<par[j]>>)
          /\ client.mode = IF par[j] = IAC THEN "sbiac" ELSE "sb"
          /\ Got(j + 1)
    \/ /\ Left(toClient, g, Len(par) + 2, <<SE>>)
       /\ client.mode = "sbiac" /\ Got(Len(par) + 2)

AnswerOut ==
    \E q \in Answers, prev \in Byte :
        LET code == q[1]
            par == q[2]
            g == Suboption(code, Written(par, prev))
        IN  /\ item.given = <<COM_PORT, code>> \o par /\ client.last = "answer"
            /\ par # <<>>
            /\ item.fair => \A i \in 1 .. Len(par) : Len(g[i + 1]) = 2 => par[i] = IAC
            /\ AnswerPhase(code, par, g)

OutSettled ==
    /\ client.mode = "data"
    /\ client.last = "data" => (client.cr <=> txLast = CR)
    /\ item.fair => item.got = item.given

OutInv ==
    /\ side = "in" => toClient = <<>> /\ item = NoItem
    /\ side = "out" => /\ tnstate.is_will = client.him
                       /\ IF toClient = <<>> THEN OutSettled ELSE DataOut \/ AnswerOut

ItemType ==
    /\ item \in [given : Seq(Byte), got : Seq(Byte), fair : BOOLEAN]
    /\ msg \in [data : Seq(Byte), cmds : Seq(Seq(Nat)), insync : BOOLEAN]
    /\ heard \in Seq(Seq(Nat))
    /\ side \in {"in", "out"}

TypeInv == TypeOK /\ ItemType /\ ParserInv

IInv == TypeInv /\ InInv /\ OutInv

----------------------------------------------------------------------------
(* Reading groups of bytes.                                                *)

LEMMA GroupFacts ==
    ASSUME NEW r \in Group
    PROVE  /\ r \in Seq(Byte) /\ Len(r) \in Nat /\ Len(r) >= 1
           /\ Head(r) = r[1] /\ r[1] \in Byte
           /\ Len(r) # 1 => Tail(r) \in Group /\ Len(Tail(r)) = Len(r) - 1
<1>1. r \in Seq(Byte) /\ r # <<>> /\ Len(r) \in Nat /\ Len(r) >= 1
  BY DEF Group
<1>2. Head(r) = r[1] /\ r[1] \in Byte
  BY <1>1
<1>3. Tail(r) \in Seq(Byte) /\ Len(Tail(r)) = Len(r) - 1
  BY <1>1
<1>. QED  BY <1>1, <1>2, <1>3 DEF Group

LEMMA ReadByte ==
    ASSUME NEW w \in Groups, w # <<>>
    PROVE  FirstByte(w) \in Byte /\ ButFirstByte(w) \in Groups
<1>1. Len(w) >= 1 /\ Head(w) \in Group /\ Tail(w) \in Groups
  BY DEF Groups, Group
<1>2. Len(Head(w)) >= 1 /\ Head(w) \in Seq(Byte) /\ Head(Head(w)) \in Byte
  BY <1>1, GroupFacts
<1>3. CASE Len(Head(w)) = 1
  BY <1>1, <1>2, <1>3 DEF FirstByte, ButFirstByte
<1>4. CASE Len(Head(w)) # 1
  <2>1. Tail(Head(w)) \in Group
    BY <1>1, <1>4, GroupFacts
  <2>2. <<Tail(Head(w))>> \in Groups
    BY <2>1 DEF Groups
  <2>3. <<Tail(Head(w))>> \o Tail(w) \in Groups
    BY <1>1, <2>2 DEF Groups
  <2>. QED  BY <1>2, <1>4, <2>3 DEF FirstByte, ButFirstByte
<1>. QED  BY <1>3, <1>4

LEMMA LeftMore ==
    ASSUME NEW w \in Groups, NEW g \in Groups, NEW k, NEW r \in Group,
           Left(w, g, k, r), Len(r) # 1
    PROVE  /\ w # <<>> /\ FirstByte(w) = r[1]
           /\ ButFirstByte(w) # <<>> /\ Left(ButFirstByte(w), g, k, Tail(r))
<1>1. Len(w) = Len(g) - k + 1 /\ Len(w) >= 1 /\ w[1] = r /\ k \in 1 .. Len(g)
  BY DEF Left, Groups
<1>2. Head(w) = r /\ Tail(w) \in Groups /\ Len(Tail(w)) = Len(w) - 1
  BY <1>1 DEF Groups
<1>0. Tail(r) \in Group /\ Head(r) = r[1] /\ Len(r) # 1
  BY GroupFacts
<1>3. ButFirstByte(w) = <<Tail(r)>> \o Tail(w) /\ FirstByte(w) = r[1]
  BY <1>0, <1>2 DEF ButFirstByte, FirstByte
<1>. DEFINE b == <<Tail(r)>> \o Tail(w)
<1>4. b \in Groups /\ Len(b) = Len(w) /\ b[1] = Tail(r)
      /\ \A i \in 2 .. Len(b) : b[i] = w[i]
  <2>1. <<Tail(r)>> \in Groups /\ Len(<<Tail(r)>>) = 1 /\ <<Tail(r)>>[1] = Tail(r)
    BY <1>0 DEF Groups
  <2>2. b \in Groups /\ Len(b) = 1 + Len(Tail(w))
    BY <1>2, <2>1, ConcatProperties DEF Groups
  <2>3. \A i \in 1 .. Len(b) :
            b[i] = IF i <= 1 THEN <<Tail(r)>>[i] ELSE Tail(w)[i - 1]
    BY <1>2, <2>1, ConcatProperties DEF Groups
  <2>4. \A i \in 1 .. Len(Tail(w)) : Tail(w)[i] = w[i + 1]
    BY <1>1 DEF Groups
  <2>. HIDE DEF b
  <2>5. ASSUME NEW i \in 2 .. Len(b) PROVE b[i] = w[i]
    <3>1. b[i] = Tail(w)[i - 1] /\ i - 1 \in 1 .. Len(Tail(w)) /\ i \in Int
      BY <2>2, <2>3, <1>1, <1>2
    <3>. QED  BY <3>1, <2>4
  <2>6. Len(b) = Len(w) /\ Len(w) \in Nat
    BY <2>2, <1>2, <1>1 DEF Groups
  <2>7. b[1] = Tail(r)
    <3>1. 1 \in 1 .. Len(b) /\ 1 <= 1
      BY <2>6, <1>1
    <3>. QED  BY <3>1, <2>1, <2>3
  <2>. QED  BY <2>2, <2>5, <2>6, <2>7
<1>5. \A i \in 2 .. Len(b) : b[i] = g[k + i - 1]
  BY <1>4, <1>1 DEF Left
<1>. HIDE DEF b
<1>. QED  BY <1>1, <1>3, <1>4, <1>5 DEF Left, b, Groups

LEMMA LeftLast ==
    ASSUME NEW w \in Groups, NEW g \in Groups, NEW k, NEW r \in Group,
           Left(w, g, k, r), Len(r) = 1
    PROVE  /\ w # <<>> /\ FirstByte(w) = r[1]
           /\ Rest(ButFirstByte(w), g, k + 1)
<1>1. Len(w) = Len(g) - k + 1 /\ Len(w) >= 1 /\ w[1] = r /\ k \in 1 .. Len(g)
  BY DEF Left, Groups
<1>2. Head(w) = r /\ Tail(w) \in Groups /\ Len(Tail(w)) = Len(w) - 1
  BY <1>1 DEF Groups
<1>3. ButFirstByte(w) = Tail(w) /\ FirstByte(w) = r[1]
  BY <1>1, <1>2, GroupFacts DEF ButFirstByte, FirstByte
<1>4. \A i \in 1 .. Len(Tail(w)) : Tail(w)[i] = g[k + 1 + i - 1]
  <2>. TAKE i \in 1 .. Len(Tail(w))
  <2>1. Tail(w)[i] = w[i + 1] /\ i + 1 \in 2 .. Len(w)
    BY <1>2, <1>1 DEF Groups
  <2>2. w[i + 1] = g[k + (i + 1) - 1]
    BY <2>1 DEF Left
  <2>. QED  BY <2>1, <2>2, <1>1
<1>. QED  BY <1>1, <1>2, <1>3, <1>4 DEF Rest, Groups

LEMMA RestLeft ==
    ASSUME NEW w \in Groups, NEW g \in Groups, NEW k, Rest(w, g, k), k # Len(g) + 1
    PROVE  Left(w, g, k, g[k]) /\ g[k] \in Group /\ w # <<>>
<1>1. k \in 1 .. Len(g) /\ Len(w) = Len(g) - k + 1 /\ Len(w) >= 1
  BY DEF Rest, Groups
<1>2. w[1] = g[k + 1 - 1] /\ \A i \in 2 .. Len(w) : w[i] = g[k + i - 1]
  BY <1>1 DEF Rest, Groups
<1>. QED  BY <1>1, <1>2 DEF Left, Groups

LEMMA RestEnd ==
    ASSUME NEW w \in Groups, NEW g \in Groups, Rest(w, g, Len(g) + 1)
    PROVE  w = <<>>
BY DEF Rest, Groups

LEMMA RestAll ==
    ASSUME NEW g \in Groups
    PROVE  Rest(g, g, 1)
BY DEF Rest, Groups

LEMMA TupleGroups ==
    /\ \A a \in Byte : <<a>> \in Group /\ Len(<<a>>) = 1 /\ <<a>>[1] = a
    /\ \A a, b \in Byte : /\ <<a, b>> \in Group /\ Len(<<a, b>>) = 2
                          /\ <<a, b>>[1] = a /\ Tail(<<a, b>>) = <<b>>
    /\ \A a, b, c \in Byte : /\ <<a, b, c>> \in Group /\ Len(<<a, b, c>>) = 3
                             /\ <<a, b, c>>[1] = a /\ Tail(<<a, b, c>>) = <<b, c>>
    /\ \A a, b, c, d \in Byte :
          /\ <<a, b, c, d>> \in Group /\ Len(<<a, b, c, d>>) = 4
          /\ <<a, b, c, d>>[1] = a /\ Tail(<<a, b, c, d>>) = <<b, c, d>>
<1>1. \A a \in Byte : <<a>> \in Group /\ Len(<<a>>) = 1 /\ <<a>>[1] = a
  BY DEF Group
<1>2. \A a, b \in Byte : /\ <<a, b>> \in Group /\ Len(<<a, b>>) = 2
                         /\ <<a, b>>[1] = a /\ Tail(<<a, b>>) = <<b>>
  BY DEF Group
<1>3. \A a, b, c \in Byte : /\ <<a, b, c>> \in Group /\ Len(<<a, b, c>>) = 3
                            /\ <<a, b, c>>[1] = a /\ Tail(<<a, b, c>>) = <<b, c>>
  BY DEF Group
<1>4. \A a, b, c, d \in Byte :
          /\ <<a, b, c, d>> \in Group /\ Len(<<a, b, c, d>>) = 4
          /\ <<a, b, c, d>>[1] = a /\ Tail(<<a, b, c, d>>) = <<b, c, d>>
  BY DEF Group
<1>. QED  BY <1>1, <1>2, <1>3, <1>4

LEMMA Left1 ==
    ASSUME NEW w \in Groups, NEW g \in Groups, NEW k, NEW a \in Byte,
           Left(w, g, k, <<a>>)
    PROVE  w # <<>> /\ FirstByte(w) = a /\ Rest(ButFirstByte(w), g, k + 1)
BY LeftLast, TupleGroups

LEMMA Left2 ==
    ASSUME NEW w \in Groups, NEW g \in Groups, NEW k, NEW a \in Byte, NEW b \in Byte,
           Left(w, g, k, <<a, b>>)
    PROVE  /\ w # <<>> /\ FirstByte(w) = a /\ ButFirstByte(w) # <<>>
           /\ Left(ButFirstByte(w), g, k, <<b>>)
<1>. DEFINE r == <<a, b>>
<1>1. r \in Group /\ Len(r) # 1 /\ r[1] = a /\ Tail(r) = <<b>>
  BY TupleGroups
<1>2. Left(w, g, k, r)
  OBVIOUS
<1>. HIDE DEF r
<1>3. /\ w # <<>> /\ FirstByte(w) = r[1]
      /\ ButFirstByte(w) # <<>> /\ Left(ButFirstByte(w), g, k, Tail(r))
  BY <1>1, <1>2, LeftMore
<1>. QED  BY <1>1, <1>3

LEMMA Left3 ==
    ASSUME NEW w \in Groups, NEW g \in Groups, NEW k, NEW a \in Byte, NEW b \in Byte,
           NEW c \in Byte, Left(w, g, k, <<a, b, c>>)
    PROVE  /\ w # <<>> /\ FirstByte(w) = a /\ ButFirstByte(w) # <<>>
           /\ Left(ButFirstByte(w), g, k, <<b, c>>)
<1>. DEFINE r == <<a, b, c>>
<1>1. r \in Group /\ Len(r) # 1 /\ r[1] = a /\ Tail(r) = <<b, c>>
  BY TupleGroups
<1>2. Left(w, g, k, r)
  OBVIOUS
<1>. HIDE DEF r
<1>3. /\ w # <<>> /\ FirstByte(w) = r[1]
      /\ ButFirstByte(w) # <<>> /\ Left(ButFirstByte(w), g, k, Tail(r))
  BY <1>1, <1>2, LeftMore
<1>. QED  BY <1>1, <1>3

LEMMA Left4 ==
    ASSUME NEW w \in Groups, NEW g \in Groups, NEW k, NEW a \in Byte, NEW b \in Byte,
           NEW c \in Byte, NEW d \in Byte, Left(w, g, k, <<a, b, c, d>>)
    PROVE  /\ w # <<>> /\ FirstByte(w) = a /\ ButFirstByte(w) # <<>>
           /\ Left(ButFirstByte(w), g, k, <<b, c, d>>)
<1>. DEFINE r == <<a, b, c, d>>
<1>1. r \in Group /\ Len(r) # 1 /\ r[1] = a /\ Tail(r) = <<b, c, d>>
  BY TupleGroups
<1>2. Left(w, g, k, r)
  OBVIOUS
<1>. HIDE DEF r
<1>3. /\ w # <<>> /\ FirstByte(w) = r[1]
      /\ ButFirstByte(w) # <<>> /\ Left(ButFirstByte(w), g, k, Tail(r))
  BY <1>1, <1>2, LeftMore
<1>. QED  BY <1>1, <1>3

\* A single group.
LEMMA Single ==
    ASSUME NEW r \in Group
    PROVE  /\ <<r>> \in Groups /\ <<r>> # <<>> /\ FirstByte(<<r>>) = r[1]
           /\ Len(r) = 1 => ButFirstByte(<<r>>) = <<>>
           /\ Len(r) # 1 => ButFirstByte(<<r>>) = <<Tail(r)>>
<1>1. <<r>> \in Groups /\ <<r>> # <<>> /\ Head(<<r>>) = r /\ Tail(<<r>>) = <<>>
  BY DEF Groups
<1>2. Head(r) = r[1]
  BY GroupFacts
<1>3. <<Tail(r)>> \o <<>> = <<Tail(r)>>
  OBVIOUS
<1>. QED  BY <1>1, <1>2, <1>3 DEF FirstByte, ButFirstByte

LEMMA SubGroups ==
    ASSUME NEW code \in Byte, NEW groups \in Groups
    PROVE  LET g == Suboption(code, groups)
           IN  /\ g \in Groups /\ Len(g) = Len(groups) + 2 /\ Len(groups) \in Nat
               /\ g[1] = <<IAC, SB, COM_PORT, code>>
               /\ \A i \in 1 .. Len(groups) : g[i + 1] = groups[i]
               /\ g[Len(groups) + 2] = <<IAC, SE>>
<1>. DEFINE a == <<<<IAC, SB, COM_PORT, code>>>>
            z == <<<<IAC, SE>>>>
            g == a \o groups \o z
<1>1. IAC \in Byte /\ SB \in Byte /\ COM_PORT \in Byte /\ SE \in Byte
  BY DEF IAC, SB, COM_PORT, SE, Byte
<1>2. <<IAC, SB, COM_PORT, code>> \in Group /\ <<IAC, SE>> \in Group
  BY <1>1, TupleGroups
<1>3. /\ a \in Groups /\ Len(a) = 1 /\ a[1] = <<IAC, SB, COM_PORT, code>>
      /\ z \in Groups /\ Len(z) = 1 /\ z[1] = <<IAC, SE>>
  BY <1>2 DEF Groups
<1>4. g = Suboption(code, groups)
  BY DEF Suboption
<1>. HIDE DEF a, z
<1>5. Len(groups) \in Nat /\ groups \in Seq(Group)
  BY DEF Groups
<1>6. /\ a \o groups \in Groups /\ Len(a \o groups) = 1 + Len(groups)
      /\ \A i \in 1 .. Len(a \o groups) :
            (a \o groups)[i] = IF i <= Len(a) THEN a[i] ELSE groups[i - Len(a)]
  <2>1. a \in Seq(Group)
    BY <1>3 DEF Groups
  <2>2. /\ a \o groups \in Seq(Group) /\ Len(a \o groups) = Len(a) + Len(groups)
        /\ \A i \in 1 .. Len(a) + Len(groups) :
              (a \o groups)[i] = IF i <= Len(a) THEN a[i] ELSE groups[i - Len(a)]
    BY <2>1, <1>5, ConcatProperties
  <2>. QED  BY <2>2, <1>3 DEF Groups
<1>. DEFINE x == a \o groups
<1>. HIDE DEF x
<1>7. /\ g \in Groups /\ Len(g) = 1 + Len(groups) + 1
      /\ \A i \in 1 .. Len(g) : g[i] = IF i <= Len(x) THEN x[i] ELSE z[i - Len(x)]
  <2>1. x \in Seq(Group) /\ z \in Seq(Group) /\ Len(x) = 1 + Len(groups)
    BY <1>3, <1>6 DEF x, Groups
  <2>2. g = x \o z
    BY DEF x
  <2>3. /\ x \o z \in Seq(Group) /\ Len(x \o z) = Len(x) + Len(z)
        /\ \A i \in 1 .. Len(x) + Len(z) :
              (x \o z)[i] = IF i <= Len(x) THEN x[i] ELSE z[i - Len(x)]
    BY <2>1, ConcatProperties
  <2>. QED  BY <2>1, <2>2, <2>3, <1>3, <1>5 DEF Groups
<1>. USE DEF x
<1>. HIDE DEF g
<1>8. g[1] = <<IAC, SB, COM_PORT, code>>
  <2>1. 1 \in 1 .. Len(g) /\ 1 <= Len(a \o groups) /\ 1 \in 1 .. Len(a \o groups)
        /\ 1 <= Len(a)
    BY <1>3, <1>5, <1>6, <1>7
  <2>. QED  BY <2>1, <1>3, <1>6, <1>7
<1>9. ASSUME NEW i \in 1 .. Len(groups) PROVE g[i + 1] = groups[i]
  <2>1. /\ i + 1 \in 1 .. Len(g) /\ i + 1 <= Len(a \o groups)
        /\ i + 1 \in 1 .. Len(a \o groups) /\ ~(i + 1 <= Len(a)) /\ i + 1 - Len(a) = i
    BY <1>3, <1>5, <1>6, <1>7
  <2>. QED  BY <2>1, <1>6, <1>7
<1>10. g[Len(groups) + 2] = <<IAC, SE>>
  <2>1. /\ Len(groups) + 2 \in 1 .. Len(g) /\ ~(Len(groups) + 2 <= Len(a \o groups))
        /\ Len(groups) + 2 - Len(a \o groups) = 1
    BY <1>3, <1>5, <1>6, <1>7
  <2>. QED  BY <2>1, <1>3, <1>7
<1>11. Len(g) = Len(groups) + 2
  BY <1>7, <1>5
<1>. QED  BY <1>4, <1>5, <1>7, <1>8, <1>9, <1>10, <1>11

LEMMA EscapeGroups ==
    ASSUME NEW d \in Seq(Byte), NEW binary \in BOOLEAN
    PROVE  LET g == ClientEscapes(d, binary)
           IN  /\ g \in Groups /\ Len(g) = Len(d)
               /\ \A i \in 1 .. Len(d) :
                     g[i] = IF d[i] = IAC THEN <<IAC, IAC>>
                            ELSE IF d[i] = CR /\ ~binary /\ ~(i < Len(d) /\ d[i + 1] = LF)
                                 THEN <<CR, NUL>> ELSE <<d[i]>>
<1>. DEFINE e(i) == IF d[i] = IAC THEN <<IAC, IAC>>
                    ELSE IF d[i] = CR /\ ~binary /\ ~(i < Len(d) /\ d[i + 1] = LF)
                         THEN <<CR, NUL>> ELSE <<d[i]>>
            g == [i \in 1 .. Len(d) |-> e(i)]
<1>1. ASSUME NEW i \in 1 .. Len(d) PROVE e(i) \in Group
  <2>1. d[i] \in Byte
    OBVIOUS
  <2>2. IAC \in Byte /\ CR \in Byte /\ NUL \in Byte
    BY DEF Byte, IAC, CR, NUL
  <2>3. <<IAC, IAC>> \in Group /\ <<CR, NUL>> \in Group /\ <<d[i]>> \in Group
    BY <2>1, <2>2, TupleGroups
  <2>. QED  BY <2>3
<1>2. Len(d) \in Nat
  OBVIOUS
<1>3. g = ClientEscapes(d, binary)
  BY DEF ClientEscapes
<1>. HIDE DEF e
<1>4. g \in Groups /\ Len(g) = Len(d) /\ \A i \in 1 .. Len(d) : g[i] = e(i)
  BY <1>1, <1>2 DEF Groups
<1>. HIDE DEF g
<1>. QED  BY <1>3, <1>4 DEF e

LEMMA EscapeCommand ==
    ASSUME NEW par \in Seq(Byte)
    PROVE  LET g == ClientEscapes(par, TRUE)
           IN  /\ g \in Groups /\ Len(g) = Len(par)
               /\ \A i \in 1 .. Len(par) :
                     g[i] = IF par[i] = IAC THEN <<IAC, IAC>> ELSE <<par[i]>>
BY EscapeGroups

LEMMA WriteGroups ==
    ASSUME NEW par \in Seq(Byte), NEW prev \in Byte
    PROVE  LET g == Written(par, prev)
           IN  /\ g \in Groups /\ Len(g) = Len(par)
               /\ \A i \in 1 .. Len(par) :
                     g[i] = EscWriteChar(par[i], IF i = 1 THEN prev ELSE par[i - 1])
<1>. DEFINE e(i) == EscWriteChar(par[i], IF i = 1 THEN prev ELSE par[i - 1])
            g == [i \in 1 .. Len(par) |-> e(i)]
<1>1. ASSUME NEW i \in 1 .. Len(par) PROVE e(i) \in Group
  <2>1. par[i] \in Byte
    OBVIOUS
  <2>2. NUL \in Byte
    BY DEF Byte, NUL
  <2>. DEFINE C == par[i]
  <2>3. <<C, C>> \in Group /\ <<NUL, C>> \in Group /\ <<C>> \in Group
    BY <2>1, <2>2, TupleGroups
  <2>. QED  BY <2>3 DEF EscWriteChar
<1>2. Len(par) \in Nat
  OBVIOUS
<1>3. g = Written(par, prev)
  BY DEF Written
<1>. HIDE DEF e
<1>4. g \in Groups /\ Len(g) = Len(par) /\ \A i \in 1 .. Len(par) : g[i] = e(i)
  BY <1>1, <1>2 DEF Groups
<1>. HIDE DEF g
<1>. QED  BY <1>3, <1>4 DEF e

----------------------------------------------------------------------------
(* One byte of EscRedirectChar.                                            *)

Step(C) ==
    /\ \/ IACEscape = "Normal" /\ Normal(C)
       \/ IACEscape = "Received" /\ Received(C)
       \/ IACEscape = "ComReceiving" /\ ComReceiving(C)
    /\ rxLast' = C

LEMMA ReadStep ==
    ASSUME TypeOK, EscRedirectChar
    PROVE  /\ wire # <<>> /\ wire' = ButFirstByte(wire) /\ wire \in Groups
           /\ FirstByte(wire) \in Byte /\ wire' \in Groups
           /\ Step(FirstByte(wire))
           /\ UNCHANGED <<msg, pristine, steady, outVars, client, side>>
<1>1. wire \in Groups
  BY DEF TypeOK, Groups, Group
<1>2. /\ wire # <<>> /\ wire' = ButFirstByte(wire)
      /\ UNCHANGED <<msg, pristine, steady, outVars, client, side>>
      /\ Step(FirstByte(wire))
  BY DEF EscRedirectChar, Step
<1>. QED  BY <1>1, <1>2, ReadByte

LEMMA StepNormal ==
    ASSUME TypeOK, NEW C \in Byte, Step(C), IACEscape = "Normal"
    PROVE  /\ IACEscape' = IF C = IAC THEN "Received" ELSE "Normal"
           /\ toDev' = IF C = IAC \/ (~tnstate.is_do /\ C = NUL /\ rxLast = CR)
                       THEN toDev ELSE toDev \o <<C>>
           /\ UNCHANGED <<IACSigEscape, IACCommand, tnstate, heard>>
           /\ rxLast' = C
<1>1. Normal(C) /\ rxLast' = C
  BY DEF Step
<1>2. toDev \o <<>> = toDev
  BY DEF TypeOK
<1>. QED  BY <1>1, <1>2 DEF Normal, ToDevice, Nothing

LEMMA StepReceived ==
    ASSUME TypeOK, NEW C \in Byte, Step(C), IACEscape = "Received"
    PROVE  /\ UNCHANGED <<tnstate, heard>> /\ rxLast' = C
           /\ C = IAC => /\ IACEscape' = "Normal" /\ toDev' = toDev \o <<C>>
                         /\ UNCHANGED <<IACSigEscape, IACCommand>>
           /\ C # IAC => /\ IACEscape' = "ComReceiving" /\ IACSigEscape' = "Normal"
                         /\ IACCommand' = <<IAC, C>> /\ toDev' = toDev
<1>1. Received(C) /\ rxLast' = C
  BY DEF Step
<1>2. toDev \o <<>> = toDev
  BY DEF TypeOK
<1>. QED  BY <1>1, <1>2 DEF Received, ToDevice, Nothing

LEMMA StepCommand ==
    ASSUME TypeOK, NEW C \in Byte, Step(C), IACEscape = "ComReceiving"
    PROVE  ComReceiving(C) /\ rxLast' = C /\ toDev' = toDev
<1>1. ComReceiving(C) /\ rxLast' = C
  BY DEF Step
<1>2. toDev \o <<>> = toDev
  BY DEF TypeOK
<1>. QED  BY <1>1, <1>2 DEF ComReceiving, ToDevice

LEMMA Appended ==
    ASSUME NEW s \in Seq(Byte), NEW C \in Byte
    PROVE  /\ Append(s, C) \in Seq(Byte) /\ Len(Append(s, C)) = Len(s) + 1
           /\ \A i \in 1 .. Len(s) : Append(s, C)[i] = s[i]
           /\ Append(s, C)[Len(s) + 1] = C
BY AppendProperties

LEMMA TailOfThree ==
    ASSUME NEW s \in Seq(Byte), Len(s) = 3
    PROVE  Tail(s) = <<s[2], s[3]>>
<1>. DEFINE t == Tail(s)
<1>1. t \in Seq(Byte) /\ Len(t) = 2 /\ t[1] = s[2] /\ t[2] = s[3]
  <2>1. s # <<>>
    OBVIOUS
  <2>2. /\ t \in Seq(Byte) /\ Len(t) = Len(s) - 1
        /\ \A i \in 1 .. Len(t) : t[i] = s[i + 1]
    BY <2>1, HeadTailProperties
  <2>. HIDE DEF t
  <2>. QED  BY <2>2
<1>. HIDE DEF t
<1>2. t = <<t[1], t[2]>>
  BY <1>1
<1>. QED  BY <1>1, <1>2 DEF t

LEMMA StepOption ==
    ASSUME TypeOK, NEW C \in Byte, Step(C), IACEscape = "ComReceiving", InOption
    PROVE  /\ IACEscape' = "Normal" /\ IACCommand' = <<>> /\ rxLast' = C
           /\ UNCHANGED <<IACSigEscape, toDev>>
           /\ heard' = heard \o <<<<IACCommand[2], C>>>>
           /\ tnstate' = Effect(IACCommand[2], C)
<1>. DEFINE cmd == Append(IACCommand, C)
<1>1. ComReceiving(C) /\ rxLast' = C /\ toDev' = toDev
  BY StepCommand
<1>2. Len(IACCommand) = 2 /\ IACCommand[2] # SB /\ IACCommand \in Seq(Byte)
  BY DEF InOption, TypeOK
<1>3. Len(IACCommand) + 1 = CommandLength(IACCommand)
  BY <1>2 DEF CommandLength
<1>4. HandleIACCommand(cmd) /\ CommandDone
  BY <1>1, <1>2, <1>3 DEF ComReceiving
<1>5. cmd[2] = IACCommand[2] /\ cmd[3] = C /\ Tail(cmd) = <<IACCommand[2], C>>
  <2>1. cmd \in Seq(Byte) /\ Len(cmd) = 3 /\ cmd[2] = IACCommand[2] /\ cmd[3] = C
    <3>1. /\ cmd \in Seq(Byte) /\ Len(cmd) = Len(IACCommand) + 1
          /\ \A i \in 1 .. Len(IACCommand) : cmd[i] = IACCommand[i]
          /\ cmd[Len(IACCommand) + 1] = C
      BY <1>2, Appended
    <3>. HIDE DEF cmd
    <3>. QED  BY <3>1, <1>2
  <2>. HIDE DEF cmd
  <2>2. Tail(cmd) = <<cmd[2], cmd[3]>>
    BY <2>1, TailOfThree
  <2>. QED  BY <2>1, <2>2
<1>. HIDE DEF cmd
<1>6. Taken(cmd) = <<<<IACCommand[2], C>>>>
  BY <1>2, <1>5 DEF Taken
<1>7. heard' = heard \o <<<<IACCommand[2], C>>>>
  BY <1>4, <1>6 DEF HandleIACCommand
<1>8. tnstate' = Effect(IACCommand[2], C)
  BY <1>4, <1>5 DEF HandleIACCommand, Effect
<1>. QED  BY <1>1, <1>4, <1>7, <1>8 DEF CommandDone

LEMMA StepHead ==
    ASSUME TypeOK, NEW C \in Byte, Step(C), IACEscape = "ComReceiving",
           NEW n, InHead(n)
    PROVE  /\ IACCommand' = Append(IACCommand, C) /\ rxLast' = C
           /\ UNCHANGED <<IACEscape, IACSigEscape, tnstate, heard, toDev>>
<1>1. ComReceiving(C) /\ rxLast' = C /\ toDev' = toDev
  BY StepCommand
<1>2. Len(IACCommand) < 4 /\ ~(Len(IACCommand) >= 4) /\ IACCommand[2] = SB
  BY DEF InHead
<1>. QED  BY <1>1, <1>2 DEF ComReceiving, Nothing

LEMMA StepFixed ==
    ASSUME TypeOK, NEW C \in Byte, Step(C), IACEscape = "ComReceiving",
           NEW need \in Nat, InFixed(need), need # 1
    PROVE  /\ IACCommand' = Append(IACCommand, C) /\ rxLast' = C
           /\ UNCHANGED <<IACEscape, IACSigEscape, tnstate, heard, toDev>>
<1>1. ComReceiving(C) /\ rxLast' = C /\ toDev' = toDev
  BY StepCommand
<1>2. /\ Len(IACCommand) \in Nat /\ Len(IACCommand) >= 4 /\ ~(Len(IACCommand) < 4)
      /\ IACCommand[4] # SIGNATURE
      /\ Len(IACCommand) + 1 # CommandLength(IACCommand)
  BY DEF InFixed, TypeOK
<1>. QED  BY <1>1, <1>2 DEF ComReceiving, Nothing

LEMMA StepLast ==
    ASSUME TypeOK, NEW C \in Byte, Step(C), IACEscape = "ComReceiving", InFixed(1)
    PROVE  /\ IACEscape' = "Normal" /\ IACCommand' = <<>> /\ rxLast' = C
           /\ UNCHANGED <<IACSigEscape, toDev, tnstate>>
           /\ heard' = heard \o Taken(Append(IACCommand, C))
<1>. DEFINE cmd == Append(IACCommand, C)
<1>1. ComReceiving(C) /\ rxLast' = C /\ toDev' = toDev
  BY StepCommand
<1>2. /\ Len(IACCommand) \in Nat /\ Len(IACCommand) >= 4 /\ ~(Len(IACCommand) < 4)
      /\ IACCommand[4] # SIGNATURE /\ IACCommand[2] = SB /\ IACCommand \in Seq(Byte)
      /\ Len(IACCommand) + 1 = CommandLength(IACCommand)
  BY DEF InFixed, TypeOK
<1>3. HandleIACCommand(cmd) /\ CommandDone
  BY <1>1, <1>2 DEF ComReceiving
<1>4. cmd[2] = SB
  BY <1>2
<1>. HIDE DEF cmd
<1>5. tnstate' = [tnstate EXCEPT !.is_do = @, !.is_will = @, !.com_port = @]
  BY <1>3, <1>4 DEF HandleIACCommand, SB, WILL, WONT, DO, DONT
<1>6. tnstate' = tnstate
  BY <1>5 DEF TypeOK
<1>7. heard' = heard \o Taken(cmd)
  BY <1>3 DEF HandleIACCommand
<1>. QED  BY <1>1, <1>3, <1>6, <1>7 DEF CommandDone, cmd

LEMMA Stored ==
    ASSUME TypeOK, NEW n \in 1 .. 2, NEW bytes \in Seq(Byte), Len(bytes) = n
    PROVE  /\ Store(bytes) \in Seq(Byte) /\ Len(Store(bytes)) = Kept(Len(IACCommand) + n)
           /\ \A i \in 1 .. Len(IACCommand) : Store(bytes)[i] = IACCommand[i]
<1>. DEFINE all == IACCommand \o bytes
<1>1. /\ IACCommand \in Seq(Byte) /\ Len(IACCommand) \in Nat
      /\ Len(IACCommand) <= SizeofIACCommand /\ SizeofIACCommand \in Nat
  BY CodecAssumption DEF TypeOK
<1>2. /\ all \in Seq(Byte) /\ Len(all) = Len(IACCommand) + n
      /\ \A i \in 1 .. Len(IACCommand) : all[i] = IACCommand[i]
  <2>1. /\ all \in Seq(Byte) /\ Len(all) = Len(IACCommand) + Len(bytes)
        /\ \A i \in 1 .. Len(IACCommand) + Len(bytes) :
              all[i] = IF i <= Len(IACCommand) THEN IACCommand[i]
                       ELSE bytes[i - Len(IACCommand)]
    BY <1>1, ConcatProperties
  <2>. HIDE DEF all
  <2>. QED  BY <2>1, <1>1
<1>3. Store(bytes) = IF Len(all) <= SizeofIACCommand THEN all
                     ELSE SubSeq(all, 1, SizeofIACCommand)
  BY DEF Store
<1>. HIDE DEF all
<1>4. CASE Len(all) <= SizeofIACCommand
  BY <1>1, <1>2, <1>3, <1>4 DEF Kept
<1>5. CASE ~(Len(all) <= SizeofIACCommand)
  <2>. DEFINE sub == SubSeq(all, 1, SizeofIACCommand)
  <2>1. 1 \in 1 .. Len(all) + 1 /\ SizeofIACCommand \in 1 - 1 .. Len(all)
    BY <1>1, <1>2, <1>5
  <2>2. /\ sub \in Seq(Byte) /\ Len(sub) = SizeofIACCommand - 1 + 1
        /\ \A i \in 1 .. SizeofIACCommand - 1 + 1 : sub[i] = all[1 + i - 1]
    BY <2>1, <1>2, SubSeqProperties
  <2>. HIDE DEF sub
  <2>3. Len(sub) = SizeofIACCommand /\ \A i \in 1 .. Len(IACCommand) : sub[i] = IACCommand[i]
    BY <2>2, <1>1, <1>2
  <2>4. Store(bytes) = sub
    BY <1>3, <1>5 DEF sub
  <2>. QED  BY <2>2, <2>3, <2>4, <1>1, <1>2, <1>5 DEF Kept
<1>. QED  BY <1>4, <1>5

LEMMA StepText ==
    ASSUME TypeOK, NEW C \in Byte, Step(C), IACEscape = "ComReceiving", InSignature
    PROVE  /\ rxLast' = C /\ UNCHANGED <<toDev, tnstate>>
           /\ IACSigEscape = "Normal" =>
                 /\ UNCHANGED <<IACEscape, heard>>
                 /\ IACSigEscape' = IF C = IAC THEN "Received" ELSE "Normal"
                 /\ IACCommand' = IF C = IAC THEN IACCommand ELSE Store(<<0>>)
           /\ IACSigEscape = "Received" /\ C = IAC =>
                 /\ UNCHANGED <<IACEscape, heard>> /\ IACSigEscape' = "Normal"
                 /\ IACCommand' = Store(<<0>>)
           /\ IACSigEscape = "Received" /\ C # IAC =>
                 /\ IACEscape' = "Normal" /\ UNCHANGED IACSigEscape
                 /\ IACCommand' = <<>>
                 /\ heard' = heard \o Taken(Store(<<0, 0>>))
<1>1. ComReceiving(C) /\ rxLast' = C /\ toDev' = toDev
  BY StepCommand
<1>2. /\ Len(IACCommand) \in Nat /\ Len(IACCommand) >= 4 /\ ~(Len(IACCommand) < 4)
      /\ IACCommand[4] = SIGNATURE /\ IACCommand[2] = SB /\ IACCommand \in Seq(Byte)
  BY DEF InSignature, TypeOK
<1>3. Sig(C)
  BY <1>1, <1>2 DEF ComReceiving
<1>4. CASE IACSigEscape = "Normal"
  BY <1>1, <1>3, <1>4 DEF Sig, Nothing
<1>5. CASE IACSigEscape = "Received" /\ C = IAC
  BY <1>1, <1>3, <1>5 DEF Sig, Nothing
<1>6. CASE IACSigEscape = "Received" /\ C # IAC
  <2>. DEFINE cmd == Store(<<0, 0>>)
  <2>1. HandleIACCommand(cmd) /\ CommandDone
    BY <1>3, <1>6 DEF Sig
  <2>2. cmd[2] = SB
    <3>. DEFINE z == <<0, 0>>
    <3>1. z \in Seq(Byte) /\ Len(z) = 2 /\ 2 \in 1 .. 2
      BY DEF Byte
    <3>. HIDE DEF z
    <3>2. 2 \in 1 .. Len(IACCommand)
      BY <1>2
    <3>3. \A i \in 1 .. Len(IACCommand) : Store(z)[i] = IACCommand[i]
      BY <3>1, Stored
    <3>. QED  BY <3>2, <3>3, <1>2 DEF z
  <2>. HIDE DEF cmd
  <2>3. tnstate' = [tnstate EXCEPT !.is_do = @, !.is_will = @, !.com_port = @]
    BY <2>1, <2>2 DEF HandleIACCommand, SB, WILL, WONT, DO, DONT
  <2>4. tnstate' = tnstate
    BY <2>3 DEF TypeOK
  <2>5. heard' = heard \o Taken(cmd)
    BY <2>1 DEF HandleIACCommand
  <2>. QED  BY <1>1, <1>6, <2>1, <2>4, <2>5 DEF CommandDone, cmd
<1>7. IACSigEscape \in {"Normal", "Received"}
  BY DEF TypeOK, EscState
<1>. QED  BY <1>4, <1>5, <1>6, <1>7

LEMMA Grows ==
    ASSUME TypeOK, NEW C \in Byte, IACCommand' = Append(IACCommand, C)
    PROVE  /\ IACCommand' \in Seq(Byte) /\ Len(IACCommand') = Len(IACCommand) + 1
           /\ \A i \in 1 .. Len(IACCommand) : IACCommand'[i] = IACCommand[i]
           /\ IACCommand'[Len(IACCommand) + 1] = C
BY Appended DEF TypeOK

\* Each step of the parser in a command, and what it waits for then.
LEMMA HeadGrows ==
    ASSUME TypeOK, NEW C \in Byte, IACCommand' = Append(IACCommand, C), InHead(2)
    PROVE  InHead(3)' /\ IACCommand'[3] = C /\ IACCommand'[1] = IACCommand[1]
<1>1. Len(IACCommand) = 2 /\ IACCommand[2] = SB
  BY DEF InHead
<1>2. Len(IACCommand') = 3 /\ IACCommand'[2] = SB /\ IACCommand'[3] = C
      /\ IACCommand'[1] = IACCommand[1]
  BY <1>1, Grows
<1>. QED  BY <1>2 DEF InHead

LEMMA HeadDone ==
    ASSUME TypeOK, NEW C \in Byte, IACCommand' = Append(IACCommand, C), InHead(3)
    PROVE  /\ C = SIGNATURE => InSignature'
           /\ C = BAUDRATE => InFixed(6)'
           /\ C \in {SUSPEND, RESUME} => InFixed(2)'
           /\ C \notin {SIGNATURE, BAUDRATE, SUSPEND, RESUME} => InFixed(3)'
           /\ Len(IACCommand') = 4 /\ IACCommand'[4] = C
<1>1. Len(IACCommand) = 3 /\ IACCommand[2] = SB
  BY DEF InHead
<1>2. Len(IACCommand') = 4 /\ IACCommand'[2] = SB /\ IACCommand'[4] = C
  BY <1>1, Grows
<1>3. CommandLength(IACCommand') =
          IF C = BAUDRATE THEN 10 ELSE IF C \in {SUSPEND, RESUME} THEN 6 ELSE 7
  BY <1>2 DEF CommandLength, SUSPEND, RESUME, BAUDRATE
<1>. QED  BY <1>2, <1>3 DEF InSignature, InFixed, SIGNATURE, BAUDRATE, SUSPEND, RESUME

LEMMA FixedGrows ==
    ASSUME TypeOK, NEW C \in Byte, IACCommand' = Append(IACCommand, C),
           NEW need \in 2 .. 6, InFixed(need)
    PROVE  InFixed(need - 1)'
<1>1. /\ Len(IACCommand) >= 4 /\ IACCommand[2] = SB /\ IACCommand[4] # SIGNATURE
      /\ Len(IACCommand) + need = CommandLength(IACCommand) /\ Len(IACCommand) \in Nat
  BY DEF InFixed, TypeOK
<1>2. /\ Len(IACCommand') = Len(IACCommand) + 1 /\ IACCommand'[2] = SB
      /\ IACCommand'[4] = IACCommand[4]
  BY <1>1, Grows
<1>3. CommandLength(IACCommand') = CommandLength(IACCommand)
  BY <1>1, <1>2 DEF CommandLength
<1>. QED  BY <1>1, <1>2, <1>3 DEF InFixed

LEMMA FixedLength ==
    ASSUME TypeOK, NEW need \in 1 .. 6, InFixed(need)
    PROVE  Len(IACCommand) \in 4 .. 10 /\ Len(IACCommand) + 1 <= SizeofIACCommand
<1>. DEFINE n == Len(IACCommand)
            m == CommandLength(IACCommand)
<1>1. n >= 4 /\ n + need = m /\ n \in Nat
  BY DEF InFixed, TypeOK
<1>2. m \in {3, 10, 6, 7}
  BY DEF CommandLength
<1>3. SizeofIACCommand \in Nat /\ SizeofIACCommand >= 10
  BY CodecAssumption
<1>. HIDE DEF n, m
<1>4. n \in 4 .. 10 /\ n + 1 <= SizeofIACCommand
  BY <1>1, <1>2, <1>3
<1>. QED  BY <1>4 DEF n

LEMMA Zeros ==
    <<0>> \in Seq(Byte) /\ Len(<<0>>) = 1 /\ <<0, 0>> \in Seq(Byte) /\ Len(<<0, 0>>) = 2
BY DEF Byte

LEMMA StoreOne ==
    ASSUME TypeOK
    PROVE  /\ Store(<<0>>) \in Seq(Byte)
           /\ Len(Store(<<0>>)) = Kept(Len(IACCommand) + 1)
           /\ \A i \in 1 .. Len(IACCommand) : Store(<<0>>)[i] = IACCommand[i]
<1>. DEFINE z == <<0>>
<1>1. z \in Seq(Byte) /\ Len(z) = 1 /\ 1 \in 1 .. 2
  BY Zeros
<1>. HIDE DEF z
<1>2. /\ Store(z) \in Seq(Byte) /\ Len(Store(z)) = Kept(Len(IACCommand) + 1)
      /\ \A i \in 1 .. Len(IACCommand) : Store(z)[i] = IACCommand[i]
  BY <1>1, Stored
<1>. QED  BY <1>2 DEF z

LEMMA StoreTwo ==
    ASSUME TypeOK
    PROVE  /\ Store(<<0, 0>>) \in Seq(Byte)
           /\ Len(Store(<<0, 0>>)) = Kept(Len(IACCommand) + 2)
           /\ \A i \in 1 .. Len(IACCommand) : Store(<<0, 0>>)[i] = IACCommand[i]
<1>. DEFINE z == <<0, 0>>
<1>1. z \in Seq(Byte) /\ Len(z) = 2 /\ 2 \in 1 .. 2
  BY Zeros
<1>. HIDE DEF z
<1>2. /\ Store(z) \in Seq(Byte) /\ Len(Store(z)) = Kept(Len(IACCommand) + 2)
      /\ \A i \in 1 .. Len(IACCommand) : Store(z)[i] = IACCommand[i]
  BY <1>1, Stored
<1>. QED  BY <1>2 DEF z

LEMMA TextGrows ==
    ASSUME TypeOK, InSignature, IACCommand' = Store(<< 0 >>)
    PROVE  /\ InSignature' /\ IACCommand' \in Seq(Byte)
           /\ Len(IACCommand') = Kept(Len(IACCommand) + 1)
           /\ Len(IACCommand') <= SizeofIACCommand
           /\ \A i \in 1 .. 4 : IACCommand'[i] = IACCommand[i]
<1>1. /\ Len(IACCommand) >= 4 /\ Len(IACCommand) \in Nat
      /\ IACCommand[2] = SB /\ IACCommand[4] = SIGNATURE
      /\ Len(IACCommand) <= SizeofIACCommand /\ SizeofIACCommand \in Nat
      /\ SizeofIACCommand >= 10
  BY CodecAssumption DEF InSignature, TypeOK
<1>2. /\ IACCommand' \in Seq(Byte) /\ Len(IACCommand') = Kept(Len(IACCommand) + 1)
      /\ \A i \in 1 .. Len(IACCommand) : IACCommand'[i] = IACCommand[i]
  BY StoreOne
<1>3. \A i \in 1 .. 4 : IACCommand'[i] = IACCommand[i]
  BY <1>1, <1>2
<1>4. Len(IACCommand') >= 4 /\ Len(IACCommand') <= SizeofIACCommand
  BY <1>1, <1>2 DEF Kept
<1>. QED  BY <1>1, <1>2, <1>3, <1>4 DEF InSignature

LEMMA TakenType ==
    ASSUME TypeOK, NEW cmd \in Seq(Byte), Len(cmd) >= 3,
           cmd[2] = SB /\ cmd[4] # SIGNATURE => Len(cmd) = CommandLength(cmd)
    PROVE  Taken(cmd) \in Seq(Seq(Nat))
<1>1. SB \in Nat /\ SIGNATURE \in Nat /\ Len(cmd) \in Nat
  BY DEF SB, SIGNATURE
<1>2. Byte \subseteq Nat
  BY DEF Byte
<1>3. cmd \in Seq(Nat) /\ cmd # <<>>
  <2>2. cmd \in Seq(Nat)
    BY <1>2, SeqMonotonic
  <2>3. cmd # <<>>
    OBVIOUS
  <2>. QED  BY <2>2, <2>3
<1>4. Tail(cmd) \in Seq(Nat)
  BY <1>3, HeadTailProperties
<1>5. <<SB, SIGNATURE, Len(cmd)>> \in Seq(Nat)
  BY <1>1
<1>6. CASE cmd[2] = SB /\ cmd[4] # SIGNATURE
  <2>1. CommandLength(cmd) \in {3, 10, 6, 7}
    BY DEF CommandLength
  <2>2. CommandLength(cmd) - 2 <= Len(cmd) /\ CommandLength(cmd) - 2 \in Int
    BY <2>1, <1>6
  <2>3. SubSeq(cmd, 4, CommandLength(cmd) - 2) \in Seq(Nat)
    BY <2>1, <2>2, <1>3, <1>6
  <2>4. <<SB>> \o SubSeq(cmd, 4, CommandLength(cmd) - 2) \in Seq(Nat)
    BY <2>3, <1>1
  <2>. QED  BY <2>4, <1>6 DEF Taken
<1>7. CASE ~(cmd[2] = SB /\ cmd[4] # SIGNATURE)
  BY <1>4, <1>5, <1>7 DEF Taken
<1>. QED  BY <1>6, <1>7

LEMMA EffectType ==
    ASSUME TypeOK, NEW cmd, NEW opt
    PROVE  Effect(cmd, opt) \in [is_do : BOOLEAN, is_will : BOOLEAN, com_port : BOOLEAN]
BY DEF TypeOK, Effect

ParserType ==
    /\ IACEscape \in EscState /\ IACSigEscape \in EscState \ {"ComReceiving"}
    /\ IACCommand \in Seq(Byte) /\ Len(IACCommand) <= SizeofIACCommand
    /\ IACEscape = "ComReceiving" => Len(IACCommand) >= 2
    /\ rxLast \in Byte
    /\ tnstate \in [is_do : BOOLEAN, is_will : BOOLEAN, com_port : BOOLEAN]
    /\ toDev \in Seq(Byte)
    /\ heard \in Seq(Seq(Nat))
    /\ ParserInv

LEMMA StepType ==
    ASSUME TypeInv, NEW C \in Byte, Step(C)
    PROVE  ParserType'
<1>0. TypeOK /\ ItemType /\ ParserInv
  BY DEF TypeInv
<1>1. /\ IACCommand \in Seq(Byte) /\ Len(IACCommand) \in Nat
      /\ Len(IACCommand) <= SizeofIACCommand
      /\ toDev \in Seq(Byte) /\ heard \in Seq(Seq(Nat))
      /\ tnstate \in [is_do : BOOLEAN, is_will : BOOLEAN, com_port : BOOLEAN]
      /\ IACEscape \in EscState /\ IACSigEscape \in EscState \ {"ComReceiving"}
  BY <1>0 DEF TypeOK, ItemType
<1>2. SizeofIACCommand \in Nat /\ SizeofIACCommand >= 10
  BY CodecAssumption
<1>3. toDev \o <<C>> \in Seq(Byte)
  BY <1>1
<1>4. /\ <<>> \in Seq(Byte) /\ Len(<<>>) = 0 /\ rxLast' = C
      /\ {"Normal", "Received", "ComReceiving"} = EscState
  BY DEF EscState, Step
<1>5. CASE IACEscape = "Normal"
  <2>1. /\ IACEscape' \in {"Normal", "Received"} /\ toDev' \in Seq(Byte)
        /\ UNCHANGED <<IACSigEscape, IACCommand, tnstate, heard>>
    BY <1>0, <1>1, <1>3, <1>5, StepNormal
  <2>. QED  BY <2>1, <1>1, <1>4 DEF ParserType, ParserInv
<1>6. CASE IACEscape = "Received"
  <2>1. UNCHANGED <<tnstate, heard>>
    BY <1>0, <1>6, StepReceived
  <2>2. CASE C = IAC
    <3>1. /\ IACEscape' = "Normal" /\ toDev' \in Seq(Byte)
          /\ UNCHANGED <<IACSigEscape, IACCommand>>
      BY <1>0, <1>3, <1>6, <2>2, StepReceived
    <3>. QED  BY <2>1, <3>1, <1>1, <1>4 DEF ParserType, ParserInv
  <2>3. CASE C # IAC
    <3>1. /\ IACEscape' = "ComReceiving" /\ IACSigEscape' = "Normal"
          /\ IACCommand' = <<IAC, C>> /\ toDev' = toDev
      BY <1>0, <1>6, <2>3, StepReceived
    <3>2. IACCommand' \in Seq(Byte) /\ Len(IACCommand') = 2 /\ IACCommand'[2] = C
      BY <3>1 DEF IAC, Byte
    <3>3. InOption' \/ InHead(2)'
      BY <3>2 DEF InOption, InHead
    <3>4. ParserInv'
      BY <3>3 DEF ParserInv
    <3>. QED  BY <2>1, <3>1, <3>2, <3>4, <1>1, <1>2, <1>4 DEF ParserType
  <2>. QED  BY <2>2, <2>3
<1>7. CASE IACEscape = "ComReceiving"
  <2>0. toDev' = toDev
    BY <1>0, <1>7, StepCommand
  <2>1. CASE InOption
    <3>1. /\ IACEscape' = "Normal" /\ IACCommand' = <<>>
          /\ UNCHANGED <<IACSigEscape, toDev>>
          /\ heard' = heard \o <<<<IACCommand[2], C>>>>
          /\ tnstate' = Effect(IACCommand[2], C)
      BY <1>0, <1>7, <2>1, StepOption
    <3>2. IACCommand[2] \in Nat /\ C \in Nat
      <4>1. 2 \in 1 .. Len(IACCommand)
        BY <2>1 DEF InOption
      <4>2. IACCommand[2] \in Byte
        BY <4>1, <1>1
      <4>. QED  BY <4>2 DEF Byte
    <3>3. <<IACCommand[2], C>> \in Seq(Nat)
      BY <3>2
    <3>4. heard' \in Seq(Seq(Nat))
      BY <3>1, <3>3, <1>1
    <3>5. tnstate' \in [is_do : BOOLEAN, is_will : BOOLEAN, com_port : BOOLEAN]
      BY <3>1, <1>0, EffectType
    <3>. QED  BY <3>1, <3>4, <3>5, <1>1, <1>2, <1>4 DEF ParserType, ParserInv
  <2>2. ASSUME NEW n \in 2 .. 3, InHead(n) PROVE ParserType'
    <3>1. /\ IACCommand' = Append(IACCommand, C)
          /\ UNCHANGED <<IACEscape, IACSigEscape, tnstate, heard, toDev>>
      BY <1>0, <1>7, <2>2, StepHead
    <3>2. IACCommand' \in Seq(Byte) /\ Len(IACCommand') = Len(IACCommand) + 1
          /\ Len(IACCommand) = n
      BY <3>1, <2>2, <1>0, Grows DEF InHead
    <3>3. CASE n = 2
      <4>1. InHead(3)'
        BY <3>1, <3>3, <2>2, <1>0, HeadGrows
      <4>2. ParserInv'
        BY <4>1 DEF ParserInv
      <4>. QED  BY <3>1, <3>2, <4>2, <1>1, <1>2, <1>4 DEF ParserType
    <3>4. CASE n = 3
      <4>1. InSignature' \/ InFixed(6)' \/ InFixed(2)' \/ InFixed(3)'
        BY <3>1, <3>4, <2>2, <1>0, HeadDone
      <4>2. ParserInv'
        BY <4>1 DEF ParserInv
      <4>. QED  BY <3>1, <3>2, <4>2, <1>1, <1>2, <1>4 DEF ParserType
    <3>. QED  BY <3>3, <3>4
  <2>3. ASSUME NEW need \in 1 .. 6, InFixed(need) PROVE ParserType'
    <3>1. Len(IACCommand) \in 4 .. 10 /\ Len(IACCommand) + 1 <= SizeofIACCommand
      BY <2>3, <1>0, FixedLength
    <3>2. CASE need = 1
      <4>1. /\ IACEscape' = "Normal" /\ IACCommand' = <<>>
            /\ UNCHANGED <<IACSigEscape, toDev, tnstate>>
            /\ heard' = heard \o Taken(Append(IACCommand, C))
        BY <1>0, <1>7, <2>3, <3>2, StepLast
      <4>. DEFINE cmd == Append(IACCommand, C)
      <4>2. /\ cmd \in Seq(Byte) /\ Len(cmd) = Len(IACCommand) + 1
            /\ \A i \in 1 .. Len(IACCommand) : cmd[i] = IACCommand[i]
        BY <1>1, Appended
      <4>. HIDE DEF cmd
      <4>3. cmd[2] = IACCommand[2] /\ cmd[4] = IACCommand[4]
        BY <4>2, <3>1
      <4>4. Len(cmd) = CommandLength(IACCommand)
        BY <4>2, <2>3, <3>2 DEF InFixed
      <4>5. CommandLength(cmd) = CommandLength(IACCommand)
        BY <4>3 DEF CommandLength
      <4>6. Len(cmd) >= 3
        <5>1. Len(IACCommand) \in Int /\ Len(IACCommand) >= 4
          BY <3>1
        <5>. QED  BY <5>1, <4>2
      <4>7. Taken(cmd) \in Seq(Seq(Nat))
        BY <4>2, <4>4, <4>5, <4>6, <1>0, TakenType
      <4>8. heard' \in Seq(Seq(Nat))
        BY <4>1, <4>7, <1>1 DEF cmd
      <4>. QED  BY <4>1, <4>8, <1>1, <1>2, <1>4 DEF ParserType, ParserInv
    <3>3. CASE need # 1
      <4>1. /\ IACCommand' = Append(IACCommand, C)
            /\ UNCHANGED <<IACEscape, IACSigEscape, tnstate, heard, toDev>>
        BY <1>0, <1>7, <2>3, <3>3, StepFixed
      <4>2. IACCommand' \in Seq(Byte) /\ Len(IACCommand') = Len(IACCommand) + 1
        BY <4>1, <1>0, Grows
      <4>3. need \in 2 .. 6 /\ need - 1 \in 1 .. 6
        BY <3>3
      <4>4. InFixed(need - 1)'
        BY <4>1, <4>3, <2>3, <1>0, FixedGrows
      <4>5. ParserInv'
        BY <4>3, <4>4 DEF ParserInv
      <4>. QED  BY <4>1, <4>2, <4>5, <3>1, <1>1, <1>2, <1>4 DEF ParserType
    <3>. QED  BY <3>2, <3>3
  <2>4. CASE InSignature
    <3>0. tnstate' = tnstate /\ (IACSigEscape = "Normal" \/ IACSigEscape = "Received")
      BY <1>0, <1>1, <1>7, <2>4, StepText DEF EscState
    <3>1. CASE IACSigEscape = "Normal" /\ C = IAC
      <4>1. /\ UNCHANGED <<IACEscape, heard, IACCommand>> /\ IACSigEscape' = "Received"
        BY <1>0, <1>7, <2>4, <3>1, StepText
      <4>2. InSignature'
        BY <4>1, <2>4 DEF InSignature
      <4>3. ParserInv'
        BY <4>2 DEF ParserInv
      <4>. QED  BY <4>1, <4>3, <3>0, <2>0, <1>0, <1>1, <1>4 DEF ParserType, TypeOK
    <3>2. CASE \/ IACSigEscape = "Normal" /\ C # IAC
               \/ IACSigEscape = "Received" /\ C = IAC
      <4>1. /\ UNCHANGED <<IACEscape, heard>> /\ IACSigEscape' = "Normal"
            /\ IACCommand' = Store(<<0>>)
        BY <1>0, <1>7, <2>4, <3>2, StepText
      <4>2. /\ InSignature' /\ IACCommand' \in Seq(Byte)
            /\ Len(IACCommand') <= SizeofIACCommand
        BY <4>1, <2>4, <1>0, TextGrows
      <4>3. ParserInv' /\ Len(IACCommand') \in Nat /\ Len(IACCommand') >= 4
        BY <4>2 DEF ParserInv, InSignature
      <4>. QED  BY <4>1, <4>2, <4>3, <3>0, <2>0, <1>1, <1>4 DEF ParserType
    <3>3. CASE IACSigEscape = "Received" /\ C # IAC
      <4>1. /\ IACEscape' = "Normal" /\ UNCHANGED IACSigEscape /\ IACCommand' = <<>>
            /\ heard' = heard \o Taken(Store(<<0, 0>>))
        BY <1>0, <1>7, <2>4, <3>3, StepText
      <4>. DEFINE cmd == Store(<<0, 0>>)
      <4>2. /\ cmd \in Seq(Byte) /\ Len(cmd) = Kept(Len(IACCommand) + 2)
            /\ \A i \in 1 .. Len(IACCommand) : cmd[i] = IACCommand[i]
        BY <1>0, StoreTwo
      <4>. HIDE DEF cmd
      <4>3. Len(cmd) >= 3 /\ cmd[4] = SIGNATURE
        BY <4>2, <2>4, <1>1, <1>2 DEF InSignature, Kept
      <4>4. Taken(cmd) \in Seq(Seq(Nat))
        BY <4>2, <4>3, <1>0, TakenType
      <4>5. heard' \in Seq(Seq(Nat))
        BY <4>1, <4>4, <1>1 DEF cmd
      <4>. QED  BY <4>1, <4>5, <3>0, <2>0, <1>1, <1>2, <1>4 DEF ParserType, ParserInv
    <3>. QED  BY <3>0, <3>1, <3>2, <3>3
  <2>. QED  BY <1>0, <1>7, <2>1, <2>2, <2>3, <2>4 DEF ParserInv
<1>. QED  BY <1>0, <1>5, <1>6, <1>7 DEF TypeOK, EscState

----------------------------------------------------------------------------
(* Types.                                                                  *)

LEMMA Typed ==
    ASSUME TypeInv
    PROVE  /\ TypeOK /\ ItemType /\ ParserInv
           /\ wire \in Groups /\ toClient \in Groups
           /\ item \in [given : Seq(Byte), got : Seq(Byte), fair : BOOLEAN]
           /\ msg \in [data : Seq(Byte), cmds : Seq(Seq(Nat)), insync : BOOLEAN]
BY DEF TypeInv, TypeOK, ItemType, Groups, Group

LEMMA Bytes ==
    /\ IAC \in Byte /\ DONT \in Byte /\ DO \in Byte /\ WONT \in Byte /\ WILL \in Byte
    /\ SB \in Byte /\ NOP \in Byte /\ SE \in Byte /\ BINARY \in Byte /\ COM_PORT \in Byte
    /\ SIGNATURE \in Byte /\ BAUDRATE \in Byte /\ SUSPEND \in Byte /\ RESUME \in Byte
    /\ MODEMSTATE_MASK \in Byte /\ CR \in Byte /\ LF \in Byte /\ NUL \in Byte
    /\ SIGNATURE + ASC \in Byte /\ BAUDRATE + ASC \in Byte
    /\ MODEMSTATE_MASK + ASC \in Byte /\ 0 \in Byte
BY DEF Byte, IAC, DONT, DO, WONT, WILL, SB, NOP, SE, BINARY, COM_PORT, SIGNATURE,
       BAUDRATE, SUSPEND, RESUME, MODEMSTATE_MASK, CR, LF, NUL, ASC

LEMMA TypeRead ==
    ASSUME TypeInv, EscRedirectChar
    PROVE  TypeInv'
<1>0. TypeOK /\ ItemType
  BY DEF TypeInv
<1>1. /\ wire' \in Groups /\ FirstByte(wire) \in Byte /\ Step(FirstByte(wire))
      /\ UNCHANGED <<msg, pristine, steady, outVars, client, side>>
  BY <1>0, ReadStep
<1>2. ParserType'
  BY <1>1, StepType
<1>3. TypeOK'
  BY <1>0, <1>1, <1>2 DEF TypeOK, ParserType, Groups, Group, outVars
<1>4. ItemType'
  BY <1>0, <1>1, <1>2 DEF ItemType, ParserType, outVars
<1>. QED  BY <1>2, <1>3, <1>4 DEF TypeInv, ParserType

LEMMA TypeClient ==
    ASSUME TypeInv, ClientReads
    PROVE  TypeInv'
<1>0. TypeOK /\ ItemType /\ ParserInv
  BY DEF TypeInv
<1>1. toClient \in Groups /\ toClient # <<>> /\ toClient' = ButFirstByte(toClient)
  BY <1>0 DEF TypeOK, Groups, Group, ClientReads
<1>. DEFINE c == FirstByte(toClient)
<1>2. toClient' \in Groups /\ c \in Byte
  BY <1>1, ReadByte
<1>3. ClientByte(c) /\ UNCHANGED <<inVars, txLast, tnstate, side>>
  BY DEF ClientReads
<1>. HIDE DEF c
<1>4. \E mode \in {"data", "iac", "sb", "sbiac"}, cr \in BOOLEAN, out \in {<<>>, <<c>>} :
          ClientGets(mode, cr, out)
  BY <1>0, <1>3 DEF ClientByte, TypeOK
<1>5. PICK mode \in {"data", "iac", "sb", "sbiac"}, cr \in BOOLEAN, out \in {<<>>, <<c>>} :
          ClientGets(mode, cr, out)
  BY <1>4
<1>6. client' = [client EXCEPT !.mode = mode, !.cr = cr]
  BY <1>5 DEF ClientGets
<1>7. client' \in [us : BOOLEAN, him : BOOLEAN, com_port : BOOLEAN,
                   mode : {"data", "iac", "sb", "sbiac"}, cr : BOOLEAN,
                   last : {"nothing", "data", "answer"}]
  BY <1>0, <1>6 DEF TypeOK
<1>8. item' \in [given : Seq(Byte), got : Seq(Byte), fair : BOOLEAN]
  <2>0. item' = [item EXCEPT !.got = item.got \o out]
    BY <1>5 DEF ClientGets
  <2>1. out \in Seq(Byte)
    <3>1. <<>> \in Seq(Byte)
      OBVIOUS
    <3>2. <<c>> \in Seq(Byte)
      BY <1>2
    <3>. QED  BY <3>1, <3>2
  <2>2. item \in [given : Seq(Byte), got : Seq(Byte), fair : BOOLEAN]
    BY <1>0 DEF ItemType
  <2>3. item.got \o out \in Seq(Byte)
    BY <2>1, <2>2
  <2>. QED  BY <2>0, <2>2, <2>3
<1>9. TypeOK'
  BY <1>0, <1>2, <1>3, <1>7 DEF TypeOK, Groups, Group, inVars, parser
<1>10. ItemType'
  BY <1>0, <1>3, <1>8 DEF ItemType, inVars
<1>11. ParserInv'
  BY <1>0, <1>3 DEF ParserInv, InOption, InHead, InFixed, InSignature, CommandLength,
                    inVars, parser
<1>. QED  BY <1>9, <1>10, <1>11 DEF TypeInv

LEMMA TypeToClient ==
    ASSUME TypeInv, NEW given \in Seq(Byte), given # <<>>, NEW groups \in Groups,
           NEW kind \in {"data", "answer"}, SendsToClient(given, groups, kind)
    PROVE  TypeInv'
<1>0. TypeOK /\ ItemType /\ ParserInv
  BY DEF TypeInv
<1>1. /\ toClient' = groups /\ txLast' = given[Len(given)]
      /\ client' = [client EXCEPT !.last = kind]
      /\ UNCHANGED <<inVars, tnstate, side>>
  BY DEF SendsToClient
<1>2. given[Len(given)] \in Byte
  OBVIOUS
<1>3. client' \in [us : BOOLEAN, him : BOOLEAN, com_port : BOOLEAN,
                   mode : {"data", "iac", "sb", "sbiac"}, cr : BOOLEAN,
                   last : {"nothing", "data", "answer"}]
  BY <1>0, <1>1 DEF TypeOK
<1>4. item' \in [given : Seq(Byte), got : Seq(Byte), fair : BOOLEAN]
  BY DEF SendsToClient
<1>5. TypeOK'
  BY <1>0, <1>1, <1>2, <1>3 DEF TypeOK, Groups, Group, inVars, parser
<1>6. ItemType'
  BY <1>0, <1>1, <1>4 DEF ItemType, inVars
<1>7. ParserInv'
  BY <1>0, <1>1 DEF ParserInv, InOption, InHead, InFixed, InSignature, CommandLength,
                    inVars, parser
<1>. QED  BY <1>5, <1>6, <1>7 DEF TypeInv

LEMMA TypeSends ==
    ASSUME TypeInv, NEW groups \in Groups, NEW data \in Seq(Byte),
           NEW cmds \in Seq(Seq(Nat)), Sends(groups, data, cmds),
           client' \in [us : BOOLEAN, him : BOOLEAN, com_port : BOOLEAN,
                        mode : {"data", "iac", "sb", "sbiac"}, cr : BOOLEAN,
                        last : {"nothing", "data", "answer"}],
           pristine' \in BOOLEAN, steady' \in 0 .. Heal
    PROVE  TypeInv'
<1>0. TypeOK /\ ItemType /\ ParserInv
  BY DEF TypeInv
<1>1. /\ wire' = groups /\ toDev' = <<>> /\ heard' = <<>>
      /\ UNCHANGED <<parser, outVars, tnstate, side>>
      /\ msg' = [data |-> data, cmds |-> cmds, insync |-> pristine \/ steady = Heal]
  BY DEF Sends
<1>2. msg' \in [data : Seq(Byte), cmds : Seq(Seq(Nat)), insync : BOOLEAN]
  BY <1>0, <1>1 DEF TypeOK
<1>3. toDev' \in Seq(Byte) /\ heard' \in Seq(Seq(Nat))
  BY <1>1
<1>4. TypeOK'
  BY <1>0, <1>1, <1>3 DEF TypeOK, Groups, Group, outVars, parser
<1>5. ItemType'
  BY <1>0, <1>1, <1>2, <1>3 DEF ItemType, outVars
<1>6. ParserInv'
  BY <1>0, <1>1 DEF ParserInv, InOption, InHead, InFixed, InSignature, CommandLength,
                    parser
<1>. QED  BY <1>4, <1>5, <1>6 DEF TypeInv

LEMMA BytesNat ==
    ASSUME NEW s \in Seq(Byte)
    PROVE  s \in Seq(Nat)
<1>1. Byte \subseteq Nat
  BY DEF Byte
<1>. QED  BY <1>1, SeqMonotonic

LEMMA MinKept ==
    ASSUME NEW n \in Nat
    PROVE  Min({n, SizeofIACCommand}) = Kept(n) /\ Kept(n) \in Nat
<1>1. SizeofIACCommand \in Nat
  BY CodecAssumption
<1>. DEFINE S == {n, SizeofIACCommand}
            m == Kept(n)
<1>2. m \in S /\ m \in Nat /\ \A y \in S : m <= y
  BY <1>1 DEF Kept
<1>3. \A x \in S : (\A y \in S : x <= y) => x = m
  BY <1>1, <1>2
<1>. HIDE DEF m
<1>. QED  BY <1>2, <1>3 DEF Min, m

LEMMA DataType ==
    ASSUME NEW d \in BoundedSeq(Data, MaxData)
    PROVE  d \in Seq(Byte)
<1>1. d \in Seq(Data)
  BY DEF BoundedSeq, SeqOf
<1>2. ASSUME NEW i \in 1 .. Len(d) PROVE d[i] \in Byte
  <2>1. d[i] \in Data
    BY <1>1
  <2>. QED  BY <2>1, CodecAssumption
<1>3. Len(d) \in Nat
  BY <1>1
<1>. QED  BY <1>1, <1>2, <1>3

\* The commands and the answers, with their parameters.
LEMMA CommandTypes ==
    /\ \A p \in Parameter : <<p>> \in Seq(Byte)
    /\ \A r \in Rate : r \in Seq(Byte) /\ Len(r) = 4
    /\ \A t \in Text : t \in Seq(Byte)
    /\ Signature \in Seq(Byte)
<1>1. \A p \in Parameter : <<p>> \in Seq(Byte)
  BY CodecAssumption
<1>2. ASSUME NEW r \in Rate PROVE r \in Seq(Byte) /\ Len(r) = 4
  <2>1. r \in [1 .. 4 -> Byte]
    BY CodecAssumption
  <2>2. r \in Seq(Byte)
    <3>1. Seq(Byte) = UNION {[1 .. n -> Byte] : n \in Nat}
      BY SeqDef
    <3>2. [1 .. 4 -> Byte] \in {[1 .. n -> Byte] : n \in Nat}
      OBVIOUS
    <3>. QED  BY <2>1, <3>1, <3>2, Zenon
  <2>3. DOMAIN r = 1 .. 4 /\ DOMAIN r = 1 .. Len(r) /\ Len(r) \in Nat
    BY <2>1, <2>2, LenProperties
  <2>. QED  BY <2>2, <2>3
<1>3. \A t \in Text \cup {Signature} : t \in Seq(Byte)
  BY CodecAssumption
<1>4. Signature \in Seq(Byte)
  BY <1>3
<1>5. \A t \in Text : t \in Seq(Byte)
  BY <1>3
<1>. QED  BY <1>1, <1>2, <1>4, <1>5

LEMMA ParTypes ==
    ASSUME NEW q \in Commands
    PROVE  q[1] \in Byte /\ q[2] \in Seq(Byte)
<1>1. <<>> \in Seq(Byte)
  OBVIOUS
<1>2. \E code \in Byte, par \in Seq(Byte) : q = <<code, par>>
  BY <1>1, CommandTypes, Bytes DEF Commands
<1>. QED  BY <1>2

LEMMA AnswerTypes ==
    ASSUME NEW q \in Answers
    PROVE  q[1] \in Byte /\ q[2] \in Seq(Byte)
<1>1. \E code \in Byte, par \in Seq(Byte) : q = <<code, par>>
  BY CommandTypes, Bytes DEF Answers
<1>. QED  BY <1>1

LEMMA SendStrIs ==
    ASSUME NEW str
    PROVE  SendStr(str) = Written(str, txLast)
BY DEF SendStr, Written

LEMMA TypeDevice ==
    ASSUME TypeInv, NEW c \in Data, DeviceByte(c)
    PROVE  TypeInv'
<1>1. c \in Byte /\ txLast \in Byte
  BY CodecAssumption DEF TypeInv, TypeOK
<1>. DEFINE str == <<c>>
<1>2. str \in Seq(Byte) /\ str # <<>>
  BY <1>1
<1>. HIDE DEF str
<1>3. SendStr(str) \in Groups
  BY <1>1, <1>2, SendStrIs, WriteGroups
<1>4. SendsToClient(str, SendStr(str), "data")
  BY DEF DeviceByte, str
<1>. QED  BY <1>2, <1>3, <1>4, TypeToClient

LEMMA AnswerParts ==
    ASSUME NEW code \in Byte, NEW par \in Seq(Byte)
    PROVE  LET given == <<COM_PORT, code>> \o par
           IN  /\ given \in Seq(Byte) /\ given # <<>> /\ Len(given) = Len(par) + 2
               /\ given[1] = COM_PORT /\ given[2] = code
               /\ \A i \in 1 .. Len(par) : given[i + 2] = par[i]
<1>. DEFINE h == <<COM_PORT, code>>
            given == h \o par
<1>1. h \in Seq(Byte) /\ Len(h) = 2 /\ h[1] = COM_PORT /\ h[2] = code
  BY Bytes
<1>. HIDE DEF h
<1>2. /\ given \in Seq(Byte) /\ Len(given) = Len(h) + Len(par)
      /\ \A i \in 1 .. Len(h) + Len(par) :
            given[i] = IF i <= Len(h) THEN h[i] ELSE par[i - Len(h)]
  BY <1>1, ConcatProperties
<1>. HIDE DEF given
<1>3. Len(par) \in Nat
  OBVIOUS
<1>4. Len(given) = Len(par) + 2 /\ given # <<>>
  BY <1>1, <1>2, <1>3
<1>5. given[1] = COM_PORT /\ given[2] = code
  BY <1>1, <1>2, <1>3
<1>6. ASSUME NEW i \in 1 .. Len(par) PROVE given[i + 2] = par[i]
  <2>1. /\ i + 2 \in 1 .. Len(h) + Len(par) /\ ~(i + 2 <= Len(h)) /\ i + 2 - Len(h) = i
    BY <1>1, <1>3
  <2>. QED  BY <2>1, <1>2
<1>. QED  BY <1>2, <1>4, <1>5, <1>6 DEF given, h

LEMMA TypeAnswer ==
    ASSUME TypeInv, NEW code \in Byte, NEW par \in Seq(Byte), Answer(code, par)
    PROVE  TypeInv'
<1>1. txLast \in Byte
  BY DEF TypeInv, TypeOK
<1>. DEFINE given == <<COM_PORT, code>> \o par
            groups == Suboption(code, SendStr(par))
<1>2. given \in Seq(Byte) /\ given # <<>>
  BY AnswerParts
<1>3. SendStr(par) \in Groups
  BY <1>1, SendStrIs, WriteGroups
<1>4. groups \in Groups
  BY <1>3, SubGroups
<1>5. SendsToClient(given, groups, "answer")
  BY DEF Answer
<1>. HIDE DEF given, groups
<1>. QED  BY <1>2, <1>4, <1>5, TypeToClient

ClientType ==
    [us : BOOLEAN, him : BOOLEAN, com_port : BOOLEAN,
     mode : {"data", "iac", "sb", "sbiac"}, cr : BOOLEAN,
     last : {"nothing", "data", "answer"}]

LEMMA TypeSwitch ==
    ASSUME TypeInv, NEW binary \in BOOLEAN, SwitchMode(binary)
    PROVE  TypeInv'
<1>0. TypeOK /\ ItemType /\ ParserInv
  BY DEF TypeInv
<1>1. /\ tnstate' = [tnstate EXCEPT !.is_will = binary]
      /\ client' = [client EXCEPT !.him = binary]
      /\ item' = NoItem
      /\ UNCHANGED <<inVars, txLast, toClient, side>>
  BY DEF SwitchMode
<1>2. client' \in ClientType
  BY <1>0, <1>1 DEF TypeOK, ClientType
<1>3. tnstate' \in [is_do : BOOLEAN, is_will : BOOLEAN, com_port : BOOLEAN]
  BY <1>0, <1>1 DEF TypeOK
<1>4. TypeOK'
  BY <1>0, <1>1, <1>2, <1>3 DEF TypeOK, inVars, parser, ClientType
<1>5. ItemType'
  BY <1>0, <1>1 DEF ItemType, NoItem, inVars
<1>6. ParserInv'
  BY <1>0, <1>1 DEF ParserInv, InOption, InHead, InFixed, InSignature, CommandLength,
                    inVars, parser
<1>. QED  BY <1>4, <1>5, <1>6 DEF TypeInv

LEMMA TypeReconnect ==
    ASSUME TypeInv, Reconnect
    PROVE  TypeInv'
<1>0. TypeOK /\ ItemType /\ ParserInv
  BY DEF TypeInv
<1>1. /\ wire' = <<>> /\ toClient' = <<>>
      /\ msg' = NoMsg /\ toDev' = <<>> /\ heard' = <<>> /\ item' = NoItem
      /\ client' = NewClient /\ steady' = 0
      /\ UNCHANGED <<parser, txLast, side>>
  BY DEF Reconnect
<1>2. tnstate' \in [is_do : BOOLEAN, is_will : BOOLEAN, com_port : BOOLEAN]
  BY DEF Reconnect
<1>3. client' \in ClientType
  BY <1>1 DEF NewClient, ClientType
<1>4. pristine' \in BOOLEAN /\ steady' \in 0 .. Heal
  BY <1>1 DEF Reconnect, Heal
<1>5. wire' \in Groups /\ toClient' \in Groups /\ toDev' \in Seq(Byte)
  BY <1>1 DEF Groups
<1>6. TypeOK'
  BY <1>0, <1>1, <1>2, <1>3, <1>4, <1>5 DEF TypeOK, parser, ClientType, Groups, Group
<1>7. ItemType'
  BY <1>0, <1>1 DEF ItemType, NoItem, NoMsg
<1>8. ParserInv'
  BY <1>0, <1>1 DEF ParserInv, InOption, InHead, InFixed, InSignature, CommandLength,
                    parser
<1>. QED  BY <1>6, <1>7, <1>8 DEF TypeInv

LEMMA SteadyType ==
    ASSUME TypeOK
    PROVE  /\ client \in ClientType /\ pristine \in BOOLEAN /\ steady \in 0 .. Heal
           /\ StartsOver => steady' \in 0 .. Heal
BY DEF TypeOK, StartsOver, Heal, ClientType

LEMMA TypeData ==
    ASSUME TypeInv, NEW d \in Seq(Byte), ClientData(d)
    PROVE  TypeInv'
<1>0. TypeOK
  BY DEF TypeInv
<1>. DEFINE groups == ClientEscapes(d, client.us)
<1>1. Sends(groups, d, <<>>) /\ StartsOver /\ UNCHANGED <<client, pristine>>
  BY DEF ClientData
<1>2. client.us \in BOOLEAN
  BY <1>0 DEF TypeOK
<1>3. groups \in Groups
  BY <1>2, EscapeGroups
<1>. HIDE DEF groups
<1>4. client' \in ClientType /\ pristine' \in BOOLEAN /\ steady' \in 0 .. Heal
  BY <1>0, <1>1, SteadyType
<1>. DEFINE cmds == <<>>
<1>5. cmds \in Seq(Seq(Nat))
  OBVIOUS
<1>6. Sends(groups, d, cmds)
  BY <1>1
<1>. HIDE DEF cmds
<1>. QED  BY <1>3, <1>4, <1>5, <1>6, TypeSends DEF ClientType

LEMMA OptionType ==
    ASSUME NEW cmd \in Cmds, NEW opt \in Opts
    PROVE  /\ cmd \in Byte /\ opt \in Byte /\ cmd # IAC /\ cmd # SB /\ opt # IAC
           /\ <<<<IAC, cmd, opt>>>> \in Groups
           /\ <<<<cmd, opt>>>> \in Seq(Seq(Nat))
<1>1. cmd \in Byte /\ opt \in Byte
  BY Bytes DEF Cmds, Opts
<1>2. cmd # IAC /\ cmd # SB /\ opt # IAC
  BY DEF Cmds, Opts, WILL, WONT, DO, DONT, BINARY, COM_PORT, IAC, SB
<1>3. <<IAC, cmd, opt>> \in Group
  BY <1>1, Bytes, TupleGroups
<1>4. <<<<IAC, cmd, opt>>>> \in Groups
  BY <1>3 DEF Groups
<1>5. <<cmd, opt>> \in Seq(Nat)
  <2>1. cmd \in Nat /\ opt \in Nat
    BY <1>1 DEF Byte
  <2>. QED  BY <2>1
<1>6. <<<<cmd, opt>>>> \in Seq(Seq(Nat))
  BY <1>5
<1>. QED  BY <1>1, <1>2, <1>4, <1>6

LEMMA TypeOption ==
    ASSUME TypeInv, NEW cmd \in Cmds, NEW opt \in Opts, ClientOption(cmd, opt)
    PROVE  TypeInv'
<1>0. TypeOK
  BY DEF TypeInv
<1>. DEFINE groups == <<<<IAC, cmd, opt>>>>
            data == <<>>
            cmds == <<<<cmd, opt>>>>
<1>1. Sends(groups, data, cmds) /\ UNCHANGED pristine
  BY DEF ClientOption
<1>2. groups \in Groups /\ cmds \in Seq(Seq(Nat)) /\ data \in Seq(Byte)
  BY OptionType
<1>. HIDE DEF groups, data, cmds
<1>3. client' \in ClientType
  BY <1>0, SteadyType DEF ClientOption, ClientType
<1>4. pristine' \in BOOLEAN /\ steady' \in 0 .. Heal
  BY <1>0, SteadyType DEF ClientOption, Heal
<1>. QED  BY <1>1, <1>2, <1>3, <1>4, TypeSends DEF ClientType

LEMMA SubType ==
    ASSUME NEW code \in Byte, NEW par \in Seq(Byte)
    PROVE  /\ Suboption(code, ClientEscapes(par, TRUE)) \in Groups
           /\ <<<<SB, code>> \o par>> \in Seq(Seq(Nat))
<1>1. ClientEscapes(par, TRUE) \in Groups
  BY EscapeCommand
<1>2. Suboption(code, ClientEscapes(par, TRUE)) \in Groups
  BY <1>1, SubGroups
<1>3. <<SB, code>> \in Seq(Byte)
  BY Bytes
<1>. DEFINE cmd == <<SB, code>> \o par
<1>4. cmd \in Seq(Byte)
  BY <1>3
<1>. HIDE DEF cmd
<1>5. cmd \in Seq(Nat)
  BY <1>4, BytesNat
<1>6. <<cmd>> \in Seq(Seq(Nat))
  BY <1>5
<1>. QED  BY <1>2, <1>6 DEF cmd

LEMMA TypeCommand ==
    ASSUME TypeInv, NEW code \in Byte, NEW par \in Seq(Byte), ClientCommand(code, par)
    PROVE  TypeInv'
<1>0. TypeOK
  BY DEF TypeInv
<1>. DEFINE groups == Suboption(code, ClientEscapes(par, TRUE))
            data == <<>>
            cmds == <<<<SB, code>> \o par>>
<1>1. Sends(groups, data, cmds) /\ UNCHANGED client
  BY DEF ClientCommand
<1>2. groups \in Groups /\ cmds \in Seq(Seq(Nat)) /\ data \in Seq(Byte)
  <2>1. groups \in Groups
    BY SubType
  <2>2. cmds \in Seq(Seq(Nat))
    BY SubType
  <2>3. data \in Seq(Byte)
    OBVIOUS
  <2>. QED  BY <2>1, <2>2, <2>3
<1>. HIDE DEF groups, data, cmds
<1>3. client' \in ClientType
  BY <1>0, <1>1, SteadyType
<1>4. pristine' \in BOOLEAN /\ steady' \in 0 .. Heal
  <2>1. \/ pristine' = FALSE /\ steady' = 0
        \/ StartsOver /\ pristine' = pristine
    BY DEF ClientCommand
  <2>2. 0 \in 0 .. Heal
    BY DEF Heal
  <2>3. pristine' \in BOOLEAN
    BY <2>1, <1>0, SteadyType, Zenon
  <2>4. steady' \in 0 .. Heal
    BY <2>1, <2>2, <1>0, SteadyType
  <2>. QED  BY <2>3, <2>4
<1>. QED  BY <1>1, <1>2, <1>3, <1>4, TypeSends DEF ClientType

LEMMA TypeSignature ==
    ASSUME TypeInv, NEW text \in Seq(Byte), ClientSignature(text)
    PROVE  TypeInv'
<1>0. TypeOK
  BY DEF TypeInv
<1>. DEFINE groups == Suboption(SIGNATURE, ClientEscapes(text, TRUE))
            data == <<>>
            cmds == <<<<SB, SIGNATURE, Min({Len(text) + 6, SizeofIACCommand})>>>>
<1>1. Sends(groups, data, cmds) /\ StartsOver /\ UNCHANGED <<client, pristine>>
  BY DEF ClientSignature
<1>2. groups \in Groups /\ data \in Seq(Byte)
  <2>1. groups \in Groups
    BY SubType, Bytes
  <2>2. data \in Seq(Byte)
    OBVIOUS
  <2>. QED  BY <2>1, <2>2
<1>3. cmds \in Seq(Seq(Nat))
  <2>1. Len(text) + 6 \in Nat
    OBVIOUS
  <2>2. Min({Len(text) + 6, SizeofIACCommand}) \in Nat
    BY <2>1, MinKept
  <2>3. SB \in Nat /\ SIGNATURE \in Nat
    BY DEF SB, SIGNATURE
  <2>. QED  BY <2>2, <2>3
<1>. HIDE DEF groups, data, cmds
<1>4. client' \in ClientType /\ pristine' \in BOOLEAN /\ steady' \in 0 .. Heal
  BY <1>0, <1>1, SteadyType
<1>. QED  BY <1>1, <1>2, <1>3, <1>4, TypeSends DEF ClientType

LEMMA TypeNop ==
    ASSUME TypeInv, ClientNop
    PROVE  TypeInv'
<1>0. TypeOK
  BY DEF TypeInv
<1>. DEFINE groups == <<<<IAC, NOP>>>>
            data == <<>>
            cmds == <<>>
<1>1. Sends(groups, data, cmds) /\ UNCHANGED client
  BY DEF ClientNop
<1>2. <<IAC, NOP>> \in Group
  BY Bytes, TupleGroups
<1>3. groups \in Groups /\ cmds \in Seq(Seq(Nat)) /\ data \in Seq(Byte)
  BY <1>2 DEF Groups
<1>. HIDE DEF groups, data, cmds
<1>4. client' \in ClientType
  BY <1>0, <1>1, SteadyType
<1>5. pristine' \in BOOLEAN /\ steady' \in 0 .. Heal
  <2>1. pristine' = FALSE /\ steady' = 0
    BY DEF ClientNop
  <2>2. steady' \in 0 .. Heal
    BY <2>1 DEF Heal
  <2>. QED  BY <2>1, <2>2
<1>. QED  BY <1>1, <1>3, <1>4, <1>5, TypeSends DEF ClientType

LEMMA TypeStutter ==
    ASSUME TypeInv, UNCHANGED vars
    PROVE  TypeInv'
<1>1. TypeOK'
  BY DEF TypeInv, TypeOK, vars, inVars, outVars, parser
<1>2. ItemType'
  BY DEF TypeInv, ItemType, vars, inVars, outVars, parser
<1>3. ParserInv'
  BY DEF TypeInv, ParserInv, InOption, InHead, InFixed, InSignature, CommandLength,
         vars, inVars, parser
<1>. QED  BY <1>1, <1>2, <1>3 DEF TypeInv

\* The steps of the specification, with the types of what is chosen.
LEMMA Steps ==
    ASSUME [Next]_vars
    PROVE  \/ EscRedirectChar \/ ClientReads
           \/ \E c \in Data : DeviceByte(c)
           \/ \E q \in Answers : Answer(q[1], q[2])
           \/ \E binary \in BOOLEAN : SwitchMode(binary)
           \/ \E d \in Seq(Byte) : ClientData(d)
           \/ \E cmd \in Cmds, opt \in Opts : ClientOption(cmd, opt)
           \/ \E q \in Commands : ClientCommand(q[1], q[2])
           \/ \E t \in Text : ClientSignature(t)
           \/ ClientNop \/ Reconnect \/ UNCHANGED vars
<1>1. ASSUME NEW p \in Parameter
      PROVE  /\ <<MODEMSTATE_MASK + ASC, <<p>>>> \in Answers
             /\ <<MODEMSTATE_MASK, <<p>>>> \in Commands
  BY DEF Answers, Commands
<1>2. ASSUME NEW r \in Rate
      PROVE  <<BAUDRATE + ASC, r>> \in Answers /\ <<BAUDRATE, r>> \in Commands
  BY DEF Answers, Commands
<1>3. <<SIGNATURE + ASC, Signature>> \in Answers
  BY DEF Answers
<1>4. ASSUME NEW code \in {SUSPEND, RESUME} PROVE <<code, <<>>>> \in Commands
  BY DEF Commands
<1>5. CASE \E p \in Parameter : Answer(MODEMSTATE_MASK + ASC, <<p>>)
  <2>1. PICK p \in Parameter : Answer(MODEMSTATE_MASK + ASC, <<p>>)
    BY <1>5
  <2>. DEFINE q == <<MODEMSTATE_MASK + ASC, <<p>>>>
  <2>2. q \in Answers /\ Answer(q[1], q[2])
    BY <2>1, <1>1
  <2>. QED  BY <2>2
<1>6. CASE \E r \in Rate : Answer(BAUDRATE + ASC, r)
  <2>1. PICK r \in Rate : Answer(BAUDRATE + ASC, r)
    BY <1>6
  <2>. DEFINE q == <<BAUDRATE + ASC, r>>
  <2>2. q \in Answers /\ Answer(q[1], q[2])
    BY <2>1, <1>2
  <2>. QED  BY <2>2
<1>7. CASE Answer(SIGNATURE + ASC, Signature)
  <2>. DEFINE q == <<SIGNATURE + ASC, Signature>>
  <2>2. q \in Answers /\ Answer(q[1], q[2])
    BY <1>3, <1>7
  <2>. QED  BY <2>2
<1>8. CASE \E p \in Parameter : ClientCommand(MODEMSTATE_MASK, <<p>>)
  <2>1. PICK p \in Parameter : ClientCommand(MODEMSTATE_MASK, <<p>>)
    BY <1>8
  <2>. DEFINE q == <<MODEMSTATE_MASK, <<p>>>>
  <2>2. q \in Commands /\ ClientCommand(q[1], q[2])
    BY <2>1, <1>1
  <2>. QED  BY <2>2
<1>9. CASE \E r \in Rate : ClientCommand(BAUDRATE, r)
  <2>1. PICK r \in Rate : ClientCommand(BAUDRATE, r)
    BY <1>9
  <2>. DEFINE q == <<BAUDRATE, r>>
  <2>2. q \in Commands /\ ClientCommand(q[1], q[2])
    BY <2>1, <1>2
  <2>. QED  BY <2>2
<1>10. CASE \E code \in {SUSPEND, RESUME} : ClientCommand(code, <<>>)
  <2>1. PICK code \in {SUSPEND, RESUME} : ClientCommand(code, <<>>)
    BY <1>10
  <2>. DEFINE q == <<code, <<>>>>
  <2>2. q \in Commands /\ ClientCommand(q[1], q[2])
    BY <2>1, <1>4
  <2>. QED  BY <2>2
<1>11. CASE \E d \in BoundedSeq(Data, MaxData) : ClientData(d)
  BY <1>11, DataType
<1>12. CASE \E cmd \in {WILL, WONT, DO, DONT}, opt \in {BINARY, COM_PORT} :
                ClientOption(cmd, opt)
  BY <1>12 DEF Cmds, Opts
<1>. QED  BY <1>5, <1>6, <1>7, <1>8, <1>9, <1>10, <1>11, <1>12 DEF Next

LEMMA TypeNext ==
    ASSUME TypeInv, [Next]_vars
    PROVE  TypeInv'
<1>1. ASSUME NEW q \in Answers, Answer(q[1], q[2]) PROVE TypeInv'
  BY <1>1, AnswerTypes, TypeAnswer
<1>2. ASSUME NEW q \in Commands, ClientCommand(q[1], q[2]) PROVE TypeInv'
  BY <1>2, ParTypes, TypeCommand
<1>3. ASSUME NEW t \in Text, ClientSignature(t) PROVE TypeInv'
  BY <1>3, CommandTypes, TypeSignature
<1>. QED  BY <1>1, <1>2, <1>3, Steps, TypeRead, TypeClient, TypeDevice, TypeSwitch, TypeData,
             TypeOption, TypeNop, TypeReconnect, TypeStutter

LEMMA TypeInit ==
    ASSUME Init
    PROVE  TypeInv
<1>1. TypeOK
  BY CodecAssumption DEF Init, TypeOK, EscState, NewClient, Byte, Heal
<1>2. ItemType
  BY DEF Init, ItemType, NoItem, NoMsg
<1>3. ParserInv
  BY DEF Init, ParserInv
<1>. QED  BY <1>1, <1>2, <1>3 DEF TypeInv

----------------------------------------------------------------------------
(* What sercd sends, and the client reads.                                 *)

LEMMA PrefixGrows ==
    ASSUME NEW s \in Seq(Byte)
    PROVE  /\ SubSeq(s, 1, 0) = <<>> /\ SubSeq(s, 1, Len(s)) = s /\ Len(s) \in Nat
           /\ \A n \in 1 .. Len(s) :
                 SubSeq(s, 1, n - 1) \o <<s[n]>> = SubSeq(s, 1, n)
<1>1. SubSeq(s, 1, 0) = <<>>
  BY SubSeqEmpty
<1>2. SubSeq(s, 1, Len(s)) = s /\ Len(s) \in Nat
  BY SubSeqFull
<1>3. ASSUME NEW n \in 1 .. Len(s) PROVE SubSeq(s, 1, n - 1) \o <<s[n]>> = SubSeq(s, 1, n)
  <2>1. 1 \in 1 .. Len(s) /\ n \in 1 .. Len(s)
    BY <1>2
  <2>. QED  BY <2>1, SubSeqRecursiveSecond
<1>. QED  BY <1>1, <1>2, <1>3

\* What one byte makes of the client.
Becomes(mode, cr, out) ==
    /\ client'.mode = mode /\ client'.cr = cr
    /\ client'.last = client.last /\ client'.him = client.him
    /\ item'.given = item.given /\ item'.fair = item.fair
    /\ item'.got = out

LEMMA Gets ==
    ASSUME TypeInv, NEW mode, NEW cr, NEW out, ClientGets(mode, cr, out)
    PROVE  Becomes(mode, cr, item.got \o out)
<1>1. client \in ClientType
  BY DEF TypeInv, TypeOK, ClientType
<1>2. item \in [given : Seq(Byte), got : Seq(Byte), fair : BOOLEAN]
  BY DEF TypeInv, ItemType
<1>3. /\ client'.mode = mode /\ client'.cr = cr
      /\ client'.last = client.last /\ client'.him = client.him
  BY <1>1 DEF ClientGets, ClientType
<1>4. /\ item'.given = item.given /\ item'.fair = item.fair
      /\ item'.got = item.got \o out
  BY <1>2 DEF ClientGets
<1>. QED  BY <1>3, <1>4 DEF Becomes

LEMMA GetsNothing ==
    ASSUME TypeInv, NEW mode, NEW cr, ClientGets(mode, cr, <<>>)
    PROVE  Becomes(mode, cr, item.got)
<1>. DEFINE out == <<>>
<1>0. ClientGets(mode, cr, out)
  OBVIOUS
<1>. HIDE DEF out
<1>1. Becomes(mode, cr, item.got \o out)
  BY <1>0, Gets
<1>2. item.got \in Seq(Byte)
  BY DEF TypeInv, ItemType
<1>3. item.got \o out = item.got
  BY <1>2 DEF out
<1>. QED  BY <1>1, <1>3

LEMMA GetsOne ==
    ASSUME TypeInv, NEW mode, NEW cr, NEW c, ClientGets(mode, cr, <<c>>)
    PROVE  Becomes(mode, cr, item.got \o <<c>>)
<1>. DEFINE out == <<c>>
<1>0. ClientGets(mode, cr, out)
  OBVIOUS
<1>. HIDE DEF out
<1>1. Becomes(mode, cr, item.got \o out)
  BY <1>0, Gets
<1>. QED  BY <1>1 DEF out

LEMMA ClientTakes ==
    ASSUME TypeInv, NEW c, ClientByte(c)
    PROVE  /\ client.mode = "data" /\ c = IAC => Becomes("iac", client.cr, item.got)
           /\ client.mode = "data" /\ c # IAC =>
                 IF c = NUL /\ client.cr /\ ~client.him
                 THEN Becomes("data", FALSE, item.got)
                 ELSE Becomes("data", c = CR, item.got \o <<c>>)
           /\ client.mode = "iac" /\ c = SB => Becomes("sb", client.cr, item.got)
           /\ client.mode = "iac" /\ c # SB => Becomes("data", FALSE, item.got \o <<c>>)
           /\ client.mode = "sb" /\ c = IAC => Becomes("sbiac", client.cr, item.got)
           /\ client.mode = "sb" /\ c # IAC =>
                 Becomes("sb", client.cr, item.got \o <<c>>)
           /\ client.mode = "sbiac" /\ c = SE => Becomes("data", client.cr, item.got)
           /\ client.mode = "sbiac" /\ c # SE =>
                 Becomes("sb", client.cr, item.got \o <<c>>)
<1>1. CASE client.mode = "data"
  <2>1. IF c = IAC THEN ClientGets("iac", client.cr, <<>>)
        ELSE IF c = NUL /\ client.cr /\ ~client.him THEN ClientGets("data", FALSE, <<>>)
             ELSE ClientGets("data", c = CR, <<c>>)
    BY <1>1 DEF ClientByte
  <2>. QED  BY <1>1, <2>1, GetsNothing, GetsOne
<1>2. CASE client.mode = "iac"
  <2>1. IF c = SB THEN ClientGets("sb", client.cr, <<>>)
                  ELSE ClientGets("data", FALSE, <<c>>)
    BY <1>2 DEF ClientByte
  <2>. QED  BY <1>2, <2>1, GetsNothing, GetsOne
<1>3. CASE client.mode = "sb"
  <2>1. IF c = IAC THEN ClientGets("sbiac", client.cr, <<>>)
                   ELSE ClientGets("sb", client.cr, <<c>>)
    BY <1>3 DEF ClientByte
  <2>. QED  BY <1>3, <2>1, GetsNothing, GetsOne
<1>4. CASE client.mode = "sbiac"
  <2>1. IF c = SE THEN ClientGets("data", client.cr, <<>>)
                  ELSE ClientGets("sb", client.cr, <<c>>)
    BY <1>4 DEF ClientByte
  <2>. QED  BY <1>4, <2>1, GetsNothing, GetsOne
<1>5. client.mode \in {"data", "iac", "sb", "sbiac"}
  BY DEF TypeInv, TypeOK
<1>. QED  BY <1>1, <1>2, <1>3, <1>4, <1>5

LEMMA ClientStep ==
    ASSUME TypeInv, ClientReads
    PROVE  /\ toClient # <<>> /\ toClient' = ButFirstByte(toClient)
           /\ ClientByte(FirstByte(toClient))
           /\ toClient \in Groups /\ toClient' \in Groups
           /\ UNCHANGED <<txLast, tnstate, side>>
<1>1. /\ toClient # <<>> /\ toClient' = ButFirstByte(toClient)
      /\ ClientByte(FirstByte(toClient)) /\ UNCHANGED <<txLast, tnstate, side>>
  BY DEF ClientReads
<1>2. toClient \in Groups
  BY Typed
<1>. QED  BY <1>1, <1>2, ReadByte

LEMMA SingleBytes ==
    ASSUME NEW a \in Byte, NEW b \in Byte
    PROVE  /\ FirstByte(<<<<a>>>>) = a /\ ButFirstByte(<<<<a>>>>) = <<>>
           /\ FirstByte(<<<<a, b>>>>) = a /\ ButFirstByte(<<<<a, b>>>>) = <<<<b>>>>
           /\ <<<<a>>>> # <<>>
<1>. DEFINE r == <<a>>
            s == <<a, b>>
<1>1. r \in Group /\ Len(r) = 1 /\ r[1] = a
  BY TupleGroups
<1>2. s \in Group /\ Len(s) # 1 /\ s[1] = a /\ Tail(s) = <<b>>
  BY TupleGroups
<1>. HIDE DEF r, s
<1>3. <<r>> # <<>> /\ FirstByte(<<r>>) = r[1] /\ ButFirstByte(<<r>>) = <<>>
  BY <1>1, Single
<1>4. FirstByte(<<s>>) = s[1] /\ ButFirstByte(<<s>>) = <<Tail(s)>>
  BY <1>2, Single
<1>5. <<r>> = <<<<a>>>> /\ <<s>> = <<<<a, b>>>>
  BY DEF r, s
<1>. QED  BY <1>1, <1>2, <1>3, <1>4, <1>5

LEMMA OutData ==
    ASSUME TypeInv, ClientReads, DataOut
    PROVE  IF toClient' = <<>> THEN OutSettled' ELSE DataOut'
<1>1. PICK c \in Byte :
        /\ item.given = <<c>> /\ txLast = c /\ client.last = "data"
        /\ \/ /\ toClient = <<<<IAC, IAC>>>> /\ client.mode = "data" /\ c = IAC
              /\ item.got = <<>>
           \/ /\ toClient = <<<<IAC>>>> /\ client.mode = "iac" /\ c = IAC
              /\ item.got = <<>>
           \/ /\ toClient = <<<<NUL, c>>>> /\ client.mode = "data" /\ c # IAC
              /\ item.got = <<>> /\ ~client.him /\ (item.fair => client.cr)
           \/ /\ toClient = <<<<c>>>> /\ client.mode = "data" /\ c # IAC
              /\ item.fair => /\ item.got = <<>>
                              /\ c = NUL /\ client.cr => client.him
  BY DEF DataOut
<1>2. /\ toClient' = ButFirstByte(toClient) /\ ClientByte(FirstByte(toClient))
      /\ UNCHANGED txLast
  BY ClientStep
<1>3. IAC # SB /\ IAC # CR /\ NUL # IAC /\ NUL # CR
  BY DEF IAC, SB, CR, NUL
<1>4. <<>> \o <<c>> = <<c>>
  OBVIOUS
<1>5. CASE toClient = <<<<IAC, IAC>>>> /\ client.mode = "data" /\ c = IAC /\ item.got = <<>>
  <2>1. FirstByte(toClient) = IAC /\ toClient' = <<<<IAC>>>> /\ <<<<IAC>>>> # <<>>
    BY <1>2, <1>5, SingleBytes, Bytes
  <2>2. Becomes("iac", client.cr, item.got)
    BY <1>2, <1>5, <2>1, ClientTakes
  <2>3. DataOut'
    BY <1>1, <1>2, <1>5, <2>1, <2>2 DEF DataOut, Becomes
  <2>. QED  BY <2>1, <2>3
<1>6. CASE toClient = <<<<IAC>>>> /\ client.mode = "iac" /\ c = IAC /\ item.got = <<>>
  <2>1. FirstByte(toClient) = IAC /\ toClient' = <<>>
    BY <1>2, <1>6, SingleBytes, Bytes
  <2>2. Becomes("data", FALSE, item.got \o <<c>>)
    BY <1>2, <1>3, <1>6, <2>1, ClientTakes
  <2>3. OutSettled'
    BY <1>1, <1>2, <1>3, <1>4, <1>6, <2>2 DEF OutSettled, Becomes
  <2>. QED  BY <2>1, <2>3
<1>7. CASE /\ toClient = <<<<NUL, c>>>> /\ client.mode = "data" /\ c # IAC
           /\ item.got = <<>> /\ ~client.him /\ (item.fair => client.cr)
  <2>1. FirstByte(toClient) = NUL /\ toClient' = <<<<c>>>> /\ <<<<c>>>> # <<>>
    BY <1>2, <1>7, SingleBytes, Bytes
  <2>2. IF client.cr THEN Becomes("data", FALSE, item.got)
                     ELSE Becomes("data", NUL = CR, item.got \o <<NUL>>)
    BY <1>2, <1>3, <1>7, <2>1, ClientTakes
  <2>3. /\ client'.mode = "data" /\ client'.last = "data" /\ client'.him = client.him
        /\ item'.given = <<c>> /\ item'.fair = item.fair /\ txLast' = c
    BY <1>1, <1>2, <2>2 DEF Becomes
  <2>4. item'.fair => item'.got = <<>> /\ client'.cr = FALSE
    BY <1>7, <2>2 DEF Becomes
  <2>5. DataOut'
    BY <1>7, <2>1, <2>3, <2>4 DEF DataOut
  <2>. QED  BY <2>1, <2>5
<1>8. CASE /\ toClient = <<<<c>>>> /\ client.mode = "data" /\ c # IAC
           /\ item.fair => /\ item.got = <<>>
                           /\ c = NUL /\ client.cr => client.him
  <2>1. FirstByte(toClient) = c /\ toClient' = <<>>
    BY <1>2, <1>8, SingleBytes
  <2>2. IF c = NUL /\ client.cr /\ ~client.him
        THEN Becomes("data", FALSE, item.got)
        ELSE Becomes("data", c = CR, item.got \o <<c>>)
    BY <1>2, <1>8, <2>1, ClientTakes
  <2>3. /\ client'.mode = "data" /\ item'.given = <<c>> /\ item'.fair = item.fair
        /\ txLast' = c
    BY <1>1, <1>2, <2>2 DEF Becomes
  <2>4. client'.cr <=> c = CR
    BY <1>3, <2>2 DEF Becomes
  <2>5. item'.fair => item'.got = <<c>>
    BY <1>4, <1>8, <2>2 DEF Becomes
  <2>6. OutSettled'
    BY <2>3, <2>4, <2>5 DEF OutSettled
  <2>. QED  BY <2>1, <2>6
<1>. QED  BY <1>1, <1>5, <1>6, <1>7, <1>8

LEMMA GotSame ==
    ASSUME TypeInv, NEW mode, NEW cr, Becomes(mode, cr, item.got), NEW n, Got(n)
    PROVE  Got(n)'
BY DEF Becomes, Got

LEMMA GotMore ==
    ASSUME TypeInv, NEW mode, NEW cr, NEW c, Becomes(mode, cr, item.got \o <<c>>),
           NEW n \in Nat, Got(n), n + 1 <= Len(item.given), item.given[n + 1] = c
    PROVE  Got(n + 1)'
<1>1. item.given \in Seq(Byte) /\ Len(item.given) \in Nat
  BY DEF TypeInv, ItemType
<1>2. n + 1 \in 1 .. Len(item.given) /\ (n + 1) - 1 = n
  BY <1>1
<1>3. SubSeq(item.given, 1, n) \o <<c>> = SubSeq(item.given, 1, n + 1)
  BY <1>1, <1>2, PrefixGrows
<1>. QED  BY <1>3 DEF Got, Becomes

\* The groups of an answer.
AnswerGroups(g, code, par) ==
    /\ g \in Groups /\ Len(g) = Len(par) + 2
    /\ g[1] = <<IAC, SB, COM_PORT, code>>
    /\ \A i \in 1 .. Len(par) :
          \/ g[i + 1] = <<IAC, IAC>> /\ par[i] = IAC
          \/ g[i + 1] = <<NUL, par[i]>> /\ par[i] # IAC
          \/ g[i + 1] = <<par[i]>> /\ par[i] # IAC
    /\ g[Len(par) + 2] = <<IAC, SE>>

LEMMA OutAnswerHead ==
    ASSUME TypeInv, ClientReads, NEW code \in Byte, code # IAC, NEW par \in Seq(Byte),
           NEW g, AnswerGroups(g, code, par), item.given = <<COM_PORT, code>> \o par,
           \/ /\ Left(toClient, g, 1, <<IAC, SB, COM_PORT, code>>)
              /\ client.mode = "data" /\ Got(0)
           \/ /\ Left(toClient, g, 1, <<SB, COM_PORT, code>>)
              /\ client.mode = "iac" /\ Got(0)
           \/ /\ Left(toClient, g, 1, <<COM_PORT, code>>)
              /\ client.mode = "sb" /\ Got(0)
           \/ /\ Left(toClient, g, 1, <<code>>)
              /\ client.mode = "sb" /\ Got(1)
    PROVE  toClient' # <<>> /\ AnswerPhase(code, par, g)'
<1>1. /\ toClient' = ButFirstByte(toClient) /\ ClientByte(FirstByte(toClient))
      /\ toClient \in Groups /\ toClient' \in Groups
  BY ClientStep
<1>2. g \in Groups /\ Len(g) = Len(par) + 2 /\ Len(par) \in Nat
  BY DEF AnswerGroups
<1>3. COM_PORT # IAC
  BY DEF COM_PORT, IAC
<1>4. item.given[1] = COM_PORT /\ item.given[2] = code /\ Len(item.given) = Len(par) + 2
  BY AnswerParts
<1>5. CASE /\ Left(toClient, g, 1, <<IAC, SB, COM_PORT, code>>)
           /\ client.mode = "data" /\ Got(0)
  <2>1. /\ FirstByte(toClient) = IAC /\ toClient' # <<>>
        /\ Left(toClient', g, 1, <<SB, COM_PORT, code>>)
    BY <1>1, <1>2, <1>5, Left4, Bytes
  <2>2. Becomes("iac", client.cr, item.got)
    BY <1>1, <1>5, <2>1, ClientTakes
  <2>3. client'.mode = "iac" /\ Got(0)'
    BY <1>5, <2>2, GotSame DEF Becomes
  <2>. QED  BY <2>1, <2>3 DEF AnswerPhase
<1>6. CASE /\ Left(toClient, g, 1, <<SB, COM_PORT, code>>)
           /\ client.mode = "iac" /\ Got(0)
  <2>1. /\ FirstByte(toClient) = SB /\ toClient' # <<>>
        /\ Left(toClient', g, 1, <<COM_PORT, code>>)
    BY <1>1, <1>2, <1>6, Left3, Bytes
  <2>2. Becomes("sb", client.cr, item.got)
    BY <1>1, <1>6, <2>1, ClientTakes
  <2>3. client'.mode = "sb" /\ Got(0)'
    BY <1>6, <2>2, GotSame DEF Becomes
  <2>. QED  BY <2>1, <2>3 DEF AnswerPhase
<1>7. CASE /\ Left(toClient, g, 1, <<COM_PORT, code>>)
           /\ client.mode = "sb" /\ Got(0)
  <2>1. /\ FirstByte(toClient) = COM_PORT /\ toClient' # <<>>
        /\ Left(toClient', g, 1, <<code>>)
    BY <1>1, <1>2, <1>7, Left2, Bytes
  <2>2. Becomes("sb", client.cr, item.got \o <<COM_PORT>>)
    BY <1>1, <1>3, <1>7, <2>1, ClientTakes
  <2>3. Got(0 + 1)'
    <3>1. 0 \in Nat /\ 0 + 1 <= Len(item.given) /\ item.given[0 + 1] = COM_PORT
      BY <1>2, <1>4
    <3>. QED  BY <1>7, <2>2, <3>1, GotMore
  <2>4. client'.mode = "sb" /\ Got(1)'
    BY <2>2, <2>3 DEF Becomes
  <2>. QED  BY <2>1, <2>4 DEF AnswerPhase
<1>8. CASE /\ Left(toClient, g, 1, <<code>>)
           /\ client.mode = "sb" /\ Got(1)
  <2>1. FirstByte(toClient) = code /\ Rest(toClient', g, 1 + 1)
    BY <1>1, <1>2, <1>8, Left1
  <2>2. Becomes("sb", client.cr, item.got \o <<code>>)
    BY <1>1, <1>8, <2>1, ClientTakes
  <2>3. Got(1 + 1)'
    <3>1. 1 \in Nat /\ 1 + 1 <= Len(item.given) /\ item.given[1 + 1] = code
      BY <1>2, <1>4
    <3>. QED  BY <1>8, <2>2, <3>1, GotMore
  <2>4. client'.mode = "sb" /\ Got(0 + 2)' /\ Rest(toClient', g, 0 + 2) /\ 0 \in 0 .. Len(par)
    BY <1>2, <2>1, <2>2, <2>3 DEF Becomes
  <2>5. toClient' # <<>>
    BY <1>1, <1>2, <2>4, RestLeft
  <2>. QED  BY <2>4, <2>5 DEF AnswerPhase
<1>. QED  BY <1>5, <1>6, <1>7, <1>8

LEMMA OutAnswerPar ==
    ASSUME TypeInv, ClientReads, NEW code \in Byte, NEW par \in Seq(Byte),
           NEW g, AnswerGroups(g, code, par), item.given = <<COM_PORT, code>> \o par,
           item.fair => \A i \in 1 .. Len(par) : Len(g[i + 1]) = 2 => par[i] = IAC,
           NEW j \in 0 .. Len(par),
           Rest(toClient, g, j + 2), client.mode = "sb", Got(j + 2)
    PROVE  toClient' # <<>> /\ AnswerPhase(code, par, g)'
<1>1. /\ toClient' = ButFirstByte(toClient) /\ ClientByte(FirstByte(toClient))
      /\ toClient \in Groups /\ toClient' \in Groups
  BY ClientStep
<1>2. g \in Groups /\ Len(g) = Len(par) + 2 /\ Len(par) \in Nat /\ j \in Nat
  BY DEF AnswerGroups
<1>3. Left(toClient, g, j + 2, g[j + 2])
  BY <1>1, <1>2, RestLeft
<1>4. NUL # IAC
  BY DEF NUL, IAC
<1>5. CASE j = Len(par)
  <2>1. g[j + 2] = <<IAC, SE>>
    BY <1>5 DEF AnswerGroups
  <2>2. /\ FirstByte(toClient) = IAC /\ toClient' # <<>>
        /\ Left(toClient', g, j + 2, <<SE>>)
    BY <1>1, <1>2, <1>3, <2>1, Left2, Bytes
  <2>3. Becomes("sbiac", client.cr, item.got)
    BY <1>1, <2>2, ClientTakes
  <2>4. client'.mode = "sbiac" /\ Got(Len(par) + 2)'
    BY <1>5, <2>3, GotSame DEF Becomes
  <2>. QED  BY <1>5, <2>2, <2>4 DEF AnswerPhase
<1>6. CASE j # Len(par)
  <2>. DEFINE i == j + 1
  <2>1. i \in 1 .. Len(par) /\ i + 1 = j + 2 /\ i \in 0 .. Len(par) /\ i + 2 = (j + 2) + 1
    BY <1>2, <1>6
  <2>2. Left(toClient, g, i + 1, g[i + 1]) /\ Got(i + 1)
    BY <1>3, <2>1
  <2>. HIDE DEF i
  <2>3. par[i] \in Byte
    BY <2>1
  <2>4. CASE g[i + 1] = <<IAC, IAC>> /\ par[i] = IAC
    <3>1. /\ FirstByte(toClient) = IAC /\ toClient' # <<>>
          /\ Left(toClient', g, i + 1, <<IAC>>)
      BY <1>1, <1>2, <2>2, <2>4, Left2, Bytes
    <3>2. Becomes("sbiac", client.cr, item.got)
      BY <1>1, <3>1, ClientTakes
    <3>3. client'.mode = "sbiac" /\ Got(i + 1)' /\ Left(toClient', g, i + 1, <<par[i]>>)
      BY <2>2, <2>4, <3>1, <3>2, GotSame DEF Becomes
    <3>. QED  BY <2>1, <2>4, <3>1, <3>3 DEF AnswerPhase
  <2>5. CASE g[i + 1] = <<NUL, par[i]>> /\ par[i] # IAC
    <3>1. /\ FirstByte(toClient) = NUL /\ toClient' # <<>>
          /\ Left(toClient', g, i + 1, <<par[i]>>)
      BY <1>1, <1>2, <2>2, <2>3, <2>5, Left2, Bytes
    <3>2. Becomes("sb", client.cr, item.got \o <<NUL>>)
      BY <1>1, <1>4, <3>1, ClientTakes
    <3>3. ~item.fair
      <4>1. Len(g[i + 1]) = 2
        BY <2>5
      <4>. QED  BY <4>1, <2>1, <2>5
    <3>4. client'.mode = "sb" /\ Got(i + 1)'
      BY <3>2, <3>3 DEF Becomes, Got
    <3>. QED  BY <2>1, <2>5, <3>1, <3>4 DEF AnswerPhase
  <2>6. CASE g[i + 1] = <<par[i]>> /\ par[i] # IAC
    <3>1. FirstByte(toClient) = par[i] /\ Rest(toClient', g, (i + 1) + 1)
      BY <1>1, <1>2, <2>2, <2>3, <2>6, Left1
    <3>2. Becomes("sb", client.cr, item.got \o <<par[i]>>)
      BY <1>1, <2>6, <3>1, ClientTakes
    <3>3. Got((i + 1) + 1)'
      <4>1. /\ i + 1 \in Nat /\ (i + 1) + 1 <= Len(item.given)
            /\ item.given[(i + 1) + 1] = par[i]
        <5>1. Len(item.given) = Len(par) + 2 /\ item.given[i + 2] = par[i]
          BY <2>1, AnswerParts
        <5>2. (i + 1) + 1 = i + 2 /\ i + 1 \in Nat /\ i + 2 <= Len(par) + 2
          BY <1>2, <2>1
        <5>. QED  BY <5>1, <5>2
      <4>. QED  BY <2>2, <3>2, <4>1, GotMore
    <3>4. client'.mode = "sb" /\ Got(i + 2)' /\ Rest(toClient', g, i + 2)
      <4>1. (i + 1) + 1 = i + 2
        BY <2>1
      <4>. QED  BY <3>1, <3>2, <3>3, <4>1 DEF Becomes
    <3>5. toClient' # <<>>
      <4>1. i + 2 # Len(g) + 1
        BY <2>1, <1>2
      <4>. QED  BY <1>1, <1>2, <3>4, <4>1, RestLeft
    <3>. QED  BY <2>1, <3>4, <3>5 DEF AnswerPhase
  <2>. QED  BY <2>1, <2>4, <2>5, <2>6 DEF AnswerGroups
<1>. QED  BY <1>5, <1>6

LEMMA OutAnswerEsc ==
    ASSUME TypeInv, ClientReads, NEW code \in Byte, NEW par \in Seq(Byte),
           NEW g, AnswerGroups(g, code, par), item.given = <<COM_PORT, code>> \o par,
           NEW j \in 1 .. Len(par), Left(toClient, g, j + 1, <<par[j]>>),
           client.mode = IF par[j] = IAC THEN "sbiac" ELSE "sb", Got(j + 1)
    PROVE  toClient' # <<>> /\ AnswerPhase(code, par, g)'
<1>1. /\ toClient' = ButFirstByte(toClient) /\ ClientByte(FirstByte(toClient))
      /\ toClient \in Groups /\ toClient' \in Groups
  BY ClientStep
<1>2. g \in Groups /\ Len(g) = Len(par) + 2 /\ Len(par) \in Nat /\ j \in Nat
  BY DEF AnswerGroups
<1>3. par[j] \in Byte /\ IAC # SE
  BY DEF IAC, SE
<1>4. FirstByte(toClient) = par[j] /\ Rest(toClient', g, (j + 1) + 1)
  BY <1>1, <1>2, <1>3, Left1
<1>5. Becomes("sb", client.cr, item.got \o <<par[j]>>)
  BY <1>1, <1>3, <1>4, ClientTakes
<1>6. (j + 1) + 1 = j + 2 /\ j + 2 # Len(g) + 1 /\ j \in 0 .. Len(par)
  BY <1>2
<1>7. Got((j + 1) + 1)'
  <2>1. /\ j + 1 \in Nat /\ (j + 1) + 1 <= Len(item.given)
        /\ item.given[(j + 1) + 1] = par[j]
    <3>1. Len(item.given) = Len(par) + 2 /\ item.given[j + 2] = par[j]
      BY AnswerParts
    <3>2. j + 1 \in Nat /\ j + 2 <= Len(par) + 2
      BY <1>2
    <3>. QED  BY <3>1, <3>2, <1>6
  <2>. QED  BY <1>5, <2>1, GotMore
<1>8. client'.mode = "sb" /\ Got(j + 2)' /\ Rest(toClient', g, j + 2)
  BY <1>4, <1>5, <1>6, <1>7 DEF Becomes
<1>9. toClient' # <<>>
  BY <1>1, <1>2, <1>6, <1>8, RestLeft
<1>. QED  BY <1>6, <1>8, <1>9 DEF AnswerPhase

LEMMA OutAnswerEnd ==
    ASSUME TypeInv, ClientReads, NEW code \in Byte, NEW par \in Seq(Byte),
           NEW g, AnswerGroups(g, code, par), item.given = <<COM_PORT, code>> \o par,
           client.last = "answer",
           Left(toClient, g, Len(par) + 2, <<SE>>), client.mode = "sbiac", Got(Len(par) + 2)
    PROVE  toClient' = <<>> /\ OutSettled'
<1>1. /\ toClient' = ButFirstByte(toClient) /\ ClientByte(FirstByte(toClient))
      /\ toClient \in Groups /\ toClient' \in Groups
  BY ClientStep
<1>2. g \in Groups /\ Len(g) = Len(par) + 2 /\ Len(par) \in Nat
  BY DEF AnswerGroups
<1>3. FirstByte(toClient) = SE /\ Rest(toClient', g, Len(g) + 1)
  BY <1>1, <1>2, Left1, Bytes
<1>4. toClient' = <<>>
  BY <1>1, <1>2, <1>3, RestEnd
<1>5. Becomes("data", client.cr, item.got)
  BY <1>1, <1>3, ClientTakes
<1>6. SubSeq(item.given, 1, Len(par) + 2) = item.given
  <2>1. Len(item.given) = Len(par) + 2 /\ item.given \in Seq(Byte)
    BY AnswerParts
  <2>. QED  BY <2>1, PrefixGrows
<1>7. Got(Len(par) + 2)'
  BY <1>5, GotSame
<1>8. item'.fair => item'.got = item'.given
  BY <1>5, <1>6, <1>7 DEF Becomes, Got
<1>. QED  BY <1>4, <1>5, <1>8 DEF OutSettled, Becomes

LEMMA OutAnswerStep ==
    ASSUME TypeInv, ClientReads, NEW code \in Byte, code # IAC, NEW par \in Seq(Byte),
           NEW g, AnswerGroups(g, code, par), item.given = <<COM_PORT, code>> \o par,
           client.last = "answer",
           item.fair => \A i \in 1 .. Len(par) : Len(g[i + 1]) = 2 => par[i] = IAC,
           AnswerPhase(code, par, g)
    PROVE  \/ toClient' = <<>> /\ OutSettled'
           \/ toClient' # <<>> /\ AnswerPhase(code, par, g)'
<1>1. CASE \/ /\ Left(toClient, g, 1, <<IAC, SB, COM_PORT, code>>)
              /\ client.mode = "data" /\ Got(0)
           \/ /\ Left(toClient, g, 1, <<SB, COM_PORT, code>>)
              /\ client.mode = "iac" /\ Got(0)
           \/ /\ Left(toClient, g, 1, <<COM_PORT, code>>)
              /\ client.mode = "sb" /\ Got(0)
           \/ /\ Left(toClient, g, 1, <<code>>)
              /\ client.mode = "sb" /\ Got(1)
  BY <1>1, OutAnswerHead
<1>2. CASE \E j \in 0 .. Len(par) :
              Rest(toClient, g, j + 2) /\ client.mode = "sb" /\ Got(j + 2)
  BY <1>2, OutAnswerPar
<1>3. CASE \E j \in 1 .. Len(par) :
              /\ Left(toClient, g, j + 1, <<par[j]>>)
              /\ client.mode = IF par[j] = IAC THEN "sbiac" ELSE "sb"
              /\ Got(j + 1)
  BY <1>3, OutAnswerEsc
<1>4. CASE /\ Left(toClient, g, Len(par) + 2, <<SE>>)
           /\ client.mode = "sbiac" /\ Got(Len(par) + 2)
  BY <1>4, OutAnswerEnd
<1>. QED  BY <1>1, <1>2, <1>3, <1>4 DEF AnswerPhase

LEMMA WrittenAnswer ==
    ASSUME NEW code \in Byte, NEW par \in Seq(Byte), NEW prev \in Byte
    PROVE  LET w == Written(par, prev)
               g == Suboption(code, w)
           IN  /\ AnswerGroups(g, code, par)
               /\ \A i \in 1 .. Len(par) : g[i + 1] = w[i]
<1>. DEFINE w == Written(par, prev)
            g == Suboption(code, w)
<1>1. /\ w \in Groups /\ Len(w) = Len(par)
      /\ \A i \in 1 .. Len(par) :
            w[i] = EscWriteChar(par[i], IF i = 1 THEN prev ELSE par[i - 1])
  BY WriteGroups
<1>. HIDE DEF w
<1>2. /\ g \in Groups /\ Len(g) = Len(w) + 2
      /\ g[1] = <<IAC, SB, COM_PORT, code>>
      /\ \A i \in 1 .. Len(w) : g[i + 1] = w[i]
      /\ g[Len(w) + 2] = <<IAC, SE>>
  BY <1>1, SubGroups
<1>. HIDE DEF g
<1>3. ASSUME NEW i \in 1 .. Len(par)
      PROVE  \/ w[i] = <<IAC, IAC>> /\ par[i] = IAC
             \/ w[i] = <<NUL, par[i]>> /\ par[i] # IAC
             \/ w[i] = <<par[i]>> /\ par[i] # IAC
  BY <1>1 DEF EscWriteChar
<1>4. \A i \in 1 .. Len(par) : g[i + 1] = w[i]
  BY <1>1, <1>2
<1>5. AnswerGroups(g, code, par)
  BY <1>1, <1>2, <1>3, <1>4 DEF AnswerGroups
<1>. QED  BY <1>4, <1>5 DEF g, w

LEMMA AnswerCodes ==
    ASSUME NEW q \in Answers
    PROVE  q[1] # IAC
BY DEF Answers, MODEMSTATE_MASK, BAUDRATE, SIGNATURE, ASC, IAC

LEMMA OutAnswer ==
    ASSUME TypeInv, ClientReads, AnswerOut
    PROVE  IF toClient' = <<>> THEN OutSettled' ELSE AnswerOut'
<1>1. PICK q \in Answers, prev \in Byte :
        LET code == q[1]
            par == q[2]
            g == Suboption(code, Written(par, prev))
        IN  /\ item.given = <<COM_PORT, code>> \o par /\ client.last = "answer"
            /\ par # <<>>
            /\ item.fair => \A i \in 1 .. Len(par) : Len(g[i + 1]) = 2 => par[i] = IAC
            /\ AnswerPhase(code, par, g)
  BY DEF AnswerOut
<1>. DEFINE code == q[1]
            par == q[2]
            g == Suboption(code, Written(par, prev))
<1>2. code \in Byte /\ par \in Seq(Byte) /\ code # IAC
  BY AnswerTypes, AnswerCodes
<1>3. PICK h : h = g
  OBVIOUS
<1>4. AnswerGroups(h, code, par)
  BY <1>2, <1>3, WrittenAnswer
<1>5. /\ item.given = <<COM_PORT, code>> \o par /\ client.last = "answer"
      /\ par # <<>>
      /\ item.fair => \A i \in 1 .. Len(par) : Len(h[i + 1]) = 2 => par[i] = IAC
      /\ AnswerPhase(code, par, h)
  BY <1>1, <1>3
<1>6. tnstate' = tnstate
  BY ClientStep
<1>7. Written(par, prev)' = Written(par, prev)
  BY <1>6 DEF Written, EscWriteChar
<1>8. g' = h
  BY <1>3, <1>7 DEF Suboption
<1>9. /\ item'.given = item.given /\ item'.fair = item.fair
      /\ client'.last = client.last
  <2>1. ClientByte(FirstByte(toClient))
    BY ClientStep
  <2>2. client.mode \in {"data", "iac", "sb", "sbiac"}
    BY DEF TypeInv, TypeOK
  <2>3. \E mode, cr, out : Becomes(mode, cr, out)
    BY <2>1, <2>2, ClientTakes
  <2>. QED  BY <2>3 DEF Becomes
<1>. HIDE DEF code, par, g
<1>10. \/ toClient' = <<>> /\ OutSettled'
       \/ toClient' # <<>> /\ AnswerPhase(code, par, h)'
  BY <1>2, <1>4, <1>5, OutAnswerStep
<1>11. CASE toClient' # <<>> /\ AnswerPhase(code, par, h)'
  <2>1. /\ item'.given = <<COM_PORT, code>> \o par /\ client'.last = "answer"
        /\ item'.fair => \A i \in 1 .. Len(par) : Len(h[i + 1]) = 2 => par[i] = IAC
    BY <1>5, <1>9
  <2>2. AnswerOut'
    BY <1>5, <1>8, <1>11, <2>1 DEF AnswerOut, code, par, g
  <2>. QED  BY <1>11, <2>2
<1>. QED  BY <1>10, <1>11

LEMMA OutDevice ==
    ASSUME TypeInv, OutInv, NEW c \in Data, DeviceByte(c)
    PROVE  OutInv'
<1>1. c \in Byte
  BY CodecAssumption
<1>2. /\ side = "out" /\ toClient = <<>> /\ toClient' = SendStr(<<c>>)
      /\ txLast' = <<c>>[Len(<<c>>)]
      /\ client' = [client EXCEPT !.last = "data"]
      /\ tnstate' = tnstate /\ side' = side
  BY DEF DeviceByte, SendsToClient
<1>3. tnstate.is_will = client.him /\ OutSettled
  BY <1>2 DEF OutInv
<1>4. /\ item'.given = <<c>> /\ item'.got = <<>>
      /\ item'.fair => \/ tnstate.is_will \/ client.last = "data"
                       \/ txLast # CR /\ ~client.cr
  BY DEF DeviceByte, SendsToClient
<1>5. txLast' = c
  BY <1>2
<1>6. toClient' = <<EscWriteChar(c, txLast)>>
  <2>. DEFINE f == [i \in 1 .. 1 |-> EscWriteChar(<<c>>[i], IF i = 1 THEN txLast ELSE <<c>>[i - 1])]
  <2>1. toClient' = f
    BY <1>2 DEF SendStr
  <2>2. f = <<EscWriteChar(c, txLast)>>
    OBVIOUS
  <2>. QED  BY <2>1, <2>2
<1>7. client'.last = "data" /\ client'.mode = "data" /\ client'.cr = client.cr
      /\ client'.him = client.him
  BY <1>2, <1>3 DEF OutSettled, TypeInv, TypeOK
<1>8. client.last = "data" => (client.cr <=> txLast = CR)
  BY <1>3 DEF OutSettled
<1>12. side' = "out" /\ tnstate'.is_will = client'.him /\ toClient' # <<>>
  BY <1>2, <1>3, <1>6, <1>7
<1>9. CASE c = IAC
  <2>1. toClient' = <<<<IAC, IAC>>>>
    BY <1>6, <1>9 DEF EscWriteChar
  <2>3. DataOut'
    BY <1>1, <1>4, <1>5, <1>7, <1>9, <2>1 DEF DataOut
  <2>. QED  BY <1>12, <2>3 DEF OutInv
<1>10. CASE c # IAC /\ c # LF /\ ~tnstate.is_will /\ txLast = CR
  <2>1. toClient' = <<<<NUL, c>>>>
    BY <1>6, <1>10 DEF EscWriteChar
  <2>2. ~client'.him /\ (item'.fair => client'.cr)
    BY <1>3, <1>4, <1>7, <1>8, <1>10
  <2>3. DataOut'
    BY <1>1, <1>4, <1>5, <1>7, <1>10, <2>1, <2>2 DEF DataOut
  <2>. QED  BY <1>12, <2>3 DEF OutInv
<1>11. CASE c # IAC /\ ~(c # LF /\ ~tnstate.is_will /\ txLast = CR)
  <2>1. toClient' = <<<<c>>>>
    BY <1>6, <1>11 DEF EscWriteChar
  <2>2. item'.fair /\ c = NUL /\ client'.cr => client'.him
    BY <1>3, <1>4, <1>7, <1>8, <1>11 DEF NUL, LF
  <2>3. DataOut'
    BY <1>1, <1>4, <1>5, <1>7, <1>11, <2>1, <2>2 DEF DataOut
  <2>. QED  BY <1>12, <2>3 DEF OutInv
<1>. QED  BY <1>9, <1>10, <1>11

LEMMA OutAnswers ==
    ASSUME TypeInv, OutInv, NEW q \in Answers, Answer(q[1], q[2])
    PROVE  OutInv'
<1>. DEFINE code == q[1]
            par == q[2]
            given == <<COM_PORT, code>> \o par
            g == Suboption(code, Written(par, txLast))
<1>1. code \in Byte /\ par \in Seq(Byte) /\ txLast \in Byte
  BY AnswerTypes DEF TypeInv, TypeOK
<1>2. /\ par # <<>> /\ side = "out" /\ toClient = <<>> /\ toClient' = g
      /\ client' = [client EXCEPT !.last = "answer"]
      /\ tnstate' = tnstate /\ side' = side
  BY SendStrIs DEF Answer, SendsToClient
<1>3. tnstate.is_will = client.him /\ OutSettled
  BY <1>2 DEF OutInv
<1>4. /\ item'.given = given /\ item'.got = <<>>
      /\ item'.fair => \/ tnstate.is_will
                       \/ /\ txLast # CR
                          /\ \A i \in 1 .. Len(given) - 1 :
                                given[i] = CR => given[i + 1] \in {LF, IAC}
  BY DEF Answer, SendsToClient
<1>5. client'.last = "answer" /\ client'.mode = "data" /\ client'.him = client.him
  BY <1>2, <1>3 DEF OutSettled, TypeInv, TypeOK
<1>6. PICK prev \in Byte : prev = txLast
  BY <1>1
<1>7. PICK h : h = Suboption(code, Written(par, prev))
  OBVIOUS
<1>8. h = g /\ AnswerGroups(h, code, par)
      /\ \A i \in 1 .. Len(par) : h[i + 1] = Written(par, prev)[i]
  BY <1>1, <1>6, <1>7, WrittenAnswer
<1>9. /\ given \in Seq(Byte) /\ Len(given) = Len(par) + 2 /\ Len(par) \in Nat
      /\ given[2] = code
      /\ \A i \in 1 .. Len(par) : given[i + 2] = par[i]
  BY <1>1, AnswerParts
<1>10. SubSeq(given, 1, 0) = <<>>
  BY <1>9, PrefixGrows
<1>11. Suboption(code, Written(par, prev))' = h
  BY <1>2, <1>7 DEF Suboption, Written, EscWriteChar
<1>12. \A i \in 1 .. Len(par) :
           h[i + 1] = EscWriteChar(par[i], IF i = 1 THEN prev ELSE par[i - 1])
  BY <1>1, <1>6, <1>8, WriteGroups
<1>. HIDE DEF code, par, given, g
<1>13. ASSUME item'.fair, NEW i \in 1 .. Len(par), Len(h[i + 1]) = 2
       PROVE  par[i] = IAC
  <2>. DEFINE last == IF i = 1 THEN prev ELSE par[i - 1]
  <2>1. h[i + 1] = EscWriteChar(par[i], last)
    BY <1>12
  <2>2. CASE tnstate.is_will
    <3>1. h[i + 1] = IF par[i] = IAC THEN <<par[i], par[i]>> ELSE <<par[i]>>
      BY <2>1, <2>2 DEF EscWriteChar
    <3>2. Len(<<par[i]>>) = 1
      OBVIOUS
    <3>. QED  BY <3>1, <3>2, <1>13
  <2>3. CASE /\ txLast # CR
             /\ \A k \in 1 .. Len(given) - 1 : given[k] = CR => given[k + 1] \in {LF, IAC}
    <3>1. last = CR => par[i] \in {LF, IAC}
      <4>1. CASE i = 1
        BY <4>1, <2>3, <1>6
      <4>2. CASE i # 1
        <5>. DEFINE k == i + 1
        <5>1. k \in 1 .. Len(given) - 1 /\ i - 1 \in 1 .. Len(par)
              /\ (i - 1) + 2 = k /\ k + 1 = i + 2
          BY <4>2, <1>9
        <5>2. given[k] = par[i - 1] /\ given[k + 1] = par[i]
          BY <5>1, <1>9
        <5>3. given[k] = CR => given[k + 1] \in {LF, IAC}
          BY <5>1, <2>3
        <5>. QED  BY <4>2, <5>2, <5>3
      <4>. QED  BY <4>1, <4>2
    <3>2. CASE par[i] # IAC
      <4>1. h[i + 1] = <<par[i]>>
        BY <2>1, <3>1, <3>2 DEF EscWriteChar
      <4>2. Len(<<par[i]>>) = 1
        OBVIOUS
      <4>. QED  BY <4>1, <4>2, <1>13
    <3>. QED  BY <3>2
  <2>. QED  BY <2>2, <2>3, <1>4, <1>13
<1>14. AnswerPhase(code, par, h)'
  <2>1. Rest(toClient', h, 1) /\ h[1] = <<IAC, SB, COM_PORT, code>> /\ h \in Groups
        /\ 1 # Len(h) + 1 /\ toClient' = h
    BY <1>2, <1>8, <1>9, RestAll DEF AnswerGroups
  <2>2. Left(toClient', h, 1, <<IAC, SB, COM_PORT, code>>)
    BY <2>1, RestLeft
  <2>3. Got(0)'
    BY <1>4, <1>10 DEF Got
  <2>. QED  BY <2>2, <2>3, <1>5 DEF AnswerPhase
<1>15. AnswerOut'
  BY <1>2, <1>4, <1>5, <1>11, <1>13, <1>14 DEF AnswerOut, code, par, given
<1>16. toClient' # <<>>
  BY <1>2, <1>8, <1>9 DEF AnswerGroups
<1>. QED  BY <1>2, <1>3, <1>5, <1>15, <1>16 DEF OutInv

LEMMA OutSwitch ==
    ASSUME TypeInv, OutInv, NEW binary \in BOOLEAN, SwitchMode(binary)
    PROVE  OutInv'
<1>1. /\ side = "out" /\ toClient = <<>> /\ side' = side /\ toClient' = toClient
      /\ tnstate' = [tnstate EXCEPT !.is_will = binary]
      /\ client' = [client EXCEPT !.him = binary]
      /\ item' = NoItem /\ txLast' = txLast
  BY DEF SwitchMode
<1>2. OutSettled
  BY <1>1 DEF OutInv
<1>3. tnstate'.is_will = client'.him
  BY <1>1 DEF TypeInv, TypeOK
<1>4. client'.mode = client.mode /\ client'.last = client.last /\ client'.cr = client.cr
  BY <1>1 DEF TypeInv, TypeOK
<1>5. item'.got = item'.given
  BY <1>1 DEF NoItem
<1>6. OutSettled'
  BY <1>1, <1>2, <1>4, <1>5 DEF OutSettled
<1>. QED  BY <1>1, <1>3, <1>6 DEF OutInv

LEMMA OutReconnect ==
    ASSUME TypeInv, Reconnect
    PROVE  OutInv'
<1>1. /\ toClient' = <<>> /\ item' = NoItem /\ client' = NewClient
      /\ tnstate' = [is_do |-> FALSE, is_will |-> FALSE, com_port |-> FALSE]
  BY DEF Reconnect
<1>. QED  BY <1>1 DEF OutInv, OutSettled, NoItem, NewClient

LEMMA OutUnchanged ==
    ASSUME TypeInv, OutInv, side = "in", side' = side, UNCHANGED outVars
    PROVE  OutInv'
BY DEF OutInv, outVars

LEMMA OutReads ==
    ASSUME TypeInv, OutInv, ClientReads
    PROVE  OutInv'
<1>1. toClient # <<>> /\ UNCHANGED <<tnstate, side>>
  BY ClientStep
<1>2. side = "out"
  BY <1>1 DEF OutInv, TypeInv, ItemType
<1>3. tnstate.is_will = client.him /\ (DataOut \/ AnswerOut)
  BY <1>1, <1>2 DEF OutInv
<1>4. client'.him = client.him
  <2>1. ClientByte(FirstByte(toClient))
    BY ClientStep
  <2>2. client.mode \in {"data", "iac", "sb", "sbiac"}
    BY DEF TypeInv, TypeOK
  <2>3. \E mode, cr, out : Becomes(mode, cr, out)
    BY <2>1, <2>2, ClientTakes
  <2>. QED  BY <2>3 DEF Becomes
<1>. QED  BY <1>1, <1>2, <1>3, <1>4, OutData, OutAnswer DEF OutInv

----------------------------------------------------------------------------
(* A parser out of step, through two option commands.                      *)

LEMMA WaitsStep ==
    ASSUME TypeOK, NEW C \in Byte, Step(C), NEW need \in 1 .. 6, Waits(need)
    PROVE  /\ need = 1 => IsNormal'
           /\ need # 1 => need - 1 \in 1 .. 5 /\ Waits(need - 1)'
<1>1. IACEscape = "ComReceiving" /\ InFixed(need) /\ need \in Nat
  BY DEF Waits
<1>2. CASE need = 1
  BY <1>1, <1>2, StepLast DEF IsNormal
<1>3. CASE need # 1
  <2>1. IACCommand' = Append(IACCommand, C) /\ IACEscape' = IACEscape
    BY <1>1, <1>3, StepFixed
  <2>2. need \in 2 .. 6 /\ need - 1 \in 1 .. 5
    BY <1>3
  <2>3. InFixed(need - 1)'
    BY <2>1, <2>2, <1>1, FixedGrows
  <2>. QED  BY <1>1, <1>3, <2>1, <2>2, <2>3 DEF Waits
<1>. QED  BY <1>2, <1>3

LEMMA SigStep ==
    ASSUME TypeOK, NEW C \in Byte, Step(C), NEW state, WaitsSig(state)
    PROVE  /\ state = "Normal" /\ C = IAC => WaitsSig("Received")'
           /\ state = "Normal" /\ C # IAC => WaitsSig("Normal")'
           /\ state = "Received" /\ C = IAC => WaitsSig("Normal")'
           /\ state = "Received" /\ C # IAC => IsNormal'
<1>1. IACEscape = "ComReceiving" /\ InSignature /\ IACSigEscape = state
  BY DEF WaitsSig
<1>2. CASE state = "Normal" /\ C = IAC
  <2>1. UNCHANGED <<IACEscape, IACCommand>> /\ IACSigEscape' = "Received"
    BY <1>1, <1>2, StepText
  <2>. QED  BY <1>1, <1>2, <2>1 DEF WaitsSig, InSignature
<1>3. CASE \/ state = "Normal" /\ C # IAC
           \/ state = "Received" /\ C = IAC
  <2>1. UNCHANGED IACEscape /\ IACSigEscape' = "Normal" /\ IACCommand' = Store(<<0>>)
    BY <1>1, <1>3, StepText
  <2>2. InSignature'
    BY <1>1, <2>1, TextGrows
  <2>. QED  BY <1>1, <1>3, <2>1, <2>2 DEF WaitsSig
<1>4. CASE state = "Received" /\ C # IAC
  BY <1>1, <1>4, StepText DEF IsNormal
<1>. QED  BY <1>2, <1>3, <1>4

LEMMA NormalStep ==
    ASSUME TypeOK, NEW C \in Byte, Step(C), IsNormal
    PROVE  IF C = IAC THEN IACEscape' = "Received" ELSE IsNormal'
BY StepNormal DEF IsNormal

LEMMA ReceivedStep ==
    ASSUME TypeOK, NEW C \in Byte, Step(C), IACEscape = "Received"
    PROVE  /\ C = IAC => IsNormal'
           /\ C \notin {IAC, SB} => IACEscape' = "ComReceiving" /\ InOption'
<1>1. CASE C = IAC
  BY <1>1, StepReceived DEF IsNormal
<1>2. CASE C \notin {IAC, SB}
  <2>1. IACEscape' = "ComReceiving" /\ IACCommand' = <<IAC, C>>
    BY <1>2, StepReceived
  <2>2. Len(<<IAC, C>>) = 2 /\ <<IAC, C>>[2] = C
    OBVIOUS
  <2>. QED  BY <1>2, <2>1, <2>2 DEF InOption
<1>. QED  BY <1>1, <1>2

LEMMA OptionStep ==
    ASSUME TypeOK, NEW C \in Byte, Step(C), IACEscape = "ComReceiving", InOption
    PROVE  IsNormal'
BY StepOption DEF IsNormal

LEMMA HeadStep ==
    ASSUME TypeOK, NEW C \in Byte, Step(C), IACEscape = "ComReceiving"
    PROVE  /\ InHead(2) => IACEscape' = "ComReceiving" /\ InHead(3)'
           /\ InHead(3) /\ C \notin {SIGNATURE, BAUDRATE, SUSPEND, RESUME} => Waits(3)'
<1>1. CASE InHead(2)
  <2>1. IACCommand' = Append(IACCommand, C) /\ IACEscape' = IACEscape
    BY <1>1, StepHead
  <2>2. InHead(3)'
    BY <1>1, <2>1, HeadGrows
  <2>3. ~InHead(3)
    BY <1>1 DEF InHead
  <2>. QED  BY <2>1, <2>2, <2>3
<1>2. CASE InHead(3) /\ C \notin {SIGNATURE, BAUDRATE, SUSPEND, RESUME}
  <2>1. IACCommand' = Append(IACCommand, C) /\ IACEscape' = IACEscape
    BY <1>2, StepHead
  <2>2. InFixed(3)'
    BY <1>2, <2>1, HeadDone
  <2>3. ~InHead(2)
    BY <1>2 DEF InHead
  <2>. QED  BY <2>1, <2>2, <2>3 DEF Waits
<1>. QED  BY <1>1, <1>2

LEMMA CommandBytes ==
    ASSUME NEW cmd \in Cmds, NEW opt \in Opts
    PROVE  /\ cmd \notin {IAC, SB, SIGNATURE, BAUDRATE, SUSPEND, RESUME}
           /\ opt # IAC
           /\ IAC \notin {SIGNATURE, BAUDRATE, SUSPEND, RESUME}
BY DEF Cmds, Opts, WILL, WONT, DO, DONT, BINARY, COM_PORT, IAC, SB, SIGNATURE, BAUDRATE,
       SUSPEND, RESUME

\* The three bytes of the first command,
LEMMA Heal6 ==
    ASSUME TypeInv, NEW C \in Byte, Step(C), C = IAC, Healing(6)
    PROVE  Healing(5)'
<1>0. TypeOK /\ ParserInv /\ C \notin {SIGNATURE, BAUDRATE, SUSPEND, RESUME}
  BY DEF TypeInv, IAC, SIGNATURE, BAUDRATE, SUSPEND, RESUME
<1>1. CASE IsNormal
  BY <1>0, <1>1, NormalStep DEF Healing
<1>2. CASE IACEscape = "Received"
  <2>1. IsNormal'
    BY <1>0, <1>2, ReceivedStep
  <2>. QED  BY <2>1 DEF Healing
<1>3. CASE IACEscape = "ComReceiving"
  <2>1. CASE InOption
    <3>1. IsNormal'
      BY <1>0, <1>3, <2>1, OptionStep
    <3>. QED  BY <3>1 DEF Healing
  <2>2. ASSUME NEW n \in 2 .. 3, InHead(n) PROVE Healing(5)'
    <3>1. CASE n = 2
      <4>1. IACEscape' = "ComReceiving" /\ InHead(3)'
        BY <1>0, <1>3, <2>2, <3>1, HeadStep
      <4>. QED  BY <4>1 DEF Healing
    <3>2. CASE n = 3
      <4>1. Waits(3)'
        BY <1>0, <1>3, <2>2, <3>2, HeadStep
      <4>. QED  BY <4>1 DEF Healing
    <3>. QED  BY <3>1, <3>2
  <2>3. ASSUME NEW need \in 1 .. 6, InFixed(need) PROVE Healing(5)'
    <3>1. Waits(need)
      BY <1>3, <2>3 DEF Waits
    <3>2. IsNormal' \/ (\E n \in 1 .. 5 : Waits(n)')
      BY <1>0, <3>1, WaitsStep
    <3>. QED  BY <3>2 DEF Healing
  <2>4. CASE InSignature
    <3>1. PICK state \in {"Normal", "Received"} : WaitsSig(state)
      BY <1>0, <1>3, <2>4 DEF WaitsSig, TypeOK, EscState
    <3>2. WaitsSig("Normal")' \/ WaitsSig("Received")'
      BY <1>0, <3>1, SigStep
    <3>. QED  BY <3>2 DEF Healing
  <2>. QED  BY <1>0, <1>3, <2>1, <2>2, <2>3, <2>4 DEF ParserInv
<1>. QED  BY <1>0, <1>1, <1>2, <1>3 DEF TypeOK, EscState, IsNormal

LEMMA Heal5 ==
    ASSUME TypeInv, NEW C \in Byte, Step(C), C \in Cmds, Healing(5)
    PROVE  Healing(4)'
<1>0. TypeOK /\ C \notin {IAC, SB, SIGNATURE, BAUDRATE, SUSPEND, RESUME}
  BY CommandBytes DEF TypeInv, Opts
<1>1. \/ IsNormal \/ IACEscape = "Received"
      \/ IACEscape = "ComReceiving" /\ InHead(3)
      \/ \E need \in 1 .. 5 : Waits(need)
      \/ \E state \in {"Normal", "Received"} : WaitsSig(state)
  BY DEF Healing
<1>2. CASE IsNormal
  <2>1. IsNormal'
    BY <1>0, <1>2, NormalStep
  <2>. QED  BY <2>1 DEF Healing
<1>3. CASE IACEscape = "Received"
  <2>1. IACEscape' = "ComReceiving" /\ InOption'
    BY <1>0, <1>3, ReceivedStep
  <2>. QED  BY <2>1 DEF Healing
<1>4. CASE IACEscape = "ComReceiving" /\ InHead(3)
  <2>1. Waits(3)'
    BY <1>0, <1>4, HeadStep
  <2>. QED  BY <2>1 DEF Healing
<1>5. ASSUME NEW need \in 1 .. 5, Waits(need) PROVE Healing(4)'
  <2>1. need \in 1 .. 6
    OBVIOUS
  <2>2. IsNormal' \/ (need # 1 /\ Waits(need - 1)')
    BY <1>0, <1>5, <2>1, WaitsStep
  <2>3. need # 1 => need - 1 \in 1 .. 4
    OBVIOUS
  <2>. QED  BY <2>2, <2>3 DEF Healing
<1>6. ASSUME NEW state \in {"Normal", "Received"}, WaitsSig(state) PROVE Healing(4)'
  <2>1. WaitsSig("Normal")' \/ IsNormal'
    BY <1>0, <1>6, SigStep
  <2>. QED  BY <2>1 DEF Healing
<1>. QED  BY <1>1, <1>2, <1>3, <1>4, <1>5, <1>6

LEMMA Heal4 ==
    ASSUME TypeInv, NEW C \in Byte, Step(C), C \in Opts, Healing(4)
    PROVE  Healing(3)'
<1>0. TypeOK /\ C # IAC
  BY DEF TypeInv, Opts, BINARY, COM_PORT, IAC
<1>1. \/ IsNormal
      \/ IACEscape = "ComReceiving" /\ InOption
      \/ \E need \in 1 .. 4 : Waits(need)
      \/ WaitsSig("Normal")
  BY DEF Healing
<1>2. CASE IsNormal
  <2>1. IsNormal'
    BY <1>0, <1>2, NormalStep
  <2>. QED  BY <2>1 DEF Healing
<1>3. CASE IACEscape = "ComReceiving" /\ InOption
  <2>1. IsNormal'
    BY <1>0, <1>3, OptionStep
  <2>. QED  BY <2>1 DEF Healing
<1>4. ASSUME NEW need \in 1 .. 4, Waits(need) PROVE Healing(3)'
  <2>1. need \in 1 .. 6
    OBVIOUS
  <2>2. IsNormal' \/ (need # 1 /\ Waits(need - 1)')
    BY <1>0, <1>4, <2>1, WaitsStep
  <2>3. need # 1 => need - 1 \in 1 .. 3
    OBVIOUS
  <2>. QED  BY <2>2, <2>3 DEF Healing
<1>5. CASE WaitsSig("Normal")
  <2>1. WaitsSig("Normal")'
    BY <1>0, <1>5, SigStep
  <2>. QED  BY <2>1 DEF Healing
<1>. QED  BY <1>1, <1>2, <1>3, <1>4, <1>5

\* and of the second.
LEMMA Heal3 ==
    ASSUME TypeInv, NEW C \in Byte, Step(C), C = IAC, Healing(3)
    PROVE  Healing(2)'
<1>0. TypeOK
  BY DEF TypeInv
<1>1. IsNormal \/ (\E need \in 1 .. 3 : Waits(need)) \/ WaitsSig("Normal")
  BY DEF Healing
<1>2. CASE IsNormal
  BY <1>0, <1>2, NormalStep DEF Healing
<1>3. ASSUME NEW need \in 1 .. 3, Waits(need) PROVE Healing(2)'
  <2>1. need \in 1 .. 6
    OBVIOUS
  <2>2. IsNormal' \/ (need # 1 /\ Waits(need - 1)')
    BY <1>0, <1>3, <2>1, WaitsStep
  <2>3. need # 1 => need - 1 \in 1 .. 2
    OBVIOUS
  <2>. QED  BY <2>2, <2>3 DEF Healing
<1>4. CASE WaitsSig("Normal")
  <2>1. WaitsSig("Received")'
    BY <1>0, <1>4, SigStep
  <2>. QED  BY <2>1 DEF Healing
<1>. QED  BY <1>1, <1>2, <1>3, <1>4

LEMMA Heal2 ==
    ASSUME TypeInv, NEW C \in Byte, Step(C), C \in Cmds, Healing(2)
    PROVE  Healing(1)'
<1>0. TypeOK /\ C \notin {IAC, SB}
  BY CommandBytes DEF TypeInv, Opts
<1>1. \/ IsNormal \/ IACEscape = "Received"
      \/ \E need \in 1 .. 2 : Waits(need)
      \/ WaitsSig("Received")
  BY DEF Healing
<1>2. CASE IsNormal
  <2>1. IsNormal'
    BY <1>0, <1>2, NormalStep
  <2>. QED  BY <2>1 DEF Healing
<1>3. CASE IACEscape = "Received"
  <2>1. IACEscape' = "ComReceiving" /\ InOption'
    BY <1>0, <1>3, ReceivedStep
  <2>. QED  BY <2>1 DEF Healing
<1>4. ASSUME NEW need \in 1 .. 2, Waits(need) PROVE Healing(1)'
  <2>1. need \in 1 .. 6
    OBVIOUS
  <2>2. IsNormal' \/ (need # 1 /\ Waits(need - 1)')
    BY <1>0, <1>4, <2>1, WaitsStep
  <2>3. need # 1 => need - 1 = 1
    OBVIOUS
  <2>. QED  BY <2>2, <2>3 DEF Healing
<1>5. CASE WaitsSig("Received")
  <2>1. IsNormal'
    BY <1>0, <1>5, SigStep
  <2>. QED  BY <2>1 DEF Healing
<1>. QED  BY <1>1, <1>2, <1>3, <1>4, <1>5

LEMMA Heal1 ==
    ASSUME TypeInv, NEW C \in Byte, Step(C), C \in Opts, Healing(1)
    PROVE  Healing(0)'
<1>0. TypeOK /\ C # IAC
  BY DEF TypeInv, Opts, BINARY, COM_PORT, IAC
<1>1. IsNormal \/ (IACEscape = "ComReceiving" /\ InOption) \/ Waits(1)
  BY DEF Healing
<1>2. IsNormal'
  <2>1. CASE IsNormal
    BY <1>0, <2>1, NormalStep
  <2>2. CASE IACEscape = "ComReceiving" /\ InOption
    BY <1>0, <2>2, OptionStep
  <2>3. CASE Waits(1)
    BY <1>0, <2>3, WaitsStep
  <2>. QED  BY <1>1, <2>1, <2>2, <2>3
<1>. QED  BY <1>2 DEF Healing

\* The bytes of an option command.
LEMMA OptionBytes ==
    ASSUME NEW cmd \in Cmds, NEW opt \in Opts
    PROVE  /\ <<<<IAC, cmd, opt>>>> # <<>> /\ <<<<cmd, opt>>>> # <<>> /\ <<<<opt>>>> # <<>>
           /\ FirstByte(<<<<IAC, cmd, opt>>>>) = IAC
           /\ ButFirstByte(<<<<IAC, cmd, opt>>>>) = <<<<cmd, opt>>>>
           /\ FirstByte(<<<<cmd, opt>>>>) = cmd
           /\ ButFirstByte(<<<<cmd, opt>>>>) = <<<<opt>>>>
           /\ FirstByte(<<<<opt>>>>) = opt /\ ButFirstByte(<<<<opt>>>>) = <<>>
<1>1. cmd \in Byte /\ opt \in Byte
  BY OptionType
<1>. DEFINE r == <<IAC, cmd, opt>>
<1>2. r \in Group /\ Len(r) # 1 /\ r[1] = IAC /\ Tail(r) = <<cmd, opt>>
  BY <1>1, Bytes, TupleGroups
<1>. HIDE DEF r
<1>3. <<r>> # <<>> /\ FirstByte(<<r>>) = IAC /\ ButFirstByte(<<r>>) = <<Tail(r)>>
  BY <1>2, Single
<1>4. <<r>> = <<<<IAC, cmd, opt>>>>
  BY DEF r
<1>5. <<<<cmd, opt>>>> # <<>>
  OBVIOUS
<1>. QED  BY <1>1, <1>2, <1>3, <1>4, <1>5, SingleBytes

LEMMA OutOfStepRead ==
    ASSUME TypeInv, EscRedirectChar, OutOfStep
    PROVE  \/ wire' # <<>> /\ OutOfStep'
           \/ wire' = <<>> /\ steady = 1 /\ Healing(3)'
           \/ wire' = <<>> /\ steady = 2 /\ IsNormal'
<1>0. TypeOK
  BY DEF TypeInv
<1>1. /\ wire' = ButFirstByte(wire) /\ FirstByte(wire) \in Byte /\ Step(FirstByte(wire))
      /\ UNCHANGED <<msg, pristine, steady>>
  BY <1>0, ReadStep
<1>2. PICK cmd \in Cmds, opt \in Opts :
          \/ wire = <<<<IAC, cmd, opt>>>> /\ steady = 1
          \/ wire = <<<<cmd, opt>>>> /\ steady = 1 /\ Healing(5)
          \/ wire = <<<<opt>>>> /\ steady = 1 /\ Healing(4)
          \/ wire = <<<<IAC, cmd, opt>>>> /\ steady = 2 /\ Healing(3)
          \/ wire = <<<<cmd, opt>>>> /\ steady = 2 /\ Healing(2)
          \/ wire = <<<<opt>>>> /\ steady = 2 /\ Healing(1)
  BY DEF OutOfStep
<1>3. ~pristine' /\ msg'.data = <<>>
  BY <1>1 DEF OutOfStep
<1>4. CASE wire = <<<<IAC, cmd, opt>>>> /\ steady = 1
  <2>1. FirstByte(wire) = IAC /\ wire' = <<<<cmd, opt>>>> /\ wire' # <<>>
    BY <1>1, <1>4, OptionBytes
  <2>2. Healing(6)
    BY DEF Healing
  <2>3. Healing(5)'
    BY <1>1, <2>1, <2>2, Heal6
  <2>. QED  BY <1>1, <1>3, <1>4, <2>1, <2>3 DEF OutOfStep
<1>5. CASE wire = <<<<cmd, opt>>>> /\ steady = 1 /\ Healing(5)
  <2>1. FirstByte(wire) = cmd /\ wire' = <<<<opt>>>> /\ wire' # <<>>
    BY <1>1, <1>5, OptionBytes
  <2>2. Healing(4)'
    BY <1>1, <1>5, <2>1, Heal5
  <2>. QED  BY <1>1, <1>3, <1>5, <2>1, <2>2 DEF OutOfStep
<1>6. CASE wire = <<<<opt>>>> /\ steady = 1 /\ Healing(4)
  <2>1. FirstByte(wire) = opt /\ wire' = <<>>
    BY <1>1, <1>6, OptionBytes
  <2>2. Healing(3)'
    BY <1>1, <1>6, <2>1, Heal4
  <2>. QED  BY <1>6, <2>1, <2>2
<1>7. CASE wire = <<<<IAC, cmd, opt>>>> /\ steady = 2 /\ Healing(3)
  <2>1. FirstByte(wire) = IAC /\ wire' = <<<<cmd, opt>>>> /\ wire' # <<>>
    BY <1>1, <1>7, OptionBytes
  <2>2. Healing(2)'
    BY <1>1, <1>7, <2>1, Heal3
  <2>. QED  BY <1>1, <1>3, <1>7, <2>1, <2>2 DEF OutOfStep
<1>8. CASE wire = <<<<cmd, opt>>>> /\ steady = 2 /\ Healing(2)
  <2>1. FirstByte(wire) = cmd /\ wire' = <<<<opt>>>> /\ wire' # <<>>
    BY <1>1, <1>8, OptionBytes
  <2>2. Healing(1)'
    BY <1>1, <1>8, <2>1, Heal2
  <2>. QED  BY <1>1, <1>3, <1>8, <2>1, <2>2 DEF OutOfStep
<1>9. CASE wire = <<<<opt>>>> /\ steady = 2 /\ Healing(1)
  <2>1. FirstByte(wire) = opt /\ wire' = <<>>
    BY <1>1, <1>9, OptionBytes
  <2>2. Healing(0)'
    BY <1>1, <1>9, <2>1, Heal1
  <2>3. IsNormal'
    BY <2>2 DEF Healing
  <2>. QED  BY <1>9, <2>1, <2>3
<1>. QED  BY <1>2, <1>4, <1>5, <1>6, <1>7, <1>8, <1>9

----------------------------------------------------------------------------
(* A parser in step: data, and option commands.                            *)

LEMMA FinishedSettled ==
    ASSUME Finished'
    PROVE  Settled'
BY DEF Finished, Settled, Healing

LEMMA OptionRead ==
    ASSUME TypeInv, EscRedirectChar, OptionPhase
    PROVE  \/ wire' # <<>> /\ OptionPhase'
           \/ wire' = <<>> /\ Finished'
<1>0. TypeOK /\ heard \in Seq(Seq(Nat)) /\ toDev \in Seq(Byte)
  BY DEF TypeInv, TypeOK, ItemType
<1>1. /\ wire' = ButFirstByte(wire) /\ FirstByte(wire) \in Byte /\ Step(FirstByte(wire))
      /\ UNCHANGED <<msg, pristine, client>>
  BY <1>0, ReadStep
<1>2. PICK cmd \in Cmds, opt \in Opts :
        /\ msg.data = <<>> /\ msg.cmds = <<<<cmd, opt>>>> /\ Untouched
        /\ pristine => Agree(Effect(cmd, opt))
        /\ \/ wire = <<<<IAC, cmd, opt>>>> /\ IsNormal
           \/ wire = <<<<cmd, opt>>>> /\ IACEscape = "Received"
           \/ wire = <<<<opt>>>> /\ IACEscape = "ComReceiving" /\ IACCommand = <<IAC, cmd>>
  BY DEF OptionPhase
<1>3. cmd # IAC /\ cmd # SB /\ opt # IAC /\ opt # CR
  <2>1. opt # CR
    BY DEF Opts, BINARY, COM_PORT, CR
  <2>. QED  BY <2>1, OptionType
<1>4. CASE wire = <<<<IAC, cmd, opt>>>> /\ IsNormal
  <2>1. FirstByte(wire) = IAC /\ wire' = <<<<cmd, opt>>>> /\ wire' # <<>>
    BY <1>1, <1>4, OptionBytes
  <2>2. IACEscape' = "Received" /\ toDev' = toDev /\ heard' = heard /\ tnstate' = tnstate
    BY <1>0, <1>1, <1>4, <2>1, StepNormal DEF IsNormal
  <2>3. pristine' => Agree(Effect(cmd, opt))'
    BY <1>1, <1>2, <2>2 DEF Agree, Effect
  <2>. QED  BY <1>1, <1>2, <2>1, <2>2, <2>3 DEF OptionPhase, Untouched
<1>5. CASE wire = <<<<cmd, opt>>>> /\ IACEscape = "Received"
  <2>1. FirstByte(wire) = cmd /\ wire' = <<<<opt>>>> /\ wire' # <<>>
    BY <1>1, <1>5, OptionBytes
  <2>2. /\ IACEscape' = "ComReceiving" /\ IACCommand' = <<IAC, cmd>>
        /\ toDev' = toDev /\ heard' = heard /\ tnstate' = tnstate
    BY <1>0, <1>1, <1>3, <1>5, <2>1, StepReceived
  <2>3. pristine' => Agree(Effect(cmd, opt))'
    BY <1>1, <1>2, <2>2 DEF Agree, Effect
  <2>. QED  BY <1>1, <1>2, <2>1, <2>2, <2>3 DEF OptionPhase, Untouched
<1>6. CASE wire = <<<<opt>>>> /\ IACEscape = "ComReceiving" /\ IACCommand = <<IAC, cmd>>
  <2>1. FirstByte(wire) = opt /\ wire' = <<>>
    BY <1>1, <1>6, OptionBytes
  <2>2. Len(IACCommand) = 2 /\ IACCommand[2] = cmd
    BY <1>6
  <2>3. /\ IsNormal' /\ toDev' = toDev /\ rxLast' = opt
        /\ heard' = heard \o <<<<cmd, opt>>>> /\ tnstate' = Effect(cmd, opt)
    BY <1>0, <1>1, <1>3, <1>6, <2>1, <2>2, StepOption DEF InOption, IsNormal
  <2>4. pristine' => Agree(tnstate)'
    BY <1>1, <1>2, <2>3 DEF Agree
  <2>5. <<>> \o <<<<cmd, opt>>>> = <<<<cmd, opt>>>>
    OBVIOUS
  <2>6. heard' = <<<<cmd, opt>>>> /\ toDev' = <<>>
    BY <1>2, <2>3, <2>5 DEF Untouched
  <2>7. <<<<cmd, opt>>>> # Doubled
    BY DEF Doubled
  <2>. QED  BY <1>1, <1>2, <1>3, <2>1, <2>3, <2>4, <2>6, <2>7 DEF Finished
<1>. QED  BY <1>2, <1>4, <1>5, <1>6

\* A byte of the data has been delivered, and k are read.
LEMMA DataDone ==
    ASSUME TypeInv, TypeInv', EscRedirectChar, DataPhase, NEW k \in 1 .. Len(msg.data),
           Rest(wire', ClientEscapes(msg.data, client.us), k + 1), IsNormal', Delivered(k)',
           pristine /\ rxLast' = CR =>
               /\ msg.data[k] = CR
               /\ client.us \/ (k < Len(msg.data) /\ msg.data[k + 1] = LF),
           UNCHANGED <<tnstate, heard>>
    PROVE  \/ wire' # <<>> /\ DataPhase'
           \/ wire' = <<>> /\ Finished'
<1>0. TypeOK /\ msg.data \in Seq(Byte) /\ Len(msg.data) \in Nat /\ wire' \in Groups
  BY DEF TypeInv, TypeOK, ItemType, Groups, Group
<1>1. UNCHANGED <<msg, pristine, client>>
  BY <1>0, ReadStep
<1>2. PICK g : g = ClientEscapes(msg.data, client.us)
  OBVIOUS
<1>3. g \in Groups /\ Len(g) = Len(msg.data)
  <2>1. client.us \in BOOLEAN
    BY <1>0 DEF TypeOK
  <2>. QED  BY <1>0, <1>2, <2>1, EscapeGroups
<1>4. ClientEscapes(msg.data, client.us)' = g
  BY <1>1, <1>2
<1>5. pristine' => Agree(tnstate)'
  BY <1>1 DEF DataPhase, Agree
<1>6. CASE k = Len(msg.data)
  <2>1. wire' = <<>>
    BY <1>0, <1>2, <1>3, <1>6, RestEnd
  <2>2. SubSeq(msg.data, 1, k) = msg.data
    BY <1>0, <1>6, PrefixGrows
  <2>3. pristine \/ Plain(msg.data) => toDev' = msg.data
    BY <1>1, <2>2 DEF Delivered
  <2>4. <<>> # Doubled
    BY DEF Doubled
  <2>5. ~(k < Len(msg.data))
    BY <1>0, <1>6
  <2>. QED  BY <1>1, <1>5, <1>6, <2>1, <2>3, <2>4, <2>5 DEF Finished, DataPhase
<1>7. CASE k # Len(msg.data)
  <2>1. k + 1 \in 1 .. Len(msg.data) /\ k + 1 # Len(g) + 1 /\ (k + 1) - 1 = k
    BY <1>0, <1>3, <1>7
  <2>2. wire' # <<>>
    BY <1>0, <1>2, <1>3, <2>1, RestLeft
  <2>3. DataAt(g, k + 1)'
    BY <1>1, <1>2, <2>1 DEF DataAt
  <2>4. DataPhase'
    BY <1>1, <1>4, <1>5, <2>1, <2>3 DEF DataPhase
  <2>. QED  BY <2>2, <2>4
<1>. QED  BY <1>6, <1>7

\* The next byte of the data has reached the device.
LEMMA DeliveredMore ==
    ASSUME TypeInv, NEW k \in 1 .. Len(msg.data), UNCHANGED <<msg, pristine>>,
           Delivered(k - 1),
           pristine \/ Plain(msg.data) => toDev' = toDev \o <<msg.data[k]>>
    PROVE  Delivered(k)'
<1>1. msg.data \in Seq(Byte)
  BY DEF TypeInv, ItemType
<1>2. SubSeq(msg.data, 1, k - 1) \o <<msg.data[k]>> = SubSeq(msg.data, 1, k)
  BY <1>1, PrefixGrows
<1>. QED  BY <1>2 DEF Delivered

LEMMA PlainByte ==
    ASSUME NEW d \in Seq(Byte), Plain(d), NEW k \in 1 .. Len(d)
    PROVE  d[k] # CR /\ d[k] # NUL
BY DEF Plain, ToSet

LEMMA DataRead ==
    ASSUME TypeInv, TypeInv', EscRedirectChar, DataPhase
    PROVE  \/ wire' # <<>> /\ DataPhase'
           \/ wire' = <<>> /\ Finished'
<1>0. /\ TypeOK /\ msg.data \in Seq(Byte) /\ Len(msg.data) \in Nat
      /\ wire \in Groups /\ wire' \in Groups /\ client.us \in BOOLEAN
  BY DEF TypeInv, TypeOK, ItemType, Groups, Group
<1>. DEFINE C == FirstByte(wire)
<1>1. /\ wire' = ButFirstByte(wire) /\ C \in Byte /\ Step(C)
      /\ UNCHANGED <<msg, pristine, client>>
  BY <1>0, ReadStep
<1>. HIDE DEF C
<1>2. PICK g : g = ClientEscapes(msg.data, client.us)
  OBVIOUS
<1>3. /\ g \in Groups /\ Len(g) = Len(msg.data)
      /\ \A i \in 1 .. Len(msg.data) :
            g[i] = IF msg.data[i] = IAC THEN <<IAC, IAC>>
                   ELSE IF /\ msg.data[i] = CR /\ ~client.us
                           /\ ~(i < Len(msg.data) /\ msg.data[i + 1] = LF)
                        THEN <<CR, NUL>> ELSE <<msg.data[i]>>
  BY <1>0, <1>2, EscapeGroups
<1>4. ClientEscapes(msg.data, client.us)' = g
  BY <1>1, <1>2
<1>5. PICK k \in 1 .. Len(msg.data) : DataAt(g, k)
  BY <1>2 DEF DataPhase
<1>6. msg.data[k] \in Byte /\ k \in Nat
  BY <1>0
<1>7. CR # NUL /\ CR # IAC /\ NUL # IAC /\ NUL # LF
  BY DEF CR, NUL, IAC, LF
<1>8. /\ pristine => Agree(tnstate)
      /\ msg.data # <<>> /\ msg.cmds = <<>> /\ heard = <<>>
  BY DEF DataPhase
<1>9. pristine => tnstate.is_do = client.us
  BY <1>8 DEF Agree
<1>10. ASSUME DataAt(g, k)', UNCHANGED <<tnstate, heard>> PROVE DataPhase'
  BY <1>1, <1>4, <1>8, <1>10 DEF DataPhase, Agree
<1>11. CASE /\ Rest(wire, g, k) /\ IsNormal /\ Delivered(k - 1)
            /\ pristine /\ rxLast = CR => client.us \/ msg.data[k] = LF
  <2>1. Left(wire, g, k, g[k])
    <3>1. k # Len(g) + 1
      BY <1>3, <1>0
    <3>. QED  BY <3>1, <1>0, <1>3, <1>11, RestLeft
  <2>2. /\ IACEscape' = IF C = IAC THEN "Received" ELSE "Normal"
        /\ toDev' = IF C = IAC \/ (~tnstate.is_do /\ C = NUL /\ rxLast = CR)
                    THEN toDev ELSE toDev \o <<C>>
        /\ UNCHANGED <<tnstate, heard>> /\ rxLast' = C
    BY <1>0, <1>1, <1>11, StepNormal DEF IsNormal
  <2>3. CASE msg.data[k] = IAC
    <3>1. g[k] = <<IAC, IAC>>
      BY <1>3, <2>3
    <3>2. C = IAC /\ wire' # <<>> /\ Left(wire', g, k, <<IAC>>)
      BY <1>0, <1>1, <1>3, <2>1, <3>1, Left2, Bytes DEF C
    <3>3. Delivered(k - 1)'
      BY <1>1, <1>11, <2>2, <3>2 DEF Delivered
    <3>4. DataAt(g, k)'
      BY <1>1, <2>2, <2>3, <3>2, <3>3 DEF DataAt
    <3>. QED  BY <1>10, <2>2, <3>2, <3>4
  <2>4. CASE /\ msg.data[k] # IAC /\ msg.data[k] = CR /\ ~client.us
             /\ ~(k < Len(msg.data) /\ msg.data[k + 1] = LF)
    <3>1. g[k] = <<CR, NUL>>
      BY <1>3, <2>4
    <3>2. C = CR /\ wire' # <<>> /\ Left(wire', g, k, <<NUL>>)
      BY <1>0, <1>1, <1>3, <2>1, <3>1, Left2, Bytes DEF C
    <3>3. toDev' = toDev \o <<msg.data[k]>> /\ IsNormal'
      BY <1>7, <2>2, <2>4, <3>2 DEF IsNormal
    <3>4. Delivered(k)'
      BY <1>1, <1>11, <3>3, DeliveredMore
    <3>5. DataAt(g, k)'
      BY <1>1, <2>2, <2>4, <3>2, <3>3, <3>4 DEF DataAt
    <3>. QED  BY <1>10, <2>2, <3>2, <3>5
  <2>5. CASE /\ msg.data[k] # IAC
             /\ ~(/\ msg.data[k] = CR /\ ~client.us
                  /\ ~(k < Len(msg.data) /\ msg.data[k + 1] = LF))
    <3>1. g[k] = <<msg.data[k]>>
      BY <1>3, <2>5
    <3>2. C = msg.data[k] /\ Rest(wire', g, k + 1)
      BY <1>0, <1>1, <1>3, <1>6, <2>1, <3>1, Left1 DEF C
    <3>3. Plain(msg.data) => C # NUL
      BY <1>0, <3>2, PlainByte
    <3>4. pristine => ~(~tnstate.is_do /\ C = NUL /\ rxLast = CR)
      BY <1>7, <1>9, <1>11, <3>2
    <3>5. pristine \/ Plain(msg.data) => toDev' = toDev \o <<msg.data[k]>>
      BY <2>2, <2>5, <3>2, <3>3, <3>4
    <3>6. Delivered(k)'
      BY <1>1, <1>11, <3>5, DeliveredMore
    <3>7. IsNormal'
      BY <2>2, <2>5, <3>2 DEF IsNormal
    <3>8. rxLast' = CR => /\ msg.data[k] = CR
                          /\ client.us \/ (k < Len(msg.data) /\ msg.data[k + 1] = LF)
      BY <2>2, <2>5, <3>2
    <3>. QED  BY <1>2, <2>2, <3>2, <3>6, <3>7, <3>8, DataDone
  <2>. QED  BY <2>3, <2>4, <2>5
<1>12. CASE /\ Left(wire, g, k, <<IAC>>) /\ IACEscape = "Received" /\ Delivered(k - 1)
            /\ msg.data[k] = IAC
  <2>1. C = IAC /\ Rest(wire', g, k + 1)
    BY <1>0, <1>1, <1>3, <1>12, Left1, Bytes DEF C
  <2>2. /\ IsNormal' /\ toDev' = toDev \o <<IAC>>
        /\ UNCHANGED <<tnstate, heard>> /\ rxLast' = IAC
    BY <1>0, <1>1, <1>12, <2>1, StepReceived DEF IsNormal
  <2>3. Delivered(k)'
    BY <1>1, <1>12, <2>2, DeliveredMore
  <2>. QED  BY <1>2, <1>7, <2>1, <2>2, <2>3, DataDone
<1>13. CASE /\ Left(wire, g, k, <<NUL>>) /\ IsNormal /\ Delivered(k)
            /\ msg.data[k] = CR /\ rxLast = CR /\ ~client.us
  <2>1. C = NUL /\ Rest(wire', g, k + 1)
    BY <1>0, <1>1, <1>3, <1>13, Left1, Bytes DEF C
  <2>2. /\ IsNormal' /\ UNCHANGED <<tnstate, heard>> /\ rxLast' = NUL
        /\ ~tnstate.is_do => toDev' = toDev
    BY <1>0, <1>1, <1>7, <1>13, <2>1, StepNormal DEF IsNormal
  <2>3. ~Plain(msg.data)
    BY <1>0, <1>13, PlainByte
  <2>4. Delivered(k)'
    BY <1>1, <1>9, <1>13, <2>2, <2>3 DEF Delivered
  <2>. QED  BY <1>2, <1>7, <2>1, <2>2, <2>4, DataDone
<1>. QED  BY <1>5, <1>11, <1>12, <1>13 DEF DataAt

----------------------------------------------------------------------------
(* A parser in step: suboptions.                                           *)

LEMMA AppendTuples ==
    /\ \A a, b, c \in Byte : Append(<<a, b>>, c) = <<a, b, c>>
    /\ \A a, b, c, d \in Byte : Append(<<a, b, c>>, d) = <<a, b, c, d>>
<1>1. ASSUME NEW a \in Byte, NEW b \in Byte, NEW c \in Byte
      PROVE  Append(<<a, b>>, c) = <<a, b, c>>
  <2>. DEFINE s == <<a, b>>
              t == Append(s, c)
  <2>1. s \in Seq(Byte) /\ Len(s) = 2 /\ s[1] = a /\ s[2] = b
    OBVIOUS
  <2>. HIDE DEF s
  <2>2. /\ t \in Seq(Byte) /\ Len(t) = Len(s) + 1 /\ t[Len(s) + 1] = c
        /\ \A i \in 1 .. Len(s) : t[i] = s[i]
    BY <2>1, Appended
  <2>. HIDE DEF t
  <2>3. t \in Seq(Byte) /\ Len(t) = 3 /\ t[1] = a /\ t[2] = b /\ t[3] = c
    BY <2>1, <2>2
  <2>4. t = <<t[1], t[2], t[3]>>
    BY <2>3
  <2>. QED  BY <2>3, <2>4 DEF t, s
<1>2. ASSUME NEW a \in Byte, NEW b \in Byte, NEW c \in Byte, NEW d \in Byte
      PROVE  Append(<<a, b, c>>, d) = <<a, b, c, d>>
  <2>. DEFINE s == <<a, b, c>>
              t == Append(s, d)
  <2>1. s \in Seq(Byte) /\ Len(s) = 3 /\ s[1] = a /\ s[2] = b /\ s[3] = c
    OBVIOUS
  <2>. HIDE DEF s
  <2>2. /\ t \in Seq(Byte) /\ Len(t) = Len(s) + 1 /\ t[Len(s) + 1] = d
        /\ \A i \in 1 .. Len(s) : t[i] = s[i]
    BY <2>1, Appended
  <2>. HIDE DEF t
  <2>3. t \in Seq(Byte) /\ Len(t) = 4 /\ t[1] = a /\ t[2] = b /\ t[3] = c /\ t[4] = d
    BY <2>1, <2>2
  <2>4. t = <<t[1], t[2], t[3], t[4]>>
    BY <2>3
  <2>. QED  BY <2>3, <2>4 DEF t, s
<1>. QED  BY <1>1, <1>2

LEMMA HeadRead ==
    ASSUME TypeInv, EscRedirectChar, NEW g \in Groups, NEW code \in Byte, HeadPhase(g, code)
    PROVE  /\ UNCHANGED <<toDev, heard, tnstate>>
           /\ \/ wire' # <<>> /\ HeadPhase(g, code)'
              \/ Rest(wire', g, 2) /\ Started(code, 4)' /\ IACSigEscape' = "Normal"
<1>0. TypeOK /\ wire \in Groups
  BY Typed
<1>. DEFINE C == FirstByte(wire)
<1>1. wire' = ButFirstByte(wire) /\ C \in Byte /\ Step(C)
  BY <1>0, ReadStep
<1>. HIDE DEF C
<1>2. IAC \in Byte /\ SB \in Byte /\ COM_PORT \in Byte /\ SB # IAC
  BY Bytes DEF SB, IAC
<1>3. CASE Left(wire, g, 1, <<IAC, SB, COM_PORT, code>>) /\ IsNormal
  <2>1. C = IAC /\ wire' # <<>> /\ Left(wire', g, 1, <<SB, COM_PORT, code>>)
    BY <1>0, <1>1, <1>2, <1>3, Left4 DEF C
  <2>2. IACEscape' = "Received" /\ UNCHANGED <<toDev, heard, tnstate>>
    BY <1>0, <1>1, <1>3, <2>1, StepNormal DEF IsNormal
  <2>. QED  BY <2>1, <2>2 DEF HeadPhase
<1>4. CASE Left(wire, g, 1, <<SB, COM_PORT, code>>) /\ IACEscape = "Received"
  <2>1. C = SB /\ wire' # <<>> /\ Left(wire', g, 1, <<COM_PORT, code>>)
    BY <1>0, <1>1, <1>2, <1>4, Left3 DEF C
  <2>2. /\ IACEscape' = "ComReceiving" /\ IACSigEscape' = "Normal"
        /\ IACCommand' = <<IAC, SB>> /\ UNCHANGED <<toDev, heard, tnstate>>
    BY <1>0, <1>1, <1>2, <1>4, <2>1, StepReceived
  <2>. QED  BY <2>1, <2>2 DEF HeadPhase
<1>5. CASE /\ Left(wire, g, 1, <<COM_PORT, code>>) /\ IACEscape = "ComReceiving"
           /\ IACCommand = <<IAC, SB>> /\ IACSigEscape = "Normal"
  <2>1. C = COM_PORT /\ wire' # <<>> /\ Left(wire', g, 1, <<code>>)
    BY <1>0, <1>1, <1>2, <1>5, Left2 DEF C
  <2>2. InHead(2)
    BY <1>5 DEF InHead
  <2>3. /\ IACCommand' = Append(IACCommand, C)
        /\ UNCHANGED <<IACEscape, IACSigEscape, tnstate, heard, toDev>>
    BY <1>0, <1>1, <1>5, <2>2, StepHead
  <2>4. IACCommand' = <<IAC, SB, COM_PORT>>
    BY <1>2, <1>5, <2>1, <2>3, AppendTuples
  <2>. QED  BY <1>5, <2>1, <2>3, <2>4 DEF HeadPhase
<1>6. CASE /\ Left(wire, g, 1, <<code>>) /\ IACEscape = "ComReceiving"
           /\ IACCommand = <<IAC, SB, COM_PORT>> /\ IACSigEscape = "Normal"
  <2>1. C = code /\ Rest(wire', g, 2)
    BY <1>0, <1>1, <1>6, Left1 DEF C
  <2>2. InHead(3)
    BY <1>6 DEF InHead
  <2>3. /\ IACCommand' = Append(IACCommand, C)
        /\ UNCHANGED <<IACEscape, IACSigEscape, tnstate, heard, toDev>>
    BY <1>0, <1>1, <1>6, <2>2, StepHead
  <2>4. IACCommand' = <<IAC, SB, COM_PORT, code>>
    BY <1>2, <1>6, <2>1, <2>3, AppendTuples
  <2>5. Started(code, 4)'
    BY <1>6, <2>3, <2>4 DEF Started
  <2>. QED  BY <1>6, <2>1, <2>3, <2>5
<1>. QED  BY <1>3, <1>4, <1>5, <1>6 DEF HeadPhase

\* A command has the length that sercd expects.
Fits(code, par) ==
    /\ code # SIGNATURE /\ code \in Byte /\ par \in Seq(Byte) /\ Len(par) \in 0 .. 4
    /\ \A cmd : cmd[2] = SB /\ cmd[4] = code => CommandLength(cmd) = Len(par) + 6

\* The commands that the client sends, and the lengths that sercd has for them.
LEMMA CommandCodes ==
    ASSUME NEW q \in Commands
    PROVE  /\ q[1] \in {MODEMSTATE_MASK, BAUDRATE, SUSPEND, RESUME}
           /\ q[1] # SIGNATURE /\ q[1] \in Byte /\ q[2] \in Seq(Byte)
           /\ Len(q[2]) \in 0 .. 4 /\ Fits(q[1], q[2])
<1>1. ASSUME NEW p \in Parameter
      PROVE  <<p>> \in Seq(Byte) /\ Len(<<p>>) = 1
  BY CommandTypes
<1>2. \E code, par :
          /\ q = <<code, par>> /\ par \in Seq(Byte)
          /\ \/ code = MODEMSTATE_MASK /\ Len(par) = 1
             \/ code = BAUDRATE /\ Len(par) = 4
             \/ code \in {SUSPEND, RESUME} /\ Len(par) = 0
  <2>1. CASE \E p \in Parameter : q = <<MODEMSTATE_MASK, <<p>>>>
    BY <1>1, <2>1
  <2>2. CASE \E r \in Rate : q = <<BAUDRATE, r>>
    BY <2>2, CommandTypes
  <2>3. CASE \E code \in {SUSPEND, RESUME} : q = <<code, <<>>>>
    <3>1. <<>> \in Seq(Byte) /\ Len(<<>>) = 0
      OBVIOUS
    <3>. QED  BY <2>3, <3>1
  <2>. QED  BY <2>1, <2>2, <2>3 DEF Commands
<1>3. /\ q[2] \in Seq(Byte)
      /\ \/ q[1] = MODEMSTATE_MASK /\ Len(q[2]) = 1
         \/ q[1] = BAUDRATE /\ Len(q[2]) = 4
         \/ q[1] \in {SUSPEND, RESUME} /\ Len(q[2]) = 0
  BY <1>2
<1>4. ASSUME NEW cmd, cmd[2] = SB, cmd[4] = q[1]
      PROVE  CommandLength(cmd) = Len(q[2]) + 6
  <2>1. CommandLength(cmd) =
            IF cmd[4] = BAUDRATE THEN 10 ELSE IF cmd[4] \in {SUSPEND, RESUME} THEN 6 ELSE 7
    BY <1>4 DEF CommandLength, SUSPEND, RESUME, BAUDRATE
  <2>2. CASE q[1] = MODEMSTATE_MASK /\ Len(q[2]) = 1
    <3>1. q[1] # BAUDRATE /\ q[1] \notin {SUSPEND, RESUME}
      BY <2>2 DEF MODEMSTATE_MASK, BAUDRATE, SUSPEND, RESUME
    <3>2. CommandLength(cmd) = 7
      BY <1>4, <2>1, <3>1
    <3>. QED  BY <2>2, <3>2
  <2>3. CASE q[1] = BAUDRATE /\ Len(q[2]) = 4
    <3>1. CommandLength(cmd) = 10
      BY <1>4, <2>1, <2>3
    <3>. QED  BY <2>3, <3>1
  <2>4. CASE q[1] \in {SUSPEND, RESUME} /\ Len(q[2]) = 0
    <3>1. q[1] # BAUDRATE
      BY <2>4 DEF BAUDRATE, SUSPEND, RESUME
    <3>2. CommandLength(cmd) = 6
      BY <1>4, <2>1, <2>4, <3>1
    <3>. QED  BY <2>4, <3>2
  <2>. QED  BY <1>3, <2>2, <2>3, <2>4
<1>5. q[1] \in {MODEMSTATE_MASK, BAUDRATE, SUSPEND, RESUME} /\ Len(q[2]) \in 0 .. 4
  BY <1>3
<1>6. q[1] # SIGNATURE /\ q[1] \in Byte
  BY <1>5, Bytes DEF SIGNATURE, MODEMSTATE_MASK, BAUDRATE, SUSPEND, RESUME
<1>. QED  BY <1>3, <1>4, <1>5, <1>6 DEF Fits

LEMMA StartedFixed ==
    ASSUME TypeOK, NEW code, NEW par, Fits(code, par), NEW j \in 0 .. Len(par) + 1,
           Started(code, j + 4)
    PROVE  /\ Len(par) - j + 2 \in 1 .. 6 /\ InFixed(Len(par) - j + 2)
<1>1. /\ Len(IACCommand) = j + 4 /\ IACCommand[2] = SB /\ IACCommand[4] = code
  BY DEF Started
<1>2. CommandLength(IACCommand) = Len(par) + 6 /\ code # SIGNATURE /\ Len(par) \in 0 .. 4
  BY <1>1 DEF Fits
<1>3. /\ Len(par) - j + 2 \in 1 .. 6 /\ j + 4 >= 4
      /\ (j + 4) + (Len(par) - j + 2) = Len(par) + 6
  <2>. DEFINE n == Len(par)
  <2>1. n \in 0 .. 4 /\ j \in 0 .. n + 1
    BY <1>2
  <2>. HIDE DEF n
  <2>2. /\ n - j + 2 \in 1 .. 6 /\ j + 4 >= 4 /\ (j + 4) + (n - j + 2) = n + 6
    BY <2>1
  <2>. QED  BY <2>2 DEF n
<1>. QED  BY <1>1, <1>2, <1>3 DEF InFixed

LEMMA StartedGrows ==
    ASSUME TypeOK, NEW C \in Byte, NEW code, NEW n \in Nat, n >= 4, Started(code, n),
           IACCommand' = Append(IACCommand, C), IACEscape' = IACEscape
    PROVE  /\ Started(code, n + 1)' /\ IACCommand'[n + 1] = C
           /\ \A i \in 1 .. n : IACCommand'[i] = IACCommand[i]
<1>1. /\ Len(IACCommand) = n /\ IACCommand[1] = IAC /\ IACCommand[2] = SB
      /\ IACCommand[3] = COM_PORT /\ IACCommand[4] = code /\ IACEscape = "ComReceiving"
  BY DEF Started
<1>2. /\ Len(IACCommand') = n + 1 /\ IACCommand'[n + 1] = C
      /\ \A i \in 1 .. n : IACCommand'[i] = IACCommand[i]
  BY <1>1, Grows
<1>3. /\ IACCommand'[1] = IAC /\ IACCommand'[2] = SB
      /\ IACCommand'[3] = COM_PORT /\ IACCommand'[4] = code
  BY <1>1, <1>2
<1>. QED  BY <1>1, <1>2, <1>3 DEF Started

\* What HandleIACCommand takes a complete command for.
LEMMA CommandTaken ==
    ASSUME TypeOK, NEW code, NEW par, Fits(code, par), NEW C \in Byte,
           Started(code, Len(par) + 5),
           \A i \in 1 .. Len(par) : IACCommand[i + 4] = par[i]
    PROVE  Taken(Append(IACCommand, C)) =
               IF tnstate.com_port THEN <<<<SB, code>> \o par>> ELSE <<>>
<1>. DEFINE cmd == Append(IACCommand, C)
            n == Len(par)
<1>1. code # SIGNATURE /\ code \in Byte /\ par \in Seq(Byte) /\ n \in 0 .. 4 /\ Len(par) = n
  BY DEF Fits
<1>2. /\ Len(IACCommand) = n + 5 /\ IACCommand[2] = SB
      /\ IACCommand[3] = COM_PORT /\ IACCommand[4] = code /\ IACCommand \in Seq(Byte)
  BY DEF Started, TypeOK
<1>3. /\ cmd \in Seq(Byte) /\ Len(cmd) = n + 6
      /\ \A i \in 1 .. n + 5 : cmd[i] = IACCommand[i]
  <2>1. /\ cmd \in Seq(Byte) /\ Len(cmd) = Len(IACCommand) + 1
        /\ \A i \in 1 .. Len(IACCommand) : cmd[i] = IACCommand[i]
    BY <1>2, Appended
  <2>. HIDE DEF cmd, n
  <2>. QED  BY <2>1, <1>1, <1>2
<1>. HIDE DEF cmd
<1>4. cmd[2] = SB /\ cmd[3] = COM_PORT /\ cmd[4] = code
  <2>. HIDE DEF n
  <2>1. 2 \in 1 .. n + 5 /\ 3 \in 1 .. n + 5 /\ 4 \in 1 .. n + 5
    BY <1>1
  <2>. QED  BY <1>2, <1>3, <2>1
<1>5. CommandLength(cmd) = n + 6
  BY <1>4 DEF Fits
<1>. HIDE DEF n
<1>6. ASSUME NEW i \in 1 .. n PROVE cmd[i + 4] = par[i]
  <2>1. i + 4 \in 1 .. n + 5
    BY <1>1
  <2>. QED  BY <2>1, <1>3 DEF n
<1>. DEFINE sub == SubSeq(cmd, 4, n + 4)
<1>7. /\ sub \in Seq(Byte) /\ Len(sub) = n + 1
      /\ \A i \in 1 .. n + 1 : sub[i] = cmd[i + 3]
  <2>1. 4 \in 1 .. Len(cmd) + 1 /\ n + 4 \in 4 - 1 .. Len(cmd)
    BY <1>1, <1>3
  <2>2. /\ sub \in Seq(Byte) /\ Len(sub) = (n + 4) - 4 + 1
        /\ \A i \in 1 .. (n + 4) - 4 + 1 : sub[i] = cmd[4 + i - 1]
    BY <2>1, <1>3, SubSeqProperties
  <2>. HIDE DEF sub
  <2>3. ASSUME NEW i \in 1 .. n + 1 PROVE sub[i] = cmd[i + 3]
    <3>1. i \in 1 .. (n + 4) - 4 + 1 /\ 4 + i - 1 = i + 3
      BY <1>1
    <3>. QED  BY <3>1, <2>2
  <2>. QED  BY <2>2, <2>3, <1>1
<1>. HIDE DEF sub
<1>. DEFINE a == <<SB>>
            b == <<SB, code>>
            x == a \o sub
            y == b \o par
<1>8. a \in Seq(Byte) /\ Len(a) = 1 /\ a[1] = SB
      /\ b \in Seq(Byte) /\ Len(b) = 2 /\ b[1] = SB /\ b[2] = code
  BY <1>1, Bytes
<1>. HIDE DEF a, b
<1>9. /\ x \in Seq(Byte) /\ Len(x) = n + 2
      /\ \A i \in 1 .. n + 2 : x[i] = IF i <= 1 THEN a[i] ELSE sub[i - 1]
  <2>1. /\ x \in Seq(Byte) /\ Len(x) = Len(a) + Len(sub)
        /\ \A i \in 1 .. Len(a) + Len(sub) :
              x[i] = IF i <= Len(a) THEN a[i] ELSE sub[i - Len(a)]
    BY <1>7, <1>8, ConcatProperties
  <2>. HIDE DEF x
  <2>2. Len(a) + Len(sub) = n + 2 /\ Len(a) = 1
    BY <1>1, <1>7, <1>8
  <2>. QED  BY <2>1, <2>2
<1>10. /\ y \in Seq(Byte) /\ Len(y) = n + 2
       /\ \A i \in 1 .. n + 2 : y[i] = IF i <= 2 THEN b[i] ELSE par[i - 2]
  <2>1. /\ y \in Seq(Byte) /\ Len(y) = Len(b) + Len(par)
        /\ \A i \in 1 .. Len(b) + Len(par) :
              y[i] = IF i <= Len(b) THEN b[i] ELSE par[i - Len(b)]
    BY <1>1, <1>8, ConcatProperties
  <2>. HIDE DEF y
  <2>2. Len(b) + Len(par) = n + 2 /\ Len(b) = 2
    BY <1>1, <1>8
  <2>. QED  BY <2>1, <2>2
<1>. HIDE DEF x, y
<1>11. ASSUME NEW i \in 1 .. n + 2 PROVE x[i] = y[i]
  <2>0. i \in Int /\ n \in Nat
    BY <1>1
  <2>1. CASE i = 1
    BY <2>0, <2>1, <1>8, <1>9, <1>10
  <2>2. CASE i = 2
    <3>1. x[2] = sub[1] /\ y[2] = b[2] /\ 1 \in 1 .. n + 1
      BY <2>0, <2>2, <1>9, <1>10
    <3>2. sub[1] = cmd[4]
      BY <3>1, <1>7
    <3>. QED  BY <2>2, <3>1, <3>2, <1>4, <1>8
  <2>3. CASE i # 1 /\ i # 2
    <3>1. x[i] = sub[i - 1] /\ y[i] = par[i - 2] /\ i - 1 \in 1 .. n + 1 /\ i - 2 \in 1 .. n
      BY <2>0, <2>3, <1>9, <1>10
    <3>2. sub[i - 1] = cmd[(i - 1) + 3] /\ cmd[(i - 2) + 4] = par[i - 2]
      BY <3>1, <1>6, <1>7
    <3>3. (i - 1) + 3 = (i - 2) + 4
      BY <2>0
    <3>. QED  BY <3>1, <3>2, <3>3
  <2>. QED  BY <2>1, <2>2, <2>3
<1>12. x = y
  BY <1>9, <1>10, <1>11, SeqEqual
<1>13. (n + 6) - 2 = n + 4
  BY <1>1
<1>14. Taken(cmd) = IF tnstate.com_port THEN <<x>> ELSE <<>>
  BY <1>1, <1>4, <1>5, <1>13 DEF Taken, x, a, sub
<1>. QED  BY <1>12, <1>14 DEF cmd, y, b

\* A message that is a suboption: the groups of its bytes.
LEMMA SubMessage ==
    ASSUME NEW code \in Byte, NEW par \in Seq(Byte), NEW g,
           g = Suboption(code, ClientEscapes(par, TRUE))
    PROVE  /\ g \in Groups /\ Len(g) = Len(par) + 2 /\ Len(par) \in Nat
           /\ g[1] = <<IAC, SB, COM_PORT, code>>
           /\ \A i \in 1 .. Len(par) :
                 g[i + 1] = IF par[i] = IAC THEN <<IAC, IAC>> ELSE <<par[i]>>
           /\ g[Len(par) + 2] = <<IAC, SE>>
<1>. DEFINE e == ClientEscapes(par, TRUE)
<1>1. /\ e \in Groups /\ Len(e) = Len(par)
      /\ \A i \in 1 .. Len(par) :
            e[i] = IF par[i] = IAC THEN <<IAC, IAC>> ELSE <<par[i]>>
  BY EscapeCommand
<1>. HIDE DEF e
<1>2. g = Suboption(code, e)
  BY DEF e
<1>3. /\ g \in Groups /\ Len(g) = Len(e) + 2 /\ Len(e) \in Nat
      /\ g[1] = <<IAC, SB, COM_PORT, code>>
      /\ \A i \in 1 .. Len(e) : g[i + 1] = e[i]
      /\ g[Len(e) + 2] = <<IAC, SE>>
  <2>. DEFINE h == Suboption(code, e)
  <2>1. /\ h \in Groups /\ Len(h) = Len(e) + 2 /\ Len(e) \in Nat
        /\ h[1] = <<IAC, SB, COM_PORT, code>>
        /\ \A i \in 1 .. Len(e) : h[i + 1] = e[i]
        /\ h[Len(e) + 2] = <<IAC, SE>>
    BY <1>1, SubGroups
  <2>2. g = h
    BY <1>2
  <2>. HIDE DEF h
  <2>. QED  BY <2>1, <2>2
<1>4. ASSUME NEW i \in 1 .. Len(par)
      PROVE  g[i + 1] = IF par[i] = IAC THEN <<IAC, IAC>> ELSE <<par[i]>>
  <2>1. i \in 1 .. Len(e)
    BY <1>1
  <2>2. g[i + 1] = e[i]
    BY <2>1, <1>3
  <2>. QED  BY <2>2, <1>1
<1>. QED  BY <1>1, <1>3, <1>4

LEMMA NotDoubled ==
    ASSUME NEW code \in Byte, NEW par \in Seq(Byte), IAC \notin ToSet(par)
    PROVE  <<<<SB, code>> \o par>> # Doubled
<1>. DEFINE b == <<SB, code>>
            y == b \o par
            z == <<SB, MODEMSTATE_MASK, IAC>>
<1>1. b \in Seq(Byte) /\ Len(b) = 2
  BY Bytes
<1>2. z \in Seq(Byte) /\ Len(z) = 3 /\ z[3] = IAC
  BY Bytes
<1>. HIDE DEF b, z
<1>3. /\ Len(y) = Len(b) + Len(par)
      /\ \A i \in 1 .. Len(b) + Len(par) :
            y[i] = IF i <= Len(b) THEN b[i] ELSE par[i - Len(b)]
  BY <1>1, ConcatProperties
<1>. HIDE DEF y
<1>4. y # z
  <2>. SUFFICES ASSUME y = z PROVE FALSE
    OBVIOUS
  <2>0. Len(par) \in Nat
    OBVIOUS
  <2>1. Len(par) = 1
    <3>1. Len(y) = 3
      BY <1>2
    <3>2. 3 = 2 + Len(par)
      BY <3>1, <1>1, <1>3
    <3>. DEFINE m == Len(par)
    <3>3. m \in Nat /\ 3 = 2 + m
      BY <2>0, <3>2
    <3>. HIDE DEF m
    <3>4. m = 1
      BY <3>3
    <3>. QED  BY <3>4 DEF m
  <2>2. y[3] = par[1]
    <3>1. 3 \in 1 .. Len(b) + Len(par) /\ ~(3 <= Len(b)) /\ 3 - Len(b) = 1
      BY <2>1, <1>1
    <3>. QED  BY <3>1, <1>3
  <2>3. par[1] \in ToSet(par)
    BY <2>1 DEF ToSet
  <2>. QED  BY <2>2, <2>3, <1>2
<1>5. <<y>> # <<z>>
  BY <1>4
<1>. QED  BY <1>5 DEF Doubled, y, b, z

LEMMA CommandRead ==
    ASSUME TypeInv, TypeInv', EscRedirectChar, CommandPhase
    PROVE  \/ wire' # <<>> /\ CommandPhase'
           \/ wire' = <<>> /\ Finished'
<1>0. TypeOK /\ wire \in Groups /\ wire' \in Groups /\ heard \in Seq(Seq(Nat))
  <2>1. TypeOK /\ wire \in Groups /\ heard \in Seq(Seq(Nat))
    BY Typed DEF ItemType
  <2>. QED  BY <2>1, ReadStep
<1>. DEFINE C == FirstByte(wire)
<1>1. /\ wire' = ButFirstByte(wire) /\ C \in Byte /\ Step(C)
      /\ UNCHANGED <<msg, pristine, client>>
  BY <1>0, ReadStep
<1>. HIDE DEF C
<1>2. PICK q \in Commands :
        /\ Command(q[1], q[2]) /\ IAC \notin ToSet(q[2])
        /\ CommandAt(q[1], q[2], Suboption(q[1], ClientEscapes(q[2], TRUE)))
  BY DEF CommandPhase
<1>. DEFINE code == q[1]
            par == q[2]
            n == Len(q[2])
<1>3. code \in Byte /\ par \in Seq(Byte) /\ Len(par) = n /\ n \in Nat /\ n \in 0 .. 4
  BY CommandCodes
<1>4. PICK g : g = Suboption(q[1], ClientEscapes(q[2], TRUE))
  OBVIOUS
<1>5. /\ g \in Groups /\ Len(g) = n + 2
      /\ \A i \in 1 .. n : par[i] # IAC /\ par[i] \in Byte /\ g[i + 1] = <<par[i]>>
      /\ g[n + 2] = <<IAC, SE>>
  <2>1. /\ g \in Groups /\ Len(g) = n + 2
        /\ \A i \in 1 .. n : g[i + 1] = IF par[i] = IAC THEN <<IAC, IAC>> ELSE <<par[i]>>
        /\ g[n + 2] = <<IAC, SE>>
    <3>1. g = Suboption(code, ClientEscapes(par, TRUE))
      BY <1>4
    <3>2. code \in Byte /\ par \in Seq(Byte) /\ Len(par) = n
      BY <1>3
    <3>. HIDE DEF code, par, n
    <3>. QED  BY <3>1, <3>2, SubMessage
  <2>2. \A i \in 1 .. n : par[i] # IAC /\ par[i] \in Byte
    BY <1>2, <1>3 DEF ToSet
  <2>. QED  BY <2>1, <2>2
<1>6. CommandAt(code, par, g)
  BY <1>2, <1>4
<1>7. ASSUME CommandAt(code, par, g)', UNCHANGED <<toDev, heard, tnstate>>
      PROVE  CommandPhase'
  <2>1. Command(q[1], q[2])'
    BY <1>1, <1>2, <1>7 DEF Command, Untouched, Agree
  <2>. QED  BY <1>2, <1>4, <1>7, <2>1 DEF CommandPhase
<1>8. IAC \in Byte /\ SE \in Byte
  BY Bytes
<1>9. CASE HeadPhase(g, code)
  <2>1. /\ UNCHANGED <<toDev, heard, tnstate>>
        /\ \/ wire' # <<>> /\ HeadPhase(g, code)'
           \/ Rest(wire', g, 2) /\ Started(code, 4)'
    BY <1>3, <1>5, <1>9, HeadRead
  <2>2. CASE wire' # <<>> /\ HeadPhase(g, code)'
    <3>1. CommandAt(code, par, g)'
      BY <2>2 DEF CommandAt
    <3>. QED  BY <1>7, <2>1, <2>2, <3>1
  <2>3. CASE Rest(wire', g, 2) /\ Started(code, 4)'
    <3>1. wire' # <<>>
      <4>1. 2 # Len(g) + 1
        BY <1>3, <1>5
      <4>. QED  BY <4>1, <1>0, <1>5, <2>3, RestLeft
    <3>2. 0 \in 0 .. Len(par) /\ 0 + 2 = 2 /\ 0 + 4 = 4
      BY <1>3
    <3>3. CommandAt(code, par, g)'
      BY <2>3, <3>2 DEF CommandAt
    <3>. QED  BY <1>7, <2>1, <3>1, <3>3
  <2>. QED  BY <2>1, <2>2, <2>3
<1>10. ASSUME NEW j \in 0 .. Len(par), Rest(wire, g, j + 2), Started(code, j + 4),
              \A i \in 1 .. j : IACCommand[i + 4] = par[i]
       PROVE  wire' # <<>> /\ CommandPhase'
  <2>0. j \in 0 .. n /\ j \in Nat /\ j + 4 \in Nat /\ j + 4 >= 4
    BY <1>3, <1>10
  <2>1. Left(wire, g, j + 2, g[j + 2])
    <3>1. j + 2 # Len(g) + 1
      BY <1>3, <1>5, <2>0
    <3>. QED  BY <3>1, <1>0, <1>5, <1>10, RestLeft
  <2>. DEFINE need == n - j + 2
  <2>2. need \in 1 .. 6 /\ InFixed(need)
    <3>1. j \in 0 .. Len(q[2]) + 1
      BY <2>0, <1>3
    <3>. QED  BY <3>1, <1>0, <1>10, StartedFixed, CommandCodes
  <2>3. need \in Nat /\ need # 1
    BY <2>0, <1>3
  <2>. HIDE DEF need
  <2>4. IACEscape = "ComReceiving"
    BY <1>10 DEF Started
  <2>5. /\ IACCommand' = Append(IACCommand, C)
        /\ UNCHANGED <<IACEscape, tnstate, heard, toDev>>
    BY <1>0, <1>1, <2>2, <2>3, <2>4, StepFixed
  <2>6. /\ Started(code, (j + 4) + 1)' /\ IACCommand'[(j + 4) + 1] = C
        /\ \A i \in 1 .. j + 4 : IACCommand'[i] = IACCommand[i]
    BY <1>0, <1>1, <1>10, <2>0, <2>5, StartedGrows
  <2>7. (j + 4) + 1 = j + 5
    BY <2>0
  <2>8. ASSUME NEW i \in 1 .. j PROVE IACCommand'[i + 4] = par[i]
    <3>1. i + 4 \in 1 .. j + 4
      BY <2>0
    <3>. QED  BY <3>1, <2>6, <1>10
  <2>9. CASE j = n
    <3>1. g[j + 2] = <<IAC, SE>>
      BY <1>5, <2>9
    <3>2. wire' # <<>> /\ Left(wire', g, j + 2, <<SE>>)
      BY <1>0, <1>1, <1>5, <1>8, <2>1, <3>1, Left2
    <3>3. CommandAt(code, par, g)'
      BY <1>3, <2>6, <2>7, <2>8, <2>9, <3>2 DEF CommandAt
    <3>. QED  BY <1>7, <2>5, <3>2, <3>3
  <2>10. CASE j # n
    <3>1. j + 1 \in 1 .. n /\ j + 1 \in 0 .. Len(par) /\ (j + 1) + 1 = j + 2
          /\ (j + 2) + 1 = (j + 1) + 2 /\ (j + 1) + 4 = j + 5
      BY <1>3, <2>0, <2>10
    <3>2. g[j + 2] = <<par[j + 1]>> /\ par[j + 1] \in Byte
      BY <3>1, <1>5
    <3>3. C = par[j + 1] /\ Rest(wire', g, (j + 1) + 2)
      BY <1>0, <1>1, <1>5, <2>1, <3>1, <3>2, Left1 DEF C
    <3>4. wire' # <<>>
      <4>1. (j + 1) + 2 # Len(g) + 1
        BY <1>3, <1>5, <2>0, <2>10
      <4>. QED  BY <4>1, <1>0, <1>5, <3>3, RestLeft
    <3>5. ASSUME NEW i \in 1 .. j + 1 PROVE IACCommand'[i + 4] = par[i]
      <4>1. CASE i = j + 1
        BY <4>1, <2>6, <2>7, <3>1, <3>3
      <4>2. CASE i # j + 1
        <5>1. i \in 1 .. j
          BY <4>2, <2>0
        <5>. QED  BY <5>1, <2>8
      <4>. QED  BY <4>1, <4>2
    <3>6. Started(code, (j + 1) + 4)'
      BY <2>6, <2>7, <3>1
    <3>7. CommandAt(code, par, g)'
      BY <3>1, <3>3, <3>5, <3>6 DEF CommandAt
    <3>. QED  BY <1>7, <2>5, <3>4, <3>7
  <2>. QED  BY <2>9, <2>10
<1>11. CASE /\ Left(wire, g, Len(par) + 2, <<SE>>) /\ Started(code, Len(par) + 5)
            /\ \A i \in 1 .. Len(par) : IACCommand[i + 4] = par[i]
  <2>1. C = SE /\ Rest(wire', g, (n + 2) + 1)
    BY <1>0, <1>1, <1>3, <1>5, <1>8, <1>11, Left1 DEF C
  <2>2. wire' = <<>>
    BY <1>0, <1>5, <2>1, RestEnd
  <2>3. InFixed(1)
    <3>1. n + 1 \in 0 .. Len(q[2]) + 1 /\ n - (n + 1) + 2 = 1 /\ (n + 1) + 4 = n + 5
      BY <1>3
    <3>2. Started(q[1], (n + 1) + 4)
      BY <3>1, <1>11
    <3>3. InFixed(n - (n + 1) + 2)
      BY <3>1, <3>2, <1>0, StartedFixed, CommandCodes
    <3>. QED  BY <3>1, <3>3
  <2>4. IACEscape = "ComReceiving"
    BY <1>11 DEF Started
  <2>5. /\ IsNormal' /\ rxLast' = C /\ UNCHANGED <<toDev, tnstate>>
        /\ heard' = heard \o Taken(Append(IACCommand, C))
    BY <1>0, <1>1, <2>3, <2>4, StepLast DEF IsNormal
  <2>6. Taken(Append(IACCommand, C)) =
            IF tnstate.com_port THEN <<<<SB, q[1]>> \o q[2]>> ELSE <<>>
    <3>1. Fits(q[1], q[2])
      BY CommandCodes
    <3>. QED  BY <3>1, <1>0, <1>1, <1>11, CommandTaken
  <2>7. pristine' => Agree(tnstate)' /\ tnstate.com_port
    BY <1>1, <1>2, <2>5 DEF Command, Agree
  <2>8. heard = <<>> /\ toDev = <<>> /\ msg.data = <<>> /\ msg.cmds = <<<<SB, q[1]>> \o q[2]>>
    BY <1>2 DEF Command, Untouched
  <2>9. tnstate.com_port => heard' = msg.cmds
    <3>1. <<>> \o <<<<SB, q[1]>> \o q[2]>> = <<<<SB, q[1]>> \o q[2]>>
      <4>. DEFINE y == <<SB, q[1]>> \o q[2]
      <4>. HIDE DEF y
      <4>1. <<>> \o <<y>> = <<y>>
        OBVIOUS
      <4>. QED  BY <4>1 DEF y
    <3>. QED  BY <2>5, <2>6, <2>8, <3>1
  <2>10. msg.cmds # Doubled
    BY <1>2, <1>3, <2>8, NotDoubled
  <2>11. rxLast' # CR
    BY <2>1, <2>5 DEF SE, CR
  <2>. QED  BY <1>1, <2>2, <2>5, <2>7, <2>8, <2>9, <2>10, <2>11 DEF Finished
<1>. QED  BY <1>6, <1>9, <1>10, <1>11 DEF CommandAt

LEMMA KeptFacts ==
    ASSUME NEW n \in Nat, n >= 4
    PROVE  /\ Kept(n) \in Nat /\ Kept(n) >= 4 /\ Kept(4) = 4
           /\ Kept(Kept(n) + 1) = Kept(n + 1) /\ Kept(Kept(n) + 2) = Kept(n + 2)
<1>1. SizeofIACCommand \in Nat /\ SizeofIACCommand >= 10
  BY CodecAssumption
<1>. QED  BY <1>1 DEF Kept

LEMMA StartedSignature ==
    ASSUME TypeOK, NEW n \in Nat, n >= 4, Started(SIGNATURE, Kept(n))
    PROVE  /\ IACEscape = "ComReceiving" /\ InSignature /\ Len(IACCommand) = Kept(n)
           /\ IACCommand[1] = IAC /\ IACCommand[2] = SB /\ IACCommand[3] = COM_PORT
           /\ IACCommand[4] = SIGNATURE
BY KeptFacts DEF Started, InSignature

LEMMA TextStarted ==
    ASSUME TypeOK, NEW n \in Nat, n >= 4, Started(SIGNATURE, Kept(n)),
           IACCommand' = Store(<< 0 >>), IACEscape' = IACEscape
    PROVE  Started(SIGNATURE, Kept(n + 1))'
<1>1. /\ IACEscape = "ComReceiving" /\ InSignature /\ Len(IACCommand) = Kept(n)
      /\ IACCommand[1] = IAC /\ IACCommand[2] = SB /\ IACCommand[3] = COM_PORT
      /\ IACCommand[4] = SIGNATURE
  BY StartedSignature
<1>2. /\ Len(IACCommand') = Kept(Kept(n) + 1)
      /\ \A i \in 1 .. 4 : IACCommand'[i] = IACCommand[i]
  BY <1>1, TextGrows
<1>3. /\ IACCommand'[1] = IAC /\ IACCommand'[2] = SB /\ IACCommand'[3] = COM_PORT
      /\ IACCommand'[4] = SIGNATURE
  BY <1>1, <1>2
<1>4. Kept(Kept(n) + 1) = Kept(n + 1)
  BY KeptFacts
<1>. QED  BY <1>1, <1>2, <1>3, <1>4 DEF Started

LEMMA SignatureTaken ==
    ASSUME TypeOK, NEW n \in Nat, n >= 4, Started(SIGNATURE, Kept(n))
    PROVE  Taken(Store(<<0, 0>>)) =
               IF tnstate.com_port THEN <<<<SB, SIGNATURE, Kept(n + 2)>>>> ELSE <<>>
<1>. DEFINE cmd == Store(<<0, 0>>)
<1>1. /\ Len(IACCommand) = Kept(n) /\ IACCommand[2] = SB /\ IACCommand[3] = COM_PORT
      /\ IACCommand[4] = SIGNATURE
  BY StartedSignature
<1>2. /\ Len(cmd) = Kept(Len(IACCommand) + 2)
      /\ \A i \in 1 .. Len(IACCommand) : cmd[i] = IACCommand[i]
  BY StoreTwo
<1>3. 2 \in 1 .. Len(IACCommand) /\ 3 \in 1 .. Len(IACCommand) /\ 4 \in 1 .. Len(IACCommand)
  <2>. DEFINE m == Len(IACCommand)
  <2>1. m \in Nat /\ m >= 4
    BY <1>1, KeptFacts
  <2>. HIDE DEF m
  <2>2. 2 \in 1 .. m /\ 3 \in 1 .. m /\ 4 \in 1 .. m
    BY <2>1
  <2>. QED  BY <2>2 DEF m
<1>. HIDE DEF cmd
<1>4. cmd[2] = SB /\ cmd[3] = COM_PORT /\ cmd[4] = SIGNATURE
  BY <1>1, <1>2, <1>3
<1>5. Len(cmd) = Kept(n + 2)
  BY <1>1, <1>2, KeptFacts
<1>6. Taken(cmd) = IF tnstate.com_port THEN <<<<SB, SIGNATURE, Kept(n + 2)>>>> ELSE <<>>
  BY <1>4, <1>5 DEF Taken
<1>. QED  BY <1>6 DEF cmd

LEMMA SignatureRead ==
    ASSUME TypeInv, TypeInv', EscRedirectChar, SignaturePhase
    PROVE  \/ wire' # <<>> /\ SignaturePhase'
           \/ wire' = <<>> /\ Finished'
<1>0. TypeOK /\ wire \in Groups /\ wire' \in Groups /\ heard \in Seq(Seq(Nat))
  <2>1. TypeOK /\ wire \in Groups /\ heard \in Seq(Seq(Nat))
    BY Typed DEF ItemType
  <2>. QED  BY <2>1, ReadStep
<1>. DEFINE C == FirstByte(wire)
<1>1. /\ wire' = ButFirstByte(wire) /\ C \in Byte /\ Step(C)
      /\ UNCHANGED <<msg, pristine, client>>
  BY <1>0, ReadStep
<1>. HIDE DEF C
<1>2. PICK text \in Text :
        /\ msg.data = <<>> /\ msg.cmds = <<<<SB, SIGNATURE, Kept(Len(text) + 6)>>>>
        /\ Untouched
        /\ pristine => Agree(tnstate) /\ client.com_port
        /\ SignatureAt(text, Suboption(SIGNATURE, ClientEscapes(text, TRUE)))
  BY DEF SignaturePhase
<1>3. text \in Seq(Byte) /\ Len(text) \in Nat
  BY CommandTypes
<1>4. PICK g : g = Suboption(SIGNATURE, ClientEscapes(text, TRUE))
  OBVIOUS
<1>. DEFINE n == Len(text)
<1>5. /\ g \in Groups /\ Len(g) = n + 2
      /\ \A i \in 1 .. n :
            g[i + 1] = IF text[i] = IAC THEN <<IAC, IAC>> ELSE <<text[i]>>
      /\ g[n + 2] = <<IAC, SE>>
  <2>. DEFINE code == SIGNATURE
  <2>1. code \in Byte /\ g = Suboption(code, ClientEscapes(text, TRUE)) /\ Len(text) = n
    BY <1>4, Bytes
  <2>. HIDE DEF code, n
  <2>. QED  BY <1>3, <2>1, SubMessage
<1>6. SignatureAt(text, g)
  BY <1>2, <1>4
<1>7. ASSUME SignatureAt(text, g)', UNCHANGED <<toDev, heard, tnstate>>
      PROVE  SignaturePhase'
  <2>1. pristine' => Agree(tnstate)' /\ client'.com_port
    BY <1>1, <1>2, <1>7 DEF Agree
  <2>2. Untouched'
    BY <1>2, <1>7 DEF Untouched
  <2>. QED  BY <1>1, <1>2, <1>4, <1>7, <2>1, <2>2 DEF SignaturePhase
<1>8. IAC \in Byte /\ SE \in Byte /\ SE # IAC /\ SE # CR /\ SIGNATURE \in Byte
  BY Bytes DEF SE, IAC, CR
<1>. HIDE DEF n
<1>9. n \in Nat /\ n = Len(text)
  BY <1>3 DEF n
<1>10. CASE HeadPhase(g, SIGNATURE)
  <2>1. /\ UNCHANGED <<toDev, heard, tnstate>>
        /\ \/ wire' # <<>> /\ HeadPhase(g, SIGNATURE)'
           \/ Rest(wire', g, 2) /\ Started(SIGNATURE, 4)' /\ IACSigEscape' = "Normal"
    BY <1>5, <1>8, <1>10, HeadRead
  <2>2. CASE wire' # <<>> /\ HeadPhase(g, SIGNATURE)'
    <3>1. SignatureAt(text, g)'
      BY <2>2 DEF SignatureAt
    <3>. QED  BY <1>7, <2>1, <2>2, <3>1
  <2>3. CASE Rest(wire', g, 2) /\ Started(SIGNATURE, 4)' /\ IACSigEscape' = "Normal"
    <3>1. wire' # <<>>
      <4>1. 2 # Len(g) + 1
        BY <1>5, <1>9
      <4>. QED  BY <4>1, <1>0, <1>5, <2>3, RestLeft
    <3>2. 0 \in 0 .. Len(text) /\ 0 + 2 = 2 /\ Kept(0 + 4) = 4
      BY <1>3, CodecAssumption DEF Kept
    <3>3. SignatureAt(text, g)'
      BY <2>3, <3>2 DEF SignatureAt
    <3>. QED  BY <1>7, <2>1, <3>1, <3>3
  <2>. QED  BY <2>1, <2>2, <2>3
<1>11. ASSUME NEW j \in 0 .. Len(text), Rest(wire, g, j + 2),
              Started(SIGNATURE, Kept(j + 4)), IACSigEscape = "Normal"
       PROVE  wire' # <<>> /\ SignaturePhase'
  <2>0. j \in 0 .. n /\ j \in Nat /\ j + 4 \in Nat /\ j + 4 >= 4
    BY <1>9, <1>11
  <2>1. Left(wire, g, j + 2, g[j + 2])
    <3>1. j + 2 # Len(g) + 1
      BY <1>9, <1>5, <2>0
    <3>. QED  BY <3>1, <1>0, <1>5, <1>11, RestLeft
  <2>2. IACEscape = "ComReceiving" /\ InSignature
    BY <1>0, <1>11, <2>0, StartedSignature
  <2>3. /\ UNCHANGED <<IACEscape, heard, toDev, tnstate>>
        /\ IACSigEscape' = IF C = IAC THEN "Received" ELSE "Normal"
        /\ IACCommand' = IF C = IAC THEN IACCommand ELSE Store(<<0>>)
    BY <1>0, <1>1, <1>11, <2>2, StepText
  <2>4. C = IAC => Started(SIGNATURE, Kept(j + 4))'
    BY <1>11, <2>3 DEF Started
  <2>5. CASE j = n
    <3>1. g[j + 2] = <<IAC, SE>>
      BY <1>5, <2>5
    <3>2. C = IAC /\ wire' # <<>> /\ Left(wire', g, j + 2, <<SE>>)
      BY <1>0, <1>1, <1>5, <1>8, <2>1, <3>1, Left2 DEF C
    <3>3. SignatureAt(text, g)'
      BY <1>9, <2>3, <2>4, <2>5, <3>2 DEF SignatureAt
    <3>. QED  BY <1>7, <2>3, <3>2, <3>3
  <2>6. CASE j # n
    <3>1. j + 1 \in 1 .. n /\ (j + 1) + 1 = j + 2
          /\ (j + 2) + 1 = (j + 1) + 2 /\ (j + 4) + 1 = (j + 1) + 4 /\ (j + 1) + 3 = j + 4
      BY <1>9, <2>0, <2>6
    <3>2. text[j + 1] \in Byte
      BY <1>3, <1>9, <3>1
    <3>3. CASE text[j + 1] = IAC
      <4>1. g[j + 2] = <<IAC, IAC>>
        BY <1>5, <3>1, <3>3
      <4>2. C = IAC /\ wire' # <<>> /\ Left(wire', g, (j + 1) + 1, <<IAC>>)
        BY <1>0, <1>1, <1>5, <1>8, <2>1, <3>1, <4>1, Left2 DEF C
      <4>3. Started(SIGNATURE, Kept((j + 1) + 3))'
        BY <2>4, <3>1, <4>2
      <4>4. SignatureAt(text, g)'
        BY <1>9, <2>3, <3>1, <3>3, <4>2, <4>3 DEF SignatureAt
      <4>. QED  BY <1>7, <2>3, <4>2, <4>4
    <3>4. CASE text[j + 1] # IAC
      <4>1. g[j + 2] = <<text[j + 1]>>
        BY <1>5, <3>1, <3>4
      <4>2. C = text[j + 1] /\ Rest(wire', g, (j + 1) + 2)
        BY <1>0, <1>1, <1>5, <2>1, <3>1, <3>2, <4>1, Left1 DEF C
      <4>3. wire' # <<>>
        <5>1. (j + 1) + 2 # Len(g) + 1
          BY <1>5, <1>9, <2>0, <2>6
        <5>. QED  BY <5>1, <1>0, <1>5, <4>2, RestLeft
      <4>4. Started(SIGNATURE, Kept((j + 4) + 1))'
        BY <1>0, <1>11, <2>0, <2>3, <3>4, <4>2, TextStarted
      <4>5. j + 1 \in 0 .. Len(text)
        BY <1>9, <3>1
      <4>6. Started(SIGNATURE, Kept((j + 1) + 4))' /\ IACSigEscape' = "Normal"
        BY <2>3, <3>1, <3>4, <4>2, <4>4
      <4>7. SignatureAt(text, g)'
        BY <4>2, <4>5, <4>6 DEF SignatureAt
      <4>. QED  BY <1>7, <2>3, <4>3, <4>7
    <3>. QED  BY <3>3, <3>4
  <2>. QED  BY <2>5, <2>6
<1>12. ASSUME NEW j \in 1 .. Len(text), Left(wire, g, j + 1, <<IAC>>),
              Started(SIGNATURE, Kept(j + 3)), IACSigEscape = "Received", text[j] = IAC
       PROVE  wire' # <<>> /\ SignaturePhase'
  <2>0. /\ j \in 1 .. n /\ j \in Nat /\ j + 3 \in Nat /\ j + 3 >= 4 /\ j \in 0 .. Len(text)
        /\ (j + 1) + 1 = j + 2 /\ (j + 3) + 1 = j + 4
    BY <1>9, <1>12
  <2>1. C = IAC /\ Rest(wire', g, j + 2)
    BY <1>0, <1>1, <1>5, <1>8, <1>12, <2>0, Left1 DEF C
  <2>2. IACEscape = "ComReceiving" /\ InSignature
    BY <1>0, <1>12, <2>0, StartedSignature
  <2>3. /\ UNCHANGED <<IACEscape, heard, toDev, tnstate>>
        /\ IACSigEscape' = "Normal" /\ IACCommand' = Store(<<0>>)
    BY <1>0, <1>1, <1>12, <2>1, <2>2, StepText
  <2>4. Started(SIGNATURE, Kept((j + 3) + 1))'
    BY <1>0, <1>12, <2>0, <2>3, TextStarted
  <2>5. wire' # <<>>
    <3>1. j + 2 # Len(g) + 1
      BY <1>5, <1>9, <2>0
    <3>. QED  BY <3>1, <1>0, <1>5, <2>1, RestLeft
  <2>6. Started(SIGNATURE, Kept(j + 4))'
    BY <2>0, <2>4
  <2>7. SignatureAt(text, g)'
    BY <2>0, <2>1, <2>3, <2>6 DEF SignatureAt
  <2>. QED  BY <1>7, <2>3, <2>5, <2>7
<1>13. CASE /\ Left(wire, g, Len(text) + 2, <<SE>>)
            /\ Started(SIGNATURE, Kept(Len(text) + 4)) /\ IACSigEscape = "Received"
  <2>0. Left(wire, g, n + 2, <<SE>>) /\ Started(SIGNATURE, Kept(n + 4))
        /\ n + 4 \in Nat /\ n + 4 >= 4 /\ (n + 4) + 2 = n + 6
    BY <1>9, <1>13
  <2>1. C = SE /\ Rest(wire', g, (n + 2) + 1)
    BY <1>0, <1>1, <1>5, <1>8, <2>0, Left1 DEF C
  <2>2. wire' = <<>>
    BY <1>0, <1>5, <2>1, RestEnd
  <2>3. IACEscape = "ComReceiving" /\ InSignature
    BY <1>0, <2>0, StartedSignature
  <2>4. /\ IsNormal' /\ rxLast' = C /\ UNCHANGED <<toDev, tnstate>>
        /\ heard' = heard \o Taken(Store(<<0, 0>>))
    BY <1>0, <1>1, <1>8, <1>13, <2>1, <2>3, StepText DEF IsNormal
  <2>5. Taken(Store(<<0, 0>>)) =
            IF tnstate.com_port THEN <<<<SB, SIGNATURE, Kept((n + 4) + 2)>>>> ELSE <<>>
    BY <1>0, <2>0, SignatureTaken
  <2>6. pristine' => Agree(tnstate)' /\ tnstate.com_port
    BY <1>1, <1>2, <2>4 DEF Agree
  <2>. DEFINE y == <<SB, SIGNATURE, Kept(n + 6)>>
  <2>7. heard = <<>> /\ toDev = <<>> /\ msg.data = <<>> /\ msg.cmds = <<y>>
    BY <1>2, <1>9 DEF Untouched
  <2>8. tnstate.com_port => Taken(Store(<<0, 0>>)) = <<y>>
    BY <2>0, <2>5
  <2>9. y[2] # MODEMSTATE_MASK
    BY DEF SIGNATURE, MODEMSTATE_MASK
  <2>. HIDE DEF y
  <2>10. <<>> \o <<y>> = <<y>>
    OBVIOUS
  <2>11. tnstate.com_port => heard' = msg.cmds
    BY <2>4, <2>7, <2>8, <2>10
  <2>12. msg.cmds # Doubled
    <3>. DEFINE z == <<SB, MODEMSTATE_MASK, IAC>>
    <3>1. z[2] = MODEMSTATE_MASK
      OBVIOUS
    <3>. HIDE DEF z
    <3>2. <<y>> # <<z>>
      BY <2>9, <3>1
    <3>. QED  BY <2>7, <3>2 DEF Doubled, z
  <2>. QED  BY <1>1, <1>8, <2>1, <2>2, <2>4, <2>6, <2>7, <2>11, <2>12 DEF Finished
<1>. QED  BY <1>6, <1>10, <1>11, <1>12, <1>13 DEF SignatureAt

\* The doubled parameter takes one byte more than the length allows for, and the
\* SE is read as data.
LEMMA DoubledFits == Fits(MODEMSTATE_MASK, <<IAC>>)
<1>1. /\ MODEMSTATE_MASK # SIGNATURE /\ MODEMSTATE_MASK \in Byte
      /\ MODEMSTATE_MASK # BAUDRATE /\ MODEMSTATE_MASK \notin {SUSPEND, RESUME}
  BY Bytes DEF MODEMSTATE_MASK, SIGNATURE, BAUDRATE, SUSPEND, RESUME
<1>2. <<IAC>> \in Seq(Byte) /\ Len(<<IAC>>) = 1
  BY Bytes
<1>3. ASSUME NEW cmd, cmd[2] = SB, cmd[4] = MODEMSTATE_MASK
      PROVE  CommandLength(cmd) = 7
  BY <1>1, <1>3 DEF CommandLength
<1>. QED  BY <1>1, <1>2, <1>3 DEF Fits

LEMMA DoubledMessage ==
    ASSUME NEW g, g = Suboption(MODEMSTATE_MASK, <<<<IAC, IAC>>>>)
    PROVE  g \in Groups /\ Len(g) = 3 /\ g[2] = <<IAC, IAC>> /\ g[3] = <<IAC, SE>>
<1>. DEFINE e == <<<<IAC, IAC>>>>
            code == MODEMSTATE_MASK
            h == Suboption(code, e)
<1>1. <<IAC, IAC>> \in Group
  BY Bytes, TupleGroups
<1>2. e \in Groups /\ Len(e) = 1 /\ e[1] = <<IAC, IAC>> /\ code \in Byte
  BY <1>1, Bytes DEF Groups
<1>3. g = h
  OBVIOUS
<1>. HIDE DEF e, code
<1>4. /\ h \in Groups /\ Len(h) = Len(e) + 2
      /\ \A i \in 1 .. Len(e) : h[i + 1] = e[i]
      /\ h[Len(e) + 2] = <<IAC, SE>>
  BY <1>2, SubGroups
<1>. HIDE DEF h
<1>5. 1 \in 1 .. Len(e) /\ 1 + 1 = 2 /\ Len(e) + 2 = 3
  BY <1>2
<1>6. h[1 + 1] = e[1]
  BY <1>4, <1>5
<1>7. h[2] = <<IAC, IAC>>
  BY <1>2, <1>5, <1>6
<1>8. h[3] = <<IAC, SE>> /\ Len(h) = 3
  BY <1>4, <1>5
<1>. QED  BY <1>3, <1>4, <1>7, <1>8

LEMMA DoubledRead ==
    ASSUME TypeInv, TypeInv', EscRedirectChar, DoubledPhase
    PROVE  \/ wire' # <<>> /\ DoubledPhase'
           \/ wire' = <<>> /\ Settled'
<1>0. TypeOK /\ wire \in Groups /\ wire' \in Groups /\ heard \in Seq(Seq(Nat))
  <2>1. TypeOK /\ wire \in Groups /\ heard \in Seq(Seq(Nat))
    BY Typed DEF ItemType
  <2>. QED  BY <2>1, ReadStep
<1>. DEFINE C == FirstByte(wire)
<1>1. /\ wire' = ButFirstByte(wire) /\ C \in Byte /\ Step(C)
      /\ UNCHANGED <<msg, pristine, steady>>
  BY <1>0, ReadStep
<1>. HIDE DEF C
<1>2. PICK g : g = Suboption(MODEMSTATE_MASK, <<<<IAC, IAC>>>>)
  OBVIOUS
<1>3. g \in Groups /\ Len(g) = 3 /\ g[2] = <<IAC, IAC>> /\ g[3] = <<IAC, SE>>
  BY <1>2, DoubledMessage
<1>4. /\ msg.data = <<>> /\ msg.cmds = Doubled /\ ~pristine /\ steady = 0 /\ toDev = <<>>
      /\ \/ HeadPhase(g, MODEMSTATE_MASK) /\ heard = <<>>
         \/ Rest(wire, g, 2) /\ Started(MODEMSTATE_MASK, 4) /\ heard = <<>>
         \/ /\ Left(wire, g, 2, <<IAC>>) /\ Started(MODEMSTATE_MASK, 5) /\ heard = <<>>
            /\ IACCommand[5] = IAC
         \/ /\ Rest(wire, g, 3) /\ Started(MODEMSTATE_MASK, 6) /\ heard = <<>>
            /\ IACCommand[5] = IAC
         \/ /\ Left(wire, g, 3, <<SE>>) /\ IsNormal /\ rxLast = IAC
            /\ tnstate.com_port => heard = Doubled
  BY <1>2 DEF DoubledPhase
<1>5. /\ IAC \in Byte /\ SE \in Byte /\ MODEMSTATE_MASK \in Byte
      /\ SE # IAC /\ SE # NUL /\ IAC # CR
  BY Bytes DEF IAC, SE, NUL, CR
<1>6. CASE HeadPhase(g, MODEMSTATE_MASK) /\ heard = <<>>
  <2>1. /\ UNCHANGED <<toDev, heard>>
        /\ \/ wire' # <<>> /\ HeadPhase(g, MODEMSTATE_MASK)'
           \/ Rest(wire', g, 2) /\ Started(MODEMSTATE_MASK, 4)'
    BY <1>3, <1>5, <1>6, HeadRead
  <2>2. wire' # <<>>
    <3>1. 2 # Len(g) + 1
      BY <1>3
    <3>. QED  BY <1>0, <1>3, <2>1, <3>1, RestLeft
  <2>. QED  BY <1>1, <1>2, <1>4, <1>6, <2>1, <2>2 DEF DoubledPhase
<1>. DEFINE par == <<IAC>>
<1>7. ASSUME NEW j \in 0 .. 2, Started(MODEMSTATE_MASK, j + 4)
      PROVE  IACEscape = "ComReceiving" /\ InFixed(3 - j)
  <2>1. Fits(MODEMSTATE_MASK, par) /\ Len(par) = 1
    BY DoubledFits
  <2>. HIDE DEF par
  <2>2. j \in 0 .. Len(par) + 1 /\ Len(par) - j + 2 = 3 - j
    BY <2>1
  <2>3. InFixed(Len(par) - j + 2)
    BY <1>0, <1>7, <2>1, <2>2, StartedFixed
  <2>. QED  BY <1>7, <2>2, <2>3 DEF Started
<1>8. CASE Rest(wire, g, 2) /\ Started(MODEMSTATE_MASK, 4) /\ heard = <<>>
  <2>1. C = IAC /\ wire' # <<>> /\ Left(wire', g, 2, <<IAC>>)
    <3>1. Left(wire, g, 2, <<IAC, IAC>>)
      <4>1. 2 # Len(g) + 1
        BY <1>3
      <4>. QED  BY <4>1, <1>0, <1>3, <1>8, RestLeft
    <3>. QED  BY <3>1, <1>0, <1>1, <1>3, <1>5, Left2 DEF C
  <2>2. IACEscape = "ComReceiving" /\ InFixed(3)
    <3>1. 0 \in 0 .. 2 /\ 0 + 4 = 4 /\ 3 - 0 = 3
      OBVIOUS
    <3>. QED  BY <3>1, <1>7, <1>8
  <2>3. IACCommand' = Append(IACCommand, C) /\ UNCHANGED <<IACEscape, heard, toDev>>
    BY <1>0, <1>1, <2>2, StepFixed
  <2>4. Started(MODEMSTATE_MASK, 4 + 1)' /\ IACCommand'[4 + 1] = C
    <3>1. PICK n \in Nat : n = 4
      OBVIOUS
    <3>2. n >= 4 /\ Started(MODEMSTATE_MASK, n)
      BY <3>1, <1>8
    <3>3. Started(MODEMSTATE_MASK, n + 1)' /\ IACCommand'[n + 1] = C
      BY <1>0, <1>1, <2>3, <3>2, StartedGrows
    <3>. QED  BY <3>1, <3>3
  <2>5. Started(MODEMSTATE_MASK, 5)' /\ IACCommand'[5] = IAC
    BY <2>1, <2>4
  <2>. QED  BY <1>1, <1>2, <1>4, <1>8, <2>1, <2>3, <2>5 DEF DoubledPhase
<1>9. CASE /\ Left(wire, g, 2, <<IAC>>) /\ Started(MODEMSTATE_MASK, 5) /\ heard = <<>>
           /\ IACCommand[5] = IAC
  <2>1. C = IAC /\ Rest(wire', g, 3)
    <3>1. 2 + 1 = 3
      OBVIOUS
    <3>. QED  BY <3>1, <1>0, <1>1, <1>3, <1>5, <1>9, Left1 DEF C
  <2>2. IACEscape = "ComReceiving" /\ InFixed(2)
    <3>1. 1 \in 0 .. 2 /\ 1 + 4 = 5 /\ 3 - 1 = 2
      OBVIOUS
    <3>. QED  BY <3>1, <1>7, <1>9
  <2>3. IACCommand' = Append(IACCommand, C) /\ UNCHANGED <<IACEscape, heard, toDev>>
    BY <1>0, <1>1, <2>2, StepFixed
  <2>4. /\ Started(MODEMSTATE_MASK, 5 + 1)'
        /\ \A i \in 1 .. 5 : IACCommand'[i] = IACCommand[i]
    <3>1. PICK n \in Nat : n = 5
      OBVIOUS
    <3>2. n >= 4 /\ Started(MODEMSTATE_MASK, n)
      BY <3>1, <1>9
    <3>3. /\ Started(MODEMSTATE_MASK, n + 1)'
          /\ \A i \in 1 .. n : IACCommand'[i] = IACCommand[i]
      BY <1>0, <1>1, <2>3, <3>2, StartedGrows
    <3>. QED  BY <3>1, <3>3
  <2>5. Started(MODEMSTATE_MASK, 6)' /\ IACCommand'[5] = IAC
    BY <1>9, <2>4
  <2>6. wire' # <<>>
    <3>1. 3 # Len(g) + 1
      BY <1>3
    <3>. QED  BY <3>1, <1>0, <1>3, <2>1, RestLeft
  <2>. QED  BY <1>1, <1>2, <1>4, <1>9, <2>1, <2>3, <2>5, <2>6 DEF DoubledPhase
<1>10. CASE /\ Rest(wire, g, 3) /\ Started(MODEMSTATE_MASK, 6) /\ heard = <<>>
            /\ IACCommand[5] = IAC
  <2>1. C = IAC /\ wire' # <<>> /\ Left(wire', g, 3, <<SE>>)
    <3>1. Left(wire, g, 3, <<IAC, SE>>)
      <4>1. 3 # Len(g) + 1
        BY <1>3
      <4>. QED  BY <4>1, <1>0, <1>3, <1>10, RestLeft
    <3>. QED  BY <3>1, <1>0, <1>1, <1>3, <1>5, Left2 DEF C
  <2>2. IACEscape = "ComReceiving" /\ InFixed(1)
    <3>1. 2 \in 0 .. 2 /\ 2 + 4 = 6 /\ 3 - 2 = 1
      OBVIOUS
    <3>. QED  BY <3>1, <1>7, <1>10
  <2>3. /\ IsNormal' /\ rxLast' = C /\ UNCHANGED <<toDev, tnstate>>
        /\ heard' = heard \o Taken(Append(IACCommand, C))
    BY <1>0, <1>1, <2>2, StepLast DEF IsNormal
  <2>4. tnstate.com_port => Taken(Append(IACCommand, C)) = Doubled
    <3>. DEFINE code == MODEMSTATE_MASK
    <3>1. Fits(code, par) /\ Len(par) = 1 /\ par[1] = IAC
      BY DoubledFits
    <3>2. <<<<SB, code>> \o par>> = Doubled
      <4>1. <<SB, code>> \in Seq(Byte)
        BY Bytes
      <4>2. Append(<<SB, code>>, IAC) = <<SB, code>> \o <<IAC>>
        BY <1>5, <4>1, AppendIsConcat
      <4>3. Append(<<SB, code>>, IAC) = <<SB, code, IAC>>
        BY Bytes, AppendTuples
      <4>. QED  BY <4>2, <4>3 DEF Doubled
    <3>3. Started(code, 6)
      BY <1>10
    <3>. HIDE DEF code, par
    <3>4. Started(code, Len(par) + 5) /\ \A i \in 1 .. Len(par) : IACCommand[i + 4] = par[i]
      BY <3>1, <3>3, <1>10
    <3>5. Taken(Append(IACCommand, C)) =
              IF tnstate.com_port THEN <<<<SB, code>> \o par>> ELSE <<>>
      BY <3>1, <3>4, <1>0, <1>1, CommandTaken
    <3>. QED  BY <3>2, <3>5
  <2>5. <<>> \o Doubled = Doubled
    BY DEF Doubled
  <2>6. tnstate'.com_port => heard' = Doubled
    BY <1>10, <2>3, <2>4, <2>5
  <2>. QED  BY <1>1, <1>2, <1>4, <2>1, <2>3, <2>6 DEF DoubledPhase
<1>11. CASE /\ Left(wire, g, 3, <<SE>>) /\ IsNormal /\ rxLast = IAC
            /\ tnstate.com_port => heard = Doubled
  <2>1. C = SE /\ Rest(wire', g, Len(g) + 1)
    <3>1. 3 + 1 = Len(g) + 1
      BY <1>3
    <3>. QED  BY <3>1, <1>0, <1>1, <1>3, <1>5, <1>11, Left1 DEF C
  <2>2. wire' = <<>>
    BY <1>0, <1>3, <2>1, RestEnd
  <2>3. IsNormal' /\ toDev' = toDev \o <<SE>> /\ UNCHANGED <<tnstate, heard>>
    BY <1>0, <1>1, <1>5, <1>11, <2>1, StepNormal DEF IsNormal
  <2>4. toDev' = <<SE>>
    <3>1. <<>> \o <<SE>> = <<SE>>
      OBVIOUS
    <3>. QED  BY <3>1, <1>4, <2>3
  <2>5. ~pristine' /\ steady' = 0
    BY <1>1, <1>4
  <2>6. steady' # 1 /\ steady' # 2
    BY <2>5
  <2>. QED  BY <1>11, <2>2, <2>3, <2>4, <2>5, <2>6 DEF Settled
<1>. QED  BY <1>4, <1>6, <1>8, <1>9, <1>10, <1>11

----------------------------------------------------------------------------
(* The steps of the client's side.                                         *)

LEMMA InRead ==
    ASSUME TypeInv, TypeInv', InInv, EscRedirectChar
    PROVE  InInv'
<1>0. TypeOK
  BY DEF TypeInv
<1>1. wire # <<>> /\ UNCHANGED <<msg, pristine, steady, side>>
  BY <1>0, ReadStep
<1>2. /\ side' = "in"
      /\ IF msg.insync THEN InStep ELSE ~pristine /\ (steady = 0 \/ OutOfStep)
  BY <1>1 DEF InInv
<1>3. ASSUME wire' = <<>>, Settled' PROVE InInv'
  BY <1>3 DEF InInv
<1>4. ASSUME msg.insync, wire' # <<>>, InStep' PROVE InInv'
  BY <1>1, <1>2, <1>4 DEF InInv
<1>5. CASE msg.insync
  <2>1. CASE DataPhase
    BY <1>3, <1>4, <1>5, <2>1, DataRead, FinishedSettled DEF InStep
  <2>2. CASE OptionPhase
    BY <1>3, <1>4, <1>5, <2>2, OptionRead, FinishedSettled DEF InStep
  <2>3. CASE CommandPhase
    BY <1>3, <1>4, <1>5, <2>3, CommandRead, FinishedSettled DEF InStep
  <2>4. CASE SignaturePhase
    BY <1>3, <1>4, <1>5, <2>4, SignatureRead, FinishedSettled DEF InStep
  <2>5. CASE DoubledPhase
    BY <1>3, <1>4, <1>5, <2>5, DoubledRead DEF InStep
  <2>6. CASE Upset
    <3>1. Upset'
      BY <1>1, <2>6 DEF Upset
    <3>2. steady' = 0 /\ ~pristine' /\ msg'.cmds # Doubled
      BY <3>1 DEF Upset
    <3>3. Settled'
      BY <3>2 DEF Settled
    <3>. QED  BY <1>3, <1>4, <1>5, <3>1, <3>3 DEF InStep
  <2>. QED  BY <1>2, <1>5, <2>1, <2>2, <2>3, <2>4, <2>5, <2>6 DEF InStep
<1>6. CASE ~msg.insync
  <2>1. ~pristine' /\ ~msg'.insync /\ (steady = 0 \/ OutOfStep)
    BY <1>1, <1>2, <1>6
  <2>2. CASE steady = 0
    <3>1. steady' = 0 /\ steady' # 1 /\ steady' # 2
      BY <1>1, <2>2
    <3>2. Settled'
      BY <2>1, <3>1 DEF Settled
    <3>. QED  BY <1>2, <2>1, <3>1, <3>2 DEF InInv
  <2>3. CASE OutOfStep
    <3>1. msg'.data = <<>>
      BY <1>1, <2>3 DEF OutOfStep
    <3>2. CASE wire' # <<>> /\ OutOfStep'
      BY <1>2, <2>1, <3>2 DEF InInv
    <3>3. CASE wire' = <<>> /\ steady = 1 /\ Healing(3)'
      <4>1. steady' # 2
        BY <1>1, <3>3
      <4>2. Settled'
        BY <2>1, <3>3, <4>1 DEF Settled
      <4>. QED  BY <1>3, <3>3, <4>2
    <3>4. CASE wire' = <<>> /\ steady = 2 /\ IsNormal'
      <4>1. steady' # 1
        BY <1>1, <3>4
      <4>2. Settled'
        BY <2>1, <3>1, <3>4, <4>1 DEF Settled
      <4>. QED  BY <1>3, <3>4, <4>2
    <3>. QED  BY <2>3, <3>2, <3>3, <3>4, OutOfStepRead
  <2>. QED  BY <2>1, <2>2, <2>3
<1>. QED  BY <1>5, <1>6

\* A new message finds the parser in step, if it should be.
LEMMA Sent ==
    ASSUME TypeInv, InInv, NEW groups \in Groups, groups # <<>>, NEW data, NEW cmds,
           Sends(groups, data, cmds)
    PROVE  /\ Settled /\ wire' = groups /\ wire' # <<>> /\ side' = "in"
           /\ msg'.data = data /\ msg'.cmds = cmds /\ Untouched'
           /\ msg'.insync <=> pristine \/ steady = 2
           /\ UNCHANGED <<IACEscape, IACSigEscape, IACCommand, rxLast, tnstate>>
           /\ msg'.insync => IsNormal'
<1>1. /\ side = "in" /\ wire = <<>> /\ wire' = groups /\ side' = side
      /\ msg' = [data |-> data, cmds |-> cmds, insync |-> pristine \/ steady = Heal]
      /\ toDev' = <<>> /\ heard' = <<>>
      /\ UNCHANGED <<IACEscape, IACSigEscape, IACCommand, rxLast, tnstate>>
  BY DEF Sends, parser
<1>2. Settled
  BY <1>1 DEF InInv
<1>3. pristine \/ steady = 2 => IsNormal
  BY <1>2 DEF Settled
<1>4. IsNormal <=> IsNormal'
  BY <1>1 DEF IsNormal
<1>5. msg'.insync <=> pristine \/ steady = 2
  BY <1>1 DEF Heal
<1>. QED  BY <1>1, <1>2, <1>3, <1>4, <1>5 DEF Untouched

\* A message about which nothing can be said.
LEMMA SentOut ==
    ASSUME wire' # <<>>, side' = "in", ~msg'.insync, ~pristine', steady' = 0
    PROVE  InInv'
BY DEF InInv

LEMMA SentIn ==
    ASSUME wire' # <<>>, side' = "in", msg'.insync, InStep'
    PROVE  InInv'
BY DEF InInv

LEMMA StartedOver ==
    ASSUME StartsOver, steady # 2
    PROVE  steady' = 0
BY DEF StartsOver, Heal

LEMMA InData ==
    ASSUME TypeInv, InInv, NEW d \in Seq(Byte), ClientData(d)
    PROVE  InInv'
<1>1. /\ d # <<>> /\ Sends(ClientEscapes(d, client.us), d, <<>>) /\ StartsOver
      /\ UNCHANGED <<client, pristine>>
  BY DEF ClientData
<1>2. client.us \in BOOLEAN
  BY DEF TypeInv, TypeOK
<1>3. PICK g : g = ClientEscapes(d, client.us)
  OBVIOUS
<1>4. g \in Groups /\ Len(g) = Len(d) /\ Len(d) \in Nat /\ Len(d) # 0
  BY <1>1, <1>2, <1>3, EscapeGroups
<1>5. g # <<>>
  BY <1>4
<1>. DEFINE cmds == <<>>
<1>6. Sends(g, d, cmds)
  BY <1>1, <1>3
<1>. HIDE DEF cmds
<1>7. /\ Settled /\ wire' = g /\ wire' # <<>> /\ side' = "in"
      /\ msg'.data = d /\ msg'.cmds = cmds /\ Untouched'
      /\ msg'.insync <=> pristine \/ steady = 2
      /\ UNCHANGED <<IACEscape, rxLast, tnstate>> /\ (msg'.insync => IsNormal')
  BY <1>4, <1>5, <1>6, Sent
<1>. USE DEF cmds
<1>8. CASE ~msg'.insync
  <2>1. ~pristine' /\ steady' = 0
    BY <1>1, <1>7, <1>8, StartedOver
  <2>. QED  BY <1>7, <1>8, <2>1, SentOut
<1>9. CASE msg'.insync
  <2>1. Rest(wire', g, 1) /\ 1 - 1 = 0 /\ 1 \in 1 .. Len(d)
    BY <1>4, <1>7, RestAll
  <2>2. Delivered(0)'
    <3>1. SubSeq(d, 1, 0) = <<>>
      OBVIOUS
    <3>. QED  BY <1>7, <3>1 DEF Delivered, Untouched
  <2>3. pristine' => Agree(tnstate)' /\ (rxLast' = CR => client'.us)
    BY <1>1, <1>7 DEF Settled, Agree
  <2>4. DataAt(g, 1)'
    BY <1>7, <1>9, <2>1, <2>2, <2>3 DEF DataAt
  <2>5. ClientEscapes(msg.data, client.us)' = g
    BY <1>1, <1>3, <1>7
  <2>6. DataPhase'
    BY <1>1, <1>7, <2>1, <2>3, <2>4, <2>5 DEF DataPhase, Untouched
  <2>. QED  BY <1>7, <1>9, <2>6, SentIn DEF InStep
<1>. QED  BY <1>8, <1>9

LEMMA InOptions ==
    ASSUME TypeInv, InInv, NEW cmd \in Cmds, NEW opt \in Opts, ClientOption(cmd, opt)
    PROVE  InInv'
<1>. DEFINE groups == <<<<IAC, cmd, opt>>>>
            data == <<>>
            cmds == <<<<cmd, opt>>>>
<1>1. /\ Sends(groups, data, cmds) /\ pristine' = pristine
      /\ opt = COM_PORT => cmd = WILL
      /\ steady' = IF steady < Heal THEN steady + 1 ELSE steady
      /\ client' = [client EXCEPT
            !.us = IF opt = BINARY /\ cmd \in {WILL, WONT} THEN cmd = WILL ELSE @,
            !.him = IF opt = BINARY /\ cmd \in {DO, DONT} THEN cmd = DO ELSE @,
            !.com_port = @ \/ opt = COM_PORT]
  BY DEF ClientOption
<1>2. groups \in Groups /\ groups # <<>>
  BY OptionType
<1>. HIDE DEF groups, data, cmds
<1>3. /\ Settled /\ wire' = groups /\ wire' # <<>> /\ side' = "in"
      /\ msg'.data = data /\ msg'.cmds = cmds /\ Untouched'
      /\ msg'.insync <=> pristine \/ steady = 2
      /\ UNCHANGED <<IACEscape, IACSigEscape, IACCommand, tnstate>>
      /\ msg'.insync => IsNormal'
  BY <1>1, <1>2, Sent
<1>. USE DEF groups, data, cmds
<1>4. CASE msg'.insync
  <2>1. pristine => Agree(tnstate)
    BY <1>3 DEF Settled
  <2>2. ASSUME Agree(tnstate) PROVE Agree(Effect(cmd, opt))'
    <3>1. client \in ClientType
      BY SteadyType DEF TypeInv
    <3>2. /\ client'.us = (IF opt = BINARY /\ cmd \in {WILL, WONT} THEN cmd = WILL
                           ELSE client.us)
          /\ client'.him = (IF opt = BINARY /\ cmd \in {DO, DONT} THEN cmd = DO
                            ELSE client.him)
          /\ client'.com_port = (client.com_port \/ opt = COM_PORT)
      BY <1>1, <3>1 DEF ClientType
    <3>3. tnstate' = [is_do |-> client.us, is_will |-> client.him,
                      com_port |-> client.com_port]
      BY <1>3, <2>2 DEF Agree
    <3>4. Effect(cmd, opt)' =
             [is_do |-> IF cmd \in {WILL, WONT} /\ opt = BINARY THEN cmd = WILL
                        ELSE client.us,
              is_will |-> IF cmd \in {DO, DONT} /\ opt = BINARY THEN cmd = DO
                          ELSE client.him,
              com_port |-> IF cmd \in {WILL, WONT} /\ opt = COM_PORT THEN cmd = WILL
                           ELSE client.com_port]
      <4>. DEFINE x == client.us
                  y == client.him
                  z == client.com_port
                  a == IF cmd \in {WILL, WONT} /\ opt = BINARY THEN cmd = WILL ELSE x
                  b == IF cmd \in {DO, DONT} /\ opt = BINARY THEN cmd = DO ELSE y
                  c == IF cmd \in {WILL, WONT} /\ opt = COM_PORT THEN cmd = WILL ELSE z
      <4>1. tnstate' = [is_do |-> x, is_will |-> y, com_port |-> z]
        BY <3>3
      <4>. HIDE DEF x, y, z
      <4>2. tnstate'.is_do = x /\ tnstate'.is_will = y /\ tnstate'.com_port = z
        BY <4>1
      <4>3. Effect(cmd, opt)' =
                [tnstate' EXCEPT !.is_do = a, !.is_will = b, !.com_port = c]
        BY <4>2 DEF Effect
      <4>. HIDE DEF a, b, c
      <4>4. Effect(cmd, opt)' = [is_do |-> a, is_will |-> b, com_port |-> c]
        BY <4>1, <4>3
      <4>. QED  BY <4>4 DEF a, b, c, x, y, z
    <3>5. (IF cmd \in {WILL, WONT} /\ opt = COM_PORT THEN cmd = WILL ELSE client.com_port)
             = client'.com_port
      <4>1. client.com_port \in BOOLEAN
        BY <3>1 DEF ClientType
      <4>2. CASE opt = COM_PORT
        BY <1>1, <3>2, <4>1, <4>2
      <4>3. CASE opt # COM_PORT
        BY <3>2, <4>1, <4>3
      <4>. QED  BY <4>2, <4>3
    <3>. QED  BY <3>2, <3>4, <3>5 DEF Agree
  <2>3. OptionPhase'
    BY <1>1, <1>3, <1>4, <2>1, <2>2 DEF OptionPhase
  <2>. QED  BY <1>3, <1>4, <2>3, SentIn DEF InStep
<1>5. CASE ~msg'.insync
  <2>1. ~pristine' /\ steady # 2 /\ steady \in 0 .. 2
    BY <1>1, <1>3, <1>5, SteadyType DEF TypeInv, Heal
  <2>2. CASE steady = 0
    <3>1. steady' = 1
      BY <1>1, <2>2 DEF Heal
    <3>2. OutOfStep'
      BY <1>3, <2>1, <3>1 DEF OutOfStep
    <3>. QED  BY <1>3, <1>5, <2>1, <3>2 DEF InInv
  <2>3. CASE steady = 1
    <3>1. steady' = 2
      BY <1>1, <2>3 DEF Heal
    <3>2. Healing(3)
      BY <1>3, <2>3 DEF Settled
    <3>3. Healing(3)'
      BY <1>3, <3>2 DEF Healing, IsNormal, Waits, WaitsSig, InFixed, InSignature,
                        CommandLength
    <3>4. OutOfStep'
      BY <1>3, <2>1, <3>1, <3>3 DEF OutOfStep
    <3>. QED  BY <1>3, <1>5, <2>1, <3>4 DEF InInv
  <2>. QED  BY <2>1, <2>2, <2>3
<1>. QED  BY <1>4, <1>5

\* A suboption starts with the four bytes of its head.
LEMMA HeadStarts ==
    ASSUME NEW g \in Groups, NEW code, Len(g) # 0, g[1] = <<IAC, SB, COM_PORT, code>>,
           wire' = g, IsNormal'
    PROVE  HeadPhase(g, code)'
<1>1. Rest(g, g, 1) /\ 1 # Len(g) + 1
  <2>1. Len(g) \in Nat
    BY DEF Groups
  <2>. QED  BY <2>1, RestAll
<1>2. Left(g, g, 1, g[1])
  BY <1>1, RestLeft
<1>3. Left(wire', g, 1, <<IAC, SB, COM_PORT, code>>)
  BY <1>2
<1>. QED  BY <1>3 DEF HeadPhase

LEMMA TheDoubled ==
    ASSUME NEW code \in Byte, NEW par \in Seq(Byte), <<<<SB, code>> \o par>> = Doubled
    PROVE  /\ code = MODEMSTATE_MASK /\ par = <<IAC>>
           /\ ClientEscapes(par, TRUE) = <<<<IAC, IAC>>>>
<1>. DEFINE b == <<SB, code>>
            y == b \o par
            z == <<SB, MODEMSTATE_MASK, IAC>>
<1>0. y = z
  <2>1. <<y>> = <<z>>
    BY DEF Doubled
  <2>. HIDE DEF y, z
  <2>2. <<y>>[1] = <<z>>[1]
    BY <2>1
  <2>. QED  BY <2>2
<1>1. b \in Seq(Byte) /\ Len(b) = 2 /\ b[2] = code
  BY Bytes
<1>2. Len(z) = 3 /\ z[2] = MODEMSTATE_MASK /\ z[3] = IAC
  BY Bytes
<1>. HIDE DEF b, z
<1>3. /\ Len(y) = Len(b) + Len(par)
      /\ \A i \in 1 .. Len(b) + Len(par) :
            y[i] = IF i <= Len(b) THEN b[i] ELSE par[i - Len(b)]
  BY <1>1, ConcatProperties
<1>. HIDE DEF y
<1>4. Len(par) = 1
  <2>. DEFINE m == Len(par)
  <2>1. m \in Nat /\ 3 = 2 + m
    <3>1. Len(y) = 3 /\ Len(par) \in Nat
      BY <1>0, <1>2
    <3>2. 3 = 2 + Len(par)
      BY <3>1, <1>1, <1>3
    <3>. QED  BY <3>1, <3>2
  <2>. HIDE DEF m
  <2>2. m = 1
    BY <2>1
  <2>. QED  BY <2>2 DEF m
<1>5. code = MODEMSTATE_MASK /\ par[1] = IAC
  <2>1. /\ 2 \in 1 .. Len(b) + Len(par) /\ 2 <= Len(b)
        /\ 3 \in 1 .. Len(b) + Len(par) /\ ~(3 <= Len(b)) /\ 3 - Len(b) = 1
    BY <1>1, <1>4
  <2>2. y[2] = b[2] /\ y[3] = par[1]
    BY <2>1, <1>3
  <2>. QED  BY <2>2, <1>0, <1>1, <1>2
<1>6. par = <<IAC>>
  <2>1. par = <<par[1]>>
    BY <1>4
  <2>. QED  BY <2>1, <1>5
<1>7. ClientEscapes(par, TRUE) = <<<<IAC, IAC>>>>
  <2>. DEFINE e == ClientEscapes(par, TRUE)
  <2>1. e \in Groups /\ Len(e) = Len(par) /\ \A i \in 1 .. Len(par) :
            e[i] = IF par[i] = IAC THEN <<IAC, IAC>> ELSE <<par[i]>>
    BY EscapeCommand
  <2>. HIDE DEF e
  <2>2. Len(e) = 1 /\ e[1] = <<IAC, IAC>> /\ e \in Seq(Group)
    BY <2>1, <1>4, <1>5 DEF Groups
  <2>3. e = <<e[1]>>
    BY <2>2
  <2>. QED  BY <2>2, <2>3 DEF e
<1>. QED  BY <1>5, <1>6, <1>7

LEMMA InCommand ==
    ASSUME TypeInv, InInv, NEW q \in Commands, ClientCommand(q[1], q[2])
    PROVE  InInv'
<1>0. q[1] \in Byte /\ q[2] \in Seq(Byte)
  BY CommandCodes
<1>1. PICK code \in Byte, par \in Seq(Byte) : code = q[1] /\ par = q[2]
  BY <1>0
<1>. DEFINE data == <<>>
            cmds == <<<<SB, code>> \o par>>
<1>2. PICK g : g = Suboption(code, ClientEscapes(par, TRUE))
  OBVIOUS
<1>3. /\ client.com_port /\ Sends(g, data, cmds) /\ client' = client
      /\ IF IAC \in ToSet(par) THEN pristine' = FALSE /\ steady' = 0
                               ELSE StartsOver /\ pristine' = pristine
  BY <1>1, <1>2 DEF ClientCommand
<1>4. /\ g \in Groups /\ Len(g) = Len(par) + 2 /\ Len(par) \in Nat
      /\ g[1] = <<IAC, SB, COM_PORT, code>>
  BY <1>2, SubMessage
<1>5. Len(g) # 0 /\ g # <<>>
  BY <1>4
<1>. HIDE DEF data, cmds
<1>6. /\ Settled /\ wire' = g /\ wire' # <<>> /\ side' = "in"
      /\ msg'.data = data /\ msg'.cmds = cmds /\ Untouched'
      /\ msg'.insync <=> pristine \/ steady = 2
      /\ tnstate' = tnstate /\ (msg'.insync => IsNormal')
  BY <1>3, <1>4, <1>5, Sent
<1>7. msg'.insync => HeadPhase(g, code)'
  BY <1>4, <1>5, <1>6, HeadStarts
<1>8. CASE ~msg'.insync
  <2>1. ~pristine' /\ steady' = 0
    <3>1. ~pristine /\ steady # 2
      BY <1>6, <1>8
    <3>. QED  BY <1>3, <3>1, StartedOver
  <2>. QED  BY <1>6, <1>8, <2>1, SentOut
<1>9. CASE msg'.insync /\ IAC \notin ToSet(par)
  <2>1. pristine' => Agree(tnstate)' /\ client'.com_port
    BY <1>3, <1>6, <1>9 DEF Settled, Agree
  <2>2. Command(code, par)'
    BY <1>6, <2>1 DEF Command, data, cmds
  <2>3. CommandAt(code, par, g)'
    BY <1>7, <1>9 DEF CommandAt
  <2>4. CommandPhase'
    BY <1>1, <1>2, <1>9, <2>2, <2>3 DEF CommandPhase
  <2>. QED  BY <1>6, <1>9, <2>4, SentIn DEF InStep
<1>10. CASE msg'.insync /\ IAC \in ToSet(par)
  <2>1. ~pristine' /\ steady' = 0 /\ msg'.data = <<>>
    BY <1>3, <1>6, <1>10 DEF data
  <2>2. CASE cmds = Doubled
    <3>1. code = MODEMSTATE_MASK /\ ClientEscapes(par, TRUE) = <<<<IAC, IAC>>>>
      BY <2>2, TheDoubled DEF cmds
    <3>2. g = Suboption(MODEMSTATE_MASK, <<<<IAC, IAC>>>>) /\ HeadPhase(g, MODEMSTATE_MASK)'
      BY <1>2, <1>7, <1>10, <3>1
    <3>3. DoubledPhase'
      BY <1>6, <2>1, <2>2, <3>2 DEF DoubledPhase, Untouched
    <3>. QED  BY <1>6, <1>10, <3>3, SentIn DEF InStep
  <2>3. CASE cmds # Doubled
    <3>1. Upset'
      BY <1>6, <2>1, <2>3 DEF Upset
    <3>. QED  BY <1>6, <1>10, <3>1, SentIn DEF InStep
  <2>. QED  BY <2>2, <2>3
<1>. QED  BY <1>8, <1>9, <1>10

LEMMA InSignatures ==
    ASSUME TypeInv, InInv, NEW text \in Text, ClientSignature(text)
    PROVE  InInv'
<1>0. text \in Seq(Byte) /\ Len(text) + 6 \in Nat
  BY CommandTypes
<1>. DEFINE data == <<>>
            cmds == <<<<SB, SIGNATURE, Kept(Len(text) + 6)>>>>
            code == SIGNATURE
<1>2. PICK g : g = Suboption(code, ClientEscapes(text, TRUE))
  OBVIOUS
<1>3. client.com_port /\ Sends(g, data, cmds) /\ StartsOver /\ UNCHANGED <<client, pristine>>
  BY <1>0, <1>2, MinKept DEF ClientSignature
<1>4. /\ g \in Groups /\ Len(g) = Len(text) + 2 /\ Len(text) \in Nat
      /\ g[1] = <<IAC, SB, COM_PORT, code>>
  <2>1. code \in Byte
    BY Bytes
  <2>. HIDE DEF code
  <2>. QED  BY <1>0, <1>2, <2>1, SubMessage
<1>5. Len(g) # 0 /\ g # <<>>
  BY <1>4
<1>. HIDE DEF data, cmds
<1>6. /\ Settled /\ wire' = g /\ wire' # <<>> /\ side' = "in"
      /\ msg'.data = data /\ msg'.cmds = cmds /\ Untouched'
      /\ msg'.insync <=> pristine \/ steady = 2
      /\ tnstate' = tnstate /\ (msg'.insync => IsNormal')
  BY <1>3, <1>4, <1>5, Sent
<1>7. CASE ~msg'.insync
  <2>1. ~pristine' /\ steady' = 0
    BY <1>3, <1>6, <1>7, StartedOver
  <2>. QED  BY <1>6, <1>7, <2>1, SentOut
<1>8. CASE msg'.insync
  <2>1. pristine' => Agree(tnstate)' /\ client'.com_port
    BY <1>3, <1>6 DEF Settled, Agree
  <2>2. HeadPhase(g, SIGNATURE)'
    BY <1>4, <1>5, <1>6, <1>8, HeadStarts
  <2>3. SignatureAt(text, g)'
    BY <2>2 DEF SignatureAt
  <2>4. SignaturePhase'
    BY <1>2, <1>6, <2>1, <2>3 DEF SignaturePhase, data, cmds
  <2>. QED  BY <1>6, <1>8, <2>4, SentIn DEF InStep
<1>. QED  BY <1>7, <1>8

LEMMA InNop ==
    ASSUME TypeInv, InInv, ClientNop
    PROVE  InInv'
<1>. DEFINE groups == <<<<IAC, NOP>>>>
            data == <<>>
            cmds == <<>>
<1>1. Sends(groups, data, cmds) /\ pristine' = FALSE /\ steady' = 0
  BY DEF ClientNop
<1>2. groups \in Groups /\ groups # <<>>
  <2>1. <<IAC, NOP>> \in Group
    BY Bytes, TupleGroups
  <2>. QED  BY <2>1 DEF Groups
<1>. HIDE DEF groups, data, cmds
<1>3. wire' # <<>> /\ side' = "in" /\ msg'.data = data /\ msg'.cmds = cmds
  BY <1>1, <1>2, Sent
<1>4. cmds # Doubled /\ data = <<>>
  BY DEF cmds, data, Doubled
<1>5. Upset'
  BY <1>1, <1>3, <1>4 DEF Upset
<1>. QED  BY <1>1, <1>3, <1>5, SentIn, SentOut DEF InStep

LEMMA InReconnect ==
    ASSUME TypeInv, InInv, Reconnect
    PROVE  InInv'
<1>1. /\ wire' = <<>> /\ msg' = NoMsg /\ toDev' = <<>> /\ heard' = <<>>
      /\ tnstate' = [is_do |-> FALSE, is_will |-> FALSE, com_port |-> FALSE]
      /\ client' = NewClient /\ steady' = 0
      /\ pristine' => /\ pristine /\ wire = <<>>
                      /\ ~(/\ client.us /\ msg.data # <<>>
                           /\ msg.data[Len(msg.data)] = CR)
      /\ UNCHANGED <<IACEscape, rxLast>>
  BY DEF Reconnect, parser
<1>2. pristine' => IsNormal' /\ rxLast' # CR
  BY <1>1 DEF InInv, Settled, IsNormal
<1>3. Agree(tnstate)' /\ msg'.data = <<>> /\ msg'.cmds = <<>> /\ ~msg'.insync
  BY <1>1 DEF Agree, NewClient, NoMsg
<1>4. steady' # 1 /\ steady' # 2
  BY <1>1
<1>5. Settled'
  BY <1>1, <1>2, <1>3, <1>4 DEF Settled
<1>. QED  BY <1>1, <1>5 DEF InInv

\* Nothing of a message that has been read changes.
LEMMA InQuiet ==
    ASSUME InInv, wire = <<>>, UNCHANGED inVars, Agree(tnstate) => Agree(tnstate)',
           client'.us = client.us, tnstate'.com_port = tnstate.com_port
    PROVE  InInv'
<1>1. UNCHANGED <<IACEscape, IACSigEscape, IACCommand, rxLast, wire, msg, toDev, heard,
                  pristine, steady>>
  BY DEF inVars, parser
<1>2. Settled
  BY DEF InInv
<1>3. Healing(3) => Healing(3)'
  BY <1>1 DEF Healing, IsNormal, Waits, WaitsSig, InFixed, InSignature, CommandLength
<1>4. IsNormal <=> IsNormal'
  BY <1>1 DEF IsNormal
<1>5. Settled'
  BY <1>1, <1>2, <1>3, <1>4 DEF Settled
<1>. QED  BY <1>1, <1>5 DEF InInv

LEMMA InStutter ==
    ASSUME InInv, UNCHANGED vars
    PROVE  InInv'
<1>0. UNCHANGED <<IACEscape, IACSigEscape, IACCommand, rxLast, wire, msg, toDev, heard,
                  pristine, steady, tnstate, client, side>>
  BY DEF vars, inVars, parser
<1>1. CASE wire = <<>>
  BY <1>0, <1>1, InQuiet DEF Agree, inVars, parser
<1>2. CASE wire # <<>>
  <2>1. DataPhase => DataPhase'
    BY <1>0 DEF DataPhase, DataAt, Delivered, Agree, IsNormal
  <2>2. OptionPhase => OptionPhase'
    <3>1. ASSUME NEW cmd, NEW opt, Agree(Effect(cmd, opt)) PROVE Agree(Effect(cmd, opt))'
      <4>1. Effect(cmd, opt)' = Effect(cmd, opt)
        BY <1>0, Zenon DEF Effect
      <4>. QED  BY <1>0, <3>1, <4>1 DEF Agree
    <3>2. Untouched => Untouched'
      BY <1>0 DEF Untouched
    <3>. QED  BY <1>0, <3>1, <3>2 DEF OptionPhase, IsNormal
  <2>3. \A g, code : HeadPhase(g, code) => HeadPhase(g, code)'
    BY <1>0 DEF HeadPhase, IsNormal
  <2>4. \A code, n : Started(code, n) => Started(code, n)'
    BY <1>0 DEF Started
  <2>5. CommandPhase => CommandPhase'
    <3>1. \A code, par, g : CommandAt(code, par, g) => CommandAt(code, par, g)'
      BY <1>0, <2>3, <2>4 DEF CommandAt
    <3>2. \A code, par : Command(code, par) => Command(code, par)'
      BY <1>0 DEF Command, Untouched, Agree
    <3>. QED  BY <3>1, <3>2 DEF CommandPhase
  <2>6. SignaturePhase => SignaturePhase'
    <3>1. \A text, g : SignatureAt(text, g) => SignatureAt(text, g)'
      BY <1>0, <2>3, <2>4 DEF SignatureAt
    <3>. QED  BY <1>0, <3>1 DEF SignaturePhase, Untouched, Agree
  <2>7. DoubledPhase => DoubledPhase'
    BY <1>0, <2>3, <2>4 DEF DoubledPhase, IsNormal
  <2>8. Upset => Upset'
    BY <1>0 DEF Upset
  <2>9. OutOfStep => OutOfStep'
    <3>1. /\ IsNormal => IsNormal'
          /\ InOption => InOption'
          /\ InHead(3) => InHead(3)'
      BY <1>0 DEF IsNormal, InOption, InHead
    <3>2. \A need : Waits(need) => Waits(need)'
      BY <1>0 DEF Waits, InFixed, CommandLength
    <3>3. \A state : WaitsSig(state) => WaitsSig(state)'
      BY <1>0 DEF WaitsSig, InSignature
    <3>4. /\ Healing(5) => Healing(5)'
          /\ Healing(4) => Healing(4)'
          /\ Healing(3) => Healing(3)'
          /\ Healing(2) => Healing(2)'
          /\ Healing(1) => Healing(1)'
      BY <1>0, <3>1, <3>2, <3>3 DEF Healing
    <3>. QED  BY <1>0, <3>4 DEF OutOfStep
  <2>. QED  BY <1>0, <1>2, <2>1, <2>2, <2>5, <2>6, <2>7, <2>8, <2>9 DEF InInv, InStep
<1>. QED  BY <1>1, <1>2

\* sercd's side leaves the client's alone.
LEMMA InOut ==
    ASSUME TypeInv, InInv, side = "out", UNCHANGED inVars,
           \/ /\ UNCHANGED tnstate
              /\ client'.us = client.us /\ client'.him = client.him
              /\ client'.com_port = client.com_port
           \/ \E binary \in BOOLEAN : SwitchMode(binary)
    PROVE  InInv'
<1>1. wire = <<>>
  <2>1. side # "in"
    OBVIOUS
  <2>. QED  BY <2>1 DEF InInv
<1>2. /\ client \in ClientType
      /\ tnstate \in [is_do : BOOLEAN, is_will : BOOLEAN, com_port : BOOLEAN]
  BY SteadyType DEF TypeInv, TypeOK
<1>3. CASE /\ UNCHANGED tnstate
           /\ client'.us = client.us /\ client'.him = client.him
           /\ client'.com_port = client.com_port
  BY <1>1, <1>3, InQuiet DEF Agree
<1>4. ASSUME NEW binary \in BOOLEAN, SwitchMode(binary) PROVE InInv'
  <2>1. /\ tnstate' = [tnstate EXCEPT !.is_will = binary]
        /\ client' = [client EXCEPT !.him = binary]
    BY <1>4 DEF SwitchMode
  <2>2. client'.us = client.us /\ client'.him = binary /\ client'.com_port = client.com_port
    BY <1>2, <2>1 DEF ClientType
  <2>3. tnstate'.com_port = tnstate.com_port
    BY <1>2, <2>1
  <2>4. ASSUME Agree(tnstate) PROVE Agree(tnstate)'
    <3>1. tnstate = [is_do |-> client.us, is_will |-> client.him,
                     com_port |-> client.com_port]
      BY <2>4 DEF Agree
    <3>2. tnstate' = [is_do |-> client.us, is_will |-> binary,
                      com_port |-> client.com_port]
      BY <2>1, <3>1
    <3>. QED  BY <2>2, <3>2 DEF Agree
  <2>. QED  BY <1>1, <2>2, <2>3, <2>4, InQuiet
<1>. QED  BY <1>3, <1>4

LEMMA InClient ==
    ASSUME TypeInv, InInv, OutInv, ClientReads
    PROVE  InInv'
<1>1. /\ toClient # <<>> /\ UNCHANGED <<inVars, tnstate>>
      /\ ClientByte(FirstByte(toClient))
  BY DEF ClientReads
<1>2. side = "out"
  BY <1>1 DEF OutInv, TypeInv, ItemType
<1>3. client \in ClientType
  BY SteadyType DEF TypeInv
<1>4. \E mode, cr, out : ClientGets(mode, cr, out)
  BY <1>1 DEF ClientByte
<1>5. \E mode, cr : client' = [client EXCEPT !.mode = mode, !.cr = cr]
  BY <1>4 DEF ClientGets
<1>6. client'.us = client.us /\ client'.him = client.him /\ client'.com_port = client.com_port
  BY <1>3, <1>5 DEF ClientType
<1>. QED  BY <1>1, <1>2, <1>6, InOut

LEMMA InSendsOut ==
    ASSUME TypeInv, InInv, NEW given, NEW groups, NEW kind, SendsToClient(given, groups, kind)
    PROVE  InInv'
<1>1. /\ side = "out" /\ UNCHANGED <<inVars, tnstate>>
      /\ client' = [client EXCEPT !.last = kind]
  BY DEF SendsToClient
<1>2. client \in ClientType
  BY SteadyType DEF TypeInv
<1>3. client'.us = client.us /\ client'.him = client.him /\ client'.com_port = client.com_port
  BY <1>1, <1>2 DEF ClientType
<1>. QED  BY <1>1, <1>3, InOut

LEMMA OutStutter ==
    ASSUME OutInv, UNCHANGED vars
    PROVE  OutInv'
<1>1. UNCHANGED <<txLast, toClient, item, tnstate, client, side>>
  BY DEF vars, outVars
<1>2. DataOut => DataOut'
  BY <1>1 DEF DataOut
<1>3. \A code, par, g : AnswerPhase(code, par, g) => AnswerPhase(code, par, g)'
  BY <1>1 DEF AnswerPhase, Got
<1>4. \A par, prev : Written(par, prev)' = Written(par, prev)
  <2>1. \A C, last : EscWriteChar(C, last)' = EscWriteChar(C, last)
    BY <1>1, Zenon DEF EscWriteChar
  <2>. QED  BY <2>1, Zenon DEF Written
<1>5. ASSUME AnswerOut PROVE AnswerOut'
  <2>1. PICK q \in Answers, prev \in Byte :
            LET g == Suboption(q[1], Written(q[2], prev))
            IN  /\ item.given = <<COM_PORT, q[1]>> \o q[2] /\ client.last = "answer"
                /\ q[2] # <<>>
                /\ item.fair =>
                      \A i \in 1 .. Len(q[2]) : Len(g[i + 1]) = 2 => q[2][i] = IAC
                /\ AnswerPhase(q[1], q[2], g)
    BY <1>5 DEF AnswerOut
  <2>2. PICK g : g = Suboption(q[1], Written(q[2], prev))
    OBVIOUS
  <2>3. Suboption(q[1], Written(q[2], prev))' = g
    BY <1>4, <2>2
  <2>4. AnswerPhase(q[1], q[2], g)'
    BY <1>3, <2>1, <2>2
  <2>. QED  BY <1>1, <2>1, <2>2, <2>3, <2>4 DEF AnswerOut
<1>6. OutSettled => OutSettled'
  BY <1>1 DEF OutSettled
<1>. QED  BY <1>1, <1>2, <1>5, <1>6 DEF OutInv

----------------------------------------------------------------------------
(* The invariant.                                                          *)

LEMMA InductiveInit ==
    ASSUME Init
    PROVE  IInv
<1>1. TypeInv
  BY TypeInit
<1>2. Settled
  BY DEF Init, Settled, IsNormal, Agree, NewClient, NoMsg, CR
<1>3. OutSettled
  BY DEF Init, OutSettled, NewClient, NoItem
<1>4. InInv
  BY <1>2 DEF Init, InInv
<1>5. OutInv
  BY <1>3 DEF Init, OutInv, NewClient
<1>. QED  BY <1>1, <1>4, <1>5 DEF IInv

LEMMA InductiveNext ==
    ASSUME IInv, [Next]_vars
    PROVE  IInv'
<1>0. TypeInv /\ InInv /\ OutInv
  BY DEF IInv
<1>1. TypeInv'
  BY <1>0, TypeNext
<1>2. ASSUME NEW groups, NEW data, NEW cmds, Sends(groups, data, cmds) PROVE OutInv'
  <2>1. side = "in" /\ side' = side /\ UNCHANGED outVars
    BY <1>2 DEF Sends
  <2>. QED  BY <1>0, <2>1, OutUnchanged
<1>3. CASE EscRedirectChar
  <2>1. side = "in" /\ side' = side /\ UNCHANGED outVars
    BY <1>0, <1>3 DEF EscRedirectChar, InInv
  <2>. QED  BY <1>0, <1>1, <1>3, <2>1, InRead, OutUnchanged DEF IInv
<1>4. CASE ClientReads
  BY <1>0, <1>1, <1>4, InClient, OutReads DEF IInv
<1>5. ASSUME NEW c \in Data, DeviceByte(c) PROVE IInv'
  <2>1. \E given, groups, kind : SendsToClient(given, groups, kind)
    BY <1>5 DEF DeviceByte
  <2>. QED  BY <1>0, <1>1, <1>5, <2>1, InSendsOut, OutDevice DEF IInv
<1>6. ASSUME NEW q \in Answers, Answer(q[1], q[2]) PROVE IInv'
  <2>1. \E given, groups, kind : SendsToClient(given, groups, kind)
    BY <1>6 DEF Answer
  <2>. QED  BY <1>0, <1>1, <1>6, <2>1, InSendsOut, OutAnswers DEF IInv
<1>7. ASSUME NEW binary \in BOOLEAN, SwitchMode(binary) PROVE IInv'
  <2>1. side = "out" /\ UNCHANGED inVars
    BY <1>7 DEF SwitchMode
  <2>. QED  BY <1>0, <1>1, <1>7, <2>1, InOut, OutSwitch DEF IInv
<1>8. ASSUME NEW d \in Seq(Byte), ClientData(d) PROVE IInv'
  <2>1. \E groups, data, cmds : Sends(groups, data, cmds)
    BY <1>8 DEF ClientData
  <2>. QED  BY <1>0, <1>1, <1>2, <1>8, <2>1, InData DEF IInv
<1>9. ASSUME NEW cmd \in Cmds, NEW opt \in Opts, ClientOption(cmd, opt) PROVE IInv'
  <2>1. \E groups, data, cmds : Sends(groups, data, cmds)
    BY <1>9 DEF ClientOption
  <2>. QED  BY <1>0, <1>1, <1>2, <1>9, <2>1, InOptions DEF IInv
<1>10. ASSUME NEW q \in Commands, ClientCommand(q[1], q[2]) PROVE IInv'
  <2>1. \E groups, data, cmds : Sends(groups, data, cmds)
    BY <1>10 DEF ClientCommand
  <2>. QED  BY <1>0, <1>1, <1>2, <1>10, <2>1, InCommand DEF IInv
<1>11. ASSUME NEW t \in Text, ClientSignature(t) PROVE IInv'
  <2>1. \E groups, data, cmds : Sends(groups, data, cmds)
    BY <1>11 DEF ClientSignature
  <2>. QED  BY <1>0, <1>1, <1>2, <1>11, <2>1, InSignatures DEF IInv
<1>12. CASE ClientNop
  <2>1. \E groups, data, cmds : Sends(groups, data, cmds)
    BY <1>12 DEF ClientNop
  <2>. QED  BY <1>0, <1>1, <1>2, <1>12, <2>1, InNop DEF IInv
<1>13. CASE Reconnect
  BY <1>0, <1>1, <1>13, InReconnect, OutReconnect DEF IInv
<1>14. CASE UNCHANGED vars
  BY <1>0, <1>1, <1>14, InStutter, OutStutter DEF IInv
<1>. QED  BY <1>3, <1>4, <1>5, <1>6, <1>7, <1>8, <1>9, <1>10, <1>11, <1>12, <1>13, <1>14, Steps

\* EscRedirectChar and EscWriteChar keep the invariant, with every client and
\* through every break of the connection.
THEOREM Invariance == Spec => []IInv
<1>1. Init => IInv
  BY InductiveInit
<1>2. IInv /\ [Next]_vars => IInv'
  BY InductiveNext
<1>. QED  BY <1>1, <1>2, PTL DEF Spec

\* Whatever the last client has left behind, IACPos stays within IACCommand:
\* EscRedirectChar writes no byte past its end (sercd.c, EscRedirectChar).
THEOREM TypeCorrect == Spec => []TypeOK
<1>1. IInv => TypeOK
  BY DEF IInv, TypeInv
<1>. QED  BY <1>1, Invariance, PTL

\* Data of any length and content, every command and every signature have
\* exactly the effect they are meant to have, until something upsets the
\* parser (EscRedirectChar, HandleIACCommand).
THEOREM Transparent == Spec => []MessageTransparent
<1>1. IInv => MessageTransparent
  BY DEF IInv, InInv, Settled, MessageTransparent, Agree
<1>. QED  BY <1>1, Invariance, PTL

\* From every state that a session can leave behind, two option commands in a
\* row bring EscRedirectChar back to IACNormal, at the end of the second.
THEOREM Heals == Spec => []ParserHeals
<1>1. IInv => ParserHeals
  BY DEF IInv, InInv, Settled, ParserHeals, IsNormal, Plain, Heal
<1>. QED  BY <1>1, Invariance, PTL

\* The doubled parameter of SET_MODEMSTATE_MASK costs a stray SE on the device
\* and nothing else: the mask is set and EscRedirectChar is in IACNormal.
THEOREM DoubledHarmless == Spec => []DoubledParameter
<1>1. IInv => DoubledParameter
  BY DEF IInv, InInv, Settled, DoubledParameter, Doubled, IsNormal
<1>. QED  BY <1>1, Invariance, PTL

\* A client gets every byte of the device and every answer as they were given
\* to EscWriteChar, for data, parameters and signatures of every kind.
THEOREM ClientUnderstands == Spec => []ClientTransparent
<1>1. IInv => ClientTransparent
  <2>. SUFFICES ASSUME TypeInv, OutInv, toClient = <<>>, item.fair
                PROVE  item.got = item.given
    BY DEF IInv, ClientTransparent
  <2>1. side \in {"in", "out"}
    BY DEF TypeInv, ItemType
  <2>2. CASE side = "in"
    BY <2>2 DEF OutInv, NoItem
  <2>3. CASE side = "out"
    BY <2>3 DEF OutInv, OutSettled
  <2>. QED  BY <2>1, <2>2, <2>3
<1>. QED  BY <1>1, Invariance, PTL
=============================================================================
