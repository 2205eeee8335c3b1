------------------------ MODULE TelnetOption_proofs ------------------------
(***************************************************************************)
(* Proofs about TelnetOption, for every set of options, any number of      *)
(* requests of the client and any number of connections.                   *)
(*                                                                         *)
(* Each option is negotiated in two directions that do not interact.  For  *)
(* one of them the commands in flight form two short words over "on" and   *)
(* "off", whatever other commands lie between them; the inductive          *)
(* invariant is a table of the words that can occur in each state of the   *)
(* two ends.                                                               *)
(***************************************************************************)
EXTENDS TelnetOption, SequenceTheorems, TLAPS

----------------------------------------------------------------------------
(* Words.                                                                  *)

\* The commands on and off of the channel s, in their order, spell the word w.
Word(s, on, off, w) ==
    \E f \in [1 .. Len(w) -> 1 .. Len(s)] :
        /\ \A i, j \in 1 .. Len(w) : i < j => f[i] < f[j]
        /\ \A i \in 1 .. Len(w) : s[f[i]] = IF w[i] = "on" THEN on ELSE off
        /\ \A k \in 1 .. Len(s) : s[k] \in {on, off} =>
                \E i \in 1 .. Len(w) : f[i] = k

Letters == Seq({"on", "off"})

\* Sending some other command does not change the word.
LEMMA WordSkip ==
    ASSUME NEW T, NEW s \in Seq(T), NEW on, NEW off, NEW w \in Letters,
           NEW m \in T, m \notin {on, off}, Word(s, on, off, w)
    PROVE  Word(Append(s, m), on, off, w)
<1> DEFINE t == Append(s, m)
<1>1. /\ t \in Seq(T) /\ Len(t) = Len(s) + 1 /\ Len(s) \in Nat
      /\ \A k \in 1 .. Len(s) : t[k] = s[k]
      /\ t[Len(s) + 1] = m
  OBVIOUS
<1>2. PICK f \in [1 .. Len(w) -> 1 .. Len(s)] :
        /\ \A i, j \in 1 .. Len(w) : i < j => f[i] < f[j]
        /\ \A i \in 1 .. Len(w) : s[f[i]] = IF w[i] = "on" THEN on ELSE off
        /\ \A k \in 1 .. Len(s) : s[k] \in {on, off} =>
                \E i \in 1 .. Len(w) : f[i] = k
  BY DEF Word
<1> HIDE DEF t
<1>3. f \in [1 .. Len(w) -> 1 .. Len(t)]
  BY <1>1
<1>4. \A i \in 1 .. Len(w) : t[f[i]] = IF w[i] = "on" THEN on ELSE off
  BY <1>1, <1>2
<1>5. ASSUME NEW k \in 1 .. Len(t), t[k] \in {on, off}
      PROVE  \E i \in 1 .. Len(w) : f[i] = k
  <2>1. k \in 1 .. Len(s)
    BY <1>1, <1>5
  <2> QED
    BY <1>1, <1>2, <1>5, <2>1
<1>6. Word(t, on, off, w)
  BY <1>2, <1>3, <1>4, <1>5 DEF Word
<1> QED
  BY <1>6 DEF t

\* Sending on or off adds a letter.
LEMMA WordAdd ==
    ASSUME NEW T, NEW s \in Seq(T), NEW on \in T, NEW off \in T, NEW w \in Letters,
           NEW a \in {"on", "off"}, Word(s, on, off, w)
    PROVE  Word(Append(s, IF a = "on" THEN on ELSE off), on, off, Append(w, a))
<1> DEFINE m == IF a = "on" THEN on ELSE off
           t == Append(s, m)
           v == Append(w, a)
<1>1. /\ t \in Seq(T) /\ Len(t) = Len(s) + 1 /\ Len(s) \in Nat
      /\ \A k \in 1 .. Len(s) : t[k] = s[k]
      /\ t[Len(s) + 1] = m
  OBVIOUS
<1>2. /\ Len(v) = Len(w) + 1 /\ Len(w) \in Nat
      /\ \A k \in 1 .. Len(w) : v[k] = w[k]
      /\ v[Len(w) + 1] = a
  BY DEF Letters
<1>3. PICK f \in [1 .. Len(w) -> 1 .. Len(s)] :
        /\ \A i, j \in 1 .. Len(w) : i < j => f[i] < f[j]
        /\ \A i \in 1 .. Len(w) : s[f[i]] = IF w[i] = "on" THEN on ELSE off
        /\ \A k \in 1 .. Len(s) : s[k] \in {on, off} =>
                \E i \in 1 .. Len(w) : f[i] = k
  BY DEF Word
<1> DEFINE g == [i \in 1 .. Len(v) |-> IF i = Len(v) THEN Len(t) ELSE f[i]]
<1> HIDE DEF t, v
<1>4. g \in [1 .. Len(v) -> 1 .. Len(t)]
  BY <1>1, <1>2
<1>5. \A i, j \in 1 .. Len(v) : i < j => g[i] < g[j]
  BY <1>1, <1>2, <1>3
<1>6. \A i \in 1 .. Len(v) : t[g[i]] = IF v[i] = "on" THEN on ELSE off
  <2>1. ASSUME NEW i \in 1 .. Len(w)
        PROVE  t[g[i]] = IF v[i] = "on" THEN on ELSE off
    <3>1. g[i] = f[i] /\ v[i] = w[i]
      BY <1>2
    <3>2. f[i] \in 1 .. Len(s)
      OBVIOUS
    <3>3. t[f[i]] = s[f[i]]
      BY <1>1, <3>2
    <3> HIDE DEF g
    <3> QED
      BY <1>3, <3>1, <3>3
  <2>2. t[g[Len(v)]] = IF v[Len(v)] = "on" THEN on ELSE off
    BY <1>1, <1>2
  <2>3. \A i \in 1 .. Len(v) : i = Len(v) \/ i \in 1 .. Len(w)
    BY <1>2
  <2> HIDE DEF g
  <2> QED
    BY <2>1, <2>2, <2>3
<1>7. ASSUME NEW k \in 1 .. Len(t), t[k] \in {on, off}
      PROVE  \E i \in 1 .. Len(v) : g[i] = k
  <2>1. CASE k = Len(t)
    BY <1>2, <2>1
  <2>2. CASE k \in 1 .. Len(s)
    <3>1. PICK i \in 1 .. Len(w) : f[i] = k
      BY <1>1, <1>3, <1>7, <2>2
    <3> QED
      BY <1>2, <3>1
  <2> QED
    BY <1>1, <2>1, <2>2
<1> HIDE DEF g
<1>8. Word(t, on, off, v)
  BY <1>4, <1>5, <1>6, <1>7 DEF Word
<1> QED
  BY <1>8 DEF t, v

\* Receiving some other command does not change the word.
LEMMA WordDrop ==
    ASSUME NEW T, NEW s \in Seq(T), s # <<>>, NEW on, NEW off, NEW w \in Letters,
           Head(s) \notin {on, off}, Word(s, on, off, w)
    PROVE  Word(Tail(s), on, off, w)
<1> DEFINE t == Tail(s)
<1>1. /\ t \in Seq(T) /\ Len(s) = Len(t) + 1 /\ Len(t) \in Nat
      /\ \A k \in 1 .. Len(t) : t[k] = s[k + 1]
      /\ s[1] = Head(s)
  OBVIOUS
<1>2. PICK f \in [1 .. Len(w) -> 1 .. Len(s)] :
        /\ \A i, j \in 1 .. Len(w) : i < j => f[i] < f[j]
        /\ \A i \in 1 .. Len(w) : s[f[i]] = IF w[i] = "on" THEN on ELSE off
        /\ \A k \in 1 .. Len(s) : s[k] \in {on, off} =>
                \E i \in 1 .. Len(w) : f[i] = k
  BY DEF Word
<1> DEFINE g == [i \in 1 .. Len(w) |-> f[i] - 1]
<1> HIDE DEF t
<1>3. \A i \in 1 .. Len(w) : f[i] - 1 \in 1 .. Len(t)
  <2> TAKE i \in 1 .. Len(w)
  <2>1. f[i] # 1
    BY <1>1, <1>2
  <2>2. f[i] \in 1 .. Len(s)
    OBVIOUS
  <2> QED
    BY <1>1, <2>1, <2>2
<1>4. g \in [1 .. Len(w) -> 1 .. Len(t)]
  BY <1>3
<1>5. \A i, j \in 1 .. Len(w) : i < j => g[i] < g[j]
  <2> TAKE i \in 1 .. Len(w), j \in 1 .. Len(w)
  <2> HAVE i < j
  <2>1. f[i] < f[j] /\ f[i] \in 1 .. Len(s) /\ f[j] \in 1 .. Len(s)
    BY <1>2
  <2> QED
    BY <1>1, <2>1
<1>6. \A i \in 1 .. Len(w) : t[g[i]] = IF w[i] = "on" THEN on ELSE off
  <2> TAKE i \in 1 .. Len(w)
  <2>1. t[f[i] - 1] = s[f[i]]
    <3>1. f[i] \in 1 .. Len(s)
      OBVIOUS
    <3>2. (f[i] - 1) + 1 = f[i]
      BY <1>1, <3>1
    <3> QED
      BY <1>1, <1>3, <3>2
  <2> QED
    BY <1>2, <2>1
<1>7. ASSUME NEW k \in 1 .. Len(t), t[k] \in {on, off}
      PROVE  \E i \in 1 .. Len(w) : g[i] = k
  <2>1. PICK i \in 1 .. Len(w) : f[i] = k + 1
    BY <1>1, <1>2, <1>7
  <2> QED
    BY <2>1
<1> HIDE DEF g
<1>8. Word(t, on, off, w)
  BY <1>4, <1>5, <1>6, <1>7 DEF Word
<1> QED
  BY <1>8 DEF t

\* Receiving on or off takes the first letter.
LEMMA WordTake ==
    ASSUME NEW T, NEW s \in Seq(T), s # <<>>, NEW on, NEW off, NEW w \in Letters,
           Head(s) \in {on, off}, Word(s, on, off, w)
    PROVE  /\ w # <<>>
           /\ Head(s) = IF Head(w) = "on" THEN on ELSE off
           /\ Word(Tail(s), on, off, Tail(w))
<1> DEFINE t == Tail(s)
           v == Tail(w)
<1>1. /\ t \in Seq(T) /\ Len(s) = Len(t) + 1 /\ Len(t) \in Nat
      /\ \A k \in 1 .. Len(t) : t[k] = s[k + 1]
      /\ s[1] = Head(s)
  OBVIOUS
<1>2. PICK f \in [1 .. Len(w) -> 1 .. Len(s)] :
        /\ \A i, j \in 1 .. Len(w) : i < j => f[i] < f[j]
        /\ \A i \in 1 .. Len(w) : s[f[i]] = IF w[i] = "on" THEN on ELSE off
        /\ \A k \in 1 .. Len(s) : s[k] \in {on, off} =>
                \E i \in 1 .. Len(w) : f[i] = k
  BY DEF Word
<1>3. PICK i0 \in 1 .. Len(w) : f[i0] = 1
  BY <1>1, <1>2
<1>4. /\ w # <<>> /\ 1 \in 1 .. Len(w) /\ Head(w) = w[1]
      /\ Len(w) = Len(v) + 1 /\ Len(v) \in Nat
      /\ \A k \in 1 .. Len(v) : v[k] = w[k + 1]
  BY <1>3 DEF Letters
<1>5. f[1] = 1
  <2>1. f[1] \in 1 .. Len(s)
    BY <1>4
  <2>2. CASE i0 = 1
    BY <1>3, <2>2
  <2>3. CASE i0 > 1
    BY <1>2, <1>3, <1>4, <2>1, <2>3
  <2> QED
    BY <2>2, <2>3
<1>6. s[1] = IF w[1] = "on" THEN on ELSE off
  BY <1>2, <1>4, <1>5
<1> DEFINE g == [i \in 1 .. Len(v) |-> f[i + 1] - 1]
<1> HIDE DEF t, v
<1>7. \A i \in 1 .. Len(v) : i + 1 \in 1 .. Len(w) /\ f[i + 1] - 1 \in 1 .. Len(t)
  <2> TAKE i \in 1 .. Len(v)
  <2>1. i + 1 \in 1 .. Len(w) /\ 1 < i + 1
    BY <1>4
  <2>2. f[i + 1] \in 1 .. Len(s) /\ f[i + 1] > 1
    BY <1>2, <1>4, <1>5, <2>1
  <2> QED
    BY <1>1, <2>1, <2>2
<1>8. g \in [1 .. Len(v) -> 1 .. Len(t)]
  BY <1>7
<1>9. \A i, j \in 1 .. Len(v) : i < j => g[i] < g[j]
  <2> TAKE i \in 1 .. Len(v), j \in 1 .. Len(v)
  <2> HAVE i < j
  <2>1. f[i + 1] < f[j + 1]
    BY <1>2, <1>7
  <2>2. f[i + 1] \in 1 .. Len(s) /\ f[j + 1] \in 1 .. Len(s)
    BY <1>7
  <2> QED
    BY <1>1, <2>1, <2>2
<1>10. \A i \in 1 .. Len(v) : t[g[i]] = IF v[i] = "on" THEN on ELSE off
  <2> TAKE i \in 1 .. Len(v)
  <2>1. t[f[i + 1] - 1] = s[f[i + 1]]
    <3>1. f[i + 1] \in 1 .. Len(s)
      BY <1>7
    <3> QED
      BY <1>1, <1>7, <3>1
  <2>2. v[i] = w[i + 1]
    BY <1>4
  <2>3. s[f[i + 1]] = IF w[i + 1] = "on" THEN on ELSE off
    BY <1>2, <1>7
  <2> QED
    BY <2>1, <2>2, <2>3
<1>11. ASSUME NEW k \in 1 .. Len(t), t[k] \in {on, off}
       PROVE  \E i \in 1 .. Len(v) : g[i] = k
  <2>1. PICK i \in 1 .. Len(w) : f[i] = k + 1
    BY <1>1, <1>2, <1>11
  <2>2. i # 1
    BY <1>5, <2>1
  <2>3. i - 1 \in 1 .. Len(v) /\ g[i - 1] = k
    BY <1>4, <2>1, <2>2
  <2> QED
    BY <2>3
<1> HIDE DEF g
<1>12. Word(t, on, off, v)
  BY <1>8, <1>9, <1>10, <1>11 DEF Word
<1> QED
  BY <1>1, <1>4, <1>6, <1>12 DEF t, v

----------------------------------------------------------------------------
(* The table.                                                              *)

WantYes == {"wantyes", "wantyes_opp"}
WantNo == {"wantno", "wantno_opp"}

\* One direction of one option, which sercd supports or not (sup): q is the
\* client's state, is and sent are sercd's, C is the word on its way to the
\* client and S the one on its way to sercd.

\* Nothing is in flight.
Quiet(sup, q, is, sent, C, S) ==
    /\ C = <<>> /\ S = <<>> /\ ~sent
    /\ \/ q = "no" /\ ~is
       \/ q = "yes" /\ is /\ sup

\* The client has asked, and sercd has not heard it yet.
Asked(sup, q, is, sent, C, S) ==
    /\ C = <<>> /\ ~sent
    /\ \/ S = <<"on">> /\ q \in WantYes /\ ~is
       \/ S = <<"off">> /\ q \in WantNo /\ is /\ sup

\* sercd has answered, and the client has not heard it yet.
Answered(sup, q, is, sent, C, S) ==
    /\ S = <<>> /\ ~sent
    /\ \/ C = <<"on">> /\ q \in WantYes /\ is /\ sup
       \/ C = <<"off">> /\ q \in WantNo /\ ~is /\ sup
       \/ C = <<"off">> /\ q \in WantYes /\ ~is /\ ~sup

\* sercd's own request has not been answered: the client has not heard it,
\* or has answered it and perhaps changed its mind since.
Requested(sup, q, is, sent, C, S) ==
    /\ sent /\ ~is /\ sup
    /\ \/ C = <<"on">> /\ S = <<>> /\ q = "no"
       \/ C = <<"on">> /\ S = <<"on">> /\ q \in WantYes
       \/ C = <<>> /\ S = <<"off">> /\ q = "no"
       \/ C = <<>> /\ S = <<"on">> /\ q = "yes"
       \/ C = <<>> /\ S = <<"off", "on">> /\ q \in WantYes
       \/ C = <<>> /\ S = <<"on", "off">> /\ q \in WantNo

Phase(sup, q, is, sent, C, S) ==
    \/ Quiet(sup, q, is, sent, C, S)
    \/ Asked(sup, q, is, sent, C, S)
    \/ Answered(sup, q, is, sent, C, S)
    \/ Requested(sup, q, is, sent, C, S)

Say(w, answer) == IF answer = "nothing" THEN w ELSE Append(w, answer)

\* The words of the table, their heads and tails.
LEMMA ShortWords ==
    /\ <<>> \in Letters /\ <<"on">> \in Letters /\ <<"off">> \in Letters
    /\ <<"on", "off">> \in Letters /\ <<"off", "on">> \in Letters
    /\ <<"on">> # <<>> /\ <<"off">> # <<>> /\ <<"on", "off">> # <<>> /\ <<"off", "on">> # <<>>
    /\ Head(<<"on">>) = "on" /\ Head(<<"off">>) = "off"
    /\ Head(<<"on", "off">>) = "on" /\ Head(<<"off", "on">>) = "off"
    /\ Tail(<<"on">>) = <<>> /\ Tail(<<"off">>) = <<>>
    /\ Tail(<<"on", "off">>) = <<"off">> /\ Tail(<<"off", "on">>) = <<"on">>
    /\ Append(<<>>, "on") = <<"on">> /\ Append(<<>>, "off") = <<"off">>
    /\ Append(<<"on">>, "off") = <<"on", "off">> /\ Append(<<"off">>, "on") = <<"off", "on">>
<1>1. /\ <<>> \in Letters /\ <<"on">> \in Letters /\ <<"off">> \in Letters
      /\ <<"on", "off">> \in Letters /\ <<"off", "on">> \in Letters
  BY DEF Letters
<1>2. <<"on">> # <<>> /\ <<"off">> # <<>> /\ <<"on", "off">> # <<>> /\ <<"off", "on">> # <<>>
  OBVIOUS
<1>3. /\ Head(<<"on">>) = "on" /\ Head(<<"off">>) = "off"
      /\ Head(<<"on", "off">>) = "on" /\ Head(<<"off", "on">>) = "off"
  OBVIOUS
<1>4. Tail(<<"on">>) = <<>> /\ Tail(<<"off">>) = <<>>
  OBVIOUS
<1>5. Tail(<<"on", "off">>) = <<"off">>
  OBVIOUS
<1>6. Tail(<<"off", "on">>) = <<"on">>
  OBVIOUS
<1>7. Append(<<>>, "on") = <<"on">> /\ Append(<<>>, "off") = <<"off">>
  OBVIOUS
<1>8. Append(<<"on">>, "off") = <<"on", "off">>
  <2> DEFINE a == Append(<<"on">>, "off")
             b == <<"on", "off">>
  <2>1. a \in Seq({"on", "off"}) /\ Len(a) = 2 /\ a[1] = "on" /\ a[2] = "off"
    OBVIOUS
  <2>2. b \in Seq({"on", "off"}) /\ Len(b) = 2 /\ b[1] = "on" /\ b[2] = "off"
    OBVIOUS
  <2> HIDE DEF a, b
  <2>3. \A i \in 1 .. Len(a) : a[i] = b[i]
    BY <2>1, <2>2
  <2>4. a = b
    BY <2>1, <2>2, <2>3, SeqEqual
  <2> QED
    BY <2>4 DEF a, b
<1>9. Append(<<"off">>, "on") = <<"off", "on">>
  <2> DEFINE a == Append(<<"off">>, "on")
             b == <<"off", "on">>
  <2>1. a \in Seq({"on", "off"}) /\ Len(a) = 2 /\ a[1] = "off" /\ a[2] = "on"
    OBVIOUS
  <2>2. b \in Seq({"on", "off"}) /\ Len(b) = 2 /\ b[1] = "off" /\ b[2] = "on"
    OBVIOUS
  <2> HIDE DEF a, b
  <2>3. \A i \in 1 .. Len(a) : a[i] = b[i]
    BY <2>1, <2>2
  <2>4. a = b
    BY <2>1, <2>2, <2>3, SeqEqual
  <2> QED
    BY <2>4 DEF a, b
<1> QED
  BY <1>1, <1>2, <1>3, <1>4, <1>5, <1>6, <1>7, <1>8, <1>9

\* The table's words are words.
LEMMA PhaseWords ==
    ASSUME NEW sup, NEW q, NEW is, NEW sent, NEW C, NEW S, Phase(sup, q, is, sent, C, S)
    PROVE  C \in Letters /\ S \in Letters
BY ShortWords DEF Phase, Quiet, Asked, Answered, Requested

\* The client hears a command.
LEMMA PhaseHears ==
    ASSUME NEW sup \in BOOLEAN, NEW q \in QState, NEW is \in BOOLEAN, NEW sent \in BOOLEAN,
           NEW C, NEW S, Phase(sup, q, is, sent, C, S), C # <<>>,
           NEW r \in ClientHears(q, Head(C) = "on")
    PROVE  /\ r[1] \in QState /\ r[2] \in {"on", "off", "nothing"}
           /\ Phase(sup, r[1], is, sent, Tail(C), Say(S, r[2]))
<1>1. CASE Answered(sup, q, is, sent, C, S)
  BY <1>1, ShortWords DEF Answered, Phase, Quiet, Asked, ClientHears, WantYes, WantNo, QState, Say
<1>2. CASE Requested(sup, q, is, sent, C, S)
  <2>1. C = <<"on">> /\ Head(C) = "on" /\ Tail(C) = <<>> /\ sent /\ ~is /\ sup
    BY <1>2, ShortWords DEF Requested
  <2>2. CASE q = "no" /\ S = <<>>
    <3>1. r \in {<<"yes", "on">>, <<"no", "off">>}
      BY <2>1, <2>2 DEF ClientHears
    <3>2. CASE r = <<"yes", "on">>
      BY <2>1, <2>2, <3>2, ShortWords DEF Requested, Phase, QState, Say
    <3>3. CASE r = <<"no", "off">>
      BY <2>1, <2>2, <3>3, ShortWords DEF Requested, Phase, QState, Say
    <3> QED
      BY <3>1, <3>2, <3>3
  <2>3. CASE q = "wantyes" /\ S = <<"on">>
    <3>1. r = <<"yes", "nothing">>
      BY <2>1, <2>3 DEF ClientHears
    <3> QED
      BY <2>1, <2>3, <3>1 DEF Requested, Phase, QState, Say
  <2>4. CASE q = "wantyes_opp" /\ S = <<"on">>
    <3>1. r = <<"wantno", "off">>
      BY <2>1, <2>4 DEF ClientHears
    <3> QED
      BY <2>1, <2>4, <3>1, ShortWords DEF Requested, Phase, QState, Say, WantNo
  <2> QED
    BY <1>2, <2>1, <2>2, <2>3, <2>4, ShortWords DEF Requested, WantYes
<1> QED
  BY <1>1, <1>2 DEF Phase, Quiet, Asked

\* The client wants something else than before.
LEMMA PhaseWants ==
    ASSUME NEW sup \in BOOLEAN, NEW q \in QState, NEW is \in BOOLEAN, NEW sent \in BOOLEAN,
           NEW C, NEW S, Phase(sup, q, is, sent, C, S), NEW on \in BOOLEAN
    PROVE  LET r == ClientWants(q, on)
           IN  /\ r[1] \in QState /\ r[2] \in {"on", "off", "nothing"}
               /\ r[1] # q => Phase(sup, r[1], is, sent, C, Say(S, r[2]))
<1>1. CASE Quiet(sup, q, is, sent, C, S)
  BY <1>1, ShortWords DEF Phase, Quiet, Asked, ClientWants, WantYes, WantNo, QState, Say
<1>2. CASE Asked(sup, q, is, sent, C, S)
  BY <1>2, ShortWords DEF Asked, Phase, ClientWants, WantYes, WantNo, QState, Say
<1>3. CASE Answered(sup, q, is, sent, C, S)
  BY <1>3, ShortWords DEF Answered, Phase, ClientWants, WantYes, WantNo, QState, Say
<1>4. CASE Requested(sup, q, is, sent, C, S)
  BY <1>4, ShortWords DEF Requested, Phase, ClientWants, WantYes, WantNo, QState, Say
<1> QED
  BY <1>1, <1>2, <1>3, <1>4 DEF Phase

\* sercd hears WILL (or DO).
LEMMA PhaseOn ==
    ASSUME NEW sup \in BOOLEAN, NEW q \in QState, NEW is \in BOOLEAN, NEW sent \in BOOLEAN,
           NEW C, NEW S, Phase(sup, q, is, sent, C, S), S # <<>>, Head(S) = "on"
    PROVE  Phase(sup, q, sup, FALSE,
                 IF ~sup THEN Append(C, "off") ELSE IF sent THEN C ELSE Append(C, "on"),
                 Tail(S))
<1>1. CASE Asked(sup, q, is, sent, C, S)
  BY <1>1, ShortWords DEF Asked, Answered, Phase, WantYes, WantNo
<1>2. CASE Requested(sup, q, is, sent, C, S)
  BY <1>2, ShortWords DEF Requested, Quiet, Asked, Answered, Phase, WantYes, WantNo
<1> QED
  BY <1>1, <1>2 DEF Phase, Quiet, Answered

\* sercd hears WONT (or DONT).
LEMMA PhaseOff ==
    ASSUME NEW sup \in BOOLEAN, NEW q \in QState, NEW is \in BOOLEAN, NEW sent \in BOOLEAN,
           NEW C, NEW S, Phase(sup, q, is, sent, C, S), S # <<>>, Head(S) = "off"
    PROVE  Phase(sup, q, FALSE, FALSE, IF is THEN Append(C, "off") ELSE C, Tail(S))
<1>1. CASE Asked(sup, q, is, sent, C, S)
  BY <1>1, ShortWords DEF Asked, Answered, Phase, WantYes, WantNo
<1>2. CASE Requested(sup, q, is, sent, C, S)
  BY <1>2, ShortWords DEF Requested, Quiet, Asked, Answered, Phase, WantYes, WantNo
<1> QED
  BY <1>1, <1>2 DEF Phase, Quiet, Answered

----------------------------------------------------------------------------
(* One direction of one option, with its commands among all others.  The   *)
(* channel c to the client carries con and coff for it, the channel s to   *)
(* sercd son and soff.                                                     *)

ToClient == [cmd : Cmd \ {"SB"}, opt : Option]
ToSercd == [cmd : Cmd, opt : Option]

Dir(sup, q, is, sent, c, s, con, coff, son, soff) ==
    \E C, S \in Letters :
        /\ Word(c, con, coff, C)
        /\ Word(s, son, soff, S)
        /\ Phase(sup, q, is, sent, C, S)

\* The channel s became t without a change to its word.
Same(s, t, on, off) ==
    \A w \in Letters : Word(s, on, off, w) => Word(t, on, off, w)

\* A command about something else is sent.
LEMMA SameAppend ==
    ASSUME NEW T, NEW s \in Seq(T), NEW on, NEW off, NEW m \in T, m \notin {on, off}
    PROVE  Same(s, Append(s, m), on, off)
BY WordSkip DEF Same

\* A command about something else is received.
LEMMA SameTail ==
    ASSUME NEW T, NEW s \in Seq(T), s # <<>>, NEW on, NEW off, Head(s) \notin {on, off}
    PROVE  Same(s, Tail(s), on, off)
BY WordDrop DEF Same

\* Neither disturbs the direction.
LEMMA SameDir ==
    ASSUME NEW sup, NEW q, NEW is, NEW sent, NEW c, NEW s, NEW c2, NEW s2,
           NEW con, NEW coff, NEW son, NEW soff,
           Same(c, c2, con, coff), Same(s, s2, son, soff),
           Dir(sup, q, is, sent, c, s, con, coff, son, soff)
    PROVE  Dir(sup, q, is, sent, c2, s2, con, coff, son, soff)
BY DEF Dir, Same

\* sercd hears WILL (or DO).
LEMMA DirOn ==
    ASSUME NEW A, NEW c \in Seq(A), NEW con \in A, NEW coff \in A,
           NEW B, NEW s \in Seq(B), NEW son \in B, NEW soff \in B, son # soff,
           NEW sup \in BOOLEAN, NEW q \in QState, NEW is \in BOOLEAN, NEW sent \in BOOLEAN,
           Dir(sup, q, is, sent, c, s, con, coff, son, soff), s # <<>>, Head(s) = son,
           NEW c2, c2 = IF ~sup THEN Append(c, coff) ELSE IF sent THEN c ELSE Append(c, con)
    PROVE  Dir(sup, q, sup, FALSE, c2, Tail(s), con, coff, son, soff)
<1>1. PICK C \in Letters, S \in Letters :
        /\ Word(c, con, coff, C) /\ Word(s, son, soff, S)
        /\ Phase(sup, q, is, sent, C, S)
  BY DEF Dir
<1>2. /\ S # <<>> /\ Head(S) = "on"
      /\ Word(Tail(s), son, soff, Tail(S))
  BY <1>1, WordTake
<1> DEFINE C2 == IF ~sup THEN Append(C, "off") ELSE IF sent THEN C ELSE Append(C, "on")
<1>3. Phase(sup, q, sup, FALSE, C2, Tail(S))
  BY <1>1, <1>2, PhaseOn
<1>4. Word(c2, con, coff, C2)
  <2>1. Word(Append(c, con), con, coff, Append(C, "on"))
    BY <1>1, WordAdd
  <2>2. Word(Append(c, coff), con, coff, Append(C, "off"))
    BY <1>1, WordAdd
  <2> QED
    BY <1>1, <2>1, <2>2
<1>5. C2 \in Letters /\ Tail(S) \in Letters
  BY <1>3, PhaseWords
<1> HIDE DEF C2
<1> QED
  BY <1>2, <1>3, <1>4, <1>5 DEF Dir

\* sercd hears WONT (or DONT).
LEMMA DirOff ==
    ASSUME NEW A, NEW c \in Seq(A), NEW con \in A, NEW coff \in A,
           NEW B, NEW s \in Seq(B), NEW son \in B, NEW soff \in B, son # soff,
           NEW sup \in BOOLEAN, NEW q \in QState, NEW is \in BOOLEAN, NEW sent \in BOOLEAN,
           Dir(sup, q, is, sent, c, s, con, coff, son, soff), s # <<>>, Head(s) = soff,
           NEW c2, c2 = IF is THEN Append(c, coff) ELSE c
    PROVE  Dir(sup, q, FALSE, FALSE, c2, Tail(s), con, coff, son, soff)
<1>1. PICK C \in Letters, S \in Letters :
        /\ Word(c, con, coff, C) /\ Word(s, son, soff, S)
        /\ Phase(sup, q, is, sent, C, S)
  BY DEF Dir
<1>2. /\ S # <<>> /\ Head(S) \in {"on", "off"} /\ Head(S) # "on"
      /\ Word(Tail(s), son, soff, Tail(S))
  <2>1. /\ S # <<>> /\ soff = IF Head(S) = "on" THEN son ELSE soff
        /\ Word(Tail(s), son, soff, Tail(S))
    BY <1>1, WordTake
  <2> QED
    BY <2>1 DEF Letters
<1> DEFINE C2 == IF is THEN Append(C, "off") ELSE C
<1>3. Phase(sup, q, FALSE, FALSE, C2, Tail(S))
  BY <1>1, <1>2, PhaseOff
<1>4. Word(c2, con, coff, C2)
  <2>1. Word(Append(c, coff), con, coff, Append(C, "off"))
    BY <1>1, WordAdd
  <2> QED
    BY <1>1, <2>1
<1>5. C2 \in Letters /\ Tail(S) \in Letters
  BY <1>3, PhaseWords
<1> HIDE DEF C2
<1> QED
  BY <1>2, <1>3, <1>4, <1>5 DEF Dir

\* What a client's answer does to the channel (ClientSends),
Answer(s, answer, on, off) ==
    IF answer = "nothing" THEN s ELSE Append(s, IF answer = "on" THEN on ELSE off)

\* and to its word.
LEMMA AnswerWord ==
    ASSUME NEW B, NEW s \in Seq(B), NEW son \in B, NEW soff \in B,
           NEW S \in Letters, Word(s, son, soff, S), NEW a \in {"on", "off", "nothing"}
    PROVE  Word(Answer(s, a, son, soff), son, soff, Say(S, a))
<1>1. CASE a = "nothing"
  BY <1>1 DEF Answer, Say
<1>2. CASE a \in {"on", "off"}
  <2>1. Word(Append(s, IF a = "on" THEN son ELSE soff), son, soff, Append(S, a))
    BY <1>2, WordAdd
  <2> QED
    BY <1>2, <2>1 DEF Answer, Say
<1> QED
  BY <1>1, <1>2

\* The client's states and answers.
LEMMA ClientTypes ==
    ASSUME NEW q \in QState, NEW on \in BOOLEAN
    PROVE  /\ \A r \in ClientHears(q, on) : r[1] \in QState /\ r[2] \in {"on", "off", "nothing"}
           /\ ClientWants(q, on)[1] \in QState
           /\ ClientWants(q, on)[2] \in {"on", "off", "nothing"}
BY DEF ClientHears, ClientWants, QState

\* m is taken from the channel c.
Taken(c, m, c2) == c # <<>> /\ Head(c) = m /\ c2 = Tail(c)

\* The client hears an offer or a request (on), or the end of an option.
LEMMA DirHears ==
    ASSUME NEW c \in Seq(ToClient), NEW con \in ToClient, NEW coff \in ToClient, con # coff,
           NEW s \in Seq(ToSercd), NEW son \in ToSercd, NEW soff \in ToSercd,
           NEW sup \in BOOLEAN, NEW q \in QState, NEW is \in BOOLEAN, NEW sent \in BOOLEAN,
           Dir(sup, q, is, sent, c, s, con, coff, son, soff), NEW on \in BOOLEAN,
           NEW c2, on => Taken(c, con, c2), ~on => Taken(c, coff, c2),
           NEW r \in ClientHears(q, on)
    PROVE  Dir(sup, r[1], is, sent, c2, Answer(s, r[2], son, soff), con, coff, son, soff)
<1>0. c # <<>> /\ c2 = Tail(c) /\ (on => Head(c) = con) /\ (~on => Head(c) = coff)
  BY DEF Taken
<1>1. PICK C \in Letters, S \in Letters :
        /\ Word(c, con, coff, C) /\ Word(s, son, soff, S)
        /\ Phase(sup, q, is, sent, C, S)
  BY DEF Dir
<1>2. /\ C # <<>> /\ Head(c) = IF Head(C) = "on" THEN con ELSE coff
      /\ Word(Tail(c), con, coff, Tail(C))
  <2>1. Head(c) \in {con, coff}
    BY <1>0
  <2> QED
    BY <1>0, <1>1, <2>1, WordTake
<1>3. r \in ClientHears(q, Head(C) = "on")
  <2>1. CASE on
    <3>1. r \in ClientHears(q, TRUE)
      BY <2>1
    <3>2. Head(C) = "on"
      BY <1>0, <1>2, <2>1
    <3> QED
      BY <3>1, <3>2
  <2>2. CASE ~on
    <3>1. r \in ClientHears(q, FALSE)
      BY <2>2
    <3>2. ~(Head(C) = "on")
      BY <1>0, <1>2, <2>2
    <3> QED
      BY <3>1, <3>2
  <2> QED
    BY <2>1, <2>2
<1>4. /\ r[1] \in QState /\ r[2] \in {"on", "off", "nothing"}
      /\ Phase(sup, r[1], is, sent, Tail(C), Say(S, r[2]))
  BY <1>1, <1>2, <1>3, PhaseHears
<1>5. Tail(C) \in Letters /\ Say(S, r[2]) \in Letters
  BY <1>4, PhaseWords
<1>6. Word(Answer(s, r[2], son, soff), son, soff, Say(S, r[2]))
  BY <1>1, <1>4, AnswerWord
<1> QED
  BY <1>0, <1>2, <1>4, <1>5, <1>6 DEF Dir

\* The client wants something else than before.
LEMMA DirWants ==
    ASSUME NEW c \in Seq(ToClient), NEW con \in ToClient, NEW coff \in ToClient,
           NEW s \in Seq(ToSercd), NEW son \in ToSercd, NEW soff \in ToSercd,
           NEW sup \in BOOLEAN, NEW q \in QState, NEW is \in BOOLEAN, NEW sent \in BOOLEAN,
           Dir(sup, q, is, sent, c, s, con, coff, son, soff), NEW on \in BOOLEAN,
           NEW r, r = ClientWants(q, on), r[1] # q
    PROVE  Dir(sup, r[1], is, sent, c, Answer(s, r[2], son, soff), con, coff, son, soff)
<1>1. PICK C \in Letters, S \in Letters :
        /\ Word(c, con, coff, C) /\ Word(s, son, soff, S)
        /\ Phase(sup, q, is, sent, C, S)
  BY DEF Dir
<1>2. /\ r[2] \in {"on", "off", "nothing"}
      /\ Phase(sup, r[1], is, sent, C, Say(S, r[2]))
  BY <1>1, PhaseWants
<1>3. Say(S, r[2]) \in Letters
  BY <1>2, PhaseWords
<1>4. Word(Answer(s, r[2], son, soff), son, soff, Say(S, r[2]))
  BY <1>1, <1>2, AnswerWord
<1> QED
  BY <1>1, <1>2, <1>3, <1>4 DEF Dir

----------------------------------------------------------------------------
(* COM-PORT-OPTION commands in flight.                                     *)

On == Msg("WILL", "COMPORT")
Off == Msg("WONT", "COMPORT")

\* No WILL or WONT for the option lies strictly between i and j.
NoneBetween(s, i, j) == \A k \in 1 .. Len(s) : (i < k /\ k < j) => s[k] \notin {On, Off}

\* When sercd comes to the command at i, the last it has heard of the option
\* is WILL.
CoveredAt(s, is, i) ==
    /\ s[i].opt = "COMPORT"
    /\ \/ \E j \in 1 .. Len(s) : j < i /\ s[j] = On /\ NoneBetween(s, j, i)
       \/ is /\ NoneBetween(s, 0, i)

Covered(s, is) == \A i \in 1 .. Len(s) : s[i].cmd = "SB" => CoveredAt(s, is, i)

\* On and Off are two commands, neither of them SB.
LEMMA OnOff == On # Off /\ On.cmd # "SB" /\ Off.cmd # "SB"
BY DEF On, Off, Msg

\* A command sent later does not uncover an earlier one.
LEMMA CoveredLater ==
    ASSUME NEW T, NEW s \in Seq(T), NEW m \in T, NEW is, NEW i \in 1 .. Len(s),
           CoveredAt(s, is, i)
    PROVE  CoveredAt(Append(s, m), is, i)
<1> DEFINE t == Append(s, m)
<1>1. /\ Len(t) = Len(s) + 1 /\ Len(s) \in Nat
      /\ \A k \in 1 .. Len(s) : t[k] = s[k]
  OBVIOUS
<1> HIDE DEF t
<1>2. t[i].opt = "COMPORT"
  BY <1>1 DEF CoveredAt
<1>3. \A j \in 0 .. Len(s) : NoneBetween(s, j, i) => NoneBetween(t, j, i)
  BY <1>1 DEF NoneBetween
<1>4. CASE \E j \in 1 .. Len(s) : j < i /\ s[j] = On /\ NoneBetween(s, j, i)
  <2>1. PICK j \in 1 .. Len(s) : j < i /\ s[j] = On /\ NoneBetween(s, j, i)
    BY <1>4
  <2>2. j \in 1 .. Len(t) /\ t[j] = On /\ NoneBetween(t, j, i)
    BY <1>1, <1>3, <2>1
  <2>3. CoveredAt(t, is, i)
    BY <1>2, <2>1, <2>2 DEF CoveredAt
  <2> QED
    BY <2>3 DEF t
<1>5. CASE is /\ NoneBetween(s, 0, i)
  <2>1. CoveredAt(t, is, i)
    BY <1>1, <1>2, <1>3, <1>5 DEF CoveredAt
  <2> QED
    BY <2>1 DEF t
<1> QED
  BY <1>4, <1>5 DEF CoveredAt

\* A negotiation command is sent.
LEMMA CoveredAppend ==
    ASSUME NEW T, NEW s \in Seq(T), NEW m \in T, m.cmd # "SB", NEW is, Covered(s, is)
    PROVE  Covered(Append(s, m), is)
<1> DEFINE t == Append(s, m)
<1> SUFFICES ASSUME NEW i \in 1 .. Len(t), t[i].cmd = "SB"
             PROVE  CoveredAt(t, is, i)
  BY DEF Covered
<1>1. /\ Len(t) = Len(s) + 1 /\ Len(s) \in Nat
      /\ \A k \in 1 .. Len(s) : t[k] = s[k]
      /\ t[Len(s) + 1] = m
  OBVIOUS
<1>2. i \in 1 .. Len(s)
  <2> HIDE DEF t
  <2> QED
    BY <1>1
<1>3. CoveredAt(s, is, i)
  BY <1>1, <1>2 DEF Covered
<1> QED
  BY <1>2, <1>3, CoveredLater

\* A COM-PORT-OPTION command is sent while the word in flight leads to an
\* agreement.
LEMMA CoveredCommand ==
    ASSUME NEW T, NEW s \in Seq(T), NEW m \in T, m.opt = "COMPORT", NEW is \in BOOLEAN,
           Covered(s, is), NEW w \in {<<>>, <<"on">>}, Word(s, On, Off, w),
           w = <<>> => is
    PROVE  Covered(Append(s, m), is)
<1> DEFINE t == Append(s, m)
<1>1. /\ Len(t) = Len(s) + 1 /\ Len(s) \in Nat
      /\ \A k \in 1 .. Len(s) : t[k] = s[k]
      /\ t[Len(s) + 1] = m
  OBVIOUS
<1>2. PICK f \in [1 .. Len(w) -> 1 .. Len(s)] :
        /\ \A i \in 1 .. Len(w) : s[f[i]] = IF w[i] = "on" THEN On ELSE Off
        /\ \A k \in 1 .. Len(s) : s[k] \in {On, Off} =>
                \E i \in 1 .. Len(w) : f[i] = k
  BY DEF Word
<1> HIDE DEF t
<1>3. CoveredAt(t, is, Len(t))
  <2>1. t[Len(t)].opt = "COMPORT"
    BY <1>1
  <2>2. CASE w = <<>>
    <3>1. \A k \in 1 .. Len(s) : s[k] \notin {On, Off}
      BY <1>2, <2>2
    <3>2. NoneBetween(t, 0, Len(t))
      BY <1>1, <3>1 DEF NoneBetween
    <3> QED
      BY <2>1, <2>2, <3>2 DEF CoveredAt
  <2>3. CASE w = <<"on">>
    <3>1. Len(w) = 1 /\ w[1] = "on"
      BY <2>3
    <3>2. f[1] \in 1 .. Len(s) /\ s[f[1]] = On
      BY <1>2, <3>1
    <3>3. \A k \in 1 .. Len(s) : s[k] \in {On, Off} => k = f[1]
      BY <1>2, <3>1
    <3>4. NoneBetween(t, f[1], Len(t))
      BY <1>1, <3>2, <3>3 DEF NoneBetween
    <3>5. f[1] \in 1 .. Len(t) /\ f[1] < Len(t) /\ t[f[1]] = On
      BY <1>1, <3>2
    <3> QED
      BY <2>1, <3>4, <3>5 DEF CoveredAt
  <2> QED
    BY <2>2, <2>3
<1>4. ASSUME NEW i \in 1 .. Len(s), t[i].cmd = "SB"
      PROVE  CoveredAt(t, is, i)
  <2>1. CoveredAt(s, is, i)
    BY <1>1, <1>4 DEF Covered
  <2> QED
    BY <2>1, CoveredLater DEF t
<1>5. \A i \in 1 .. Len(t) : i = Len(t) \/ i \in 1 .. Len(s)
  BY <1>1
<1>6. Covered(t, is)
  BY <1>3, <1>4, <1>5 DEF Covered
<1> QED
  BY <1>6 DEF t

\* sercd takes a command: is becomes what the command says, if it is WILL or
\* WONT for the option.
LEMMA CoveredTail ==
    ASSUME NEW T, NEW s \in Seq(T), s # <<>>, NEW is \in BOOLEAN, NEW new \in BOOLEAN,
           Covered(s, is),
           Head(s) = On => new, Head(s) \notin {On, Off} => new = is
    PROVE  Covered(Tail(s), new)
<1> DEFINE t == Tail(s)
<1>1. /\ Len(s) = Len(t) + 1 /\ Len(t) \in Nat
      /\ \A k \in 1 .. Len(t) : t[k] = s[k + 1]
      /\ s[1] = Head(s)
  OBVIOUS
<1> HIDE DEF t
<1>2. ASSUME NEW i \in 1 .. Len(t), t[i].cmd = "SB"
      PROVE  CoveredAt(t, new, i)
  <2>1. i + 1 \in 1 .. Len(s) /\ t[i] = s[i + 1]
    BY <1>1
  <2>2. CoveredAt(s, is, i + 1)
    BY <1>2, <2>1 DEF Covered
  <2>3. t[i].opt = "COMPORT"
    BY <2>1, <2>2 DEF CoveredAt
  <2>4. ASSUME NEW j \in 0 .. Len(t), NoneBetween(s, j + 1, i + 1)
        PROVE  NoneBetween(t, j, i)
    <3> SUFFICES ASSUME NEW k \in 1 .. Len(t), j < k, k < i
                 PROVE  t[k] \notin {On, Off}
      BY DEF NoneBetween
    <3>1. k + 1 \in 1 .. Len(s) /\ j + 1 < k + 1 /\ k + 1 < i + 1
      BY <1>1
    <3>2. s[k + 1] \notin {On, Off}
      BY <2>4, <3>1 DEF NoneBetween
    <3> QED
      BY <1>1, <3>2
  <2>5. CASE \E j \in 1 .. Len(s) : j < i + 1 /\ s[j] = On /\ NoneBetween(s, j, i + 1)
    <3>1. PICK j \in 1 .. Len(s) : j < i + 1 /\ s[j] = On /\ NoneBetween(s, j, i + 1)
      BY <2>5
    <3>2. PICK h \in 0 .. Len(t) : j = h + 1
      BY <1>1
    <3>3. NoneBetween(t, h, i)
      BY <2>4, <3>1, <3>2
    <3>4. CASE h = 0
      <4>1. new
        BY <1>1, <3>1, <3>2, <3>4
      <4> QED
        BY <2>3, <3>3, <3>4, <4>1 DEF CoveredAt
    <3>5. CASE h > 0
      <4>1. h \in 1 .. Len(t) /\ h < i
        BY <1>1, <3>1, <3>2, <3>5
      <4>2. t[h] = On
        BY <1>1, <3>1, <3>2, <4>1
      <4> QED
        BY <2>3, <3>3, <4>1, <4>2 DEF CoveredAt
    <3> QED
      BY <3>4, <3>5
  <2>6. CASE is /\ NoneBetween(s, 0, i + 1)
    <3>1. 1 \in 1 .. Len(s) /\ 0 < 1 /\ 1 < i + 1
      BY <1>1
    <3>2. s[1] \notin {On, Off}
      BY <2>6, <3>1 DEF NoneBetween
    <3>3. new
      BY <1>1, <2>6, <3>2
    <3>4. NoneBetween(s, 0 + 1, i + 1)
      BY <2>6 DEF NoneBetween
    <3>5. NoneBetween(t, 0, i)
      BY <1>1, <2>4, <3>4
    <3> QED
      BY <2>3, <3>3, <3>5 DEF CoveredAt
  <2> QED
    BY <2>2, <2>5, <2>6 DEF CoveredAt
<1>3. Covered(t, new)
  BY <1>2 DEF Covered
<1> QED
  BY <1>3 DEF t

----------------------------------------------------------------------------
(* The inductive invariant.                                                *)

\* What the client does, and what sercd does.
UsInv(opt) ==
    Dir(opt \in Supported, us[opt], tnstate[opt].is_do, tnstate[opt].sent_do,
        toClient, toSercd,
        Msg("DO", opt), Msg("DONT", opt), Msg("WILL", opt), Msg("WONT", opt))

HimInv(opt) ==
    Dir(opt \in Supported, him[opt], tnstate[opt].is_will, tnstate[opt].sent_will,
        toClient, toSercd,
        Msg("WILL", opt), Msg("WONT", opt), Msg("DO", opt), Msg("DONT", opt))

IInv ==
    /\ TypeOK
    /\ \A opt \in Option : UsInv(opt) /\ HimInv(opt)
    /\ Covered(toSercd, tnstate["COMPORT"].is_do)

\* Messages are the same only if their command and option are.
LEMMA MsgEqual ==
    ASSUME NEW c, NEW o, NEW d, NEW p
    PROVE  (Msg(c, o) = Msg(d, p)) <=> (c = d /\ o = p)
<1>1. /\ Msg(c, o).cmd = c /\ Msg(c, o).opt = o
      /\ Msg(d, p).cmd = d /\ Msg(d, p).opt = p
  BY DEF Msg
<1> QED
  BY <1>1

\* The messages of each channel.
LEMMA MsgType ==
    ASSUME NEW o \in Option
    PROVE  /\ \A c \in {"WILL", "WONT", "DO", "DONT"} : Msg(c, o) \in ToClient /\ Msg(c, o) \in ToSercd
           /\ Msg("SB", o) \in ToSercd
BY DEF Msg, ToClient, ToSercd, Cmd

\* A message is made of its parts.
LEMMA MsgParts ==
    ASSUME NEW m \in ToSercd
    PROVE  m = Msg(m.cmd, m.opt) /\ m.cmd \in Cmd /\ m.opt \in Option
BY DEF ToSercd, Msg

\* The types that the lemmas on directions ask for.
LEMMA DirTypes ==
    ASSUME TypeOK, NEW opt \in Option
    PROVE  /\ toClient \in Seq(ToClient) /\ toSercd \in Seq(ToSercd)
           /\ us[opt] \in QState /\ him[opt] \in QState
           /\ tnstate[opt].is_do \in BOOLEAN /\ tnstate[opt].sent_do \in BOOLEAN
           /\ tnstate[opt].is_will \in BOOLEAN /\ tnstate[opt].sent_will \in BOOLEAN
           /\ (opt \in Supported) \in BOOLEAN
BY DEF TypeOK, ToClient, ToSercd

----------------------------------------------------------------------------
(* sercd's handlers.  For the option it is about, a handler makes the step *)
(* of the table in its own direction and leaves the other; for any other   *)
(* option it leaves both.                                                  *)

\* What a handler for opt does to the state and the channel to the client.
LEMMA WillEffect ==
    ASSUME TypeOK, NEW opt \in Option, Will(opt)
    PROVE  /\ toClient' = IF opt \notin Supported THEN Append(toClient, Msg("DONT", opt))
                          ELSE IF tnstate[opt].sent_do THEN toClient
                          ELSE Append(toClient, Msg("DO", opt))
           /\ tnstate'[opt].is_do = (opt \in Supported) /\ tnstate'[opt].sent_do = FALSE
           /\ tnstate'[opt].is_will = tnstate[opt].is_will
           /\ tnstate'[opt].sent_will = tnstate[opt].sent_will
           /\ \A o \in Option \ {opt} : tnstate'[o] = tnstate[o]
BY DEF TypeOK, Will, SendTelnetOption

\* What DO does.
LEMMA DoEffect ==
    ASSUME TypeOK, NEW opt \in Option, Do(opt)
    PROVE  /\ toClient' = IF opt \notin Supported THEN Append(toClient, Msg("WONT", opt))
                          ELSE IF tnstate[opt].sent_will THEN toClient
                          ELSE Append(toClient, Msg("WILL", opt))
           /\ tnstate'[opt].is_will = (opt \in Supported) /\ tnstate'[opt].sent_will = FALSE
           /\ tnstate'[opt].is_do = tnstate[opt].is_do
           /\ tnstate'[opt].sent_do = tnstate[opt].sent_do
           /\ \A o \in Option \ {opt} : tnstate'[o] = tnstate[o]
BY DEF TypeOK, Do, SendTelnetOption

\* What WONT does.
LEMMA WontEffect ==
    ASSUME TypeOK, NEW opt \in Option, Wont(opt)
    PROVE  /\ toClient' = IF tnstate[opt].is_do THEN Append(toClient, Msg("DONT", opt))
                          ELSE toClient
           /\ tnstate'[opt].is_do = FALSE /\ tnstate'[opt].sent_do = FALSE
           /\ tnstate'[opt].is_will = tnstate[opt].is_will
           /\ tnstate'[opt].sent_will = tnstate[opt].sent_will
           /\ \A o \in Option \ {opt} : tnstate'[o] = tnstate[o]
BY DEF TypeOK, Wont, SendTelnetOption

\* What DONT does.
LEMMA DontEffect ==
    ASSUME TypeOK, NEW opt \in Option, Dont(opt)
    PROVE  /\ toClient' = IF tnstate[opt].is_will THEN Append(toClient, Msg("WONT", opt))
                          ELSE toClient
           /\ tnstate'[opt].is_will = FALSE /\ tnstate'[opt].sent_will = FALSE
           /\ tnstate'[opt].is_do = tnstate[opt].is_do
           /\ tnstate'[opt].sent_do = tnstate[opt].sent_do
           /\ \A o \in Option \ {opt} : tnstate'[o] = tnstate[o]
BY DEF TypeOK, Dont, SendTelnetOption

\* A channel with nothing for a direction sent or received keeps its word.
LEMMA SameElse ==
    ASSUME NEW T, NEW s \in Seq(T), NEW t, NEW on, NEW off,
           \/ t = s
           \/ \E m \in T : m \notin {on, off} /\ t = Append(s, m)
           \/ s # <<>> /\ Head(s) \notin {on, off} /\ t = Tail(s)
    PROVE  Same(s, t, on, off)
<1>1. CASE t = s
  BY <1>1 DEF Same
<1>2. CASE \E m \in T : m \notin {on, off} /\ t = Append(s, m)
  BY <1>2, SameAppend
<1>3. CASE s # <<>> /\ Head(s) \notin {on, off} /\ t = Tail(s)
  BY <1>3, SameTail
<1> QED
  BY <1>1, <1>2, <1>3

\* WILL.
LEMMA WillStep ==
    ASSUME IInv, NEW o \in Option, Will(o), toSercd # <<>>, Head(toSercd) = Msg("WILL", o),
           toSercd' = Tail(toSercd), UNCHANGED <<us, him>>
    PROVE  \A opt \in Option : UsInv(opt)' /\ HimInv(opt)'
<1> TAKE opt \in Option
<1>1. TypeOK /\ UsInv(opt) /\ HimInv(opt)
  BY DEF IInv
<1>2. PICK c \in {"DO", "DONT"} :
        toClient' = toClient \/ toClient' = Append(toClient, Msg(c, o))
  BY <1>1, WillEffect
<1>3. Msg(c, o) \in ToClient
  BY MsgType
<1>4. HimInv(opt)'
  <2>1. Msg(c, o) \notin {Msg("WILL", opt), Msg("WONT", opt)}
    BY MsgEqual
  <2>2. Head(toSercd) \notin {Msg("DO", opt), Msg("DONT", opt)}
    BY MsgEqual
  <2>3. Same(toClient, toClient', Msg("WILL", opt), Msg("WONT", opt))
    BY <1>1, <1>2, <1>3, <2>1, SameElse, DirTypes
  <2>4. Same(toSercd, toSercd', Msg("DO", opt), Msg("DONT", opt))
    BY <1>1, <2>2, SameElse, DirTypes
  <2>5. him'[opt] = him[opt] /\ tnstate'[opt].is_will = tnstate[opt].is_will
        /\ tnstate'[opt].sent_will = tnstate[opt].sent_will
    BY <1>1, WillEffect
  <2> QED
    BY <1>1, <2>3, <2>4, <2>5, SameDir DEF HimInv
<1>5. CASE opt # o
  <2>1. Msg(c, o) \notin {Msg("DO", opt), Msg("DONT", opt)}
    BY <1>5, MsgEqual
  <2>2. Head(toSercd) \notin {Msg("WILL", opt), Msg("WONT", opt)}
    BY <1>5, MsgEqual
  <2>3. Same(toClient, toClient', Msg("DO", opt), Msg("DONT", opt))
    BY <1>1, <1>2, <1>3, <2>1, SameElse, DirTypes
  <2>4. Same(toSercd, toSercd', Msg("WILL", opt), Msg("WONT", opt))
    BY <1>1, <2>2, SameElse, DirTypes
  <2>5. us'[opt] = us[opt] /\ tnstate'[opt] = tnstate[opt]
    BY <1>1, <1>5, WillEffect
  <2>6. UsInv(opt)'
    BY <1>1, <2>3, <2>4, <2>5, SameDir DEF UsInv
  <2> QED
    BY <1>4, <2>6
<1>6. CASE opt = o
  <2>1. /\ Msg("DO", o) \in ToClient /\ Msg("DONT", o) \in ToClient
        /\ Msg("WILL", o) \in ToSercd /\ Msg("WONT", o) \in ToSercd
        /\ Msg("WILL", o) # Msg("WONT", o)
    BY MsgType, MsgEqual
  <2>2. /\ toClient \in Seq(ToClient) /\ toSercd \in Seq(ToSercd)
        /\ us[o] \in QState
        /\ tnstate[o].is_do \in BOOLEAN /\ tnstate[o].sent_do \in BOOLEAN
    BY <1>1, DirTypes
  <2> DEFINE sup == o \in Supported
  <2>3. sup \in BOOLEAN
    OBVIOUS
  <2>4. Dir(sup, us[o], tnstate[o].is_do, tnstate[o].sent_do, toClient, toSercd,
            Msg("DO", o), Msg("DONT", o), Msg("WILL", o), Msg("WONT", o))
    BY <1>1, <1>6 DEF UsInv
  <2>5. toClient' = IF ~sup THEN Append(toClient, Msg("DONT", o))
            ELSE IF tnstate[o].sent_do THEN toClient ELSE Append(toClient, Msg("DO", o))
    BY <1>1, WillEffect
  <2> HIDE DEF sup
  <2>6. Dir(sup, us[o], sup, FALSE, toClient', Tail(toSercd),
            Msg("DO", o), Msg("DONT", o), Msg("WILL", o), Msg("WONT", o))
    BY <2>1, <2>2, <2>3, <2>4, <2>5, DirOn, ZenonT(30)
  <2>7. UsInv(o)'
    BY <1>1, <2>6, WillEffect DEF UsInv, sup
  <2> QED
    BY <1>4, <1>6, <2>7
<1> QED
  BY <1>5, <1>6

\* WONT.
LEMMA WontStep ==
    ASSUME IInv, NEW o \in Option, Wont(o), toSercd # <<>>, Head(toSercd) = Msg("WONT", o),
           toSercd' = Tail(toSercd), UNCHANGED <<us, him>>
    PROVE  \A opt \in Option : UsInv(opt)' /\ HimInv(opt)'
<1> TAKE opt \in Option
<1>1. TypeOK /\ UsInv(opt) /\ HimInv(opt)
  BY DEF IInv
<1>2. PICK c \in {"DO", "DONT"} :
        toClient' = toClient \/ toClient' = Append(toClient, Msg(c, o))
  BY <1>1, WontEffect
<1>3. Msg(c, o) \in ToClient
  BY MsgType
<1>4. HimInv(opt)'
  <2>1. Msg(c, o) \notin {Msg("WILL", opt), Msg("WONT", opt)}
    BY MsgEqual
  <2>2. Head(toSercd) \notin {Msg("DO", opt), Msg("DONT", opt)}
    BY MsgEqual
  <2>3. Same(toClient, toClient', Msg("WILL", opt), Msg("WONT", opt))
    BY <1>1, <1>2, <1>3, <2>1, SameElse, DirTypes
  <2>4. Same(toSercd, toSercd', Msg("DO", opt), Msg("DONT", opt))
    BY <1>1, <2>2, SameElse, DirTypes
  <2>5. him'[opt] = him[opt] /\ tnstate'[opt].is_will = tnstate[opt].is_will
        /\ tnstate'[opt].sent_will = tnstate[opt].sent_will
    BY <1>1, WontEffect
  <2> QED
    BY <1>1, <2>3, <2>4, <2>5, SameDir DEF HimInv
<1>5. CASE opt # o
  <2>1. Msg(c, o) \notin {Msg("DO", opt), Msg("DONT", opt)}
    BY <1>5, MsgEqual
  <2>2. Head(toSercd) \notin {Msg("WILL", opt), Msg("WONT", opt)}
    BY <1>5, MsgEqual
  <2>3. Same(toClient, toClient', Msg("DO", opt), Msg("DONT", opt))
    BY <1>1, <1>2, <1>3, <2>1, SameElse, DirTypes
  <2>4. Same(toSercd, toSercd', Msg("WILL", opt), Msg("WONT", opt))
    BY <1>1, <2>2, SameElse, DirTypes
  <2>5. us'[opt] = us[opt] /\ tnstate'[opt] = tnstate[opt]
    BY <1>1, <1>5, WontEffect
  <2>6. UsInv(opt)'
    BY <1>1, <2>3, <2>4, <2>5, SameDir DEF UsInv
  <2> QED
    BY <1>4, <2>6
<1>6. CASE opt = o
  <2>1. /\ Msg("DO", o) \in ToClient /\ Msg("DONT", o) \in ToClient
        /\ Msg("WILL", o) \in ToSercd /\ Msg("WONT", o) \in ToSercd
        /\ Msg("WILL", o) # Msg("WONT", o)
    BY MsgType, MsgEqual
  <2>2. /\ toClient \in Seq(ToClient) /\ toSercd \in Seq(ToSercd)
        /\ us[o] \in QState
        /\ tnstate[o].is_do \in BOOLEAN /\ tnstate[o].sent_do \in BOOLEAN
    BY <1>1, DirTypes
  <2> DEFINE sup == o \in Supported
  <2>3. sup \in BOOLEAN
    OBVIOUS
  <2>4. Dir(sup, us[o], tnstate[o].is_do, tnstate[o].sent_do, toClient, toSercd,
            Msg("DO", o), Msg("DONT", o), Msg("WILL", o), Msg("WONT", o))
    BY <1>1, <1>6 DEF UsInv
  <2>5. toClient' = IF tnstate[o].is_do THEN Append(toClient, Msg("DONT", o)) ELSE toClient
    BY <1>1, WontEffect
  <2> HIDE DEF sup
  <2>6. Dir(sup, us[o], FALSE, FALSE, toClient', Tail(toSercd),
            Msg("DO", o), Msg("DONT", o), Msg("WILL", o), Msg("WONT", o))
    BY <2>1, <2>2, <2>3, <2>4, <2>5, DirOff, ZenonT(30)
  <2>7. UsInv(o)'
    BY <1>1, <2>6, WontEffect DEF UsInv, sup
  <2> QED
    BY <1>4, <1>6, <2>7
<1> QED
  BY <1>5, <1>6

\* DO.
LEMMA DoStep ==
    ASSUME IInv, NEW o \in Option, Do(o), toSercd # <<>>, Head(toSercd) = Msg("DO", o),
           toSercd' = Tail(toSercd), UNCHANGED <<us, him>>
    PROVE  \A opt \in Option : UsInv(opt)' /\ HimInv(opt)'
<1> TAKE opt \in Option
<1>1. TypeOK /\ UsInv(opt) /\ HimInv(opt)
  BY DEF IInv
<1>2. PICK c \in {"WILL", "WONT"} :
        toClient' = toClient \/ toClient' = Append(toClient, Msg(c, o))
  BY <1>1, DoEffect
<1>3. Msg(c, o) \in ToClient
  BY MsgType
<1>4. UsInv(opt)'
  <2>1. Msg(c, o) \notin {Msg("DO", opt), Msg("DONT", opt)}
    BY MsgEqual
  <2>2. Head(toSercd) \notin {Msg("WILL", opt), Msg("WONT", opt)}
    BY MsgEqual
  <2>3. Same(toClient, toClient', Msg("DO", opt), Msg("DONT", opt))
    BY <1>1, <1>2, <1>3, <2>1, SameElse, DirTypes
  <2>4. Same(toSercd, toSercd', Msg("WILL", opt), Msg("WONT", opt))
    BY <1>1, <2>2, SameElse, DirTypes
  <2>5. us'[opt] = us[opt] /\ tnstate'[opt].is_do = tnstate[opt].is_do
        /\ tnstate'[opt].sent_do = tnstate[opt].sent_do
    BY <1>1, DoEffect
  <2> QED
    BY <1>1, <2>3, <2>4, <2>5, SameDir DEF UsInv
<1>5. CASE opt # o
  <2>1. Msg(c, o) \notin {Msg("WILL", opt), Msg("WONT", opt)}
    BY <1>5, MsgEqual
  <2>2. Head(toSercd) \notin {Msg("DO", opt), Msg("DONT", opt)}
    BY <1>5, MsgEqual
  <2>3. Same(toClient, toClient', Msg("WILL", opt), Msg("WONT", opt))
    BY <1>1, <1>2, <1>3, <2>1, SameElse, DirTypes
  <2>4. Same(toSercd, toSercd', Msg("DO", opt), Msg("DONT", opt))
    BY <1>1, <2>2, SameElse, DirTypes
  <2>5. him'[opt] = him[opt] /\ tnstate'[opt] = tnstate[opt]
    BY <1>1, <1>5, DoEffect
  <2>6. HimInv(opt)'
    BY <1>1, <2>3, <2>4, <2>5, SameDir DEF HimInv
  <2> QED
    BY <1>4, <2>6
<1>6. CASE opt = o
  <2>1. /\ Msg("WILL", o) \in ToClient /\ Msg("WONT", o) \in ToClient
        /\ Msg("DO", o) \in ToSercd /\ Msg("DONT", o) \in ToSercd
        /\ Msg("DO", o) # Msg("DONT", o)
    BY MsgType, MsgEqual
  <2>2. /\ toClient \in Seq(ToClient) /\ toSercd \in Seq(ToSercd)
        /\ him[o] \in QState
        /\ tnstate[o].is_will \in BOOLEAN /\ tnstate[o].sent_will \in BOOLEAN
    BY <1>1, DirTypes
  <2> DEFINE sup == o \in Supported
  <2>3. sup \in BOOLEAN
    OBVIOUS
  <2>4. Dir(sup, him[o], tnstate[o].is_will, tnstate[o].sent_will, toClient, toSercd,
            Msg("WILL", o), Msg("WONT", o), Msg("DO", o), Msg("DONT", o))
    BY <1>1, <1>6 DEF HimInv
  <2>5. toClient' = IF ~sup THEN Append(toClient, Msg("WONT", o))
            ELSE IF tnstate[o].sent_will THEN toClient ELSE Append(toClient, Msg("WILL", o))
    BY <1>1, DoEffect
  <2> HIDE DEF sup
  <2>6. Dir(sup, him[o], sup, FALSE, toClient', Tail(toSercd),
            Msg("WILL", o), Msg("WONT", o), Msg("DO", o), Msg("DONT", o))
    BY <2>1, <2>2, <2>3, <2>4, <2>5, DirOn, ZenonT(30)
  <2>7. HimInv(o)'
    BY <1>1, <2>6, DoEffect DEF HimInv, sup
  <2> QED
    BY <1>4, <1>6, <2>7
<1> QED
  BY <1>5, <1>6

\* DONT.
LEMMA DontStep ==
    ASSUME IInv, NEW o \in Option, Dont(o), toSercd # <<>>, Head(toSercd) = Msg("DONT", o),
           toSercd' = Tail(toSercd), UNCHANGED <<us, him>>
    PROVE  \A opt \in Option : UsInv(opt)' /\ HimInv(opt)'
<1> TAKE opt \in Option
<1>1. TypeOK /\ UsInv(opt) /\ HimInv(opt)
  BY DEF IInv
<1>2. PICK c \in {"WILL", "WONT"} :
        toClient' = toClient \/ toClient' = Append(toClient, Msg(c, o))
  BY <1>1, DontEffect
<1>3. Msg(c, o) \in ToClient
  BY MsgType
<1>4. UsInv(opt)'
  <2>1. Msg(c, o) \notin {Msg("DO", opt), Msg("DONT", opt)}
    BY MsgEqual
  <2>2. Head(toSercd) \notin {Msg("WILL", opt), Msg("WONT", opt)}
    BY MsgEqual
  <2>3. Same(toClient, toClient', Msg("DO", opt), Msg("DONT", opt))
    BY <1>1, <1>2, <1>3, <2>1, SameElse, DirTypes
  <2>4. Same(toSercd, toSercd', Msg("WILL", opt), Msg("WONT", opt))
    BY <1>1, <2>2, SameElse, DirTypes
  <2>5. us'[opt] = us[opt] /\ tnstate'[opt].is_do = tnstate[opt].is_do
        /\ tnstate'[opt].sent_do = tnstate[opt].sent_do
    BY <1>1, DontEffect
  <2> QED
    BY <1>1, <2>3, <2>4, <2>5, SameDir DEF UsInv
<1>5. CASE opt # o
  <2>1. Msg(c, o) \notin {Msg("WILL", opt), Msg("WONT", opt)}
    BY <1>5, MsgEqual
  <2>2. Head(toSercd) \notin {Msg("DO", opt), Msg("DONT", opt)}
    BY <1>5, MsgEqual
  <2>3. Same(toClient, toClient', Msg("WILL", opt), Msg("WONT", opt))
    BY <1>1, <1>2, <1>3, <2>1, SameElse, DirTypes
  <2>4. Same(toSercd, toSercd', Msg("DO", opt), Msg("DONT", opt))
    BY <1>1, <2>2, SameElse, DirTypes
  <2>5. him'[opt] = him[opt] /\ tnstate'[opt] = tnstate[opt]
    BY <1>1, <1>5, DontEffect
  <2>6. HimInv(opt)'
    BY <1>1, <2>3, <2>4, <2>5, SameDir DEF HimInv
  <2> QED
    BY <1>4, <2>6
<1>6. CASE opt = o
  <2>1. /\ Msg("WILL", o) \in ToClient /\ Msg("WONT", o) \in ToClient
        /\ Msg("DO", o) \in ToSercd /\ Msg("DONT", o) \in ToSercd
        /\ Msg("DO", o) # Msg("DONT", o)
    BY MsgType, MsgEqual
  <2>2. /\ toClient \in Seq(ToClient) /\ toSercd \in Seq(ToSercd)
        /\ him[o] \in QState
        /\ tnstate[o].is_will \in BOOLEAN /\ tnstate[o].sent_will \in BOOLEAN
    BY <1>1, DirTypes
  <2> DEFINE sup == o \in Supported
  <2>3. sup \in BOOLEAN
    OBVIOUS
  <2>4. Dir(sup, him[o], tnstate[o].is_will, tnstate[o].sent_will, toClient, toSercd,
            Msg("WILL", o), Msg("WONT", o), Msg("DO", o), Msg("DONT", o))
    BY <1>1, <1>6 DEF HimInv
  <2>5. toClient' = IF tnstate[o].is_will THEN Append(toClient, Msg("WONT", o)) ELSE toClient
    BY <1>1, DontEffect
  <2> HIDE DEF sup
  <2>6. Dir(sup, him[o], FALSE, FALSE, toClient', Tail(toSercd),
            Msg("WILL", o), Msg("WONT", o), Msg("DO", o), Msg("DONT", o))
    BY <2>1, <2>2, <2>3, <2>4, <2>5, DirOff, ZenonT(30)
  <2>7. HimInv(o)'
    BY <1>1, <2>6, DontEffect DEF HimInv, sup
  <2> QED
    BY <1>4, <1>6, <2>7
<1> QED
  BY <1>5, <1>6

\* A suboption is not part of the negotiation.
LEMMA SbStep ==
    ASSUME IInv, NEW o \in Option, toSercd # <<>>, Head(toSercd) = Msg("SB", o),
           toSercd' = Tail(toSercd), UNCHANGED <<tnstate, toClient, us, him>>
    PROVE  \A opt \in Option : UsInv(opt)' /\ HimInv(opt)'
<1> TAKE opt \in Option
<1>1. TypeOK /\ UsInv(opt) /\ HimInv(opt)
  BY DEF IInv
<1>2. /\ Head(toSercd) \notin {Msg("WILL", opt), Msg("WONT", opt)}
      /\ Head(toSercd) \notin {Msg("DO", opt), Msg("DONT", opt)}
  BY MsgEqual
<1>3. /\ Same(toSercd, toSercd', Msg("WILL", opt), Msg("WONT", opt))
      /\ Same(toSercd, toSercd', Msg("DO", opt), Msg("DONT", opt))
  BY <1>1, <1>2, SameElse, DirTypes
<1>4. /\ Same(toClient, toClient', Msg("WILL", opt), Msg("WONT", opt))
      /\ Same(toClient, toClient', Msg("DO", opt), Msg("DONT", opt))
  BY DEF Same
<1>5. UsInv(opt)'
  BY <1>1, <1>3, <1>4, SameDir DEF UsInv
<1>6. HimInv(opt)'
  BY <1>1, <1>3, <1>4, SameDir DEF HimInv
<1> QED
  BY <1>5, <1>6

\* What HandleIACCommand does to the types.
LEMMA HandleType ==
    ASSUME TypeOK, HandleIACCommand
    PROVE  TypeOK'
<1> DEFINE m == Head(toSercd)
           States == [sent_will : BOOLEAN, sent_do : BOOLEAN, is_will : BOOLEAN, is_do : BOOLEAN]
<1>1. toSercd \in Seq(ToSercd) /\ toSercd # <<>> /\ m \in ToSercd /\ m.opt \in Option
  <2>1. toSercd \in Seq(ToSercd)
    BY DEF TypeOK, ToSercd
  <2>2. toSercd # <<>>
    BY DEF HandleIACCommand
  <2>3. m \in ToSercd
    BY <2>1, <2>2
  <2> QED
    BY <2>1, <2>2, <2>3, MsgParts
<1>2. toSercd' \in Seq(ToSercd)
  BY <1>1 DEF HandleIACCommand
<1>3. UNCHANGED <<us, him, asks, sessions>>
  BY DEF HandleIACCommand
<1>4. \/ Will(m.opt) \/ Wont(m.opt) \/ Do(m.opt) \/ Dont(m.opt)
      \/ UNCHANGED <<tnstate, toClient>>
  BY DEF HandleIACCommand
<1> HIDE DEF m
<1>5. tnstate' \in [Option -> States]
  <2>1. tnstate \in [Option -> States]
    BY DEF TypeOK
  <2> HIDE DEF States
  <2>2. ASSUME NEW st \in States, NEW a \in BOOLEAN, NEW b \in BOOLEAN
        PROVE  /\ [st EXCEPT !.is_do = a, !.sent_do = b] \in States
               /\ [st EXCEPT !.is_will = a, !.sent_will = b] \in States
    BY DEF States
  <2>3. tnstate[m.opt] \in States
    BY <1>1, <2>1
  <2>4. (m.opt \in Supported) \in BOOLEAN
    OBVIOUS
  <2>5. \/ \E a, b \in BOOLEAN :
            tnstate' = [tnstate EXCEPT ![m.opt] = [tnstate[m.opt] EXCEPT !.is_do = a, !.sent_do = b]]
        \/ \E a, b \in BOOLEAN :
            tnstate' = [tnstate EXCEPT ![m.opt] = [tnstate[m.opt] EXCEPT !.is_will = a, !.sent_will = b]]
        \/ tnstate' = tnstate
    BY <1>1, <1>4, <2>1, <2>4 DEF Will, Wont, Do, Dont
  <2>6. \A a, b \in BOOLEAN :
            /\ [tnstate[m.opt] EXCEPT !.is_do = a, !.sent_do = b] \in States
            /\ [tnstate[m.opt] EXCEPT !.is_will = a, !.sent_will = b] \in States
    BY <2>2, <2>3
  <2>7. \A st \in States : [tnstate EXCEPT ![m.opt] = st] \in [Option -> States]
    BY <2>1
  <2>8. CASE \E a, b \in BOOLEAN :
            tnstate' = [tnstate EXCEPT ![m.opt] = [tnstate[m.opt] EXCEPT !.is_do = a, !.sent_do = b]]
    <3>1. PICK a \in BOOLEAN, b \in BOOLEAN :
            tnstate' = [tnstate EXCEPT ![m.opt] = [tnstate[m.opt] EXCEPT !.is_do = a, !.sent_do = b]]
      BY <2>8
    <3>2. [tnstate[m.opt] EXCEPT !.is_do = a, !.sent_do = b] \in States
      BY <2>6
    <3> QED
      BY <2>7, <3>1, <3>2, Zenon
  <2>9. CASE \E a, b \in BOOLEAN :
            tnstate' = [tnstate EXCEPT ![m.opt] = [tnstate[m.opt] EXCEPT !.is_will = a, !.sent_will = b]]
    <3>1. PICK a \in BOOLEAN, b \in BOOLEAN :
            tnstate' = [tnstate EXCEPT ![m.opt] = [tnstate[m.opt] EXCEPT !.is_will = a, !.sent_will = b]]
      BY <2>9
    <3>2. [tnstate[m.opt] EXCEPT !.is_will = a, !.sent_will = b] \in States
      BY <2>6
    <3> QED
      BY <2>7, <3>1, <3>2, Zenon
  <2> QED
    BY <2>1, <2>5, <2>8, <2>9
<1>6. toClient' \in Seq(ToClient)
  <2>1. toClient \in Seq(ToClient)
    BY DEF TypeOK, ToClient
  <2>2. /\ Msg("WILL", m.opt) \in ToClient /\ Msg("WONT", m.opt) \in ToClient
        /\ Msg("DO", m.opt) \in ToClient /\ Msg("DONT", m.opt) \in ToClient
    BY <1>1, MsgType
  <2>3. toClient' = toClient \/ \E a \in ToClient : toClient' = Append(toClient, a)
    BY <1>4, <2>2 DEF Will, Wont, Do, Dont, SendTelnetOption
  <2> QED
    BY <2>1, <2>3
<1> QED
  BY <1>2, <1>3, <1>5, <1>6 DEF TypeOK, ToClient, ToSercd

\* HandleIACCommand keeps the invariant.
LEMMA HandleInv ==
    ASSUME IInv, HandleIACCommand
    PROVE  IInv'
<1>1. TypeOK' /\ TypeOK
  BY HandleType DEF IInv
<1>2. PICK o \in Option, c \in Cmd : Head(toSercd) = Msg(c, o)
  <2>1. toSercd \in Seq(ToSercd) /\ toSercd # <<>>
    BY <1>1 DEF TypeOK, ToSercd, HandleIACCommand
  <2>2. Head(toSercd) \in ToSercd
    BY <2>1
  <2> QED
    BY <2>2, MsgParts
<1>3. /\ toSercd # <<>> /\ toSercd' = Tail(toSercd) /\ UNCHANGED <<us, him>>
      /\ \/ c = "WILL" /\ Will(o)
         \/ c = "WONT" /\ Wont(o)
         \/ c = "DO"   /\ Do(o)
         \/ c = "DONT" /\ Dont(o)
         \/ c = "SB"   /\ UNCHANGED <<tnstate, toClient>>
  <2>1. Head(toSercd).cmd = c /\ Head(toSercd).opt = o
    BY <1>2 DEF Msg
  <2> QED
    BY <2>1 DEF HandleIACCommand
<1>4. \A opt \in Option : UsInv(opt)' /\ HimInv(opt)'
  BY <1>2, <1>3, WillStep, WontStep, DoStep, DontStep, SbStep
<1>5. Covered(toSercd', tnstate'["COMPORT"].is_do)
  <2> DEFINE is == tnstate["COMPORT"].is_do
             new == tnstate'["COMPORT"].is_do
  <2>1. is \in BOOLEAN /\ new \in BOOLEAN /\ "COMPORT" \in Option
    BY <1>1, TelnetAssumption DEF TypeOK
  <2>2. Covered(toSercd, is) /\ toSercd \in Seq(ToSercd)
    BY <1>1, DirTypes, TelnetAssumption DEF IInv
  <2>3. Head(toSercd) = On <=> (c = "WILL" /\ o = "COMPORT")
    BY <1>2, MsgEqual DEF On
  <2>4. Head(toSercd) = Off <=> (c = "WONT" /\ o = "COMPORT")
    BY <1>2, MsgEqual DEF Off
  <2>5. (c = "WILL" /\ o = "COMPORT") => new
    <3>1. "COMPORT" \in Supported
      BY DEF Supported
    <3> QED
      BY <1>1, <1>3, <2>1, <3>1, WillEffect
  <2>6. (o # "COMPORT" \/ c \notin {"WILL", "WONT"}) => new = is
    BY <1>1, <1>3, <2>1, WillEffect, WontEffect, DoEffect, DontEffect
  <2> HIDE DEF is, new
  <2>7. Covered(Tail(toSercd), new)
    BY <1>3, <2>1, <2>2, <2>3, <2>4, <2>5, <2>6, CoveredTail
  <2> QED
    BY <1>3, <2>7 DEF new
<1> QED
  BY <1>1, <1>4, <1>5 DEF IInv

----------------------------------------------------------------------------
(* The client.                                                             *)

\* ClientSends sends an answer or nothing.
LEMMA SendsAnswer ==
    ASSUME NEW a, NEW on, NEW off, NEW opt, ClientSends(a, on, off, opt)
    PROVE  toSercd' = Answer(toSercd, a, Msg(on, opt), Msg(off, opt))
BY DEF ClientSends, Answer

\* An answer about what the client does, and a new state for it: the other
\* direction and the other options are left as they are.
LEMMA UsElse ==
    ASSUME IInv, NEW o \in Option, NEW a, NEW new,
           \/ toClient' = toClient
           \/ /\ toClient # <<>> /\ toClient' = Tail(toClient)
              /\ Head(toClient) \in {Msg("DO", o), Msg("DONT", o)},
           toSercd' = Answer(toSercd, a, Msg("WILL", o), Msg("WONT", o)),
           us' = [us EXCEPT ![o] = new], UNCHANGED <<him, tnstate>>
    PROVE  \A opt \in Option : HimInv(opt)' /\ (opt # o => UsInv(opt)')
<1> TAKE opt \in Option
<1>1. TypeOK /\ UsInv(opt) /\ HimInv(opt)
  BY DEF IInv
<1>2. PICK d \in {"WILL", "WONT"} :
        toSercd' = toSercd \/ toSercd' = Append(toSercd, Msg(d, o))
  BY DEF Answer
<1>3. Msg(d, o) \in ToSercd
  BY MsgType
<1>4. /\ toClient \in Seq(ToClient) /\ toSercd \in Seq(ToSercd)
  BY <1>1, DirTypes
<1>5. HimInv(opt)'
  <2>1. Same(toSercd, toSercd', Msg("DO", opt), Msg("DONT", opt))
    <3>1. Msg(d, o) \notin {Msg("DO", opt), Msg("DONT", opt)}
      BY MsgEqual
    <3> QED
      BY <1>2, <1>3, <1>4, <3>1, SameElse
  <2>2. Same(toClient, toClient', Msg("WILL", opt), Msg("WONT", opt))
    <3>1. Head(toClient) \in {Msg("DO", o), Msg("DONT", o)} =>
            Head(toClient) \notin {Msg("WILL", opt), Msg("WONT", opt)}
      BY MsgEqual
    <3> QED
      BY <1>4, <3>1, SameElse
  <2> QED
    BY <1>1, <2>1, <2>2, SameDir DEF HimInv
<1>6. ASSUME opt # o
      PROVE  UsInv(opt)'
  <2>1. Same(toSercd, toSercd', Msg("WILL", opt), Msg("WONT", opt))
    <3>1. Msg(d, o) \notin {Msg("WILL", opt), Msg("WONT", opt)}
      BY <1>6, MsgEqual
    <3> QED
      BY <1>2, <1>3, <1>4, <3>1, SameElse
  <2>2. Same(toClient, toClient', Msg("DO", opt), Msg("DONT", opt))
    <3>1. Head(toClient) \in {Msg("DO", o), Msg("DONT", o)} =>
            Head(toClient) \notin {Msg("DO", opt), Msg("DONT", opt)}
      BY <1>6, MsgEqual
    <3> QED
      BY <1>4, <3>1, SameElse
  <2>3. us'[opt] = us[opt]
    BY <1>1, <1>6 DEF TypeOK
  <2> QED
    BY <1>1, <2>1, <2>2, <2>3, SameDir DEF UsInv
<1> QED
  BY <1>5, <1>6

\* The client hears of what the client does.
UsHeard(o, on, r) ==
    /\ on => Taken(toClient, Msg("DO", o), toClient')
    /\ ~on => Taken(toClient, Msg("DONT", o), toClient')
    /\ r \in ClientHears(us[o], on)
    /\ us' = [us EXCEPT ![o] = r[1]]
    /\ toSercd' = Answer(toSercd, r[2], Msg("WILL", o), Msg("WONT", o))
    /\ UNCHANGED <<him, tnstate>>

\* It makes its step of the table.
LEMMA UsHears ==
    ASSUME IInv, NEW o \in Option, NEW on \in BOOLEAN, NEW r, UsHeard(o, on, r)
    PROVE  \A opt \in Option : UsInv(opt)' /\ HimInv(opt)'
<1>1. TypeOK /\ UsInv(o)
  BY DEF IInv
<1>2. /\ Msg("DO", o) \in ToClient /\ Msg("DONT", o) \in ToClient
      /\ Msg("WILL", o) \in ToSercd /\ Msg("WONT", o) \in ToSercd
      /\ Msg("DO", o) # Msg("DONT", o)
  BY MsgType, MsgEqual
<1>3. /\ toClient \in Seq(ToClient) /\ toSercd \in Seq(ToSercd)
      /\ us[o] \in QState
      /\ tnstate[o].is_do \in BOOLEAN /\ tnstate[o].sent_do \in BOOLEAN
  BY <1>1, DirTypes
<1> DEFINE sup == o \in Supported
<1>4. sup \in BOOLEAN
  OBVIOUS
<1>5. Dir(sup, us[o], tnstate[o].is_do, tnstate[o].sent_do, toClient, toSercd,
          Msg("DO", o), Msg("DONT", o), Msg("WILL", o), Msg("WONT", o))
  BY <1>1 DEF UsInv
<1> HIDE DEF sup
<1>6. /\ us'[o] = r[1]
      /\ on => Taken(toClient, Msg("DO", o), toClient')
      /\ ~on => Taken(toClient, Msg("DONT", o), toClient')
      /\ r \in ClientHears(us[o], on)
      /\ toSercd' = Answer(toSercd, r[2], Msg("WILL", o), Msg("WONT", o))
  BY <1>1 DEF TypeOK, UsHeard
<1>7. Dir(sup, us'[o], tnstate[o].is_do, tnstate[o].sent_do, toClient', toSercd',
          Msg("DO", o), Msg("DONT", o), Msg("WILL", o), Msg("WONT", o))
  <2>1. Dir(sup, r[1], tnstate[o].is_do, tnstate[o].sent_do, toClient',
            Answer(toSercd, r[2], Msg("WILL", o), Msg("WONT", o)),
            Msg("DO", o), Msg("DONT", o), Msg("WILL", o), Msg("WONT", o))
    BY <1>2, <1>3, <1>4, <1>5, <1>6, DirHears, SMTT(60)
  <2> QED
    BY <1>6, <2>1
<1>8. UsInv(o)'
  BY <1>7 DEF UsInv, UsHeard, sup
<1>9. \A opt \in Option : HimInv(opt)' /\ (opt # o => UsInv(opt)')
  BY UsElse DEF UsHeard, Taken
<1> QED
  BY <1>8, <1>9

\* The client wants something else of what the client does.
UsWanted(o, on, r) ==
    /\ r = ClientWants(us[o], on) /\ r[1] # us[o]
    /\ us' = [us EXCEPT ![o] = r[1]]
    /\ toSercd' = Answer(toSercd, r[2], Msg("WILL", o), Msg("WONT", o))
    /\ UNCHANGED <<him, tnstate, toClient>>

\* It makes its step of the table.
LEMMA UsWants ==
    ASSUME IInv, NEW o \in Option, NEW on \in BOOLEAN, NEW r, UsWanted(o, on, r)
    PROVE  \A opt \in Option : UsInv(opt)' /\ HimInv(opt)'
<1>1. TypeOK /\ UsInv(o)
  BY DEF IInv
<1>2. /\ Msg("DO", o) \in ToClient /\ Msg("DONT", o) \in ToClient
      /\ Msg("WILL", o) \in ToSercd /\ Msg("WONT", o) \in ToSercd
  BY MsgType
<1>3. /\ toClient \in Seq(ToClient) /\ toSercd \in Seq(ToSercd)
      /\ us[o] \in QState
      /\ tnstate[o].is_do \in BOOLEAN /\ tnstate[o].sent_do \in BOOLEAN
  BY <1>1, DirTypes
<1> DEFINE sup == o \in Supported
<1>4. sup \in BOOLEAN
  OBVIOUS
<1>5. Dir(sup, us[o], tnstate[o].is_do, tnstate[o].sent_do, toClient, toSercd,
          Msg("DO", o), Msg("DONT", o), Msg("WILL", o), Msg("WONT", o))
  BY <1>1 DEF UsInv
<1> HIDE DEF sup
<1>6. /\ us'[o] = r[1] /\ r = ClientWants(us[o], on) /\ r[1] # us[o]
      /\ toSercd' = Answer(toSercd, r[2], Msg("WILL", o), Msg("WONT", o))
  BY <1>1 DEF TypeOK, UsWanted
<1>7. Dir(sup, us'[o], tnstate[o].is_do, tnstate[o].sent_do, toClient, toSercd',
          Msg("DO", o), Msg("DONT", o), Msg("WILL", o), Msg("WONT", o))
  BY <1>2, <1>3, <1>4, <1>5, <1>6, DirWants, SMTT(30)
<1>8. UsInv(o)'
  BY <1>7 DEF UsInv, UsWanted, sup
<1>9. \A opt \in Option : HimInv(opt)' /\ (opt # o => UsInv(opt)')
  BY UsElse DEF UsWanted
<1> QED
  BY <1>8, <1>9

\* An answer about what the sercd does, and a new state for it: the other
\* direction and the other options are left as they are.
LEMMA HimElse ==
    ASSUME IInv, NEW o \in Option, NEW a, NEW new,
           \/ toClient' = toClient
           \/ /\ toClient # <<>> /\ toClient' = Tail(toClient)
              /\ Head(toClient) \in {Msg("WILL", o), Msg("WONT", o)},
           toSercd' = Answer(toSercd, a, Msg("DO", o), Msg("DONT", o)),
           him' = [him EXCEPT ![o] = new], UNCHANGED <<us, tnstate>>
    PROVE  \A opt \in Option : UsInv(opt)' /\ (opt # o => HimInv(opt)')
<1> TAKE opt \in Option
<1>1. TypeOK /\ UsInv(opt) /\ HimInv(opt)
  BY DEF IInv
<1>2. PICK d \in {"DO", "DONT"} :
        toSercd' = toSercd \/ toSercd' = Append(toSercd, Msg(d, o))
  BY DEF Answer
<1>3. Msg(d, o) \in ToSercd
  BY MsgType
<1>4. /\ toClient \in Seq(ToClient) /\ toSercd \in Seq(ToSercd)
  BY <1>1, DirTypes
<1>5. UsInv(opt)'
  <2>1. Same(toSercd, toSercd', Msg("WILL", opt), Msg("WONT", opt))
    <3>1. Msg(d, o) \notin {Msg("WILL", opt), Msg("WONT", opt)}
      BY MsgEqual
    <3> QED
      BY <1>2, <1>3, <1>4, <3>1, SameElse
  <2>2. Same(toClient, toClient', Msg("DO", opt), Msg("DONT", opt))
    <3>1. Head(toClient) \in {Msg("WILL", o), Msg("WONT", o)} =>
            Head(toClient) \notin {Msg("DO", opt), Msg("DONT", opt)}
      BY MsgEqual
    <3> QED
      BY <1>4, <3>1, SameElse
  <2> QED
    BY <1>1, <2>1, <2>2, SameDir DEF UsInv
<1>6. ASSUME opt # o
      PROVE  HimInv(opt)'
  <2>1. Same(toSercd, toSercd', Msg("DO", opt), Msg("DONT", opt))
    <3>1. Msg(d, o) \notin {Msg("DO", opt), Msg("DONT", opt)}
      BY <1>6, MsgEqual
    <3> QED
      BY <1>2, <1>3, <1>4, <3>1, SameElse
  <2>2. Same(toClient, toClient', Msg("WILL", opt), Msg("WONT", opt))
    <3>1. Head(toClient) \in {Msg("WILL", o), Msg("WONT", o)} =>
            Head(toClient) \notin {Msg("WILL", opt), Msg("WONT", opt)}
      BY <1>6, MsgEqual
    <3> QED
      BY <1>4, <3>1, SameElse
  <2>3. him'[opt] = him[opt]
    BY <1>1, <1>6 DEF TypeOK
  <2> QED
    BY <1>1, <2>1, <2>2, <2>3, SameDir DEF HimInv
<1> QED
  BY <1>5, <1>6

\* The client hears of what the sercd does.
HimHeard(o, on, r) ==
    /\ on => Taken(toClient, Msg("WILL", o), toClient')
    /\ ~on => Taken(toClient, Msg("WONT", o), toClient')
    /\ r \in ClientHears(him[o], on)
    /\ him' = [him EXCEPT ![o] = r[1]]
    /\ toSercd' = Answer(toSercd, r[2], Msg("DO", o), Msg("DONT", o))
    /\ UNCHANGED <<us, tnstate>>

\* It makes its step of the table.
LEMMA HimHears ==
    ASSUME IInv, NEW o \in Option, NEW on \in BOOLEAN, NEW r, HimHeard(o, on, r)
    PROVE  \A opt \in Option : UsInv(opt)' /\ HimInv(opt)'
<1>1. TypeOK /\ HimInv(o)
  BY DEF IInv
<1>2. /\ Msg("WILL", o) \in ToClient /\ Msg("WONT", o) \in ToClient
      /\ Msg("DO", o) \in ToSercd /\ Msg("DONT", o) \in ToSercd
      /\ Msg("WILL", o) # Msg("WONT", o)
  BY MsgType, MsgEqual
<1>3. /\ toClient \in Seq(ToClient) /\ toSercd \in Seq(ToSercd)
      /\ him[o] \in QState
      /\ tnstate[o].is_will \in BOOLEAN /\ tnstate[o].sent_will \in BOOLEAN
  BY <1>1, DirTypes
<1> DEFINE sup == o \in Supported
<1>4. sup \in BOOLEAN
  OBVIOUS
<1>5. Dir(sup, him[o], tnstate[o].is_will, tnstate[o].sent_will, toClient, toSercd,
          Msg("WILL", o), Msg("WONT", o), Msg("DO", o), Msg("DONT", o))
  BY <1>1 DEF HimInv
<1> HIDE DEF sup
<1>6. /\ him'[o] = r[1]
      /\ on => Taken(toClient, Msg("WILL", o), toClient')
      /\ ~on => Taken(toClient, Msg("WONT", o), toClient')
      /\ r \in ClientHears(him[o], on)
      /\ toSercd' = Answer(toSercd, r[2], Msg("DO", o), Msg("DONT", o))
  BY <1>1 DEF TypeOK, HimHeard
<1>7. Dir(sup, him'[o], tnstate[o].is_will, tnstate[o].sent_will, toClient', toSercd',
          Msg("WILL", o), Msg("WONT", o), Msg("DO", o), Msg("DONT", o))
  <2>1. Dir(sup, r[1], tnstate[o].is_will, tnstate[o].sent_will, toClient',
            Answer(toSercd, r[2], Msg("DO", o), Msg("DONT", o)),
            Msg("WILL", o), Msg("WONT", o), Msg("DO", o), Msg("DONT", o))
    BY <1>2, <1>3, <1>4, <1>5, <1>6, DirHears, SMTT(60)
  <2> QED
    BY <1>6, <2>1
<1>8. HimInv(o)'
  BY <1>7 DEF HimInv, HimHeard, sup
<1>9. \A opt \in Option : UsInv(opt)' /\ (opt # o => HimInv(opt)')
  BY HimElse DEF HimHeard, Taken
<1> QED
  BY <1>8, <1>9

\* The client wants something else of what the sercd does.
HimWanted(o, on, r) ==
    /\ r = ClientWants(him[o], on) /\ r[1] # him[o]
    /\ him' = [him EXCEPT ![o] = r[1]]
    /\ toSercd' = Answer(toSercd, r[2], Msg("DO", o), Msg("DONT", o))
    /\ UNCHANGED <<us, tnstate, toClient>>

\* It makes its step of the table.
LEMMA HimWants ==
    ASSUME IInv, NEW o \in Option, NEW on \in BOOLEAN, NEW r, HimWanted(o, on, r)
    PROVE  \A opt \in Option : UsInv(opt)' /\ HimInv(opt)'
<1>1. TypeOK /\ HimInv(o)
  BY DEF IInv
<1>2. /\ Msg("WILL", o) \in ToClient /\ Msg("WONT", o) \in ToClient
      /\ Msg("DO", o) \in ToSercd /\ Msg("DONT", o) \in ToSercd
  BY MsgType
<1>3. /\ toClient \in Seq(ToClient) /\ toSercd \in Seq(ToSercd)
      /\ him[o] \in QState
      /\ tnstate[o].is_will \in BOOLEAN /\ tnstate[o].sent_will \in BOOLEAN
  BY <1>1, DirTypes
<1> DEFINE sup == o \in Supported
<1>4. sup \in BOOLEAN
  OBVIOUS
<1>5. Dir(sup, him[o], tnstate[o].is_will, tnstate[o].sent_will, toClient, toSercd,
          Msg("WILL", o), Msg("WONT", o), Msg("DO", o), Msg("DONT", o))
  BY <1>1 DEF HimInv
<1> HIDE DEF sup
<1>6. /\ him'[o] = r[1] /\ r = ClientWants(him[o], on) /\ r[1] # him[o]
      /\ toSercd' = Answer(toSercd, r[2], Msg("DO", o), Msg("DONT", o))
  BY <1>1 DEF TypeOK, HimWanted
<1>7. Dir(sup, him'[o], tnstate[o].is_will, tnstate[o].sent_will, toClient, toSercd',
          Msg("WILL", o), Msg("WONT", o), Msg("DO", o), Msg("DONT", o))
  BY <1>2, <1>3, <1>4, <1>5, <1>6, DirWants, SMTT(30)
<1>8. HimInv(o)'
  BY <1>7 DEF HimInv, HimWanted, sup
<1>9. \A opt \in Option : UsInv(opt)' /\ (opt # o => HimInv(opt)')
  BY HimElse DEF HimWanted
<1> QED
  BY <1>8, <1>9

\* What the client sends about an option leaves commands covered.
LEMMA AnswerCovered ==
    ASSUME IInv, NEW o \in Option, NEW a \in {"on", "off", "nothing"},
           NEW d \in {"WILL", "WONT", "DO", "DONT"}, NEW e \in {"WILL", "WONT", "DO", "DONT"},
           toSercd' = Answer(toSercd, a, Msg(d, o), Msg(e, o)), tnstate' = tnstate
    PROVE  /\ toSercd' \in Seq(ToSercd)
           /\ Covered(toSercd', tnstate'["COMPORT"].is_do)
<1>1. toSercd \in Seq(ToSercd) /\ Covered(toSercd, tnstate["COMPORT"].is_do)
  BY DEF IInv, TypeOK, ToSercd
<1>2. \/ toSercd' = toSercd
      \/ \E c \in {"WILL", "WONT", "DO", "DONT"} : toSercd' = Append(toSercd, Msg(c, o))
  BY DEF Answer
<1>3. ASSUME NEW c \in {"WILL", "WONT", "DO", "DONT"}, toSercd' = Append(toSercd, Msg(c, o))
      PROVE  /\ toSercd' \in Seq(ToSercd)
             /\ Covered(toSercd', tnstate'["COMPORT"].is_do)
  <2>1. Msg(c, o) \in ToSercd /\ Msg(c, o).cmd # "SB"
    BY MsgType DEF Msg
  <2> QED
    BY <1>1, <1>3, <2>1, CoveredAppend
<1> QED
  BY <1>1, <1>2, <1>3

\* The client receives a command.
LEMMA ReceivesInv ==
    ASSUME IInv, ClientReceives
    PROVE  IInv'
<1>1. /\ TypeOK /\ toClient \in Seq(ToClient) /\ toClient # <<>>
      /\ toClient' = Tail(toClient) /\ UNCHANGED <<tnstate, asks, sessions>>
  BY DEF IInv, TypeOK, ToClient, ClientReceives
<1>2. toClient' \in Seq(ToClient)
  BY <1>1
<1>3. PICK o \in Option, c \in {"WILL", "WONT", "DO", "DONT"} : Head(toClient) = Msg(c, o)
  <2>1. Head(toClient) \in ToClient
    BY <1>1
  <2> QED
    BY <2>1 DEF ToClient, Cmd, Msg
<1>4. Head(toClient).cmd = c /\ Head(toClient).opt = o
  BY <1>3 DEF Msg
<1>5. CASE c \in {"DO", "DONT"}
  <2>1. /\ us[o] \in QState
        /\ \E r \in ClientHears(us[o], c = "DO") :
              us' = [us EXCEPT ![o] = r[1]] /\ ClientSends(r[2], "WILL", "WONT", o)
        /\ UNCHANGED him
    BY <1>1, <1>4, <1>5 DEF ClientReceives, TypeOK
  <2>2. PICK on \in BOOLEAN : c = IF on THEN "DO" ELSE "DONT"
    BY <1>5
  <2>3. PICK r \in ClientHears(us[o], on) :
            us' = [us EXCEPT ![o] = r[1]] /\ ClientSends(r[2], "WILL", "WONT", o)
    <3>1. CASE on
      BY <2>1, <2>2, <3>1
    <3>2. CASE ~on
      BY <2>1, <2>2, <3>2
    <3> QED
      BY <3>1, <3>2
  <2>4. r[1] \in QState /\ r[2] \in {"on", "off", "nothing"}
    BY <2>1, ClientTypes
  <2>5. toSercd' = Answer(toSercd, r[2], Msg("WILL", o), Msg("WONT", o))
    BY <2>3, SendsAnswer
  <2>6. UsHeard(o, on, r)
    BY <1>1, <1>3, <2>1, <2>2, <2>3, <2>5 DEF UsHeard, Taken
  <2>7. \A opt \in Option : UsInv(opt)' /\ HimInv(opt)'
    BY <2>6, UsHears
  <2>8. toSercd' \in Seq(ToSercd) /\ Covered(toSercd', tnstate'["COMPORT"].is_do)
    BY <1>1, <2>4, <2>5, AnswerCovered
  <2>9. us' \in [Option -> QState]
    BY <1>1, <2>3, <2>4 DEF TypeOK
  <2>10. TypeOK'
    BY <1>1, <1>2, <2>1, <2>8, <2>9 DEF TypeOK, ToClient, ToSercd
  <2> QED
    BY <2>7, <2>8, <2>10 DEF IInv
<1>6. CASE c \in {"WILL", "WONT"}
  <2>1. /\ him[o] \in QState
        /\ \E r \in ClientHears(him[o], c = "WILL") :
              him' = [him EXCEPT ![o] = r[1]] /\ ClientSends(r[2], "DO", "DONT", o)
        /\ UNCHANGED us
    BY <1>1, <1>4, <1>6 DEF ClientReceives, TypeOK
  <2>2. PICK on \in BOOLEAN : c = IF on THEN "WILL" ELSE "WONT"
    BY <1>6
  <2>3. PICK r \in ClientHears(him[o], on) :
            him' = [him EXCEPT ![o] = r[1]] /\ ClientSends(r[2], "DO", "DONT", o)
    <3>1. CASE on
      BY <2>1, <2>2, <3>1
    <3>2. CASE ~on
      BY <2>1, <2>2, <3>2
    <3> QED
      BY <3>1, <3>2
  <2>4. r[1] \in QState /\ r[2] \in {"on", "off", "nothing"}
    BY <2>1, ClientTypes
  <2>5. toSercd' = Answer(toSercd, r[2], Msg("DO", o), Msg("DONT", o))
    BY <2>3, SendsAnswer
  <2>6. HimHeard(o, on, r)
    BY <1>1, <1>3, <2>1, <2>2, <2>3, <2>5 DEF HimHeard, Taken
  <2>7. \A opt \in Option : UsInv(opt)' /\ HimInv(opt)'
    BY <2>6, HimHears
  <2>8. toSercd' \in Seq(ToSercd) /\ Covered(toSercd', tnstate'["COMPORT"].is_do)
    BY <1>1, <2>4, <2>5, AnswerCovered
  <2>9. him' \in [Option -> QState]
    BY <1>1, <2>3, <2>4 DEF TypeOK
  <2>10. TypeOK'
    BY <1>1, <1>2, <2>1, <2>8, <2>9 DEF TypeOK, ToClient, ToSercd
  <2> QED
    BY <2>7, <2>8, <2>10 DEF IInv
<1> QED
  BY <1>5, <1>6

\* The client asks to do something itself, or to stop it.
LEMMA AsksUsInv ==
    ASSUME IInv, NEW o \in Option, NEW on \in BOOLEAN, ClientAsksUs(o, on)
    PROVE  IInv'
<1>1. PICK r : /\ r = ClientWants(us[o], on) /\ r[1] # us[o]
               /\ us' = [us EXCEPT ![o] = r[1]]
               /\ ClientSends(r[2], "WILL", "WONT", o)
  BY DEF ClientAsksUs
<1>2. /\ TypeOK /\ us[o] \in QState
      /\ UNCHANGED <<tnstate, toClient, him, sessions>>
      /\ asks < MaxAsks /\ asks' = asks + 1
  BY DEF IInv, TypeOK, ClientAsksUs
<1>3. r[1] \in QState /\ r[2] \in {"on", "off", "nothing"}
  BY <1>1, <1>2, ClientTypes
<1>4. toSercd' = Answer(toSercd, r[2], Msg("WILL", o), Msg("WONT", o))
  BY <1>1, SendsAnswer
<1>5. \A opt \in Option : UsInv(opt)' /\ HimInv(opt)'
  BY <1>1, <1>2, <1>4, UsWants DEF UsWanted
<1>6. toSercd' \in Seq(ToSercd) /\ Covered(toSercd', tnstate'["COMPORT"].is_do)
  BY <1>2, <1>3, <1>4, AnswerCovered
<1>7. us' \in [Option -> QState]
  BY <1>1, <1>2, <1>3 DEF TypeOK
<1>8. asks' \in 0 .. MaxAsks
  BY <1>2, TelnetAssumption DEF TypeOK
<1>9. TypeOK'
  BY <1>2, <1>6, <1>7, <1>8 DEF TypeOK, ToSercd
<1> QED
  BY <1>5, <1>6, <1>9 DEF IInv

\* The client asks sercd to do something, or to stop it.
LEMMA AsksHimInv ==
    ASSUME IInv, NEW o \in Option, NEW on \in BOOLEAN, ClientAsksHim(o, on)
    PROVE  IInv'
<1>1. PICK r : /\ r = ClientWants(him[o], on) /\ r[1] # him[o]
               /\ him' = [him EXCEPT ![o] = r[1]]
               /\ ClientSends(r[2], "DO", "DONT", o)
  BY DEF ClientAsksHim
<1>2. /\ TypeOK /\ him[o] \in QState
      /\ UNCHANGED <<tnstate, toClient, us, sessions>>
      /\ asks < MaxAsks /\ asks' = asks + 1
  BY DEF IInv, TypeOK, ClientAsksHim
<1>3. r[1] \in QState /\ r[2] \in {"on", "off", "nothing"}
  BY <1>1, <1>2, ClientTypes
<1>4. toSercd' = Answer(toSercd, r[2], Msg("DO", o), Msg("DONT", o))
  BY <1>1, SendsAnswer
<1>5. \A opt \in Option : UsInv(opt)' /\ HimInv(opt)'
  BY <1>1, <1>2, <1>4, HimWants DEF HimWanted
<1>6. toSercd' \in Seq(ToSercd) /\ Covered(toSercd', tnstate'["COMPORT"].is_do)
  BY <1>2, <1>3, <1>4, AnswerCovered
<1>7. him' \in [Option -> QState]
  BY <1>1, <1>2, <1>3 DEF TypeOK
<1>8. asks' \in 0 .. MaxAsks
  BY <1>2, TelnetAssumption DEF TypeOK
<1>9. TypeOK'
  BY <1>2, <1>6, <1>7, <1>8 DEF TypeOK, ToSercd
<1> QED
  BY <1>5, <1>6, <1>9 DEF IInv

\* The client sends a COM-PORT-OPTION command: it has agreed to the option,
\* and what is still in flight about it leads sercd to agree as well.
LEMMA CommandsInv ==
    ASSUME IInv, ClientCommands
    PROVE  IInv'
<1> DEFINE m == Msg("SB", "COMPORT")
           is == tnstate["COMPORT"].is_do
           sent == tnstate["COMPORT"].sent_do
<1>1. /\ TypeOK /\ "COMPORT" \in Option /\ us["COMPORT"] = "yes"
      /\ toSercd' = Append(toSercd, m)
      /\ UNCHANGED <<tnstate, toClient, us, him, sessions>>
      /\ asks < MaxAsks /\ asks' = asks + 1
  BY TelnetAssumption DEF IInv, ClientCommands
<1>2. m \in ToSercd /\ toSercd \in Seq(ToSercd)
  BY <1>1, MsgType, DirTypes
<1>3. TypeOK'
  <2>1. asks' \in 0 .. MaxAsks
    BY <1>1, TelnetAssumption DEF TypeOK
  <2>2. toSercd' \in Seq(ToSercd)
    BY <1>1, <1>2
  <2> QED
    BY <1>1, <2>1, <2>2 DEF TypeOK, ToSercd
<1>4. ASSUME NEW opt \in Option
      PROVE  UsInv(opt)' /\ HimInv(opt)'
  <2>1. UsInv(opt) /\ HimInv(opt)
    BY DEF IInv
  <2>2. m \notin {Msg("WILL", opt), Msg("WONT", opt)} /\ m \notin {Msg("DO", opt), Msg("DONT", opt)}
    BY MsgEqual
  <2> HIDE DEF m
  <2>3. /\ Same(toSercd, toSercd', Msg("WILL", opt), Msg("WONT", opt))
        /\ Same(toSercd, toSercd', Msg("DO", opt), Msg("DONT", opt))
    BY <1>1, <1>2, <2>2, SameElse
  <2>4. /\ Same(toClient, toClient', Msg("WILL", opt), Msg("WONT", opt))
        /\ Same(toClient, toClient', Msg("DO", opt), Msg("DONT", opt))
    BY <1>1 DEF Same
  <2>5. UsInv(opt)'
    BY <1>1, <2>1, <2>3, <2>4, SameDir DEF UsInv
  <2>6. HimInv(opt)'
    BY <1>1, <2>1, <2>3, <2>4, SameDir DEF HimInv
  <2> QED
    BY <2>5, <2>6
<1>5. Covered(toSercd', tnstate'["COMPORT"].is_do)
  <2>1. PICK C \in Letters, S \in Letters :
            /\ Word(toSercd, On, Off, S)
            /\ Phase("COMPORT" \in Supported, "yes", is, sent, C, S)
    BY <1>1 DEF IInv, UsInv, Dir, On, Off
  <2>2. S \in {<<>>, <<"on">>} /\ (S = <<>> => is)
    BY <2>1, ShortWords DEF Phase, Quiet, Asked, Answered, Requested, WantYes, WantNo
  <2>3. Covered(toSercd, is) /\ is \in BOOLEAN /\ m.opt = "COMPORT"
    BY <1>1, DirTypes DEF IInv, Msg
  <2> HIDE DEF m, is
  <2>4. Covered(Append(toSercd, m), is)
    BY <1>2, <2>1, <2>2, <2>3, CoveredCommand
  <2> QED
    BY <1>1, <2>4 DEF is
<1> QED
  BY <1>3, <1>4, <1>5 DEF IInv

----------------------------------------------------------------------------
(* A fresh connection: the initial options are in flight, one request for  *)
(* each option that sercd asks for and none for any other.                 *)

\* The word of each option is a single "on" if it is in X, else empty.
Requests(s, d, e, X) ==
    /\ s \in Seq(ToClient)
    /\ \A opt \in Option :
          Word(s, Msg(d, opt), Msg(e, opt), IF opt \in X THEN <<"on">> ELSE <<>>)

\* Nothing has been requested on an empty channel.
LEMMA RequestsNone ==
    ASSUME NEW on, NEW off
    PROVE  Word(<<>>, on, off, <<>>)
<1> DEFINE f == [i \in {} |-> 0]
<1>1. Len(<<>>) = 0 /\ 1 .. 0 = {}
  OBVIOUS
<1>2. f \in [1 .. Len(<<>>) -> 1 .. Len(<<>>)]
  BY <1>1
<1> HIDE DEF f
<1> QED
  BY <1>1, <1>2 DEF Word

\* A command of the other direction adds nothing,
LEMMA InitialOther ==
    ASSUME NEW s, NEW d, NEW e, NEW X, Requests(s, d, e, X), NEW o,
           NEW cmd \in {"WILL", "WONT", "DO", "DONT"}, cmd # d, cmd # e
    PROVE  Requests(s \o InitialOption(cmd, o), d, e, X)
<1>1. s \in Seq(ToClient)
  BY DEF Requests
<1>2. CASE o \notin Option
  <2>1. s \o InitialOption(cmd, o) = s
    BY <1>1, <1>2 DEF InitialOption
  <2> QED
    BY <2>1
<1>3. CASE o \in Option
  <2> DEFINE m == Msg(cmd, o)
  <2>1. m \in ToClient
    BY <1>3, MsgType
  <2>2. InitialOption(cmd, o) = <<m>>
    BY <1>3 DEF InitialOption
  <2>3. \A opt : m \notin {Msg(d, opt), Msg(e, opt)}
    BY MsgEqual
  <2> HIDE DEF m
  <2>4. s \o InitialOption(cmd, o) = Append(s, m)
    BY <1>1, <2>1, <2>2, AppendIsConcat
  <2>5. Append(s, m) \in Seq(ToClient)
    BY <1>1, <2>1
  <2>6. ASSUME NEW opt \in Option
        PROVE  Word(Append(s, m), Msg(d, opt), Msg(e, opt),
                    IF opt \in X THEN <<"on">> ELSE <<>>)
    <3> DEFINE w == IF opt \in X THEN <<"on">> ELSE <<>>
    <3>1. w \in Letters
      BY ShortWords
    <3>2. Word(s, Msg(d, opt), Msg(e, opt), w)
      BY DEF Requests
    <3> HIDE DEF w
    <3>3. Word(Append(s, m), Msg(d, opt), Msg(e, opt), w)
      BY <1>1, <2>1, <2>3, <3>1, <3>2, WordSkip
    <3> QED
      BY <3>3 DEF w
  <2> QED
    BY <2>4, <2>5, <2>6 DEF Requests
<1> QED
  BY <1>2, <1>3

\* and one of this direction requests its option.
LEMMA InitialOwn ==
    ASSUME NEW s, NEW d \in {"WILL", "DO"}, NEW e \in {"WONT", "DONT"},
           NEW X, Requests(s, d, e, X), NEW o, o \notin X
    PROVE  Requests(s \o InitialOption(d, o), d, e, X \cup {o})
<1>1. s \in Seq(ToClient)
  BY DEF Requests
<1>2. CASE o \notin Option
  <2>1. s \o InitialOption(d, o) = s
    BY <1>1, <1>2 DEF InitialOption
  <2>2. \A opt \in Option : opt \in X <=> opt \in X \cup {o}
    BY <1>2
  <2> QED
    BY <2>1, <2>2 DEF Requests
<1>3. CASE o \in Option
  <2> DEFINE m == Msg(d, o)
  <2>1. m \in ToClient /\ Msg(e, o) \in ToClient
    BY <1>3, MsgType
  <2>2. InitialOption(d, o) = <<m>>
    BY <1>3 DEF InitialOption
  <2>3. \A opt : opt # o => m \notin {Msg(d, opt), Msg(e, opt)}
    BY MsgEqual
  <2> HIDE DEF m
  <2>4. s \o InitialOption(d, o) = Append(s, m)
    BY <1>1, <2>1, <2>2, AppendIsConcat
  <2>5. Append(s, m) \in Seq(ToClient)
    BY <1>1, <2>1
  <2>6. ASSUME NEW opt \in Option, opt # o
        PROVE  Word(Append(s, m), Msg(d, opt), Msg(e, opt),
                    IF opt \in X \cup {o} THEN <<"on">> ELSE <<>>)
    <3> DEFINE w == IF opt \in X THEN <<"on">> ELSE <<>>
    <3>1. w \in Letters
      BY ShortWords
    <3>2. Word(s, Msg(d, opt), Msg(e, opt), w)
      BY DEF Requests
    <3>3. w = IF opt \in X \cup {o} THEN <<"on">> ELSE <<>>
      BY <2>6
    <3> HIDE DEF w
    <3>4. m \notin {Msg(d, opt), Msg(e, opt)}
      BY <2>3, <2>6
    <3>5. Word(Append(s, m), Msg(d, opt), Msg(e, opt), w)
      BY <1>1, <2>1, <3>1, <3>2, <3>4, WordSkip
    <3> QED
      BY <3>3, <3>5
  <2>7. Word(Append(s, m), Msg(d, o), Msg(e, o), <<"on">>)
    <3>1. Word(s, m, Msg(e, o), <<>>)
      BY <1>3 DEF Requests, m
    <3>2. Word(Append(s, m), m, Msg(e, o), Append(<<>>, "on"))
      <4> DEFINE a == "on"
      <4>1. a \in {"on", "off"} /\ a = "on"
        OBVIOUS
      <4> HIDE DEF a
      <4>2. Word(Append(s, IF a = "on" THEN m ELSE Msg(e, o)), m, Msg(e, o), Append(<<>>, a))
        BY <1>1, <2>1, <3>1, <4>1, ShortWords, WordAdd
      <4> QED
        BY <4>1, <4>2
    <3> QED
      BY <3>2, ShortWords DEF m
  <2> QED
    BY <2>4, <2>5, <2>6, <2>7 DEF Requests
<1> QED
  BY <1>2, <1>3

\* What SendTelnetInitialOptions requests.
LEMMA InitialRequests ==
    /\ Requests(SendTelnetInitialOptions, "WILL", "WONT", {"BINARY", "ECHO", "SGA"})
    /\ Requests(SendTelnetInitialOptions, "DO", "DONT", {"BINARY", "SGA", "COMPORT"})
<1> DEFINE s1 == InitialOption("WILL", "BINARY")
           s2 == s1 \o InitialOption("DO", "BINARY")
           s3 == s2 \o InitialOption("WILL", "ECHO")
           s4 == s3 \o InitialOption("WILL", "SGA")
           s5 == s4 \o InitialOption("DO", "SGA")
           s6 == s5 \o InitialOption("DO", "COMPORT")
<1>0. s6 = SendTelnetInitialOptions
  BY DEF SendTelnetInitialOptions
<1>1. \A d, e : Requests(<<>>, d, e, {})
  BY RequestsNone DEF Requests
<1>2. s1 = <<>> \o s1
  <2>1. s1 \in Seq(ToClient)
    BY MsgType DEF InitialOption
  <2> HIDE DEF s1
  <2> QED
    BY <2>1
<1>3. /\ Requests(s1, "WILL", "WONT", {} \cup {"BINARY"})
      /\ Requests(s1, "DO", "DONT", {})
  BY <1>1, <1>2, InitialOwn, InitialOther
<1>4. /\ Requests(s2, "WILL", "WONT", {} \cup {"BINARY"})
      /\ Requests(s2, "DO", "DONT", {} \cup {"BINARY"})
  <2> HIDE DEF s1
  <2> QED
    BY <1>3, InitialOwn, InitialOther
<1>5. /\ Requests(s3, "WILL", "WONT", {"BINARY"} \cup {"ECHO"})
      /\ Requests(s3, "DO", "DONT", {"BINARY"})
  <2>1. {} \cup {"BINARY"} = {"BINARY"}
    OBVIOUS
  <2> HIDE DEF s2
  <2> QED
    BY <1>4, <2>1, InitialOwn, InitialOther
<1>6. /\ Requests(s4, "WILL", "WONT", {"BINARY", "ECHO"} \cup {"SGA"})
      /\ Requests(s4, "DO", "DONT", {"BINARY"})
  <2>1. {"BINARY"} \cup {"ECHO"} = {"BINARY", "ECHO"}
    OBVIOUS
  <2> HIDE DEF s3
  <2> QED
    BY <1>5, <2>1, InitialOwn, InitialOther
<1>7. /\ Requests(s5, "WILL", "WONT", {"BINARY", "ECHO", "SGA"})
      /\ Requests(s5, "DO", "DONT", {"BINARY"} \cup {"SGA"})
  <2>1. {"BINARY", "ECHO"} \cup {"SGA"} = {"BINARY", "ECHO", "SGA"}
    OBVIOUS
  <2> HIDE DEF s4
  <2> QED
    BY <1>6, <2>1, InitialOwn, InitialOther
<1>8. /\ Requests(s6, "WILL", "WONT", {"BINARY", "ECHO", "SGA"})
      /\ Requests(s6, "DO", "DONT", {"BINARY", "SGA"} \cup {"COMPORT"})
  <2>1. {"BINARY"} \cup {"SGA"} = {"BINARY", "SGA"}
    OBVIOUS
  <2> HIDE DEF s5
  <2> QED
    BY <1>7, <2>1, InitialOwn, InitialOther
<1>9. {"BINARY", "SGA"} \cup {"COMPORT"} = {"BINARY", "SGA", "COMPORT"}
  OBVIOUS
<1> QED
  BY <1>0, <1>8, <1>9

\* One direction of a fresh connection, for an option that is requested
\* (sent) or not.
LEMMA FreshPhase ==
    ASSUME NEW sup \in BOOLEAN, NEW sent \in BOOLEAN, sent => sup
    PROVE  Phase(sup, "no", FALSE, sent, IF sent THEN <<"on">> ELSE <<>>, <<>>)
BY DEF Phase, Quiet, Requested

\* Both directions of every option fit the table on a fresh connection.
LEMMA FreshDirs ==
    ASSUME NEW opt \in Option
    PROVE  /\ Dir(opt \in Supported, "no", InitialState(opt).is_do, InitialState(opt).sent_do,
                  SendTelnetInitialOptions, <<>>,
                  Msg("DO", opt), Msg("DONT", opt), Msg("WILL", opt), Msg("WONT", opt))
           /\ Dir(opt \in Supported, "no", InitialState(opt).is_will, InitialState(opt).sent_will,
                  SendTelnetInitialOptions, <<>>,
                  Msg("WILL", opt), Msg("WONT", opt), Msg("DO", opt), Msg("DONT", opt))
<1> DEFINE do == opt \in {"BINARY", "SGA", "COMPORT"}
           will == opt \in {"BINARY", "ECHO", "SGA"}
           sup == opt \in Supported
           wDo == IF do THEN <<"on">> ELSE <<>>
           wWill == IF will THEN <<"on">> ELSE <<>>
<1>1. /\ InitialState(opt).is_do = FALSE /\ InitialState(opt).is_will = FALSE
      /\ InitialState(opt).sent_do = do /\ InitialState(opt).sent_will = will
  BY DEF InitialState, InitTelnetStateMachine
<1>2. sup \in BOOLEAN /\ do \in BOOLEAN /\ will \in BOOLEAN
  OBVIOUS
<1>3. do => sup
  BY DEF Supported
<1>4. will => sup
  BY DEF Supported
<1>5. Word(SendTelnetInitialOptions, Msg("DO", opt), Msg("DONT", opt), wDo)
  BY InitialRequests DEF Requests
<1>6. Word(SendTelnetInitialOptions, Msg("WILL", opt), Msg("WONT", opt), wWill)
  BY InitialRequests DEF Requests
<1>7. /\ Word(<<>>, Msg("DO", opt), Msg("DONT", opt), <<>>)
      /\ Word(<<>>, Msg("WILL", opt), Msg("WONT", opt), <<>>)
  BY RequestsNone
<1>8. wDo \in Letters /\ wWill \in Letters /\ <<>> \in Letters
  BY ShortWords
<1> HIDE DEF do, will, sup
<1>9. Phase(sup, "no", FALSE, do, wDo, <<>>) /\ Phase(sup, "no", FALSE, will, wWill, <<>>)
  BY <1>2, <1>3, <1>4, FreshPhase
<1> HIDE DEF wDo, wWill
<1>10. Dir(sup, "no", FALSE, do, SendTelnetInitialOptions, <<>>,
           Msg("DO", opt), Msg("DONT", opt), Msg("WILL", opt), Msg("WONT", opt))
  BY <1>5, <1>7, <1>8, <1>9 DEF Dir
<1>11. Dir(sup, "no", FALSE, will, SendTelnetInitialOptions, <<>>,
           Msg("WILL", opt), Msg("WONT", opt), Msg("DO", opt), Msg("DONT", opt))
  BY <1>6, <1>7, <1>8, <1>9 DEF Dir
<1> QED
  BY <1>1, <1>10, <1>11 DEF sup

\* The types of a fresh connection; no command is waiting in it.
LEMMA FreshTypes ==
    /\ [opt \in Option |-> InitialState(opt)]
         \in [Option -> [sent_will : BOOLEAN, sent_do : BOOLEAN,
                         is_will : BOOLEAN, is_do : BOOLEAN]]
    /\ SendTelnetInitialOptions \in Seq(ToClient)
    /\ <<>> \in Seq(ToSercd)
    /\ [opt \in Option |-> "no"] \in [Option -> QState]
    /\ \A is : Covered(<<>>, is)
<1>1. \A opt : InitialState(opt) \in [sent_will : BOOLEAN, sent_do : BOOLEAN,
                                      is_will : BOOLEAN, is_do : BOOLEAN]
  BY DEF InitialState, InitTelnetStateMachine
<1>2. SendTelnetInitialOptions \in Seq(ToClient)
  BY InitialRequests DEF Requests
<1>3. [opt \in Option |-> "no"] \in [Option -> QState]
  BY DEF QState
<1>4. \A is : Covered(<<>>, is)
  BY DEF Covered
<1> QED
  BY <1>1, <1>2, <1>3, <1>4

\* The invariant holds at the start,
LEMMA InitInv == Init => IInv
<1> SUFFICES ASSUME Init PROVE IInv
  OBVIOUS
<1>1. /\ tnstate = [opt \in Option |-> InitialState(opt)]
      /\ toClient = SendTelnetInitialOptions /\ toSercd = <<>>
      /\ us = [opt \in Option |-> "no"] /\ him = [opt \in Option |-> "no"]
      /\ asks = 0 /\ sessions = 0
  BY DEF Init
<1>2. asks \in 0 .. MaxAsks /\ sessions \in 0 .. MaxSessions
  BY <1>1, TelnetAssumption
<1>3. TypeOK
  BY <1>1, <1>2, FreshTypes DEF TypeOK, ToClient, ToSercd
<1>4. ASSUME NEW opt \in Option
      PROVE  UsInv(opt) /\ HimInv(opt)
  BY <1>1, FreshDirs DEF UsInv, HimInv
<1>5. Covered(toSercd, tnstate["COMPORT"].is_do)
  BY <1>1, FreshTypes
<1> QED
  BY <1>3, <1>4, <1>5 DEF IInv

\* and again when the next client connects, whatever the last one left.
LEMMA NewConnectionInv ==
    ASSUME IInv, NewConnection
    PROVE  IInv'
<1>1. /\ tnstate' = [opt \in Option |-> InitialState(opt)]
      /\ toClient' = SendTelnetInitialOptions /\ toSercd' = <<>>
      /\ us' = [opt \in Option |-> "no"] /\ him' = [opt \in Option |-> "no"]
      /\ asks' = asks /\ sessions < MaxSessions /\ sessions' = sessions + 1
  BY DEF NewConnection
<1>2. asks' \in 0 .. MaxAsks /\ sessions' \in 0 .. MaxSessions
  BY <1>1, TelnetAssumption DEF IInv, TypeOK
<1>3. TypeOK'
  BY <1>1, <1>2, FreshTypes DEF TypeOK, ToClient, ToSercd
<1>4. ASSUME NEW opt \in Option
      PROVE  UsInv(opt)' /\ HimInv(opt)'
  BY <1>1, FreshDirs DEF UsInv, HimInv
<1>5. Covered(toSercd', tnstate'["COMPORT"].is_do)
  BY <1>1, FreshTypes
<1> QED
  BY <1>3, <1>4, <1>5 DEF IInv

----------------------------------------------------------------------------
(* The theorems.                                                           *)

\* The table describes every state that sercd and a client can reach
\* (HandleIACCommand, SendTelnetInitialOptions).
THEOREM Invariance == Spec => []IInv
<1>1. IInv /\ [Next]_vars => IInv'
  <2> SUFFICES ASSUME IInv, [Next]_vars PROVE IInv'
    OBVIOUS
  <2>1. CASE HandleIACCommand
    BY <2>1, HandleInv
  <2>2. CASE ClientReceives
    BY <2>2, ReceivesInv
  <2>3. ASSUME NEW opt \in Option, NEW on \in BOOLEAN, ClientAsksUs(opt, on)
        PROVE  IInv'
    BY <2>3, AsksUsInv
  <2>4. ASSUME NEW opt \in Option, NEW on \in BOOLEAN, ClientAsksHim(opt, on)
        PROVE  IInv'
    BY <2>4, AsksHimInv
  <2>5. CASE ClientCommands
    BY <2>5, CommandsInv
  <2>6. CASE NewConnection
    BY <2>6, NewConnectionInv
  <2>7. CASE UNCHANGED vars
    BY <2>7 DEF vars, IInv, TypeOK, UsInv, HimInv
  <2> QED
    BY <2>1, <2>2, <2>3, <2>4, <2>5, <2>6, <2>7 DEF Next
<1> QED
  BY InitInv, <1>1, PTL DEF Spec

\* Commands in flight are about options of the negotiation, and the states of
\* both ends stay in their sets.
THEOREM TypeCorrect == Spec => []TypeOK
<1>1. IInv => TypeOK
  BY DEF IInv
<1> QED
  BY <1>1, Invariance, PTL

\* An empty channel spells the empty word.
LEMMA EmptyWord ==
    ASSUME NEW on, NEW off, NEW w \in Letters, Word(<<>>, on, off, w)
    PROVE  w = <<>>
<1>1. PICK f \in [1 .. Len(w) -> 1 .. 0] : TRUE
  BY DEF Word
<1>2. Len(w) \in Nat
  BY DEF Letters
<1>3. Len(w) = 0
  <2>1. CASE Len(w) > 0
    <3>1. f[1] \in 1 .. 0
      BY <1>1, <1>2, <2>1
    <3> QED
      BY <3>1
  <2> QED
    BY <1>2, <2>1
<1> QED
  BY <1>3 DEF Letters

\* With nothing in flight a direction is at rest.
LEMMA DirQuiet ==
    ASSUME NEW sup, NEW q, NEW is \in BOOLEAN, NEW sent \in BOOLEAN,
           NEW con, NEW coff, NEW son, NEW soff,
           Dir(sup, q, is, sent, <<>>, <<>>, con, coff, son, soff)
    PROVE  q = (IF is THEN "yes" ELSE "no") /\ ~sent
<1>1. PICK C \in Letters, S \in Letters :
        /\ Word(<<>>, con, coff, C) /\ Word(<<>>, son, soff, S)
        /\ Phase(sup, q, is, sent, C, S)
  BY DEF Dir
<1>2. C = <<>> /\ S = <<>>
  BY <1>1, EmptyWord
<1>3. Quiet(sup, q, is, sent, C, S)
  BY <1>1, <1>2, ShortWords DEF Phase, Asked, Answered, Requested
<1> QED
  BY <1>3 DEF Quiet

\* Once no command is in flight, sercd and the client agree on every option,
\* and neither waits for an answer (HandleIACCommand,
\* SendTelnetInitialOptions).
THEOREM NegotiationAgrees == Spec => []Agreement
<1>1. IInv => Agreement
  <2> SUFFICES ASSUME IInv, toClient = <<>>, toSercd = <<>>, NEW opt \in Option
               PROVE  /\ us[opt] = IF tnstate[opt].is_do THEN "yes" ELSE "no"
                      /\ him[opt] = IF tnstate[opt].is_will THEN "yes" ELSE "no"
                      /\ ~tnstate[opt].sent_do /\ ~tnstate[opt].sent_will
    BY DEF Agreement
  <2>1. TypeOK /\ UsInv(opt) /\ HimInv(opt)
    BY DEF IInv
  <2>2. /\ tnstate[opt].is_do \in BOOLEAN /\ tnstate[opt].sent_do \in BOOLEAN
        /\ tnstate[opt].is_will \in BOOLEAN /\ tnstate[opt].sent_will \in BOOLEAN
    BY <2>1, DirTypes
  <2>3. us[opt] = (IF tnstate[opt].is_do THEN "yes" ELSE "no") /\ ~tnstate[opt].sent_do
    BY <2>1, <2>2, DirQuiet DEF UsInv
  <2>4. him[opt] = (IF tnstate[opt].is_will THEN "yes" ELSE "no") /\ ~tnstate[opt].sent_will
    BY <2>1, <2>2, DirQuiet DEF HimInv
  <2> QED
    BY <2>3, <2>4
<1> QED
  BY <1>1, Invariance, PTL

\* No COM-PORT-OPTION command of a client that has agreed to the option is
\* ignored (the condition on TNSB in HandleIACCommand).
THEOREM CommandsHeard == Spec => []CommandNotIgnored
<1>1. IInv => CommandNotIgnored
  <2> SUFFICES ASSUME IInv, toSercd # <<>>, Head(toSercd).cmd = "SB"
               PROVE  SuboptionAccepted(Head(toSercd).opt)
    BY DEF CommandNotIgnored
  <2>1. /\ toSercd \in Seq(ToSercd) /\ Covered(toSercd, tnstate["COMPORT"].is_do)
    BY DEF IInv, TypeOK, ToSercd
  <2>2. 1 \in 1 .. Len(toSercd) /\ Head(toSercd) = toSercd[1]
    BY <2>1
  <2>3. CoveredAt(toSercd, tnstate["COMPORT"].is_do, 1)
    BY <2>1, <2>2 DEF Covered
  <2>4. \A j \in 1 .. Len(toSercd) : ~(j < 1)
    BY <2>1
  <2>5. Head(toSercd).opt = "COMPORT" /\ tnstate["COMPORT"].is_do
    BY <2>2, <2>3, <2>4 DEF CoveredAt
  <2> QED
    BY <2>5 DEF SuboptionAccepted
<1> QED
  BY <1>1, Invariance, PTL
=============================================================================
