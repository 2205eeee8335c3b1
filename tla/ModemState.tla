----------------------------- MODULE ModemState -----------------------------
(***************************************************************************)
(* The modem lines: sercd polls them, and tells the client when one has    *)
(* changed that the client's mask lets through.                            *)
(*                                                                         *)
(* ModemState is what was polled when the client was last told, the lines  *)
(* included that the mask has hidden.  Neither ModemState nor the mask nor *)
(* InputFlow belongs to the connection: the next client finds them as the  *)
(* last one left them.  What a client knows is what it was told of a line  *)
(* while the mask has shown it ever since.                                 *)
(*                                                                         *)
(* When to poll is decided by an arithmetic of seconds and microseconds    *)
(* (SercdSelect), which is modelled as an operator and compared with what  *)
(* it should compute.                                                      *)
(***************************************************************************)
EXTENDS Integers

CONSTANTS Line,         \* the lines: DCD, RI, DSR and CTS
          MsPerSec,     \* 1000
          UsPerMs,      \* 1000
          MaxSec,       \* bound on the clock
          Interval      \* poll intervals that sercd is started with, in milliseconds,
                        \* but for 0, which should turn polling off and does not

ASSUME ModemAssumption ==
    /\ MsPerSec \in Nat \ {0} /\ UsPerMs \in Nat \ {0}
    /\ MaxSec \in Nat /\ Interval \subseteq Nat

VARIABLES
    line,               \* the lines that are on
    ModemState,         \* the lines that were on when the client was last told
    ModemStateMask,     \* the lines, and the changes of lines, to tell
    LineStateMask,      \* the client's line state mask is kept, and never used
    connected,
    InputFlow,          \* the client has not suspended the output
    room,               \* BufferHasRoomFor(&ToNetBuf, SendCPCByteCommand_bytes)
    told,               \* what the client knows
    note,               \* the notification that was sent in this step
    PollInterval        \* an argument of the program

modemVars == <<line, ModemState, ModemStateMask, LineStateMask, connected, InputFlow,
               room, told, note, PollInterval>>

Value == {"unknown", "on", "off"}
NoNote == [lines |-> {}, deltas |-> {}, sent |-> FALSE]

Bit == [line : Line, delta : BOOLEAN]
Shown == {l \in Line : [line |-> l, delta |-> FALSE] \in ModemStateMask}
ShownDelta == {l \in Line : [line |-> l, delta |-> TRUE] \in ModemStateMask}

----------------------------------------------------------------------------
(* When to poll.                                                           *)

UsPerSec == MsPerSec * UsPerMs
Time == [sec : 0 .. MaxSec, usec : 0 .. UsPerSec - 1]
Before(s, t) == s.sec < t.sec \/ (s.sec = t.sec /\ s.usec < t.usec)   \* timercmp

\* The interval is in milliseconds, and what is left of it after the whole
\* seconds is subtracted from the microseconds.
MutPollDue(now, LastPoll, interval) ==
    LET last == IF Before(now, LastPoll) THEN [sec |-> 0, usec |-> 0] ELSE LastPoll
    IN  Before(last, [sec |-> now.sec - interval, usec |-> now.usec])
PollDue(now, LastPoll, interval) ==
    LET last == IF Before(now, LastPoll) THEN [sec |-> 0, usec |-> 0] ELSE LastPoll
    IN  Before(last, [sec |-> now.sec - interval \div MsPerSec,
                      usec |-> now.usec - (interval % MsPerSec)])

----------------------------------------------------------------------------
(* sercd.                                                                  *)

\* The delta bits of GetModemState.
MutGetDeltas(old, new) == new \ old
GetDeltas(old, new) == (old \ new) \cup (new \ old)

\* What is sent is masked, and so is what decides whether it is sent.
MutChanged(old, new, shown) == shown \cap (new \ old) # {}
Changed(old, new, shown) == shown \cap old # shown \cap new

\* SERCD_EV_MODEMSTATE, in a state in which SercdSelect asks for it.
MutPoll ==
    /\ connected /\ InputFlow /\ room
    /\ IF Changed(ModemState, line, Shown)
       THEN /\ note' = [lines |-> line \cap Shown, sent |-> TRUE,
                        deltas |-> GetDeltas(ModemState, line) \cap ShownDelta]
            /\ told' = [l \in Line |-> IF l \notin Shown THEN "unknown"
                                       ELSE IF l \in line THEN "on" ELSE "off"]
       ELSE note' = NoNote /\ UNCHANGED told
    /\ UNCHANGED <<line, ModemState, ModemStateMask, LineStateMask, connected, InputFlow, room,
                   PollInterval>>
Poll ==
    /\ connected /\ InputFlow /\ room
    /\ IF Changed(ModemState, line, Shown)
       THEN /\ ModemState' = line
            /\ note' = [lines |-> line \cap Shown, sent |-> TRUE,
                        deltas |-> GetDeltas(ModemState, line) \cap ShownDelta]
            /\ told' = [l \in Line |-> IF l \notin Shown THEN "unknown"
                                       ELSE IF l \in line THEN "on" ELSE "off"]
       ELSE note' = NoNote /\ UNCHANGED <<ModemState, told>>
    /\ UNCHANGED <<line, ModemStateMask, LineStateMask, connected, InputFlow, room,
                   PollInterval>>

\* SET_MODEMSTATE_MASK: the client no longer knows a line that it hides.
SetModemStateMask(mask) ==
    /\ connected
    /\ ModemStateMask' = mask
    /\ told' = [l \in Line |-> IF [line |-> l, delta |-> FALSE] \in mask
                               THEN told[l] ELSE "unknown"]
    /\ note' = NoNote
    /\ UNCHANGED <<line, ModemState, LineStateMask, connected, InputFlow, room,
                   PollInterval>>

\* SET_LINESTATE_MASK: only the break bit is kept.
SetLineStateMask(break) ==
    /\ connected
    /\ LineStateMask' = break
    /\ note' = NoNote
    /\ UNCHANGED <<line, ModemState, ModemStateMask, connected, InputFlow, room, told,
                   PollInterval>>

\* FLOWCONTROL_SUSPEND and FLOWCONTROL_RESUME also stop and start the polling.
SetInputFlow(on) ==
    /\ connected
    /\ InputFlow' = on
    /\ note' = NoNote
    /\ UNCHANGED <<line, ModemState, ModemStateMask, LineStateMask, connected, room, told,
                   PollInterval>>

Connect ==
    /\ ~connected
    /\ connected' = TRUE
    /\ note' = NoNote
    /\ UNCHANGED <<line, ModemState, ModemStateMask, LineStateMask, InputFlow, room, told,
                   PollInterval>>

Disconnect ==
    /\ connected
    /\ connected' = FALSE
    /\ told' = [l \in Line |-> "unknown"]
    /\ note' = NoNote
    /\ UNCHANGED <<line, ModemState, ModemStateMask, LineStateMask, InputFlow, room,
                   PollInterval>>

----------------------------------------------------------------------------
(* The environment.                                                        *)

LineChanges(l) ==
    /\ line' = IF l \in line THEN line \ {l} ELSE line \cup {l}
    /\ note' = NoNote
    /\ UNCHANGED <<ModemState, ModemStateMask, LineStateMask, connected, InputFlow, room, told,
                   PollInterval>>

\* The network buffer fills, and the client reads it.
BufferFills ==
    /\ room
    /\ room' = FALSE
    /\ note' = NoNote
    /\ UNCHANGED <<line, ModemState, ModemStateMask, LineStateMask, connected, InputFlow, told,
                   PollInterval>>

BufferDrains ==
    /\ ~room
    /\ room' = TRUE
    /\ note' = NoNote
    /\ UNCHANGED <<line, ModemState, ModemStateMask, LineStateMask, connected, InputFlow, told,
                   PollInterval>>

----------------------------------------------------------------------------

ModemInit ==
    /\ line \in SUBSET Line
    /\ ModemState = {}
    /\ ModemStateMask = Bit         \* 255
    /\ LineStateMask = FALSE
    /\ connected = FALSE
    /\ InputFlow = TRUE
    /\ room = TRUE
    /\ told = [l \in Line |-> "unknown"]
    /\ note = NoNote
    /\ PollInterval \in Interval

ModemNext ==
    \/ Poll
    \/ \E mask \in SUBSET Bit : SetModemStateMask(mask)
    \/ \E break \in BOOLEAN : SetLineStateMask(break)
    \/ \E on \in BOOLEAN : SetInputFlow(on)
    \/ Connect
    \/ Disconnect
    \/ \E l \in Line : LineChanges(l)
    \/ BufferFills
    \/ BufferDrains

\* The loop polls again and again while it may, and a network buffer that has
\* room for a notification again and again has it in front of some select; the
\* client reads what it is sent.
Fairness == SF_modemVars(Poll) /\ WF_modemVars(BufferDrains)

ModemSpec == ModemInit /\ [][ModemNext]_modemVars /\ Fairness

----------------------------------------------------------------------------
(* Properties.                                                             *)

\* What the client knows of a line is what sercd remembers of it: sercd
\* compares the next poll with what the client was told, however the mask
\* was changed in between (ModemState and ModemStateMask).
ToldRemembered ==
    \A l \in Line :
        /\ told[l] # "unknown" => l \in Shown /\ connected
        /\ told[l] = "on" => l \in ModemState
        /\ told[l] = "off" => l \notin ModemState

\* A notification reports the change of a line, to a client that knows the
\* line and wants its changes, exactly if the value it reports is new to that
\* client (GetModemState).
DeltaIsNews ==
    [][note'.sent =>
        \A l \in ShownDelta :
            told[l] # "unknown" => (l \in note'.deltas <=> told'[l] # told[l])]_modemVars

\* A change of a line that the client knows of reaches it, unless the line
\* changes back, or the client hides it, suspends the output or disconnects
\* (Poll); a network buffer that is full at times only delays it.
ChangeIsTold ==
    \A l \in Line :
        /\ (told[l] = "on" /\ l \notin line) ~>
               (told[l] # "on" \/ l \in line \/ ~InputFlow)
        /\ (told[l] = "off" /\ l \in line) ~>
               (told[l] # "off" \/ l \notin line \/ ~InputFlow)

\* A poll is never late: it is due once the interval has passed since the
\* last one, or since the epoch when the clock was set back.  (It comes far
\* too early, because milliseconds are taken for microseconds: SercdSelect.)
PollNotLate ==
    \A now \in Time, last \in Time :
        LET Us(t) == t.sec * UsPerSec + t.usec
            passed == IF Before(now, last) THEN Us(now) ELSE Us(now) - Us(last)
        IN  passed > PollInterval * UsPerMs => PollDue(now, last, PollInterval)
=============================================================================
