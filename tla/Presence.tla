------------------------------ MODULE Presence ------------------------------
(***************************************************************************)
(* Awareness: who is here, with which cursor.  Every client holds a state  *)
(* and a clock per client, its own included, and spreads its own by        *)
(* awareness frames that nobody acknowledges or repeats.  The Awareness    *)
(* object is y-protocols' (external); what goes out, when, is the session's*)
(* (packages/client/src/y_protocol_session.ts) and the provider's.         *)
(***************************************************************************)
EXTENDS CausalDoc

CONSTANTS
  Cursor,    \* the states an application sets
  Blank,     \* the state {} an Awareness object starts with
  Null       \* no state

ASSUME PresenceAssumption == Null \notin Cursor \cup {Blank}

State == Cursor \cup {Blank, Null}

VARIABLES
  states,    \* states[c][p]: client p's state as client c shows it
  clocks,    \* clocks[c][p]: the clock c last saw on p's state, 0 for none
  air        \* every awareness entry ever sent

presenceVars == <<states, clocks, air>>

\* What one frame says about client who, and which client sent it.  A frame may
\* reach any client at any later time, or never: the server relays it without
\* recording it, or the cable does (whisper), and nobody repeats it.  Receiving
\* one twice changes nothing, so the frames are never taken out.
Said == [from : Client, who : Client, state : State, clock : Nat]

\* Mutant: the entry carries the clock before the change.
SayBefore(c, p, s, n) == [from |-> c, who |-> p, state |-> s, clock |-> n - 1]

Say(c, p, s, n) == [from |-> c, who |-> p, state |-> s, clock |-> n]

PresenceInit ==
  /\ states = [c \in Client |-> [p \in Client |-> IF p = c THEN Blank ELSE Null]]
  /\ clocks = [c \in Client |-> [p \in Client |-> 0]]
  /\ air = {}

\* awareness.setLocalState(s): a new clock, and an "update" event on which the
\* session sends the entry; it goes out if the transport carries it.
SetLocalState(c, s, carried) ==
  /\ states' = [states EXCEPT ![c][c] = s]
  /\ clocks' = [clocks EXCEPT ![c][c] = @ + 1]
  /\ air' = air \cup (IF carried THEN {Say(c, c, s, clocks[c][c] + 1)} ELSE {})

\* removeLocalAwareness(): a no-op without a local state.
RemoveLocalAwareness(c, carried) ==
  IF states[c][c] # Null THEN SetLocalState(c, Null, carried)
                         ELSE UNCHANGED presenceVars

\* The same and the clearing of every remote state in onDisconnect(), whose
\* removal event has the session as origin and is sent to nobody.
LeavePresence(c, carried) ==
  LET bumped == IF states[c][c] # Null THEN clocks[c][c] + 1 ELSE clocks[c][c] IN
  /\ states' = [states EXCEPT ![c] = [p \in Client |-> Null]]
  /\ clocks' = [clocks EXCEPT ![c][c] = bumped]
  /\ air' = air \cup (IF carried /\ states[c][c] # Null
                        THEN {Say(c, c, Null, bumped)} ELSE {})

\* onDisconnect()'s part alone: clear the remote states, keep our own.
ClearRemoteStates(c) ==
  /\ states' = [states EXCEPT ![c] = [p \in Client |-> IF p = c THEN @[p] ELSE Null]]
  /\ UNCHANGED <<clocks, air>>

\* Mutant: a reconnecting client announces nothing.
AnnounceNothing(c) == UNCHANGED presenceVars

\* onConnect()'s part: announce our presence again.
AnnouncePresence(c) ==
  /\ air' = air \cup (IF states[c][c] # Null
                        THEN {Say(c, c, states[c][c], clocks[c][c])} ELSE {})
  /\ UNCHANGED <<states, clocks>>

\* Mutant: an entry as old as the one we have is applied again.
NotOlder(c, e) == clocks[c][e.who] =< e.clock

\* applyAwarenessUpdate: is the entry news to c?
Newer(c, e) ==
  \/ clocks[c][e.who] < e.clock
  \/ clocks[c][e.who] = e.clock /\ e.state = Null /\ states[c][e.who] # Null

\* An entry for a client other than ourselves, or for ourselves: nobody removes
\* our own state for us, we only move past the remover's clock.
ApplyEntry(c, e) ==
  /\ e \in air /\ Newer(c, e)
  /\ IF e.who = c /\ e.state = Null /\ states[c][c] # Null
       THEN /\ clocks' = [clocks EXCEPT ![c][c] = e.clock + 1]
            /\ UNCHANGED states
       ELSE /\ states' = [states EXCEPT ![c][e.who] = e.state]
            /\ clocks' = [clocks EXCEPT ![c][e.who] = e.clock]
  /\ UNCHANGED air

\* The reaper: c has heard nothing of p for 30 s.  The removal event's origin is
\* "timeout", not the session, so the session sends a removal on p's behalf.
Reap(c, p, carried) ==
  /\ p # c /\ states[c][p] # Null
  /\ states' = [states EXCEPT ![c][p] = Null]
  /\ air' = air \cup (IF carried THEN {Say(c, p, Null, clocks[c][p])} ELSE {})
  /\ UNCHANGED clocks

PresenceTypeOK ==
  /\ states \in [Client -> [Client -> State]]
  /\ clocks \in [Client -> [Client -> Nat]]
  /\ air \subseteq Said
=============================================================================
