----------------------------- MODULE MCProvider -----------------------------
(***************************************************************************)
(* Provider for TLC: two clients, one of which edits and changes its       *)
(* presence more than the other.  Acks are any value of AckIds.            *)
(***************************************************************************)
EXTENDS Provider

CONSTANTS
  Active,    \* the client that does most
  Budget,    \* bound: edits and changes of own presence, of the active client
  Little     \* bound: the same, of each other client

\* Operations are numbers, and a client's n-th edit is operation n: nobody makes
\* the same operation twice, and the queue never looks inside an update.
NoPast == [o \in Op |-> {}]

\* Malformed, stale, current and future acks.
AckIds == -1 .. (Budget + 1)

WithinBudget(c) ==
  nextSeq[c] - 1 + clocks[c][c] =< IF c = Active THEN Budget ELSE Little

\* ProviderNext over the bounded sets.
MCNext ==
  /\ \E c \in Client :
       \/ LifeStep(c)
       \/ nextSeq[c] \in Op /\ LocalEdit(c, {nextSeq[c]})
       \/ \E id \in AckIds : CableAck(c, id)
  /\ \A c \in Client : WithinBudget(c)'

MCSpec == ProviderInit /\ [][MCNext]_providerVars /\ ReaperRuns

\* "Only broadcast our own presence changes. [...] re-sending those would echo
\* presence and broadcast tombstones for other clients' cursors."
\* (y_protocol_session.ts:97-100).  The reaper's removals have neither the
\* session nor the application as origin, and are broadcast.
OwnPresenceOnly == \A e \in air : e.from = e.who
=============================================================================
