-------------------------- MODULE YProtocolSession --------------------------
(***************************************************************************)
(* The client's protocol session, packages/client/src/y_protocol_session.ts*)
(* with the Action Cable callbacks that drive it, packages/client/src/     *)
(* actioncable_provider.ts: document sync only, presence is left out.  It  *)
(* owns the client's Y.Doc and a ReliableSync queue, and turns local edits *)
(* into queued updates, frames into document changes and SyncStep1 into a  *)
(* SyncStep2 reply.                                                        *)
(***************************************************************************)
EXTENDS ReliableSync, Wire

CONSTANTS
  Own,       \* Own[c]: the operations the user at client c may make
  Preloaded  \* Preloaded[c]: content of c's doc from before the session

ASSUME SessionAssumption ==
  /\ Own \in [Client -> SUBSET Op]
  /\ Preloaded \in [Client -> SUBSET Op]
  /\ \A c \in Client : Closed(Preloaded[c])

VARIABLES
  doc,       \* doc[c]: the operations integrated in c's Y.Doc
  parked,    \* parked[c]: received, but waiting for operations not yet seen
  synced     \* synced[c]: the session's #synced flag

sessionVars == <<doc, parked, synced, rsVars>>

\* What flush() hands to the transport, framed as an Update with its id.
UpdateFrames(c) == {Update(f.update, f.id) : f \in Flushed(c)}

\* What is in c's document before c's first step: some clients may have joined
\* already, and hold what the server has stored.
Opened(c, joined, stored) == IF c \in joined THEN stored ELSE Preloaded[c]

SessionInit(joined, stored) ==
  /\ RSInit(joined)
  /\ doc    = [c \in Client |-> Opened(c, joined, stored)]
  /\ parked = [c \in Client |-> {}]
  /\ synced = [c \in Client |-> c \in joined]

\* The user edits: Y.Doc fires "update" with an origin that is not the session,
\* and the listener queues the update.
Edit(c, o) ==
  /\ o \in Own[c] \ doc[c]
  /\ Past[o] \subseteq doc[c]
  /\ doc' = [doc EXCEPT ![c] = @ \cup {o}]
  /\ Enqueue(c, {o})
  /\ up' = up \cup Enveloped(c, UpdateFrames(c)')
  /\ UNCHANGED <<parked, synced, down>>

\* The subscription is confirmed: send SyncStep1, replay the unacked tail.
SessionOnConnect(c) ==
  /\ OnConnect(c)
  /\ up' = up \cup Enveloped(c, {SyncStep1(StateVector(doc[c]))}
                                  \cup UpdateFrames(c)')
  /\ UNCHANGED <<doc, parked, synced, down>>

\* The transport dropped (the wire's part is the composition's).
SessionOnDisconnect(c) ==
  /\ OnDisconnect(c)
  /\ synced' = [synced EXCEPT ![c] = FALSE]
  /\ UNCHANGED <<doc, parked>>

\* The retransmit interval fires.
SessionTick(c) ==
  /\ OnTick(c)
  /\ up' = up \cup Enveloped(c, UpdateFrames(c)')
  /\ UNCHANGED <<doc, parked, synced, down>>

Consume(c, f) == down' = [down EXCEPT ![c] = @ \ {f}]

\* An { ack: id } envelope.
ReceiveAck(c, f) ==
  /\ f \in down[c] /\ f.kind = "ack"
  /\ Consume(c, f)
  /\ OnAck(c, f.id)
  /\ UNCHANGED <<doc, parked, synced, up>>

\* A SyncStep1: reply with everything the sender's state vector lacks, the
\* content still parked here included (Yjs merges pending structs into every
\* encoded state).  The reply carries no id.
ReceiveStep1(c, f) ==
  /\ f \in down[c] /\ f.kind = "step1"
  /\ Consume(c, f)
  /\ up' = up \cup Enveloped(c, {SyncStep2(EncodeDiff(doc[c] \cup parked[c], f.ops))})
  /\ UNCHANGED <<doc, parked, synced, rsVars>>

\* A SyncStep2 or Update: apply with the session as origin, so that the update
\* listener does not queue it; a SyncStep2 marks the session synced.
ReceiveContent(c, f) ==
  /\ f \in down[c] /\ f.kind \in {"step2", "update"}
  /\ Consume(c, f)
  /\ LET pool == parked[c] \cup f.ops
         new  == Integrate(doc[c], pool)
     IN  /\ doc'    = [doc EXCEPT ![c] = new]
         /\ parked' = [parked EXCEPT ![c] = pool \ new]
  /\ synced' = [synced EXCEPT ![c] = @ \/ f.kind = "step2"]
  /\ UNCHANGED <<up, rsVars>>

SessionTypeOK ==
  /\ RSTypeOK
  /\ doc    \in [Client -> SUBSET Op]
  /\ parked \in [Client -> SUBSET Op]
  /\ synced \in [Client -> BOOLEAN]
=============================================================================
