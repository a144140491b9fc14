----------------------------- MODULE MCDocClaims -----------------------------
(***************************************************************************)
(* What the repository's documents and comments say of the system and its  *)
(* code does not do.  A history variable remembers what the store held when*)
(* a client last joined.                                                   *)
(***************************************************************************)
EXTENDS MCYrbySync

VARIABLE atJoin     \* atJoin[c]: the store when c's subscription was accepted

ClaimInit == Init /\ atJoin = [c \in Client |-> {}]

Remember ==
  atJoin' = [c \in Client |->
               IF ~subscribed[c] /\ subscribed'[c] THEN store ELSE atJoin[c]]

ClaimSpec == ClaimInit /\ [][Next /\ Remember]_<<vars, atJoin>>

\* "If the block raises, the update is neither acked nor broadcast [...] the
\* client simply never receives the ack, keeps the update pending, and
\* retransmits" (README.md:249-252): when a handler fails, what it was about to
\* record is in the sender's queue, unless it is already durable.  Content a
\* client sends in a SyncStep2 reply is recorded through on_change too, but was
\* never queued and carries no id.
RejectedStaysPending ==
  [][\A j \in jobs :
       Abort(j) =>
         j.frame.ops \subseteq store \cup Merge(pending[j.client])]_vars

\* "True once we've received the server's SyncStep2 (the document is caught up)"
\* (y_protocol_session.ts:109): a synced session holds everything the store held
\* when it joined.  The server relays another client's SyncStep2 verbatim,
\* and any SyncStep2 sets the flag.
SyncedMeansCaughtUp ==
  \A c \in Client : synced[c] => atJoin[c] \subseteq doc[c]
=============================================================================
