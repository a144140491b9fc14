----------------------------- MODULE SyncChannel -----------------------------
(***************************************************************************)
(* The server: the Y::ActionCable::Sync concern, lib/y/action_cable/sync.rb*)
(* It keeps no document in memory.  Every frame is handled by some worker  *)
(* (thread or process) from a document rebuilt out of the durable store by *)
(* on_load, with no lock per document, so workers act on snapshots that    *)
(* others have already overtaken.  A job is one frame being handled; its   *)
(* stage is what the worker does next.  Loading and checking are one step  *)
(* (on_load is one read, the checks are pure), and so is transmitting a    *)
(* reply: it may be delivered arbitrarily late.  Recording, broadcasting   *)
(* and acknowledging are separate steps, between which anything can happen.*)
(*                                                                         *)
(* store is the set of operations in the durable log.  on_change appends   *)
(* the update to the log and on_load replays it, so rows recorded twice    *)
(* leave no trace here, and the prefixes of the log are the successive     *)
(* values of store.                                                        *)
(***************************************************************************)
EXTENDS Wire

CONSTANTS
  Worker,        \* the threads or processes that handle frames
  MaxFrameOps    \* max_frame_bytes, counted in operations

ASSUME ChannelAssumption == MaxFrameOps \in Nat

VARIABLES
  store,         \* the operations on_change has recorded durably
  subscribed,    \* subscribed[c]: c's connection streams the document
  jobs           \* the frames being handled, past their checks

channelVars == <<store, subscribed, jobs>>

Job == [worker : Worker,
        client : Client,
        live   : BOOLEAN,
        frame  : Frame,
        stage  : {"record", "distribute", "ack"}]

\* The log may hold a document already, and some clients may have joined it.
ChannelInit(joined, stored) ==
  /\ store = stored
  /\ subscribed = [c \in Client |-> c \in joined]
  /\ jobs = {}

Idle(w) == \A j \in jobs : j.worker # w

\* transmit: reaches the client only while the connection is its connection.
Transmit(c, live, f) ==
  down' = [down EXCEPT ![c] = IF live THEN @ \cup {f} ELSE @]

\* ActionCable.server.broadcast of the frame as it came in, to every streaming
\* connection, the sender's too.  The envelope carries no id.
Distribute(f) ==
  down' = [c \in Client |->
             IF subscribed[c] THEN down[c] \cup {[f EXCEPT !.id = 0]} ELSE down[c]]

\* sync_subscribed: stream the document, then open with SyncStep1 of the store.
SyncSubscribed(c) ==
  /\ ~subscribed[c]
  /\ subscribed' = [subscribed EXCEPT ![c] = TRUE]
  /\ Transmit(c, TRUE, SyncStep1(StateVector(store)))
  /\ UNCHANGED <<store, jobs, up>>

\* Base64: four characters for every three bytes begun.
EncodedSize(n) == 4 * ((n + 2) \div 3)

\* Mutant: without the allowance for padding.
EncodedLimitBare(cap) == (cap * 4) \div 3

\* The longest encoded frame that is decoded at all.
EncodedLimit(cap) == (cap * 4) \div 3 + 4

\* max_frame_bytes, checked before decoding and after.
TooLarge(n, cap) == EncodedSize(n) > EncodedLimit(cap) \/ n > cap

\* An operation counts as a byte.
Oversized(f) == TooLarge(Cardinality(f.ops), MaxFrameOps)

\* Mutant: a client that misses nothing gets no answer.
AnswerUnlessEmpty(e) ==
  LET reply == EncodeDiff(store, e.frame.ops) IN
  /\ e \in up /\ e.frame.kind = "step1"
  /\ up' = up \ {e}
  /\ IF reply = {} THEN UNCHANGED down
                   ELSE Transmit(e.client, e.live, SyncStep2(reply))
  /\ UNCHANGED channelVars

\* A client's SyncStep1, answered from the store.
HandleStep1(e) ==
  /\ e \in up /\ e.frame.kind = "step1"
  /\ up' = up \ {e}
  /\ Transmit(e.client, e.live, SyncStep2(EncodeDiff(store, e.frame.ops)))
  /\ UNCHANGED channelVars

CarriesUpdate(e) == e \in up /\ e.frame.kind \in {"step2", "update"}

\* Mutant: a dropped frame is acknowledged.
DropAcked(e) ==
  /\ CarriesUpdate(e)
  /\ Oversized(e.frame) \/ e.frame.ops = {}
  /\ up' = up \ {e}
  /\ Transmit(e.client, e.live, Ack(e.frame.id))
  /\ UNCHANGED channelVars

\* sync_receive drops an oversized frame, and sync_handle_frame one that carries
\* no document change (the empty SyncStep2 of a handshake).
DropFrame(e) ==
  /\ CarriesUpdate(e)
  /\ Oversized(e.frame) \/ e.frame.ops = {}
  /\ up' = up \ {e}
  /\ UNCHANGED <<channelVars, down>>

Accepts(e) == CarriesUpdate(e) /\ ~Oversized(e.frame) /\ e.frame.ops # {}

\* Mutant: a gapped update is rejected without a resync.
RejectSilently(e) ==
  /\ Accepts(e)
  /\ ~UpdateReady(store, e.frame.ops)
  /\ up' = up \ {e}
  /\ UNCHANGED <<channelVars, down>>

\* A causally gapped update: not recorded, not acked, the sender is resynced.
RejectGap(e) ==
  /\ Accepts(e)
  /\ ~UpdateReady(store, e.frame.ops)
  /\ up' = up \ {e}
  /\ Transmit(e.client, e.live, SyncStep1(StateVector(store)))
  /\ UNCHANGED channelVars

\* The job of worker w for the frame of envelope e.
JobFor(w, e, stage) ==
  [worker |-> w, client |-> e.client, live |-> e.live, frame |-> e.frame,
   stage |-> stage]

\* Mutant: nobody checks for gaps.
AcceptUnchecked(w, e) ==
  /\ Idle(w)
  /\ Accepts(e)
  /\ up' = up \ {e}
  /\ jobs' = jobs \cup {JobFor(w, e, "record")}
  /\ UNCHANGED <<store, subscribed, down>>

\* Mutant: new content is relayed, known content recorded.
AcceptSwapped(w, e) ==
  /\ Idle(w)
  /\ Accepts(e)
  /\ UpdateReady(store, e.frame.ops)
  /\ up' = up \ {e}
  /\ jobs' = jobs \cup
       {JobFor(w, e, IF UpdateAdvances(store, e.frame.ops) THEN "distribute"
                                                           ELSE "record")}
  /\ UNCHANGED <<store, subscribed, down>>

\* Mutant: a lost-ack retry is acknowledged but not broadcast again.
AcceptWithoutRebroadcast(w, e) ==
  /\ Idle(w)
  /\ Accepts(e)
  /\ UpdateReady(store, e.frame.ops)
  /\ up' = up \ {e}
  /\ jobs' = jobs \cup
       {JobFor(w, e, IF UpdateAdvances(store, e.frame.ops) THEN "record"
                                                           ELSE "ack")}
  /\ UNCHANGED <<store, subscribed, down>>

\* A complete update: record it if the loaded document lacks any of it, else
\* (a lost-ack retry) go straight on to the broadcast.
AcceptUpdate(w, e) ==
  /\ Idle(w)
  /\ Accepts(e)
  /\ UpdateReady(store, e.frame.ops)
  /\ up' = up \ {e}
  /\ jobs' = jobs \cup
       {JobFor(w, e, IF UpdateAdvances(store, e.frame.ops) THEN "record"
                                                           ELSE "distribute")}
  /\ UNCHANGED <<store, subscribed, down>>

Advance(j, stage) == jobs' = (jobs \ {j}) \cup {[j EXCEPT !.stage = stage]}

\* Mutant: on_change returns before the update is durable.
RecordLater(j) ==
  /\ j \in jobs /\ j.stage = "record"
  /\ Advance(j, "distribute")
  /\ UNCHANGED <<store, subscribed, up, down>>

\* on_change returns: the update is durable.
RecordChange(j) ==
  /\ j \in jobs /\ j.stage = "record"
  /\ store' = store \cup j.frame.ops
  /\ Advance(j, "distribute")
  /\ UNCHANGED <<subscribed, up, down>>

\* The broadcast.  Without an id there is nothing to acknowledge.
DistributeChange(j) ==
  /\ j \in jobs /\ j.stage = "distribute"
  /\ Distribute(j.frame)
  /\ IF j.frame.id = 0 THEN jobs' = jobs \ {j} ELSE Advance(j, "ack")
  /\ UNCHANGED <<store, subscribed, up>>

\* Mutant: the ack is one ahead.
SendAckAhead(j) ==
  /\ j \in jobs /\ j.stage = "ack"
  /\ Transmit(j.client, j.live, Ack(j.frame.id + 1))
  /\ jobs' = jobs \ {j}
  /\ UNCHANGED <<store, subscribed, up>>

\* sync_send_ack, for the outcomes :recorded and :applied.
SendAck(j) ==
  /\ j \in jobs /\ j.stage = "ack"
  /\ Transmit(j.client, j.live, Ack(j.frame.id))
  /\ jobs' = jobs \ {j}
  /\ UNCHANGED <<store, subscribed, up>>

\* on_load raises (the database is away): the frame is gone, nothing is sent.
LoadRaises(e) ==
  /\ e \in up
  /\ up' = up \ {e}
  /\ UNCHANGED <<channelVars, down>>

\* Mutant: an on_change that raises is rescued and the handler goes on.
AbortRescued(j) ==
  /\ j \in jobs
  /\ IF j.stage = "record" THEN Advance(j, "distribute") ELSE jobs' = jobs \ {j}
  /\ UNCHANGED <<store, subscribed, up, down>>

\* on_change raises, or the worker dies before its next step: the rest of the
\* handler never runs.
Abort(j) ==
  /\ j \in jobs
  /\ jobs' = jobs \ {j}
  /\ UNCHANGED <<store, subscribed, up, down>>

\* The two checks of a frame of n bytes agree with the cap, and no more than
\* three bytes too many are decoded.
CapAgrees(n, cap) ==
  /\ TooLarge(n, cap) <=> n > cap
  /\ EncodedSize(n) =< EncodedLimit(cap) => n =< cap + 3

\* However many bytes the operations of a frame on its way take, and whatever the
\* cap, the check before decoding never drops what the cap allows, and the check
\* after it drops the rest (sync.rb:131-152).
CapExact ==
  \A e \in up : \A bytes, cap \in 0 .. 12 :
    CapAgrees(bytes * Cardinality(e.frame.ops), cap)

ChannelTypeOK ==
  /\ store \subseteq Op
  /\ subscribed \in [Client -> BOOLEAN]
  /\ jobs \subseteq Job
=============================================================================
