------------------------------ MODULE YrbySync ------------------------------
(***************************************************************************)
(* Clients, cable and server together: several browser sessions edit one   *)
(* document through stateless workers and a shared durable store, while    *)
(* connections drop, handlers fail half way and frames overtake each other.*)
(***************************************************************************)
EXTENDS YProtocolSession, SyncChannel

CONSTANTS
  Stored,        \* what is in the durable log before the behaviour
  Joined,        \* clients whose opening handshake lies before the behaviour
  MaxDrops,      \* bound: how many connections may drop in a behaviour
  MaxFaults,     \* bound: how many handlers may fail in a behaviour
  LoadFails      \* the kinds of frames for which on_load may raise

\* The log was written by this system, so it has no gap.  A client that is
\* through with its handshake holds exactly what is stored.
ASSUME StartAssumption ==
  /\ Stored \subseteq Op /\ Closed(Stored)
  /\ Joined \subseteq Client

\* An insertion is made by one client only, under its own Yjs client id, so that
\* none is around without being in its author's document; and nothing is typed
\* next to a deletion.
ASSUME AuthorAssumption ==
  /\ \A c, d \in Client : c # d => Own[c] \cap Own[d] \subseteq Delete
  /\ \A c, d \in Client :
       (Own[c] \ Delete) \cap (Stored \cup Opened(d, Joined, Stored))
         \subseteq Opened(c, Joined, Stored)
  /\ \A o \in Op : Past[o] \cap Delete = {}

ASSUME BoundsAssumption == MaxDrops \in Nat /\ MaxFaults \in Nat

VARIABLES drops, faults     \* how many of either have happened

vars == <<sessionVars, channelVars, up, down, drops, faults>>

\* Every client is either about to subscribe or through with its handshake.
Init ==
  /\ SessionInit(Joined, Stored)
  /\ ChannelInit(Joined, Stored)
  /\ up = {}
  /\ down = [c \in Client |-> {}]
  /\ drops = 0
  /\ faults = 0

-----------------------------------------------------------------------------
(* The client's connection.                                                *)

\* The provider's subscription is accepted by the server.
Subscribe(c) ==
  /\ SyncSubscribed(c)
  /\ UNCHANGED <<sessionVars, drops, faults>>

\* The provider's connected() callback, once per connection.
Connected(c) ==
  /\ subscribed[c] /\ ~connected[c]
  /\ SessionOnConnect(c)
  /\ UNCHANGED <<channelVars, drops, faults>>

\* The connection drops.  What was on its way to the client is lost; of what
\* was on its way to the server some is lost and the rest, already read off
\* the socket, is handled without anyone to reply to.
Disconnected(c, lost) ==
  /\ drops < MaxDrops
  /\ subscribed[c]
  /\ SessionOnDisconnect(c)
  /\ subscribed' = [subscribed EXCEPT ![c] = FALSE]
  /\ down' = [down EXCEPT ![c] = {}]
  /\ up'   = {Orphan(c, e) : e \in up \ lost}
  /\ jobs' = {Orphan(c, j) : j \in jobs}
  /\ drops' = drops + 1
  /\ UNCHANGED <<store, faults>>

InFlight(c) == {e \in up : e.client = c /\ e.live}

-----------------------------------------------------------------------------
(* The session's and the server's steps.                                   *)

UserEdit(c, o) ==
  Edit(c, o) /\ UNCHANGED <<channelVars, drops, faults>>

Tick(c) ==
  SessionTick(c) /\ UNCHANGED <<channelVars, drops, faults>>

\* received(): one frame of kind k reaches client c.
Receive(c, k) ==
  \E f \in down[c] :
    /\ f.kind = k
    /\ \/ ReceiveAck(c, f)
       \/ ReceiveStep1(c, f)
       \/ ReceiveContent(c, f)
    /\ UNCHANGED <<channelVars, drops, faults>>

\* sync_receive: a frame of kind k from client c reaches worker w.
Handle(w, c, k) ==
  \E e \in up :
    /\ e.client = c /\ e.frame.kind = k
    /\ \/ HandleStep1(e)
       \/ DropFrame(e)
       \/ RejectGap(e)
       \/ AcceptUpdate(w, e)
    /\ UNCHANGED <<sessionVars, drops, faults>>

\* The worker carries on with the frame it is handling.
Work(w) ==
  \E j \in jobs :
    /\ j.worker = w
    /\ RecordChange(j) \/ DistributeChange(j) \/ SendAck(j)
    /\ UNCHANGED <<sessionVars, drops, faults>>

Fail ==
  /\ faults < MaxFaults
  /\ \/ \E j \in jobs : Abort(j)
     \/ \E e \in up : e.frame.kind \in LoadFails /\ LoadRaises(e)
  /\ faults' = faults + 1
  /\ UNCHANGED <<sessionVars, drops>>

ToClient == {"ack", "step1", "step2", "update"}
ToServer == {"step1", "step2", "update"}

Next ==
  \/ \E c \in Client :
       \/ Subscribe(c)
       \/ Connected(c)
       \/ \E lost \in SUBSET InFlight(c) : Disconnected(c, lost)
       \/ \E o \in Op : UserEdit(c, o)
       \/ Tick(c)
       \/ \E k \in ToClient : Receive(c, k)
       \/ \E w \in Worker, k \in ToServer : Handle(w, c, k)
  \/ \E w \in Worker : Work(w)
  \/ Fail

Spec == Init /\ [][Next]_vars

\* The provider keeps reconnecting, a connected socket delivers both ways, the
\* interval fires and a worker finishes what it has begun.  Nobody has to edit,
\* and nothing has to fail.
Fairness ==
  /\ \A c \in Client :
       /\ WF_vars(Subscribe(c))
       /\ WF_vars(Connected(c))
       /\ WF_vars(Tick(c))
       /\ \A k \in ToClient : WF_vars(Receive(c, k))
       /\ \A k \in ToServer : WF_vars(\E w \in Worker : Handle(w, c, k))
  /\ \A w \in Worker : WF_vars(Work(w))

FairSpec == Spec /\ Fairness

-----------------------------------------------------------------------------
(* Properties.                                                             *)

\* The type invariant.
TypeOK ==
  /\ SessionTypeOK
  /\ ChannelTypeOK
  /\ up \subseteq Envelope
  /\ down \in [Client -> SUBSET Frame]
  /\ drops \in Nat
  /\ faults \in Nat

\* The durable log is causally complete at every moment, whatever the order in
\* which workers with stale snapshots record: on_load always rebuilds a document
\* with nothing pending (sync.rb:282-287).
LogGapFree == Closed(store)

\* No edit is lost and nothing is shown that is not recorded: every operation
\* in a client's document is in the durable store, still in that client's queue
\* of unacknowledged updates, or was there before the session.  So an ack prunes
\* only what is durable (sync.rb:172, reliable_sync.ts:108-114) and a broadcast
\* follows its record (sync.rb:298-299), across drops, retries and failures.
NothingLost ==
  \A c \in Client :
    /\ doc[c] \subseteq store \cup Merge(pending[c]) \cup Preloaded[c]
    /\ parked[c] \subseteq store

\* The server never sees a gap inside a queue's deltas: with no content from
\* before the session, the tail that goes out as one merged update is complete
\* against the store whenever it arrives (reliable_sync.ts:2-4).
TailNeverGaps ==
  \A e \in up :
    e.frame.kind = "update" => UpdateReady(store, e.frame.ops)

\* What makes NothingLost and LogGapFree inductive.  An id acknowledges the
\* queue up to it, so wherever an id travels - in a frame going up, in a job, in
\* an ack coming down - every update queued under it or below must travel with
\* it or be durable already.
Covered(c, id, ops) ==
  /\ id < nextSeq[c]
  /\ \A p \in pending[c] : p.seq =< id => p.update \subseteq ops \cup store

FramesCovered ==
  \A e \in up :
    /\ Covered(e.client, e.frame.id, e.frame.ops)
    /\ e.frame.kind \in {"step2", "update"} =>
         e.frame.ops \subseteq doc[e.client] \cup store

JobsCovered ==
  \A j \in jobs :
    /\ Covered(j.client, j.frame.id, j.frame.ops)
    /\ j.frame.ops \subseteq doc[j.client] \cup store
    /\ j.frame.kind \in {"step2", "update"}
    /\ UpdateReady(store, j.frame.ops)
    /\ j.stage # "record" => j.frame.ops \subseteq store

RepliesDurable ==
  \A c \in Client : \A f \in down[c] :
    /\ f.kind = "ack" => Covered(c, f.id, {})
    /\ f.kind \in {"step2", "update"} => f.ops \subseteq store

\* A queue holds nothing its own document does not show.
QueueShown ==
  \A c \in Client : Merge(pending[c]) \subseteq doc[c]

\* The inductive invariant.
SyncInv ==
  /\ TypeOK
  /\ SeqsContiguous
  /\ TimerArmed
  /\ TailComplete
  /\ LogGapFree
  /\ \A c \in Client : Closed(doc[c])
  /\ NothingLost
  /\ QueueShown
  /\ FramesCovered
  /\ JobsCovered
  /\ RepliesDurable

\* The system implements DurableDoc: the store is what is durable, a client's
\* document its view, and its queue what it has not yet been told is durable.
Promise == INSTANCE DurableDoc WITH
  Recorded    <- Stored,
  Seed        <- [c \in Client |-> Opened(c, Joined, Stored)],
  durable     <- store,
  view        <- doc,
  unconfirmed <- [c \in Client |-> Merge(pending[c])]

\* Every step is a step of DurableDoc, or invisible to it: in particular a
\* change is durable before anybody else sees it, and the queue of a client
\* loses an operation only when that operation is durable (sync.rb:257-307,
\* reliable_sync.ts:108-114).
KeepsPromise == Promise!AbsSpec

\* Once edits and failures stop, every client ends with the store's content,
\* nothing parked and nothing unacknowledged.
Converged ==
  \A c \in Client :
    /\ doc[c] = store
    /\ parked[c] = {}
    /\ pending[c] = {}

EventuallyConverged == <>[]Converged

\* c has o, or is sent it, or has asked for what it lacks, or will ask when its
\* connection is back.
OnItsWay(c, o) ==
  \/ ~connected[c]
  \/ o \in doc[c] \cup parked[c]
  \/ \E f \in down[c] : f.kind \in {"step2", "update"} /\ o \in f.ops
  \/ \E e \in up : e.client = c /\ e.live /\ e.frame.kind = "step1"

\* No SyncStep1 of a client has met a failing on_load.
AllAnswered == faults = 0 \/ "step1" \notin LoadFails

\* An update leaves its author's queue only when every connected client has it or
\* is sure to get it: a retry whose record a dead worker left behind is broadcast
\* again before it is acknowledged (sync.rb:257-307).
PrunedIsTold ==
  [][AllAnswered' =>
       \A c, d \in Client : \A o \in Merge(pending[c]) \ Merge(pending[c])' :
         OnItsWay(d, o)']_vars

\* Nothing is on its way or queued, and everybody is connected.
Settled ==
  /\ up = {} /\ jobs = {}
  /\ \A c \in Client : connected[c] /\ down[c] = {} /\ pending[c] = {}

\* Content from before the sessions is queued by nobody: it reaches the store
\* if no handler fails and the cap lets it pass.
OldContentTravels ==
  \/ \A c \in Client : Preloaded[c] = {}
  \/ faults = 0 /\ \A u \in SUBSET Op : ~TooLarge(Cardinality(u), MaxFrameOps)

\* When everything is quiet, all agree: the system never rests in a state where
\* a client lacks what is stored, or the store what a client shows, however
\* frames, drops and failures came before.  Nobody compares documents, so what
\* is missed once in such a state is missed until somebody reconnects
\* (sync.rb:159-165, 257-307, y_protocol_session.ts:115-126).
SettledIsConverged ==
  Settled /\ AllAnswered /\ OldContentTravels => Converged

\* Whatever is queued is acknowledged in the end, even when the store lacks what
\* it builds on: each retransmission of a gapped tail is answered by a SyncStep1,
\* and one complete SyncStep2 heals the gap (sync.rb:159-165, 282-287).
QueuesDrain == \A c \in Client : pending[c] # {} ~> pending[c] = {}
=============================================================================
