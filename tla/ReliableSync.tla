---------------------------- MODULE ReliableSync ----------------------------
(***************************************************************************)
(* The reliable-delivery queue of the browser client:                      *)
(* packages/client/src/reliable_sync.ts.  Each client owns one ReliableSync*)
(* object; the variables are functions of the client, and every action is  *)
(* one method of the class.  JavaScript runs a method to completion, so a  *)
(* method is one step.                                                     *)
(*                                                                         *)
(* An update is a set of document operations and merge(updates) is their   *)
(* union: Y.mergeUpdates loses nothing and duplicates nothing.  The queue  *)
(* is an array in the code; its elements carry increasing sequence numbers *)
(* and are only pushed at the end or filtered, so it is a set of records   *)
(* here and "the last element" is the one with the highest number.         *)
(***************************************************************************)
EXTENDS CausalDoc

VARIABLES
  pending,       \* pending[c]: unacknowledged local updates, [seq, update]
  nextSeq,       \* nextSeq[c]: the sequence number of the next local update
  connected,     \* connected[c]: the transport is up
  timer,         \* timer[c]: a retransmit interval is running
  tailCache      \* tailCache[c]: {} when undefined, {u} when u is memoised

rsVars == <<pending, nextSeq, connected, timer, tailCache>>

Entry == [seq : Nat \ {0}, update : SUBSET Op]

-----------------------------------------------------------------------------
(* Reading the queue.                                                      *)

\* merge(pending.map(p => p.update))
Merge(q) == UNION {p.update : p \in q}

\* pending[pending.length - 1].seq
LastSeq(q) == CHOOSE n \in {p.seq : p \in q} : \A p \in q : p.seq =< n

\* The value #mergedTail() returns: the memoised merge when there is one.
MergedTail(q, cache) ==
  IF cache = {} THEN Merge(q) ELSE CHOOSE u \in cache : TRUE

\* What flush() leaves in #tailCache.
CacheAfterFlush(up, q, cache) ==
  IF up /\ q # {} THEN {MergedTail(q, cache)} ELSE cache

\* What flush() passes to send(update, id): nothing while disconnected or with
\* an empty queue.  flush() changes neither of these, so an action that ends in
\* a flush has transmitted Flushed(c)' .
Flushed(c) ==
  IF connected[c] /\ pending[c] # {}
    THEN {[update |-> MergedTail(pending[c], tailCache[c]),
           id     |-> LastSeq(pending[c])]}
    ELSE {}

-----------------------------------------------------------------------------
\* Mutant: sequence numbers from zero, which an ack envelope cannot tell from none.
InitFromZero(joined) ==
  /\ pending   = [c \in Client |-> {}]
  /\ nextSeq   = [c \in Client |-> 0]
  /\ connected = [c \in Client |-> c \in joined]
  /\ timer     = [c \in Client |-> FALSE]
  /\ tailCache = [c \in Client |-> {}]

\* A new object, or one whose transport is already up.
RSInit(joined) ==
  /\ pending   = [c \in Client |-> {}]
  /\ nextSeq   = [c \in Client |-> 1]
  /\ connected = [c \in Client |-> c \in joined]
  /\ timer     = [c \in Client |-> FALSE]
  /\ tailCache = [c \in Client |-> {}]

\* Mutant: the memoised tail survives a new edit.
EnqueueStale(c, u) ==
  LET q == pending[c] \cup {[seq |-> nextSeq[c], update |-> u]} IN
  /\ pending'   = [pending EXCEPT ![c] = q]
  /\ nextSeq'   = [nextSeq EXCEPT ![c] = @ + 1]
  /\ timer'     = [timer EXCEPT ![c] = @ \/ connected[c]]
  /\ tailCache' = [tailCache EXCEPT ![c] = CacheAfterFlush(connected[c], q, @)]
  /\ UNCHANGED connected

\* enqueue(update): push, drop the memoised tail, arm the timer, flush.
Enqueue(c, u) ==
  LET q == pending[c] \cup {[seq |-> nextSeq[c], update |-> u]} IN
  /\ pending'   = [pending EXCEPT ![c] = q]
  /\ nextSeq'   = [nextSeq EXCEPT ![c] = @ + 1]
  /\ timer'     = [timer EXCEPT ![c] = @ \/ connected[c]]
  /\ tailCache' = [tailCache EXCEPT ![c] = CacheAfterFlush(connected[c], q, {})]
  /\ UNCHANGED connected

\* The acks onAck ignores: not a safe non-negative integer, or beyond the last
\* queued sequence number (an empty queue has no last number to compare with).
Ignored(c, id) ==
  \/ id \notin Nat
  \/ pending[c] # {} /\ id > LastSeq(pending[c])

\* Mutant: an ack is not cumulative.
AckOne(c, id) ==
  LET q == {p \in pending[c] : p.seq # id} IN
  IF Ignored(c, id)
    THEN UNCHANGED rsVars
    ELSE /\ pending'   = [pending EXCEPT ![c] = q]
         /\ tailCache' = [tailCache EXCEPT ![c] = {}]
         /\ timer'     = [timer EXCEPT ![c] = @ /\ q # {}]
         /\ UNCHANGED <<nextSeq, connected>>

\* Mutant: the interval outlives the last update it is there for.
AckKeepsTimer(c, id) ==
  /\ pending'   = [pending EXCEPT ![c] = IF Ignored(c, id) THEN @
                                         ELSE {p \in @ : p.seq > id}]
  /\ tailCache' = [tailCache EXCEPT ![c] = {}]
  /\ UNCHANGED <<nextSeq, connected, timer>>

\* onAck(id): prune up to id, drop the memoised tail, stop an idle timer.
OnAck(c, id) ==
  LET q == {p \in pending[c] : p.seq > id} IN
  IF Ignored(c, id)
    THEN UNCHANGED rsVars
    ELSE /\ pending'   = [pending EXCEPT ![c] = q]
         /\ tailCache' = [tailCache EXCEPT ![c] = {}]
         /\ timer'     = [timer EXCEPT ![c] = @ /\ q # {}]
         /\ UNCHANGED <<nextSeq, connected>>

\* onConnect(): replay the unacknowledged tail, resume retransmits.
OnConnect(c) ==
  /\ connected' = [connected EXCEPT ![c] = TRUE]
  /\ tailCache' = [tailCache EXCEPT ![c] = CacheAfterFlush(TRUE, pending[c], @)]
  /\ timer'     = [timer EXCEPT ![c] = @ \/ pending[c] # {}]
  /\ UNCHANGED <<pending, nextSeq>>

\* Mutant: the queue dies with the connection.
DisconnectForgets(c) ==
  /\ connected' = [connected EXCEPT ![c] = FALSE]
  /\ timer'     = [timer EXCEPT ![c] = FALSE]
  /\ pending'   = [pending EXCEPT ![c] = {}]
  /\ tailCache' = [tailCache EXCEPT ![c] = {}]
  /\ UNCHANGED nextSeq

\* onDisconnect(): keep the queue, pause the timer.
OnDisconnect(c) ==
  /\ connected' = [connected EXCEPT ![c] = FALSE]
  /\ timer'     = [timer EXCEPT ![c] = FALSE]
  /\ UNCHANGED <<pending, nextSeq, tailCache>>

\* onTick(), from the running interval: retransmit the unacknowledged tail.
OnTick(c) ==
  /\ timer[c]
  /\ tailCache' = [tailCache EXCEPT
                     ![c] = CacheAfterFlush(connected[c], pending[c], @)]
  /\ UNCHANGED <<pending, nextSeq, connected, timer>>

\* destroy(): stop the timer and drop the queue.
Destroy(c) ==
  /\ connected' = [connected EXCEPT ![c] = FALSE]
  /\ timer'     = [timer EXCEPT ![c] = FALSE]
  /\ pending'   = [pending EXCEPT ![c] = {}]
  /\ tailCache' = [tailCache EXCEPT ![c] = {}]
  /\ UNCHANGED nextSeq

-----------------------------------------------------------------------------
(* The class on its own: any method may be called at any time, in any      *)
(* order, and onAck with any value the wire can carry (-1 stands for every *)
(* value that is not a non-negative integer).                              *)

RSNext ==
  \E c \in Client :
    \/ \E u \in SUBSET Op : Enqueue(c, u)
    \/ \E id \in Nat \cup {-1} : OnAck(c, id)
    \/ OnConnect(c)
    \/ OnDisconnect(c)
    \/ OnTick(c)
    \/ Destroy(c)

RSSpec == RSInit({}) /\ [][RSNext]_rsVars

\* The type invariant of the queue (reliable_sync.ts:42-57).
RSTypeOK ==
  /\ pending   \in [Client -> SUBSET Entry]
  /\ nextSeq   \in [Client -> Nat \ {0}]
  /\ connected \in [Client -> BOOLEAN]
  /\ timer     \in [Client -> BOOLEAN]
  /\ tailCache \in [Client -> SUBSET (SUBSET Op)]

\* The queue holds consecutive sequence numbers that end just below nextSeq:
\* the cumulative ack of #flush's id really covers the whole tail, and pruning
\* (onAck) only ever removes a prefix.
SeqsContiguous ==
  \A c \in Client :
    /\ \A p, q \in pending[c] : p.seq = q.seq => p = q
    /\ \A p \in pending[c] :
         /\ p.seq < nextSeq[c]
         /\ \A n \in (p.seq + 1) .. (nextSeq[c] - 1) :
              \E q \in pending[c] : q.seq = n

\* The retransmit interval runs exactly while there is something to retransmit
\* and a transport to send it on, whatever order the methods are called in: a
\* leaked interval keeps firing for ever, a missing one strands the tail
\* (#startTimer / #stopTimer, reliable_sync.ts:155-165).
TimerArmed ==
  \A c \in Client : timer[c] <=> (connected[c] /\ pending[c] # {})

\* The memoised tail is never stale: what a flush transmits is the merge of
\* every unacknowledged update, under the sequence number that acknowledges all
\* of them (reliable_sync.ts:55-57, 97-100, 147-153).
TailComplete ==
  \A c \in Client :
    /\ \A u \in tailCache[c] : u = Merge(pending[c])
    /\ \A f \in Flushed(c) :
         /\ f.update = Merge(pending[c])
         /\ f.id = nextSeq[c] - 1
=============================================================================
