------------------------- MODULE ReliableSyncProofs -------------------------
(***************************************************************************)
(* Theorems about the queue of reliable_sync.ts: under every sequence of   *)
(* method calls, with any number of clients, updates and acks.             *)
(***************************************************************************)
EXTENDS ReliableSync, TLAPS

\* The largest sequence number of a consecutive, non-empty queue is the one
\* handed out last (the id of flush, reliable_sync.ts:99).
LEMMA LastSeqIsLatest ==
  ASSUME RSTypeOK, SeqsContiguous, NEW c \in Client, pending[c] # {}
  PROVE  LastSeq(pending[c]) = nextSeq[c] - 1
<1> DEFINE S == {p.seq : p \in pending[c]}
           n == nextSeq[c] - 1
<1>1. n \in Int /\ S \subseteq Nat /\ pending[c] \subseteq Entry
  BY DEF RSTypeOK, Entry
<1>2. n \in S
  <2>1. PICK p \in pending[c] : TRUE
    OBVIOUS
  <2>2. p.seq \in Nat /\ p.seq =< n
    BY <1>1, <2>1 DEF SeqsContiguous, RSTypeOK, Entry
  <2>3. CASE p.seq = n
    BY <2>1, <2>3
  <2>4. CASE p.seq < n
    <3>1. n \in (p.seq + 1) .. (nextSeq[c] - 1)
      BY <2>2, <2>4, <1>1
    <3>2. QED
      BY <3>1, <2>1 DEF SeqsContiguous
  <2>5. QED
    BY <2>2, <2>3, <2>4, <1>1
<1>3. \A p \in pending[c] : p.seq =< n
  BY <1>1 DEF SeqsContiguous, RSTypeOK, Entry
<1>4. \A m \in S : (\A p \in pending[c] : p.seq =< m) => m = n
  BY <1>1, <1>2, <1>3
<1>5. QED
  BY <1>2, <1>3, <1>4 DEF LastSeq

\* What the class owes its caller, as one inductive invariant.
RSInv ==
  /\ RSTypeOK
  /\ SeqsContiguous
  /\ TimerArmed
  /\ \A c \in Client : \A u \in tailCache[c] : u = Merge(pending[c])

\* Any initial state of the class satisfies it.
LEMMA RSInitInv == ASSUME NEW joined PROVE RSInit(joined) => RSInv
  BY DEF RSInit, RSInv, RSTypeOK, SeqsContiguous, TimerArmed, Entry, Merge

\* A flush memoises exactly the merge of the queue it is given.
LEMMA CacheFresh ==
  ASSUME NEW up, NEW q \in SUBSET Entry, NEW cache \in SUBSET (SUBSET Op),
         \A u \in cache : u = Merge(q)
  PROVE  /\ CacheAfterFlush(up, q, cache) \in SUBSET (SUBSET Op)
         /\ \A u \in CacheAfterFlush(up, q, cache) : u = Merge(q)
<1>1. Merge(q) \in SUBSET Op
  BY DEF Merge, Entry
<1>2. MergedTail(q, cache) = Merge(q)
  BY DEF MergedTail
<1>3. QED
  BY <1>1, <1>2 DEF CacheAfterFlush

\* enqueue preserves the invariant: the new entry extends the run of numbers.
LEMMA EnqueueInv ==
  ASSUME RSInv, NEW c \in Client, NEW u \in SUBSET Op, Enqueue(c, u)
  PROVE  RSInv'
<1> DEFINE e == [seq |-> nextSeq[c], update |-> u]
           q == pending[c] \cup {e}
<1> USE DEF RSInv
<1>1. e \in Entry /\ q \in SUBSET Entry
  BY DEF RSTypeOK, Entry
<1>2. /\ CacheAfterFlush(connected[c], q, {}) \in SUBSET (SUBSET Op)
      /\ \A v \in CacheAfterFlush(connected[c], q, {}) : v = Merge(q)
  BY <1>1, CacheFresh
<1>3. RSTypeOK'
  <2>1. pending' \in [Client -> SUBSET Entry]
    BY <1>1 DEF Enqueue, RSTypeOK
  <2>2. nextSeq' \in [Client -> Nat \ {0}]
    BY DEF Enqueue, RSTypeOK
  <2>3. connected' \in [Client -> BOOLEAN] /\ timer' \in [Client -> BOOLEAN]
    BY DEF Enqueue, RSTypeOK
  <2>4. tailCache' \in [Client -> SUBSET (SUBSET Op)]
    BY <1>2 DEF Enqueue, RSTypeOK
  <2>5. QED
    BY <2>1, <2>2, <2>3, <2>4 DEF RSTypeOK
<1>4. SeqsContiguous'
  <2> SUFFICES ASSUME NEW d \in Client
               PROVE  /\ \A p, r \in pending'[d] : p.seq = r.seq => p = r
                      /\ \A p \in pending'[d] :
                           /\ p.seq < nextSeq'[d]
                           /\ \A n \in (p.seq + 1) .. (nextSeq'[d] - 1) :
                                \E r \in pending'[d] : r.seq = n
    BY DEF SeqsContiguous
  <2>1. CASE d # c
    BY <2>1 DEF Enqueue, SeqsContiguous, RSTypeOK
  <2>2. CASE d = c
    <3>1. pending'[d] = q /\ nextSeq'[d] = nextSeq[c] + 1 /\ nextSeq[c] \in Nat
      BY <2>2 DEF Enqueue, RSTypeOK
    <3>2. \A p \in pending[c] : p.seq \in Nat /\ p.seq < nextSeq[c]
      BY DEF SeqsContiguous, RSTypeOK, Entry
    <3>3. \A p, r \in q : p.seq = r.seq => p = r
      <4>1. e.seq = nextSeq[c] /\ \A p \in pending[c] : p.seq # e.seq
        BY <3>1, <3>2
      <4>2. \A p, r \in pending[c] : p.seq = r.seq => p = r
        BY DEF SeqsContiguous
      <4> HIDE DEF e
      <4>3. QED
        BY <4>1, <4>2
    <3>4. ASSUME NEW p \in q
          PROVE  /\ p.seq < nextSeq[c] + 1
                 /\ \A n \in (p.seq + 1) .. nextSeq[c] : \E r \in q : r.seq = n
      <4>1. p.seq \in Nat /\ p.seq < nextSeq[c] + 1
        BY <3>1, <3>2
      <4>2. ASSUME NEW n \in (p.seq + 1) .. nextSeq[c]
            PROVE  \E r \in q : r.seq = n
        <5>1. CASE n = nextSeq[c]
          <6>1. e \in q /\ e.seq = n
            BY <5>1
          <6> HIDE DEF e, q
          <6>2. QED
            BY <6>1
        <5>2. CASE n # nextSeq[c]
          <6>1. p \in pending[c] /\ n \in (p.seq + 1) .. (nextSeq[c] - 1)
            BY <5>2, <4>1, <3>1
          <6>2. QED
            BY <6>1 DEF SeqsContiguous
        <5>3. QED
          BY <5>1, <5>2
      <4>3. QED
        BY <4>1, <4>2
    <3>5. QED
      BY <3>1, <3>3, <3>4
  <2>3. QED
    BY <2>1, <2>2
<1>5. TimerArmed'
  BY <1>1 DEF Enqueue, TimerArmed, RSTypeOK
<1>6. \A d \in Client : \A v \in tailCache'[d] : v = Merge(pending'[d])
  BY <1>2 DEF Enqueue, RSTypeOK
<1>7. QED
  BY <1>3, <1>4, <1>5, <1>6 DEF Merge

\* onAck preserves the invariant: pruning removes a prefix of the run.
LEMMA OnAckInv ==
  ASSUME RSInv, NEW c \in Client, NEW id \in Int, OnAck(c, id)
  PROVE  RSInv'
<1> DEFINE q == {p \in pending[c] : p.seq > id}
<1> USE DEF RSInv
<1>1. CASE Ignored(c, id)
  BY <1>1 DEF OnAck, rsVars, RSTypeOK, SeqsContiguous, TimerArmed, Merge
<1>2. CASE ~Ignored(c, id)
  <2>1. /\ pending' = [pending EXCEPT ![c] = q]
        /\ tailCache' = [tailCache EXCEPT ![c] = {}]
        /\ timer' = [timer EXCEPT ![c] = @ /\ q # {}]
        /\ UNCHANGED <<nextSeq, connected>>
    BY <1>2 DEF OnAck
  <2>2. RSTypeOK'
    BY <2>1 DEF RSTypeOK
  <2>3. SeqsContiguous'
    <3> SUFFICES ASSUME NEW d \in Client
                 PROVE  /\ \A p, r \in pending'[d] : p.seq = r.seq => p = r
                        /\ \A p \in pending'[d] :
                             /\ p.seq < nextSeq'[d]
                             /\ \A n \in (p.seq + 1) .. (nextSeq'[d] - 1) :
                                  \E r \in pending'[d] : r.seq = n
      BY DEF SeqsContiguous
    <3>1. CASE d # c
      BY <3>1, <2>1 DEF SeqsContiguous, RSTypeOK
    <3>2. CASE d = c
      <4>1. pending'[d] = q /\ nextSeq'[d] = nextSeq[c] /\ nextSeq[c] \in Nat
        BY <3>2, <2>1 DEF RSTypeOK
      <4>2. ASSUME NEW p \in q, NEW n \in (p.seq + 1) .. (nextSeq[c] - 1)
            PROVE  \E r \in q : r.seq = n
        <5>1. PICK r \in pending[c] : r.seq = n
          BY DEF SeqsContiguous
        <5>2. p.seq \in Nat /\ n > p.seq /\ p.seq > id
          BY DEF RSTypeOK, Entry
        <5>3. QED
          BY <5>1, <5>2
      <4>3. QED
        BY <4>1, <4>2 DEF SeqsContiguous
    <3>3. QED
      BY <3>1, <3>2
  <2>4. TimerArmed'
    BY <2>1 DEF TimerArmed, RSTypeOK
  <2>5. \A d \in Client : \A v \in tailCache'[d] : v = Merge(pending'[d])
    BY <2>1 DEF RSTypeOK
  <2>6. QED
    BY <2>2, <2>3, <2>4, <2>5 DEF Merge
<1>3. QED
  BY <1>1, <1>2

\* The calls that leave the queue and its numbers as they are.
LEMMA TransportInv ==
  ASSUME RSInv, NEW c \in Client,
         OnConnect(c) \/ OnDisconnect(c) \/ OnTick(c)
  PROVE  RSInv'
<1> USE DEF RSInv
<1>1. \A up : /\ CacheAfterFlush(up, pending[c], tailCache[c])
                    \in SUBSET (SUBSET Op)
              /\ \A v \in CacheAfterFlush(up, pending[c], tailCache[c]) :
                    v = Merge(pending[c])
  BY CacheFresh DEF RSTypeOK
<1>2. UNCHANGED <<pending, nextSeq>>
  BY DEF OnConnect, OnDisconnect, OnTick
<1>3. SeqsContiguous'
  BY <1>2 DEF SeqsContiguous
<1>4. CASE OnConnect(c)
  <2>1. RSTypeOK' /\ TimerArmed'
    BY <1>1, <1>4 DEF OnConnect, RSTypeOK, TimerArmed
  <2>2. \A d \in Client : \A v \in tailCache'[d] : v = Merge(pending'[d])
    BY <1>1, <1>4 DEF OnConnect, RSTypeOK
  <2>3. QED
    BY <2>1, <2>2, <1>3 DEF Merge
<1>5. CASE OnDisconnect(c)
  <2>1. RSTypeOK' /\ TimerArmed'
    BY <1>5 DEF OnDisconnect, RSTypeOK, TimerArmed
  <2>2. \A d \in Client : \A v \in tailCache'[d] : v = Merge(pending'[d])
    BY <1>5 DEF OnDisconnect
  <2>3. QED
    BY <2>1, <2>2, <1>3 DEF Merge
<1>6. CASE OnTick(c)
  <2>1. RSTypeOK' /\ TimerArmed'
    BY <1>1, <1>6 DEF OnTick, RSTypeOK, TimerArmed
  <2>2. \A d \in Client : \A v \in tailCache'[d] : v = Merge(pending'[d])
    BY <1>1, <1>6 DEF OnTick, RSTypeOK
  <2>3. QED
    BY <2>1, <2>2, <1>3 DEF Merge
<1>7. QED
  BY <1>4, <1>5, <1>6

\* destroy empties the queue and stops the timer together.
LEMMA DestroyInv ==
  ASSUME RSInv, NEW c \in Client, Destroy(c)
  PROVE  RSInv'
  BY DEF RSInv, Destroy, RSTypeOK, SeqsContiguous, TimerArmed, Merge

\* A step that leaves the class alone.
LEMMA RSStutterInv == RSInv /\ UNCHANGED rsVars => RSInv'
  BY DEF RSInv, rsVars, RSTypeOK, SeqsContiguous, TimerArmed, Merge

\* The invariant holds under every sequence of calls.
LEMMA RSInvariance == RSSpec => []RSInv
<1>1. RSInit({}) => RSInv
  BY RSInitInv
<1>2. RSInv /\ [RSNext]_rsVars => RSInv'
  <2> SUFFICES ASSUME RSInv, [RSNext]_rsVars PROVE RSInv'
    OBVIOUS
  <2>1. ASSUME NEW c \in Client, NEW u \in SUBSET Op, Enqueue(c, u)
        PROVE  RSInv'
    BY <2>1, EnqueueInv
  <2>2. ASSUME NEW c \in Client, NEW id \in Nat \cup {-1}, OnAck(c, id)
        PROVE  RSInv'
    BY <2>2, OnAckInv
  <2>3. ASSUME NEW c \in Client, OnConnect(c) \/ OnDisconnect(c) \/ OnTick(c)
        PROVE  RSInv'
    BY <2>3, TransportInv
  <2>4. ASSUME NEW c \in Client, Destroy(c)
        PROVE  RSInv'
    BY <2>4, DestroyInv
  <2>5. CASE UNCHANGED rsVars
    BY <2>5, RSStutterInv
  <2>6. QED
    BY <2>1, <2>2, <2>3, <2>4, <2>5 DEF RSNext
<1>3. QED
  BY <1>1, <1>2, PTL DEF RSSpec

\* The state of the class stays well typed (reliable_sync.ts:42-57).
THEOREM RSTypeCorrect == RSSpec => []RSTypeOK
<1>1. RSInv => RSTypeOK
  BY DEF RSInv
<1>2. QED
  BY <1>1, RSInvariance, PTL

\* The queue is a run of consecutive numbers ending just below the next one, so
\* one cumulative ack can cover it (reliable_sync.ts:85-114).
THEOREM QueueContiguous == RSSpec => []SeqsContiguous
<1>1. RSInv => SeqsContiguous
  BY DEF RSInv
<1>2. QED
  BY <1>1, RSInvariance, PTL

\* The retransmit interval runs exactly while it has work (#startTimer and
\* #stopTimer, reliable_sync.ts:155-165).
THEOREM RetransmitArmed == RSSpec => []TimerArmed
<1>1. RSInv => TimerArmed
  BY DEF RSInv
<1>2. QED
  BY <1>1, RSInvariance, PTL

\* The cached or computed tail, and the number it goes out under.
LEMMA RSInvTail == RSInv => TailComplete
<1> SUFFICES ASSUME RSInv, NEW c \in Client
             PROVE  /\ \A u \in tailCache[c] : u = Merge(pending[c])
                    /\ \A f \in Flushed(c) : /\ f.update = Merge(pending[c])
                                             /\ f.id = nextSeq[c] - 1
  BY DEF TailComplete
<1>1. MergedTail(pending[c], tailCache[c]) = Merge(pending[c])
  BY DEF RSInv, MergedTail
<1>2. pending[c] # {} => LastSeq(pending[c]) = nextSeq[c] - 1
  BY LastSeqIsLatest DEF RSInv
<1>3. QED
  BY <1>1, <1>2 DEF RSInv, Flushed

\* What a flush transmits is the merge of the whole unacknowledged tail under
\* its highest number (reliable_sync.ts:97-100).
THEOREM FlushedTailComplete == RSSpec => []TailComplete
  BY RSInvTail, RSInvariance, PTL
=============================================================================
