--------------------------- MODULE ScenarioProofs ---------------------------
(***************************************************************************)
(* Theorems about the demo's scripts in every timing: with any number of   *)
(* workers, any cap on frames, and any clients and operations beside those *)
(* of the scripts.                                                         *)
(***************************************************************************)
EXTENDS DemoScenarios, ReliableSyncProofs, WellFoundedInduction

-----------------------------------------------------------------------------
(* The scripts.                                                            *)

Cast == {"a", "b", "c"}

\* What a step does; a fault of the store is nobody's in particular.
StoreFault == {"slow", "quick", "fail"}
Doing == {"open", "close", "kill", "rejoin", "handshake", "noise", "edit",
          "black", "lossy", "clean", "fork", "await", "check"}
Fact == {"nothing", "joined", "synced", "settled", "has", "lacks", "stored",
         "unstored", "drained", "pending", "equal", "replays", "finished"}

StepType ==
  {s \in [do   : Doing \cup StoreFault,
          fact : Fact,
          cs   : SUBSET Cast,
          ops  : SUBSET ScenarioOp] : s.do \in StoreFault => s.cs = {}}

\* A script's threads are sequences of such steps, and its clients have one of
\* three kinds of queue.
WellMade(s) ==
  /\ s.threads \in Seq(Seq(StepType))
  /\ s.profile.queue \in {"none", "each", "tail"}

\* The words of the scripts, one by one, for the leaves below.
LEMMA Words ==
  /\ "open" \in Doing /\ "close" \in Doing /\ "kill" \in Doing
  /\ "rejoin" \in Doing /\ "handshake" \in Doing /\ "noise" \in Doing
  /\ "edit" \in Doing /\ "black" \in Doing /\ "lossy" \in Doing
  /\ "clean" \in Doing /\ "fork" \in Doing /\ "await" \in Doing /\ "check" \in Doing
  /\ "slow" \in StoreFault /\ "quick" \in StoreFault /\ "fail" \in StoreFault
  /\ "nothing" \in Fact /\ "joined" \in Fact /\ "synced" \in Fact
  /\ "settled" \in Fact /\ "has" \in Fact /\ "lacks" \in Fact
  /\ "stored" \in Fact /\ "unstored" \in Fact /\ "drained" \in Fact
  /\ "pending" \in Fact /\ "equal" \in Fact /\ "replays" \in Fact
  /\ "finished" \in Fact
  BY DEF Doing, StoreFault, Fact

\* The groups of clients the scripts speak of.
LEMMA Casts ==
  /\ "a" \in Cast /\ "b" \in Cast /\ "c" \in Cast
  /\ {} \in SUBSET Cast /\ {"a"} \in SUBSET Cast /\ {"b"} \in SUBSET Cast
  /\ {"c"} \in SUBSET Cast /\ {"a", "b"} \in SUBSET Cast
  /\ {"a", "c"} \in SUBSET Cast
  BY DEF Cast

\* The groups of edits the scripts speak of.
LEMMA EditsMade ==
  /\ "o1" \in ScenarioOp /\ "o2" \in ScenarioOp /\ "o3" \in ScenarioOp
  /\ "p1" \in ScenarioOp /\ "r1" \in ScenarioOp
  /\ {} \in SUBSET ScenarioOp /\ {"o1"} \in SUBSET ScenarioOp
  /\ {"o2"} \in SUBSET ScenarioOp /\ {"r1"} \in SUBSET ScenarioOp
  /\ {"o1", "r1"} \in SUBSET ScenarioOp /\ {"o1", "p1"} \in SUBSET ScenarioOp
  /\ {"o1", "o2"} \in SUBSET ScenarioOp
  /\ {"o1", "o2", "o3"} \in SUBSET ScenarioOp
  /\ {"o1", "o2", "p1"} \in SUBSET ScenarioOp
  /\ {"o1", "p1", "o2"} \in SUBSET ScenarioOp
  BY DEF ScenarioOp

\* Every way to write a step makes one.
LEMMA StepsTyped ==
  /\ \A c \in Cast, o \in ScenarioOp : Edits(c, o) \in StepType
  /\ \A f \in Fact, cs \in SUBSET Cast, ops \in SUBSET ScenarioOp :
       Await(f, cs, ops) \in StepType /\ Check(f, cs, ops) \in StepType
  /\ \A do \in Doing, cs \in SUBSET Cast : Go(do, cs) \in StepType
  /\ \A do \in StoreFault : Go(do, {}) \in StepType
<1>1. ASSUME NEW do \in Doing, NEW f \in Fact, NEW cs \in SUBSET Cast,
             NEW ops \in SUBSET ScenarioOp
      PROVE  Step(do, f, cs, ops) \in StepType
  BY DEF Step, StepType, Doing, StoreFault
<1>2. ASSUME NEW do \in StoreFault, NEW f \in Fact
      PROVE  Step(do, f, {}, {}) \in StepType
  BY DEF Step, StepType
<1>3. \A c \in Cast, o \in ScenarioOp : Edits(c, o) \in StepType
  <2> SUFFICES ASSUME NEW c \in Cast, NEW o \in ScenarioOp
               PROVE  Step("edit", "nothing", {c}, {o}) \in StepType
    BY DEF Edits
  <2>1. {c} \in SUBSET Cast /\ {o} \in SUBSET ScenarioOp
    OBVIOUS
  <2>2. QED
    BY <1>1, <2>1, Words
<1>4. QED
  BY <1>1, <1>2, <1>3, Words, Casts, EditsMade DEF Await, Check, Go

\* Opening sockets, and one stretch of a script after another.
LEMMA StretchesTyped ==
  /\ \A cs \in SUBSET Cast : Open(cs) \in Seq(StepType)
  /\ \A s, t \in Seq(StepType) : s \o t \in Seq(StepType)
<1>1. ASSUME NEW cs \in SUBSET Cast PROVE Open(cs) \in Seq(StepType)
  <2>1. Go("open", cs) \in StepType /\ Await("joined", cs, {}) \in StepType
    BY StepsTyped, Words, EditsMade
  <2>2. QED
    BY <2>1 DEF Open
<1>2. QED
  BY <1>1

\* Every script is well made (the scripts of frontend/*.mjs).
LEMMA ScriptsWellMade == \A s \in Scripts : WellMade(s)
<1> USE StepsTyped, StretchesTyped, Words, Casts, EditsMade
        DEF WellMade, Script, Profile, Settle
<1>1. WellMade(E2E)
  BY DEF E2E, E2EClient
<1>2. WellMade(SlowStore)
  BY DEF SlowStore, ScenarioClient
<1>3. WellMade(StoreFailure)
  BY DEF StoreFailure, ScenarioClient
<1>4. WellMade(SelfHeal)
  BY DEF SelfHeal, ScenarioClient
<1>5. WellMade(OfflineCatchUp)
  BY DEF OfflineCatchUp, ScenarioClient
<1>6. WellMade(Audit)
  BY DEF Audit, AuditClient
<1>7. WellMade(Multiprocess)
  BY DEF Multiprocess, MultiprocessClient
<1>8. WellMade(CrashRecovery)
  BY DEF CrashRecovery, CrashClient
<1>9. WellMade(Chaos)
  BY DEF Chaos, ChaosClient, Barrage
<1>10. WellMade(Stress)
  BY DEF Stress, StressClient
<1>11. WellMade(AnyCableSlowStore)
  BY DEF AnyCableSlowStore, AnyCableClient
<1>12. WellMade(AnyCableFailure)
  BY DEF AnyCableFailure, AnyCableClient
<1>13. WellMade(Reliable)
  BY DEF Reliable, ReliableClient
<1>14. WellMade(ReliableProvider)
  BY DEF ReliableProvider, RawConsumer
<1>15. WellMade(ReliableStress)
  BY DEF ReliableStress, LossyConsumer
<1>16. QED
  BY <1>1, <1>2, <1>3, <1>4, <1>5, <1>6, <1>7, <1>8,
     <1>9, <1>10, <1>11, <1>12, <1>13, <1>14, <1>15
  DEF Scripts

-----------------------------------------------------------------------------
(* The invariant.                                                          *)

\* Every number in a queue has been handed out: whichever of the two kinds of
\* queue it is, the next number is new (the clients' seq counters).
QueuesBelow == \A c \in Client : \A p \in pending[c] : p.seq < nextSeq[c]

\* Each thread of the script has its place.
Placed == pc \in [DOMAIN script.threads -> Nat]

\* Record before broadcast, wherever content is: with a client, parked there, on
\* its way down, or with a worker that is past the record.
StoredFirst ==
  /\ SeenOnlyStored
  /\ \A c \in Client : parked[c] \subseteq store
  /\ \A c \in Client : \A f \in down[c] :
       f.kind \in {"step2", "update"} => f.ops \subseteq store
  /\ \A j \in jobs : j.stage # "record" => j.frame.ops \subseteq store

\* Clients without a queue have nothing in it.
Queueless == profile.queue = "none" => \A c \in Client : pending[c] = {}

ScenarioInv == ScenarioTypeOK /\ QueuesBelow /\ Placed /\ Queueless /\ StoredFirst

\* A bounded set of numbers has a largest one.
LEMMA LargestExists ==
  ASSUME NEW S \in SUBSET Nat, S # {}, NEW n \in Nat, \A m \in S : m < n
  PROVE  \E m \in S : \A k \in S : k =< m
<1> DEFINE T == {n - m : m \in S}
<1>1. T \subseteq Nat /\ T # {}
  <2>1. ASSUME NEW m \in S PROVE n - m \in Nat
    <3>1. m \in Nat /\ m < n
      OBVIOUS
    <3>2. QED
      BY <3>1
  <2>2. QED
    BY <2>1
<1>2. PICK x \in T : \A y \in T : ~(<<y, x>> \in OpToRel(<, Nat))
  BY <1>1, WFMin, NatLessThanWellFounded
<1>3. PICK m \in S : x = n - m
  OBVIOUS
<1>4. ASSUME NEW k \in S PROVE k =< m
  <2>1. n - k \in T /\ n - k \in Nat /\ x \in Nat
    BY <1>1
  <2>2. ~(n - k < x)
    BY <1>2, <2>1 DEF OpToRel
  <2>3. QED
    BY <2>2, <1>3
<1>5. QED
  BY <1>4

\* So what a flush sends is an update of the document with a number of the queue.
LEMMA FlushTyped ==
  ASSUME RSTypeOK, QueuesBelow, NEW c \in Client
  PROVE  UpdateFrames(c) \subseteq Frame
<1> SUFFICES ASSUME connected[c], pending[c] # {}
             PROVE  Update(MergedTail(pending[c], tailCache[c]), LastSeq(pending[c]))
                      \in Frame
  BY DEF UpdateFrames, Flushed
<1> DEFINE S == {p.seq : p \in pending[c]}
<1>1. S \in SUBSET Nat /\ S # {} /\ nextSeq[c] \in Nat /\ \A m \in S : m < nextSeq[c]
  BY DEF RSTypeOK, Entry, QueuesBelow
<1>2. \E m \in S : \A k \in S : k =< m
  BY <1>1, LargestExists
<1>3. LastSeq(pending[c]) \in Nat
  BY <1>1, <1>2 DEF LastSeq
<1>4. MergedTail(pending[c], tailCache[c]) \in SUBSET Op
  BY DEF MergedTail, Merge, RSTypeOK, Entry
<1>5. QED
  BY <1>3, <1>4 DEF Update, Frame

-----------------------------------------------------------------------------
(* The queues.                                                             *)

QueuesOK == RSTypeOK /\ QueuesBelow

\* What a flush memoises is content of the document.
LEMMA CacheTyped ==
  ASSUME NEW b, NEW q \in SUBSET Entry, NEW cache \in SUBSET (SUBSET Op)
  PROVE  CacheAfterFlush(b, q, cache) \in SUBSET (SUBSET Op)
<1>1. MergedTail(q, cache) \in SUBSET Op
  BY DEF MergedTail, Merge, Entry
<1>2. QED
  BY <1>1 DEF CacheAfterFlush

\* enqueue: the new entry has the next number.
LEMMA EnqueueQueuesOK ==
  ASSUME QueuesOK, NEW c \in Client, NEW u \in SUBSET Op, Enqueue(c, u)
  PROVE  QueuesOK'
<1> DEFINE e == [seq |-> nextSeq[c], update |-> u]
           q == pending[c] \cup {e}
<1>1. e \in Entry /\ q \in SUBSET Entry
  BY DEF QueuesOK, RSTypeOK, Entry
<1>2. CacheAfterFlush(connected[c], q, {}) \in SUBSET (SUBSET Op)
  BY <1>1, CacheTyped
<1>3. RSTypeOK'
  <2>1. pending' \in [Client -> SUBSET Entry] /\ nextSeq' \in [Client -> Nat \ {0}]
    BY <1>1 DEF Enqueue, QueuesOK, RSTypeOK
  <2>2. connected' \in [Client -> BOOLEAN] /\ timer' \in [Client -> BOOLEAN]
    BY DEF Enqueue, QueuesOK, RSTypeOK
  <2>3. tailCache' \in [Client -> SUBSET (SUBSET Op)]
    BY <1>2 DEF Enqueue, QueuesOK, RSTypeOK
  <2>4. QED
    BY <2>1, <2>2, <2>3 DEF RSTypeOK
<1>4. ASSUME NEW d \in Client, NEW p \in pending'[d] PROVE p.seq < nextSeq'[d]
  <2>1. CASE p \in pending[d]
    <3>1. p.seq \in Nat /\ p.seq < nextSeq[d] /\ nextSeq[d] \in Nat
      BY <2>1 DEF QueuesOK, QueuesBelow, RSTypeOK, Entry
    <3>2. nextSeq'[d] \in {nextSeq[d], nextSeq[d] + 1}
      BY DEF Enqueue, QueuesOK, RSTypeOK
    <3>3. QED
      BY <3>1, <3>2
  <2>2. CASE p \notin pending[d]
    <3>1. d = c /\ p = e
      BY <2>2 DEF Enqueue, QueuesOK, RSTypeOK
    <3>2. nextSeq'[d] = nextSeq[c] + 1 /\ nextSeq[c] \in Nat
      BY <3>1 DEF Enqueue, QueuesOK, RSTypeOK
    <3>3. QED
      BY <3>1, <3>2
  <2>3. QED
    BY <2>1, <2>2
<1>5. QED
  BY <1>3, <1>4 DEF QueuesOK, QueuesBelow

\* A queue that only loses entries, whatever becomes of its transport.
LEMMA ShrinkQueuesOK ==
  ASSUME QueuesOK,
         pending' \in [Client -> SUBSET Entry],
         connected' \in [Client -> BOOLEAN],
         timer' \in [Client -> BOOLEAN],
         tailCache' \in [Client -> SUBSET (SUBSET Op)],
         nextSeq' = nextSeq,
         \A c \in Client : pending'[c] \subseteq pending[c]
  PROVE  QueuesOK'
  BY DEF QueuesOK, QueuesBelow, RSTypeOK

\* onAck, onConnect and onTick.
LEMMA TransportQueuesOK ==
  ASSUME QueuesOK, NEW c \in Client,
         \/ \E id \in Nat : OnAck(c, id)
         \/ OnConnect(c)
         \/ OnTick(c)
  PROVE  QueuesOK'
<1> USE DEF QueuesOK, RSTypeOK
<1>1. ASSUME NEW id \in Nat, OnAck(c, id) PROVE QueuesOK'
  <2>1. CASE UNCHANGED rsVars
    BY <2>1 DEF rsVars, QueuesBelow
  <2>2. CASE ~UNCHANGED rsVars
    <3>1. /\ pending' = [pending EXCEPT ![c] = {p \in pending[c] : p.seq > id}]
          /\ tailCache' = [tailCache EXCEPT ![c] = {}]
          /\ timer' \in [Client -> BOOLEAN]
          /\ UNCHANGED <<nextSeq, connected>>
      BY <2>2, <1>1 DEF OnAck
    <3>2. QED
      BY <3>1, ShrinkQueuesOK
  <2>3. QED
    BY <2>1, <2>2
<1>2. \A b : CacheAfterFlush(b, pending[c], tailCache[c]) \in SUBSET (SUBSET Op)
  BY CacheTyped
<1>3. CASE OnConnect(c)
  <2>1. tailCache' \in [Client -> SUBSET (SUBSET Op)]
    BY <1>2, <1>3 DEF OnConnect
  <2>2. connected' \in [Client -> BOOLEAN] /\ timer' \in [Client -> BOOLEAN]
    BY <1>3 DEF OnConnect
  <2>3. QED
    BY <2>1, <2>2, <1>3, ShrinkQueuesOK DEF OnConnect
<1>4. CASE OnTick(c)
  <2>1. tailCache' \in [Client -> SUBSET (SUBSET Op)]
    BY <1>2, <1>4 DEF OnTick
  <2>2. QED
    BY <2>1, <1>4, ShrinkQueuesOK DEF OnTick
<1>5. QED
  BY <1>1, <1>3, <1>4

-----------------------------------------------------------------------------
(* The parts of a step.                                                    *)

CableTyped ==
  /\ up \subseteq Envelope
  /\ down \in [Client -> SUBSET Frame]

ScriptTyped ==
  /\ script \in Scripts
  /\ \A t \in DOMAIN pc : pc[t] \in 1 .. Len(script.threads[t]) + 1
  /\ opened \subseteq Client
  /\ network \in [Client -> {"clean", "lossy", "black"}]
  /\ {forked, slow, failNext} \subseteq BOOLEAN
  /\ Placed

\* The invariant in parts.
LEMMA Parts ==
  ScenarioInv <=> /\ QueuesOK
                  /\ doc \in [Client -> SUBSET Op]
                  /\ parked \in [Client -> SUBSET Op]
                  /\ synced \in [Client -> BOOLEAN]
                  /\ ChannelTypeOK /\ CableTyped /\ ScriptTyped
                  /\ Queueless /\ StoredFirst
  BY DEF ScenarioInv, ScenarioTypeOK, SessionTypeOK, QueuesOK, CableTyped, ScriptTyped

\* A step answers only for what it adds: the store grows, and content is shown,
\* parked, sent down or handed past the record only when it is stored.
LEMMA Assemble ==
  ASSUME ScenarioInv,
         QueuesOK',
         doc' \in [Client -> SUBSET Op],
         parked' \in [Client -> SUBSET Op],
         synced' \in [Client -> BOOLEAN],
         ChannelTypeOK', CableTyped', ScriptTyped', Queueless',
         script' = script, store \subseteq store',
         \A c \in Client : doc'[c] \subseteq doc[c] \cup Typed(c) \cup store',
         \A c \in Client : parked'[c] \subseteq parked[c] \cup store',
         \A c \in Client : \A f \in down'[c] :
           \/ f \in down[c]
           \/ f.kind \in {"step1", "ack"}
           \/ f.ops \subseteq store',
         \A j \in jobs' :
           \/ j.stage = "record"
           \/ \E i \in jobs : i.stage # "record" /\ i.frame = j.frame
           \/ j.frame.ops \subseteq store'
  PROVE  ScenarioInv'
<1>1. StoredFirst
  BY Parts
<1>2. \A c \in Client : doc'[c] \ Typed(c)' \subseteq store'
  <2>1. \A c : Typed(c)' = Typed(c)
    BY DEF Typed
  <2>2. \A c \in Client : doc[c] \ Typed(c) \subseteq store
    BY <1>1 DEF StoredFirst, SeenOnlyStored
  <2>3. QED
    BY <2>1, <2>2
<1>3. \A c \in Client : parked'[c] \subseteq store'
  BY <1>1 DEF StoredFirst
<1>4. ASSUME NEW c \in Client, NEW f \in down'[c], f.kind \in {"step2", "update"}
      PROVE  f.ops \subseteq store'
  <2>1. f \in down[c] => f.ops \subseteq store
    BY <1>1, <1>4 DEF StoredFirst
  <2>2. f.kind \notin {"step1", "ack"}
    BY <1>4
  <2>3. QED
    BY <2>1, <2>2
<1>5. ASSUME NEW j \in jobs', j.stage # "record" PROVE j.frame.ops \subseteq store'
  <2>1. \A i \in jobs : i.stage # "record" => i.frame.ops \subseteq store
    BY <1>1 DEF StoredFirst
  <2>2. QED
    BY <2>1, <1>5
<1>6. StoredFirst'
  BY <1>2, <1>3, <1>4, <1>5 DEF StoredFirst, SeenOnlyStored
<1>7. QED
  BY <1>6 DEF ScenarioInv, ScenarioTypeOK, SessionTypeOK, QueuesOK, CableTyped,
              ScriptTyped

\* A step of a client: the server and the script look on.
LEMMA ClientStep ==
  ASSUME ScenarioInv, UNCHANGED <<channelVars, scriptVars>>,
         QueuesOK', CableTyped', Queueless',
         doc' \in [Client -> SUBSET Op],
         parked' \in [Client -> SUBSET Op],
         synced' \in [Client -> BOOLEAN],
         \A c \in Client : doc'[c] \subseteq doc[c] \cup store,
         \A c \in Client : parked'[c] \subseteq parked[c] \cup store,
         \A c \in Client : down'[c] \subseteq down[c]
  PROVE  ScenarioInv'
<1>1. ChannelTypeOK' /\ ScriptTyped' /\ store' = store /\ jobs' = jobs /\ script' = script
  BY Parts DEF channelVars, scriptVars, ChannelTypeOK, ScriptTyped, Placed
<1>2. \A j \in jobs' :
        \/ j.stage = "record"
        \/ \E i \in jobs : i.stage # "record" /\ i.frame = j.frame
        \/ j.frame.ops \subseteq store'
  BY <1>1
<1>3. QED
  BY <1>1, <1>2, Assemble

\* A step of the server: the clients look on.
LEMMA ServerStep ==
  ASSUME ScenarioInv, UNCHANGED sessionVars, ScriptTyped', script' = script,
         ChannelTypeOK', CableTyped', store \subseteq store',
         \A c \in Client : \A f \in down'[c] :
           \/ f \in down[c]
           \/ f.kind \in {"step1", "ack"}
           \/ f.ops \subseteq store',
         \A j \in jobs' :
           \/ j.stage = "record"
           \/ \E i \in jobs : i.stage # "record" /\ i.frame = j.frame
           \/ j.frame.ops \subseteq store'
  PROVE  ScenarioInv'
<1>1. /\ QueuesOK' /\ Queueless'
      /\ doc' = doc /\ doc \in [Client -> SUBSET Op]
      /\ parked' = parked /\ parked \in [Client -> SUBSET Op]
      /\ synced' = synced /\ synced \in [Client -> BOOLEAN]
  BY Parts DEF sessionVars, rsVars, QueuesOK, RSTypeOK, QueuesBelow, Queueless, profile
<1>2. QED
  BY <1>1, Assemble

-----------------------------------------------------------------------------
(* The cable.                                                              *)

\* Every frame a handler makes is a frame.
LEMMA FramesTyped ==
  /\ \A u \in SUBSET Op : SyncStep1(u) \in Frame /\ SyncStep2(u) \in Frame
  /\ \A u \in SUBSET Op, n \in Nat : Update(u, n) \in Frame
  /\ \A n \in Nat : Ack(n) \in Frame
  /\ \A S \in SUBSET Op : StateVector(S) \in SUBSET Op
  /\ \A S \in SUBSET Op : \A sv : EncodeDiff(S, sv) \in SUBSET S
  BY DEF Frame, SyncStep1, SyncStep2, Update, Ack, StateVector, EncodeDiff

\* What a client hands to its socket, carried or not.
LEMMA SendingTyped ==
  ASSUME NEW c \in Client, NEW frames \in SUBSET Frame
  PROVE  /\ Enveloped(c, frames) \subseteq Envelope
         /\ \A carried : Outgoing(c, carried, frames) \subseteq Envelope
<1>1. ASSUME NEW f \in frames
      PROVE  [client |-> c, live |-> TRUE, frame |-> f] \in Envelope
  BY DEF Envelope
<1>2. Enveloped(c, frames) \subseteq Envelope
  BY <1>1 DEF Enveloped
<1>3. QED
  BY <1>2 DEF Outgoing

\* What the server transmits reaches one client.
LEMMA TransmitTyped ==
  ASSUME down \in [Client -> SUBSET Frame],
         NEW c \in Client, NEW live, NEW f \in Frame, Transmit(c, live, f)
  PROVE  /\ down' \in [Client -> SUBSET Frame]
         /\ \A d \in Client : \A g \in down'[d] : g \in down[d] \/ g = f
  BY DEF Transmit

\* A frame that is taken leaves the others.
LEMMA ConsumeTyped ==
  ASSUME down \in [Client -> SUBSET Frame],
         NEW c \in Client, NEW f, Consume(c, f)
  PROVE  /\ down' \in [Client -> SUBSET Frame]
         /\ \A d \in Client : down'[d] \subseteq down[d]
  BY DEF Consume

-----------------------------------------------------------------------------
(* The clients' steps.                                                     *)

\* The confirmation (SessionOnConnect): SyncStep1 and the unacknowledged tail.
LEMMA ConfirmedInv ==
  ASSUME ScenarioInv, NEW c \in Client, Confirmed(c)
  PROVE  ScenarioInv'
<1>1. OnConnect(c) /\ UNCHANGED <<doc, parked, synced, down, channelVars, scriptVars>>
  BY DEF Confirmed, SessionOnConnect
<1>2. QueuesOK'
  BY <1>1, Parts, TransportQueuesOK
<1>3. UpdateFrames(c)' \subseteq Frame
  <2>1. (RSTypeOK /\ QueuesBelow => UpdateFrames(c) \subseteq Frame)'
    BY FlushTyped, PTL
  <2>2. QED
    BY <2>1, <1>2 DEF QueuesOK
<1>4. SyncStep1(StateVector(doc[c])) \in Frame
  BY Parts, FramesTyped
<1>5. CableTyped'
  <2> DEFINE frames == {SyncStep1(StateVector(doc[c]))} \cup UpdateFrames(c)'
  <2>1. Enveloped(c, frames) \subseteq Envelope
    BY <1>3, <1>4, SendingTyped
  <2>2. up' = up \cup Enveloped(c, frames)
    BY DEF Confirmed, SessionOnConnect
  <2>3. QED
    BY <2>1, <2>2, <1>1, Parts DEF CableTyped
<1>6. Queueless'
  BY <1>1, Parts DEF OnConnect, Queueless, profile, scriptVars
<1>7. QED
  BY <1>1, <1>2, <1>5, <1>6, Parts, ClientStep

\* The interval, in the two kinds of queue that resend.
LEMMA ResendInv ==
  ASSUME ScenarioInv, NEW c \in Client, ResendTick(c)
  PROVE  ScenarioInv'
<1>1. UNCHANGED <<doc, parked, synced, down, channelVars, scriptVars>>
  BY DEF ResendTick, Resend
<1>2. pending[c] # {} /\ profile.queue \in {"each", "tail"}
  BY Parts, ScriptsWellMade DEF ResendTick, Resend, ScriptTyped, WellMade, profile, Queueless
<1>3. CASE profile.queue = "each"
  <2>1. PICK carried : up' = up \cup Outgoing(c, carried, EachFrame(c))
    BY <1>3 DEF ResendTick, Resend
  <2>2. UNCHANGED rsVars
    BY <1>3 DEF ResendTick, Resend
  <2>3. EachFrame(c) \subseteq Frame
    BY Parts, FramesTyped DEF EachFrame, QueuesOK, RSTypeOK, Entry
  <2>4. CableTyped'
    BY <2>1, <2>3, <1>1, SendingTyped, Parts DEF CableTyped
  <2>5. QueuesOK' /\ Queueless'
    BY <2>2, <1>1, Parts DEF rsVars, QueuesOK, RSTypeOK, QueuesBelow, Queueless, profile, scriptVars
  <2>6. QED
    BY <1>1, <2>4, <2>5, Parts, ClientStep
<1>4. CASE profile.queue = "tail"
  <2>1. PICK carried : up' = up \cup Outgoing(c, carried, UpdateFrames(c)')
    BY <1>4 DEF ResendTick, Resend
  <2>2. OnTick(c)
    BY <1>4 DEF ResendTick, Resend
  <2>3. QueuesOK' /\ Queueless'
    BY <2>2, <1>1, Parts, TransportQueuesOK DEF OnTick, Queueless, profile, scriptVars
  <2>4. UpdateFrames(c)' \subseteq Frame
    <3>1. (RSTypeOK /\ QueuesBelow => UpdateFrames(c) \subseteq Frame)'
      BY FlushTyped, PTL
    <3>2. QED
      BY <3>1, <2>3 DEF QueuesOK
  <2>5. CableTyped'
    <3> DEFINE frames == UpdateFrames(c)'
    <3>1. frames \subseteq Frame /\ up' = up \cup Outgoing(c, carried, frames)
      BY <2>1, <2>4
    <3> HIDE DEF frames
    <3>2. QED
      BY <3>1, <1>1, SendingTyped, Parts DEF CableTyped
  <2>6. QED
    BY <1>1, <2>3, <2>5, Parts, ClientStep
<1>5. QED
  BY <1>2, <1>3, <1>4

\* An ack, in either kind of queue, or a frame that comes to nothing: the queue
\* only loses entries.
LEMMA ReceiveAckInv ==
  ASSUME ScenarioInv, NEW c \in Client, NEW f \in down[c],
         UNCHANGED <<scriptVars, channelVars>>,
         ReceiveAck(c, f) \/ ReceiveOneAck(c, f) \/ ReceiveInVain(c, f)
  PROVE  ScenarioInv'
<1>1. UNCHANGED <<doc, parked, synced, up>> /\ Consume(c, f)
  BY DEF ReceiveAck, ReceiveOneAck, ReceiveInVain
<1>2. down \in [Client -> SUBSET Frame] /\ f \in Frame
  BY Parts DEF CableTyped
<1>3. CableTyped' /\ \A d \in Client : down'[d] \subseteq down[d]
  BY <1>1, <1>2, ConsumeTyped, Parts DEF CableTyped
<1>4. CASE ReceiveAck(c, f)
  <2>1. f.id \in Nat /\ OnAck(c, f.id)
    BY <1>2, <1>4 DEF ReceiveAck, Frame
  <2>2. QueuesOK'
    BY <2>1, Parts, TransportQueuesOK
  <2>3. \A d \in Client : pending'[d] \subseteq pending[d]
    BY <2>1, Parts DEF OnAck, rsVars, QueuesOK, RSTypeOK
  <2>4. Queueless'
    BY <2>3, Parts DEF Queueless, profile, scriptVars
  <2>5. QED
    BY <1>1, <1>3, <2>2, <2>4, Parts, ClientStep
<1>5. CASE ReceiveOneAck(c, f)
  <2>1. /\ pending' = [pending EXCEPT ![c] = {p \in pending[c] : p.seq # f.id}]
        /\ UNCHANGED <<nextSeq, connected, timer, tailCache>>
    BY <1>5 DEF ReceiveOneAck
  <2>2. /\ pending' \in [Client -> SUBSET Entry]
        /\ \A d \in Client : pending'[d] \subseteq pending[d]
    BY <2>1, Parts DEF QueuesOK, RSTypeOK
  <2>3. QueuesOK'
    BY <2>1, <2>2, Parts, ShrinkQueuesOK DEF QueuesOK, RSTypeOK
  <2>4. Queueless'
    BY <2>2, Parts DEF Queueless, profile, scriptVars
  <2>5. QED
    BY <1>1, <1>3, <2>3, <2>4, Parts, ClientStep
<1>6. CASE ReceiveInVain(c, f)
  <2>1. UNCHANGED rsVars
    BY <1>6 DEF ReceiveInVain
  <2>2. QueuesOK' /\ Queueless'
    BY <2>1, Parts DEF rsVars, QueuesOK, RSTypeOK, QueuesBelow, Queueless, profile,
                       scriptVars
  <2>3. QED
    BY <1>1, <1>3, <2>2, Parts, ClientStep
<1>7. QED
  BY <1>4, <1>5, <1>6

\* The answer to the server's SyncStep1.
LEMMA ReceiveStep1Inv ==
  ASSUME ScenarioInv, NEW c \in Client, NEW f \in down[c],
         UNCHANGED <<scriptVars, channelVars>>, ReceiveStep1(c, f)
  PROVE  ScenarioInv'
<1>1. UNCHANGED <<doc, parked, synced>> /\ UNCHANGED rsVars /\ Consume(c, f)
  BY DEF ReceiveStep1
<1>2. QueuesOK' /\ Queueless'
  BY <1>1, Parts DEF rsVars, QueuesOK, RSTypeOK, QueuesBelow, Queueless, profile,
                     scriptVars
<1>3. SyncStep2(EncodeDiff(doc[c] \cup parked[c], f.ops)) \in Frame
  <2>1. doc[c] \cup parked[c] \in SUBSET Op
    BY Parts
  <2>2. EncodeDiff(doc[c] \cup parked[c], f.ops) \in SUBSET Op
    BY <2>1, FramesTyped
  <2>3. QED
    BY <2>2, FramesTyped
<1>4. down' \in [Client -> SUBSET Frame] /\ \A d \in Client : down'[d] \subseteq down[d]
  BY <1>1, ConsumeTyped, Parts DEF CableTyped
<1>5. CableTyped'
  <2> DEFINE frames == {SyncStep2(EncodeDiff(doc[c] \cup parked[c], f.ops))}
  <2>1. frames \in SUBSET Frame /\ up' = up \cup Enveloped(c, frames)
    BY <1>3 DEF ReceiveStep1
  <2> HIDE DEF frames
  <2>2. QED
    BY <2>1, <1>4, SendingTyped, Parts DEF CableTyped
<1>6. QED
  BY <1>1, <1>2, <1>4, <1>5, Parts, ClientStep

\* Content that comes down is stored: so is what is shown or parked of it.
LEMMA ReceiveContentInv ==
  ASSUME ScenarioInv, NEW c \in Client, NEW f \in down[c],
         UNCHANGED <<scriptVars, channelVars>>, ReceiveContent(c, f)
  PROVE  ScenarioInv'
<1> DEFINE pool == parked[c] \cup f.ops
           new  == Integrate(doc[c], pool)
<1>1. /\ UNCHANGED rsVars /\ up' = up /\ Consume(c, f)
      /\ doc' = [doc EXCEPT ![c] = new]
      /\ parked' = [parked EXCEPT ![c] = pool \ new]
  BY DEF ReceiveContent
<1>2. f.kind \in {"step2", "update"} /\ f \in Frame
  BY Parts DEF ReceiveContent, CableTyped
<1>3. pool \subseteq store
  BY <1>2, Parts DEF StoredFirst
<1>4. pool \in SUBSET Op /\ new \in SUBSET Op /\ new \subseteq doc[c] \cup pool
  BY <1>2, Parts DEF Frame, Integrate
<1>5. QueuesOK' /\ Queueless'
  BY <1>1, Parts DEF rsVars, QueuesOK, RSTypeOK, QueuesBelow, Queueless, profile,
                     scriptVars
<1>6. down' \in [Client -> SUBSET Frame] /\ \A d \in Client : down'[d] \subseteq down[d]
  BY <1>1, ConsumeTyped, Parts DEF CableTyped
<1>7. CableTyped'
  BY <1>1, <1>6, Parts DEF CableTyped
<1>8. synced' \in [Client -> BOOLEAN]
  BY Parts DEF ReceiveContent
<1> HIDE DEF new, pool
<1>9. /\ doc' \in [Client -> SUBSET Op]
      /\ parked' \in [Client -> SUBSET Op]
      /\ \A d \in Client : doc'[d] \subseteq doc[d] \cup store
      /\ \A d \in Client : parked'[d] \subseteq parked[d] \cup store
  BY <1>1, <1>3, <1>4, Parts
<1>10. QED
  BY <1>5, <1>6, <1>7, <1>8, <1>9, ClientStep

\* So every frame that comes down.
LEMMA ReceiveInv ==
  ASSUME ScenarioInv, NEW c \in Client, NEW k, ReceiveFrame(c, k)
  PROVE  ScenarioInv'
  BY ReceiveAckInv, ReceiveStep1Inv, ReceiveContentInv DEF ReceiveFrame

-----------------------------------------------------------------------------
(* The server's steps.                                                     *)

\* The script stays where it is.
LEMMA ScriptRests ==
  ASSUME ScenarioInv, UNCHANGED scriptVars
  PROVE  ScriptTyped' /\ script' = script
  BY Parts DEF ScriptTyped, Placed, scriptVars

\* sync_subscribed, and the SyncStep1 of the server.
LEMMA JoinInv ==
  ASSUME ScenarioInv, NEW c \in Client, Join(c)
  PROVE  ScenarioInv'
<1> DEFINE f == SyncStep1(StateVector(store))
<1>1. /\ UNCHANGED sessionVars /\ UNCHANGED scriptVars
      /\ subscribed' = [subscribed EXCEPT ![c] = TRUE]
      /\ Transmit(c, TRUE, f) /\ UNCHANGED <<store, jobs, up>>
  BY DEF Join, SyncSubscribed
<1>2. f \in Frame /\ f.kind = "step1"
  BY Parts, FramesTyped DEF ChannelTypeOK, SyncStep1
<1> HIDE DEF f
<1>3. /\ down' \in [Client -> SUBSET Frame]
      /\ \A d \in Client : \A g \in down'[d] : g \in down[d] \/ g = f
  BY <1>1, <1>2, TransmitTyped, Parts DEF CableTyped
<1>4. ChannelTypeOK' /\ CableTyped'
  BY <1>1, <1>3, Parts DEF ChannelTypeOK, CableTyped
<1>5. QED
  BY <1>1, <1>2, <1>3, <1>4, ScriptRests, ServerStep

\* A frame that is answered, dropped or turned away: content the answer carries
\* is the store's.
LEMMA AnswerInv ==
  ASSUME ScenarioInv, NEW e \in up, UNCHANGED <<scriptVars, sessionVars>>,
         HandleStep1(e) \/ DropFrame(e) \/ RejectGap(e)
  PROVE  ScenarioInv'
<1>1. e \in Envelope /\ e.client \in Client /\ up' = up \ {e} /\ UNCHANGED channelVars
  BY Parts DEF CableTyped, Envelope, HandleStep1, DropFrame, RejectGap
<1>2. PICK f \in Frame :
        /\ Transmit(e.client, e.live, f) \/ down' = down
        /\ f.kind = "step1" \/ f.ops \subseteq store
  <2>1. store \in SUBSET Op
    BY Parts DEF ChannelTypeOK
  <2>2. SyncStep1(StateVector(store)) \in Frame
    BY <2>1, FramesTyped
  <2>3. SyncStep1(StateVector(store)).kind = "step1"
    BY DEF SyncStep1
  <2>4. EncodeDiff(store, e.frame.ops) \in SUBSET Op
        /\ EncodeDiff(store, e.frame.ops) \subseteq store
    BY <2>1, FramesTyped
  <2>5. /\ SyncStep2(EncodeDiff(store, e.frame.ops)) \in Frame
        /\ SyncStep2(EncodeDiff(store, e.frame.ops)).ops = EncodeDiff(store, e.frame.ops)
    BY <2>4, FramesTyped DEF SyncStep2
  <2>6. CASE HandleStep1(e)
    BY <2>4, <2>5, <2>6 DEF HandleStep1
  <2>7. CASE DropFrame(e) \/ RejectGap(e)
    BY <2>2, <2>3, <2>7 DEF DropFrame, RejectGap
  <2>8. QED
    BY <2>6, <2>7
<1>3. /\ down' \in [Client -> SUBSET Frame]
      /\ \A d \in Client : \A g \in down'[d] : g \in down[d] \/ g = f
  BY <1>1, <1>2, TransmitTyped, Parts DEF CableTyped
<1>4. /\ ChannelTypeOK' /\ CableTyped' /\ store' = store /\ jobs' = jobs
  BY <1>1, <1>3, Parts DEF ChannelTypeOK, CableTyped, channelVars
<1>5. UNCHANGED sessionVars /\ ScriptTyped' /\ script' = script
  BY ScriptRests
<1>6. QED
  BY <1>2, <1>3, <1>4, <1>5, ServerStep

\* A complete update: what is not recorded first is stored already.
LEMMA AcceptInv ==
  ASSUME ScenarioInv, NEW e \in up, UNCHANGED <<scriptVars, sessionVars>>,
         NEW w \in Worker, AcceptUpdate(w, e)
  PROVE  ScenarioInv'
<1> DEFINE stage == IF UpdateAdvances(store, e.frame.ops) THEN "record" ELSE "distribute"
           j == JobFor(w, e, stage)
<1>1. /\ up' = up \ {e} /\ jobs' = jobs \cup {j}
      /\ UNCHANGED <<store, subscribed, down>>
  BY DEF AcceptUpdate
<1>2. e \in Envelope
  BY Parts DEF CableTyped
<1>3. j \in Job /\ j.stage = stage /\ j.frame = e.frame
  BY <1>2 DEF JobFor, Job, Envelope
<1>4. stage = "record" \/ e.frame.ops \subseteq store
  BY DEF UpdateAdvances
<1>5. ChannelTypeOK' /\ CableTyped'
  BY <1>1, <1>3, Parts DEF ChannelTypeOK, CableTyped
<1> HIDE DEF j, stage
<1>6. UNCHANGED sessionVars /\ ScriptTyped' /\ script' = script
  BY ScriptRests
<1>7. \A i \in jobs' :
        \/ i.stage = "record"
        \/ \E k \in jobs : k.stage # "record" /\ k.frame = i.frame
        \/ i.frame.ops \subseteq store'
  BY <1>1, <1>3, <1>4
<1>8. QED
  BY <1>1, <1>5, <1>6, <1>7, ServerStep

\* So every frame that a worker takes up.
LEMMA HandleInv ==
  ASSUME ScenarioInv, NEW c, NEW k, HandleFrame(c, k)
  PROVE  ScenarioInv'
  BY AnswerInv, AcceptInv DEF HandleFrame

\* The handler goes on: the record puts into the store what the broadcast shows.
LEMMA HandlerInv ==
  ASSUME ScenarioInv, NEW w, HandlerStep(w)
  PROVE  ScenarioInv'
<1>1. PICK j \in jobs :
        \/ Abort(j) /\ failNext' = FALSE
        \/ RecordChange(j) /\ UNCHANGED failNext
        \/ (DistributeChange(j) \/ SendAck(j)) /\ UNCHANGED failNext
  BY DEF HandlerStep
<1>2. UNCHANGED sessionVars /\ ScriptTyped' /\ script' = script
  BY <1>1, Parts DEF HandlerStep, ScriptTyped, Placed
<1>3. j \in Job /\ j.client \in Client /\ j.frame \in Frame /\ j.frame.ops \in SUBSET Op
      /\ j.frame.id \in Nat
  BY Parts DEF ChannelTypeOK, Job, Frame
<1> DEFINE On(s) == [j EXCEPT !.stage = s]
<1>4. \A s \in {"distribute", "ack"} :
        On(s) \in Job /\ On(s).stage = s /\ On(s).frame = j.frame
  BY <1>3 DEF Job
<1> HIDE DEF On
<1>5. CASE Abort(j)
  <2>1. jobs' \subseteq jobs /\ UNCHANGED <<store, subscribed, up, down>>
    BY <1>5 DEF Abort
  <2>2. ChannelTypeOK' /\ CableTyped'
    BY <2>1, Parts DEF ChannelTypeOK, CableTyped
  <2>3. QED
    BY <2>1, <2>2, <1>2, ServerStep
<1>6. CASE RecordChange(j)
  <2>1. /\ jobs' = (jobs \ {j}) \cup {On("distribute")}
        /\ store' = store \cup j.frame.ops
        /\ UNCHANGED <<subscribed, up, down>>
    BY <1>6 DEF RecordChange, Advance, On
  <2>2. ChannelTypeOK' /\ CableTyped'
    BY <2>1, <1>3, <1>4, Parts DEF ChannelTypeOK, CableTyped
  <2>3. \A i \in jobs' :
          \/ i.stage = "record"
          \/ \E k \in jobs : k.stage # "record" /\ k.frame = i.frame
          \/ i.frame.ops \subseteq store'
    BY <2>1, <1>4
  <2>4. QED
    BY <2>1, <2>2, <2>3, <1>2, ServerStep
<1>7. CASE DistributeChange(j)
  <2> DEFINE f == [j.frame EXCEPT !.id = 0]
  <2>1. j.stage = "distribute" /\ UNCHANGED <<store, subscribed, up>>
    BY <1>7 DEF DistributeChange
  <2>2. f \in Frame /\ f.ops = j.frame.ops
    BY <1>3 DEF Frame
  <2>3. j.frame.ops \subseteq store
    BY <2>1, Parts DEF StoredFirst
  <2>4. jobs' \subseteq jobs \cup {On("ack")}
    BY <1>7 DEF DistributeChange, Advance, On
  <2>5. down' = [c \in Client |-> IF subscribed[c] THEN down[c] \cup {f} ELSE down[c]]
    BY <1>7 DEF DistributeChange, Distribute
  <2> HIDE DEF f
  <2>6. /\ down' \in [Client -> SUBSET Frame]
        /\ \A c \in Client : \A g \in down'[c] : g \in down[c] \/ g = f
    BY <2>2, <2>5, Parts DEF CableTyped
  <2>7. ChannelTypeOK' /\ CableTyped'
    BY <2>1, <2>4, <2>6, <1>4, Parts DEF ChannelTypeOK, CableTyped
  <2>8. \A i \in jobs' :
          \/ i.stage = "record"
          \/ \E k \in jobs : k.stage # "record" /\ k.frame = i.frame
          \/ i.frame.ops \subseteq store'
    BY <2>1, <2>3, <2>4, <1>4
  <2>9. QED
    BY <2>1, <2>2, <2>3, <2>6, <2>7, <2>8, <1>2, ServerStep
<1>8. CASE SendAck(j)
  <2>1. /\ Transmit(j.client, j.live, Ack(j.frame.id))
        /\ jobs' \subseteq jobs /\ UNCHANGED <<store, subscribed, up>>
    BY <1>8 DEF SendAck
  <2>2. Ack(j.frame.id) \in Frame /\ Ack(j.frame.id).kind = "ack"
    BY <1>3, FramesTyped DEF Ack
  <2>3. /\ down' \in [Client -> SUBSET Frame]
        /\ \A c \in Client : \A g \in down'[c] : g \in down[c] \/ g = Ack(j.frame.id)
    BY <2>1, <2>2, <1>3, TransmitTyped, Parts DEF CableTyped
  <2>4. ChannelTypeOK' /\ CableTyped'
    BY <2>1, <2>3, Parts DEF ChannelTypeOK, CableTyped
  <2>5. QED
    BY <2>1, <2>2, <2>3, <2>4, <1>2, ServerStep
<1>9. QED
  BY <1>1, <1>5, <1>6, <1>7, <1>8

-----------------------------------------------------------------------------
(* The script's steps.                                                     *)

\* A thread that is ready stands at a step of the script.
LEMMA AtAStep ==
  ASSUME ScenarioInv, NEW t, Ready(t)
  PROVE  /\ t \in DOMAIN script.threads
         /\ pc[t] \in 1 .. Len(script.threads[t])
         /\ script.threads[t] \in Seq(StepType)
         /\ Current(t) \in StepType
         /\ Current(t) \in Range(script.threads[t])
<1>1. t \in DOMAIN script.threads /\ ~(pc[t] > Len(script.threads[t]))
  BY DEF Ready, Done
<1>2. script.threads \in Seq(Seq(StepType))
  BY Parts, ScriptsWellMade DEF ScriptTyped, WellMade
<1>3. script.threads[t] \in Seq(StepType)
  BY <1>1, <1>2
<1>4. pc[t] \in 1 .. Len(script.threads[t]) + 1
  BY <1>1, Parts DEF ScriptTyped, Placed
<1>5. pc[t] \in 1 .. Len(script.threads[t])
  BY <1>1, <1>3, <1>4
<1>6. QED
  BY <1>1, <1>3, <1>5 DEF Current, Range

\* The clients and edits of a step are the system's.
LEMMA StepParts ==
  ASSUME NEW s \in StepType
  PROVE  /\ s.cs \subseteq Client /\ s.ops \subseteq Op
         /\ s.do \in Doing \cup StoreFault
         /\ s.do \in StoreFault => s.cs = {}
  BY ScenarioAssumption DEF StepType, Cast

\* The thread is past its step, and the switches are where it left them.
LEMMA ScriptGoesOn ==
  ASSUME ScenarioInv, NEW t, Ready(t), pc' = [pc EXCEPT ![t] = @ + 1],
         script' = script, opened' \subseteq Client,
         network' \in [Client -> {"clean", "lossy", "black"}],
         {forked', slow', failNext'} \subseteq BOOLEAN
  PROVE  ScriptTyped'
<1>1. /\ t \in DOMAIN script.threads /\ pc[t] \in 1 .. Len(script.threads[t])
      /\ script.threads[t] \in Seq(StepType)
  BY AtAStep
<1>2. pc \in [DOMAIN script.threads -> Nat]
  BY Parts DEF ScriptTyped, Placed
<1>3. pc[t] + 1 \in 1 .. Len(script.threads[t]) + 1 /\ pc[t] + 1 \in Nat
  BY <1>1
<1>4. Placed'
  BY <1>2, <1>3 DEF Placed
<1>5. \A u \in DOMAIN pc' : pc'[u] \in 1 .. Len(script.threads[u]) + 1
  BY <1>2, <1>3, Parts DEF ScriptTyped
<1>6. QED
  BY <1>4, <1>5, Parts DEF ScriptTyped

\* A step that leaves the documents, the queues and the server alone.
LEMMA QuietInv ==
  ASSUME ScenarioInv, ScriptTyped', script' = script,
         UNCHANGED <<sessionVars, channelVars>>, CableTyped',
         \A c \in Client : \A f \in down'[c] : f \in down[c] \/ f.kind = "step1"
  PROVE  ScenarioInv'
<1>1. ChannelTypeOK' /\ store' = store /\ jobs' = jobs
  BY Parts DEF ChannelTypeOK, channelVars
<1>2. UNCHANGED sessionVars
  OBVIOUS
<1>3. QED
  BY <1>1, <1>2, ServerStep

\* Steps that only turn a switch, open a socket or wait.
LEMMA SwitchesInv ==
  ASSUME ScenarioInv, NEW t, Ready(t), pc' = [pc EXCEPT ![t] = @ + 1],
         script' = script,
         OpenSockets(t) \/ Switch(t) \/ Fork(t) \/ GoOn(t)
  PROVE  ScenarioInv'
<1>1. /\ Current(t).cs \subseteq Client
      /\ Current(t).do \in StoreFault => Current(t).cs = {}
  BY AtAStep, StepParts
<1>2. UNCHANGED <<sessionVars, channelVars>> /\ UNCHANGED <<up, down>>
  BY DEF OpenSockets, Switch, Fork, GoOn
<1>3. CableTyped'
  BY <1>2, Parts DEF CableTyped
<1>4. opened' \subseteq Client
  BY <1>1, Parts DEF OpenSockets, Switch, Fork, GoOn, ScriptTyped
<1>5. network' \in [Client -> {"clean", "lossy", "black"}]
  <2>1. CASE Switch(t)
    <3>1. /\ Current(t).do \in {"black", "lossy", "clean"} \cup StoreFault
          /\ network' = [c \in Client |-> IF c \in Current(t).cs THEN Current(t).do
                                                              ELSE network[c]]
      BY <2>1 DEF Switch, AtStep, StoreFault
    <3>2. QED
      BY <3>1, <1>1, Parts DEF ScriptTyped
  <2>2. CASE ~Switch(t)
    BY <2>2, Parts DEF OpenSockets, Fork, GoOn, ScriptTyped
  <2>3. QED
    BY <2>1, <2>2
<1>6. {forked', slow', failNext'} \subseteq BOOLEAN
  <2>1. forked \in BOOLEAN /\ slow \in BOOLEAN /\ failNext \in BOOLEAN
    BY Parts DEF ScriptTyped
  <2>2. CASE Switch(t)
    BY <2>1, <2>2 DEF Switch
  <2>3. CASE OpenSockets(t) \/ Fork(t) \/ GoOn(t)
    BY <2>1, <2>3 DEF OpenSockets, Fork, GoOn
  <2>4. QED
    BY <2>2, <2>3
<1>7. ScriptTyped'
  BY <1>4, <1>5, <1>6, ScriptGoesOn
<1>8. QED
  BY <1>2, <1>3, <1>7, QuietInv

\* Frames out of turn: a second handshake, the vandal's noise.
LEMMA OutOfTurnInv ==
  ASSUME ScenarioInv, NEW t, Ready(t), pc' = [pc EXCEPT ![t] = @ + 1],
         script' = script, SendOutOfTurn(t)
  PROVE  ScenarioInv'
<1>1. PICK c \in Current(t).cs :
        up' = up \cup Enveloped(c, {IF Current(t).do = "noise" THEN Update({}, 0)
                                    ELSE SyncStep1(StateVector(doc[c]))})
  BY DEF SendOutOfTurn
<1>2. c \in Client
  BY AtAStep, StepParts
<1> DEFINE f == IF Current(t).do = "noise" THEN Update({}, 0)
                ELSE SyncStep1(StateVector(doc[c]))
<1>3. f \in Frame
  <2>1. Update({}, 0) \in Frame
    BY FramesTyped
  <2>2. SyncStep1(StateVector(doc[c])) \in Frame
    BY <1>2, Parts, FramesTyped
  <2>3. QED
    BY <2>1, <2>2
<1>4. /\ UNCHANGED <<sessionVars, channelVars>> /\ down' = down
      /\ UNCHANGED <<forked, opened, network, slow, failNext>>
  BY DEF SendOutOfTurn
<1>5. CableTyped'
  <2>1. up' = up \cup Enveloped(c, {f}) /\ {f} \in SUBSET Frame
    BY <1>1, <1>3
  <2> HIDE DEF f
  <2>2. QED
    BY <2>1, <1>2, <1>4, SendingTyped, Parts DEF CableTyped
<1>6. ScriptTyped'
  BY <1>4, ScriptGoesOn, Parts DEF ScriptTyped
<1>7. QED
  BY <1>4, <1>5, <1>6, QuietInv

\* A second socket: both sides open a handshake.
LEMMA RejoinInv ==
  ASSUME ScenarioInv, NEW t, Ready(t), pc' = [pc EXCEPT ![t] = @ + 1],
         script' = script, Rejoin(t)
  PROVE  ScenarioInv'
<1> DEFINE back == SyncStep1(StateVector(store))
<1>1. PICK c \in Current(t).cs :
        /\ synced' = [synced EXCEPT ![c] = FALSE]
        /\ up' = up \cup Enveloped(c, {SyncStep1(StateVector(doc[c]))})
        /\ Transmit(c, TRUE, back)
  BY DEF Rejoin
<1>2. /\ UNCHANGED <<doc, parked, channelVars>> /\ UNCHANGED rsVars
      /\ UNCHANGED <<forked, opened, network, slow, failNext>>
  BY DEF Rejoin
<1>3. c \in Client
  BY AtAStep, StepParts
<1>4. {SyncStep1(StateVector(doc[c]))} \in SUBSET Frame
  BY <1>3, Parts, FramesTyped
<1>5. back \in Frame /\ back.kind = "step1"
  BY Parts, FramesTyped DEF ChannelTypeOK, SyncStep1
<1> HIDE DEF back
<1>6. /\ down' \in [Client -> SUBSET Frame]
      /\ \A d \in Client : \A g \in down'[d] : g \in down[d] \/ g = back
  BY <1>1, <1>3, <1>5, TransmitTyped, Parts DEF CableTyped
<1>7. CableTyped'
  <2>1. Enveloped(c, {SyncStep1(StateVector(doc[c]))}) \subseteq Envelope
    BY <1>3, <1>4, SendingTyped
  <2>2. QED
    BY <2>1, <1>1, <1>6, Parts DEF CableTyped
<1>8. QueuesOK' /\ Queueless'
  BY <1>2, Parts DEF rsVars, QueuesOK, RSTypeOK, QueuesBelow, Queueless, profile
<1>9. ChannelTypeOK' /\ store' = store /\ jobs' = jobs
  BY <1>2, Parts DEF ChannelTypeOK, channelVars
<1>10. ScriptTyped'
  BY <1>2, ScriptGoesOn, Parts DEF ScriptTyped
<1>11. synced' \in [Client -> BOOLEAN]
  BY <1>1, Parts
<1>12. \A d \in Client : \A g \in down'[d] :
         g \in down[d] \/ g.kind \in {"step1", "ack"} \/ g.ops \subseteq store'
  BY <1>5, <1>6
<1>13. \A j \in jobs' :
         \/ j.stage = "record"
         \/ \E i \in jobs : i.stage # "record" /\ i.frame = j.frame
         \/ j.frame.ops \subseteq store'
  BY <1>9
<1>14. /\ doc' \in [Client -> SUBSET Op] /\ parked' \in [Client -> SUBSET Op]
       /\ \A d \in Client : doc'[d] \subseteq doc[d] \cup Typed(d) \cup store'
       /\ \A d \in Client : parked'[d] \subseteq parked[d] \cup store'
  BY <1>2, Parts
<1>15. QED
  BY <1>7, <1>8, <1>9, <1>10, <1>11, <1>12, <1>13, <1>14, Assemble

\* Sockets that go, one by one or with the server: documents, queues and the
\* store stay, and what travelled down is lost.
LEMMA DropInv ==
  ASSUME ScenarioInv, NEW t, Ready(t), pc' = [pc EXCEPT ![t] = @ + 1],
         script' = script, NEW cs \in SUBSET Client, NEW lost, Drop(cs, lost),
         jobs' \subseteq {[j EXCEPT !.live = @ /\ j.client \notin cs] : j \in jobs}
  PROVE  ScenarioInv'
<1>1. /\ UNCHANGED <<doc, parked, pending, nextSeq, tailCache, store>>
      /\ UNCHANGED <<forked, network, slow, failNext>>
      /\ opened' \subseteq opened
  BY DEF Drop
<1>2. connected' \in [Client -> BOOLEAN] /\ timer' \in [Client -> BOOLEAN]
  BY Parts DEF Drop, QueuesOK, RSTypeOK
<1>3. synced' \in [Client -> BOOLEAN] /\ subscribed' \in [Client -> BOOLEAN]
  BY Parts DEF Drop, ChannelTypeOK
<1>4. QueuesOK' /\ Queueless'
  BY <1>1, <1>2, Parts DEF QueuesOK, RSTypeOK, QueuesBelow, Queueless, profile
<1>5. ScriptTyped'
  BY <1>1, ScriptGoesOn, Parts DEF ScriptTyped
<1>6. ASSUME NEW i \in jobs'
      PROVE  i \in Job /\ \E j \in jobs : j.stage = i.stage /\ i.frame = j.frame
  <2>1. PICK j \in jobs : i = [j EXCEPT !.live = @ /\ j.client \notin cs]
    OBVIOUS
  <2>2. j \in Job
    BY Parts DEF ChannelTypeOK
  <2>3. QED
    BY <2>1, <2>2 DEF Job
<1>7. ASSUME NEW e \in up' PROVE e \in Envelope
  <2>1. PICK d \in up : e = [d EXCEPT !.live = @ /\ d.client \notin cs]
    BY DEF Drop
  <2>2. d \in Envelope
    BY Parts DEF CableTyped
  <2>3. QED
    BY <2>1, <2>2 DEF Envelope
<1>8. /\ down' \in [Client -> SUBSET Frame]
      /\ \A c \in Client : down'[c] \subseteq down[c]
  BY Parts DEF Drop, CableTyped
<1>9. ChannelTypeOK' /\ CableTyped'
  BY <1>1, <1>3, <1>6, <1>7, <1>8, Parts DEF ChannelTypeOK, CableTyped
<1>10. \A i \in jobs' :
         \/ i.stage = "record"
         \/ \E j \in jobs : j.stage # "record" /\ j.frame = i.frame
         \/ i.frame.ops \subseteq store'
  BY <1>6
<1>11. /\ doc' \in [Client -> SUBSET Op] /\ parked' \in [Client -> SUBSET Op]
       /\ \A d \in Client : doc'[d] \subseteq doc[d] \cup Typed(d) \cup store'
       /\ \A d \in Client : parked'[d] \subseteq parked[d] \cup store'
       /\ store' = store
  BY <1>1, Parts
<1>12. QED
  BY <1>3, <1>4, <1>5, <1>8, <1>9, <1>10, <1>11, Assemble

\* An edit shows its author what the script has it type.
LEMMA TypedAtStep ==
  ASSUME ScenarioInv, NEW t, Ready(t), AtStep(t, {"edit"}),
         NEW c \in Current(t).cs, NEW o \in Current(t).ops
  PROVE  o \in Typed(c)
<1> DEFINE steps == UNION {Range(script.threads[u]) : u \in DOMAIN script.threads}
<1>1. Current(t) \in steps /\ Current(t).do = "edit"
  BY AtAStep DEF AtStep
<1>2. Typed(c) = UNION {s.ops : s \in {r \in steps : r.do = "edit" /\ c \in r.cs}}
  BY DEF Typed
<1> HIDE DEF steps
<1>3. QED
  BY <1>1, <1>2

\* What typing does to the queue and the cable, in the three kinds of client.
LEMMA TypeQueues ==
  ASSUME ScenarioInv, NEW c \in Client, NEW o \in Op, Type(c, o), script' = script
  PROVE  QueuesOK' /\ Queueless' /\ up' \subseteq Envelope
<1>1. profile.queue \in {"none", "each", "tail"} /\ profile' = profile
  BY Parts, ScriptsWellMade DEF ScriptTyped, WellMade, profile
<1>2. {o} \in SUBSET Op /\ up \subseteq Envelope /\ nextSeq[c] \in Nat
  BY Parts DEF CableTyped, QueuesOK, RSTypeOK
<1>3. CASE profile.queue = "none"
  <2>1. PICK carried : up' = up \cup Outgoing(c, carried, {Update({o}, 0)})
    BY <1>3 DEF Type
  <2>2. UNCHANGED rsVars
    BY <1>3 DEF Type
  <2>3. {Update({o}, 0)} \in SUBSET Frame
    BY <1>2, FramesTyped
  <2>4. QueuesOK' /\ Queueless'
    BY <2>2, <1>1, Parts DEF rsVars, QueuesOK, RSTypeOK, QueuesBelow, Queueless
  <2>5. QED
    BY <2>1, <2>3, <2>4, <1>2, SendingTyped
<1>4. CASE profile.queue = "each"
  <2> DEFINE e == [seq |-> nextSeq[c], update |-> {o}]
  <2>1. PICK carried : up' = up \cup Outgoing(c, carried, {Update({o}, nextSeq[c])})
    BY <1>4 DEF Type
  <2>2. {Update({o}, nextSeq[c])} \in SUBSET Frame
    BY <1>2, FramesTyped
  <2>3. /\ pending' = [pending EXCEPT ![c] = @ \cup {e}]
        /\ nextSeq' = [nextSeq EXCEPT ![c] = @ + 1]
        /\ UNCHANGED <<connected, timer, tailCache>>
    BY <1>4 DEF Type
  <2>4. e \in Entry /\ e.seq = nextSeq[c]
    BY <1>2, Parts DEF QueuesOK, RSTypeOK, Entry
  <2> HIDE DEF e
  <2>5. RSTypeOK'
    BY <2>3, <2>4, Parts DEF QueuesOK, RSTypeOK
  <2>6. ASSUME NEW d \in Client, NEW p \in pending'[d] PROVE p.seq < nextSeq'[d]
    <3>1. /\ nextSeq[d] \in Nat /\ nextSeq'[d] \in {nextSeq[d], nextSeq[d] + 1}
          /\ d = c => nextSeq'[d] = nextSeq[d] + 1
      BY <2>3, Parts DEF QueuesOK, RSTypeOK
    <3>2. p \in pending[d] \/ (d = c /\ p = e)
      BY <2>3, Parts DEF QueuesOK, RSTypeOK
    <3>3. p \in pending[d] => p.seq \in Nat /\ p.seq < nextSeq[d]
      BY Parts DEF QueuesOK, RSTypeOK, QueuesBelow, Entry
    <3>4. QED
      BY <3>1, <3>2, <3>3, <2>4
  <2>7. QueuesOK' /\ Queueless'
    BY <2>5, <2>6, <1>1, <1>4 DEF QueuesOK, QueuesBelow, Queueless
  <2>8. QED
    BY <2>1, <2>2, <2>7, <1>2, SendingTyped
<1>5. CASE profile.queue = "tail"
  <2>1. PICK carried : up' = up \cup Outgoing(c, carried, UpdateFrames(c)')
    BY <1>5 DEF Type
  <2>2. Enqueue(c, {o})
    BY <1>5 DEF Type
  <2>3. QueuesOK' /\ Queueless'
    BY <2>2, <1>1, <1>2, <1>5, Parts, EnqueueQueuesOK DEF Queueless
  <2>4. UpdateFrames(c)' \subseteq Frame
    <3>1. (RSTypeOK /\ QueuesBelow => UpdateFrames(c) \subseteq Frame)'
      BY FlushTyped, PTL
    <3>2. QED
      BY <3>1, <2>3 DEF QueuesOK
  <2> DEFINE frames == UpdateFrames(c)'
  <2>5. frames \in SUBSET Frame /\ up' = up \cup Outgoing(c, carried, frames)
    BY <2>1, <2>4
  <2> HIDE DEF frames
  <2>6. QED
    BY <2>3, <2>5, <1>2, SendingTyped
<1>6. QED
  BY <1>1, <1>3, <1>4, <1>5

\* The edit of a script: its author shows it, and nobody else before it is stored.
LEMMA EditInv ==
  ASSUME ScenarioInv, NEW t, Ready(t), pc' = [pc EXCEPT ![t] = @ + 1],
         script' = script, EditStep(t)
  PROVE  ScenarioInv'
<1>1. PICK c \in Current(t).cs, o \in Current(t).ops : Type(c, o)
  BY DEF EditStep
<1>2. c \in Client /\ o \in Op
  BY AtAStep, StepParts
<1>3. o \in Typed(c)
  BY TypedAtStep DEF EditStep
<1>4. /\ doc' = [doc EXCEPT ![c] = @ \cup {o}]
      /\ UNCHANGED <<parked, synced, down>>
  BY <1>1 DEF Type
<1>5. /\ UNCHANGED channelVars
      /\ UNCHANGED <<forked, opened, network, slow, failNext>>
  BY DEF EditStep
<1>6. QueuesOK' /\ Queueless' /\ up' \subseteq Envelope
  BY <1>1, <1>2, TypeQueues
<1>7. CableTyped'
  BY <1>4, <1>6, Parts DEF CableTyped
<1>8. ScriptTyped'
  BY <1>5, ScriptGoesOn, Parts DEF ScriptTyped
<1>9. ChannelTypeOK' /\ store' = store /\ jobs' = jobs
  BY <1>5, Parts DEF ChannelTypeOK, channelVars
<1>10. /\ doc' \in [Client -> SUBSET Op]
       /\ \A d \in Client : doc'[d] \subseteq doc[d] \cup Typed(d) \cup store'
  BY <1>2, <1>3, <1>4, Parts
<1>11. \A j \in jobs' :
         \/ j.stage = "record"
         \/ \E i \in jobs : i.stage # "record" /\ i.frame = j.frame
         \/ j.frame.ops \subseteq store'
  BY <1>9
<1>12. /\ parked' \in [Client -> SUBSET Op] /\ synced' \in [Client -> BOOLEAN]
       /\ \A d \in Client : parked'[d] \subseteq parked[d] \cup store'
       /\ \A d \in Client : down'[d] \subseteq down[d]
  BY <1>4, Parts
<1>13. QED
  BY <1>6, <1>7, <1>8, <1>9, <1>10, <1>11, <1>12, Assemble

\* So every step of a thread.
LEMMA ScriptInv ==
  ASSUME ScenarioInv, NEW t, ScriptStep(t)
  PROVE  ScenarioInv'
<1>1. Ready(t) /\ pc' = [pc EXCEPT ![t] = @ + 1] /\ script' = script
  BY DEF ScriptStep
<1>2. Current(t).cs \in SUBSET Client
  BY <1>1, AtAStep, StepParts
<1>3. CASE Close(t)
  <2>1. PICK lost : Drop(Current(t).cs, lost)
    BY <1>3 DEF Close
  <2>2. jobs' = {[j EXCEPT !.live = @ /\ j.client \notin Current(t).cs] : j \in jobs}
    BY <1>3 DEF Close
  <2>3. QED
    BY <2>1, <2>2, <1>1, <1>2, DropInv
<1>4. CASE Kill(t)
  <2>1. Drop(Client, up) /\ jobs' = {} /\ Client \in SUBSET Client
    BY <1>4 DEF Kill
  <2>2. jobs' \subseteq {[j EXCEPT !.live = @ /\ j.client \notin Client] : j \in jobs}
    BY <2>1
  <2>3. QED
    BY <2>1, <2>2, <1>1, DropInv
<1>5. QED
  BY <1>1, <1>3, <1>4, SwitchesInv, OutOfTurnInv, RejoinInv, EditInv DEF ScriptStep

-----------------------------------------------------------------------------

\* Before the first step, nothing is anywhere.
LEMMA ScenarioInitInv == ScenarioInit => ScenarioInv
<1> SUFFICES ASSUME ScenarioInit PROVE ScenarioInv
  OBVIOUS
<1>1. WellMade(script)
  BY ScriptsWellMade DEF ScenarioInit
<1>2. QueuesOK /\ Queueless
  BY DEF ScenarioInit, SessionInit, RSInit, QueuesOK, RSTypeOK, QueuesBelow, Queueless,
         Entry
<1>3. /\ doc = [c \in Client |-> {}] /\ parked = [c \in Client |-> {}]
      /\ synced \in [Client -> BOOLEAN]
  BY ScenarioAssumption DEF ScenarioInit, SessionInit, Opened
<1>4. ChannelTypeOK /\ CableTyped
  BY DEF ScenarioInit, ChannelInit, ChannelTypeOK, CableTyped
<1>5. ScriptTyped
  <2>1. \A t \in DOMAIN script.threads : script.threads[t] \in Seq(StepType)
    BY <1>1 DEF WellMade
  <2>2. \A t \in DOMAIN pc : pc[t] \in 1 .. Len(script.threads[t]) + 1
    BY <2>1 DEF ScenarioInit
  <2>3. QED
    BY <2>2 DEF ScenarioInit, ScriptTyped, Placed
<1>6. StoredFirst
  BY <1>3 DEF ScenarioInit, ChannelInit, StoredFirst, SeenOnlyStored
<1>7. QED
  BY <1>2, <1>3, <1>4, <1>5, <1>6, Parts

\* Every step of a scenario keeps it.
LEMMA ScenarioStepInv == ScenarioInv /\ [ScenarioNext]_scenarioVars => ScenarioInv'
<1> SUFFICES ASSUME ScenarioInv, [ScenarioNext]_scenarioVars PROVE ScenarioInv'
  OBVIOUS
<1>1. CASE UNCHANGED scenarioVars
  <2>1. UNCHANGED <<sessionVars, channelVars>> /\ UNCHANGED <<up, down, scriptVars>>
    BY <1>1 DEF scenarioVars
  <2>2. CableTyped' /\ \A c \in Client : down'[c] \subseteq down[c]
    BY <2>1, Parts DEF CableTyped
  <2>3. ScriptTyped' /\ script' = script
    BY <2>1, ScriptRests
  <2>4. QED
    BY <2>1, <2>2, <2>3, QuietInv
<1>2. CASE ScenarioNext
  <2>1. ASSUME NEW t \in Thread, ScriptStep(t) PROVE ScenarioInv'
    BY <2>1, ScriptInv
  <2>2. ASSUME NEW c \in Client,
               \/ Join(c) \/ Confirmed(c) \/ ResendTick(c)
               \/ \E k \in Downward : ReceiveFrame(c, k)
               \/ \E k \in Upward : HandleFrame(c, k)
        PROVE  ScenarioInv'
    BY <2>2, JoinInv, ConfirmedInv, ResendInv, ReceiveInv, HandleInv
  <2>3. ASSUME NEW w \in Worker, HandlerStep(w) PROVE ScenarioInv'
    BY <2>3, HandlerInv
  <2>4. QED
    BY <1>2, <2>1, <2>2, <2>3 DEF ScenarioNext
<1>3. QED
  BY <1>1, <1>2

\* The invariant holds of every script in every timing (frontend/*.mjs).
THEOREM ScenarioInvariance == ScenarioSpec => []ScenarioInv
  BY ScenarioInitInv, ScenarioStepInv, PTL DEF ScenarioSpec

\* The scripts, the three kinds of queue and the server only ever make states of
\* their types, although numbers in a queue that forgets single updates have gaps
\* (frontend/reliable.mjs, reliable_sync.ts:42-57).
THEOREM ScenarioTypeCorrect == ScenarioSpec => []ScenarioTypeOK
<1>1. ScenarioInv => ScenarioTypeOK
  BY DEF ScenarioInv
<1>2. QED
  BY <1>1, ScenarioInvariance, PTL

\* Nobody sees what is not durable: not while a write takes its time, nor after
\* one failed or the server was killed, and whether or not the sender has a queue,
\* resends each update or the whole tail (audit_scenarios.mjs:140-195,
\* sync.rb:298-299).
THEOREM OnlyStoredIsSeen == ScenarioSpec => []SeenOnlyStored
<1>1. ScenarioInv => SeenOnlyStored
  BY DEF ScenarioInv, StoredFirst
<1>2. QED
  BY <1>1, ScenarioInvariance, PTL
=============================================================================
