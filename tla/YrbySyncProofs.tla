--------------------------- MODULE YrbySyncProofs ---------------------------
(***************************************************************************)
(* Theorems about the whole system of YrbySync: for any number of clients, *)
(* operations and workers, any causal order between the operations, and    *)
(* any number of dropped connections and failed handlers.                  *)
(***************************************************************************)
EXTENDS YrbySync, ReliableSyncProofs, FiniteSetTheorems

-----------------------------------------------------------------------------
(* The document operators.                                                 *)

\* Integrating a pool leaves a causally closed document, which only grew.
LEMMA IntegrateClosed ==
  ASSUME NEW S \in SUBSET Op, NEW pool \in SUBSET Op, Closed(S)
  PROVE  /\ Integrate(S, pool) \in SUBSET Op
         /\ S \subseteq Integrate(S, pool)
         /\ Integrate(S, pool) \subseteq S \cup pool
         /\ Closed(Integrate(S, pool))
<1>1. ASSUME NEW o \in Integrate(S, pool), NEW p \in Past[o]
      PROVE  p \in Integrate(S, pool)
  <2>1. o \in Op /\ Past[o] \subseteq Op /\ Past[p] \subseteq Past[o]
    BY DocAssumption DEF Integrate
  <2>2. CASE o \in S
    BY <2>2 DEF Closed, Integrate
  <2>3. CASE o \notin S
    <3>1. Past[o] \subseteq S \cup pool
      BY <2>3 DEF Integrate
    <3>2. QED
      BY <3>1, <2>1 DEF Integrate
  <2>4. QED
    BY <2>2, <2>3
<1>2. QED
  BY <1>1 DEF Integrate, Closed

\* An update that is ready for a closed document leaves it closed
\* (update_ready?, sync.rb:284).
LEMMA ReadyClosed ==
  ASSUME NEW S, NEW u, Closed(S), UpdateReady(S, u)
  PROVE  Closed(S \cup u)
  BY DEF Closed, UpdateReady

\* A verdict on a snapshot outlives it: the store only grows.
LEMMA ReadyStable ==
  ASSUME NEW S, NEW T, S \subseteq T, NEW u, UpdateReady(S, u)
  PROVE  UpdateReady(T, u)
  BY DEF UpdateReady

\* An encoded state holds nothing the document does not.
LEMMA DiffContent ==
  ASSUME NEW S \in SUBSET Op, NEW sv
  PROVE  EncodeDiff(S, sv) \in SUBSET Op /\ EncodeDiff(S, sv) \subseteq S
  BY DEF EncodeDiff

\* Every frame a handler makes is a frame.
LEMMA FrameTypes ==
  /\ \A u \in SUBSET Op : SyncStep1(u) \in Frame /\ SyncStep2(u) \in Frame
  /\ \A u \in SUBSET Op, n \in Nat : Update(u, n) \in Frame
  /\ \A n \in Nat : Ack(n) \in Frame
  BY DEF Frame, SyncStep1, SyncStep2, Update, Ack

-----------------------------------------------------------------------------
(* The queues, inside the system.                                          *)

\* The system's invariant contains that of the queues.
LEMMA SyncRSInv == SyncInv => RSInv
  BY DEF SyncInv, RSInv, TypeOK, SessionTypeOK, TailComplete

\* Every step of the system is a call of the class, or leaves it alone.
LEMMA QueueStep ==
  ASSUME RSInv, TypeOK, [Next]_vars
  PROVE  RSInv'
<1>1. ASSUME NEW c \in Client, NEW o \in Op, UserEdit(c, o)
      PROVE  RSInv'
  <2>1. {o} \in SUBSET Op /\ Enqueue(c, {o})
    BY <1>1 DEF UserEdit, Edit
  <2>2. QED
    BY <2>1, EnqueueInv
<1>2. ASSUME NEW c \in Client, OnConnect(c) \/ OnDisconnect(c) \/ OnTick(c)
      PROVE  RSInv'
  BY <1>2, TransportInv
<1>3. ASSUME NEW c \in Client, NEW f \in down[c], ReceiveAck(c, f)
      PROVE  RSInv'
  <2>1. f.id \in Int /\ OnAck(c, f.id)
    BY <1>3 DEF ReceiveAck, TypeOK, Frame
  <2>2. QED
    BY <2>1, OnAckInv
<1>4. CASE UNCHANGED rsVars
  BY <1>4, RSStutterInv
<1>5. ASSUME NEW c \in Client, Subscribe(c) PROVE UNCHANGED rsVars
  BY <1>5 DEF Subscribe, sessionVars
<1>6. ASSUME NEW c \in Client, NEW k \in ToClient, Receive(c, k)
      PROVE  RSInv'
  <2>1. PICK f \in down[c] :
          ReceiveAck(c, f) \/ ReceiveStep1(c, f) \/ ReceiveContent(c, f)
    BY <1>6 DEF Receive
  <2>2. CASE ReceiveAck(c, f)
    BY <2>2, <1>3
  <2>3. CASE ReceiveStep1(c, f) \/ ReceiveContent(c, f)
    BY <2>3, <1>4 DEF ReceiveStep1, ReceiveContent
  <2>4. QED
    BY <2>1, <2>2, <2>3
<1>7. ASSUME NEW c \in Client, NEW w \in Worker, NEW k \in ToServer,
             Handle(w, c, k)
      PROVE  UNCHANGED rsVars
  BY <1>7 DEF Handle, sessionVars
<1>8. ASSUME NEW w \in Worker, Work(w) PROVE UNCHANGED rsVars
  BY <1>8 DEF Work, sessionVars
<1>9. Fail => UNCHANGED rsVars
  BY DEF Fail, sessionVars
<1>10. UNCHANGED vars => UNCHANGED rsVars
  BY DEF vars, sessionVars
<1>11. ASSUME NEW c \in Client,
              Connected(c) \/ Tick(c)
                \/ \E lost \in SUBSET InFlight(c) : Disconnected(c, lost)
       PROVE  RSInv'
  BY <1>11, <1>2 DEF Connected, SessionOnConnect, Tick, SessionTick,
                     Disconnected, SessionOnDisconnect
<1>12. QED
  BY <1>1, <1>4, <1>5, <1>6, <1>7, <1>8, <1>9, <1>10, <1>11 DEF Next

-----------------------------------------------------------------------------
(* What every step preserves: the store and the documents grow, and a queue*)
(* loses entries or gains one under a new number.                          *)

Grows ==
  /\ store \subseteq store'
  /\ \A c \in Client :
       /\ doc[c] \subseteq doc'[c]
       /\ nextSeq[c] =< nextSeq'[c]
       /\ \A p \in pending'[c] : p \in pending[c] \/ p.seq >= nextSeq[c]

\* So what is covered stays covered.
LEMMA CoveredStable ==
  ASSUME TypeOK, TypeOK', Grows, NEW c \in Client, NEW id \in Nat, NEW ops,
         Covered(c, id, ops)
  PROVE  Covered(c, id, ops)'
<1>1. nextSeq[c] \in Nat /\ nextSeq'[c] \in Nat /\ nextSeq[c] =< nextSeq'[c]
      /\ id < nextSeq[c]
  BY DEF TypeOK, SessionTypeOK, RSTypeOK, Grows, Covered
<1>2. ASSUME NEW p \in pending'[c], p.seq =< id
      PROVE  p.update \subseteq ops \cup store'
  <2>1. p.seq \in Nat
    BY DEF TypeOK, SessionTypeOK, RSTypeOK, Entry
  <2>2. p \in pending[c]
    BY <2>1, <1>1, <1>2 DEF Grows
  <2>3. QED
    BY <2>2, <1>2 DEF Covered, Grows
<1>3. QED
  BY <1>1, <1>2 DEF Covered

\* Frames, jobs and replies that were there before the step stay covered; an
\* orphaned one keeps its client and its frame.
LEMMA FramesStable ==
  ASSUME TypeOK, TypeOK', Grows, FramesCovered,
         NEW e, NEW d \in up, e.client = d.client, e.frame = d.frame
  PROVE  /\ Covered(e.client, e.frame.id, e.frame.ops)'
         /\ e.frame.kind \in {"step2", "update"} =>
              e.frame.ops \subseteq doc'[e.client] \cup store'
<1>1. d.client \in Client /\ d.frame.id \in Nat
  BY DEF TypeOK, Envelope, Frame
<1>2. Covered(d.client, d.frame.id, d.frame.ops)
  BY DEF FramesCovered
<1>3. Covered(d.client, d.frame.id, d.frame.ops)'
  BY <1>1, <1>2, CoveredStable
<1>4. QED
  BY <1>1, <1>3 DEF FramesCovered, Grows, Covered

\* What JobsCovered asks of one job, after the step.
JobCoveredNext(i) ==
  /\ Covered(i.client, i.frame.id, i.frame.ops)'
  /\ i.frame.ops \subseteq doc'[i.client] \cup store'
  /\ i.frame.kind \in {"step2", "update"}
  /\ UpdateReady(store', i.frame.ops)
  /\ i.stage # "record" => i.frame.ops \subseteq store'

\* What a job promises stays true while store and documents grow.
LEMMA JobsStable ==
  ASSUME TypeOK, TypeOK', Grows, JobsCovered,
         NEW i, NEW j \in jobs, i.client = j.client, i.frame = j.frame
  PROVE  /\ Covered(i.client, i.frame.id, i.frame.ops)'
         /\ i.frame.ops \subseteq doc'[i.client] \cup store'
         /\ i.frame.kind \in {"step2", "update"}
         /\ UpdateReady(store', i.frame.ops)
         /\ j.stage # "record" => i.frame.ops \subseteq store'
<1>1. j.client \in Client /\ j.frame.id \in Nat
  BY DEF TypeOK, ChannelTypeOK, Job, Frame
<1>2. Covered(j.client, j.frame.id, j.frame.ops)'
  BY <1>1, CoveredStable DEF JobsCovered
<1>3. UpdateReady(store', j.frame.ops)
  BY ReadyStable DEF JobsCovered, Grows
<1>4. QED
  BY <1>1, <1>2, <1>3 DEF JobsCovered, Grows, Covered

\* What a reply on its way says stays true while the store grows.
LEMMA RepliesStable ==
  ASSUME TypeOK, TypeOK', Grows, RepliesDurable,
         NEW c \in Client, NEW f \in down[c]
  PROVE  /\ f.kind = "ack" => Covered(c, f.id, {})'
         /\ f.kind \in {"step2", "update"} => f.ops \subseteq store'
<1>1. f.id \in Nat
  BY DEF TypeOK, Frame
<1>2. f.kind = "ack" => Covered(c, f.id, {})'
  BY <1>1, CoveredStable DEF RepliesDurable
<1>3. QED
  BY <1>2 DEF RepliesDurable, Grows

\* So a step has only what it adds to answer for.
LEMMA FramesFrom ==
  ASSUME TypeOK, TypeOK', Grows, FramesCovered,
         \A e \in up' :
           \/ \E d \in up : e.client = d.client /\ e.frame = d.frame
           \/ /\ Covered(e.client, e.frame.id, e.frame.ops)'
              /\ e.frame.kind \in {"step2", "update"} =>
                   e.frame.ops \subseteq doc'[e.client] \cup store'
  PROVE  FramesCovered'
<1> SUFFICES ASSUME NEW e \in up'
             PROVE  /\ Covered(e.client, e.frame.id, e.frame.ops)'
                    /\ e.frame.kind \in {"step2", "update"} =>
                         e.frame.ops \subseteq doc'[e.client] \cup store'
  BY DEF FramesCovered, Covered
<1>1. CASE \E d \in up : e.client = d.client /\ e.frame = d.frame
  BY <1>1, FramesStable
<1>2. QED
  BY <1>1

\* Jobs that carry on, and new ones that are sound, are all sound.
LEMMA JobsFrom ==
  ASSUME TypeOK, TypeOK', Grows, JobsCovered,
         \A i \in jobs' :
           \/ \E j \in jobs :
                i.client = j.client /\ i.frame = j.frame
                /\ (i.stage = j.stage \/ i.frame.ops \subseteq store')
           \/ JobCoveredNext(i)
  PROVE  JobsCovered'
<1>1. ASSUME NEW i \in jobs', NEW j \in jobs,
             i.client = j.client, i.frame = j.frame,
             i.stage = j.stage \/ i.frame.ops \subseteq store'
      PROVE  JobCoveredNext(i)
  <2>1. /\ Covered(i.client, i.frame.id, i.frame.ops)'
        /\ i.frame.ops \subseteq doc'[i.client] \cup store'
        /\ i.frame.kind \in {"step2", "update"}
        /\ UpdateReady(store', i.frame.ops)
        /\ j.stage # "record" => i.frame.ops \subseteq store'
    BY <1>1, JobsStable
  <2>2. QED
    BY <1>1, <2>1 DEF JobCoveredNext
<1>2. \A i \in jobs' : JobCoveredNext(i)
  BY <1>1
<1>3. QED
  BY <1>2 DEF JobsCovered, JobCoveredNext, Covered, UpdateReady

\* Replies that were there, and new ones that are sound, are all sound.
LEMMA RepliesFrom ==
  ASSUME TypeOK, TypeOK', Grows, RepliesDurable,
         \A c \in Client : \A f \in down'[c] :
           \/ f \in down[c]
           \/ /\ f.kind = "ack" => Covered(c, f.id, {})'
              /\ f.kind \in {"step2", "update"} => f.ops \subseteq store'
  PROVE  RepliesDurable'
<1> SUFFICES ASSUME NEW c \in Client, NEW f \in down'[c]
             PROVE  /\ f.kind = "ack" => Covered(c, f.id, {})'
                    /\ f.kind \in {"step2", "update"} => f.ops \subseteq store'
  BY DEF RepliesDurable, Covered
<1>1. CASE f \in down[c]
  BY <1>1, RepliesStable
<1>2. QED
  BY <1>1

\* The parts of the invariant that a step has to show anew.
LEMMA Assemble ==
  ASSUME RSInv', TypeOK', Closed(store)', (\A c \in Client : Closed(doc[c]))',
         NothingLost', QueueShown', FramesCovered', JobsCovered', RepliesDurable'
  PROVE  SyncInv'
<1>1. (RSInv => TailComplete)'
  BY RSInvTail, PTL
<1>2. QED
  BY <1>1 DEF SyncInv, RSInv, LogGapFree, SeqsContiguous, TimerArmed

\* A step of the server: no session moves, nothing new goes up.
LEMMA ServerAssemble ==
  ASSUME SyncInv, RSInv', TypeOK', UNCHANGED sessionVars,
         store \subseteq store', Closed(store'), up' \subseteq up,
         Grows => JobsCovered', Grows => RepliesDurable'
  PROVE  SyncInv'
<1>1. TypeOK /\ FramesCovered /\ NothingLost /\ QueueShown
  BY DEF SyncInv
<1>2. UNCHANGED <<doc, parked, pending, nextSeq>>
  BY DEF sessionVars, rsVars
<1>3. Grows
  BY <1>1, <1>2 DEF Grows, TypeOK, SessionTypeOK, RSTypeOK
<1>4. FramesCovered'
  BY <1>1, <1>3, FramesFrom
<1>5. NothingLost' /\ QueueShown'
  BY <1>1, <1>2 DEF NothingLost, QueueShown, Merge
<1>6. (\A c \in Client : Closed(doc[c]))'
  BY <1>2 DEF SyncInv, Closed
<1>7. Closed(store)'
  BY DEF Closed
<1>8. QED
  BY <1>3, <1>4, <1>5, <1>6, <1>7, Assemble

-----------------------------------------------------------------------------
(* One lemma per step of the server.                                       *)

\* A transmission adds at most its frame, at its client.
LEMMA TransmitAdds ==
  ASSUME TypeOK, NEW c \in Client, NEW live \in BOOLEAN, NEW f \in Frame,
         Transmit(c, live, f)
  PROVE  /\ down' \in [Client -> SUBSET Frame]
         /\ \A d \in Client : \A g \in down'[d] :
              g \in down[d] \/ (d = c /\ g = f)
  BY DEF Transmit, TypeOK

\* A subscription is greeted with the store's clocks (sync.rb:98-108).
LEMMA SubscribeInv ==
  ASSUME SyncInv, RSInv', NEW c \in Client, Subscribe(c)
  PROVE  SyncInv'
<1> DEFINE f == SyncStep1(StateVector(store))
<1>1. TypeOK /\ Closed(store)
  BY DEF SyncInv, LogGapFree
<1>2. f \in Frame /\ f.kind = "step1"
  <2>1. StateVector(store) \in SUBSET Op
    BY <1>1 DEF TypeOK, ChannelTypeOK, StateVector
  <2>2. QED
    BY <2>1, FrameTypes DEF SyncStep1
<1>3. Transmit(c, TRUE, f) /\ UNCHANGED <<store, jobs, up, sessionVars>>
      /\ UNCHANGED <<drops, faults>>
  BY DEF Subscribe, SyncSubscribed
<1> HIDE DEF f
<1>4. /\ down' \in [Client -> SUBSET Frame]
      /\ \A d \in Client : \A g \in down'[d] : g \in down[d] \/ (d = c /\ g = f)
  BY <1>1, <1>2, <1>3, TransmitAdds
<1>5. TypeOK'
  BY <1>1, <1>3, <1>4 DEF TypeOK, SessionTypeOK, RSInv, ChannelTypeOK,
     sessionVars, Subscribe, SyncSubscribed
<1>6. Grows => JobsCovered'
  BY <1>1, <1>3, <1>5, JobsFrom DEF SyncInv
<1>7. Grows => RepliesDurable'
  BY <1>1, <1>2, <1>4, <1>5, RepliesFrom DEF SyncInv
<1>8. store \subseteq store' /\ Closed(store') /\ up' \subseteq up
  BY <1>1, <1>3
<1>9. QED
  BY <1>3, <1>5, <1>6, <1>7, <1>8, ServerAssemble

\* The four outcomes of a frame that a worker takes up.
LEMMA HandleInv ==
  ASSUME SyncInv, RSInv', NEW c \in Client, NEW w \in Worker,
         NEW k \in ToServer, Handle(w, c, k)
  PROVE  SyncInv'
<1>1. TypeOK /\ Closed(store) /\ FramesCovered /\ JobsCovered /\ RepliesDurable
  BY DEF SyncInv, LogGapFree
<1>2. PICK e \in up :
        HandleStep1(e) \/ DropFrame(e) \/ RejectGap(e) \/ AcceptUpdate(w, e)
  BY DEF Handle
<1>3. UNCHANGED <<sessionVars, drops, faults>>
  BY DEF Handle
<1>4. e \in Envelope /\ e.client \in Client /\ e.live \in BOOLEAN
      /\ e.frame \in Frame /\ store \in SUBSET Op
  BY <1>1 DEF TypeOK, ChannelTypeOK, Envelope
<1>5. UNCHANGED <<store, subscribed>> /\ up' = up \ {e}
  BY <1>2 DEF HandleStep1, DropFrame, RejectGap, AcceptUpdate, channelVars
<1>6. ASSUME NEW f \in Frame, Transmit(e.client, e.live, f), UNCHANGED jobs,
             f.kind # "ack",
             f.kind \in {"step2", "update"} => f.ops \subseteq store
      PROVE  SyncInv'
  <2>1. /\ down' \in [Client -> SUBSET Frame]
        /\ \A d \in Client : \A g \in down'[d] :
             g \in down[d] \/ (d = e.client /\ g = f)
    BY <1>1, <1>4, <1>6, TransmitAdds
  <2>2. TypeOK'
    BY <1>1, <1>3, <1>5, <1>6, <2>1 DEF TypeOK, SessionTypeOK, RSInv,
       ChannelTypeOK, sessionVars
  <2>3. Grows => JobsCovered'
    BY <1>1, <1>6, <2>2, JobsFrom
  <2>4. Grows => RepliesDurable'
    BY <1>1, <1>5, <1>6, <2>1, <2>2, RepliesFrom
  <2>5. QED
    BY <1>1, <1>3, <1>5, <2>2, <2>3, <2>4, ServerAssemble
<1>7. CASE HandleStep1(e)
  <2>1. EncodeDiff(store, e.frame.ops) \in SUBSET Op
        /\ EncodeDiff(store, e.frame.ops) \subseteq store
    BY <1>4, DiffContent
  <2>2. SyncStep2(EncodeDiff(store, e.frame.ops)) \in Frame
    BY <2>1, FrameTypes
  <2>3. QED
    BY <1>7, <2>1, <2>2, <1>6 DEF HandleStep1, SyncStep2, channelVars
<1>8. CASE RejectGap(e)
  <2>1. SyncStep1(StateVector(store)) \in Frame
    BY <1>4, FrameTypes DEF StateVector
  <2>2. QED
    BY <1>8, <2>1, <1>6 DEF RejectGap, SyncStep1, channelVars
<1>9. CASE DropFrame(e)
  <2>1. UNCHANGED <<jobs, down>>
    BY <1>9 DEF DropFrame, channelVars
  <2>2. TypeOK'
    BY <1>1, <1>3, <1>5, <2>1 DEF TypeOK, SessionTypeOK, RSInv,
       ChannelTypeOK, sessionVars
  <2>3. Grows => JobsCovered'
    BY <1>1, <2>1, <2>2, JobsFrom
  <2>4. Grows => RepliesDurable'
    BY <1>1, <2>1, <2>2, RepliesFrom
  <2>5. QED
    BY <1>1, <1>3, <1>5, <2>2, <2>3, <2>4, ServerAssemble
<1>10. CASE AcceptUpdate(w, e)
  <2> DEFINE stage == IF UpdateAdvances(store, e.frame.ops) THEN "record"
                                                            ELSE "distribute"
             j == JobFor(w, e, stage)
  <2>1. jobs' = jobs \cup {j} /\ UNCHANGED down
        /\ UpdateReady(store, e.frame.ops)
        /\ e.frame.kind \in {"step2", "update"}
    BY <1>10 DEF AcceptUpdate, Accepts, CarriesUpdate
  <2>2. j \in Job /\ j.client = e.client /\ j.frame = e.frame
    BY <1>4 DEF Job, JobFor
  <2>3. TypeOK'
    BY <1>1, <1>3, <1>5, <2>1, <2>2 DEF TypeOK, SessionTypeOK, RSInv,
       ChannelTypeOK, sessionVars
  <2>4. Grows => JobsCovered'
    <3> SUFFICES ASSUME Grows PROVE JobsCovered'
      OBVIOUS
    <3>1. Covered(e.client, e.frame.id, e.frame.ops)'
          /\ e.frame.ops \subseteq doc'[e.client] \cup store'
      BY <1>1, <2>1, <2>3, FramesStable
    <3>2. j.stage # "record" => e.frame.ops \subseteq store'
      BY <1>5 DEF UpdateAdvances, JobFor
    <3>3. JobCoveredNext(j)
      BY <2>1, <2>2, <3>1, <3>2, <1>5 DEF JobCoveredNext, Covered
    <3> HIDE DEF j
    <3>4. QED
      BY <1>1, <2>1, <2>3, <3>3, JobsFrom
  <2>5. Grows => RepliesDurable'
    BY <1>1, <2>1, <2>3, RepliesFrom
  <2>6. QED
    BY <1>1, <1>3, <1>5, <2>3, <2>4, <2>5, ServerAssemble
<1>11. QED
  BY <1>2, <1>7, <1>8, <1>9, <1>10

\* A job moved to another stage.
LEMMA JobType ==
  ASSUME NEW j \in Job, NEW s \in {"record", "distribute", "ack"}
  PROVE  /\ [j EXCEPT !.stage = s] \in Job
         /\ [j EXCEPT !.stage = s].client = j.client
         /\ [j EXCEPT !.stage = s].frame = j.frame
         /\ [j EXCEPT !.stage = s].stage = s
  BY DEF Job

\* A record makes the job's update durable (sync.rb:298).
LEMMA RecordInv ==
  ASSUME SyncInv, RSInv', NEW j \in jobs, RecordChange(j),
         UNCHANGED <<sessionVars, drops, faults>>
  PROVE  SyncInv'
<1> DEFINE i == [j EXCEPT !.stage = "distribute"]
<1>1. TypeOK /\ Closed(store) /\ JobsCovered /\ RepliesDurable
  BY DEF SyncInv, LogGapFree
<1>2. j \in Job /\ j.frame.ops \in SUBSET Op /\ UpdateReady(store, j.frame.ops)
  BY <1>1 DEF TypeOK, ChannelTypeOK, Job, Frame, JobsCovered
<1>3. i \in Job /\ i.client = j.client /\ i.frame = j.frame
  BY <1>2, JobType
<1>4. /\ store' = store \cup j.frame.ops /\ jobs' = (jobs \ {j}) \cup {i}
      /\ UNCHANGED <<subscribed, up, down>>
  BY DEF RecordChange, Advance
<1> HIDE DEF i
<1>5. store \subseteq store' /\ Closed(store') /\ up' \subseteq up
  BY <1>1, <1>2, <1>4, ReadyClosed
<1>6. TypeOK'
  BY <1>1, <1>2, <1>3, <1>4 DEF TypeOK, SessionTypeOK, RSInv,
     ChannelTypeOK, sessionVars
<1>7. Grows => JobsCovered'
  <2>1. \A m \in jobs' : \E n \in jobs :
          m.client = n.client /\ m.frame = n.frame
          /\ (m.stage = n.stage \/ m.frame.ops \subseteq store')
    BY <1>3, <1>4
  <2>2. QED
    BY <1>1, <1>6, <2>1, JobsFrom
<1>8. Grows => RepliesDurable'
  BY <1>1, <1>4, <1>6, RepliesFrom
<1>9. QED
  BY <1>5, <1>6, <1>7, <1>8, ServerAssemble

\* A broadcast shows only what the record made durable (sync.rb:294, 299).
LEMMA DistributeInv ==
  ASSUME SyncInv, RSInv', NEW j \in jobs, DistributeChange(j),
         UNCHANGED <<sessionVars, drops, faults>>
  PROVE  SyncInv'
<1> DEFINE i == [j EXCEPT !.stage = "ack"]
           f == [j.frame EXCEPT !.id = 0]
<1>1. TypeOK /\ Closed(store) /\ JobsCovered /\ RepliesDurable
  BY DEF SyncInv, LogGapFree
<1>2. j \in Job /\ j.frame.ops \subseteq store
      /\ j.frame.kind \in {"step2", "update"}
  BY <1>1 DEF TypeOK, ChannelTypeOK, JobsCovered, DistributeChange
<1>3. i \in Job /\ i.client = j.client /\ i.frame = j.frame
  BY <1>2, JobType
<1>4. f \in Frame /\ f.kind = j.frame.kind /\ f.ops = j.frame.ops
  BY <1>2 DEF Job, Frame
<1>5. /\ down' = [c \in Client |->
                    IF subscribed[c] THEN down[c] \cup {f} ELSE down[c]]
      /\ jobs' \subseteq jobs \cup {i}
      /\ UNCHANGED <<store, subscribed, up>>
  BY DEF DistributeChange, Distribute, Advance
<1> HIDE DEF i, f
<1>6. TypeOK'
  BY <1>1, <1>3, <1>4, <1>5 DEF TypeOK, SessionTypeOK, RSInv,
     ChannelTypeOK, sessionVars
<1>7. Grows => JobsCovered'
  <2>1. \A m \in jobs' : \E n \in jobs :
          m.client = n.client /\ m.frame = n.frame
          /\ (m.stage = n.stage \/ m.frame.ops \subseteq store')
    BY <1>2, <1>3, <1>5
  <2>2. QED
    BY <1>1, <1>6, <2>1, JobsFrom
<1>8. Grows => RepliesDurable'
  <2>1. \A c \in Client : \A g \in down'[c] : g \in down[c] \/ g = f
    BY <1>5
  <2>2. f.kind # "ack" /\ f.ops \subseteq store'
    BY <1>2, <1>4, <1>5
  <2>3. QED
    BY <1>1, <1>6, <2>1, <2>2, RepliesFrom
<1>9. store \subseteq store' /\ Closed(store') /\ up' \subseteq up
  BY <1>1, <1>5
<1>10. QED
  BY <1>6, <1>7, <1>8, <1>9, ServerAssemble

\* An ack covers what its job made durable (sync.rb:173-180).
LEMMA AckInv ==
  ASSUME SyncInv, RSInv', NEW j \in jobs, SendAck(j),
         UNCHANGED <<sessionVars, drops, faults>>
  PROVE  SyncInv'
<1> DEFINE f == Ack(j.frame.id)
<1>1. TypeOK /\ Closed(store) /\ JobsCovered /\ RepliesDurable
  BY DEF SyncInv, LogGapFree
<1>2. j \in Job /\ j.client \in Client /\ j.live \in BOOLEAN
      /\ j.frame.id \in Nat
  BY <1>1 DEF TypeOK, ChannelTypeOK, Job, Frame
<1>3. f \in Frame /\ f.kind = "ack" /\ f.id = j.frame.id
  BY <1>2, FrameTypes DEF Ack
<1>4. Covered(j.client, f.id, {})
  BY <1>1, <1>3 DEF JobsCovered, Covered, SendAck
<1>5. /\ Transmit(j.client, j.live, f) /\ jobs' = jobs \ {j}
      /\ UNCHANGED <<store, subscribed, up>>
  BY DEF SendAck
<1> HIDE DEF f
<1>6. /\ down' \in [Client -> SUBSET Frame]
      /\ \A d \in Client : \A g \in down'[d] :
           g \in down[d] \/ (d = j.client /\ g = f)
  BY <1>1, <1>2, <1>3, <1>5, TransmitAdds
<1>7. TypeOK'
  BY <1>1, <1>5, <1>6 DEF TypeOK, SessionTypeOK, RSInv,
     ChannelTypeOK, sessionVars
<1>8. Grows => JobsCovered'
  BY <1>1, <1>5, <1>7, JobsFrom
<1>9. Grows => RepliesDurable'
  <2>1. Grows => Covered(j.client, f.id, {})'
    BY <1>1, <1>2, <1>3, <1>4, <1>7, CoveredStable
  <2>2. QED
    BY <1>1, <1>3, <1>6, <1>7, <2>1, RepliesFrom DEF Covered
<1>10. store \subseteq store' /\ Closed(store') /\ up' \subseteq up
  BY <1>1, <1>5
<1>11. QED
  BY <1>7, <1>8, <1>9, <1>10, ServerAssemble

\* A handler that dies only forgets.
LEMMA FailInv ==
  ASSUME SyncInv, RSInv', Fail
  PROVE  SyncInv'
<1>1. TypeOK /\ Closed(store) /\ JobsCovered /\ RepliesDurable
  BY DEF SyncInv, LogGapFree
<1>2. /\ UNCHANGED <<store, subscribed, down, sessionVars, drops>>
      /\ jobs' \subseteq jobs /\ up' \subseteq up /\ faults' = faults + 1
  BY DEF Fail, Abort, LoadRaises, channelVars
<1>3. TypeOK'
  BY <1>1, <1>2 DEF TypeOK, SessionTypeOK, RSInv, ChannelTypeOK, sessionVars
<1>4. Grows => JobsCovered'
  BY <1>1, <1>2, <1>3, JobsFrom
<1>5. Grows => RepliesDurable'
  BY <1>1, <1>2, <1>3, RepliesFrom
<1>6. QED
  BY <1>1, <1>2, <1>3, <1>4, <1>5, ServerAssemble

-----------------------------------------------------------------------------
(* The steps of a session.                                                 *)

\* What a flush sends covers the whole queue under the id it carries.
TailFrames ==
  \A c \in Client : \A g \in UpdateFrames(c) :
    /\ g \in Frame
    /\ g.kind = "update"
    /\ g.ops = Merge(pending[c])
    /\ Covered(c, g.id, g.ops)

\* A flush covers the queue it is made of (reliable_sync.ts:147-153).
LEMMA UpdateFramesCovered == RSInv => TailFrames
<1> SUFFICES ASSUME RSInv, NEW c \in Client, NEW g \in UpdateFrames(c)
             PROVE  /\ g \in Frame
                    /\ g.kind = "update"
                    /\ g.ops = Merge(pending[c])
                    /\ Covered(c, g.id, g.ops)
  BY DEF TailFrames
<1>1. PICK f \in Flushed(c) : g = Update(f.update, f.id)
  BY DEF UpdateFrames
<1>2. f.update = Merge(pending[c]) /\ f.id = nextSeq[c] - 1
  BY <1>1, RSInvTail DEF TailComplete
<1>3. nextSeq[c] \in Nat \ {0} /\ pending[c] \subseteq Entry
  BY DEF RSInv, RSTypeOK
<1>4. Merge(pending[c]) \in SUBSET Op
  BY <1>3 DEF Merge, Entry
<1>5. f.id \in Nat /\ f.id < nextSeq[c]
  BY <1>2, <1>3
<1>6. g \in Frame /\ g.kind = "update" /\ g.ops = Merge(pending[c]) /\ g.id = f.id
  BY <1>1, <1>2, <1>4, <1>5, FrameTypes DEF Update
<1>7. QED
  BY <1>5, <1>6 DEF Covered, Merge

\* A step of a session: the store stands still, jobs are at most orphaned.
LEMMA ClientAssemble ==
  ASSUME SyncInv, RSInv', TypeOK', Grows, UNCHANGED store,
         (\A c \in Client : Closed(doc[c]))', NothingLost', QueueShown',
         \A i \in jobs' : \E j \in jobs :
           i.client = j.client /\ i.frame = j.frame /\ i.stage = j.stage,
         \A c \in Client : down'[c] \subseteq down[c],
         FramesCovered'
  PROVE  SyncInv'
<1>1. TypeOK /\ Closed(store) /\ JobsCovered /\ RepliesDurable
  BY DEF SyncInv, LogGapFree
<1>2. JobsCovered'
  BY <1>1, JobsFrom
<1>3. RepliesDurable'
  BY <1>1, RepliesFrom
<1>4. Closed(store)'
  BY <1>1 DEF Closed
<1>5. QED
  BY <1>2, <1>3, <1>4, Assemble

\* What goes up in a session's step is what was there, the queue's tail, or a
\* frame without an id whose content the session holds.
LEMMA SendsCovered ==
  ASSUME TypeOK, TypeOK', Grows, FramesCovered, RSInv', QueueShown',
         NEW c \in Client, NEW frames,
         up' = up \cup Enveloped(c, frames),
         \A f \in frames :
           \/ f \in UpdateFrames(c)'
           \/ /\ f.id = 0
              /\ f.kind \in {"step2", "update"} =>
                   f.ops \subseteq doc'[c] \cup store'
  PROVE  FramesCovered'
<1>1. (RSInv => TailFrames)'
  BY UpdateFramesCovered, PTL
<1>2. ASSUME NEW f \in frames
      PROVE  /\ Covered(c, f.id, f.ops)'
             /\ f.kind \in {"step2", "update"} =>
                  f.ops \subseteq doc'[c] \cup store'
  <2>1. CASE f \in UpdateFrames(c)'
    BY <1>1, <2>1 DEF TailFrames, QueueShown, Covered
  <2>2. CASE f.id = 0 /\ (f.kind \in {"step2", "update"} =>
                            f.ops \subseteq doc'[c] \cup store')
    BY <2>2 DEF Covered, TypeOK, SessionTypeOK, RSTypeOK, Entry
  <2>3. QED
    BY <2>1, <2>2
<1>3. ASSUME NEW e \in up', e \notin up
      PROVE  /\ Covered(e.client, e.frame.id, e.frame.ops)'
             /\ e.frame.kind \in {"step2", "update"} =>
                  e.frame.ops \subseteq doc'[e.client] \cup store'
  <2>1. PICK f \in frames : e = [client |-> c, live |-> TRUE, frame |-> f]
    BY <1>3 DEF Enveloped
  <2>2. e.client = c /\ e.frame = f
    BY <2>1
  <2>3. QED
    BY <2>2, <1>2 DEF Covered
<1>4. QED
  BY <1>3, FramesFrom

\* Envelopes of frames are envelopes.
LEMMA EnvelopedType ==
  ASSUME NEW c \in Client, NEW frames \in SUBSET Frame
  PROVE  Enveloped(c, frames) \in SUBSET Envelope
<1>1. ASSUME NEW f \in frames
      PROVE  [client |-> c, live |-> TRUE, frame |-> f] \in Envelope
  BY DEF Envelope
<1>2. QED
  BY <1>1 DEF Enveloped

\* An edit: integrated, queued and sent in one step.
LEMMA EditInv ==
  ASSUME SyncInv, RSInv', NEW c \in Client, NEW o \in Op, UserEdit(c, o)
  PROVE  SyncInv'
<1> DEFINE p == [seq |-> nextSeq[c], update |-> {o}]
           frames == UpdateFrames(c)'
<1>1. /\ TypeOK /\ NothingLost /\ QueueShown /\ FramesCovered
      /\ \A d \in Client : Closed(doc[d])
  BY DEF SyncInv
<1>2. /\ doc' = [doc EXCEPT ![c] = doc[c] \cup {o}]
      /\ pending' = [pending EXCEPT ![c] = pending[c] \cup {p}]
      /\ nextSeq' = [nextSeq EXCEPT ![c] = nextSeq[c] + 1]
      /\ up' = up \cup Enveloped(c, frames)
      /\ Past[o] \subseteq doc[c]
      /\ UNCHANGED <<parked, synced, down, store, subscribed, jobs>>
      /\ UNCHANGED <<drops, faults>>
  BY DEF UserEdit, Edit, Enqueue, channelVars
<1>3. /\ doc \in [Client -> SUBSET Op] /\ pending \in [Client -> SUBSET Entry]
      /\ nextSeq \in [Client -> Nat \ {0}]
  BY <1>1 DEF TypeOK, SessionTypeOK, RSTypeOK
<1>4. frames \in SUBSET Frame
  <2>1. (RSInv => TailFrames)'
    BY UpdateFramesCovered, PTL
  <2>2. QED
    BY <2>1 DEF TailFrames
<1>5. Enveloped(c, frames) \in SUBSET Envelope
  BY <1>4, EnvelopedType
<1>6. \A f \in frames : f \in UpdateFrames(c)'
  OBVIOUS
<1> HIDE DEF frames
<1>7. TypeOK'
  BY <1>1, <1>2, <1>3, <1>5 DEF TypeOK, SessionTypeOK, RSInv, ChannelTypeOK
<1>8. Grows
  BY <1>2, <1>3 DEF Grows
<1>9. /\ Merge(pending'[c]) = Merge(pending[c]) \cup {o}
      /\ \A d \in Client \ {c} : Merge(pending'[d]) = Merge(pending[d])
  <2>1. pending'[c] = pending[c] \cup {p}
    BY <1>2, <1>3
  <2>2. p.update = {o}
    OBVIOUS
  <2> HIDE DEF p
  <2>3. Merge(pending[c] \cup {p}) = Merge(pending[c]) \cup p.update
    BY DEF Merge
  <2>4. \A d \in Client \ {c} : pending'[d] = pending[d]
    BY <1>2, <1>3
  <2>5. QED
    BY <2>1, <2>2, <2>3, <2>4
<1>10. NothingLost' /\ QueueShown'
  <2>1. /\ \A d \in Client :
             /\ doc'[d] \subseteq store' \cup Merge(pending'[d]) \cup Preloaded[d]
             /\ parked'[d] \subseteq store'
        /\ \A d \in Client : Merge(pending'[d]) \subseteq doc'[d]
    BY <1>1, <1>2, <1>3, <1>9 DEF NothingLost, QueueShown
  <2>2. QED
    BY <2>1 DEF NothingLost, QueueShown, Merge
<1>11. (\A d \in Client : Closed(doc[d]))'
  BY <1>1, <1>2, <1>3 DEF Closed
<1>12. FramesCovered'
  BY <1>1, <1>2, <1>6, <1>7, <1>8, <1>10, SendsCovered
<1>13. QED
  BY <1>2, <1>7, <1>8, <1>10, <1>11, <1>12, ClientAssemble

\* A step of the transport: the queue and the document stand still, the tail
\* goes out again, on a new connection behind a SyncStep1.
LEMMA TransportStepInv ==
  ASSUME SyncInv, RSInv', NEW c \in Client, Connected(c) \/ Tick(c)
  PROVE  SyncInv'
<1> DEFINE greet  == {SyncStep1(StateVector(doc[c]))}
           frames == IF Connected(c) THEN greet \cup UpdateFrames(c)'
                                     ELSE UpdateFrames(c)'
<1>1. /\ TypeOK /\ NothingLost /\ QueueShown /\ FramesCovered
      /\ \A d \in Client : Closed(doc[d])
  BY DEF SyncInv
<1>2. /\ UNCHANGED <<doc, pending, nextSeq, parked, synced, down>>
      /\ UNCHANGED <<store, subscribed, jobs, drops, faults>>
      /\ up' = up \cup Enveloped(c, frames)
  BY DEF Connected, SessionOnConnect, OnConnect, Tick, SessionTick, OnTick,
         channelVars
<1>3. greet \in SUBSET Frame
  BY <1>1, FrameTypes DEF TypeOK, SessionTypeOK, StateVector
<1>4. frames \in SUBSET Frame
  <2>1. (RSInv => TailFrames)'
    BY UpdateFramesCovered, PTL
  <2>2. QED
    BY <1>3, <2>1 DEF TailFrames
<1>5. Enveloped(c, frames) \in SUBSET Envelope
  BY <1>4, EnvelopedType
<1>6. \A f \in frames :
        \/ f \in UpdateFrames(c)'
        \/ f.id = 0 /\ (f.kind \in {"step2", "update"} =>
                          f.ops \subseteq doc'[c] \cup store')
  BY DEF SyncStep1
<1> HIDE DEF frames
<1>7. TypeOK'
  BY <1>1, <1>2, <1>5 DEF TypeOK, SessionTypeOK, RSInv, ChannelTypeOK
<1>8. Grows
  BY <1>1, <1>2 DEF Grows, TypeOK, SessionTypeOK, RSTypeOK
<1>9. NothingLost' /\ QueueShown'
  BY <1>1, <1>2 DEF NothingLost, QueueShown, Merge
<1>10. (\A d \in Client : Closed(doc[d]))'
  BY <1>1, <1>2 DEF Closed
<1>11. FramesCovered'
  BY <1>1, <1>2, <1>6, <1>7, <1>8, <1>9, SendsCovered
<1>12. QED
  BY <1>2, <1>7, <1>8, <1>9, <1>10, <1>11, ClientAssemble

\* An envelope, or a job, whose connection is gone differs in nothing else.
LEMMA OrphanType ==
  ASSUME NEW c \in Client
  PROVE  /\ \A e \in Envelope : /\ Orphan(c, e) \in Envelope
                                /\ Orphan(c, e).client = e.client
                                /\ Orphan(c, e).frame = e.frame
         /\ \A j \in Job : /\ Orphan(c, j) \in Job
                           /\ Orphan(c, j).client = j.client
                           /\ Orphan(c, j).frame = j.frame
                           /\ Orphan(c, j).stage = j.stage
<1>1. ASSUME NEW e \in Envelope
      PROVE  /\ Orphan(c, e) \in Envelope
             /\ Orphan(c, e).client = e.client
             /\ Orphan(c, e).frame = e.frame
  BY DEF Orphan, Envelope
<1>2. ASSUME NEW j \in Job
      PROVE  /\ Orphan(c, j) \in Job
             /\ Orphan(c, j).client = j.client
             /\ Orphan(c, j).frame = j.frame
             /\ Orphan(c, j).stage = j.stage
  BY DEF Orphan, Job
<1>3. QED
  BY <1>1, <1>2

\* A dropped connection loses frames and orphans the rest.
LEMMA DisconnectedInv ==
  ASSUME SyncInv, RSInv', NEW c \in Client, NEW lost \in SUBSET InFlight(c),
         Disconnected(c, lost)
  PROVE  SyncInv'
<1>1. /\ TypeOK /\ NothingLost /\ QueueShown /\ FramesCovered
      /\ \A d \in Client : Closed(doc[d])
  BY DEF SyncInv
<1>2. /\ UNCHANGED <<doc, pending, nextSeq, parked, store, faults>>
      /\ up' = {Orphan(c, e) : e \in up \ lost}
      /\ jobs' = {Orphan(c, j) : j \in jobs}
      /\ down' = [down EXCEPT ![c] = {}]
      /\ subscribed' = [subscribed EXCEPT ![c] = FALSE]
      /\ synced' = [synced EXCEPT ![c] = FALSE]
      /\ drops' = drops + 1
  BY DEF Disconnected, SessionOnDisconnect, OnDisconnect
<1>3. up \subseteq Envelope /\ jobs \subseteq Job
      /\ down \in [Client -> SUBSET Frame]
  BY <1>1 DEF TypeOK, ChannelTypeOK
<1>4. /\ up' \subseteq Envelope
      /\ \A e \in up' : \E d \in up : e.client = d.client /\ e.frame = d.frame
  BY <1>2, <1>3, OrphanType
<1>5. /\ jobs' \subseteq Job
      /\ \A i \in jobs' : \E j \in jobs :
           i.client = j.client /\ i.frame = j.frame /\ i.stage = j.stage
  BY <1>2, <1>3, OrphanType
<1>6. /\ down' \in [Client -> SUBSET Frame]
      /\ \A d \in Client : down'[d] \subseteq down[d]
  BY <1>2, <1>3
<1>7. TypeOK'
  BY <1>1, <1>2, <1>4, <1>5, <1>6 DEF TypeOK, SessionTypeOK, RSInv,
     ChannelTypeOK
<1>8. Grows
  BY <1>1, <1>2 DEF Grows, TypeOK, SessionTypeOK, RSTypeOK
<1>9. NothingLost' /\ QueueShown'
  BY <1>1, <1>2 DEF NothingLost, QueueShown, Merge
<1>10. (\A d \in Client : Closed(doc[d]))'
  BY <1>1, <1>2 DEF Closed
<1>11. FramesCovered'
  BY <1>1, <1>4, <1>7, <1>8, FramesFrom
<1>12. QED
  BY <1>2, <1>5, <1>6, <1>7, <1>8, <1>9, <1>10, <1>11, ClientAssemble

\* Consuming a frame takes nothing else away.
LEMMA ConsumeType ==
  ASSUME TypeOK, NEW c \in Client, NEW f, Consume(c, f)
  PROVE  /\ down' \in [Client -> SUBSET Frame]
         /\ \A d \in Client : down'[d] \subseteq down[d]
  BY DEF Consume, TypeOK

\* What an ack prunes is durable; everything else of the session stands still.
LEMMA AckPrunes ==
  ASSUME SyncInv, NEW c \in Client, NEW f \in down[c], ReceiveAck(c, f)
  PROVE  /\ UNCHANGED <<doc, nextSeq>>
         /\ \A d \in Client : /\ pending'[d] \subseteq pending[d]
                              /\ d # c => pending'[d] = pending[d]
                              /\ Merge(pending'[d]) \subseteq Merge(pending[d])
                              /\ Merge(pending[d])
                                   \subseteq Merge(pending'[d]) \cup store
<1>1. TypeOK /\ RepliesDurable
  BY DEF SyncInv
<1>2. f.kind = "ack" /\ OnAck(c, f.id) /\ UNCHANGED doc
  BY DEF ReceiveAck
<1>3. Covered(c, f.id, {}) /\ f.id \in Nat
  BY <1>1, <1>2 DEF RepliesDurable, TypeOK, Frame
<1>4. pending \in [Client -> SUBSET Entry]
  BY <1>1 DEF TypeOK, SessionTypeOK, RSTypeOK
<1>5. UNCHANGED nextSeq
      /\ \A d \in Client :
           /\ pending'[d] \subseteq pending[d]
           /\ d # c => pending'[d] = pending[d]
           /\ \A p \in pending[d] \ pending'[d] : d = c /\ p.seq =< f.id
  BY <1>2, <1>3, <1>4 DEF OnAck, rsVars, Entry
<1>6. \A d \in Client : \A p \in pending[d] \ pending'[d] :
        p.update \subseteq store
  BY <1>3, <1>5 DEF Covered
<1>7. QED
  BY <1>2, <1>5, <1>6 DEF Merge

\* An ack prunes only durable updates (reliable_sync.ts:108-114).
LEMMA ReceiveAckInv ==
  ASSUME SyncInv, RSInv', NEW c \in Client, NEW f \in down[c],
         ReceiveAck(c, f), UNCHANGED <<channelVars, drops, faults>>
  PROVE  SyncInv'
<1>1. /\ TypeOK /\ NothingLost /\ QueueShown /\ FramesCovered
      /\ \A d \in Client : Closed(doc[d])
  BY DEF SyncInv
<1>2. /\ UNCHANGED <<doc, nextSeq, parked, synced, up, store, subscribed, jobs>>
      /\ Consume(c, f)
  BY AckPrunes DEF ReceiveAck, channelVars
<1>3. /\ down' \in [Client -> SUBSET Frame]
      /\ \A d \in Client : down'[d] \subseteq down[d]
  BY <1>1, <1>2, ConsumeType
<1>4. \A d \in Client : /\ pending'[d] \subseteq pending[d]
                        /\ Merge(pending'[d]) \subseteq Merge(pending[d])
                        /\ Merge(pending[d])
                             \subseteq Merge(pending'[d]) \cup store
  BY AckPrunes
<1>5. TypeOK'
  BY <1>1, <1>2, <1>3 DEF TypeOK, SessionTypeOK, RSInv, ChannelTypeOK
<1>6. Grows
  BY <1>1, <1>2, <1>4 DEF Grows, TypeOK, SessionTypeOK, RSTypeOK
<1>7. NothingLost' /\ QueueShown'
  <2>1. \A d \in Client :
          /\ doc[d] \subseteq store \cup Merge(pending'[d]) \cup Preloaded[d]
          /\ parked[d] \subseteq store
          /\ Merge(pending'[d]) \subseteq doc[d]
    BY <1>1, <1>4 DEF NothingLost, QueueShown
  <2>2. QED
    BY <1>2, <2>1 DEF NothingLost, QueueShown, Merge
<1>8. (\A d \in Client : Closed(doc[d]))'
  BY <1>1, <1>2 DEF Closed
<1>9. FramesCovered'
  BY <1>1, <1>2, <1>5, <1>6, FramesFrom
<1>10. QED
  BY <1>2, <1>3, <1>5, <1>6, <1>7, <1>8, <1>9, ClientAssemble

\* The reply to a SyncStep1 carries content the session holds, and no id.
LEMMA ReceiveStep1Inv ==
  ASSUME SyncInv, RSInv', NEW c \in Client, NEW f \in down[c],
         ReceiveStep1(c, f), UNCHANGED <<channelVars, drops, faults>>
  PROVE  SyncInv'
<1> DEFINE diff   == EncodeDiff(doc[c] \cup parked[c], f.ops)
           frames == {SyncStep2(diff)}
<1>1. /\ TypeOK /\ NothingLost /\ QueueShown /\ FramesCovered
      /\ \A d \in Client : Closed(doc[d])
  BY DEF SyncInv
<1>2. /\ UNCHANGED <<doc, parked, synced, pending, nextSeq>>
      /\ UNCHANGED <<store, subscribed, jobs, drops, faults>>
      /\ up' = up \cup Enveloped(c, frames)
      /\ Consume(c, f)
  BY DEF ReceiveStep1, channelVars, rsVars
<1>3. /\ down' \in [Client -> SUBSET Frame]
      /\ \A d \in Client : down'[d] \subseteq down[d]
  BY <1>1, <1>2, ConsumeType
<1>4. diff \in SUBSET Op /\ diff \subseteq doc[c] \cup store
  <2>1. doc[c] \cup parked[c] \in SUBSET Op /\ parked[c] \subseteq store
    BY <1>1 DEF TypeOK, SessionTypeOK, NothingLost
  <2>2. QED
    BY <2>1, DiffContent
<1> HIDE DEF diff
<1>5. \A g \in frames : g \in Frame /\ g.id = 0 /\ g.ops = diff
  BY <1>4, FrameTypes DEF SyncStep2
<1> HIDE DEF frames
<1>6. Enveloped(c, frames) \in SUBSET Envelope
  BY <1>5, EnvelopedType
<1>7. TypeOK'
  BY <1>1, <1>2, <1>3, <1>6 DEF TypeOK, SessionTypeOK, RSInv, ChannelTypeOK
<1>8. Grows
  BY <1>1, <1>2 DEF Grows, TypeOK, SessionTypeOK, RSTypeOK
<1>9. NothingLost' /\ QueueShown'
  BY <1>1, <1>2 DEF NothingLost, QueueShown, Merge
<1>10. (\A d \in Client : Closed(doc[d]))'
  BY <1>1, <1>2 DEF Closed
<1>11. FramesCovered'
  BY <1>1, <1>2, <1>4, <1>5, <1>7, <1>8, <1>9, SendsCovered
<1>12. QED
  BY <1>2, <1>3, <1>7, <1>8, <1>9, <1>10, <1>11, ClientAssemble

\* What a session makes of an update or a SyncStep2: durable content, applied
\* to a document that stays closed.
LEMMA ContentApplied ==
  ASSUME SyncInv, NEW c \in Client, NEW f \in down[c], ReceiveContent(c, f)
  PROVE  /\ doc' \in [Client -> SUBSET Op] /\ parked' \in [Client -> SUBSET Op]
         /\ \A d \in Client : d # c => doc'[d] = doc[d] /\ parked'[d] = parked[d]
         /\ doc[c] \subseteq doc'[c]
         /\ doc'[c] \subseteq doc[c] \cup store
         /\ parked'[c] \subseteq store
         /\ Closed(doc'[c])
<1> DEFINE pool == parked[c] \cup f.ops
           new  == Integrate(doc[c], pool)
<1>1. TypeOK /\ NothingLost /\ RepliesDurable /\ Closed(doc[c])
  BY DEF SyncInv
<1>2. /\ doc \in [Client -> SUBSET Op] /\ parked \in [Client -> SUBSET Op]
      /\ f.ops \in SUBSET Op
  BY <1>1 DEF TypeOK, SessionTypeOK, Frame
<1>3. pool \subseteq store
  BY <1>1 DEF NothingLost, RepliesDurable, ReceiveContent
<1>4. pool \in SUBSET Op /\ doc[c] \in SUBSET Op
  BY <1>2
<1>5. doc' = [doc EXCEPT ![c] = new] /\ parked' = [parked EXCEPT ![c] = pool \ new]
  BY DEF ReceiveContent
<1> HIDE DEF pool
<1>6. /\ new \in SUBSET Op /\ doc[c] \subseteq new
      /\ new \subseteq doc[c] \cup pool /\ Closed(new)
  BY <1>1, <1>4, IntegrateClosed
<1> HIDE DEF new
<1>7. doc'[c] = new /\ parked'[c] = pool \ new
  BY <1>2, <1>5
<1>8. QED
  BY <1>2, <1>3, <1>4, <1>5, <1>6, <1>7

\* Received content is durable already (y_protocol_session.ts:183-196).
LEMMA ReceiveContentInv ==
  ASSUME SyncInv, RSInv', NEW c \in Client, NEW f \in down[c],
         ReceiveContent(c, f), UNCHANGED <<channelVars, drops, faults>>
  PROVE  SyncInv'
<1>1. /\ TypeOK /\ NothingLost /\ QueueShown /\ FramesCovered
      /\ \A d \in Client : Closed(doc[d])
  BY DEF SyncInv
<1>2. /\ UNCHANGED <<pending, nextSeq, up, store, subscribed, jobs>>
      /\ UNCHANGED <<drops, faults>>
      /\ synced' = [synced EXCEPT ![c] = @ \/ f.kind = "step2"]
      /\ Consume(c, f)
  BY DEF ReceiveContent, channelVars, rsVars
<1>3. /\ down' \in [Client -> SUBSET Frame]
      /\ \A d \in Client : down'[d] \subseteq down[d]
  BY <1>1, <1>2, ConsumeType
<1>4. /\ doc' \in [Client -> SUBSET Op] /\ parked' \in [Client -> SUBSET Op]
      /\ \A d \in Client : /\ doc[d] \subseteq doc'[d]
                           /\ doc'[d] \subseteq doc[d] \cup store
                           /\ parked'[d] \subseteq store
                           /\ Closed(doc'[d])
  <2>1. \A d \in Client : d # c => doc'[d] = doc[d] /\ parked'[d] = parked[d]
    BY ContentApplied
  <2>2. \A d \in Client : d # c =>
          parked'[d] \subseteq store /\ Closed(doc'[d])
    BY <1>1, <2>1 DEF NothingLost
  <2>3. QED
    BY <2>1, <2>2, ContentApplied
<1>5. synced' \in [Client -> BOOLEAN]
  <2>1. synced \in [Client -> BOOLEAN]
    BY <1>1 DEF TypeOK, SessionTypeOK
  <2>2. (synced[c] \/ f.kind = "step2") \in BOOLEAN
    OBVIOUS
  <2>3. QED
    BY <1>2, <2>1, <2>2
<1>6. TypeOK'
  BY <1>1, <1>2, <1>3, <1>4, <1>5 DEF TypeOK, SessionTypeOK, RSInv, ChannelTypeOK
<1>7. Grows
  BY <1>1, <1>2, <1>4 DEF Grows, TypeOK, SessionTypeOK, RSTypeOK
<1>8. NothingLost' /\ QueueShown'
  <2>1. \A d \in Client :
          /\ doc'[d] \subseteq store \cup Merge(pending[d]) \cup Preloaded[d]
          /\ Merge(pending[d]) \subseteq doc'[d]
    BY <1>1, <1>4 DEF NothingLost, QueueShown
  <2>2. QED
    BY <1>2, <1>4, <2>1 DEF NothingLost, QueueShown, Merge
<1>9. (\A d \in Client : Closed(doc[d]))'
  BY <1>4 DEF Closed
<1>10. FramesCovered'
  BY <1>1, <1>2, <1>6, <1>7, FramesFrom
<1>11. QED
  BY <1>2, <1>3, <1>6, <1>7, <1>8, <1>9, <1>10, ClientAssemble

-----------------------------------------------------------------------------
(* The invariant holds initially and after every step.                     *)

\* The invariant holds at the start.
LEMMA InitInv == Init => SyncInv
<1> SUFFICES ASSUME Init PROVE SyncInv
  OBVIOUS
<1>1. RSInv
  BY RSInitInv DEF Init, SessionInit
<1>2. TailComplete
  BY <1>1, RSInvTail
<1>3. TypeOK
  BY <1>1, SessionAssumption, StartAssumption DEF Init, SessionInit, Opened,
     ChannelInit, TypeOK, SessionTypeOK, RSInv, ChannelTypeOK
<1>4. /\ store = Stored /\ up = {} /\ jobs = {}
      /\ \A c \in Client : /\ doc[c] = Stored \/ doc[c] = Preloaded[c]
                           /\ parked[c] = {} /\ pending[c] = {} /\ down[c] = {}
  BY DEF Init, SessionInit, Opened, RSInit, ChannelInit
<1>5. LogGapFree /\ \A c \in Client : Closed(doc[c])
  BY <1>4, SessionAssumption, StartAssumption DEF LogGapFree
<1>6. NothingLost /\ QueueShown /\ FramesCovered /\ JobsCovered /\ RepliesDurable
  BY <1>4 DEF NothingLost, QueueShown, Merge, FramesCovered, JobsCovered,
     RepliesDurable
<1>7. QED
  BY <1>1, <1>2, <1>3, <1>5, <1>6 DEF SyncInv, RSInv

\* Every step preserves the invariant.
LEMMA StepInv == SyncInv /\ [Next]_vars => SyncInv'
<1> SUFFICES ASSUME SyncInv, [Next]_vars PROVE SyncInv'
  OBVIOUS
<1>1. RSInv'
  BY SyncRSInv, QueueStep DEF SyncInv
<1>2. ASSUME NEW c \in Client, NEW k \in ToClient, Receive(c, k)
      PROVE  SyncInv'
  <2>1. PICK f \in down[c] :
          /\ ReceiveAck(c, f) \/ ReceiveStep1(c, f) \/ ReceiveContent(c, f)
          /\ UNCHANGED <<channelVars, drops, faults>>
    BY <1>2 DEF Receive
  <2>2. QED
    BY <1>1, <2>1, ReceiveAckInv, ReceiveStep1Inv, ReceiveContentInv
<1>3. ASSUME NEW c \in Client, NEW lost \in SUBSET InFlight(c),
             Disconnected(c, lost)
      PROVE  SyncInv'
  BY <1>1, <1>3, DisconnectedInv
<1>4. ASSUME NEW w \in Worker, Work(w)
      PROVE  SyncInv'
  <2>1. PICK j \in jobs :
          /\ RecordChange(j) \/ DistributeChange(j) \/ SendAck(j)
          /\ UNCHANGED <<sessionVars, drops, faults>>
    BY <1>4 DEF Work
  <2>2. QED
    BY <1>1, <2>1, RecordInv, DistributeInv, AckInv
<1>5. CASE Fail
  BY <1>1, <1>5, FailInv
<1>6. ASSUME NEW c \in Client, Connected(c) \/ Tick(c)
      PROVE  SyncInv'
  BY <1>1, <1>6, TransportStepInv
<1>7. ASSUME NEW c \in Client, NEW o \in Op, UserEdit(c, o)
      PROVE  SyncInv'
  BY <1>1, <1>7, EditInv
<1>8. CASE UNCHANGED vars
  <2>1. /\ UNCHANGED <<sessionVars, store, subscribed, jobs, up, down>>
        /\ UNCHANGED <<drops, faults>>
    BY <1>8 DEF vars, channelVars
  <2>2. TypeOK /\ Closed(store) /\ JobsCovered /\ RepliesDurable
    BY DEF SyncInv, LogGapFree
  <2>3. TypeOK'
    BY <1>1, <2>1, <2>2 DEF TypeOK, SessionTypeOK, RSInv, ChannelTypeOK,
       sessionVars
  <2>4. Grows => JobsCovered' /\ RepliesDurable'
    BY <2>1, <2>2, <2>3, JobsFrom, RepliesFrom
  <2>5. QED
    BY <1>1, <2>1, <2>2, <2>3, <2>4, ServerAssemble
<1>9. ASSUME NEW c \in Client, Subscribe(c)
      PROVE  SyncInv'
  BY <1>1, <1>9, SubscribeInv
<1>10. ASSUME NEW c \in Client, NEW w \in Worker, NEW k \in ToServer,
              Handle(w, c, k)
       PROVE  SyncInv'
  BY <1>1, <1>10, HandleInv
<1>11. QED
  BY <1>2, <1>3, <1>4, <1>5, <1>6, <1>7, <1>8, <1>9, <1>10 DEF Next

\* So it holds for ever: whatever travels under an id is durable or travels with
\* everything queued below that id (sync.rb:257-307, reliable_sync.ts:108-114).
THEOREM SyncInvariance == Spec => []SyncInv
  BY InitInv, StepInv, PTL DEF Spec

\* The variables of the sessions, the cable and the server keep their types in
\* every behaviour.
THEOREM TypeCorrect == Spec => []TypeOK
<1>1. SyncInv => TypeOK
  BY DEF SyncInv
<1>2. QED
  BY <1>1, SyncInvariance, PTL

\* Workers that record from stale snapshots, in any order and with failures in
\* between, never leave a gap in the durable log (sync.rb:282-299).
THEOREM LogCausallyComplete == Spec => []LogGapFree
<1>1. SyncInv => LogGapFree
  BY DEF SyncInv
<1>2. QED
  BY <1>1, SyncInvariance, PTL

\* An edit is queued at its author until it is durable, and nobody is shown an
\* edit that is not: whatever is lost, duplicated, reordered or failed half way
\* (reliable_sync.ts:108-114, sync.rb:257-307).
THEOREM NoEditLost == Spec => []NothingLost
<1>1. SyncInv => NothingLost
  BY DEF SyncInv
<1>2. QED
  BY <1>1, SyncInvariance, PTL

\* Inside the system too, a flush transmits the whole unacknowledged tail under
\* the id that acknowledges all of it (reliable_sync.ts:97-100, 147-153).
THEOREM SystemTailComplete == Spec => []TailComplete
<1>1. SyncInv => TailComplete
  BY DEF SyncInv
<1>2. QED
  BY <1>1, SyncInvariance, PTL

-----------------------------------------------------------------------------
(* The system implements DurableDoc.                                       *)

Queued == [c \in Client |-> Merge(pending[c])]

\* An edit is a write.
LEMMA EditWrites ==
  ASSUME SyncInv, NEW c \in Client, NEW o \in Op, UserEdit(c, o)
  PROVE  Promise!Write(c, o)
<1> DEFINE p == [seq |-> nextSeq[c], update |-> {o}]
<1>1. /\ doc' = [doc EXCEPT ![c] = doc[c] \cup {o}]
      /\ pending' = [pending EXCEPT ![c] = pending[c] \cup {p}]
      /\ o \notin doc[c] /\ Past[o] \subseteq doc[c]
      /\ UNCHANGED store
  BY DEF UserEdit, Edit, Enqueue, channelVars
<1>2. pending \in [Client -> SUBSET Entry]
  BY DEF SyncInv, TypeOK, SessionTypeOK, RSTypeOK
<1>3. /\ pending'[c] = pending[c] \cup {p}
      /\ \A d \in Client \ {c} : pending'[d] = pending[d]
  BY <1>1, <1>2
<1>4. p.update = {o}
  OBVIOUS
<1> HIDE DEF p
<1>5. Merge(pending[c] \cup {p}) = Merge(pending[c]) \cup p.update
  BY DEF Merge
<1>6. Queued' = [Queued EXCEPT ![c] = Queued[c] \cup {o}]
  <2>1. Queued'[c] = Queued[c] \cup {o}
    BY <1>3, <1>4, <1>5 DEF Queued
  <2>2. \A d \in Client \ {c} : Queued'[d] = Queued[d]
    BY <1>3 DEF Queued
  <2>3. QED
    BY <2>1, <2>2 DEF Queued
<1>7. QED
  BY <1>1, <1>6 DEF Promise!Write, Queued

\* An ack that prunes the queue confirms the operations it takes out of it.
LEMMA AckConfirms ==
  ASSUME SyncInv, NEW c \in Client, NEW f \in down[c], ReceiveAck(c, f),
         UNCHANGED channelVars
  PROVE  \E S \in SUBSET Op : Promise!Confirm(c, S)
<1> DEFINE S == Queued[c] \ Queued'[c]
<1>1. /\ UNCHANGED <<doc, store>>
      /\ \A d \in Client : /\ d # c => pending'[d] = pending[d]
                           /\ Queued'[d] \subseteq Queued[d]
                           /\ Queued[d] \subseteq Queued'[d] \cup store
  BY AckPrunes DEF Queued, channelVars
<1>2. \A d \in Client \ {c} : Queued'[d] = Queued[d]
  BY <1>1 DEF Queued
<1>3. Queued'[c] = Queued[c] \ S
  BY <1>1
<1>4. S \subseteq store /\ store \in SUBSET Op
  BY <1>1 DEF SyncInv, TypeOK, ChannelTypeOK
<1> HIDE DEF S
<1>5. Queued' = [Queued EXCEPT ![c] = Queued[c] \ S]
  BY <1>2, <1>3 DEF Queued
<1>6. Promise!Confirm(c, S)
  BY <1>1, <1>4, <1>5 DEF Promise!Confirm, Queued
<1>7. QED
  BY <1>4, <1>6

\* A received update or SyncStep2 shows durable operations.
LEMMA ContentShows ==
  ASSUME SyncInv, NEW c \in Client, NEW f \in down[c], ReceiveContent(c, f),
         UNCHANGED channelVars
  PROVE  \E S \in SUBSET Op : Promise!Show(c, S)
<1> DEFINE S == doc'[c] \ doc[c]
<1>1. /\ \A d \in Client : d # c => doc'[d] = doc[d]
      /\ doc[c] \subseteq doc'[c] /\ S \subseteq store /\ Closed(doc'[c])
      /\ doc' \in [Client -> SUBSET Op]
  BY ContentApplied
<1>2. doc \in [Client -> SUBSET Op] /\ store \in SUBSET Op
  BY DEF SyncInv, TypeOK, SessionTypeOK, ChannelTypeOK
<1>3. UNCHANGED <<store, pending>>
  BY DEF ReceiveContent, rsVars, channelVars
<1>4. doc'[c] = doc[c] \cup S
  BY <1>1
<1> HIDE DEF S
<1>5. doc' = [doc EXCEPT ![c] = doc[c] \cup S]
  BY <1>1, <1>2, <1>4
<1>6. Promise!Show(c, S)
  BY <1>1, <1>3, <1>4, <1>5 DEF Promise!Show, Promise!Closed, Closed
<1>7. QED
  BY <1>1, <1>2, <1>6

\* A recorded update is durable from then on; what it holds was in view.
LEMMA RecordPersists ==
  ASSUME SyncInv, SyncInv', NEW j \in jobs, RecordChange(j),
         UNCHANGED sessionVars
  PROVE  \E S \in SUBSET Op : Promise!Persist(S)
<1> DEFINE S == j.frame.ops \ store
<1>1. j.client \in Client /\ j.frame.ops \in SUBSET Op
      /\ j.frame.ops \subseteq doc[j.client] \cup store
  BY DEF SyncInv, TypeOK, ChannelTypeOK, Job, Frame, JobsCovered
<1>2. store' = store \cup j.frame.ops /\ UNCHANGED <<doc, pending>>
  BY DEF RecordChange, sessionVars, rsVars
<1>3. Closed(store')
  BY DEF SyncInv, LogGapFree, Closed
<1>4. store' = store \cup S /\ S \in SUBSET Op /\ S \subseteq doc[j.client]
  BY <1>1, <1>2
<1> HIDE DEF S
<1>5. Promise!Persist(S)
  BY <1>1, <1>2, <1>3, <1>4 DEF Promise!Persist, Promise!Closed, Closed
<1>6. QED
  BY <1>4, <1>5

\* Every other step is invisible.
LEMMA StepKeepsPromise ==
  SyncInv /\ SyncInv' /\ [Next]_vars => [Promise!AbsNext]_(Promise!absVars)
<1> SUFFICES ASSUME SyncInv, SyncInv', [Next]_vars
             PROVE  [Promise!AbsNext]_(Promise!absVars)
  OBVIOUS
<1>1. UNCHANGED <<store, doc, pending>> => UNCHANGED Promise!absVars
  BY DEF Promise!absVars
<1>2. ASSUME NEW c \in Client, NEW k \in ToClient, Receive(c, k)
      PROVE  [Promise!AbsNext]_(Promise!absVars)
  <2>1. PICK f \in down[c] :
          /\ ReceiveAck(c, f) \/ ReceiveStep1(c, f) \/ ReceiveContent(c, f)
          /\ UNCHANGED <<channelVars, drops, faults>>
    BY <1>2 DEF Receive
  <2>2. CASE ReceiveAck(c, f)
    BY <2>1, <2>2, AckConfirms DEF Promise!AbsNext
  <2>3. CASE ReceiveContent(c, f)
    BY <2>1, <2>3, ContentShows DEF Promise!AbsNext
  <2>4. CASE ReceiveStep1(c, f)
    BY <1>1, <2>1, <2>4 DEF ReceiveStep1, rsVars, channelVars
  <2>5. QED
    BY <2>1, <2>2, <2>3, <2>4
<1>3. ASSUME NEW w \in Worker, Work(w)
      PROVE  [Promise!AbsNext]_(Promise!absVars)
  <2>1. PICK j \in jobs :
          /\ RecordChange(j) \/ DistributeChange(j) \/ SendAck(j)
          /\ UNCHANGED sessionVars
    BY <1>3 DEF Work
  <2>2. CASE RecordChange(j)
    BY <2>1, <2>2, RecordPersists DEF Promise!AbsNext
  <2>3. CASE DistributeChange(j) \/ SendAck(j)
    BY <1>1, <2>1, <2>3 DEF DistributeChange, SendAck, sessionVars, rsVars
  <2>4. QED
    BY <2>1, <2>2, <2>3
<1>4. ASSUME NEW c \in Client, NEW o \in Op, UserEdit(c, o)
      PROVE  [Promise!AbsNext]_(Promise!absVars)
  BY <1>4, EditWrites DEF Promise!AbsNext
<1>5. ASSUME NEW c \in Client, Connected(c) \/ Tick(c) \/ Subscribe(c)
      PROVE  UNCHANGED <<store, doc, pending>>
  BY <1>5 DEF Connected, SessionOnConnect, OnConnect, Tick, SessionTick, OnTick,
     Subscribe, SyncSubscribed, sessionVars, rsVars, channelVars
<1>6. ASSUME NEW c \in Client, NEW lost \in SUBSET InFlight(c),
             Disconnected(c, lost)
      PROVE  UNCHANGED <<store, doc, pending>>
  BY <1>6 DEF Disconnected, SessionOnDisconnect, OnDisconnect
<1>7. ASSUME NEW c \in Client, NEW w \in Worker, NEW k \in ToServer,
             Handle(w, c, k)
      PROVE  UNCHANGED <<store, doc, pending>>
  BY <1>7 DEF Handle, HandleStep1, DropFrame, RejectGap, AcceptUpdate,
     sessionVars, rsVars, channelVars
<1>8. CASE Fail
  BY <1>1, <1>8 DEF Fail, Abort, LoadRaises, sessionVars, rsVars, channelVars
<1>9. CASE UNCHANGED vars
  BY <1>1, <1>9 DEF vars, sessionVars, rsVars, channelVars
<1>10. QED
  BY <1>1, <1>2, <1>3, <1>4, <1>5, <1>6, <1>7, <1>8, <1>9 DEF Next

\* The whole system keeps the promise of DurableDoc: a change is durable before
\* anyone else sees it, and leaves its author's queue only once it is durable
\* (sync.rb:257-307, reliable_sync.ts:108-114).
THEOREM ImplementsDurableDoc == Spec => KeepsPromise
<1>1. Init => Promise!AbsInit
  BY DEF Init, SessionInit, RSInit, ChannelInit, Merge, Promise!AbsInit
<1>2. QED
  BY <1>1, StepKeepsPromise, SyncInvariance, PTL
     DEF Spec, KeepsPromise, Promise!AbsSpec
-----------------------------------------------------------------------------
(* What goes up is never gapped.                                           *)

NothingOfOld == \A c \in Client : Preloaded[c] = {}

\* With nothing from before the session, the unacknowledged tail builds on what
\* is durable and on itself.
LEMMA TailReady ==
  ASSUME SyncInv, NothingOfOld
  PROVE  \A c \in Client : \A g \in UpdateFrames(c) : UpdateReady(store, g.ops)
<1> SUFFICES ASSUME NEW c \in Client, NEW g \in UpdateFrames(c)
             PROVE  UpdateReady(store, g.ops)
  OBVIOUS
<1>1. g.ops = Merge(pending[c])
  BY SyncRSInv, UpdateFramesCovered DEF TailFrames
<1>2. g.ops \subseteq doc[c] /\ Closed(doc[c])
  BY <1>1 DEF SyncInv, QueueShown
<1>3. doc[c] \subseteq store \cup g.ops
  BY <1>1 DEF SyncInv, NothingLost, NothingOfOld
<1>4. QED
  BY <1>2, <1>3 DEF UpdateReady, Closed

\* A step whose new Updates are the tails of queues.
LEMMA TailStep ==
  ASSUME TailNeverGaps, SyncInv', NothingOfOld, store \subseteq store',
         \A e \in up' :
           \/ \E d \in up : e.frame = d.frame
           \/ e.frame.kind # "update"
           \/ \E c \in Client : e.frame \in UpdateFrames(c)'
  PROVE  TailNeverGaps'
<1>1. (SyncInv /\ NothingOfOld =>
         \A c \in Client : \A g \in UpdateFrames(c) : UpdateReady(store, g.ops))'
  BY TailReady, PTL
<1>2. \A c \in Client : \A g \in UpdateFrames(c)' : UpdateReady(store', g.ops)
  BY <1>1 DEF NothingOfOld
<1> SUFFICES ASSUME NEW e \in up', e.frame.kind = "update"
             PROVE  UpdateReady(store', e.frame.ops)
  BY DEF TailNeverGaps
<1>3. CASE \E d \in up : e.frame = d.frame
  BY <1>3 DEF TailNeverGaps, UpdateReady
<1>4. CASE \E c \in Client : e.frame \in UpdateFrames(c)'
  BY <1>2, <1>4
<1>5. QED
  BY <1>3, <1>4

\* What Enveloped puts on the cable.
LEMMA EnvelopedFrames ==
  ASSUME NEW c, NEW frames, NEW e \in Enveloped(c, frames)
  PROVE  e.frame \in frames
  BY DEF Enveloped

\* Every step keeps the tails complete.
LEMMA TailInv ==
  SyncInv /\ SyncInv' /\ NothingOfOld /\ TailNeverGaps /\ [Next]_vars
    => TailNeverGaps'
<1> SUFFICES ASSUME SyncInv, SyncInv', NothingOfOld, TailNeverGaps, [Next]_vars
             PROVE  TailNeverGaps'
  OBVIOUS
<1>1. ASSUME NEW c \in Client, NEW frames,
             up' = up \cup Enveloped(c, frames), UNCHANGED store,
             \A g \in frames : g.kind # "update" \/ g \in UpdateFrames(c)'
      PROVE  TailNeverGaps'
  BY <1>1, EnvelopedFrames, TailStep
<1>2. ASSUME up' \subseteq up, store \subseteq store'
      PROVE  TailNeverGaps'
  BY <1>2, TailStep
<1>3. ASSUME NEW c \in Client, Connected(c)
      PROVE  TailNeverGaps'
  BY <1>3, <1>1 DEF Connected, SessionOnConnect, SyncStep1, channelVars
<1>4. ASSUME NEW c \in Client, Tick(c)
      PROVE  TailNeverGaps'
  BY <1>4, <1>1 DEF Tick, SessionTick, channelVars
<1>5. ASSUME NEW c \in Client, NEW o \in Op, UserEdit(c, o)
      PROVE  TailNeverGaps'
  BY <1>5, <1>1 DEF UserEdit, Edit, channelVars
<1>6. ASSUME NEW c \in Client, NEW k \in ToClient, Receive(c, k)
      PROVE  TailNeverGaps'
  <2>1. PICK f \in down[c] :
          /\ ReceiveAck(c, f) \/ ReceiveStep1(c, f) \/ ReceiveContent(c, f)
          /\ UNCHANGED store
    BY <1>6 DEF Receive, channelVars
  <2>2. CASE ReceiveStep1(c, f)
    BY <2>1, <2>2, <1>1 DEF ReceiveStep1, SyncStep2
  <2>3. CASE ReceiveAck(c, f) \/ ReceiveContent(c, f)
    BY <2>1, <2>3, <1>2 DEF ReceiveAck, ReceiveContent
  <2>4. QED
    BY <2>1, <2>2, <2>3
<1>7. ASSUME NEW c \in Client, NEW lost \in SUBSET InFlight(c),
             Disconnected(c, lost)
      PROVE  TailNeverGaps'
  <2>1. up' = {Orphan(c, e) : e \in up \ lost} /\ UNCHANGED store
    BY <1>7 DEF Disconnected
  <2>2. \A e \in up : Orphan(c, e).frame = e.frame
    BY DEF Orphan, SyncInv, TypeOK, Envelope
  <2>3. QED
    BY <2>1, <2>2, TailStep
<1>8. ASSUME NEW c \in Client, Subscribe(c)
      PROVE  TailNeverGaps'
  BY <1>8, <1>2 DEF Subscribe, SyncSubscribed
<1>9. ASSUME NEW c \in Client, NEW w \in Worker, NEW k \in ToServer,
             Handle(w, c, k)
      PROVE  TailNeverGaps'
  BY <1>9, <1>2 DEF Handle, HandleStep1, DropFrame, RejectGap, AcceptUpdate,
     channelVars
<1>10. ASSUME NEW w \in Worker, Work(w)
       PROVE  TailNeverGaps'
  BY <1>10, <1>2 DEF Work, RecordChange, DistributeChange, SendAck
<1>11. CASE Fail
  BY <1>11, <1>2 DEF Fail, Abort, LoadRaises, channelVars
<1>12. CASE UNCHANGED vars
  BY <1>12, <1>2 DEF vars, channelVars
<1>13. QED
  BY <1>3, <1>4, <1>5, <1>6, <1>7, <1>8, <1>9, <1>10, <1>11, <1>12 DEF Next

\* Clients that start from an empty document never send the server an Update it
\* would have to reject: every merged tail is complete against the store on
\* arrival, however late, and from whatever connection (reliable_sync.ts:2-4).
THEOREM TailsComplete == NothingOfOld => (Spec => []TailNeverGaps)
<1>1. Init => TailNeverGaps
  BY DEF Init, TailNeverGaps
<1>2. NothingOfOld /\ Spec => []TailNeverGaps
  <2> SUFFICES ASSUME NothingOfOld
               PROVE  Spec => []TailNeverGaps
    OBVIOUS
  <2>1. SyncInv /\ SyncInv' /\ TailNeverGaps /\ [Next]_vars => TailNeverGaps'
    BY TailInv
  <2>2. QED
    BY <1>1, <2>1, SyncInvariance, PTL DEF Spec
<1>3. QED
  BY <1>2

-----------------------------------------------------------------------------
(* The size cap.                                                           *)

\* For every cap and every frame size the check before decoding agrees with the
\* cap on the decoded bytes, up to three bytes it lets through (sync.rb:131-152).
LEMMA CapArithmetic ==
  ASSUME NEW n \in Nat, NEW cap \in Nat
  PROVE  CapAgrees(n, cap)
BY DEF CapAgrees, TooLarge, EncodedSize, EncodedLimit

\* So it does for every frame on its way, with finitely many operations of any
\* size (sync.rb:131-152).
THEOREM CapIsExact ==
  ASSUME IsFiniteSet(Op)
  PROVE  /\ \A n, cap \in Nat : CapAgrees(n, cap)
         /\ Spec => []CapExact
<1>1. \A n, cap \in Nat : CapAgrees(n, cap)
  BY CapArithmetic
<1>2. TypeOK => CapExact
  <2> SUFFICES ASSUME TypeOK, NEW e \in up, NEW bytes \in 0 .. 12, NEW cap \in 0 .. 12
               PROVE  CapAgrees(bytes * Cardinality(e.frame.ops), cap)
    BY DEF CapExact
  <2>1. e.frame.ops \subseteq Op
    BY DEF TypeOK, Envelope, Frame
  <2>2. Cardinality(e.frame.ops) \in Nat
    BY <2>1, FS_Subset, FS_CardinalityType
  <2>3. bytes * Cardinality(e.frame.ops) \in Nat
    BY <2>2
  <2>4. QED
    BY <2>3, CapArithmetic
<1>3. Spec => []CapExact
  BY <1>2, TypeCorrect, PTL
<1>4. QED
  BY <1>1, <1>3
=============================================================================
