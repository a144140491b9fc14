-------------------------- MODULE ConvergenceProofs --------------------------
(***************************************************************************)
(* What is quiet agrees: theorems about YrbySync for any number of clients,*)
(* operations and workers.  An operation that leaves its author's queue is *)
(* on its way to every connected client, and once nothing is on its way at *)
(* all, every document equals the store.                                   *)
(***************************************************************************)
EXTENDS YrbySyncProofs

-----------------------------------------------------------------------------
(* The invariant.                                                          *)

\* A client that believes it is connected streams the document.
ConnectedStreams == \A c \in Client : connected[c] => subscribed[c]

\* Whoever asks for what it lacks still has what it said it has, and whoever is
\* asked is told no more than the store holds.
ClocksTrue ==
  /\ \A e \in up : e.frame.kind = "step1" => e.frame.ops \subseteq doc[e.client]
  /\ \A c \in Client : \A f \in down[c] :
       f.kind = "step1" => f.ops \subseteq store

\* A frame holds everything queued at its sender under its id or below.
Carries(c, f) == \A p \in pending[c] : p.seq =< f.id => p.update \subseteq f.ops

TailsCarried ==
  /\ \A e \in up : Carries(e.client, e.frame)
  /\ \A j \in jobs : Carries(j.client, j.frame)

\* What is parked lacks something.
ParkedBlocked ==
  \A c \in Client : \A o \in parked[c] :
    ~(Past[o] \subseteq doc[c] \cup parked[c])

\* An insertion of a client is nowhere before it is in that client's document.
AuthorFirst ==
  \A c, d \in Client :
    (Own[c] \ Delete) \cap (store \cup doc[d]) \subseteq doc[c]

\* Every client has o, or is sure to get it.
Told(o) == \A c \in Client : OnItsWay(c, o)

\* An acknowledgement, on its way or about to be sent, is for operations that
\* everybody has been told.
AcksTold ==
  /\ \A j \in jobs : j.stage = "ack" => \A o \in j.frame.ops : Told(o)
  /\ \A c \in Client : \A f \in down[c] :
       f.kind = "ack" =>
         \A p \in pending[c] : p.seq =< f.id => \A o \in p.update : Told(o)

\* What is stored has been told to everybody, unless an author still queues it
\* or it is content from before the sessions.
StoreTold ==
  \A o \in store :
    Told(o) \/ \E c \in Client : o \in Merge(pending[c]) \cup Preloaded[c]

\* If no handler has failed, a worker is about to tell the rest.
StoreBroadcast ==
  faults = 0 =>
    \A o \in store :
      Told(o) \/ \E j \in jobs : j.stage = "distribute" /\ o \in j.frame.ops

\* The cap lets every update pass.
Roomy == \A u \in SUBSET Op : ~TooLarge(Cardinality(u), MaxFrameOps)

\* o, in client c's document, is stored or queued or on its way to the store, or
\* will be asked for.
Offered(c, o) ==
  \/ o \in store \cup Merge(pending[c])
  \/ ~subscribed[c]
  \/ \E f \in down[c] : f.kind = "step1"
  \/ \E e \in up : /\ e.client = c /\ e.live
                   /\ e.frame.kind = "step2" /\ o \in e.frame.ops
  \/ \E j \in jobs : j.stage = "record" /\ o \in j.frame.ops

OldOffered ==
  faults = 0 /\ Roomy => \A c \in Client : \A o \in doc[c] : Offered(c, o)

\* The parts that need no assumption about failures.
BaseInv ==
  /\ ConnectedStreams
  /\ ClocksTrue
  /\ TailsCarried
  /\ ParkedBlocked
  /\ AuthorFirst
  /\ OldOffered

\* And those that need every SyncStep1 to be answered.
ToldInv == AllAnswered => AcksTold /\ StoreTold /\ StoreBroadcast

\* Nothing has gone wrong with the answers: faults are only ever counted up.
ConvergenceInv == SyncInv /\ BaseInv /\ ToldInv

-----------------------------------------------------------------------------
(* What a step does, read off once.                                        *)

\* A step of a session and the frame it takes up.
Taking(c, f) ==
  /\ ReceiveAck(c, f) \/ ReceiveStep1(c, f) \/ ReceiveContent(c, f)
  /\ UNCHANGED <<channelVars, drops, faults>>

\* A worker takes up an envelope.
Handling(w, e) ==
  /\ HandleStep1(e) \/ DropFrame(e) \/ RejectGap(e) \/ AcceptUpdate(w, e)
  /\ UNCHANGED <<sessionVars, drops, faults>>

\* A worker carries on with a job.
Working(j) ==
  /\ RecordChange(j) \/ DistributeChange(j) \/ SendAck(j)
  /\ UNCHANGED <<sessionVars, drops, faults>>

\* A handler fails, before its checks or after them.
Failing ==
  /\ faults' = faults + 1
  /\ UNCHANGED <<sessionVars, store, subscribed, down>>
  /\ \/ UNCHANGED up /\ jobs' \subseteq jobs
     \/ /\ UNCHANGED jobs
        /\ \E e \in up : up' = up \ {e} /\ e.frame.kind \in LoadFails

\* Nothing happens.
Resting ==
  UNCHANGED <<sessionVars, store, subscribed, jobs, up, down, faults>>

\* Every step is one of these.
LEMMA StepKinds ==
  ASSUME [Next]_vars
  PROVE  \/ \E c \in Client : Subscribe(c)
         \/ \E c \in Client : Connected(c)
         \/ \E c \in Client : \E lost \in SUBSET InFlight(c) :
              Disconnected(c, lost)
         \/ \E c \in Client : \E o \in Op : UserEdit(c, o)
         \/ \E c \in Client : Tick(c)
         \/ \E c \in Client : \E f \in down[c] : Taking(c, f)
         \/ \E w \in Worker : \E e \in up : Handling(w, e)
         \/ \E j \in jobs : Working(j)
         \/ Failing
         \/ Resting
<1>1. ASSUME NEW c \in Client, NEW k \in ToClient, Receive(c, k)
      PROVE  \E f \in down[c] : Taking(c, f)
  BY <1>1 DEF Receive, Taking
<1>2. ASSUME NEW c \in Client, NEW w \in Worker, NEW k \in ToServer,
             Handle(w, c, k)
      PROVE  \E e \in up : Handling(w, e)
  BY <1>2 DEF Handle, Handling
<1>3. ASSUME NEW w \in Worker, Work(w)
      PROVE  \E j \in jobs : Working(j)
  BY <1>3 DEF Work, Working
<1>4. CASE Fail
  BY <1>4 DEF Fail, Abort, LoadRaises, Failing, channelVars
<1>5. CASE UNCHANGED vars
  BY <1>5 DEF vars, Resting, channelVars
<1>6. QED
  BY <1>1, <1>2, <1>3, <1>4, <1>5 DEF Next

\* An edit appends to its author's queue and document.
LEMMA EditEffect ==
  ASSUME TypeOK, NEW c \in Client, NEW o \in Op, UserEdit(c, o)
  PROVE  /\ o \in Own[c] \ doc[c] /\ Past[o] \subseteq doc[c]
         /\ doc'[c] = doc[c] \cup {o}
         /\ o \in Merge(pending'[c])
         /\ \A d \in Client :
              /\ d # c => doc'[d] = doc[d] /\ pending'[d] = pending[d]
              /\ nextSeq[d] =< nextSeq'[d]
              /\ pending[d] \subseteq pending'[d]
              /\ \A p \in pending'[d] : p \in pending[d] \/ p.seq >= nextSeq[d]
         /\ up' = up \cup Enveloped(c, UpdateFrames(c)')
         /\ UNCHANGED <<parked, connected, down, store, subscribed, jobs, faults>>
<1> DEFINE p == [seq |-> nextSeq[c], update |-> {o}]
<1>1. /\ doc' = [doc EXCEPT ![c] = doc[c] \cup {o}]
      /\ pending' = [pending EXCEPT ![c] = pending[c] \cup {p}]
      /\ nextSeq' = [nextSeq EXCEPT ![c] = nextSeq[c] + 1]
      /\ up' = up \cup Enveloped(c, UpdateFrames(c)')
      /\ o \in Own[c] \ doc[c] /\ Past[o] \subseteq doc[c]
      /\ UNCHANGED <<parked, connected, down, store, subscribed, jobs, faults>>
  BY DEF UserEdit, Edit, Enqueue, channelVars
<1>2. /\ doc \in [Client -> SUBSET Op] /\ pending \in [Client -> SUBSET Entry]
      /\ nextSeq \in [Client -> Nat \ {0}]
  BY DEF TypeOK, SessionTypeOK, RSTypeOK
<1>3. p.seq = nextSeq[c] /\ p.update = {o}
  OBVIOUS
<1> HIDE DEF p
<1>4. /\ pending'[c] = pending[c] \cup {p}
      /\ \A d \in Client \ {c} : pending'[d] = pending[d]
  BY <1>1, <1>2
<1>5. o \in Merge(pending'[c])
  BY <1>3, <1>4 DEF Merge
<1>6. \A d \in Client :
        /\ d # c => doc'[d] = doc[d] /\ pending'[d] = pending[d]
        /\ nextSeq[d] =< nextSeq'[d]
        /\ pending[d] \subseteq pending'[d]
        /\ \A q \in pending'[d] : q \in pending[d] \/ q.seq >= nextSeq[d]
  BY <1>1, <1>2, <1>3, <1>4
<1>7. QED
  BY <1>1, <1>2, <1>5, <1>6

\* Content goes into the document or stays parked; what stays lacks something.
LEMMA ContentEffect ==
  ASSUME TypeOK, NEW c \in Client, NEW f \in down[c], ReceiveContent(c, f)
  PROVE  /\ \A d \in Client : d # c => doc'[d] = doc[d] /\ parked'[d] = parked[d]
         /\ doc'[c] \cup parked'[c] = doc[c] \cup parked[c] \cup f.ops
         /\ \A o \in parked'[c] : ~(Past[o] \subseteq doc'[c] \cup parked'[c])
         /\ down' = [down EXCEPT ![c] = down[c] \ {f}]
         /\ UNCHANGED <<up, rsVars>>
<1> DEFINE pool == parked[c] \cup f.ops
           new  == Integrate(doc[c], pool)
<1>1. /\ doc' = [doc EXCEPT ![c] = new]
      /\ parked' = [parked EXCEPT ![c] = pool \ new]
      /\ down' = [down EXCEPT ![c] = down[c] \ {f}]
      /\ UNCHANGED <<up, rsVars>>
  BY DEF ReceiveContent, Consume
<1>2. doc \in [Client -> SUBSET Op] /\ parked \in [Client -> SUBSET Op]
  BY DEF TypeOK, SessionTypeOK
<1>3. new \cup (pool \ new) = doc[c] \cup pool
  BY DEF Integrate
<1>4. \A o \in pool \ new : ~(Past[o] \subseteq doc[c] \cup pool)
  BY DEF Integrate
<1> HIDE DEF new
<1>5. doc'[c] = new /\ parked'[c] = pool \ new
  BY <1>1, <1>2
<1>6. QED
  BY <1>1, <1>2, <1>3, <1>4, <1>5

\* Documents and queues change in three kinds of steps only.
LEMMA SessionsRest ==
  ASSUME [Next]_vars
  PROVE  \/ UNCHANGED <<doc, parked, pending, nextSeq>>
         \/ \E c \in Client : \E o \in Op : UserEdit(c, o)
         \/ \E c \in Client : \E f \in down[c] :
              (ReceiveAck(c, f) \/ ReceiveContent(c, f)) /\ Taking(c, f)
<1>1. ASSUME NEW c \in Client, Connected(c) \/ Tick(c)
      PROVE  UNCHANGED <<doc, parked, pending, nextSeq>>
  BY <1>1 DEF Connected, SessionOnConnect, OnConnect, Tick, SessionTick, OnTick
<1>2. ASSUME NEW c \in Client, NEW lost \in SUBSET InFlight(c),
             Disconnected(c, lost)
      PROVE  UNCHANGED <<doc, parked, pending, nextSeq>>
  BY <1>2 DEF Disconnected, SessionOnDisconnect, OnDisconnect
<1>3. ASSUME NEW c \in Client, NEW f \in down[c], Taking(c, f)
      PROVE  \/ UNCHANGED <<doc, parked, pending, nextSeq>>
             \/ ReceiveAck(c, f) \/ ReceiveContent(c, f)
  BY <1>3 DEF Taking, ReceiveStep1, rsVars
<1>4. UNCHANGED sessionVars => UNCHANGED <<doc, parked, pending, nextSeq>>
  BY DEF sessionVars, rsVars
<1>5. ASSUME NEW c \in Client, Subscribe(c)
      PROVE  UNCHANGED sessionVars
  BY <1>5 DEF Subscribe
<1>6. QED
  BY StepKinds, <1>1, <1>2, <1>3, <1>4, <1>5 DEF Handling, Working, Failing, Resting

\* Every step lets the store, the documents and the content at each client grow,
\* and the queues as Grows says.
LEMMA StepGrows ==
  ASSUME SyncInv, [Next]_vars
  PROVE  /\ Grows
         /\ \A c \in Client : doc[c] \cup parked[c] \subseteq doc'[c] \cup parked'[c]
<1>1. TypeOK
  BY DEF SyncInv
<1>2. store \subseteq store'
  <2>1. ASSUME NEW w \in Worker, NEW e \in up, Handling(w, e)
        PROVE  UNCHANGED store
    BY <2>1 DEF Handling, HandleStep1, DropFrame, RejectGap, AcceptUpdate,
       channelVars
  <2>2. ASSUME NEW j \in jobs, Working(j)
        PROVE  store \subseteq store'
    BY <2>2 DEF Working, RecordChange, DistributeChange, SendAck
  <2>3. QED
    BY StepKinds, <2>1, <2>2 DEF Subscribe, SyncSubscribed, Connected, Disconnected,
       UserEdit, Tick, Taking, Failing, Resting, channelVars
<1>3. /\ doc \in [Client -> SUBSET Op] /\ parked \in [Client -> SUBSET Op]
      /\ pending \in [Client -> SUBSET Entry] /\ nextSeq \in [Client -> Nat \ {0}]
  BY <1>1 DEF TypeOK, SessionTypeOK, RSTypeOK
<1>4. CASE UNCHANGED <<doc, parked, pending, nextSeq>>
  BY <1>2, <1>3, <1>4 DEF Grows
<1>5. ASSUME NEW c \in Client, NEW o \in Op, UserEdit(c, o)
      PROVE  /\ Grows
             /\ \A d \in Client :
                  doc[d] \cup parked[d] \subseteq doc'[d] \cup parked'[d]
  <2>1. UNCHANGED parked
        /\ \A d \in Client : /\ doc[d] \subseteq doc'[d]
                             /\ nextSeq[d] =< nextSeq'[d]
                             /\ \A p \in pending'[d] :
                                  p \in pending[d] \/ p.seq >= nextSeq[d]
    BY <1>1, <1>5, EditEffect
  <2>2. QED
    BY <1>2, <2>1 DEF Grows
<1>6. ASSUME NEW c \in Client, NEW f \in down[c], ReceiveAck(c, f)
      PROVE  /\ Grows
             /\ \A d \in Client :
                  doc[d] \cup parked[d] \subseteq doc'[d] \cup parked'[d]
  <2>1. UNCHANGED <<doc, nextSeq>>
        /\ \A d \in Client : pending'[d] \subseteq pending[d]
    BY <1>6, AckPrunes
  <2>2. UNCHANGED parked
    BY <1>6 DEF ReceiveAck
  <2>3. QED
    BY <1>2, <1>3, <2>1, <2>2 DEF Grows
<1>7. ASSUME NEW c \in Client, NEW f \in down[c], ReceiveContent(c, f)
      PROVE  /\ Grows
             /\ \A d \in Client :
                  doc[d] \cup parked[d] \subseteq doc'[d] \cup parked'[d]
  <2>1. \A d \in Client : /\ doc[d] \subseteq doc'[d]
                          /\ doc[d] \cup parked[d] \subseteq doc'[d] \cup parked'[d]
    BY <1>1, <1>7, ContentApplied, ContentEffect
  <2>2. UNCHANGED <<pending, nextSeq>>
    BY <1>7 DEF ReceiveContent, rsVars
  <2>3. QED
    BY <1>2, <1>3, <2>1, <2>2 DEF Grows
<1>8. QED
  BY SessionsRest, <1>4, <1>5, <1>6, <1>7

\* Failures are only counted up, so what is answered now was answered before.
LEMMA FaultsCount ==
  ASSUME TypeOK, [Next]_vars
  PROVE  /\ AllAnswered' => AllAnswered
         /\ faults' = 0 => faults = 0
         /\ Failing => faults' # 0
<1>1. faults \in Nat
  BY DEF TypeOK
<1>2. faults' = faults \/ faults' = faults + 1
  BY DEF Next, Subscribe, Connected, Disconnected, UserEdit, Tick, Receive, Handle,
     Work, Fail, vars
<1>3. QED
  BY <1>1, <1>2 DEF AllAnswered, Failing

-----------------------------------------------------------------------------
(* Where the frames and jobs after a step come from.                       *)

\* What a session sends: the tail of its queue, a SyncStep1 or a reply.
LEMMA SentFrom ==
  ASSUME NEW c \in Client, NEW frames, NEW e,
         up' = up \cup Enveloped(c, frames), e \in up', e \notin up,
         \A g \in frames :
           \/ g \in UpdateFrames(c)'
           \/ g.id = 0 /\ (g.kind = "step1" => g.ops \subseteq doc'[c])
  PROVE  /\ e.client = c
         /\ \/ e.frame \in UpdateFrames(e.client)'
            \/ /\ e.frame.id = 0
               /\ e.frame.kind = "step1" => e.frame.ops \subseteq doc'[e.client]
<1>1. PICK g \in frames : e = [client |-> c, live |-> TRUE, frame |-> g]
  BY DEF Enveloped
<1>2. e.client = c /\ e.frame = g
  BY <1>1
<1>3. QED
  BY <1>2

\* Every envelope was there, or is the tail of its client's queue, or has no id.
LEMMA UpFrom ==
  ASSUME SyncInv, [Next]_vars, NEW e \in up'
  PROVE  \/ \E d \in up : e.client = d.client /\ e.frame = d.frame
         \/ /\ e.client \in Client
            /\ \/ e.frame \in UpdateFrames(e.client)'
               \/ /\ e.frame.id = 0
                  /\ e.frame.kind = "step1" => e.frame.ops \subseteq doc'[e.client]
<1> DEFINE New ==
      /\ e.client \in Client
      /\ \/ e.frame \in UpdateFrames(e.client)'
         \/ /\ e.frame.id = 0
            /\ e.frame.kind = "step1" => e.frame.ops \subseteq doc'[e.client]
<1> SUFFICES ASSUME e \notin up
             PROVE  \/ \E d \in up : e.client = d.client /\ e.frame = d.frame
                    \/ New
  OBVIOUS
<1>1. TypeOK
  BY DEF SyncInv
<1>2. ASSUME NEW c \in Client, Connected(c)
      PROVE  New
  <2> DEFINE greet  == SyncStep1(StateVector(doc[c]))
             frames == {greet} \cup UpdateFrames(c)'
  <2>1. up' = up \cup Enveloped(c, frames) /\ UNCHANGED doc
    BY <1>2 DEF Connected, SessionOnConnect
  <2>2. greet.id = 0 /\ greet.ops \subseteq doc'[c]
    BY <2>1 DEF SyncStep1, StateVector
  <2> HIDE DEF greet
  <2>3. \A g \in frames :
          g \in UpdateFrames(c)' \/ (g.id = 0 /\ g.ops \subseteq doc'[c])
    BY <2>2
  <2> HIDE DEF frames
  <2>4. QED
    BY <2>1, <2>3, SentFrom
<1>3. ASSUME NEW c \in Client, Tick(c) \/ \E o \in Op : UserEdit(c, o)
      PROVE  New
  <2> DEFINE frames == UpdateFrames(c)'
  <2>1. up' = up \cup Enveloped(c, frames)
    BY <1>3 DEF Tick, SessionTick, UserEdit, Edit
  <2>2. \A g \in frames : g \in UpdateFrames(c)'
    OBVIOUS
  <2> HIDE DEF frames
  <2>3. QED
    BY <2>1, <2>2, SentFrom
<1>4. ASSUME NEW c \in Client, NEW f \in down[c], Taking(c, f)
      PROVE  New
  <2>1. ReceiveStep1(c, f)
    BY <1>4 DEF Taking, ReceiveAck, ReceiveContent
  <2> DEFINE reply  == SyncStep2(EncodeDiff(doc[c] \cup parked[c], f.ops))
             frames == {reply}
  <2>2. up' = up \cup Enveloped(c, frames)
    BY <2>1 DEF ReceiveStep1
  <2>3. \A g \in frames : g.id = 0 /\ g.kind # "step1"
    BY DEF SyncStep2
  <2> HIDE DEF frames
  <2>4. QED
    BY <2>2, <2>3, SentFrom
<1>5. ASSUME NEW c \in Client, NEW lost \in SUBSET InFlight(c),
             Disconnected(c, lost)
      PROVE  \E d \in up : e.client = d.client /\ e.frame = d.frame
  <2>1. up' = {Orphan(c, d) : d \in up \ lost}
    BY <1>5 DEF Disconnected
  <2>2. up \subseteq Envelope
    BY <1>1 DEF TypeOK
  <2>3. QED
    BY <2>1, <2>2, OrphanType
<1>6. ASSUME NEW c \in Client, Subscribe(c)
      PROVE  FALSE
  BY <1>6 DEF Subscribe, SyncSubscribed
<1>7. ASSUME NEW w \in Worker, NEW d \in up, Handling(w, d)
      PROVE  FALSE
  BY <1>7 DEF Handling, HandleStep1, DropFrame, RejectGap, AcceptUpdate
<1>8. ASSUME NEW j \in jobs, Working(j)
      PROVE  FALSE
  BY <1>8 DEF Working, RecordChange, DistributeChange, SendAck
<1>9. ~Failing /\ ~Resting
  BY DEF Failing, Resting
<1>10. QED
  BY StepKinds, <1>2, <1>3, <1>4, <1>5, <1>6, <1>7, <1>8, <1>9

\* Every job was there, perhaps at another stage, or takes up an envelope.
LEMMA JobFrom ==
  ASSUME SyncInv, [Next]_vars, NEW i \in jobs'
  PROVE  \/ \E j \in jobs : i.client = j.client /\ i.frame = j.frame
         \/ \E e \in up : i.client = e.client /\ i.frame = e.frame
<1>1. jobs \subseteq Job
  BY DEF SyncInv, TypeOK, ChannelTypeOK
<1>2. ASSUME NEW c \in Client, NEW lost \in SUBSET InFlight(c),
             Disconnected(c, lost)
      PROVE  \E j \in jobs : i.client = j.client /\ i.frame = j.frame
  <2>1. jobs' = {Orphan(c, j) : j \in jobs}
    BY <1>2 DEF Disconnected
  <2>2. QED
    BY <1>1, <2>1, OrphanType
<1>3. ASSUME NEW w \in Worker, NEW e \in up, Handling(w, e)
      PROVE  i \in jobs \/ (i.client = e.client /\ i.frame = e.frame)
  BY <1>3 DEF Handling, HandleStep1, DropFrame, RejectGap, AcceptUpdate, JobFor,
     channelVars
<1>4. ASSUME NEW j \in jobs, Working(j)
      PROVE  i \in jobs \/ (i.client = j.client /\ i.frame = j.frame)
  <2>1. /\ [j EXCEPT !.stage = "distribute"].client = j.client
        /\ [j EXCEPT !.stage = "distribute"].frame = j.frame
        /\ [j EXCEPT !.stage = "ack"].client = j.client
        /\ [j EXCEPT !.stage = "ack"].frame = j.frame
    BY <1>1, JobType
  <2>2. QED
    BY <1>4, <2>1 DEF Working, RecordChange, DistributeChange, SendAck, Advance
<1>5. ASSUME NEW c \in Client,
             Connected(c) \/ Subscribe(c) \/ Tick(c)
               \/ (\E o \in Op : UserEdit(c, o))
               \/ (\E f \in down[c] : Taking(c, f))
      PROVE  i \in jobs
  BY <1>5 DEF Connected, Subscribe, SyncSubscribed, Tick, UserEdit, Taking,
     channelVars
<1>6. Failing \/ Resting => i \in jobs
  BY DEF Failing, Resting
<1>7. QED
  BY StepKinds, <1>2, <1>3, <1>4, <1>5, <1>6

-----------------------------------------------------------------------------
(* The base of the invariant, part by part.                                *)

\* connected() comes after the server has accepted the subscription, and a
\* dropped connection ends both (actioncable_provider.ts:175-184).
LEMMA StreamsInv ==
  ASSUME SyncInv, ConnectedStreams, [Next]_vars
  PROVE  ConnectedStreams'
<1>1. connected \in [Client -> BOOLEAN] /\ subscribed \in [Client -> BOOLEAN]
  BY DEF SyncInv, TypeOK, SessionTypeOK, RSTypeOK, ChannelTypeOK
<1>2. CASE UNCHANGED <<connected, subscribed>>
  BY <1>2 DEF ConnectedStreams
<1>3. ASSUME NEW c \in Client, Subscribe(c)
      PROVE  ConnectedStreams'
  BY <1>1, <1>3 DEF Subscribe, SyncSubscribed, ConnectedStreams, sessionVars, rsVars
<1>4. ASSUME NEW c \in Client, Connected(c)
      PROVE  ConnectedStreams'
  BY <1>1, <1>4 DEF Connected, SessionOnConnect, OnConnect, ConnectedStreams,
     channelVars
<1>5. ASSUME NEW c \in Client, NEW lost \in SUBSET InFlight(c),
             Disconnected(c, lost)
      PROVE  ConnectedStreams'
  BY <1>1, <1>5 DEF Disconnected, SessionOnDisconnect, OnDisconnect,
     ConnectedStreams
<1>6. ASSUME NEW c \in Client, Tick(c) \/ \E o \in Op : UserEdit(c, o)
      PROVE  UNCHANGED <<connected, subscribed>>
  BY <1>6 DEF Tick, SessionTick, OnTick, UserEdit, Edit, Enqueue, channelVars
<1>7. ASSUME NEW c \in Client, NEW f \in down[c], Taking(c, f)
      PROVE  UNCHANGED <<connected, subscribed>>
  BY <1>7 DEF Taking, ReceiveAck, OnAck, ReceiveStep1, ReceiveContent, rsVars,
     channelVars
<1>8. ASSUME NEW w \in Worker, NEW e \in up, Handling(w, e)
      PROVE  UNCHANGED <<connected, subscribed>>
  BY <1>8 DEF Handling, HandleStep1, DropFrame, RejectGap, AcceptUpdate,
     channelVars, sessionVars, rsVars
<1>9. ASSUME NEW j \in jobs, Working(j)
      PROVE  UNCHANGED <<connected, subscribed>>
  BY <1>9 DEF Working, RecordChange, DistributeChange, SendAck, sessionVars, rsVars
<1>10. Failing \/ Resting => UNCHANGED <<connected, subscribed>>
  BY DEF Failing, Resting, sessionVars, rsVars
<1>11. QED
  BY StepKinds, <1>2, <1>3, <1>4, <1>5, <1>6, <1>7, <1>8, <1>9, <1>10

\* A frame that comes down was there, or asks with the store's clocks, or is
\* content, or acknowledges a job.
DownSource(d, g) ==
  \/ g \in down[d]
  \/ g.kind = "step1" /\ g.ops \subseteq store
  \/ g.kind \in {"step2", "update"}
  \/ \E j \in jobs : /\ SendAck(j) /\ UNCHANGED sessionVars
                     /\ d = j.client /\ g.kind = "ack" /\ g.id = j.frame.id

\* There is nothing else on the cable down.
LEMMA DownFrom ==
  ASSUME SyncInv, [Next]_vars, NEW d \in Client, NEW g \in down'[d]
  PROVE  DownSource(d, g)
<1>1. TypeOK
  BY DEF SyncInv
<1>2. down \in [Client -> SUBSET Frame] /\ up \subseteq Envelope /\ store \in SUBSET Op
  BY <1>1 DEF TypeOK, ChannelTypeOK
<1>3. ASSUME NEW c \in Client, NEW live \in BOOLEAN, NEW f,
             Transmit(c, live, f)
      PROVE  g \in down[d] \/ (c = d /\ g = f)
  BY <1>2, <1>3 DEF Transmit
<1>4. LET f == SyncStep1(StateVector(store)) IN
        f.kind = "step1" /\ f.ops \subseteq store
  BY DEF SyncStep1, StateVector
<1>5. ASSUME NEW c \in Client, Subscribe(c)
      PROVE  DownSource(d, g)
  BY <1>3, <1>4, <1>5 DEF Subscribe, SyncSubscribed, DownSource
<1>6. ASSUME NEW c \in Client, NEW lost \in SUBSET InFlight(c),
             Disconnected(c, lost)
      PROVE  g \in down[d]
  BY <1>2, <1>6 DEF Disconnected
<1>7. ASSUME NEW c \in Client, Connected(c) \/ Tick(c) \/ \E o \in Op : UserEdit(c, o)
      PROVE  g \in down[d]
  BY <1>7 DEF Connected, SessionOnConnect, Tick, SessionTick, UserEdit, Edit
<1>8. ASSUME NEW c \in Client, NEW f \in down[c], Taking(c, f)
      PROVE  g \in down[d]
  BY <1>2, <1>8 DEF Taking, ReceiveAck, ReceiveStep1, ReceiveContent, Consume
<1>9. ASSUME NEW w \in Worker, NEW e \in up, Handling(w, e)
      PROVE  DownSource(d, g)
  <2>1. e.client \in Client /\ e.live \in BOOLEAN
    BY <1>2 DEF Envelope
  <2>2. CASE HandleStep1(e)
    <3>1. g \in down[d] \/ g = SyncStep2(EncodeDiff(store, e.frame.ops))
      BY <2>1, <2>2, <1>3 DEF HandleStep1
    <3>2. QED
      BY <3>1 DEF SyncStep2, DownSource
  <2>3. CASE RejectGap(e)
    BY <2>1, <2>3, <1>3, <1>4 DEF RejectGap, DownSource
  <2>4. CASE DropFrame(e) \/ AcceptUpdate(w, e)
    BY <2>4 DEF DropFrame, AcceptUpdate, DownSource
  <2>5. QED
    BY <1>9, <2>2, <2>3, <2>4 DEF Handling
<1>10. ASSUME NEW j \in jobs, Working(j)
       PROVE  DownSource(d, g)
  <2>1. j \in Job /\ j.client \in Client /\ j.live \in BOOLEAN
        /\ j.frame \in Frame /\ j.frame.kind \in {"step2", "update"}
    BY DEF SyncInv, TypeOK, ChannelTypeOK, Job, JobsCovered
  <2>2. CASE DistributeChange(j)
    <3>1. g \in down[d] \/ g = [j.frame EXCEPT !.id = 0]
      BY <1>2, <2>2 DEF DistributeChange, Distribute
    <3>2. QED
      BY <2>1, <3>1 DEF Frame, DownSource
  <2>3. CASE SendAck(j)
    <3>1. g \in down[d] \/ (d = j.client /\ g = Ack(j.frame.id))
      BY <2>1, <2>3, <1>3 DEF SendAck
    <3>2. Ack(j.frame.id).kind = "ack" /\ Ack(j.frame.id).id = j.frame.id
      BY DEF Ack
    <3>3. QED
      BY <1>10, <2>3, <3>1, <3>2 DEF DownSource, Working
  <2>4. CASE RecordChange(j)
    BY <2>4 DEF RecordChange, DownSource
  <2>5. QED
    BY <1>10, <2>2, <2>3, <2>4 DEF Working
<1>11. Failing \/ Resting => g \in down[d]
  BY DEF Failing, Resting
<1>12. QED
  BY StepKinds, <1>5, <1>6, <1>7, <1>8, <1>9, <1>10, <1>11 DEF DownSource

\* A client asks with the clocks of the document it has, which only grows, and
\* the server with those of the store.
LEMMA ClocksInv ==
  ASSUME SyncInv, ClocksTrue, [Next]_vars
  PROVE  ClocksTrue'
<1>1. SyncInv' /\ TypeOK /\ Grows
  BY StepInv, StepGrows DEF SyncInv
<1>2. ASSUME NEW e \in up', e.frame.kind = "step1"
      PROVE  e.frame.ops \subseteq doc'[e.client]
  <2>1. CASE \E d \in up : e.client = d.client /\ e.frame = d.frame
    <3>1. e.frame.ops \subseteq doc[e.client]
      BY <1>2, <2>1 DEF ClocksTrue
    <3>2. e.client \in Client
      BY <1>1, <2>1 DEF TypeOK, Envelope
    <3>3. QED
      BY <1>1, <3>1, <3>2 DEF Grows
  <2>2. CASE e.client \in Client /\ e.frame \in UpdateFrames(e.client)'
    <3>1. (SyncInv => TailFrames)'
      BY SyncRSInv, UpdateFramesCovered, PTL
    <3>2. QED
      BY <1>1, <1>2, <2>2, <3>1 DEF TailFrames
  <2>3. QED
    BY <1>2, <2>1, <2>2, UpFrom
<1>3. ASSUME NEW c \in Client, NEW f \in down'[c], f.kind = "step1"
      PROVE  f.ops \subseteq store'
  BY <1>1, <1>3, DownFrom DEF DownSource, ClocksTrue, Grows
<1>4. QED
  BY <1>2, <1>3 DEF ClocksTrue

\* What a frame carries it goes on carrying: entries leave the queue, or come in
\* under a higher number.
LEMMA CarriesStable ==
  ASSUME TypeOK, TypeOK', Grows, NEW c \in Client, NEW f, f.id \in Nat,
         f.id < nextSeq[c], Carries(c, f)
  PROVE  Carries(c, f)'
<1>1. nextSeq[c] \in Nat
  BY DEF TypeOK, SessionTypeOK, RSTypeOK
<1>2. \A p \in pending'[c] : p.seq \in Nat
  BY DEF TypeOK, SessionTypeOK, RSTypeOK, Entry
<1>3. QED
  BY <1>1, <1>2 DEF Carries, Grows

\* A flush sends the whole queue, and only the handler's own frame gets an id
\* (reliable_sync.ts:97-100, 147-153).
LEMMA CarriedInv ==
  ASSUME SyncInv, TailsCarried, [Next]_vars
  PROVE  TailsCarried'
<1>1. SyncInv' /\ TypeOK /\ TypeOK' /\ Grows
  BY StepInv, StepGrows DEF SyncInv
<1>2. ASSUME NEW e \in up PROVE Carries(e.client, e.frame)'
  <2>1. e.client \in Client /\ e.frame.id \in Nat /\ e.frame.id < nextSeq[e.client]
    BY <1>1 DEF TypeOK, Envelope, Frame, SyncInv, FramesCovered, Covered
  <2>2. QED
    BY <1>1, <2>1, CarriesStable DEF TailsCarried
<1>3. ASSUME NEW j \in jobs PROVE Carries(j.client, j.frame)'
  <2>1. j.client \in Client /\ j.frame.id \in Nat /\ j.frame.id < nextSeq[j.client]
    BY <1>1 DEF TypeOK, ChannelTypeOK, Job, Frame, SyncInv, JobsCovered, Covered
  <2>2. QED
    BY <1>1, <2>1, CarriesStable DEF TailsCarried
<1>4. ASSUME NEW e \in up' PROVE Carries(e.client, e.frame)'
  <2>1. CASE \E d \in up : e.client = d.client /\ e.frame = d.frame
    BY <1>2, <2>1 DEF Carries
  <2>2. CASE e.client \in Client /\ e.frame \in UpdateFrames(e.client)'
    <3>1. (SyncInv => TailFrames)'
      BY SyncRSInv, UpdateFramesCovered, PTL
    <3>2. e.frame.ops = Merge(pending'[e.client])
      BY <1>1, <2>2, <3>1 DEF TailFrames
    <3>3. QED
      BY <3>2 DEF Carries, Merge
  <2>3. CASE e.client \in Client /\ e.frame.id = 0
    <3>1. \A p \in pending'[e.client] : p.seq \in Nat \ {0}
      BY <1>1, <2>3 DEF TypeOK, SessionTypeOK, RSTypeOK, Entry
    <3>2. QED
      BY <2>3, <3>1 DEF Carries
  <2>4. QED
    BY <2>1, <2>2, <2>3, UpFrom
<1>5. ASSUME NEW i \in jobs' PROVE Carries(i.client, i.frame)'
  BY <1>2, <1>3, JobFrom DEF Carries
<1>6. QED
  BY <1>4, <1>5 DEF TailsCarried

\* What becomes durable was in a client's document (sync.rb:298).
LEMMA StoredFrom ==
  ASSUME SyncInv, [Next]_vars, NEW o \in store' \ store
  PROVE  \E j \in jobs : /\ RecordChange(j) /\ UNCHANGED sessionVars
                         /\ j.client \in Client /\ o \in j.frame.ops
                         /\ o \in doc[j.client]
<1>1. ASSUME NEW j \in jobs, Working(j)
      PROVE  /\ RecordChange(j) /\ UNCHANGED sessionVars
             /\ j.client \in Client /\ o \in j.frame.ops
             /\ o \in doc[j.client]
  <2>1. RecordChange(j) /\ UNCHANGED sessionVars /\ o \in j.frame.ops
    BY <1>1 DEF Working, RecordChange, DistributeChange, SendAck
  <2>2. QED
    BY <2>1 DEF SyncInv, TypeOK, ChannelTypeOK, Job, JobsCovered
<1>2. ASSUME NEW w \in Worker, NEW e \in up, Handling(w, e)
      PROVE  FALSE
  BY <1>2 DEF Handling, HandleStep1, DropFrame, RejectGap, AcceptUpdate, channelVars
<1>3. QED
  BY StepKinds, <1>1, <1>2 DEF Subscribe, SyncSubscribed, Connected,
     Disconnected, UserEdit, Tick, Taking, Failing, Resting, channelVars

\* An author's document is ahead of everybody else's and of the store, since
\* nobody else makes its insertions.
LEMMA AuthorInv ==
  ASSUME SyncInv, AuthorFirst, [Next]_vars
  PROVE  AuthorFirst'
<1>1. TypeOK /\ Grows
  BY StepGrows DEF SyncInv
<1> SUFFICES ASSUME NEW c \in Client, NEW d \in Client,
                    NEW o \in (Own[c] \ Delete) \cap (store' \cup doc'[d])
             PROVE  o \in doc'[c]
  BY DEF AuthorFirst
<1>2. CASE o \in store \/ \E b \in Client : o \in doc[b]
  BY <1>1, <1>2 DEF AuthorFirst, Grows
<1>3. CASE o \in store'
  BY <1>2, <1>3, StoredFrom
<1>4. CASE o \in doc'[d]
  <2>1. ASSUME NEW b \in Client, NEW q \in Op, UserEdit(b, q)
        PROVE  o \in doc'[c]
    <3>1. /\ q \in Own[b] /\ doc'[b] = doc[b] \cup {q}
          /\ \A a \in Client : a # b => doc'[a] = doc[a]
      BY <1>1, <2>1, EditEffect
    <3>2. CASE o \in doc[d]
      BY <1>2, <3>2
    <3>3. CASE o \notin doc[d]
      <4>1. o = q /\ b = c
        BY <1>4, <3>1, <3>3, AuthorAssumption
      <4>2. QED
        BY <3>1, <4>1
    <3>4. QED
      BY <3>2, <3>3
  <2>2. ASSUME NEW b \in Client, NEW f \in down[b], ReceiveContent(b, f)
        PROVE  o \in doc[d] \cup store
    BY <1>4, <2>2, ContentApplied
  <2>3. ASSUME NEW b \in Client, NEW f \in down[b], ReceiveAck(b, f)
        PROVE  o \in doc[d]
    BY <1>4, <2>3 DEF ReceiveAck
  <2>4. QED
    BY <1>2, <1>4, <2>1, <2>2, <2>3, SessionsRest
<1>5. QED
  BY <1>3, <1>4

\* What is parked goes on lacking something: an edit fills no gap, because what
\* is parked is stored, and so is all it builds on, which its author has.
LEMMA BlockedInv ==
  ASSUME SyncInv, AuthorFirst, ParkedBlocked, [Next]_vars
  PROVE  ParkedBlocked'
<1>1. TypeOK
  BY DEF SyncInv
<1>2. CASE UNCHANGED <<doc, parked>>
  BY <1>2 DEF ParkedBlocked
<1>3. ASSUME NEW c \in Client, NEW q \in Op, UserEdit(c, q)
      PROVE  ParkedBlocked'
  <2>1. /\ q \in Own[c] \ doc[c] /\ doc'[c] = doc[c] \cup {q}
        /\ \A d \in Client : d # c => doc'[d] = doc[d]
        /\ UNCHANGED parked
    BY <1>1, <1>3, EditEffect
  <2>2. ASSUME NEW o \in parked[c]
        PROVE  q \notin Past[o]
    <3>1. o \in store /\ Closed(store) /\ o \in Op
      BY <1>1 DEF SyncInv, NothingLost, LogGapFree, TypeOK, SessionTypeOK
    <3>2. q \in Past[o] => q \in store /\ q \notin Delete
      BY <3>1, AuthorAssumption DEF Closed
    <3>3. QED
      BY <2>1, <3>2 DEF AuthorFirst
  <2>3. \A d \in Client : \A o \in parked[d] :
          ~(Past[o] \subseteq doc'[d] \cup parked[d])
    BY <2>1, <2>2 DEF ParkedBlocked
  <2>4. QED
    BY <2>1, <2>3 DEF ParkedBlocked
<1>4. ASSUME NEW c \in Client, NEW f \in down[c], ReceiveContent(c, f)
      PROVE  ParkedBlocked'
  <2>1. /\ \A d \in Client : d # c => doc'[d] = doc[d] /\ parked'[d] = parked[d]
        /\ \A o \in parked'[c] : ~(Past[o] \subseteq doc'[c] \cup parked'[c])
    BY <1>1, <1>4, ContentEffect
  <2>2. QED
    BY <2>1 DEF ParkedBlocked
<1>5. ASSUME NEW c \in Client, NEW f \in down[c], ReceiveAck(c, f)
      PROVE  UNCHANGED <<doc, parked>>
  BY <1>5 DEF ReceiveAck
<1>6. QED
  BY SessionsRest, <1>2, <1>3, <1>4, <1>5

-----------------------------------------------------------------------------
(* What is on its way stays on its way.                                    *)

\* An envelope of one client is not touched when another's connection drops.
LEMMA OthersKept ==
  ASSUME TypeOK, NEW c \in Client, NEW lost \in SUBSET InFlight(c),
         Disconnected(c, lost), NEW d \in Client, d # c,
         NEW e \in up, e.client = d
  PROVE  e \in up'
<1>1. up' = {Orphan(c, x) : x \in up \ lost} /\ e \notin lost
  BY DEF Disconnected, InFlight
<1>2. Orphan(c, e) = e
  BY DEF Orphan
<1>3. QED
  BY <1>1, <1>2

\* A transmission, or a broadcast, takes nothing off the cable.
LEMMA DownKept ==
  ASSUME TypeOK, NEW d \in Client,
         \/ \E c \in Client : \E live \in BOOLEAN : \E f : Transmit(c, live, f)
         \/ \E f : Distribute(f)
         \/ UNCHANGED down
  PROVE  down[d] \subseteq down'[d]
  BY DEF Transmit, Distribute, TypeOK

\* A stored operation that is on its way to a client, or covered by its question
\* to the server, stays so until the client has it or its connection drops: the
\* server answers a question from the store with all the client has no clock for
\* (sync.rb:270-273, protocol.rs:15-32).
LEMMA OnItsWayStable ==
  ASSUME SyncInv, ClocksTrue, AllAnswered', [Next]_vars,
         NEW d \in Client, NEW o \in store, OnItsWay(d, o)
  PROVE  OnItsWay(d, o)'
<1>1. TypeOK
  BY DEF SyncInv
<1>2. /\ down \in [Client -> SUBSET Frame] /\ up \subseteq Envelope
      /\ connected \in [Client -> BOOLEAN] /\ jobs \subseteq Job
  BY <1>1 DEF TypeOK, SessionTypeOK, RSTypeOK, ChannelTypeOK
<1>3. doc[d] \cup parked[d] \subseteq doc'[d] \cup parked'[d]
  BY StepGrows
<1>4. ASSUME UNCHANGED connected, down[d] \subseteq down'[d],
             \A e \in up \ up' : e.frame.kind # "step1"
      PROVE  OnItsWay(d, o)'
  BY <1>3, <1>4 DEF OnItsWay
<1>5. ASSUME NEW c \in Client, Subscribe(c) \/ Tick(c) \/ \E q \in Op : UserEdit(c, q)
      PROVE  OnItsWay(d, o)'
  <2>1. UNCHANGED connected /\ up \subseteq up'
    BY <1>5 DEF Subscribe, SyncSubscribed, sessionVars, rsVars, Tick, SessionTick,
       OnTick, UserEdit, Edit, Enqueue
  <2>2. down[d] \subseteq down'[d]
    <3>1. CASE Subscribe(c)
      BY <1>1, <3>1, DownKept DEF Subscribe, SyncSubscribed
    <3>2. CASE Tick(c) \/ \E q \in Op : UserEdit(c, q)
      BY <3>2 DEF Tick, SessionTick, UserEdit, Edit
    <3>3. QED
      BY <1>5, <3>1, <3>2
  <2>3. QED
    BY <1>4, <2>1, <2>2
<1>6. ASSUME NEW c \in Client, Connected(c)
      PROVE  OnItsWay(d, o)'
  <2>1. /\ connected' = [connected EXCEPT ![c] = TRUE]
        /\ up' = up \cup Enveloped(c, {SyncStep1(StateVector(doc[c]))}
                                        \cup UpdateFrames(c)')
        /\ UNCHANGED <<doc, parked, down>>
    BY <1>6 DEF Connected, SessionOnConnect, OnConnect
  <2>2. CASE d = c
    <3> DEFINE greet == SyncStep1(StateVector(doc[c]))
               e     == [client |-> c, live |-> TRUE, frame |-> greet]
    <3>1. e \in up'
      BY <2>1 DEF Enveloped
    <3>2. e.client = c /\ e.live /\ e.frame.kind = "step1"
      BY DEF SyncStep1
    <3> HIDE DEF e
    <3>3. QED
      BY <2>2, <3>1, <3>2 DEF OnItsWay
  <2>3. CASE d # c
    <3>1. connected'[d] = connected[d] /\ up \subseteq up'
      BY <1>2, <2>1, <2>3
    <3>2. QED
      BY <2>1, <3>1 DEF OnItsWay
  <2>4. QED
    BY <2>2, <2>3
<1>7. ASSUME NEW c \in Client, NEW lost \in SUBSET InFlight(c),
             Disconnected(c, lost)
      PROVE  OnItsWay(d, o)'
  <2>1. /\ connected' = [connected EXCEPT ![c] = FALSE]
        /\ down' = [down EXCEPT ![c] = {}] /\ UNCHANGED <<doc, parked>>
    BY <1>7 DEF Disconnected, SessionOnDisconnect, OnDisconnect
  <2>2. CASE d = c
    BY <1>2, <2>1, <2>2 DEF OnItsWay
  <2>3. CASE d # c
    <3>1. connected'[d] = connected[d] /\ down'[d] = down[d]
      BY <1>2, <2>1, <2>3
    <3>2. \A e \in up : e.client = d => e \in up'
      BY <1>1, <1>7, <2>3, OthersKept
    <3>3. QED
      BY <2>1, <3>1, <3>2 DEF OnItsWay
  <2>4. QED
    BY <2>2, <2>3
<1>8. ASSUME NEW c \in Client, NEW f \in down[c], Taking(c, f)
      PROVE  OnItsWay(d, o)'
  <2>1. /\ down' = [down EXCEPT ![c] = down[c] \ {f}] /\ up \subseteq up'
        /\ UNCHANGED connected
    BY <1>8 DEF Taking, ReceiveAck, ReceiveStep1, ReceiveContent, Consume, OnAck,
       rsVars
  <2>2. CASE ReceiveContent(c, f)
    <3>1. d = c => f.ops \subseteq doc'[d] \cup parked'[d]
      BY <1>1, <2>2, ContentEffect
    <3>2. QED
      BY <1>2, <1>3, <2>1, <3>1 DEF OnItsWay
  <2>3. CASE ReceiveAck(c, f) \/ ReceiveStep1(c, f)
    <3>1. f.kind \notin {"step2", "update"} /\ UNCHANGED <<doc, parked>>
      BY <2>3 DEF ReceiveAck, ReceiveStep1
    <3>2. QED
      BY <1>2, <2>1, <3>1 DEF OnItsWay
  <2>4. QED
    BY <1>8, <2>2, <2>3 DEF Taking
<1>9. ASSUME NEW w \in Worker, NEW e \in up, Handling(w, e)
      PROVE  OnItsWay(d, o)'
  <2>1. UNCHANGED <<connected, doc, parked>> /\ up' = up \ {e}
        /\ e.client \in Client /\ e.live \in BOOLEAN
    BY <1>2, <1>9 DEF Handling, HandleStep1, DropFrame, RejectGap, AcceptUpdate,
       sessionVars, rsVars, Envelope
  <2>2. down[d] \subseteq down'[d]
    BY <1>1, <1>9, <2>1, DownKept DEF Handling, HandleStep1, DropFrame, RejectGap,
       AcceptUpdate
  <2>3. CASE ~HandleStep1(e)
    <3>1. e.frame.kind # "step1"
      BY <1>9, <2>3 DEF Handling, DropFrame, RejectGap, AcceptUpdate, Accepts,
         CarriesUpdate
    <3>2. QED
      BY <1>4, <2>1, <2>2, <3>1
  <2>4. CASE HandleStep1(e)
    <3> DEFINE reply == SyncStep2(EncodeDiff(store, e.frame.ops))
    <3>1. e.frame.ops \subseteq doc[e.client]
      BY <2>4 DEF HandleStep1, ClocksTrue
    <3>2. e.client = d /\ e.live => reply \in down'[d]
      BY <1>2, <2>1, <2>4 DEF HandleStep1, Transmit
    <3>3. reply.kind = "step2"
          /\ (o \in reply.ops \/ o \in e.frame.ops)
      BY DEF SyncStep2, EncodeDiff
    <3> HIDE DEF reply
    <3>4. CASE e.client = d /\ e.live
      BY <2>1, <3>1, <3>2, <3>3, <3>4 DEF OnItsWay
    <3>5. CASE ~(e.client = d /\ e.live)
      BY <2>1, <2>2, <3>5 DEF OnItsWay
    <3>6. QED
      BY <3>4, <3>5
  <2>5. QED
    BY <2>3, <2>4
<1>10. ASSUME NEW j \in jobs, Working(j)
       PROVE  OnItsWay(d, o)'
  <2>1. UNCHANGED <<connected, up>> /\ j.client \in Client /\ j.live \in BOOLEAN
    BY <1>2, <1>10 DEF Working, RecordChange, DistributeChange, SendAck,
       sessionVars, rsVars, Job
  <2>2. down[d] \subseteq down'[d]
    BY <1>1, <1>10, <2>1, DownKept DEF Working, RecordChange, DistributeChange, SendAck
  <2>3. QED
    BY <1>4, <2>1, <2>2
<1>11. CASE Failing
  <2>1. UNCHANGED <<connected, down>>
    BY <1>11 DEF Failing, sessionVars, rsVars
  <2>2. "step1" \notin LoadFails
    BY <1>1, <1>11, FaultsCount DEF AllAnswered
  <2>3. QED
    BY <1>4, <1>11, <2>1, <2>2 DEF Failing
<1>12. CASE Resting
  BY <1>4, <1>12 DEF Resting, sessionVars, rsVars
<1>13. QED
  BY StepKinds, <1>5, <1>6, <1>7, <1>8, <1>9, <1>10, <1>11, <1>12

-----------------------------------------------------------------------------
(* What everybody is told.                                                 *)

\* What has been told stays told.
LEMMA ToldStable ==
  ASSUME SyncInv, ClocksTrue, AllAnswered', [Next]_vars,
         NEW o \in store, Told(o)
  PROVE  Told(o)'
<1>1. \A c \in Client : OnItsWay(c, o)'
  BY OnItsWayStable DEF Told
<1>2. QED
  BY <1>1 DEF Told, OnItsWay

\* A broadcast tells everybody who is connected: all of them stream the document
\* (sync.rb:98-108, 182-187).
LEMMA BroadcastTells ==
  ASSUME SyncInv, ConnectedStreams, NEW j \in jobs, DistributeChange(j),
         UNCHANGED sessionVars, NEW o \in j.frame.ops
  PROVE  Told(o)'
<1> DEFINE f == [j.frame EXCEPT !.id = 0]
<1>1. f.kind \in {"step2", "update"} /\ f.ops = j.frame.ops
  BY DEF SyncInv, TypeOK, ChannelTypeOK, Job, Frame, JobsCovered
<1>2. /\ down' = [c \in Client |->
                    IF subscribed[c] THEN down[c] \cup {f} ELSE down[c]]
      /\ UNCHANGED connected
  BY DEF DistributeChange, Distribute, sessionVars, rsVars
<1> HIDE DEF f
<1>3. ASSUME NEW c \in Client, connected'[c]
      PROVE  f \in down'[c]
  BY <1>2, <1>3 DEF ConnectedStreams
<1>4. \A c \in Client :
        ~connected'[c]
          \/ \E g \in down'[c] : g.kind \in {"step2", "update"} /\ o \in g.ops
  BY <1>1, <1>3
<1>5. QED
  BY <1>4 DEF Told, OnItsWay

\* Where a job stands: where it stood, or a step further.
LEMMA AckJobFrom ==
  ASSUME SyncInv, [Next]_vars, NEW i \in jobs', i.stage = "ack"
  PROVE  \E j \in jobs :
           /\ i.frame = j.frame
           /\ \/ j.stage = "ack"
              \/ DistributeChange(j) /\ UNCHANGED sessionVars
<1>1. jobs \subseteq Job
  BY DEF SyncInv, TypeOK, ChannelTypeOK
<1>2. ASSUME NEW c \in Client, NEW lost \in SUBSET InFlight(c),
             Disconnected(c, lost)
      PROVE  \E j \in jobs : i.frame = j.frame /\ j.stage = "ack"
  <2>1. jobs' = {Orphan(c, j) : j \in jobs}
    BY <1>2 DEF Disconnected
  <2>2. QED
    BY <1>1, <2>1, OrphanType
<1>3. ASSUME NEW w \in Worker, NEW e \in up, Handling(w, e)
      PROVE  i \in jobs
  BY <1>3 DEF Handling, HandleStep1, DropFrame, RejectGap, AcceptUpdate, JobFor,
     channelVars
<1>4. ASSUME NEW j \in jobs, Working(j), i \notin jobs
      PROVE  i.frame = j.frame /\ DistributeChange(j) /\ UNCHANGED sessionVars
  <2>1. /\ [j EXCEPT !.stage = "distribute"].stage = "distribute"
        /\ [j EXCEPT !.stage = "ack"].frame = j.frame
    BY <1>1, JobType
  <2>2. QED
    BY <1>4, <2>1 DEF Working, RecordChange, DistributeChange, SendAck, Advance
<1>5. ASSUME NEW c \in Client,
             Connected(c) \/ Subscribe(c) \/ Tick(c)
               \/ (\E o \in Op : UserEdit(c, o))
               \/ (\E f \in down[c] : Taking(c, f))
      PROVE  i \in jobs
  BY <1>5 DEF Connected, Subscribe, SyncSubscribed, Tick, UserEdit, Taking,
     channelVars
<1>6. Failing \/ Resting => i \in jobs
  BY DEF Failing, Resting
<1>7. QED
  BY StepKinds, <1>2, <1>3, <1>4, <1>5, <1>6

\* An ack is sent last, after the broadcast, for the frame it came in with
\* (sync.rb:167-180, 289-306).
LEMMA AcksInv ==
  ASSUME SyncInv, BaseInv, AcksTold, AllAnswered', [Next]_vars
  PROVE  AcksTold'
<1>1. ClocksTrue /\ ConnectedStreams /\ TailsCarried
  BY DEF BaseInv
<1>2. TypeOK /\ TypeOK' /\ Grows /\ JobsCovered /\ RepliesDurable
  BY StepInv, StepGrows DEF SyncInv
<1>3. ASSUME NEW i \in jobs', i.stage = "ack", NEW o \in i.frame.ops
      PROVE  Told(o)'
  <2>1. PICK j \in jobs :
          /\ i.frame = j.frame
          /\ j.stage = "ack" \/ (DistributeChange(j) /\ UNCHANGED sessionVars)
    BY <1>3, AckJobFrom
  <2>2. CASE j.stage = "ack"
    <3>1. o \in store /\ Told(o)
      BY <1>2, <1>3, <2>1, <2>2 DEF JobsCovered, AcksTold
    <3>2. QED
      BY <1>1, <3>1, ToldStable
  <2>3. CASE DistributeChange(j) /\ UNCHANGED sessionVars
    BY <1>1, <1>3, <2>1, <2>3, BroadcastTells
  <2>4. QED
    BY <2>1, <2>2, <2>3
<1>4. ASSUME NEW c \in Client, NEW f \in down'[c], f.kind = "ack",
             NEW p \in pending'[c], p.seq =< f.id, NEW o \in p.update
      PROVE  Told(o)'
  <2>1. CASE f \in down[c]
    <3>1. Covered(c, f.id, {}) /\ f.id \in Nat /\ nextSeq[c] \in Nat /\ p.seq \in Nat
      BY <1>2, <1>4, <2>1 DEF RepliesDurable, TypeOK, SessionTypeOK, RSTypeOK, Entry,
         Frame
    <3>2. p \in pending[c]
      BY <1>2, <1>4, <3>1 DEF Grows, Covered
    <3>3. o \in store /\ Told(o)
      BY <1>4, <2>1, <3>1, <3>2 DEF Covered, AcksTold
    <3>4. QED
      BY <1>1, <3>3, ToldStable
  <2>2. ASSUME NEW j \in jobs, SendAck(j), UNCHANGED sessionVars,
               c = j.client, f.id = j.frame.id
        PROVE  Told(o)'
    <3>1. p \in pending[c]
      BY <1>4, <2>2 DEF sessionVars, rsVars
    <3>2. o \in j.frame.ops
      BY <1>1, <1>4, <2>2, <3>1 DEF TailsCarried, Carries
    <3>3. o \in store /\ Told(o)
      BY <1>2, <2>2, <3>2 DEF JobsCovered, AcksTold, SendAck
    <3>4. QED
      BY <1>1, <3>3, ToldStable
  <2>3. QED
    BY <1>4, <2>1, <2>2, DownFrom DEF DownSource
<1>5. /\ \A j \in jobs' : j.stage = "ack" => \A o \in j.frame.ops : Told(o)'
      /\ \A c \in Client : \A f \in down'[c] :
           f.kind = "ack" =>
             \A p \in pending'[c] : p.seq =< f.id => \A o \in p.update : Told(o)'
  BY <1>3, <1>4
<1>6. QED
  BY <1>5 DEF AcksTold, Told, OnItsWay

\* An entry leaves the queue by an ack that covers it (reliable_sync.ts:108-114).
LEMMA PrunedBy ==
  ASSUME SyncInv, [Next]_vars, NEW c \in Client, NEW p \in pending[c],
         p \notin pending'[c]
  PROVE  \E f \in down[c] : f.kind = "ack" /\ p.seq =< f.id
<1>1. TypeOK /\ pending \in [Client -> SUBSET Entry]
  BY DEF SyncInv, TypeOK, SessionTypeOK, RSTypeOK
<1>2. ASSUME NEW d \in Client, NEW f \in down[d], ReceiveAck(d, f)
      PROVE  d = c /\ f.kind = "ack" /\ p.seq =< f.id
  <2>1. f.kind = "ack" /\ f.id \in Nat /\ p.seq \in Nat
    BY <1>1, <1>2 DEF ReceiveAck, TypeOK, Frame, Entry
  <2>2. QED
    BY <1>1, <1>2, <2>1 DEF ReceiveAck, OnAck, rsVars
<1>3. ASSUME NEW d \in Client, NEW o \in Op, UserEdit(d, o)
      PROVE  FALSE
  BY <1>1, <1>3, EditEffect
<1>4. ASSUME NEW d \in Client, NEW f \in down[d], ReceiveContent(d, f)
      PROVE  FALSE
  BY <1>4 DEF ReceiveContent, rsVars
<1>5. QED
  BY SessionsRest, <1>2, <1>3, <1>4

\* So what is taken out of a queue has been told to everybody.
LEMMA PrunedTold ==
  ASSUME SyncInv, BaseInv, AcksTold, AllAnswered', [Next]_vars,
         NEW c \in Client, NEW o \in Merge(pending[c]) \ Merge(pending'[c])
  PROVE  Told(o)'
<1>1. PICK p \in pending[c] : o \in p.update
  BY DEF Merge
<1>2. p \notin pending'[c]
  BY <1>1 DEF Merge
<1>3. PICK f \in down[c] : f.kind = "ack" /\ p.seq =< f.id
  BY <1>2, PrunedBy
<1>4. o \in store /\ Told(o)
  BY <1>1, <1>3 DEF SyncInv, RepliesDurable, Covered, AcksTold
<1>5. QED
  BY <1>4, ToldStable DEF BaseInv

\* What is stored but not yet told to everybody is still queued by its author,
\* whose retry is broadcast again (sync.rb:289-306), or was queued by nobody.
LEMMA StoreToldInv ==
  ASSUME SyncInv, BaseInv, AcksTold, StoreTold, AllAnswered', [Next]_vars
  PROVE  StoreTold'
<1> SUFFICES ASSUME NEW o \in store'
             PROVE  \/ Told(o)'
                    \/ \E c \in Client : o \in Merge(pending'[c]) \cup Preloaded[c]
  BY DEF StoreTold, Told, OnItsWay, Merge
<1>1. CASE o \in store /\ Told(o)
  BY <1>1, ToldStable DEF BaseInv
<1>2. ASSUME NEW c \in Client, o \in Merge(pending[c])
      PROVE  Told(o)' \/ o \in Merge(pending'[c])
  BY <1>2, PrunedTold
<1>3. CASE o \notin store
  <2>1. PICK j \in jobs : /\ UNCHANGED sessionVars /\ j.client \in Client
                          /\ o \in doc[j.client]
    BY <1>3, StoredFrom
  <2>2. o \in Merge(pending[j.client]) \cup Preloaded[j.client]
    BY <1>3, <2>1 DEF SyncInv, NothingLost
  <2>3. QED
    BY <1>2, <2>1, <2>2
<1>4. QED
  BY <1>1, <1>2, <1>3 DEF StoreTold

\* A job that is about to broadcast goes on to do so, unless its worker dies.
LEMMA DistributeJobKept ==
  ASSUME SyncInv, [Next]_vars, NEW j \in jobs, j.stage = "distribute"
  PROVE  \/ \E i \in jobs' : i.stage = "distribute" /\ i.frame = j.frame
         \/ DistributeChange(j) /\ UNCHANGED sessionVars
         \/ Failing
<1>1. jobs \subseteq Job
  BY DEF SyncInv, TypeOK, ChannelTypeOK
<1>2. ASSUME NEW c \in Client, NEW lost \in SUBSET InFlight(c),
             Disconnected(c, lost)
      PROVE  \E i \in jobs' : i.stage = "distribute" /\ i.frame = j.frame
  <2>1. jobs' = {Orphan(c, i) : i \in jobs}
    BY <1>2 DEF Disconnected
  <2>2. Orphan(c, j) \in jobs' /\ Orphan(c, j).stage = "distribute"
        /\ Orphan(c, j).frame = j.frame
    BY <1>1, <2>1, OrphanType
  <2>3. QED
    BY <2>2
<1>3. ASSUME NEW w \in Worker, NEW e \in up, Handling(w, e)
      PROVE  j \in jobs'
  BY <1>3 DEF Handling, HandleStep1, DropFrame, RejectGap, AcceptUpdate, channelVars
<1>4. ASSUME NEW i \in jobs, Working(i)
      PROVE  j \in jobs' \/ (DistributeChange(j) /\ UNCHANGED sessionVars)
  BY <1>4 DEF Working, RecordChange, DistributeChange, SendAck, Advance
<1>5. ASSUME NEW c \in Client,
             Connected(c) \/ Subscribe(c) \/ Tick(c)
               \/ (\E o \in Op : UserEdit(c, o))
               \/ (\E f \in down[c] : Taking(c, f))
      PROVE  j \in jobs'
  BY <1>5 DEF Connected, Subscribe, SyncSubscribed, Tick, UserEdit, Taking,
     channelVars
<1>6. Resting => j \in jobs'
  BY DEF Resting
<1>7. QED
  BY StepKinds, <1>2, <1>3, <1>4, <1>5, <1>6

\* What is recorded is broadcast by the same handler (sync.rb:298-299).
LEMMA StoreBroadcastInv ==
  ASSUME SyncInv, BaseInv, StoreBroadcast, AllAnswered', [Next]_vars
  PROVE  StoreBroadcast'
<1> SUFFICES ASSUME faults' = 0, NEW o \in store'
             PROVE  \/ Told(o)'
                    \/ \E j \in jobs' : j.stage = "distribute" /\ o \in j.frame.ops
  BY DEF StoreBroadcast, Told, OnItsWay
<1>1. faults = 0 /\ ~Failing /\ jobs \subseteq Job
  BY FaultsCount DEF SyncInv, TypeOK, ChannelTypeOK
<1>2. CASE o \in store /\ Told(o)
  BY <1>2, ToldStable DEF BaseInv
<1>3. ASSUME NEW j \in jobs, j.stage = "distribute", o \in j.frame.ops
      PROVE  \/ Told(o)'
             \/ \E i \in jobs' : i.stage = "distribute" /\ o \in i.frame.ops
  <2>1. CASE DistributeChange(j) /\ UNCHANGED sessionVars
    BY <1>3, <2>1, BroadcastTells DEF BaseInv
  <2>2. CASE \E i \in jobs' : i.stage = "distribute" /\ i.frame = j.frame
    BY <1>3, <2>2
  <2>3. QED
    BY <1>1, <1>3, <2>1, <2>2, DistributeJobKept
<1>4. CASE o \notin store
  <2>1. PICK j \in jobs : RecordChange(j) /\ o \in j.frame.ops
    BY <1>4, StoredFrom
  <2> DEFINE i == [j EXCEPT !.stage = "distribute"]
  <2>2. i \in jobs' /\ i.stage = "distribute" /\ i.frame = j.frame
    BY <1>1, <2>1, JobType DEF RecordChange, Advance
  <2> HIDE DEF i
  <2>3. QED
    BY <2>1, <2>2
<1>5. QED
  BY <1>1, <1>2, <1>3, <1>4 DEF StoreBroadcast

-----------------------------------------------------------------------------
(* Content from before the sessions.                                       *)

\* What is offered stays offered when a step takes neither questions nor answers
\* off the cable.
LEMMA OfferedKept ==
  ASSUME NEW d, NEW o, Offered(d, o), store \subseteq store',
         Merge(pending[d]) \subseteq Merge(pending'[d]) \cup store',
         subscribed'[d] => subscribed[d],
         subscribed'[d] => \A f \in down[d] : f.kind = "step1" => f \in down'[d],
         subscribed'[d] => \A e \in up :
           e.client = d /\ e.frame.kind = "step2" => e \in up',
         \A j \in jobs : j.stage = "record" =>
           \/ j.frame.ops \subseteq store'
           \/ \E i \in jobs' : i.stage = "record" /\ i.frame = j.frame
  PROVE  Offered(d, o)'
  BY DEF Offered, Merge

\* The queue loses only what is stored.
LEMMA MergeKept ==
  ASSUME SyncInv, [Next]_vars, NEW c \in Client
  PROVE  Merge(pending[c]) \subseteq Merge(pending'[c]) \cup store
<1>1. TypeOK
  BY DEF SyncInv
<1>2. ASSUME NEW d \in Client, NEW o \in Op, UserEdit(d, o)
      PROVE  pending[c] \subseteq pending'[c]
  BY <1>1, <1>2, EditEffect
<1>3. ASSUME NEW d \in Client, NEW f \in down[d], ReceiveContent(d, f)
      PROVE  UNCHANGED pending
  BY <1>3 DEF ReceiveContent, rsVars
<1>4. ASSUME NEW d \in Client, NEW f \in down[d], ReceiveAck(d, f)
      PROVE  Merge(pending[c]) \subseteq Merge(pending'[c]) \cup store
  BY <1>4, AckPrunes
<1>5. pending[c] \subseteq pending'[c] =>
        Merge(pending[c]) \subseteq Merge(pending'[c])
  BY DEF Merge
<1>6. QED
  BY SessionsRest, <1>2, <1>3, <1>4, <1>5

\* A session offers all it holds when the server asks (sync.rb:98-108,
\* y_protocol_session.ts:177-205), and the server records what it lacks of the
\* answer or asks again (sync.rb:159-165, 274-298).
LEMMA OldOfferedInv ==
  ASSUME SyncInv, ClocksTrue, OldOffered, [Next]_vars
  PROVE  OldOffered'
<1> SUFFICES ASSUME faults' = 0, Roomy, NEW d \in Client, NEW o \in doc'[d]
             PROVE  Offered(d, o)'
  BY DEF OldOffered, Offered, Merge, Roomy
<1>1. TypeOK /\ faults = 0 /\ ~Failing
  BY FaultsCount DEF SyncInv
<1>2. store \subseteq store' /\ Merge(pending[d]) \subseteq Merge(pending'[d]) \cup store'
  BY StepGrows, MergeKept DEF Grows
<1>3. /\ down \in [Client -> SUBSET Frame] /\ up \subseteq Envelope
      /\ subscribed \in [Client -> BOOLEAN] /\ jobs \subseteq Job
  BY <1>1 DEF TypeOK, ChannelTypeOK
<1>4. o \in doc[d] => Offered(d, o)
  BY <1>1 DEF OldOffered
<1>5. ASSUME o \in doc[d], UNCHANGED <<subscribed, jobs>>,
             \A f \in down[d] : f.kind = "step1" => f \in down'[d],
             \A e \in up : e.frame.kind = "step2" => e \in up'
      PROVE  Offered(d, o)'
  BY <1>2, <1>4, <1>5, OfferedKept
<1>6. ASSUME NEW c \in Client, Subscribe(c)
      PROVE  Offered(d, o)'
  <2> DEFINE f == SyncStep1(StateVector(store))
  <2>1. /\ down' = [down EXCEPT ![c] = down[c] \cup {f}]
        /\ subscribed' = [subscribed EXCEPT ![c] = TRUE]
        /\ UNCHANGED <<doc, jobs, up>>
    BY <1>6 DEF Subscribe, SyncSubscribed, Transmit, sessionVars
  <2>2. f.kind = "step1"
    BY DEF SyncStep1
  <2> HIDE DEF f
  <2>3. CASE c = d
    BY <1>3, <2>1, <2>2, <2>3 DEF Offered
  <2>4. CASE c # d
    BY <1>2, <1>3, <1>4, <2>1, <2>4, OfferedKept
  <2>5. QED
    BY <2>3, <2>4
<1>7. ASSUME NEW c \in Client, Connected(c) \/ Tick(c)
      PROVE  Offered(d, o)'
  BY <1>5, <1>7 DEF Connected, SessionOnConnect, Tick, SessionTick, channelVars
<1>8. ASSUME NEW c \in Client, NEW lost \in SUBSET InFlight(c),
             Disconnected(c, lost)
      PROVE  Offered(d, o)'
  <2>1. /\ subscribed' = [subscribed EXCEPT ![c] = FALSE]
        /\ down' = [down EXCEPT ![c] = {}]
        /\ jobs' = {Orphan(c, j) : j \in jobs}
        /\ UNCHANGED doc
    BY <1>8 DEF Disconnected, SessionOnDisconnect
  <2>2. CASE c = d
    BY <1>3, <2>1, <2>2 DEF Offered
  <2>3. CASE c # d
    <3>1. \A e \in up : e.client = d => e \in up'
      BY <1>1, <1>8, <2>3, OthersKept
    <3>2. \A j \in jobs : Orphan(c, j) \in jobs' /\ Orphan(c, j).stage = j.stage
                          /\ Orphan(c, j).frame = j.frame
      BY <1>3, <2>1, OrphanType
    <3>3. \A j \in jobs : j.stage = "record" =>
            \E i \in jobs' : i.stage = "record" /\ i.frame = j.frame
      BY <3>2
    <3>4. down'[d] = down[d] /\ subscribed'[d] = subscribed[d]
      BY <1>3, <2>1, <2>3
    <3>5. QED
      BY <1>2, <1>4, <2>1, <3>1, <3>3, <3>4, OfferedKept
  <2>4. QED
    BY <2>2, <2>3
<1>9. ASSUME NEW c \in Client, NEW q \in Op, UserEdit(c, q)
      PROVE  Offered(d, o)'
  <2>1. /\ doc'[c] = doc[c] \cup {q} /\ q \in Merge(pending'[c])
        /\ \A b \in Client : b # c => doc'[b] = doc[b]
        /\ up \subseteq up' /\ UNCHANGED <<down, subscribed, jobs>>
    BY <1>1, <1>9, EditEffect
  <2>2. CASE o \in doc[d]
    BY <1>5, <2>1, <2>2
  <2>3. CASE o \notin doc[d]
    BY <2>1, <2>3 DEF Offered
  <2>4. QED
    BY <2>2, <2>3
<1>10. ASSUME NEW c \in Client, NEW f \in down[c], Taking(c, f)
       PROVE  Offered(d, o)'
  <2>1. /\ down' = [down EXCEPT ![c] = down[c] \ {f}] /\ up \subseteq up'
        /\ UNCHANGED <<store, subscribed, jobs>>
    BY <1>10 DEF Taking, ReceiveAck, ReceiveStep1, ReceiveContent, Consume,
       channelVars
  <2>2. CASE ReceiveAck(c, f)
    BY <1>3, <1>5, <2>1, <2>2 DEF ReceiveAck
  <2>3. CASE ReceiveContent(c, f)
    <3>1. o \in doc[d] \cup store
      BY <2>3, ContentApplied
    <3>2. o \in store => Offered(d, o)'
      BY <2>1 DEF Offered
    <3>3. o \in doc[d] => Offered(d, o)'
      BY <1>3, <1>5, <2>1, <2>3 DEF ReceiveContent
    <3>4. QED
      BY <3>1, <3>2, <3>3
  <2>4. CASE ReceiveStep1(c, f)
    <3> DEFINE diff  == EncodeDiff(doc[c] \cup parked[c], f.ops)
               reply == SyncStep2(diff)
               e     == [client |-> c, live |-> TRUE, frame |-> reply]
    <3>1. UNCHANGED doc /\ e \in up' /\ f.kind = "step1"
      BY <2>4 DEF ReceiveStep1, Enveloped
    <3>2. e.client = c /\ e.live /\ e.frame = reply /\ reply.kind = "step2"
          /\ reply.ops = diff
      BY DEF SyncStep2
    <3>3. c = d => o \in diff \/ o \in store
      BY <3>1 DEF EncodeDiff, ClocksTrue
    <3> HIDE DEF diff, reply, e
    <3>4. CASE c = d
      <4>1. o \in store \/ (e.client = d /\ e.live /\ e.frame.kind = "step2"
                              /\ o \in e.frame.ops)
        BY <3>2, <3>3, <3>4
      <4>2. QED
        BY <2>1, <3>1, <4>1 DEF Offered
    <3>5. CASE c # d
      BY <1>3, <1>5, <2>1, <3>1, <3>5
    <3>6. QED
      BY <3>4, <3>5
  <2>5. QED
    BY <1>10, <2>2, <2>3, <2>4 DEF Taking
<1>11. ASSUME NEW w \in Worker, NEW e \in up, Handling(w, e)
       PROVE  Offered(d, o)'
  <2>1. /\ UNCHANGED <<doc, pending, store, subscribed>> /\ up' = up \ {e}
        /\ e.client \in Client /\ e.live \in BOOLEAN /\ e.frame.ops \in SUBSET Op
    BY <1>3, <1>11 DEF Handling, HandleStep1, DropFrame, RejectGap, AcceptUpdate,
       sessionVars, rsVars, channelVars, Envelope, Frame
  <2>2. down[d] \subseteq down'[d]
    BY <1>1, <1>11, <2>1, DownKept DEF Handling, HandleStep1, DropFrame, RejectGap,
       AcceptUpdate
  <2>3. jobs \subseteq jobs'
    BY <1>11 DEF Handling, HandleStep1, DropFrame, RejectGap, AcceptUpdate,
       channelVars
  <2>4. CASE ~(e.client = d /\ e.live /\ e.frame.kind = "step2" /\ o \in e.frame.ops)
    BY <1>4, <2>1, <2>2, <2>3, <2>4 DEF Offered
  <2>5. CASE e.client = d /\ e.live /\ e.frame.kind = "step2" /\ o \in e.frame.ops
    <3>1. CASE RejectGap(e)
      <4> DEFINE f == SyncStep1(StateVector(store))
      <4>1. f \in down'[d] /\ f.kind = "step1"
        BY <1>3, <2>1, <2>5, <3>1 DEF RejectGap, Transmit, SyncStep1
      <4> HIDE DEF f
      <4>2. QED
        BY <4>1 DEF Offered
    <3>2. CASE AcceptUpdate(w, e)
      <4>1. CASE e.frame.ops \subseteq store
        BY <2>1, <2>5, <4>1 DEF Offered
      <4>2. CASE ~(e.frame.ops \subseteq store)
        <5> DEFINE i == JobFor(w, e, "record")
        <5>1. i \in jobs'
          BY <3>2, <4>2 DEF AcceptUpdate, UpdateAdvances
        <5>2. i.stage = "record" /\ i.frame = e.frame
          BY DEF JobFor
        <5> HIDE DEF i
        <5>3. QED
          BY <2>5, <5>1, <5>2 DEF Offered
      <4>3. QED
        BY <4>1, <4>2
    <3>3. ~HandleStep1(e) /\ ~DropFrame(e)
      BY <2>1, <2>5 DEF HandleStep1, DropFrame, Oversized, Roomy
    <3>4. QED
      BY <1>11, <3>1, <3>2, <3>3 DEF Handling
  <2>6. QED
    BY <2>4, <2>5
<1>12. ASSUME NEW j \in jobs, Working(j)
       PROVE  Offered(d, o)'
  <2>1. UNCHANGED <<doc, subscribed, up>> /\ j.client \in Client /\ j.live \in BOOLEAN
    BY <1>3, <1>12 DEF Working, RecordChange, DistributeChange, SendAck,
       sessionVars, Job
  <2>2. down[d] \subseteq down'[d]
    BY <1>1, <1>12, <2>1, DownKept DEF Working, RecordChange, DistributeChange, SendAck
  <2>3. \A i \in jobs : i.stage = "record" =>
          i \in jobs' \/ i.frame.ops \subseteq store'
    BY <1>12 DEF Working, RecordChange, DistributeChange, SendAck, Advance
  <2>4. QED
    BY <1>2, <1>4, <2>1, <2>2, <2>3, OfferedKept
<1>13. CASE Resting
  BY <1>5, <1>13 DEF Resting, sessionVars
<1>14. QED
  BY StepKinds, <1>1, <1>6, <1>7, <1>8, <1>9, <1>10, <1>11, <1>12, <1>13

-----------------------------------------------------------------------------
(* The theorems.                                                           *)

\* Who has joined has what is stored; nobody else is connected.
LEMMA ConvergenceInit == Init => ConvergenceInv
<1> SUFFICES ASSUME Init PROVE BaseInv /\ ToldInv
  BY InitInv DEF ConvergenceInv
<1>1. /\ store = Stored /\ up = {} /\ jobs = {}
      /\ \A c \in Client : /\ doc[c] = Opened(c, Joined, Stored)
                           /\ parked[c] = {} /\ pending[c] = {} /\ down[c] = {}
                           /\ connected[c] = (c \in Joined)
                           /\ subscribed[c] = (c \in Joined)
  BY DEF Init, SessionInit, RSInit, ChannelInit
<1>2. ConnectedStreams /\ ClocksTrue /\ TailsCarried /\ ParkedBlocked
  BY <1>1 DEF ConnectedStreams, ClocksTrue, TailsCarried, ParkedBlocked
<1>3. AuthorFirst
  BY <1>1, AuthorAssumption DEF AuthorFirst
<1>4. OldOffered
  BY <1>1 DEF OldOffered, Offered, Opened
<1>5. AcksTold
  BY <1>1 DEF AcksTold
<1>6. \A o \in store : Told(o)
  BY <1>1 DEF Told, OnItsWay, Opened
<1>7. StoreTold /\ StoreBroadcast
  BY <1>6 DEF StoreTold, StoreBroadcast
<1>8. QED
  BY <1>2, <1>3, <1>4, <1>5, <1>7 DEF BaseInv, ToldInv

\* Every step preserves the invariant.
LEMMA ConvergenceStep == ConvergenceInv /\ [Next]_vars => ConvergenceInv'
<1> SUFFICES ASSUME ConvergenceInv, [Next]_vars PROVE ConvergenceInv'
  OBVIOUS
<1>1. SyncInv /\ BaseInv /\ ToldInv /\ TypeOK
  BY DEF ConvergenceInv, SyncInv
<1>2. SyncInv'
  BY <1>1, StepInv
<1>3. BaseInv'
  BY <1>1, StreamsInv, ClocksInv, CarriedInv, BlockedInv, AuthorInv, OldOfferedInv
     DEF BaseInv
<1>4. ToldInv'
  <2> SUFFICES ASSUME AllAnswered' PROVE AcksTold' /\ StoreTold' /\ StoreBroadcast'
    BY DEF ToldInv
  <2>1. AcksTold /\ StoreTold /\ StoreBroadcast
    BY <1>1, FaultsCount DEF ToldInv
  <2>2. QED
    BY <1>1, <2>1, AcksInv, StoreToldInv, StoreBroadcastInv
<1>5. QED
  BY <1>2, <1>3, <1>4 DEF ConvergenceInv

\* An insertion is in its author's document before it is anywhere else, and what
\* a client holds back really lacks something: the one place where Yjs would
\* integrate it without being handed a frame, a local edit, never does
\* (y_protocol_session.ts:89-93, 177-205).
THEOREM ConvergenceInvariance == Spec => []ConvergenceInv
  BY ConvergenceInit, ConvergenceStep, PTL DEF Spec

\* Whatever is lost, delayed, retried or dies half way: an update leaves its
\* author's queue only when every connected client has it or is sure to get it
\* (sync.rb:257-307, reliable_sync.ts:108-114).
THEOREM PrunedAreTold == Spec => PrunedIsTold
<1>1. ConvergenceInv /\ [Next]_vars =>
        [AllAnswered' =>
           \A c, d \in Client : \A o \in Merge(pending[c]) \ Merge(pending[c])' :
             OnItsWay(d, o)']_vars
  <2> SUFFICES ASSUME ConvergenceInv, [Next]_vars, AllAnswered',
                      NEW c \in Client, NEW d \in Client,
                      NEW o \in Merge(pending[c]) \ Merge(pending[c])'
               PROVE  OnItsWay(d, o)'
    BY DEF OnItsWay
  <2>1. SyncInv /\ BaseInv /\ AcksTold
    BY FaultsCount DEF ConvergenceInv, ToldInv, SyncInv
  <2>2. o \in Merge(pending[c]) \ Merge(pending'[c])
    BY DEF Merge
  <2>3. Told(o)'
    BY <2>1, <2>2, PrunedTold
  <2>4. QED
    BY <2>3 DEF Told, OnItsWay
<1>2. QED
  BY <1>1, ConvergenceInvariance, PTL DEF Spec, PrunedIsTold

\* At rest, the store is in every document: it has been told, and nothing is on
\* its way any more.
LEMMA RestShowsStore ==
  ASSUME ConvergenceInv, Settled, AllAnswered, OldContentTravels, NEW c \in Client
  PROVE  store \subseteq doc[c] \cup parked[c]
<1> SUFFICES ASSUME NEW o \in store PROVE o \in doc[c] \cup parked[c]
  OBVIOUS
<1>1. StoreTold /\ StoreBroadcast
  BY DEF ConvergenceInv, ToldInv
<1>2. /\ up = {} /\ jobs = {} /\ connected[c] /\ down[c] = {}
      /\ \A d \in Client : Merge(pending[d]) = {}
  BY DEF Settled, Merge
<1>3. Told(o)
  BY <1>1, <1>2 DEF StoreTold, StoreBroadcast, OldContentTravels
<1>4. QED
  BY <1>2, <1>3 DEF Told, OnItsWay

\* At rest, every document is in the store: what was queued is acknowledged, and
\* what was there before has been offered.
LEMMA RestIsStored ==
  ASSUME ConvergenceInv, Settled, OldContentTravels, NEW c \in Client
  PROVE  doc[c] \subseteq store
<1>1. /\ up = {} /\ jobs = {} /\ connected[c] /\ down[c] = {}
      /\ Merge(pending[c]) = {}
  BY DEF Settled, Merge
<1>2. CASE Preloaded[c] = {}
  BY <1>1, <1>2 DEF ConvergenceInv, SyncInv, NothingLost
<1>3. CASE faults = 0 /\ Roomy
  <2>1. \A o \in doc[c] : Offered(c, o)
    BY <1>3 DEF ConvergenceInv, BaseInv, OldOffered
  <2>2. subscribed[c]
    BY <1>1 DEF ConvergenceInv, BaseInv, ConnectedStreams
  <2>3. QED
    BY <1>1, <2>1, <2>2 DEF Offered
<1>4. QED
  BY <1>2, <1>3 DEF OldContentTravels, Roomy

\* When everything is quiet, all agree: every client shows exactly what is stored
\* and holds nothing back, whatever was lost, delayed, retried or failed before,
\* and however many clients, workers and operations there are (sync.rb:159-165,
\* 257-307, y_protocol_session.ts:115-126).
THEOREM SettledAgree == Spec => []SettledIsConverged
<1>1. ConvergenceInv => SettledIsConverged
  <2> SUFFICES ASSUME ConvergenceInv, Settled, AllAnswered, OldContentTravels,
                      NEW c \in Client
               PROVE  doc[c] = store /\ parked[c] = {} /\ pending[c] = {}
    BY DEF SettledIsConverged, Converged
  <2>1. store \subseteq doc[c] \cup parked[c]
    BY RestShowsStore
  <2>2. doc[c] \subseteq store
    BY RestIsStored
  <2>3. parked[c] = {}
    <3> SUFFICES ASSUME NEW o \in parked[c] PROVE FALSE
      OBVIOUS
    <3>1. o \in store /\ Closed(store)
      BY DEF ConvergenceInv, SyncInv, NothingLost, LogGapFree
    <3>2. Past[o] \subseteq doc[c] \cup parked[c]
      BY <2>1, <3>1 DEF Closed
    <3>3. QED
      BY <3>2 DEF ConvergenceInv, BaseInv, ParkedBlocked
  <2>4. QED
    BY <2>1, <2>2, <2>3 DEF Settled
<1>2. QED
  BY <1>1, ConvergenceInvariance, PTL
=============================================================================
