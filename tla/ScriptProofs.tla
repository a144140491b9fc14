---------------------------- MODULE ScriptProofs ----------------------------
(***************************************************************************)
(* What the demo's scripts check holds in every timing: with any number of *)
(* workers, whatever the edits depend on and whichever of them delete, and *)
(* with any clients and operations beside those of the scripts.            *)
(*                                                                         *)
(* The argument is in layers, each an invariant that rests on those below. *)
(* Of all scripts: content travels from its author (Journey) over open     *)
(* sockets (Links), what is stored is told to everyone connected (Heard),  *)
(* and what a script has typed, found or waited for stays so (Progress).   *)
(* Of kinds of scripts: the write that raises loses its edit (Lost), what a*)
(* client shows is owed to the store (Debts), an ack is of what is stored  *)
(* (Tailed).  Of each script: what it has established by its steps (Slowed,*)
(* Gathered, Met, Outages, Drained).  ChecksInv has them all, and a check  *)
(* is read off it at the script's step.                                    *)
(***************************************************************************)
EXTENDS ScenarioProofs, FiniteSetTheorems

-----------------------------------------------------------------------------
(* The edits of the scripts.                                               *)

\* Each edit has one author, in every script.
Authored(c) ==
  IF c = "a" THEN {"o1", "o2", "o3"} ELSE IF c = "b" THEN {"p1", "r1"} ELSE {}

\* A step of s that edits is by one of the scripts' authors.
EditOf(s, c, o) == s.do = "edit" /\ s.cs = {c} /\ s.ops = {o}

\* Script s has only edits of the operations X.
Edited(s, X) ==
  \A t \in DOMAIN s.threads : \A i \in DOMAIN s.threads[t] :
    s.threads[t][i].do = "edit" =>
      \E c \in Cast : \E o \in X \cap Authored(c) : EditOf(s.threads[t][i], c, o)

\* What the scripts edit, read off their steps.
LEMMA ScriptEdits ==
  /\ Edited(E2E, {"o1", "r1"}) /\ Edited(SlowStore, {"o1"})
  /\ Edited(StoreFailure, {"o1"}) /\ Edited(SelfHeal, {"o1"})
  /\ Edited(OfflineCatchUp, {"o1", "o2", "o3"}) /\ Edited(Audit, {"o1", "o2"})
  /\ Edited(Multiprocess, {"o1", "o2", "p1"}) /\ Edited(CrashRecovery, {"o1", "o2"})
  /\ Edited(Chaos, {"o1", "p1"}) /\ Edited(Stress, {"o1", "o2", "p1"})
  /\ Edited(AnyCableSlowStore, {"o1"}) /\ Edited(AnyCableFailure, {"o1"})
  /\ Edited(Reliable, {"o1", "o2"}) /\ Edited(ReliableProvider, {"o1", "o2"})
  /\ Edited(ReliableStress, {"o1", "o2"})
<1> USE DEF Script, Open, Go, Check, Await, Settle, Step, Edits, Edited, EditOf,
            Authored, Cast
<1>1. Edited(E2E, {"o1", "r1"})
  BY DEF E2E
<1>2. Edited(SlowStore, {"o1"})
  BY DEF SlowStore
<1>3. Edited(StoreFailure, {"o1"})
  BY DEF StoreFailure
<1>4. Edited(SelfHeal, {"o1"})
  BY DEF SelfHeal
<1>5. Edited(OfflineCatchUp, {"o1", "o2", "o3"})
  BY DEF OfflineCatchUp
<1>6. Edited(Audit, {"o1", "o2"})
  BY DEF Audit
<1>7. Edited(Multiprocess, {"o1", "o2", "p1"})
  BY DEF Multiprocess
<1>8. Edited(CrashRecovery, {"o1", "o2"})
  BY DEF CrashRecovery
<1>9. Edited(Chaos, {"o1", "p1"})
  BY DEF Chaos, Barrage
<1>10. Edited(Stress, {"o1", "o2", "p1"})
  <2>1. DOMAIN Stress.threads = {1, 2, 3}
    BY DEF Stress
  <2>2. \A i \in DOMAIN Stress.threads[1] : Stress.threads[1][i].do # "edit"
    BY DEF Stress
  <2>3. \A i \in DOMAIN Stress.threads[2] :
          Stress.threads[2][i].do = "edit" =>
            \E o \in {"o1", "o2"} : EditOf(Stress.threads[2][i], "a", o)
    BY DEF Stress
  <2>4. \A i \in DOMAIN Stress.threads[3] : EditOf(Stress.threads[3][i], "b", "p1")
    BY DEF Stress
  <2>5. QED
    BY <2>1, <2>2, <2>3, <2>4
<1>11. Edited(AnyCableSlowStore, {"o1"})
  BY DEF AnyCableSlowStore
<1>12. Edited(AnyCableFailure, {"o1"})
  BY DEF AnyCableFailure
<1>13. Edited(Reliable, {"o1", "o2"})
  BY DEF Reliable
<1>14. Edited(ReliableProvider, {"o1", "o2"})
  BY DEF ReliableProvider
<1>15. Edited(ReliableStress, {"o1", "o2"})
  BY DEF ReliableStress
<1>16. QED
  BY <1>1, <1>2, <1>3, <1>4, <1>5, <1>6, <1>7, <1>8,
     <1>9, <1>10, <1>11, <1>12, <1>13, <1>14, <1>15

\* Every script is one of those, so what a client types is among its own edits
\* and among the script's.
LEMMA TypedFrom ==
  ASSUME NEW X, Edited(script, X), NEW c
  PROVE  Typed(c) \subseteq X \cap Authored(c)
<1> SUFFICES ASSUME NEW o \in Typed(c) PROVE o \in X \cap Authored(c)
  OBVIOUS
<1>1. PICK t \in DOMAIN script.threads :
        \E i \in DOMAIN script.threads[t] :
          /\ script.threads[t][i].do = "edit"
          /\ c \in script.threads[t][i].cs /\ o \in script.threads[t][i].ops
  BY DEF Typed, Range
<1>2. QED
  BY <1>1 DEF Edited, EditOf

\* The operations of the script that runs.
Written == UNION {Typed(c) : c \in Client}

\* Nobody types the edits of another, and every edit is a scenario's.
LEMMA TypedOwn ==
  ASSUME script \in Scripts, NEW c
  PROVE  Typed(c) \subseteq Authored(c) /\ Typed(c) \subseteq ScenarioOp
<1>1. \E X \in SUBSET ScenarioOp : Edited(script, X)
  BY ScriptEdits, EditsMade DEF Scripts
<1>2. QED
  BY <1>1, TypedFrom

\* No two clients are the author of one edit.
LEMMA OneAuthor ==
  ASSUME NEW c, NEW d, NEW o \in Authored(c), o \in Authored(d)
  PROVE  c = d
  BY DEF Authored

\* An edit step has its author type an edit of its own.
LEMMA EditStepOwn ==
  ASSUME ScenarioInv, NEW t, Ready(t), AtStep(t, {"edit"})
  PROVE  \E c \in Cast : \E o \in Authored(c) : EditOf(Current(t), c, o)
<1>1. \E X \in SUBSET ScenarioOp : Edited(script, X)
  BY ScriptEdits, EditsMade, Parts DEF Scripts, ScriptTyped
<1>2. /\ t \in DOMAIN script.threads
      /\ pc[t] \in 1 .. Len(script.threads[t]) /\ script.threads[t] \in Seq(StepType)
  BY AtAStep
<1>3. pc[t] \in DOMAIN script.threads[t]
  BY <1>2
<1>4. QED
  BY <1>1, <1>2, <1>3 DEF Edited, AtStep, Current

-----------------------------------------------------------------------------
(* The steps.                                                              *)

\* Client c takes f up.
Taking(c, f) ==
  /\ UNCHANGED <<scriptVars, channelVars>>
  /\ \/ profile.queue = "tail" /\ ReceiveAck(c, f)
     \/ profile.queue = "each" /\ ReceiveOneAck(c, f)
     \/ profile.answers /\ TRUE \in Carriage(c, "step2") /\ ReceiveStep1(c, f)
     \/ ReceiveContent(c, f)
     \/ ReceiveInVain(c, f)

\* A worker takes the envelope e up.
Handling(e) ==
  /\ UNCHANGED <<scriptVars, sessionVars>>
  /\ \/ HandleStep1(e) \/ DropFrame(e) \/ RejectGap(e)
     \/ \E w \in Worker : AcceptUpdate(w, e)

\* A worker goes on with j.
Working(j) ==
  /\ UNCHANGED <<script, pc, forked, opened, network, slow, sessionVars>>
  /\ \/ j.stage = "record" /\ failNext /\ Abort(j) /\ failNext' = FALSE
     \/ ~slow /\ ~failNext /\ RecordChange(j) /\ UNCHANGED failNext
     \/ (DistributeChange(j) \/ SendAck(j)) /\ UNCHANGED failNext

\* Everything but the script's own steps.
Move ==
  \/ \E c \in Client : Join(c) \/ Confirmed(c) \/ ResendTick(c)
  \/ \E c \in Client : \E f \in down[c] : Taking(c, f)
  \/ \E e \in up : Handling(e)
  \/ \E j \in jobs : Working(j)

\* Every step is one of these.
LEMMA StepKinds ==
  ASSUME [ScenarioNext]_scenarioVars
  PROVE  (\E t \in Thread : ScriptStep(t)) \/ Move \/ UNCHANGED scenarioVars
<1>1. ASSUME NEW c \in Client, NEW k, ReceiveFrame(c, k)
      PROVE  \E f \in down[c] : Taking(c, f)
  BY <1>1 DEF ReceiveFrame, Taking
<1>2. ASSUME NEW c \in Client, NEW k, HandleFrame(c, k)
      PROVE  \E e \in up : Handling(e)
  BY <1>2 DEF HandleFrame, Handling
<1>3. ASSUME NEW w \in Worker, HandlerStep(w)
      PROVE  \E j \in jobs : Working(j)
  BY <1>3 DEF HandlerStep, Working
<1>4. QED
  BY <1>1, <1>2, <1>3 DEF ScenarioNext, Move

\* A move leaves the script where it is, and its switches but for a fault that
\* has struck.
LEMMA MoveRests ==
  ASSUME Move
  PROVE  /\ UNCHANGED <<script, pc, forked, opened, network, slow>>
         /\ failNext' = failNext \/ failNext' = FALSE
<1>1. ASSUME NEW c, Join(c) \/ Confirmed(c) \/ ResendTick(c)
      PROVE  UNCHANGED scriptVars
  BY <1>1 DEF Join, Confirmed, ResendTick
<1>2. ASSUME NEW c, NEW f, Taking(c, f) PROVE UNCHANGED scriptVars
  BY <1>2 DEF Taking
<1>3. ASSUME NEW e, Handling(e) PROVE UNCHANGED scriptVars
  BY <1>3 DEF Handling
<1>4. QED
  BY <1>1, <1>2, <1>3 DEF Move, Working, scriptVars

-----------------------------------------------------------------------------
(* What a step does to the documents and to the store.                     *)

\* Content goes into the document or stays parked; what stays lacks something.
Shows(c, f) ==
  /\ f \in down[c] /\ f.kind \in {"step2", "update"}
  /\ doc'[c] = Integrate(doc[c], parked[c] \cup f.ops)
  /\ parked'[c] = (parked[c] \cup f.ops) \ doc'[c]

\* The author types the operation o, which needs nothing it has not got.
Types(c, o) ==
  /\ o \in Authored(c) /\ o \in Typed(c) /\ o \notin doc[c] /\ Past[o] \subseteq doc[c]
  /\ doc'[c] = doc[c] \cup {o} /\ parked'[c] = parked[c]

\* What typing does, whoever takes the step.
LEMMA EditEffect ==
  ASSUME ScenarioInv, NEW t, Ready(t), EditStep(t)
  PROVE  \E c \in Cast : \E o \in Authored(c) :
           /\ EditOf(Current(t), c, o) /\ c \in Client /\ o \in Op
           /\ Type(c, o) /\ Types(c, o)
           /\ \A d \in Client \ {c} : doc'[d] = doc[d]
           /\ UNCHANGED <<parked, synced, down, channelVars>>
           /\ UNCHANGED <<forked, opened, network, slow, failNext>>
<1>0. PICK c \in Cast : \E o \in Authored(c) : EditOf(Current(t), c, o)
  BY EditStepOwn DEF EditStep
<1>1. PICK o \in Authored(c) : EditOf(Current(t), c, o)
  BY <1>0
<1>2. Type(c, o)
  BY <1>1 DEF EditStep, EditOf
<1>3. c \in Client /\ o \in Op /\ Current(t).ops = {o} /\ Current(t).cs = {c}
  BY <1>1, AtAStep, StepParts DEF EditOf
<1>4. o \in Typed(c)
  BY <1>3, TypedAtStep DEF EditStep
<1>5. /\ o \notin doc[c] /\ Past[o] \subseteq doc[c]
      /\ doc' = [doc EXCEPT ![c] = @ \cup {o}]
      /\ UNCHANGED <<parked, synced, down>>
  BY <1>2 DEF Type
<1>6. Types(c, o) /\ \A d \in Client \ {c} : doc'[d] = doc[d]
  BY <1>3, <1>4, <1>5, Parts DEF Types
<1>7. QED
  BY <1>1, <1>2, <1>3, <1>5, <1>6 DEF EditStep

\* Only c's document changes, and what is parked there.
Alone(c) == \A d \in Client \ {c} : doc'[d] = doc[d] /\ parked'[d] = parked[d]

\* Documents change when their author types and when content is shown.
LEMMA DocFrom ==
  ASSUME ScenarioInv, [ScenarioNext]_scenarioVars
  PROVE  \/ UNCHANGED <<doc, parked>>
         \/ \E c \in Client : \E o : Types(c, o) /\ Alone(c) /\ UNCHANGED store
         \/ \E c \in Client : \E f :
              Shows(c, f) /\ Alone(c) /\ UNCHANGED <<store, up, jobs>>
<1> DEFINE Resting == UNCHANGED <<doc, parked>>
           Typing == \E c \in Client : \E o : Types(c, o) /\ Alone(c) /\ UNCHANGED store
           Showing == \E c \in Client : \E f :
                        Shows(c, f) /\ Alone(c) /\ UNCHANGED <<store, up, jobs>>
<1>1. ASSUME NEW t \in Thread, ScriptStep(t) PROVE Resting \/ Typing
  <2>1. CASE EditStep(t)
    <3>1. Ready(t)
      BY <1>1 DEF ScriptStep
    <3>2. QED
      BY <2>1, <3>1, EditEffect DEF channelVars, Alone
  <2>2. CASE ~EditStep(t)
    BY <1>1, <2>2 DEF ScriptStep, OpenSockets, Close, Kill, Drop, Rejoin, SendOutOfTurn,
       Switch, Fork, GoOn, sessionVars
  <2>3. QED
    BY <2>1, <2>2
<1>2. ASSUME NEW c \in Client, NEW f \in down[c], Taking(c, f) PROVE Resting \/ Showing
  <2>1. CASE ReceiveContent(c, f)
    <3>1. /\ f.kind \in {"step2", "update"}
          /\ doc' = [doc EXCEPT ![c] = Integrate(doc[c], parked[c] \cup f.ops)]
          /\ parked' = [parked EXCEPT ![c] = (parked[c] \cup f.ops)
                                               \ Integrate(doc[c], parked[c] \cup f.ops)]
      BY <2>1 DEF ReceiveContent
    <3>2. UNCHANGED <<store, up, jobs>>
      BY <2>1, <1>2 DEF ReceiveContent, Taking, channelVars
    <3>3. Shows(c, f) /\ Alone(c)
      BY <3>1, Parts DEF Shows, Alone
    <3>4. QED
      BY <3>2, <3>3
  <2>2. CASE ~ReceiveContent(c, f)
    BY <2>2, <1>2 DEF Taking, ReceiveAck, ReceiveOneAck, ReceiveStep1, ReceiveInVain
  <2>3. QED
    BY <2>1, <2>2
<1>3. ASSUME NEW c \in Client, Join(c) \/ Confirmed(c) \/ ResendTick(c) PROVE Resting
  BY <1>3 DEF Join, Confirmed, SessionOnConnect, ResendTick, Resend, sessionVars
<1>4. ASSUME NEW e \in up, Handling(e) PROVE Resting
  BY <1>4 DEF Handling, sessionVars
<1>5. ASSUME NEW j \in jobs, Working(j) PROVE Resting
  BY <1>5 DEF Working, sessionVars
<1>6. UNCHANGED scenarioVars => Resting
  BY DEF scenarioVars, sessionVars
<1>7. QED
  BY StepKinds, <1>1, <1>2, <1>3, <1>4, <1>5, <1>6 DEF Move

\* Nothing is lost from a document or the store, and the script stays the same.
LEMMA Grows ==
  ASSUME ScenarioInv, [ScenarioNext]_scenarioVars
  PROVE  /\ script' = script /\ store \subseteq store'
         /\ \A c \in Client : /\ doc[c] \subseteq doc'[c]
                              /\ doc[c] \cup parked[c] \subseteq doc'[c] \cup parked'[c]
<1>1. script' = script
  BY StepKinds, MoveRests DEF ScriptStep, scenarioVars, scriptVars
<1>2. store \subseteq store'
  <2>1. ASSUME NEW t, ScriptStep(t) PROVE store' = store
    BY <2>1 DEF ScriptStep, OpenSockets, Close, Kill, Drop, Rejoin, SendOutOfTurn,
       EditStep, Switch, Fork, GoOn, channelVars
  <2>2. ASSUME NEW c, Join(c) \/ Confirmed(c) \/ ResendTick(c) PROVE store' = store
    BY <2>2 DEF Join, SyncSubscribed, Confirmed, ResendTick, channelVars
  <2>3. ASSUME NEW c, NEW f, Taking(c, f) PROVE store' = store
    BY <2>3 DEF Taking, channelVars
  <2>4. ASSUME NEW e, Handling(e) PROVE store' = store
    BY <2>4 DEF Handling, HandleStep1, DropFrame, RejectGap, AcceptUpdate, channelVars
  <2>5. ASSUME NEW j, Working(j) PROVE store \subseteq store'
    BY <2>5 DEF Working, Abort, RecordChange, DistributeChange, SendAck
  <2>6. QED
    BY StepKinds, <2>1, <2>2, <2>3, <2>4, <2>5 DEF Move, scenarioVars, channelVars
<1>3. ASSUME NEW c \in Client
      PROVE  /\ doc[c] \subseteq doc'[c]
             /\ doc[c] \cup parked[c] \subseteq doc'[c] \cup parked'[c]
  <2>1. ASSUME NEW f, Shows(c, f)
        PROVE  /\ doc[c] \subseteq doc'[c]
               /\ doc[c] \cup parked[c] \subseteq doc'[c] \cup parked'[c]
    BY <2>1 DEF Shows, Integrate
  <2>2. QED
    BY <2>1, DocFrom DEF Types, Alone
<1>4. QED
  BY <1>1, <1>2, <1>3

\* The store grows by what a worker records, and nothing else happens then.
LEMMA StoreFrom ==
  ASSUME [ScenarioNext]_scenarioVars, store' # store
  PROVE  \E j \in jobs :
           /\ Working(j) /\ j.stage = "record" /\ ~slow /\ ~failNext
           /\ store' = store \cup j.frame.ops
           /\ Advance(j, "distribute")
           /\ UNCHANGED <<doc, parked, connected, subscribed, up, down>>
<1>1. ASSUME NEW t, ScriptStep(t) PROVE FALSE
  BY <1>1 DEF ScriptStep, OpenSockets, Close, Kill, Drop, Rejoin, SendOutOfTurn,
     EditStep, Switch, Fork, GoOn, channelVars
<1>2. ASSUME NEW c, Join(c) \/ Confirmed(c) \/ ResendTick(c) PROVE FALSE
  BY <1>2 DEF Join, SyncSubscribed, Confirmed, ResendTick, channelVars
<1>3. ASSUME NEW c, NEW f, Taking(c, f) PROVE FALSE
  BY <1>3 DEF Taking, channelVars
<1>4. ASSUME NEW e, Handling(e) PROVE FALSE
  BY <1>4 DEF Handling, HandleStep1, DropFrame, RejectGap, AcceptUpdate, channelVars
<1>5. PICK j \in jobs : Working(j)
  BY StepKinds, <1>1, <1>2, <1>3, <1>4 DEF Move, scenarioVars, channelVars
<1>6. RecordChange(j) /\ ~slow /\ ~failNext
  BY <1>5 DEF Working, Abort, DistributeChange, SendAck
<1>7. QED
  BY <1>5, <1>6 DEF Working, RecordChange, sessionVars, rsVars

-----------------------------------------------------------------------------
(* What a step of a script does to the clients, the cable and the server.  *)

\* The sockets of cs go; the jobs go on unless the server is killed.
Cut(cs) ==
  /\ \E lost \in SUBSET up : Drop(cs, lost) /\ \A e \in lost : e.client \in cs
  /\ \/ jobs' = {[j EXCEPT !.live = @ /\ j.client \notin cs] : j \in jobs}
     \/ jobs' = {} /\ cs = Client

\* Client c sends a frame out of turn, and may be greeted again.
Hails(c) ==
  /\ \E f \in {Update({}, 0), SyncStep1(StateVector(doc[c]))} :
       up' = up \cup Enveloped(c, {f})
  /\ \/ UNCHANGED down
     \/ Transmit(c, TRUE, SyncStep1(StateVector(store)))
  /\ \A d \in Client : synced'[d] => synced[d]
  /\ UNCHANGED <<doc, parked, rsVars, channelVars, opened>>

Quiet == UNCHANGED <<sessionVars, channelVars, up, down>>

\* A step of a script is one of these.
LEMMA ScriptKinds ==
  ASSUME ScenarioInv, NEW t, ScriptStep(t)
  PROVE  \/ EditStep(t)
         \/ AtStep(t, {"close", "kill"}) /\ \E cs \in SUBSET Client : Cut(cs)
         \/ AtStep(t, {"rejoin", "handshake", "noise"}) /\ \E c \in Client : Hails(c)
         \/ Quiet /\ opened \subseteq opened'
<1>1. Ready(t) /\ Current(t).cs \subseteq Client
  BY AtAStep, StepParts DEF ScriptStep
<1>2. CASE Close(t)
  <2>1. PICK lost \in SUBSET {e \in up : e.client \in Current(t).cs} :
          Drop(Current(t).cs, lost)
    BY <1>2 DEF Close
  <2>2. Cut(Current(t).cs)
    BY <1>2, <2>1 DEF Close, Cut
  <2>3. QED
    BY <1>1, <1>2, <2>2 DEF Close, AtStep
<1>3. CASE Kill(t)
  <2>1. \A e \in up : e.client \in Client
    BY Parts DEF CableTyped, Envelope
  <2>2. Cut(Client)
    BY <1>3, <2>1 DEF Kill, Cut
  <2>3. QED
    BY <1>3, <2>2 DEF Kill, AtStep
<1>4. CASE Rejoin(t)
  <2>1. PICK c \in Current(t).cs :
          /\ up' = up \cup Enveloped(c, {SyncStep1(StateVector(doc[c]))})
          /\ Transmit(c, TRUE, SyncStep1(StateVector(store)))
    BY <1>4 DEF Rejoin
  <2>2. Hails(c)
    BY <1>4, <2>1, Parts DEF Rejoin, Hails
  <2>3. QED
    BY <1>1, <1>4, <2>1, <2>2 DEF Rejoin, AtStep
<1>5. CASE SendOutOfTurn(t)
  <2>1. PICK c \in Current(t).cs :
          up' = up \cup Enveloped(c, {IF Current(t).do = "noise" THEN Update({}, 0)
                                      ELSE SyncStep1(StateVector(doc[c]))})
    BY <1>5 DEF SendOutOfTurn
  <2>2. Hails(c)
    BY <1>5, <2>1 DEF SendOutOfTurn, Hails, sessionVars
  <2>3. QED
    BY <1>1, <1>5, <2>1, <2>2 DEF SendOutOfTurn, AtStep
<1>6. CASE OpenSockets(t) \/ Switch(t) \/ Fork(t) \/ GoOn(t)
  BY <1>6 DEF OpenSockets, Switch, Fork, GoOn, Quiet
<1>7. QED
  BY <1>2, <1>3, <1>4, <1>5, <1>6 DEF ScriptStep

\* Two envelopes, or two jobs, with one frame of one client.
Same(d, e) == d.client = e.client /\ d.frame = e.frame

\* What a cut does to what is on its way.
LEMMA CutParts ==
  ASSUME ScenarioInv, NEW cs \in SUBSET Client, Cut(cs)
  PROVE  /\ \A e \in up' : \E d \in up : Same(d, e) /\ (e.live => d.live /\ e.client \notin cs)
         /\ \A e \in up : e.client \notin cs => e \in up'
         /\ \A j \in jobs' : \E i \in jobs : Same(i, j) /\ i.stage = j.stage
         /\ \/ \A j \in jobs : \E i \in jobs' : Same(i, j) /\ i.stage = j.stage
            \/ cs = Client
         /\ \A c \in Client : down'[c] = IF c \in cs THEN {} ELSE down[c]
         /\ \A c \in cs : ~connected'[c] /\ ~subscribed'[c] /\ ~synced'[c]
         /\ \A c \in Client \ cs : /\ connected'[c] = connected[c]
                                   /\ subscribed'[c] = subscribed[c]
                                   /\ synced'[c] = synced[c]
         /\ opened' = opened \ cs
         /\ UNCHANGED <<doc, parked, pending, nextSeq, tailCache, store>>
         /\ UNCHANGED <<forked, network, slow, failNext>>
<1> DEFINE cutE(e) == [e EXCEPT !.live = @ /\ e.client \notin cs]
<1>1. PICK lost \in SUBSET up : Drop(cs, lost) /\ \A e \in lost : e.client \in cs
  BY DEF Cut
<1>2. up' = {cutE(e) : e \in up \ lost}
  BY <1>1 DEF Drop
<1>3. ASSUME NEW e \in up
      PROVE  /\ Same(e, cutE(e)) /\ cutE(e).live = (e.live /\ e.client \notin cs)
             /\ e.client \notin cs => cutE(e) = e
  <2>1. e \in Envelope
    BY Parts DEF CableTyped
  <2>2. QED
    BY <2>1 DEF Envelope, Same
<1>4. ASSUME NEW j \in jobs
      PROVE  Same(j, cutE(j)) /\ cutE(j).stage = j.stage
  <2>1. j \in Job
    BY Parts DEF ChannelTypeOK
  <2>2. QED
    BY <2>1 DEF Job, Same
<1>5. \A e \in up' : \E d \in up : Same(d, e) /\ (e.live => d.live /\ e.client \notin cs)
  <2> SUFFICES ASSUME NEW e \in up'
               PROVE \E d \in up : Same(d, e) /\ (e.live => d.live /\ e.client \notin cs)
    OBVIOUS
  <2>1. PICK d \in up : e = cutE(d)
    BY <1>2
  <2>2. QED
    BY <1>3, <2>1 DEF Same
<1>6. \A e \in up : e.client \notin cs => e \in up'
  BY <1>1, <1>2, <1>3
<1>7. /\ \A j \in jobs' : \E i \in jobs : Same(i, j) /\ i.stage = j.stage
      /\ \/ \A j \in jobs : \E i \in jobs' : Same(i, j) /\ i.stage = j.stage
         \/ cs = Client
  <2>1. CASE jobs' = {} /\ cs = Client
    BY <2>1
  <2>2. CASE jobs' = {cutE(j) : j \in jobs}
    <3>1. ASSUME NEW j \in jobs' PROVE \E i \in jobs : Same(i, j) /\ i.stage = j.stage
      <4>1. PICK i \in jobs : j = cutE(i)
        BY <2>2, <3>1
      <4>2. Same(i, cutE(i)) /\ cutE(i).stage = i.stage
        BY <1>4
      <4> HIDE DEF cutE
      <4>3. QED
        BY <4>1, <4>2
    <3>2. ASSUME NEW j \in jobs PROVE \E i \in jobs' : Same(i, j) /\ i.stage = j.stage
      <4>1. cutE(j) \in jobs' /\ Same(j, cutE(j)) /\ cutE(j).stage = j.stage
        BY <1>4, <2>2
      <4> HIDE DEF cutE
      <4>2. QED
        BY <4>1 DEF Same
    <3>3. QED
      BY <3>1, <3>2
  <2>3. QED
    BY <2>1, <2>2 DEF Cut
<1>8. QED
  BY <1>1, <1>5, <1>6, <1>7, Parts DEF Drop, QueuesOK, RSTypeOK, ChannelTypeOK

-----------------------------------------------------------------------------
(* What the scripts leave alone.                                           *)

\* No thread of s takes a step of these kinds.
Never(s, kinds) ==
  \A t \in DOMAIN s.threads : \A i \in DOMAIN s.threads[t] :
    s.threads[t][i].do \notin kinds

\* So the script that runs does not come to one.
LEMMA NeverAt ==
  ASSUME ScenarioInv, NEW kinds, Never(script, kinds), NEW t, Ready(t)
  PROVE  ~AtStep(t, kinds)
<1>1. /\ t \in DOMAIN script.threads
      /\ pc[t] \in 1 .. Len(script.threads[t]) /\ script.threads[t] \in Seq(StepType)
  BY AtAStep
<1>2. pc[t] \in DOMAIN script.threads[t]
  BY <1>1
<1>3. QED
  BY <1>1, <1>2 DEF Never, AtStep, Current

Cuts == {"close", "kill"}
Hailing == {"rejoin", "handshake", "noise"}

\* The provider's scripts neither cut a socket nor send out of turn.
LEMMA TailScripts ==
  ASSUME script \in Scripts, profile.queue = "tail"
  PROVE  /\ script = ReliableProvider \/ script = ReliableStress
         /\ profile.answers /\ Never(script, Cuts \cup Hailing)
<1>1. script = ReliableProvider \/ script = ReliableStress
  <2> USE DEF Script, Profile
  <2>1. /\ E2E.profile.queue # "tail" /\ Audit.profile.queue # "tail"
        /\ Multiprocess.profile.queue # "tail" /\ CrashRecovery.profile.queue # "tail"
    BY DEF E2E, Audit, Multiprocess, CrashRecovery, E2EClient, AuditClient,
       MultiprocessClient, CrashClient
  <2>2. /\ SlowStore.profile.queue # "tail" /\ StoreFailure.profile.queue # "tail"
        /\ SelfHeal.profile.queue # "tail" /\ OfflineCatchUp.profile.queue # "tail"
    BY DEF SlowStore, StoreFailure, SelfHeal, OfflineCatchUp, ScenarioClient
  <2>3. /\ AnyCableSlowStore.profile.queue # "tail"
        /\ AnyCableFailure.profile.queue # "tail" /\ Reliable.profile.queue # "tail"
    BY DEF AnyCableSlowStore, AnyCableFailure, Reliable, AnyCableClient, ReliableClient
  <2>4. Chaos.profile.queue # "tail" /\ Stress.profile.queue # "tail"
    BY DEF Chaos, Stress, ChaosClient, StressClient
  <2>5. QED
    BY <2>1, <2>2, <2>3, <2>4 DEF Scripts, profile
<1>2. Never(ReliableProvider, Cuts \cup Hailing) /\ Never(ReliableStress, Cuts \cup Hailing)
  <2> USE DEF Never, Script, Settle, Go, Edits, Check, Await, Step, Cuts, Hailing
  <2>1. Never(ReliableProvider, Cuts \cup Hailing)
    BY DEF ReliableProvider
  <2>2. Never(ReliableStress, Cuts \cup Hailing)
    BY DEF ReliableStress
  <2>3. QED
    BY <2>1, <2>2
<1>3. ReliableProvider.profile.answers /\ ReliableStress.profile.answers
  BY DEF ReliableProvider, ReliableStress, Script, RawConsumer, LossyConsumer, Profile
<1>4. QED
  BY <1>1, <1>2, <1>3 DEF profile

-----------------------------------------------------------------------------
(* Where what is on its way comes from.                                    *)

\* An edit as it is typed, of a client that sends it by itself.
FromTyping(e) ==
  /\ profile.queue # "tail" /\ connected[e.client]
  /\ \E o : Types(e.client, o) /\ e.frame.kind = "update" /\ e.frame.ops = {o}

\* The reply to a SyncStep1, what is parked included.
FromAnswer(e) ==
  /\ profile.answers /\ UNCHANGED <<doc, parked>>
  /\ \E f \in down[e.client] :
       /\ f.kind = "step1"
       /\ e.frame = SyncStep2(EncodeDiff(doc[e.client] \cup parked[e.client], f.ops))

\* What a queue sends: the tail, or each of its updates.
FromQueue(e) ==
  /\ connected'[e.client]
  /\ \/ e.frame \in UpdateFrames(e.client)'
     \/ profile.queue = "each" /\ e.frame \in EachFrame(e.client) /\ UNCHANGED pending

\* A handshake.
FromHello(e) ==
  /\ e.frame = SyncStep1(StateVector(doc[e.client])) /\ UNCHANGED doc
  /\ connected'[e.client] \/ profile.queue # "tail"

\* What client c hands to its socket, if that is open.
LEMMA OutgoingFrom ==
  ASSUME NEW c, NEW carried, NEW frames, NEW e \in Outgoing(c, carried, frames)
  PROVE  connected[c] /\ e.client = c /\ e.frame \in frames /\ carried
  BY DEF Outgoing, Enveloped

\* The envelopes of one client are its own.
LEMMA EnvelopedFrom ==
  ASSUME NEW c, NEW frames, NEW e \in Enveloped(c, frames)
  PROVE  e.client = c /\ e.frame \in frames
  BY DEF Enveloped

\* Every envelope was there, or has one of these sources.
LEMMA UpFrom ==
  ASSUME ScenarioInv, [ScenarioNext]_scenarioVars, NEW e \in up'
  PROVE  \/ \E d \in up : Same(d, e) /\ (e.live => d.live)
         \/ e.frame = Update({}, 0)
         \/ FromHello(e) \/ FromTyping(e) \/ FromAnswer(e) \/ FromQueue(e)
<1> DEFINE Old == \E d \in up : Same(d, e) /\ (e.live => d.live)
           New == FromHello(e) \/ FromTyping(e) \/ FromAnswer(e) \/ FromQueue(e)
           Noise == e.frame = Update({}, 0)
<1>0. e \in up => Old
  BY DEF Same
<1>a. profile.queue \in {"none", "each", "tail"}
  BY Parts, ScriptsWellMade DEF ScriptTyped, WellMade, profile
<1>1. ASSUME NEW t \in Thread, ScriptStep(t) PROVE Old \/ Noise \/ New
  <2>1. CASE EditStep(t)
    <3>1. Ready(t)
      BY <1>1 DEF ScriptStep
    <3>2. PICK c \in Client, o \in Op : Type(c, o) /\ Types(c, o)
      BY <2>1, <3>1, EditEffect
    <3>3. CASE profile.queue = "none" \/ profile.queue = "each"
      <4>1. \E carried, n : up' = up \cup Outgoing(c, carried, {Update({o}, n)})
        BY <3>2, <3>3 DEF Type
      <4>2. PICK carried, n : up' = up \cup Outgoing(c, carried, {Update({o}, n)})
        BY <4>1
      <4>3. e \notin up => connected[c] /\ e.client = c /\ e.frame = Update({o}, n)
        BY <4>2 DEF Outgoing, Enveloped
      <4>4. e \notin up => FromTyping(e)
        BY <4>3, <3>2, <3>3 DEF FromTyping, Update
      <4>5. QED
        BY <4>4, <1>0
    <3>4. CASE profile.queue = "tail"
      <4>1. PICK carried : up' = up \cup Outgoing(c, carried, UpdateFrames(c)')
        BY <3>2, <3>4 DEF Type
      <4>2. Enqueue(c, {o})
        BY <3>2, <3>4 DEF Type
      <4>3. connected' = connected
        BY <4>2 DEF Enqueue
      <4>4. e \notin up => connected[c] /\ e.client = c /\ e.frame \in UpdateFrames(c)'
        BY <4>1, OutgoingFrom
      <4>5. QED
        BY <4>3, <4>4, <1>0 DEF FromQueue
    <3>5. QED
      BY <1>a, <3>3, <3>4
  <2>2. ASSUME NEW cs \in SUBSET Client, Cut(cs) PROVE Old
    BY <2>2, CutParts
  <2>3. ASSUME NEW c \in Client, Hails(c), AtStep(t, Hailing)
        PROVE  Old \/ Noise \/ New
    <3>1. PICK f \in {Update({}, 0), SyncStep1(StateVector(doc[c]))} :
            up' = up \cup Enveloped(c, {f})
      BY <2>3 DEF Hails
    <3>2. e \in up \/ (e.client = c /\ e.frame = f)
      BY <3>1, EnvelopedFrom
    <3>3. profile.queue # "tail"
      <4>1. Ready(t)
        BY <1>1 DEF ScriptStep
      <4>2. ~Never(script, Cuts \cup Hailing)
        BY <2>3, <4>1, NeverAt DEF AtStep
      <4>3. QED
        BY <4>2, TailScripts, Parts DEF ScriptTyped
    <3>4. doc' = doc
      BY <2>3 DEF Hails
    <3>5. QED
      BY <1>0, <3>1, <3>2, <3>3, <3>4 DEF FromHello
  <2>4. Quiet => Old
    BY <1>0 DEF Quiet
  <2>5. QED
    BY <1>1, <2>1, <2>2, <2>3, <2>4, ScriptKinds DEF Hailing
<1>2. ASSUME NEW c \in Client, Confirmed(c) PROVE Old \/ New
  <2>1. /\ up' = up \cup Enveloped(c, {SyncStep1(StateVector(doc[c]))} \cup UpdateFrames(c)')
        /\ UNCHANGED doc /\ OnConnect(c)
    BY <1>2 DEF Confirmed, SessionOnConnect
  <2>2. connected'[c]
    BY <2>1, Parts DEF OnConnect, QueuesOK, RSTypeOK
  <2>3. \/ e \in up
        \/ e.client = c /\ e.frame \in {SyncStep1(StateVector(doc[c]))} \cup UpdateFrames(c)'
    BY <2>1, EnvelopedFrom
  <2>4. QED
    BY <1>0, <2>1, <2>2, <2>3 DEF FromHello, FromQueue
<1>3. ASSUME NEW c \in Client, ResendTick(c) PROVE Old \/ New
  <2>1. PICK carried \in Carriage(c, "update") :
       CASE profile.queue = "each" ->
              /\ up' = up \cup Outgoing(c, carried, EachFrame(c))
              /\ UNCHANGED rsVars
         [] profile.queue = "tail" ->
              /\ OnTick(c)
              /\ up' = up \cup Outgoing(c, carried, UpdateFrames(c)')
    BY <1>3 DEF ResendTick, Resend
  <2>2. profile.queue # "none"
    BY <1>3, Parts DEF ResendTick, Resend, Queueless
  <2>3. CASE profile.queue = "each"
    <3>1. /\ up' = up \cup Outgoing(c, carried, EachFrame(c))
          /\ UNCHANGED <<connected, pending>>
      BY <2>1, <2>3 DEF rsVars
    <3>2. e \in up \/ (connected[c] /\ e.client = c /\ e.frame \in EachFrame(c))
      BY <3>1, OutgoingFrom
    <3>3. QED
      BY <1>0, <2>3, <3>1, <3>2 DEF FromQueue
  <2>4. CASE profile.queue = "tail"
    <3>1. up' = up \cup Outgoing(c, carried, UpdateFrames(c)') /\ UNCHANGED connected
      BY <2>1, <2>4 DEF OnTick
    <3>2. e \in up \/ (connected[c] /\ e.client = c /\ e.frame \in UpdateFrames(c)')
      BY <3>1, OutgoingFrom
    <3>3. QED
      BY <1>0, <3>1, <3>2 DEF FromQueue
  <2>5. QED
    BY <1>a, <2>2, <2>3, <2>4
<1>4. ASSUME NEW c \in Client, NEW f \in down[c], Taking(c, f) PROVE Old \/ New
  <2>1. CASE profile.answers /\ ReceiveStep1(c, f)
    <3>1. /\ f.kind = "step1" /\ UNCHANGED <<doc, parked>>
          /\ up' = up \cup
               Enveloped(c, {SyncStep2(EncodeDiff(doc[c] \cup parked[c], f.ops))})
      BY <2>1 DEF ReceiveStep1
    <3>2. \/ e \in up
          \/ e.client = c /\ e.frame = SyncStep2(EncodeDiff(doc[c] \cup parked[c], f.ops))
      BY <3>1 DEF Enveloped
    <3>3. QED
      BY <1>0, <2>1, <3>1, <3>2 DEF FromAnswer
  <2>2. CASE ~(profile.answers /\ ReceiveStep1(c, f))
    <3>1. up' = up
      BY <2>2, <1>4 DEF Taking, ReceiveAck, ReceiveOneAck, ReceiveContent, ReceiveInVain
    <3>2. QED
      BY <3>1, <1>0
  <2>3. QED
    BY <2>1, <2>2
<1>5. ASSUME NEW c \in Client, Join(c) PROVE Old
  BY <1>5, <1>0 DEF Join, SyncSubscribed
<1>6. ASSUME NEW d \in up, Handling(d) PROVE Old
  BY <1>6, <1>0 DEF Handling, HandleStep1, DropFrame, RejectGap, AcceptUpdate
<1>7. ASSUME NEW j \in jobs, Working(j) PROVE Old
  BY <1>7, <1>0 DEF Working, Abort, RecordChange, DistributeChange, SendAck
<1>8. UNCHANGED scenarioVars => Old
  BY <1>0 DEF scenarioVars
<1>9. QED
  BY StepKinds, <1>1, <1>2, <1>3, <1>4, <1>5, <1>6, <1>7, <1>8 DEF Move

\* Every job was there, perhaps a stage further back, or has been taken up.
LEMMA JobFrom ==
  ASSUME ScenarioInv, [ScenarioNext]_scenarioVars, NEW j \in jobs'
  PROVE  \/ \E i \in jobs : Same(i, j) /\ i.stage = j.stage
         \/ \E i \in jobs : Working(i) /\ Same(i, j) /\
              \/ i.stage = "record" /\ j.stage = "distribute" /\ i.frame.ops \subseteq store'
              \/ i.stage = "distribute" /\ j.stage = "ack"
         \/ \E e \in up : /\ Same(e, j) /\ Handling(e) /\ Accepts(e)
                          /\ UpdateReady(store, e.frame.ops) /\ UNCHANGED store
                          /\ j.stage = "record" \/ j.frame.ops \subseteq store
<1> DEFINE Old == \E i \in jobs : Same(i, j) /\ i.stage = j.stage
           Further ==
             \E i \in jobs : Working(i) /\ Same(i, j) /\
              \/ i.stage = "record" /\ j.stage = "distribute" /\ i.frame.ops \subseteq store'
              \/ i.stage = "distribute" /\ j.stage = "ack"
           New ==
             \E e \in up : /\ Same(e, j) /\ Handling(e) /\ Accepts(e)
                           /\ UpdateReady(store, e.frame.ops) /\ UNCHANGED store
                           /\ j.stage = "record" \/ j.frame.ops \subseteq store
<1>0. j \in jobs => Old
  BY DEF Same
<1>1. ASSUME NEW t \in Thread, ScriptStep(t) PROVE Old
  <2>1. ASSUME NEW cs \in SUBSET Client, Cut(cs) PROVE Old
    BY <2>1, CutParts
  <2>2. EditStep(t) \/ Quiet \/ (\E c : Hails(c)) => Old
    BY <1>0 DEF EditStep, Quiet, Hails, channelVars
  <2>3. QED
    BY <1>1, <2>1, <2>2, ScriptKinds
<1>2. ASSUME NEW c, Join(c) \/ Confirmed(c) \/ ResendTick(c) PROVE Old
  BY <1>2, <1>0 DEF Join, SyncSubscribed, Confirmed, ResendTick, channelVars
<1>3. ASSUME NEW c, NEW f, Taking(c, f) PROVE Old
  BY <1>3, <1>0 DEF Taking, channelVars
<1>4. ASSUME NEW e \in up, Handling(e) PROVE Old \/ New
  <2>1. ASSUME NEW w \in Worker, AcceptUpdate(w, e) PROVE Old \/ New
    <3>1. PICK s : /\ jobs' = jobs \cup {JobFor(w, e, s)}
                   /\ s = "record" \/ (e.frame.ops \subseteq store)
      BY <2>1 DEF AcceptUpdate, UpdateAdvances
    <3>2. Accepts(e) /\ UpdateReady(store, e.frame.ops) /\ UNCHANGED store
      BY <2>1 DEF AcceptUpdate
    <3>3. CASE j \in jobs
      BY <3>3, <1>0
    <3>4. CASE j = JobFor(w, e, s)
      <4>1. Same(e, j) /\ j.stage = s /\ j.frame = e.frame
        BY <3>4 DEF JobFor, Same
      <4>2. QED
        BY <4>1, <3>1, <3>2, <1>4
    <3>5. QED
      BY <3>1, <3>3, <3>4
  <2>2. (~ \E w \in Worker : AcceptUpdate(w, e)) => jobs' = jobs
    BY <1>4 DEF Handling, HandleStep1, DropFrame, RejectGap, channelVars
  <2>3. QED
    BY <1>0, <2>1, <2>2
<1>5. ASSUME NEW i \in jobs, Working(i) PROVE Old \/ Further
  <2>1. i \in Job
    BY Parts DEF ChannelTypeOK
  <2>2. ASSUME NEW s, j = [i EXCEPT !.stage = s] PROVE Same(i, j) /\ j.stage = s
    BY <2>1, <2>2 DEF Job, Same
  <2>3. CASE RecordChange(i)
    BY <1>0, <1>5, <2>2, <2>3 DEF RecordChange, Advance
  <2>4. CASE DistributeChange(i)
    BY <1>0, <1>5, <2>2, <2>4 DEF DistributeChange, Advance
  <2>5. CASE Abort(i) \/ SendAck(i)
    BY <1>0, <2>5 DEF Abort, SendAck
  <2>6. QED
    BY <1>5, <2>3, <2>4, <2>5 DEF Working
<1>6. UNCHANGED scenarioVars => Old
  BY <1>0 DEF scenarioVars, channelVars
<1>7. QED
  BY StepKinds, <1>1, <1>2, <1>3, <1>4, <1>5, <1>6 DEF Move

\* Every frame on its way down was there, or is a greeting, the answer to a
\* SyncStep1, a broadcast, or an ack.
LEMMA DownFrom ==
  ASSUME ScenarioInv, [ScenarioNext]_scenarioVars, NEW c \in Client, NEW f \in down'[c]
  PROVE  \/ f \in down[c]
         \/ f = SyncStep1(StateVector(store)) /\ UNCHANGED store
         \/ \E e \in up : /\ e.client = c /\ e.live /\ e.frame.kind = "step1"
                          /\ f = SyncStep2(EncodeDiff(store, e.frame.ops))
                          /\ UNCHANGED <<store, connected>>
         \/ \E j \in jobs : /\ j.stage = "distribute" /\ subscribed[c]
                            /\ f = [j.frame EXCEPT !.id = 0] /\ UNCHANGED connected
         \/ \E j \in jobs : /\ j.stage = "ack" /\ j.client = c
                            /\ f = Ack(j.frame.id) /\ UNCHANGED rsVars
<1> DEFINE Old == f \in down[c]
           Greeting == f = SyncStep1(StateVector(store)) /\ UNCHANGED store
           Answer == \E e \in up : /\ e.client = c /\ e.live /\ e.frame.kind = "step1"
                                   /\ f = SyncStep2(EncodeDiff(store, e.frame.ops))
                                   /\ UNCHANGED <<store, connected>>
           Broadcast == \E j \in jobs : /\ j.stage = "distribute" /\ subscribed[c]
                                        /\ f = [j.frame EXCEPT !.id = 0]
                                        /\ UNCHANGED connected
           Confirmation == \E j \in jobs : /\ j.stage = "ack" /\ j.client = c
                                           /\ f = Ack(j.frame.id) /\ UNCHANGED rsVars
<1>0. down \in [Client -> SUBSET Frame]
  BY Parts DEF CableTyped
<1>a. ASSUME NEW d, NEW live, NEW g, Transmit(d, live, g)
      PROVE  Old \/ (d = c /\ live /\ f = g)
  BY <1>0, <1>a DEF Transmit
<1>b. ASSUME NEW d, NEW g, Consume(d, g) PROVE Old
  BY <1>0, <1>b DEF Consume
<1>1. ASSUME NEW t \in Thread, ScriptStep(t) PROVE Old \/ Greeting
  <2>1. ASSUME NEW cs \in SUBSET Client, Cut(cs) PROVE Old
    BY <2>1, CutParts
  <2>2. EditStep(t) => Old
    <3>1. Ready(t)
      BY <1>1 DEF ScriptStep
    <3>2. QED
      BY <3>1, EditEffect
  <2>3. ASSUME NEW d, Hails(d) PROVE Old \/ Greeting
    BY <1>a, <2>3 DEF Hails, channelVars
  <2>4. QED
    BY <1>1, <2>1, <2>2, <2>3, ScriptKinds DEF Quiet
<1>2. ASSUME NEW d, Join(d) PROVE Old \/ Greeting
  BY <1>2, <1>a DEF Join, SyncSubscribed
<1>3. ASSUME NEW d, Confirmed(d) \/ ResendTick(d) PROVE Old
  BY <1>3 DEF Confirmed, SessionOnConnect, ResendTick, Resend
<1>4. ASSUME NEW d, NEW g, Taking(d, g) PROVE Old
  BY <1>4, <1>b DEF Taking, ReceiveAck, ReceiveOneAck, ReceiveStep1, ReceiveContent,
     ReceiveInVain
<1>5. ASSUME NEW e \in up, Handling(e) PROVE Old \/ Greeting \/ Answer
  <2>1. UNCHANGED connected
    BY <1>5 DEF Handling, sessionVars, rsVars
  <2>2. CASE HandleStep1(e)
    <3>1. /\ Transmit(e.client, e.live, SyncStep2(EncodeDiff(store, e.frame.ops)))
          /\ e.frame.kind = "step1" /\ UNCHANGED store
      BY <2>2 DEF HandleStep1, channelVars
    <3>2. Old \/ (e.client = c /\ e.live /\ f = SyncStep2(EncodeDiff(store, e.frame.ops)))
      BY <3>1, <1>a
    <3>3. QED
      BY <2>1, <3>1, <3>2
  <2>3. CASE RejectGap(e)
    BY <1>a, <2>3 DEF RejectGap, channelVars
  <2>4. CASE DropFrame(e) \/ \E w \in Worker : AcceptUpdate(w, e)
    BY <2>4 DEF DropFrame, AcceptUpdate
  <2>5. QED
    BY <1>5, <2>2, <2>3, <2>4 DEF Handling
<1>6. ASSUME NEW j \in jobs, Working(j) PROVE Old \/ Broadcast \/ Confirmation
  <2>1. UNCHANGED rsVars /\ UNCHANGED connected
    BY <1>6 DEF Working, sessionVars, rsVars
  <2>2. CASE DistributeChange(j)
    BY <2>1, <2>2, <1>0 DEF DistributeChange, Distribute
  <2>3. CASE SendAck(j)
    <3>1. j.stage = "ack" /\ Transmit(j.client, j.live, Ack(j.frame.id))
      BY <2>3 DEF SendAck
    <3>2. Old \/ (j.client = c /\ f = Ack(j.frame.id))
      BY <3>1, <1>a
    <3>3. QED
      BY <2>1, <3>1, <3>2
  <2>4. CASE Abort(j) \/ RecordChange(j)
    BY <2>4 DEF Abort, RecordChange
  <2>5. QED
    BY <1>6, <2>2, <2>3, <2>4 DEF Working
<1>7. UNCHANGED scenarioVars => Old
  BY DEF scenarioVars
<1>8. QED
  BY StepKinds, <1>1, <1>2, <1>3, <1>4, <1>5, <1>6, <1>7 DEF Move

-----------------------------------------------------------------------------
(* Where what is on its way goes.                                          *)

\* Client c has been cut off.
CutOff(c) ==
  /\ ~connected'[c] /\ ~subscribed'[c] /\ ~synced'[c]
  /\ down'[c] = {} /\ \A e \in up' : e.live => e.client # c

\* Typing takes nothing off the cable.
LEMMA EditKeepsUp ==
  ASSUME ScenarioInv, NEW t, Ready(t), EditStep(t)
  PROVE  up \subseteq up'
<1>1. PICK c \in Client, o \in Op : Type(c, o)
  BY EditEffect
<1>2. profile.queue \in {"none", "each", "tail"}
  BY Parts, ScriptsWellMade DEF ScriptTyped, WellMade, profile
<1>3. CASE profile.queue = "none"
  BY <1>1, <1>3 DEF Type
<1>4. CASE profile.queue = "each"
  BY <1>1, <1>4 DEF Type
<1>5. CASE profile.queue = "tail"
  BY <1>1, <1>5 DEF Type
<1>6. QED
  BY <1>2, <1>3, <1>4, <1>5

\* The resend interval neither.
LEMMA ResendKeepsUp ==
  ASSUME ScenarioInv, NEW c \in Client, ResendTick(c)
  PROVE  up \subseteq up'
<1>1. profile.queue \in {"each", "tail"}
  BY Parts, ScriptsWellMade
     DEF ScriptTyped, WellMade, profile, Queueless, ResendTick, Resend
<1>2. CASE profile.queue = "each"
  BY <1>2 DEF ResendTick, Resend
<1>3. CASE profile.queue = "tail"
  BY <1>3 DEF ResendTick, Resend
<1>4. QED
  BY <1>1, <1>2, <1>3

\* An envelope stays until a worker takes it up or its sender is cut off.
LEMMA UpStays ==
  ASSUME ScenarioInv, [ScenarioNext]_scenarioVars, NEW e \in up
  PROVE  e \in up' \/ Handling(e) \/ CutOff(e.client)
<1>1. ASSUME NEW t \in Thread, ScriptStep(t) PROVE e \in up' \/ CutOff(e.client)
  <2>1. ASSUME NEW cs \in SUBSET Client, Cut(cs) PROVE e \in up' \/ CutOff(e.client)
    BY <2>1, CutParts DEF CutOff
  <2>2. EditStep(t) => e \in up'
    BY <1>1, EditKeepsUp DEF ScriptStep
  <2>3. Quiet \/ (\E c : Hails(c)) => e \in up'
    BY DEF Quiet, Hails
  <2>4. QED
    BY <1>1, <2>1, <2>2, <2>3, ScriptKinds
<1>2. ASSUME NEW c \in Client, Join(c) \/ Confirmed(c) \/ ResendTick(c) PROVE e \in up'
  BY <1>2, ResendKeepsUp DEF Join, SyncSubscribed, Confirmed, SessionOnConnect
<1>3. ASSUME NEW c, NEW f, Taking(c, f) PROVE e \in up'
  BY <1>3 DEF Taking, ReceiveAck, ReceiveOneAck, ReceiveStep1, ReceiveContent, ReceiveInVain
<1>4. ASSUME NEW d \in up, Handling(d) PROVE e \in up' \/ Handling(e)
  <2>1. up' = up \ {d}
    BY <1>4 DEF Handling, HandleStep1, DropFrame, RejectGap, AcceptUpdate
  <2>2. QED
    BY <1>4, <2>1
<1>5. ASSUME NEW j \in jobs, Working(j) PROVE e \in up'
  BY <1>5 DEF Working, Abort, RecordChange, DistributeChange, SendAck
<1>6. UNCHANGED scenarioVars => e \in up'
  BY DEF scenarioVars
<1>7. QED
  BY StepKinds, <1>1, <1>2, <1>3, <1>4, <1>5, <1>6 DEF Move

\* A frame on its way down stays until the client takes it up or is cut off.
LEMMA DownStays ==
  ASSUME ScenarioInv, [ScenarioNext]_scenarioVars, NEW c \in Client, NEW f \in down[c]
  PROVE  f \in down'[c] \/ Taking(c, f) \/ CutOff(c)
<1>0. down \in [Client -> SUBSET Frame]
  BY Parts DEF CableTyped
<1>a. ASSUME NEW d, NEW live, NEW g, Transmit(d, live, g) PROVE f \in down'[c]
  BY <1>0, <1>a DEF Transmit
<1>1. ASSUME NEW t \in Thread, ScriptStep(t) PROVE f \in down'[c] \/ CutOff(c)
  <2>1. ASSUME NEW cs \in SUBSET Client, Cut(cs) PROVE f \in down'[c] \/ CutOff(c)
    BY <2>1, CutParts DEF CutOff
  <2>2. EditStep(t) => f \in down'[c]
    BY <1>1, EditEffect DEF ScriptStep
  <2>3. Quiet \/ (\E d : Hails(d)) => f \in down'[c]
    BY <1>a DEF Quiet, Hails
  <2>4. QED
    BY <1>1, <2>1, <2>2, <2>3, ScriptKinds
<1>2. ASSUME NEW d, Join(d) \/ Confirmed(d) \/ ResendTick(d) PROVE f \in down'[c]
  BY <1>2, <1>a DEF Join, SyncSubscribed, Confirmed, SessionOnConnect, ResendTick, Resend
<1>3. ASSUME NEW d \in Client, NEW g \in down[d], Taking(d, g)
      PROVE  f \in down'[c] \/ Taking(c, f)
  <2>1. Consume(d, g)
    BY <1>3 DEF Taking, ReceiveAck, ReceiveOneAck, ReceiveStep1, ReceiveContent,
       ReceiveInVain
  <2>2. f \in down'[c] \/ (c = d /\ f = g)
    BY <1>0, <2>1 DEF Consume
  <2>3. QED
    BY <1>3, <2>2
<1>4. ASSUME NEW e \in up, Handling(e) PROVE f \in down'[c]
  BY <1>4, <1>a DEF Handling, HandleStep1, DropFrame, RejectGap, AcceptUpdate
<1>5. ASSUME NEW j \in jobs, Working(j) PROVE f \in down'[c]
  <2>1. Distribute(j.frame) => f \in down'[c]
    BY <1>0 DEF Distribute
  <2>2. QED
    BY <1>5, <1>a, <2>1 DEF Working, Abort, RecordChange, DistributeChange, SendAck
<1>6. UNCHANGED scenarioVars => f \in down'[c]
  BY DEF scenarioVars
<1>7. QED
  BY StepKinds, <1>1, <1>2, <1>3, <1>4, <1>5, <1>6 DEF Move

\* A job waits until its worker goes on, or everybody is cut off.
LEMMA JobStays ==
  ASSUME ScenarioInv, [ScenarioNext]_scenarioVars, NEW j \in jobs
  PROVE  \/ \E i \in jobs' : Same(i, j) /\ i.stage = j.stage
         \/ Working(j)
         \/ \A c \in Client : CutOff(c)
<1> DEFINE Waits == \E i \in jobs' : Same(i, j) /\ i.stage = j.stage
<1>0. j \in jobs' => Waits
  BY DEF Same
<1>1. ASSUME NEW t \in Thread, ScriptStep(t) PROVE Waits \/ \A c \in Client : CutOff(c)
  <2>1. ASSUME NEW cs \in SUBSET Client, Cut(cs)
        PROVE  Waits \/ \A c \in Client : CutOff(c)
    <3>1. CASE cs = Client
      BY <2>1, <3>1, CutParts DEF CutOff
    <3>2. CASE cs # Client
      <4>1. \E i \in jobs' : Same(j, i) /\ j.stage = i.stage
        BY <2>1, <3>2, CutParts DEF Same
      <4>2. QED
        BY <4>1 DEF Same
    <3>3. QED
      BY <3>1, <3>2
  <2>2. EditStep(t) \/ Quiet \/ (\E c : Hails(c)) => j \in jobs'
    BY DEF EditStep, Quiet, Hails, channelVars
  <2>3. QED
    BY <1>0, <1>1, <2>1, <2>2, ScriptKinds
<1>2. ASSUME NEW c, Join(c) \/ Confirmed(c) \/ ResendTick(c) PROVE j \in jobs'
  BY <1>2 DEF Join, SyncSubscribed, Confirmed, ResendTick, channelVars
<1>3. ASSUME NEW c, NEW f, Taking(c, f) PROVE j \in jobs'
  BY <1>3 DEF Taking, channelVars
<1>4. ASSUME NEW e \in up, Handling(e) PROVE j \in jobs'
  BY <1>4 DEF Handling, HandleStep1, DropFrame, RejectGap, AcceptUpdate, channelVars
<1>5. ASSUME NEW i \in jobs, Working(i), i # j PROVE j \in jobs'
  BY <1>5 DEF Working, Abort, RecordChange, DistributeChange, SendAck, Advance
<1>6. UNCHANGED scenarioVars => j \in jobs'
  BY DEF scenarioVars, channelVars
<1>7. QED
  BY StepKinds, <1>0, <1>1, <1>2, <1>3, <1>4, <1>5, <1>6 DEF Move

-----------------------------------------------------------------------------
(* Journey: content comes from its author, complete.                       *)

\* What has been typed: each edit is with its author from then on.
Made == UNION {Typed(c) \cap doc[c] : c \in Client}

Content == {"step2", "update"}

\* The store is made of edits and has no gap.
StoreMade == store \subseteq Made /\ Closed(store)

\* What goes up says nothing its sender has not got; a job has content, and it is
\* complete.
FramesMade ==
  /\ \A e \in up : /\ e.frame.kind = "step1" => e.frame.ops \subseteq doc[e.client]
                   /\ e.frame.kind \in Content => e.frame.ops \subseteq Made
  /\ \A j \in jobs : /\ j.frame.kind \in Content /\ j.frame.ops # {}
                     /\ j.frame.ops \subseteq Made /\ UpdateReady(store, j.frame.ops)

\* Documents have no gaps, and what is parked lacks something.
DocsMade ==
  \A c \in Client :
    /\ Closed(doc[c])
    /\ \A p \in parked[c] : ~(Past[p] \subseteq doc[c] \cup parked[c])

\* A queue holds what its client typed.
QueuesMade ==
  \A c \in Client :
    /\ \A p \in pending[c] : p.update \subseteq Typed(c) \cap doc[c]
    /\ \A u \in tailCache[c] : u \subseteq Typed(c) \cap doc[c]

Journey == StoreMade /\ FramesMade /\ DocsMade /\ QueuesMade

\* What clients type does not depend on the state.
LEMMA TypedStays ==
  ASSUME ScenarioInv, [ScenarioNext]_scenarioVars
  PROVE  /\ \A c : Typed(c)' = Typed(c)
         /\ Made \subseteq Made'
<1>1. script' = script
  BY Grows
<1>2. \A c : Typed(c)' = Typed(c)
  BY <1>1 DEF Typed
<1>3. QED
  BY <1>2, Grows DEF Made

\* An edit that is made is with its author, and with nobody else before it is
\* stored.
LEMMA MadeBy ==
  ASSUME ScenarioInv, NEW c \in Client, NEW o \in Made, o \in Authored(c)
  PROVE  o \in Typed(c) /\ o \in doc[c]
<1>1. PICK d \in Client : o \in Typed(d) /\ o \in doc[d]
  BY DEF Made
<1>2. o \in Authored(d)
  BY <1>1, TypedOwn, Parts DEF ScriptTyped
<1>3. QED
  BY <1>1, <1>2, OneAuthor

\* Whatever a client shows or has parked is made.
LEMMA ShownMade ==
  ASSUME ScenarioInv, StoreMade, NEW c \in Client
  PROVE  /\ doc[c] \cup parked[c] \subseteq Made
         /\ \A f \in down[c] : f.kind \in Content => f.ops \subseteq Made
  BY Parts DEF StoreMade, StoredFirst, SeenOnlyStored, Made, Content

\* What is typed is new to the store.
LEMMA TypesNew ==
  ASSUME ScenarioInv, StoreMade, NEW c \in Client, NEW o, Types(c, o)
  PROVE  o \notin Made /\ o \notin store
  BY MadeBy DEF Types, StoreMade

\* A merged tail is made of the updates in the queue, or memoised.
LEMMA TailWithin ==
  ASSUME NEW q, NEW cache, NEW S, \A p \in q : p.update \subseteq S,
         \A u \in cache : u \subseteq S
  PROVE  MergedTail(q, cache) \subseteq S
  BY DEF MergedTail, Merge

\* A queue gains only what is typed, and memoises only what it holds.
LEMMA QueueFrom ==
  ASSUME ScenarioInv, [ScenarioNext]_scenarioVars, NEW c \in Client
  PROVE  /\ \/ pending'[c] \subseteq pending[c]
            \/ \E o : /\ Types(c, o)
                      /\ pending'[c] = pending[c]
                           \cup {[seq |-> nextSeq[c], update |-> {o}]}
         /\ \A u \in tailCache'[c] : u \in tailCache[c] \/ u = Merge(pending'[c])
<1> DEFINE Pends == \/ pending'[c] \subseteq pending[c]
                    \/ \E o : /\ Types(c, o)
                              /\ pending'[c] = pending[c]
                                   \cup {[seq |-> nextSeq[c], update |-> {o}]}
           Memo == \A u \in tailCache'[c] : u \in tailCache[c] \/ u = Merge(pending'[c])
           Good == Pends /\ Memo
<1>a. UNCHANGED <<pending, tailCache>> => Good
  OBVIOUS
<1>b. RSTypeOK
  BY Parts DEF QueuesOK
<1>c. \A b, q, cache : \A u \in CacheAfterFlush(b, q, cache) : u \in cache \/ u = Merge(q)
  BY DEF CacheAfterFlush, MergedTail
<1>1. ASSUME NEW t \in Thread, ScriptStep(t) PROVE Good
  <2>1. CASE EditStep(t)
    <3>1. Ready(t)
      BY <1>1 DEF ScriptStep
    <3>2. PICK d \in Client, o \in Op : Type(d, o) /\ Types(d, o)
      BY <2>1, <3>1, EditEffect
    <3>3. profile.queue \in {"none", "each", "tail"}
      BY Parts, ScriptsWellMade DEF ScriptTyped, WellMade, profile
    <3>4. CASE profile.queue = "none"
      BY <1>a, <3>2, <3>4 DEF Type, rsVars
    <3>5. CASE profile.queue = "each"
      <4>1. /\ pending' = [pending EXCEPT
                             ![d] = @ \cup {[seq |-> nextSeq[d], update |-> {o}]}]
            /\ UNCHANGED tailCache
        BY <3>2, <3>5 DEF Type
      <4>2. QED
        BY <1>b, <3>2, <4>1 DEF RSTypeOK
    <3>6. CASE profile.queue = "tail"
      <4>1. Enqueue(d, {o})
        BY <3>2, <3>6 DEF Type
      <4>2. CASE d = c
        <5>1. /\ pending'[c] = pending[c] \cup {[seq |-> nextSeq[c], update |-> {o}]}
              /\ tailCache'[c] = CacheAfterFlush(connected[c], pending'[c], {})
          BY <1>b, <4>1, <4>2 DEF Enqueue, RSTypeOK
        <5>2. Memo
          BY <1>c, <5>1
        <5>3. QED
          BY <3>2, <4>2, <5>1, <5>2
      <4>3. CASE d # c
        <5>1. pending'[c] = pending[c] /\ tailCache'[c] = tailCache[c]
          BY <1>b, <4>1, <4>3 DEF Enqueue, RSTypeOK
        <5>2. QED
          BY <5>1
      <4>4. QED
        BY <4>2, <4>3
    <3>7. QED
      BY <3>3, <3>4, <3>5, <3>6
  <2>2. ASSUME NEW cs \in SUBSET Client, Cut(cs) PROVE Good
    BY <1>a, <2>2, CutParts
  <2>3. Quiet \/ (\E d : Hails(d)) => Good
    BY <1>a DEF Quiet, Hails, sessionVars, rsVars
  <2>4. QED
    BY <1>1, <2>1, <2>2, <2>3, ScriptKinds
<1>2. ASSUME NEW d \in Client, OnConnect(d) \/ OnTick(d) PROVE Good
  <2>1. UNCHANGED pending
    BY <1>2 DEF OnConnect, OnTick
  <2>2. \E b : tailCache' = [tailCache EXCEPT ![d] = CacheAfterFlush(b, pending[d], @)]
    BY <1>2 DEF OnConnect, OnTick
  <2>3. Memo
    BY <1>b, <1>c, <2>1, <2>2 DEF RSTypeOK
  <2>4. QED
    BY <2>1, <2>3
<1>3. ASSUME NEW d \in Client, Join(d) \/ Confirmed(d) \/ ResendTick(d) PROVE Good
  <2>1. CASE Join(d)
    BY <1>a, <2>1 DEF Join, sessionVars, rsVars
  <2>2. CASE Confirmed(d)
    BY <1>2, <2>2 DEF Confirmed, SessionOnConnect
  <2>3. CASE ResendTick(d)
    <3>1. profile.queue \in {"each", "tail"}
      BY <2>3, Parts, ScriptsWellMade
         DEF ScriptTyped, WellMade, profile, Queueless, ResendTick, Resend
    <3>2. CASE profile.queue = "each"
      BY <1>a, <2>3, <3>2 DEF ResendTick, Resend, rsVars
    <3>3. CASE profile.queue = "tail"
      BY <1>2, <2>3, <3>3 DEF ResendTick, Resend
    <3>4. QED
      BY <3>1, <3>2, <3>3
  <2>4. QED
    BY <1>3, <2>1, <2>2, <2>3
<1>4. ASSUME NEW d \in Client, NEW f \in down[d], Taking(d, f) PROVE Good
  <2>1. CASE ReceiveAck(d, f)
    BY <1>a, <1>b, <2>1 DEF ReceiveAck, OnAck, rsVars, RSTypeOK
  <2>2. CASE ReceiveOneAck(d, f)
    BY <1>b, <2>2 DEF ReceiveOneAck, RSTypeOK
  <2>3. CASE ReceiveStep1(d, f) \/ ReceiveContent(d, f) \/ ReceiveInVain(d, f)
    BY <1>a, <2>3 DEF ReceiveStep1, ReceiveContent, ReceiveInVain, rsVars
  <2>4. QED
    BY <1>4, <2>1, <2>2, <2>3 DEF Taking
<1>5. ASSUME NEW e, Handling(e) PROVE Good
  BY <1>a, <1>5 DEF Handling, sessionVars, rsVars
<1>6. ASSUME NEW j, Working(j) PROVE Good
  BY <1>a, <1>6 DEF Working, sessionVars, rsVars
<1>7. UNCHANGED scenarioVars => Good
  BY <1>a DEF scenarioVars, sessionVars, rsVars
<1>8. QED
  BY StepKinds, <1>1, <1>3, <1>4, <1>5, <1>6, <1>7 DEF Move

\* Queues keep to what their client typed.
LEMMA QueuesMadeStep ==
  ASSUME ScenarioInv, Journey, [ScenarioNext]_scenarioVars
  PROVE  QueuesMade'
<1> SUFFICES ASSUME NEW c \in Client
             PROVE  /\ \A p \in pending'[c] : p.update \subseteq Typed(c) \cap doc'[c]
                    /\ \A u \in tailCache'[c] : u \subseteq Typed(c) \cap doc'[c]
  BY TypedStays DEF QueuesMade
<1>1. /\ \A p \in pending[c] : p.update \subseteq Typed(c) \cap doc'[c]
      /\ \A u \in tailCache[c] : u \subseteq Typed(c) \cap doc'[c]
  BY Grows DEF Journey, QueuesMade
<1>2. ASSUME NEW p \in pending'[c] PROVE p.update \subseteq Typed(c) \cap doc'[c]
  <2>1. \/ p \in pending[c]
        \/ \E o : Types(c, o) /\ p = [seq |-> nextSeq[c], update |-> {o}]
    BY QueueFrom
  <2>2. ASSUME NEW o, Types(c, o), p = [seq |-> nextSeq[c], update |-> {o}]
        PROVE  p.update \subseteq Typed(c) \cap doc'[c]
    BY <2>2 DEF Types
  <2>3. QED
    BY <1>1, <2>1, <2>2
<1>3. Merge(pending'[c]) \subseteq Typed(c) \cap doc'[c]
  BY <1>2 DEF Merge
<1>4. QED
  BY <1>1, <1>2, <1>3, QueueFrom

\* Integrating leaves no gap, and behind only what lacks something.
LEMMA IntegrateCloses ==
  ASSUME NEW S \in SUBSET Op, NEW pool \in SUBSET Op, Closed(S)
  PROVE  /\ Closed(Integrate(S, pool))
         /\ \A p \in pool \ Integrate(S, pool) : ~(Past[p] \subseteq S \cup pool)
         /\ Integrate(S, pool) \cup (pool \ Integrate(S, pool)) = S \cup pool
<1> DEFINE new == {o \in pool : Past[o] \subseteq S \cup pool}
<1>1. ASSUME NEW o \in S \cup new, NEW p \in Past[o] PROVE p \in S \cup new
  <2>1. CASE o \in S
    BY <2>1 DEF Closed
  <2>2. CASE o \in new
    <3>1. o \in Op /\ Past[p] \subseteq Past[o]
      BY <2>2, DocAssumption
    <3>2. QED
      BY <2>2, <3>1
  <2>3. QED
    BY <2>1, <2>2
<1>2. QED
  BY <1>1 DEF Closed, Integrate

\* Documents keep to their edits' pasts.
LEMMA DocsMadeStep ==
  ASSUME ScenarioInv, Journey, [ScenarioNext]_scenarioVars
  PROVE  DocsMade'
<1> DEFINE Fine(c) == /\ Closed(doc[c])
                      /\ \A p \in parked[c] : ~(Past[p] \subseteq doc[c] \cup parked[c])
           FineNext(c) == /\ Closed(doc'[c])
                          /\ \A p \in parked'[c] :
                               ~(Past[p] \subseteq doc'[c] \cup parked'[c])
<1>1. \A c \in Client : Fine(c)
  BY DEF Journey, DocsMade
<1>2. ASSUME NEW c \in Client, doc'[c] = doc[c], parked'[c] = parked[c]
      PROVE  FineNext(c)
  BY <1>1, <1>2
<1>3. ASSUME NEW c \in Client, NEW o, Types(c, o) PROVE FineNext(c)
  <2>1. Closed(doc'[c])
    BY <1>1, <1>3 DEF Types, Closed
  <2>2. ASSUME NEW p \in parked'[c], Past[p] \subseteq doc'[c] \cup parked'[c] PROVE FALSE
    <3>1. o \notin store
      BY <1>3, TypesNew DEF Journey
    <3>2. p \in store /\ Past[p] \subseteq store
      BY <2>2, <1>3, Parts DEF Types, StoredFirst, Journey, StoreMade, Closed
    <3>3. Past[p] \subseteq doc[c] \cup parked[c]
      BY <2>2, <1>3, <3>1, <3>2 DEF Types
    <3>4. QED
      BY <1>1, <1>3, <2>2, <3>3 DEF Types
  <2>3. QED
    BY <2>1, <2>2
<1>4. ASSUME NEW c \in Client, NEW f, Shows(c, f) PROVE FineNext(c)
  <2> DEFINE pool == parked[c] \cup f.ops
  <2>1. doc[c] \in SUBSET Op /\ pool \in SUBSET Op
    BY <1>4, Parts DEF Shows, CableTyped, Frame
  <2>2. /\ doc'[c] = Integrate(doc[c], pool)
        /\ parked'[c] = pool \ Integrate(doc[c], pool)
    BY <1>4 DEF Shows
  <2> HIDE DEF pool
  <2>3. QED
    BY <1>1, <2>1, <2>2, IntegrateCloses
<1>5. ASSUME NEW c \in Client PROVE FineNext(c)
  BY DocFrom, <1>2, <1>3, <1>4 DEF Alone
<1>6. QED
  BY <1>5 DEF DocsMade, Closed

\* The store stays complete.
LEMMA StoreMadeStep ==
  ASSUME ScenarioInv, Journey, [ScenarioNext]_scenarioVars
  PROVE  StoreMade'
<1>1. CASE store' = store
  BY <1>1, TypedStays DEF Journey, StoreMade, Closed
<1>2. CASE store' # store
  <2>1. PICK j \in jobs : store' = store \cup j.frame.ops
    BY <1>2, StoreFrom
  <2>2. QED
    BY <2>1, TypedStays DEF Journey, StoreMade, FramesMade, UpdateReady, Closed
<1>3. QED
  BY <1>1, <1>2

\* Frames go up with what their sender has.
LEMMA FramesMadeStep ==
  ASSUME ScenarioInv, Journey, [ScenarioNext]_scenarioVars
  PROVE  FramesMade'
<1> USE DEF Journey
<1>0. QueuesMade' /\ Made \subseteq Made' /\ \A c : Typed(c)' = Typed(c)
  BY QueuesMadeStep, TypedStays
<1>1. ASSUME NEW e \in up'
      PROVE  /\ e.frame.kind = "step1" => e.frame.ops \subseteq doc'[e.client]
             /\ e.frame.kind \in Content => e.frame.ops \subseteq Made'
  <2>0. e.client \in Client
    BY ScenarioStepInv, Parts DEF ScenarioInv, ScenarioTypeOK, Envelope
  <2>1. CASE \E d \in up : Same(d, e)
    BY <2>0, <2>1, <1>0, Grows DEF FramesMade, Same
  <2>2. CASE e.frame = Update({}, 0)
    BY <2>2 DEF Update
  <2>3. CASE FromHello(e)
    BY <2>0, <2>3 DEF FromHello, SyncStep1, StateVector, Content
  <2>4. CASE FromTyping(e)
    <3>1. PICK o : Types(e.client, o) /\ e.frame.kind = "update" /\ e.frame.ops = {o}
      BY <2>4 DEF FromTyping
    <3>2. o \in Typed(e.client) \cap doc'[e.client]
      BY <3>1 DEF Types
    <3>3. o \in Made'
      BY <1>0, <2>0, <3>2 DEF Made
    <3>4. QED
      BY <3>1, <3>3
  <2>5. CASE FromAnswer(e)
    <3>1. e.frame.kind = "step2" /\ e.frame.ops \subseteq doc[e.client] \cup parked[e.client]
      BY <2>5 DEF FromAnswer, SyncStep2, EncodeDiff
    <3>2. QED
      BY <1>0, <2>0, <3>1, ShownMade
  <2>6. CASE FromQueue(e)
    <3>1. e.frame.kind = "update" /\ e.frame.ops \subseteq Typed(e.client) \cap doc'[e.client]
      <4>1. ASSUME e.frame \in UpdateFrames(e.client)'
            PROVE  /\ e.frame.kind = "update"
                   /\ e.frame.ops = MergedTail(pending'[e.client], tailCache'[e.client])
        BY <4>1 DEF UpdateFrames, Flushed, Update
      <4>2. MergedTail(pending'[e.client], tailCache'[e.client])
              \subseteq Typed(e.client) \cap doc'[e.client]
        BY <1>0, <2>0, TailWithin DEF QueuesMade
      <4>3. ASSUME e.frame \in EachFrame(e.client), UNCHANGED pending
            PROVE  /\ e.frame.kind = "update"
                   /\ e.frame.ops \subseteq Typed(e.client) \cap doc'[e.client]
        BY <1>0, <2>0, <4>3 DEF EachFrame, Update, QueuesMade
      <4>4. QED
        BY <2>6, <4>1, <4>2, <4>3 DEF FromQueue
    <3>2. QED
      BY <1>0, <2>0, <3>1 DEF Made
  <2>7. QED
    BY UpFrom, <2>1, <2>2, <2>3, <2>4, <2>5, <2>6
<1>2. ASSUME NEW j \in jobs'
      PROVE  /\ j.frame.kind \in Content /\ j.frame.ops # {}
             /\ j.frame.ops \subseteq Made' /\ UpdateReady(store', j.frame.ops)
  <2>1. CASE \E i \in jobs : Same(i, j)
    BY <2>1, <1>0, Grows DEF Same, FramesMade, UpdateReady
  <2>2. ASSUME NEW e \in up, Same(e, j), Accepts(e), UpdateReady(store, e.frame.ops)
        PROVE  /\ j.frame.kind \in Content /\ j.frame.ops # {}
               /\ j.frame.ops \subseteq Made' /\ UpdateReady(store', j.frame.ops)
    BY <2>2, <1>0, Grows DEF Same, FramesMade, UpdateReady, Accepts, CarriesUpdate, Content
  <2>3. QED
    BY JobFrom, <2>1, <2>2
<1>3. QED
  BY <1>1, <1>2 DEF FramesMade, UpdateReady

\* Content comes complete from its author, step by step.
LEMMA JourneyStep ==
  ASSUME ScenarioInv, Journey, [ScenarioNext]_scenarioVars
  PROVE  Journey'
  BY StoreMadeStep, FramesMadeStep, DocsMadeStep, QueuesMadeStep DEF Journey

\* In the beginning there is none.
LEMMA JourneyInit == ScenarioInit => Journey
<1> SUFFICES ASSUME ScenarioInit PROVE Journey
  OBVIOUS
<1>1. /\ store = {} /\ up = {} /\ jobs = {}
      /\ \A c \in Client : doc[c] = {} /\ parked[c] = {} /\ pending[c] = {} /\ tailCache[c] = {}
  BY ScenarioAssumption DEF ScenarioInit, SessionInit, ChannelInit, RSInit, Opened
<1>2. QED
  BY <1>1 DEF Journey, StoreMade, FramesMade, DocsMade, QueuesMade, Closed

-----------------------------------------------------------------------------
(* The cap: no edit of a script comes near it.                             *)

\* A frame with no more than the scripts' edits fits.
LEMMA Fits ==
  ASSUME NEW f, f.ops \subseteq ScenarioOp
  PROVE  ~Oversized(f)
<1> DEFINE n == Cardinality(f.ops)
<1>1. IsFiniteSet(ScenarioOp)
  <2>1. \A x : IsFiniteSet({x})
    BY FS_Singleton
  <2>2. IsFiniteSet({"o1"} \cup {"o2"} \cup {"o3"} \cup {"p1"} \cup {"r1"})
    BY <2>1, FS_Union
  <2>3. ScenarioOp = {"o1"} \cup {"o2"} \cup {"o3"} \cup {"p1"} \cup {"r1"}
    BY DEF ScenarioOp
  <2>4. QED
    BY <2>2, <2>3
<1>2. n \in Nat /\ n =< Cardinality(ScenarioOp) /\ Cardinality(ScenarioOp) \in Nat
  BY <1>1, FS_Subset, FS_CardinalityType
<1>3. n =< MaxFrameOps /\ MaxFrameOps \in Nat
  BY <1>2, ScenarioAssumption, ChannelAssumption
<1> HIDE DEF n
<1>4. ~TooLarge(n, MaxFrameOps)
  BY <1>2, <1>3 DEF TooLarge, EncodedSize, EncodedLimit
<1>5. QED
  BY <1>4 DEF Oversized, n

\* So what a worker drops says nothing.
LEMMA OnlyEmptyDropped ==
  ASSUME ScenarioInv, Journey, NEW e \in up, DropFrame(e)
  PROVE  e.frame.ops = {}
<1>1. e.frame.ops \subseteq Made
  BY DEF Journey, FramesMade, DropFrame, CarriesUpdate, Content
<1>2. Made \subseteq ScenarioOp
  BY TypedOwn, Parts DEF Made, ScriptTyped
<1>3. QED
  BY <1>1, <1>2, Fits DEF DropFrame

-----------------------------------------------------------------------------
(* Links: who is connected.                                                *)

\* A connected client is subscribed, and a subscribed one has a socket.
Links == \A c \in Client : (connected[c] => subscribed[c]) /\ (subscribed[c] => c \in opened)

\* Sockets and their subscriptions, step by step.
LEMMA SocketFrom ==
  ASSUME ScenarioInv, [ScenarioNext]_scenarioVars, NEW c \in Client
  PROVE  \/ CutOff(c) /\ \E t \in Thread : ScriptStep(t) /\ AtStep(t, Cuts)
         \/ /\ connected[c] => connected'[c]
            /\ subscribed[c] => subscribed'[c]
            /\ c \in opened => c \in opened'
            /\ connected'[c] => connected[c] \/ Confirmed(c)
            /\ subscribed'[c] => subscribed[c] \/ Join(c)
<1> DEFINE Goes == /\ connected[c] => connected'[c]
                   /\ subscribed[c] => subscribed'[c]
                   /\ c \in opened => c \in opened'
                   /\ connected'[c] => connected[c] \/ Confirmed(c)
                   /\ subscribed'[c] => subscribed[c] \/ Join(c)
<1>a. UNCHANGED <<connected, subscribed>> /\ opened \subseteq opened' => Goes
  OBVIOUS
<1>b. RSTypeOK /\ ChannelTypeOK
  BY Parts DEF QueuesOK
<1>1. ASSUME NEW t \in Thread, ScriptStep(t)
      PROVE  (CutOff(c) /\ AtStep(t, Cuts)) \/ Goes
  <2>1. ASSUME NEW cs \in SUBSET Client, Cut(cs) PROVE CutOff(c) \/ Goes
    BY <2>1, CutParts DEF CutOff
  <2>2. EditStep(t) => Goes
    <3>1. Ready(t)
      BY <1>1 DEF ScriptStep
    <3>2. EditStep(t) => UNCHANGED <<subscribed, opened>>
      BY DEF EditStep, channelVars
    <3>3. ASSUME NEW d \in Client, NEW o \in Op, Type(d, o) PROVE UNCHANGED connected
      <4>1. profile.queue \in {"none", "each", "tail"}
        BY Parts, ScriptsWellMade DEF ScriptTyped, WellMade, profile
      <4>2. CASE profile.queue = "none"
        BY <3>3, <4>2 DEF Type, rsVars
      <4>3. CASE profile.queue = "each"
        BY <3>3, <4>3 DEF Type
      <4>4. CASE profile.queue = "tail"
        BY <3>3, <4>4 DEF Type, Enqueue
      <4>5. QED
        BY <4>1, <4>2, <4>3, <4>4
    <3>4. QED
      BY <1>a, <3>1, <3>2, <3>3, EditEffect
  <2>3. (\E d : Hails(d)) => Goes
    BY <1>a DEF Hails, rsVars, channelVars
  <2>4. Quiet /\ opened \subseteq opened' => Goes
    BY <1>a DEF Quiet, sessionVars, rsVars, channelVars
  <2>5. QED
    BY <1>1, <2>1, <2>2, <2>3, <2>4, ScriptKinds DEF Cuts
<1>2. ASSUME NEW d \in Client, Join(d) \/ Confirmed(d) \/ ResendTick(d) PROVE Goes
  <2>1. CASE Join(d)
    BY <1>b, <2>1 DEF Join, SyncSubscribed, sessionVars, rsVars, scriptVars, ChannelTypeOK
  <2>2. CASE Confirmed(d)
    BY <1>b, <2>2 DEF Confirmed, SessionOnConnect, OnConnect, scriptVars, channelVars,
       RSTypeOK
  <2>3. CASE ResendTick(d)
    <3>1. profile.queue \in {"each", "tail"}
      BY <2>3, Parts, ScriptsWellMade
         DEF ScriptTyped, WellMade, profile, Queueless, ResendTick, Resend
    <3>2. UNCHANGED connected
      BY <2>3, <3>1 DEF ResendTick, Resend, rsVars, OnTick
    <3>3. QED
      BY <1>a, <2>3, <3>2 DEF ResendTick, channelVars, scriptVars
  <2>4. QED
    BY <1>2, <2>1, <2>2, <2>3
<1>3. ASSUME NEW d, NEW f, Taking(d, f) PROVE Goes
  <2>1. UNCHANGED connected
    BY <1>3 DEF Taking, ReceiveAck, OnAck, ReceiveOneAck, ReceiveStep1, ReceiveContent,
       ReceiveInVain, rsVars
  <2>2. QED
    BY <1>3, <1>a, <2>1 DEF Taking, channelVars, scriptVars
<1>4. ASSUME NEW e, Handling(e) PROVE Goes
  BY <1>4, <1>a DEF Handling, HandleStep1, DropFrame, RejectGap, AcceptUpdate,
     sessionVars, rsVars, scriptVars, channelVars
<1>5. ASSUME NEW j, Working(j) PROVE Goes
  BY <1>5, <1>a DEF Working, Abort, RecordChange, DistributeChange, SendAck,
     sessionVars, rsVars
<1>6. UNCHANGED scenarioVars => Goes
  BY <1>a DEF scenarioVars, sessionVars, rsVars, channelVars, scriptVars
<1>7. QED
  BY StepKinds, <1>1, <1>2, <1>3, <1>4, <1>5, <1>6 DEF Move

\* Links, step by step.
LEMMA LinksStep ==
  ASSUME ScenarioInv, Links, [ScenarioNext]_scenarioVars
  PROVE  Links'
<1> SUFFICES ASSUME NEW c \in Client
             PROVE  (connected'[c] => subscribed'[c]) /\ (subscribed'[c] => c \in opened')
  BY DEF Links
<1>1. QED
  BY SocketFrom DEF Links, CutOff, Confirmed, Join

\* Nobody is connected at the start.
LEMMA LinksInit == ScenarioInit => Links
  BY DEF ScenarioInit, SessionInit, ChannelInit, RSInit, Links

-----------------------------------------------------------------------------
(* Heard: everyone connected is told what is stored.                       *)

\* A client is synced by a SyncStep2 only.
LEMMA SyncedFrom ==
  ASSUME ScenarioInv, [ScenarioNext]_scenarioVars, NEW c \in Client, synced'[c]
  PROVE  synced[c] \/ \E f \in down[c] : f.kind = "step2" /\ UNCHANGED connected
<1> DEFINE Goal == synced[c] \/ \E f \in down[c] : f.kind = "step2" /\ UNCHANGED connected
<1>1. ASSUME NEW t \in Thread, ScriptStep(t) PROVE Goal
  <2>1. ASSUME NEW cs \in SUBSET Client, Cut(cs) PROVE Goal
    BY <2>1, CutParts
  <2>2. EditStep(t) => Goal
    BY <1>1, EditEffect DEF ScriptStep
  <2>3. Quiet \/ (\E d : Hails(d)) => Goal
    BY DEF Quiet, Hails, sessionVars
  <2>4. QED
    BY <1>1, <2>1, <2>2, <2>3, ScriptKinds
<1>2. ASSUME NEW d, Join(d) \/ Confirmed(d) \/ ResendTick(d) PROVE Goal
  BY <1>2 DEF Join, Confirmed, SessionOnConnect, ResendTick, Resend, sessionVars
<1>3. ASSUME NEW d \in Client, NEW f \in down[d], Taking(d, f) PROVE Goal
  BY <1>3, Parts DEF Taking, ReceiveAck, ReceiveOneAck, ReceiveStep1, ReceiveContent,
     ReceiveInVain, rsVars
<1>4. ASSUME NEW e, Handling(e) PROVE Goal
  BY <1>4 DEF Handling, sessionVars
<1>5. ASSUME NEW j, Working(j) PROVE Goal
  BY <1>5 DEF Working, sessionVars
<1>6. UNCHANGED scenarioVars => Goal
  BY DEF scenarioVars, sessionVars
<1>7. QED
  BY StepKinds, <1>1, <1>2, <1>3, <1>4, <1>5, <1>6 DEF Move

\* With the provider's client, and before anything is typed: only a connected
\* client shakes hands.
Shaken ==
  profile.queue = "tail" /\ Made = {} =>
    /\ \A c \in Client :
         /\ synced[c] => connected[c]
         /\ \A f \in down[c] : f.kind = "step2" => connected[c]
    /\ \A e \in up : e.live /\ e.frame.kind = "step1" => connected[e.client]

\* The handshakes, step by step.
LEMMA ShakenStep ==
  ASSUME ScenarioInv, Journey, Shaken, [ScenarioNext]_scenarioVars
  PROVE  Shaken'
<1> SUFFICES ASSUME profile.queue = "tail", Made' = {}
             PROVE  Shaken'
  BY Grows DEF Shaken, profile
<1>1. jobs = {}
  BY TypedStays DEF Journey, FramesMade
<1>2. /\ \A c \in Client :
           /\ synced[c] => connected[c]
           /\ \A f \in down[c] : f.kind = "step2" => connected[c]
      /\ \A e \in up : e.live /\ e.frame.kind = "step1" => connected[e.client]
  BY TypedStays DEF Shaken
<1>3. ASSUME NEW c \in Client, synced'[c] PROVE connected'[c]
  BY <1>2, <1>3, SyncedFrom, SocketFrom DEF CutOff
<1>4. ASSUME NEW c \in Client, NEW f \in down'[c], f.kind = "step2" PROVE connected'[c]
  <2>1. connected[c]
    BY <1>1, <1>2, <1>4, DownFrom DEF SyncStep1
  <2>2. QED
    BY <1>4, <2>1, SocketFrom DEF CutOff
<1>5. ASSUME NEW e \in up', e.live, e.frame.kind = "step1" PROVE connected'[e.client]
  <2>0. e.client \in Client
    BY ScenarioStepInv, Parts DEF ScenarioInv, ScenarioTypeOK, Envelope
  <2>1. CASE \E d \in up : Same(d, e) /\ (e.live => d.live)
    BY <1>2, <1>5, <2>0, <2>1, SocketFrom DEF CutOff, Same
  <2>2. CASE FromHello(e) \/ FromQueue(e)
    BY <2>2 DEF FromHello, FromQueue
  <2>3. CASE e.frame = Update({}, 0)
    BY <1>5, <2>3 DEF Update
  <2>4. CASE FromTyping(e) \/ FromAnswer(e)
    <3>1. FromTyping(e) => e.frame.kind = "update"
      BY DEF FromTyping
    <3>2. FromAnswer(e) => e.frame.kind = "step2"
      BY DEF FromAnswer, SyncStep2
    <3>3. QED
      BY <1>5, <2>4, <3>1, <3>2
  <2>5. QED
    BY UpFrom, <2>1, <2>2, <2>3, <2>4
<1>6. QED
  BY <1>3, <1>4, <1>5 DEF Shaken

\* Nobody shakes hands at the start.
LEMMA ShakenInit == ScenarioInit => Shaken
  BY DEF ScenarioInit, SessionInit, Shaken

\* Client c has o, or is sent it, or is about to be, or asks what it lacks.
Told(c, o) ==
  \/ o \in doc[c] \cup parked[c]
  \/ \E f \in down[c] : f.kind \in Content /\ o \in f.ops
  \/ \E j \in jobs : j.stage = "distribute" /\ o \in j.frame.ops
  \/ \E e \in up : e.client = c /\ e.live /\ e.frame.kind = "step1"

Heard == \A c \in Client : connected[c] => \A o \in store : Told(c, o)

\* Whoever stays connected stays told.
LEMMA ToldStays ==
  ASSUME ScenarioInv, Journey, Links, [ScenarioNext]_scenarioVars,
         NEW c \in Client, connected[c], connected'[c], NEW o \in store, Told(c, o)
  PROVE  Told(c, o)'
<1>0. ~CutOff(c)
  BY DEF CutOff
<1>1. CASE o \in doc[c] \cup parked[c]
  BY <1>1, Grows DEF Told
<1>2. ASSUME NEW f \in down[c], f.kind \in Content, o \in f.ops PROVE Told(c, o)'
  <2>1. CASE f \in down'[c]
    BY <1>2, <2>1 DEF Told
  <2>2. CASE Taking(c, f)
    <3>1. ReceiveContent(c, f)
      BY <1>2, <2>2 DEF Taking, ReceiveAck, ReceiveOneAck, ReceiveStep1, ReceiveInVain,
         Content
    <3>2. o \in doc'[c] \cup parked'[c]
      BY <1>2, <3>1, Parts DEF ReceiveContent
    <3>3. QED
      BY <3>2 DEF Told
  <2>3. QED
    BY <1>0, <2>1, <2>2, DownStays
<1>3. ASSUME NEW j \in jobs, j.stage = "distribute", o \in j.frame.ops PROVE Told(c, o)'
  <2>1. CASE \E i \in jobs' : Same(i, j) /\ i.stage = j.stage
    BY <1>3, <2>1 DEF Told, Same
  <2>2. CASE Working(j)
    <3>1. DistributeChange(j)
      BY <1>3, <2>2 DEF Working, RecordChange, SendAck
    <3>2. subscribed[c] /\ j \in Job /\ j.frame.kind \in Content
      BY Parts DEF Links, ChannelTypeOK, Journey, FramesMade
    <3>3. [j.frame EXCEPT !.id = 0] \in down'[c]
      BY <3>1, <3>2, Parts DEF DistributeChange, Distribute, CableTyped
    <3>4. /\ [j.frame EXCEPT !.id = 0].ops = j.frame.ops
          /\ [j.frame EXCEPT !.id = 0].kind = j.frame.kind
      BY <3>2 DEF Job, Frame
    <3>5. QED
      BY <1>3, <3>2, <3>3, <3>4 DEF Told
  <2>3. QED
    BY <1>0, <2>1, <2>2, JobStays
<1>4. ASSUME NEW e \in up, e.client = c, e.live, e.frame.kind = "step1"
      PROVE  Told(c, o)'
  <2>1. CASE e \in up'
    BY <1>4, <2>1 DEF Told
  <2>2. CASE Handling(e)
    <3>1. HandleStep1(e)
      BY <1>4, <2>2 DEF Handling, DropFrame, RejectGap, AcceptUpdate, Accepts, CarriesUpdate
    <3>2. SyncStep2(EncodeDiff(store, e.frame.ops)) \in down'[c]
      BY <1>4, <3>1, Parts DEF HandleStep1, Transmit, CableTyped
    <3>3. CASE o \in e.frame.ops
      BY <1>4, <3>3, Grows DEF Journey, FramesMade, Told
    <3>4. CASE o \notin e.frame.ops
      <4>1. o \in SyncStep2(EncodeDiff(store, e.frame.ops)).ops
        BY <3>4 DEF SyncStep2, EncodeDiff
      <4>2. SyncStep2(EncodeDiff(store, e.frame.ops)).kind \in Content
        BY DEF SyncStep2, Content
      <4>3. QED
        BY <3>2, <4>1, <4>2 DEF Told
    <3>5. QED
      BY <3>3, <3>4
  <2>3. QED
    BY <1>0, <1>4, <2>1, <2>2, UpStays
<1>5. QED
  BY <1>1, <1>2, <1>3, <1>4 DEF Told

\* Everyone who is connected is told, step by step: who connects asks, and what is
\* recorded is broadcast.
LEMMA HeardStep ==
  ASSUME ScenarioInv, Journey, Links, Heard, [ScenarioNext]_scenarioVars
  PROVE  Heard'
<1> SUFFICES ASSUME NEW c \in Client, connected'[c], NEW o \in store' PROVE Told(c, o)'
  BY DEF Heard
<1>1. CASE o \notin store
  <2>1. PICK j \in jobs : o \in j.frame.ops /\ Advance(j, "distribute")
    BY <1>1, StoreFrom
  <2>2. [j EXCEPT !.stage = "distribute"] \in jobs' /\ j \in Job
    BY <2>1, Parts DEF Advance, ChannelTypeOK
  <2>3. /\ [j EXCEPT !.stage = "distribute"].frame = j.frame
        /\ [j EXCEPT !.stage = "distribute"].stage = "distribute"
    BY <2>2 DEF Job
  <2>4. QED
    BY <2>1, <2>2, <2>3 DEF Told
<1>2. CASE ~connected[c]
  <2>1. Confirmed(c)
    BY <1>2, SocketFrom DEF CutOff
  <2>2. [client |-> c, live |-> TRUE, frame |-> SyncStep1(StateVector(doc[c]))] \in up'
    BY <2>1 DEF Confirmed, SessionOnConnect, Enveloped
  <2>3. QED
    BY <2>2 DEF Told, SyncStep1
<1>3. CASE o \in store /\ connected[c]
  BY <1>3, ToldStays DEF Heard
<1>4. QED
  BY <1>1, <1>2, <1>3

\* Nothing is stored at the start.
LEMMA HeardInit == ScenarioInit => Heard
  BY DEF ScenarioInit, ChannelInit, Heard

\* The dust has settled.
Still == up = {} /\ jobs = {} /\ \A c \in Client : down[c] = {}

\* Then whoever is connected shows all that is stored.
LEMMA StillHeard ==
  ASSUME ScenarioInv, Journey, Heard, Still, NEW c \in Client, connected[c]
  PROVE  store \subseteq doc[c]
<1>1. store \subseteq doc[c] \cup parked[c]
  BY DEF Heard, Told, Still
<1>2. ASSUME NEW o \in parked[c] PROVE FALSE
  <2>1. o \in store /\ Past[o] \subseteq store
    BY Parts DEF StoredFirst, Journey, StoreMade, Closed
  <2>2. QED
    BY <1>1, <1>2, <2>1 DEF Journey, DocsMade
<1>3. QED
  BY <1>1, <1>2

-----------------------------------------------------------------------------
(* Kept: what a script has seen stays so.                                  *)

\* The step i of thread t.
At(t, i) == script.threads[t][i]

\* Thread t is past its step i.
Passed(t, i) == t \in DOMAIN pc /\ i \in 1 .. (pc[t] - 1)

\* What a step of a script does to the script.
LEMMA ScriptEffects ==
  ASSUME ScenarioInv, NEW t, ScriptStep(t)
  PROVE  /\ Ready(t) /\ pc' = [pc EXCEPT ![t] = @ + 1] /\ script' = script
         /\ slow' = (Current(t).do = "slow" \/ (slow /\ Current(t).do # "quick"))
         /\ failNext' = (Current(t).do = "fail" \/ failNext)
         /\ forked' = (forked \/ Current(t).do = "fork")
         /\ \A c \in opened' : c \in opened \/ (Current(t).do = "open" /\ c \in Current(t).cs)
         /\ \A c \in Client :
              network'[c] = IF Current(t).do \in {"black", "lossy", "clean"}
                                 /\ c \in Current(t).cs
                              THEN Current(t).do ELSE network[c]
<1>0. /\ Ready(t) /\ pc' = [pc EXCEPT ![t] = @ + 1] /\ script' = script
      /\ slow \in BOOLEAN /\ failNext \in BOOLEAN /\ forked \in BOOLEAN
  BY Parts DEF ScriptStep, ScriptTyped
<1>1. CASE Switch(t)
  <2>1. Current(t).do \in {"slow", "quick", "fail"} => Current(t).cs = {}
    BY <1>0, AtAStep, StepParts DEF StoreFault
  <2>2. /\ AtStep(t, {"black", "lossy", "clean", "slow", "quick", "fail"})
        /\ network' = [c \in Client |-> IF c \in Current(t).cs THEN Current(t).do
                                                               ELSE network[c]]
        /\ slow' = (Current(t).do = "slow" \/ (slow /\ Current(t).do # "quick"))
        /\ failNext' = (Current(t).do = "fail" \/ failNext)
        /\ UNCHANGED <<forked, opened>>
    BY <1>1 DEF Switch
  <2>3. \A c \in Client :
          network'[c] = IF Current(t).do \in {"black", "lossy", "clean"}
                             /\ c \in Current(t).cs
                          THEN Current(t).do ELSE network[c]
    BY <2>1, <2>2 DEF AtStep
  <2>4. forked' = (forked \/ Current(t).do = "fork")
    BY <1>0, <2>2 DEF AtStep
  <2>5. QED
    BY <1>0, <2>2, <2>3, <2>4
<1>2. CASE ~Switch(t)
  <2>1. /\ Current(t).do \notin {"black", "lossy", "clean", "slow", "quick", "fail"}
        /\ UNCHANGED <<network, slow, failNext>>
        /\ (Current(t).do # "fork" /\ forked' = forked) \/ (Current(t).do = "fork" /\ forked')
        /\ \A c \in opened' : c \in opened \/ (Current(t).do = "open" /\ c \in Current(t).cs)
    BY <1>2 DEF ScriptStep, AtStep, OpenSockets, Close, Kill, Drop, Rejoin,
       SendOutOfTurn, EditStep, Fork, GoOn
  <2>2. QED
    BY <1>0, <2>1
<1>3. QED
  BY <1>1, <1>2

\* What a script waits for is the case, and nothing else happens.
LEMMA AwaitStep ==
  ASSUME NEW t, ScriptStep(t), Current(t).do = "await"
  PROVE  /\ FactHolds(t, Current(t))
         /\ UNCHANGED <<sessionVars, channelVars, up, down>>
         /\ UNCHANGED <<forked, opened, network, slow, failNext>>
  BY DEF ScriptStep, AtStep, OpenSockets, Close, Kill, Rejoin, SendOutOfTurn, EditStep,
     Switch, Fork, GoOn

\* A step that is past was past before, or has just been taken.
LEMMA PassedFrom ==
  ASSUME ScenarioInv, [ScenarioNext]_scenarioVars, NEW t, NEW i, Passed(t, i)'
  PROVE  /\ t \in DOMAIN pc
         /\ \/ Passed(t, i)
            \/ i = pc[t] /\ t \in Thread /\ ScriptStep(t) /\ Current(t) = At(t, i)
<1>0. Placed
  BY Parts DEF ScriptTyped
<1>1. ASSUME NEW u \in Thread, ScriptStep(u)
      PROVE  /\ t \in DOMAIN pc
             /\ \/ Passed(t, i)
                \/ i = pc[t] /\ t \in Thread /\ ScriptStep(t) /\ Current(t) = At(t, i)
  <2>1. u \in DOMAIN pc /\ pc' = [pc EXCEPT ![u] = @ + 1] /\ pc[u] \in Nat
    BY <1>0, <1>1, AtAStep DEF ScriptStep, Placed
  <2>2. QED
    BY <1>0, <1>1, <2>1 DEF Passed, Placed, Current, At
<1>2. UNCHANGED pc => t \in DOMAIN pc /\ Passed(t, i)
  BY DEF Passed
<1>3. QED
  BY StepKinds, <1>1, <1>2, MoveRests DEF scenarioVars, scriptVars

\* What is past stays past.
LEMMA PassedStays ==
  ASSUME ScenarioInv, [ScenarioNext]_scenarioVars, NEW t, NEW i, Passed(t, i)
  PROVE  Passed(t, i)'
<1>0. Placed
  BY Parts DEF ScriptTyped
<1>1. ASSUME NEW u \in Thread, ScriptStep(u) PROVE Passed(t, i)'
  <2>1. u \in DOMAIN pc /\ pc' = [pc EXCEPT ![u] = @ + 1] /\ pc[u] \in Nat
    BY <1>0, <1>1, AtAStep DEF ScriptStep, Placed
  <2>2. QED
    BY <1>0, <2>1 DEF Passed, Placed
<1>2. UNCHANGED pc => Passed(t, i)'
  BY DEF Passed
<1>3. QED
  BY StepKinds, <1>1, <1>2, MoveRests DEF scenarioVars, scriptVars

\* Only one thread takes a step at a time.
LEMMA OneThread ==
  ASSUME ScenarioInv, NEW t, NEW u, ScriptStep(t), ScriptStep(u)
  PROVE  t = u
<1>1. Placed /\ t \in DOMAIN pc /\ u \in DOMAIN pc
  BY AtAStep, Parts DEF ScriptStep, ScriptTyped, Placed
<1>2. QED
  BY <1>1 DEF ScriptStep, Placed

\* A step that is taken is past.
LEMMA StepPast ==
  ASSUME ScenarioInv, NEW t, ScriptStep(t)
  PROVE  \E i : i = pc[t] /\ Passed(t, i)' /\ At(t, i) = Current(t)
<1>1. /\ Placed /\ t \in DOMAIN script.threads /\ pc[t] \in 1 .. Len(script.threads[t])
      /\ script.threads[t] \in Seq(StepType)
  BY AtAStep, Parts DEF ScriptStep, ScriptTyped
<1>2. t \in DOMAIN pc /\ pc[t] \in Nat /\ pc[t] >= 1
  BY <1>1 DEF Placed
<1>3. pc' = [pc EXCEPT ![t] = @ + 1]
  BY DEF ScriptStep
<1>4. PICK i : i = pc[t]
  OBVIOUS
<1>5. t \in DOMAIN pc' /\ pc'[t] = i + 1 /\ i \in 1 .. i
  BY <1>2, <1>3, <1>4
<1>6. Passed(t, i)'
  BY <1>2, <1>4, <1>5 DEF Passed
<1>7. QED
  BY <1>4, <1>6 DEF At, Current

\* What has been typed, found and found stored.
Kept ==
  \A t, i : Passed(t, i) =>
    /\ At(t, i).do = "edit" => \A c \in At(t, i).cs : At(t, i).ops \subseteq doc[c]
    /\ At(t, i).do = "await" /\ At(t, i).fact = "has" =>
         \A c \in At(t, i).cs : At(t, i).ops \subseteq doc[c]
    /\ At(t, i).do = "await" /\ At(t, i).fact = "stored" => At(t, i).ops \subseteq store

\* What is made was typed by a step that is past.
Taken ==
  \A o \in Made : \E t, i : Passed(t, i) /\ At(t, i).do = "edit" /\ o \in At(t, i).ops

\* The other threads begin with a fork.
ForkTaken ==
  forked => \E t, i : Passed(t, i) /\ At(t, i).do = "fork"

\* No socket has been cut since thread t's step i.
Uncut(t, i) ==
  \A u \in DOMAIN script.threads : \A j \in DOMAIN script.threads[u] :
    At(u, j).do \in Cuts => u = t /\ (j < i \/ j >= pc[t])

\* Who has joined is connected until a socket is cut.
JoinedStays ==
  \A t, i : Passed(t, i) /\ At(t, i).do = "await" /\ At(t, i).fact = "joined" /\ Uncut(t, i)
    => \A c \in At(t, i).cs : connected[c]

Progress == Kept /\ Taken /\ ForkTaken /\ JoinedStays

\* The script does not change.
LEMMA AtStays ==
  ASSUME ScenarioInv, [ScenarioNext]_scenarioVars
  PROVE  \A t, i : At(t, i)' = At(t, i)
  BY Grows DEF At

\* What an edit step of a script has done when it is past.
LEMMA EditTaken ==
  ASSUME ScenarioInv, [ScenarioNext]_scenarioVars, NEW t, ScriptStep(t),
         Current(t).do = "edit"
  PROVE  \E c \in Client : \E o : /\ Current(t).cs = {c} /\ Current(t).ops = {o}
                                  /\ Types(c, o) /\ Alone(c) /\ o \in doc'[c]
<1>1. EditStep(t) /\ Ready(t)
  BY DEF ScriptStep, AtStep, OpenSockets, Close, Kill, Rejoin, SendOutOfTurn, Switch,
     Fork, GoOn
<1>2. PICK c \in Client : \E o : /\ EditOf(Current(t), c, o) /\ Types(c, o)
                                 /\ \A d \in Client \ {c} : doc'[d] = doc[d]
                                 /\ UNCHANGED parked
  BY <1>1, EditEffect
<1>3. QED
  BY <1>2 DEF EditOf, Types, Alone

\* What is seen stays seen.
LEMMA KeptStep ==
  ASSUME ScenarioInv, Kept, [ScenarioNext]_scenarioVars
  PROVE  Kept'
<1> SUFFICES ASSUME NEW t, NEW i, Passed(t, i)'
    PROVE
    /\ At(t, i).do = "edit" => \A c \in At(t, i).cs : At(t, i).ops \subseteq doc'[c]
    /\ At(t, i).do = "await" /\ At(t, i).fact = "has" =>
         \A c \in At(t, i).cs : At(t, i).ops \subseteq doc'[c]
    /\ At(t, i).do = "await" /\ At(t, i).fact = "stored" => At(t, i).ops \subseteq store'
  BY AtStays DEF Kept
<1>0. ScenarioInv'
  BY ScenarioStepInv
<1>1. CASE Passed(t, i)
  <2>1. At(t, i).cs \subseteq Client
    <3>1. t \in DOMAIN script.threads /\ i \in 1 .. Len(script.threads[t])
      BY <1>1, Parts DEF Passed, ScriptTyped, Placed
    <3>2. script.threads \in Seq(Seq(StepType))
      BY Parts, ScriptsWellMade DEF ScriptTyped, WellMade
    <3>3. At(t, i) \in StepType
      BY <3>1, <3>2 DEF At
    <3>4. QED
      BY <3>3, StepParts
  <2>2. QED
    BY <1>1, <2>1, Grows DEF Kept
<1>2. CASE ScriptStep(t) /\ Current(t) = At(t, i)
  <2>1. At(t, i).cs \subseteq Client
    BY <1>2, AtAStep, StepParts DEF ScriptStep
  <2>2. CASE At(t, i).do = "edit"
    BY <1>2, <2>2, EditTaken
  <2>3. CASE At(t, i).do = "await"
    <3>1. FactHolds(t, At(t, i)) /\ UNCHANGED <<doc, store>>
      BY <1>2, <2>3, AwaitStep DEF sessionVars, channelVars
    <3>2. QED
      BY <2>3, <3>1 DEF FactHolds
  <2>4. QED
    BY <2>2, <2>3
<1>3. QED
  BY <1>1, <1>2, PassedFrom

\* Nothing is made unless a step types it.
LEMMA TakenStep ==
  ASSUME ScenarioInv, Journey, Taken, [ScenarioNext]_scenarioVars
  PROVE  Taken'
<1> SUFFICES ASSUME NEW o \in Made'
    PROVE  \E t, i : Passed(t, i)' /\ At(t, i).do = "edit" /\ o \in At(t, i).ops
  BY AtStays DEF Taken
<1>1. CASE o \in Made
  BY <1>1, PassedStays DEF Taken
<1>2. CASE o \notin Made
  <2>1. PICK d \in Client : o \in Typed(d) /\ o \in doc'[d] /\ o \notin doc[d]
    BY <1>2, TypedStays DEF Made
  <2>2. \A t \in Thread : ~(ScriptStep(t) /\ EditStep(t)) => ~ScriptStep(t) \/ doc' = doc
    <3>1. ASSUME NEW t \in Thread, OpenSockets(t) \/ SendOutOfTurn(t) \/ Switch(t)
                                   \/ Fork(t) \/ GoOn(t)
          PROVE  doc' = doc
      BY <3>1 DEF OpenSockets, SendOutOfTurn, Switch, Fork, GoOn, sessionVars
    <3>2. ASSUME NEW t \in Thread, Close(t) \/ Kill(t) PROVE doc' = doc
      BY <3>2 DEF Close, Kill, Drop
    <3>3. ASSUME NEW t \in Thread, Rejoin(t) PROVE doc' = doc
      BY <3>3 DEF Rejoin
    <3>4. QED
      BY <3>1, <3>2, <3>3 DEF ScriptStep
  <2>3. Move => FALSE
    <3>1. ASSUME NEW c \in Client, NEW f \in down[c], Taking(c, f) PROVE o \notin doc'[d]
      <4>1. CASE ReceiveContent(c, f)
        <5>1. doc'[d] \subseteq doc[d] \cup parked[d] \cup f.ops
          BY <3>1, <4>1, Parts DEF ReceiveContent, Integrate
        <5>2. f.kind \in Content
          BY <4>1 DEF ReceiveContent, Content
        <5>3. QED
          BY <1>2, <5>1, <5>2, ShownMade DEF Journey
      <4>2. CASE ~ReceiveContent(c, f)
        BY <2>1, <3>1, <4>2 DEF Taking, ReceiveAck, ReceiveOneAck, ReceiveStep1, ReceiveInVain
      <4>3. QED
        BY <4>1, <4>2
    <3>2. ASSUME NEW c, Join(c) \/ Confirmed(c) \/ ResendTick(c) PROVE doc' = doc
      BY <3>2 DEF Join, Confirmed, SessionOnConnect, ResendTick, Resend, sessionVars
    <3>3. \A e : Handling(e) => doc' = doc
      BY DEF Handling, sessionVars
    <3>4. \A j : Working(j) => doc' = doc
      BY DEF Working, sessionVars
    <3>5. QED
      BY <2>1, <3>1, <3>2, <3>3, <3>4 DEF Move
  <2>4. PICK t \in Thread : ScriptStep(t) /\ EditStep(t)
    BY <2>1, <2>2, <2>3, StepKinds DEF scenarioVars, sessionVars
  <2>5. Ready(t) /\ Current(t).do = "edit"
    BY <2>4 DEF ScriptStep, EditStep, AtStep
  <2>6. o \in Current(t).ops
    <3>1. PICK c \in Client : \E p : /\ Current(t).ops = {p} /\ Types(c, p) /\ Alone(c)
      BY <2>4, <2>5, EditTaken
    <3>2. QED
      BY <2>1, <3>1 DEF Types, Alone
  <2>7. QED
    BY <2>4, <2>5, <2>6, StepPast
<1>3. QED
  BY <1>1, <1>2

\* The fork is past when the other threads run.
LEMMA ForkTakenStep ==
  ASSUME ScenarioInv, ForkTaken, [ScenarioNext]_scenarioVars
  PROVE  ForkTaken'
<1> SUFFICES ASSUME forked' PROVE \E t, i : Passed(t, i)' /\ At(t, i).do = "fork"
  BY AtStays DEF ForkTaken
<1>1. CASE forked
  BY <1>1, PassedStays DEF ForkTaken
<1>2. CASE ~forked
  <2>1. PICK t \in Thread : ScriptStep(t)
    BY <1>2, StepKinds, MoveRests DEF scenarioVars, scriptVars
  <2>2. Current(t).do = "fork"
    BY <1>2, <2>1, ScriptEffects
  <2>3. QED
    BY <2>1, <2>2, StepPast
<1>3. QED
  BY <1>1, <1>2

\* Nobody who has joined is cut off but by the script.
LEMMA JoinedStaysStep ==
  ASSUME ScenarioInv, JoinedStays, [ScenarioNext]_scenarioVars
  PROVE  JoinedStays'
<1> SUFFICES ASSUME NEW t, NEW i, Passed(t, i)', Uncut(t, i)',
                    At(t, i).do = "await", At(t, i).fact = "joined", NEW c \in At(t, i).cs
             PROVE  connected'[c]
  BY AtStays DEF JoinedStays
<1>1. CASE ScriptStep(t) /\ Current(t) = At(t, i)
  BY <1>1, AwaitStep DEF FactHolds, sessionVars, rsVars
<1>2. CASE Passed(t, i) /\ ~(ScriptStep(t) /\ Current(t) = At(t, i))
  <2>1. c \in Client
    <3>1. t \in DOMAIN script.threads /\ i \in 1 .. Len(script.threads[t])
      BY <1>2, Parts DEF Passed, ScriptTyped, Placed
    <3>2. script.threads \in Seq(Seq(StepType))
      BY Parts, ScriptsWellMade DEF ScriptTyped, WellMade
    <3>3. At(t, i) \in StepType
      BY <3>1, <3>2 DEF At
    <3>4. QED
      BY <3>3, StepParts
  <2>2. pc[t] \in Nat /\ pc'[t] \in Nat /\ pc[t] =< pc'[t] /\ i \in 1 .. pc[t] - 1
    <3>1. ScenarioInv' /\ Passed(t, i)'
      BY ScenarioStepInv
    <3>2. Placed /\ Placed'
      BY <3>1, Parts DEF ScenarioInv, ScriptTyped
    <3>3. pc[t] \in Nat /\ pc'[t] \in Nat /\ i \in 1 .. pc[t] - 1
      BY <1>2, <3>1, <3>2 DEF Passed, Placed
    <3>4. pc'[t] = pc[t] \/ pc'[t] = pc[t] + 1
      <4>1. ASSUME NEW u, ScriptStep(u) PROVE pc'[t] = pc[t] \/ pc'[t] = pc[t] + 1
        <5>1. pc' = [pc EXCEPT ![u] = @ + 1] /\ t \in DOMAIN pc
          BY <1>2, <4>1 DEF ScriptStep, Passed
        <5>2. QED
          BY <5>1
      <4>2. QED
        BY <4>1, StepKinds, MoveRests DEF scenarioVars, scriptVars
    <3>5. QED
      BY <3>3, <3>4
  <2>3. Uncut(t, i)
    <3>1. SUFFICES ASSUME NEW u \in DOMAIN script.threads,
                          NEW j \in DOMAIN script.threads[u], At(u, j).do \in Cuts
                   PROVE  u = t /\ (j < i \/ j >= pc[t])
      BY DEF Uncut
    <3>2. script' = script /\ At(u, j)' = At(u, j)
      BY Grows, AtStays
    <3>3. u = t /\ (j < i \/ j >= pc'[t])
      BY <3>1, <3>2 DEF Uncut
    <3>4. j \in Nat
      <4>1. script.threads[u] \in Seq(StepType)
        BY <3>1, Parts, ScriptsWellMade DEF ScriptTyped, WellMade
      <4>2. QED
        BY <3>1, <4>1
    <3>5. QED
      BY <2>2, <3>3, <3>4
  <2>4. connected[c]
    BY <1>2, <2>3 DEF JoinedStays
  <2>5. ASSUME NEW u \in Thread, ScriptStep(u), AtStep(u, Cuts) PROVE FALSE
    <3>1. /\ u \in DOMAIN script.threads /\ pc[u] \in 1 .. Len(script.threads[u])
          /\ script.threads[u] \in Seq(StepType)
      BY <2>5, AtAStep DEF ScriptStep
    <3>2. pc[u] \in DOMAIN script.threads[u] /\ At(u, pc[u]).do \in Cuts
      BY <2>5, <3>1 DEF AtStep, Current, At
    <3>3. script' = script /\ \A x, y : At(x, y)' = At(x, y)
      BY Grows, AtStays
    <3>4. u = t /\ (pc[u] < i \/ pc[u] >= pc'[t])
      BY <3>1, <3>2, <3>3 DEF Uncut
    <3>5. pc'[t] = pc[t] + 1
      BY <2>5, <3>1, <3>4, Parts DEF ScriptStep, ScriptTyped, Placed
    <3>6. QED
      BY <2>2, <3>4, <3>5
  <2>6. QED
    BY <2>1, <2>4, <2>5, SocketFrom
<1>3. QED
  BY <1>1, <1>2, PassedFrom

\* So the progress of a script is kept.
LEMMA ProgressStep ==
  ASSUME ScenarioInv, Journey, Progress, [ScenarioNext]_scenarioVars
  PROVE  Progress'
  BY KeptStep, TakenStep, ForkTakenStep, JoinedStaysStep DEF Progress

\* At the start there is none.
LEMMA ProgressInit == ScenarioInit => Progress
<1> SUFFICES ASSUME ScenarioInit PROVE Progress
  OBVIOUS
<1>1. /\ \A t \in DOMAIN pc : pc[t] = 1
      /\ ~forked /\ \A c \in Client : doc[c] = {}
  BY ScenarioAssumption DEF ScenarioInit, SessionInit, Opened
<1>2. \A t, i : ~Passed(t, i)
  BY <1>1 DEF Passed
<1>3. QED
  BY <1>1, <1>2 DEF Progress, Kept, Taken, ForkTaken, JoinedStays, Made

-----------------------------------------------------------------------------
(* Owed: what a client has typed is on its way into the store.             *)

\* Operation o of client c's document is stored, or on its way to the store, or
\* the client is asked for it.
Owed(c, o) ==
  \/ o \in store
  \/ \E e \in up : /\ e.client = c /\ e.live
                   /\ e.frame.kind \in Content /\ o \in e.frame.ops
  \/ \E j \in jobs : j.stage = "record" /\ o \in j.frame.ops
  \/ profile.answers /\ \E f \in down[c] : f.kind = "step1" /\ (o \in Delete \/ o \notin f.ops)

\* Nothing can be turned away for a gap, or whoever is turned away is asked again.
Resynced ==
  \/ profile.answers
  \/ \A e \in up : e.frame.kind \in Content => UpdateReady(store, e.frame.ops)

\* The network loses nothing.
Lossless == profile.loses = {}

\* A network that loses nothing carries everything.
LEMMA CarriesAll ==
  ASSUME Lossless, NEW c, NEW k
  PROVE  Carriage(c, k) = {TRUE}
  BY DEF Lossless, Carriage

\* A worker that takes up an edit records it, or asks for what lacks.
LEMMA OwedHandled ==
  ASSUME ScenarioInv, Journey, [ScenarioNext]_scenarioVars, Resynced,
         NEW e \in up, Handling(e), e.live, e.frame.kind \in Content,
         NEW o \in e.frame.ops, o \notin store
  PROVE  Owed(e.client, o)'
<1>1. e.client \in Client /\ script' = script
  BY Parts, Grows DEF CableTyped, Envelope
<1>2. ~HandleStep1(e) /\ ~DropFrame(e)
  <2>1. ~DropFrame(e)
    BY OnlyEmptyDropped
  <2>2. QED
    BY <2>1 DEF HandleStep1, Content
<1>3. CASE RejectGap(e)
  <2>1. profile.answers
    BY <1>3 DEF RejectGap, Resynced
  <2>2. SyncStep1(StateVector(store)) \in down'[e.client]
    BY <1>1, <1>3, Parts DEF RejectGap, Transmit, CableTyped
  <2>3. o \notin SyncStep1(StateVector(store)).ops
    BY DEF SyncStep1, StateVector
  <2>4. SyncStep1(StateVector(store)).kind = "step1"
    BY DEF SyncStep1
  <2>5. QED
    BY <1>1, <2>1, <2>2, <2>3, <2>4 DEF Owed, profile
<1>4. ASSUME NEW w, AcceptUpdate(w, e) PROVE Owed(e.client, o)'
  <2>1. UpdateAdvances(store, e.frame.ops)
    BY DEF UpdateAdvances
  <2>2. JobFor(w, e, "record") \in jobs'
    BY <1>4, <2>1 DEF AcceptUpdate
  <2>3. JobFor(w, e, "record").stage = "record" /\ JobFor(w, e, "record").frame = e.frame
    BY DEF JobFor
  <2>4. QED
    BY <2>2, <2>3 DEF Owed
<1>5. QED
  BY <1>2, <1>3, <1>4 DEF Handling

\* What is owed stays so until it is stored, or its client is cut off.
LEMMA OwedStays ==
  ASSUME ScenarioInv, Journey, [ScenarioNext]_scenarioVars, ~failNext, Lossless, Resynced,
         NEW c \in Client, subscribed'[c], NEW o \in doc[c], Owed(c, o)
  PROVE  Owed(c, o)'
<1>1. /\ store \subseteq store' /\ script' = script
  BY Grows
<1>2. CASE o \in store
  BY <1>1, <1>2 DEF Owed
<1>3. ASSUME NEW e \in up, e.client = c, e.live, e.frame.kind \in Content,
             o \in e.frame.ops, o \notin store
      PROVE  Owed(c, o)'
  <2>1. CASE e \in up'
    BY <1>3, <2>1 DEF Owed
  <2>2. CASE Handling(e)
    BY <1>3, <2>2, OwedHandled
  <2>3. CASE CutOff(e.client)
    BY <1>3, <2>3 DEF CutOff
  <2>4. QED
    BY <2>1, <2>2, <2>3, UpStays
<1>4. ASSUME NEW j \in jobs, j.stage = "record", o \in j.frame.ops PROVE Owed(c, o)'
  <2>1. CASE \E i \in jobs' : Same(i, j) /\ i.stage = j.stage
    BY <1>4, <2>1 DEF Owed, Same
  <2>2. CASE Working(j)
    <3>1. RecordChange(j)
      BY <1>4, <2>2 DEF Working, DistributeChange, SendAck
    <3>2. QED
      BY <1>4, <3>1 DEF RecordChange, Owed
  <2>3. CASE \A d \in Client : CutOff(d)
    BY <2>3 DEF CutOff
  <2>4. QED
    BY <2>1, <2>2, <2>3, JobStays
<1>5. ASSUME profile.answers, NEW f \in down[c], f.kind = "step1", o \in Delete \/ o \notin f.ops
      PROVE  Owed(c, o)'
  <2>1. CASE f \in down'[c]
    BY <1>1, <1>5, <2>1 DEF Owed, profile
  <2>2. CASE Taking(c, f)
    <3>1. ReceiveStep1(c, f)
      <4>1. ~ReceiveInVain(c, f)
        BY <1>5, CarriesAll DEF ReceiveInVain
      <4>2. QED
        BY <1>5, <2>2, <4>1 DEF Taking, ReceiveAck, ReceiveOneAck, ReceiveContent
    <3> DEFINE reply == SyncStep2(EncodeDiff(doc[c] \cup parked[c], f.ops))
    <3>2. o \in EncodeDiff(doc[c] \cup parked[c], f.ops)
      BY <1>5 DEF EncodeDiff
    <3>3. [client |-> c, live |-> TRUE, frame |-> reply] \in up'
      BY <3>1 DEF ReceiveStep1, Enveloped
    <3>4. reply.kind \in Content /\ o \in reply.ops
      BY <3>2 DEF SyncStep2, Content
    <3>5. QED
      BY <3>3, <3>4 DEF Owed
  <2>3. CASE CutOff(c)
    BY <2>3 DEF CutOff
  <2>4. QED
    BY <2>1, <2>2, <2>3, DownStays
<1>6. QED
  BY <1>2, <1>3, <1>4, <1>5 DEF Owed

\* What is typed on an open socket is sent.
LEMMA TypedSends ==
  ASSUME Lossless, profile.queue = "none", NEW c, connected[c], NEW o, Type(c, o)
  PROVE  up' = up \cup Enveloped(c, {Update({o}, 0)})
<1>1. PICK carried \in Carriage(c, "update") :
        up' = up \cup Outgoing(c, carried, {Update({o}, 0)})
  BY DEF Type
<1>2. carried = TRUE
  BY <1>1, CarriesAll
<1>3. Outgoing(c, carried, {Update({o}, 0)}) = Enveloped(c, {Update({o}, 0)})
  BY <1>2 DEF Outgoing
<1>4. QED
  BY <1>1, <1>3

\* So it is owed.
LEMMA OwedTyped ==
  ASSUME Lossless, profile.queue = "none", NEW c, connected[c], NEW o, Type(c, o)
  PROVE  Owed(c, o)'
<1>1. [client |-> c, live |-> TRUE, frame |-> Update({o}, 0)] \in up'
  BY TypedSends DEF Enveloped
<1>2. Update({o}, 0).kind \in Content /\ o \in Update({o}, 0).ops
  BY DEF Update, Content
<1>3. QED
  BY <1>1, <1>2 DEF Owed

\* Whoever joins is asked for all the store lacks.
LEMMA OwedJoined ==
  ASSUME ScenarioInv, NEW c \in Client, Join(c), profile.answers, NEW o \in doc[c]
  PROVE  Owed(c, o)'
<1>1. SyncStep1(StateVector(store)) \in down'[c]
  BY Parts DEF Join, SyncSubscribed, Transmit, CableTyped
<1>2. script' = script /\ store' = store
  BY DEF Join, SyncSubscribed, scriptVars
<1>3. SyncStep1(StateVector(store)).kind = "step1" /\ SyncStep1(StateVector(store)).ops = StateVector(store)
  BY DEF SyncStep1
<1>4. CASE o \notin store
  <2>1. o \notin StateVector(store)
    BY <1>4 DEF StateVector
  <2>2. QED
    BY <1>1, <1>2, <1>3, <2>1 DEF Owed, profile
<1>5. QED
  BY <1>2, <1>4 DEF Owed

\* When the dust has settled, what is owed is stored.
LEMMA StillOwed ==
  ASSUME Still, NEW c \in Client, NEW o, Owed(c, o)
  PROVE  o \in store
  BY DEF Still, Owed

-----------------------------------------------------------------------------
(* The tables of the scripts: where in them their steps are.               *)

\* Script s takes steps of these kinds only in its first thread, at I.
OnlyAt(s, kinds, I) ==
  \A t \in DOMAIN s.threads : \A i \in DOMAIN s.threads[t] :
    s.threads[t][i].do \in kinds => t = 1 /\ i \in I

\* Script s has one thread.
Single(s) == DOMAIN s.threads = {1}

\* Step i of script s's own flow is f.
Has(s, i, f) == s.threads[1][i] = f

\* A script that makes the write of its one edit fail.
FailTable(s) ==
  /\ Single(s) /\ OnlyAt(s, {"edit"}, {5}) /\ OnlyAt(s, {"fail"}, {1}) /\ Never(s, Cuts)
  /\ Has(s, 1, Go("fail", {})) /\ Has(s, 3, Await("joined", {"a", "b"}, {}))
  /\ Has(s, 4, Settle) /\ Has(s, 5, Edits("a", "o1")) /\ Has(s, 6, Settle)

\* A script that cuts the network at step black, drained since step drained.
BlackTable(s, drained, black) ==
  /\ Single(s) /\ Never(s, Cuts \cup Hailing)
  /\ \A i \in DOMAIN s.threads[1] :
       s.threads[1][i].do = "open" => s.threads[1][i].cs \subseteq {"a", "b"}
  /\ OnlyAt(s, {"black", "lossy"}, {black}) /\ OnlyAt(s, {"clean"}, {black + 4})
  /\ Has(s, drained, Await("drained", {"a"}, {})) /\ Has(s, black - 1, Settle)
  /\ Has(s, black, Go("black", {"a"})) /\ Has(s, black + 1, Edits("a", "o2"))

\* Two browsers, one after the other.
LEMMA E2ETable ==
  /\ Single(E2E)
  /\ Has(E2E, 6, Await("has", {"b"}, {"o1"}))
  /\ Has(E2E, 8, Await("has", {"a"}, {"r1"}))
  /\ OnlyAt(E2E, {"check"}, {10})
  /\ Has(E2E, 10, Check("stored", {}, {"o1", "r1"}))
<1> USE DEF E2E, Script, Open
<1>1. Single(E2E)
  BY DEF Single, Go, Check, Await, Settle, Step, Edits
<1>2. Has(E2E, 6, Await("has", {"b"}, {"o1"}))
  BY DEF Has
<1>3. Has(E2E, 8, Await("has", {"a"}, {"r1"}))
  BY DEF Has
<1>4. OnlyAt(E2E, {"check"}, {10})
  BY DEF OnlyAt, Go, Check, Await, Settle, Step, Edits
<1>5. Has(E2E, 10, Check("stored", {}, {"o1", "r1"}))
  BY DEF Has
<1>6. QED
  BY <1>1, <1>2, <1>3, <1>4, <1>5

\* A write that takes its time.
LEMMA SlowStoreTable ==
  /\ Single(SlowStore)
  /\ OnlyAt(SlowStore, {"edit"}, {5})
  /\ Never(SlowStore, Cuts \cup {"fail"})
  /\ OnlyAt(SlowStore, {"quick"}, {14})
  /\ Has(SlowStore, 1, Go("slow", {}))
  /\ Has(SlowStore, 3, Await("joined", {"a", "b"}, {}))
  /\ Has(SlowStore, 5, Edits("a", "o1"))
  /\ Has(SlowStore, 15, Settle)
  /\ OnlyAt(SlowStore, {"check"}, {6, 7, 8, 12, 13, 16, 17})
  /\ Has(SlowStore, 6, Check("has", {"a"}, {"o1"}))
  /\ Has(SlowStore, 7, Check("lacks", {"b"}, {"o1"}))
  /\ Has(SlowStore, 8, Check("unstored", {}, {"o1"}))
  /\ Has(SlowStore, 12, Check("lacks", {"c"}, {"o1"}))
  /\ Has(SlowStore, 13, Check("unstored", {}, {"o1"}))
  /\ Has(SlowStore, 16, Check("has", {"b"}, {"o1"}))
  /\ Has(SlowStore, 17, Check("stored", {}, {"o1"}))
<1> USE DEF SlowStore, Script, Open
<1>1. Single(SlowStore)
  BY DEF Single, Go, Check, Await, Settle, Step, Edits
<1>2. OnlyAt(SlowStore, {"edit"}, {5})
  BY DEF OnlyAt, Go, Check, Await, Settle, Step, Edits
<1>3. Never(SlowStore, Cuts \cup {"fail"})
  BY DEF Never, Cuts, Go, Check, Await, Settle, Step, Edits
<1>4. OnlyAt(SlowStore, {"quick"}, {14})
  BY DEF OnlyAt, Go, Check, Await, Settle, Step, Edits
<1>5. Has(SlowStore, 1, Go("slow", {}))
  BY DEF Has
<1>6. Has(SlowStore, 3, Await("joined", {"a", "b"}, {}))
  BY DEF Has
<1>7. Has(SlowStore, 5, Edits("a", "o1"))
  BY DEF Has
<1>8. Has(SlowStore, 15, Settle)
  BY DEF Has
<1>9. OnlyAt(SlowStore, {"check"}, {6, 7, 8, 12, 13, 16, 17})
  BY DEF OnlyAt, Go, Check, Await, Settle, Step, Edits
<1>10. Has(SlowStore, 6, Check("has", {"a"}, {"o1"}))
  BY DEF Has
<1>11. Has(SlowStore, 7, Check("lacks", {"b"}, {"o1"}))
  BY DEF Has
<1>12. Has(SlowStore, 8, Check("unstored", {}, {"o1"}))
  BY DEF Has
<1>13. Has(SlowStore, 12, Check("lacks", {"c"}, {"o1"}))
  BY DEF Has
<1>14. Has(SlowStore, 13, Check("unstored", {}, {"o1"}))
  BY DEF Has
<1>15. Has(SlowStore, 16, Check("has", {"b"}, {"o1"}))
  BY DEF Has
<1>16. Has(SlowStore, 17, Check("stored", {}, {"o1"}))
  BY DEF Has
<1>17. QED
  BY <1>1, <1>2, <1>3, <1>4, <1>5, <1>6, <1>7, <1>8, <1>9, <1>10, <1>11, <1>12, <1>13, <1>14, <1>15, <1>16

\* A write that raises.
LEMMA StoreFailureTable ==
  /\ FailTable(StoreFailure)
  /\ Never(StoreFailure, Hailing)
  /\ OnlyAt(StoreFailure, {"check"}, {7, 8, 9})
  /\ Has(StoreFailure, 7, Check("lacks", {"b"}, {"o1"}))
  /\ Has(StoreFailure, 8, Check("unstored", {}, {"o1"}))
  /\ Has(StoreFailure, 9, Check("has", {"a"}, {"o1"}))
<1> USE DEF StoreFailure, Script, Open
<1>1. FailTable(StoreFailure)
  <2>1. Single(StoreFailure)
    BY DEF Single, Go, Check, Await, Settle, Step, Edits
  <2>2. OnlyAt(StoreFailure, {"edit"}, {5})
    BY DEF OnlyAt, Go, Check, Await, Settle, Step, Edits
  <2>3. OnlyAt(StoreFailure, {"fail"}, {1})
    BY DEF OnlyAt, Go, Check, Await, Settle, Step, Edits
  <2>4. Never(StoreFailure, Cuts)
    BY DEF Never, Cuts, Go, Check, Await, Settle, Step, Edits
  <2>5. Has(StoreFailure, 1, Go("fail", {}))
    BY DEF Has
  <2>6. Has(StoreFailure, 3, Await("joined", {"a", "b"}, {}))
    BY DEF Has
  <2>7. Has(StoreFailure, 4, Settle)
    BY DEF Has
  <2>8. Has(StoreFailure, 5, Edits("a", "o1"))
    BY DEF Has
  <2>9. Has(StoreFailure, 6, Settle)
    BY DEF Has
  <2>10. QED
    BY <2>1, <2>2, <2>3, <2>4, <2>5, <2>6, <2>7, <2>8, <2>9 DEF FailTable
<1>2. Never(StoreFailure, Hailing)
  BY DEF Never, Hailing, Go, Check, Await, Settle, Step, Edits
<1>3. OnlyAt(StoreFailure, {"check"}, {7, 8, 9})
  BY DEF OnlyAt, Go, Check, Await, Settle, Step, Edits
<1>4. Has(StoreFailure, 7, Check("lacks", {"b"}, {"o1"}))
  BY DEF Has
<1>5. Has(StoreFailure, 8, Check("unstored", {}, {"o1"}))
  BY DEF Has
<1>6. Has(StoreFailure, 9, Check("has", {"a"}, {"o1"}))
  BY DEF Has
<1>7. QED
  BY <1>1, <1>2, <1>3, <1>4, <1>5, <1>6

\* The same, and a second handshake after it.
LEMMA SelfHealTable ==
  /\ FailTable(SelfHeal)
  /\ OnlyAt(SelfHeal, Hailing, {9})
  /\ Has(SelfHeal, 9, Go("rejoin", {"a"}))
  /\ Has(SelfHeal, 11, Settle)
  /\ OnlyAt(SelfHeal, {"check"}, {7, 8, 12, 13})
  /\ Has(SelfHeal, 7, Check("unstored", {}, {"o1"}))
  /\ Has(SelfHeal, 8, Check("lacks", {"b"}, {"o1"}))
  /\ Has(SelfHeal, 12, Check("stored", {}, {"o1"}))
  /\ Has(SelfHeal, 13, Check("has", {"b"}, {"o1"}))
<1> USE DEF SelfHeal, Script, Open
<1>1. FailTable(SelfHeal)
  <2>1. Single(SelfHeal)
    BY DEF Single, Go, Check, Await, Settle, Step, Edits
  <2>2. OnlyAt(SelfHeal, {"edit"}, {5})
    BY DEF OnlyAt, Go, Check, Await, Settle, Step, Edits
  <2>3. OnlyAt(SelfHeal, {"fail"}, {1})
    BY DEF OnlyAt, Go, Check, Await, Settle, Step, Edits
  <2>4. Never(SelfHeal, Cuts)
    BY DEF Never, Cuts, Go, Check, Await, Settle, Step, Edits
  <2>5. Has(SelfHeal, 1, Go("fail", {}))
    BY DEF Has
  <2>6. Has(SelfHeal, 3, Await("joined", {"a", "b"}, {}))
    BY DEF Has
  <2>7. Has(SelfHeal, 4, Settle)
    BY DEF Has
  <2>8. Has(SelfHeal, 5, Edits("a", "o1"))
    BY DEF Has
  <2>9. Has(SelfHeal, 6, Settle)
    BY DEF Has
  <2>10. QED
    BY <2>1, <2>2, <2>3, <2>4, <2>5, <2>6, <2>7, <2>8, <2>9 DEF FailTable
<1>2. OnlyAt(SelfHeal, Hailing, {9})
  BY DEF OnlyAt, Hailing, Go, Check, Await, Settle, Step, Edits
<1>3. Has(SelfHeal, 9, Go("rejoin", {"a"}))
  BY DEF Has
<1>4. Has(SelfHeal, 11, Settle)
  BY DEF Has
<1>5. OnlyAt(SelfHeal, {"check"}, {7, 8, 12, 13})
  BY DEF OnlyAt, Go, Check, Await, Settle, Step, Edits
<1>6. Has(SelfHeal, 7, Check("unstored", {}, {"o1"}))
  BY DEF Has
<1>7. Has(SelfHeal, 8, Check("lacks", {"b"}, {"o1"}))
  BY DEF Has
<1>8. Has(SelfHeal, 12, Check("stored", {}, {"o1"}))
  BY DEF Has
<1>9. Has(SelfHeal, 13, Check("has", {"b"}, {"o1"}))
  BY DEF Has
<1>10. QED
  BY <1>1, <1>2, <1>3, <1>4, <1>5, <1>6, <1>7, <1>8, <1>9

\* Edits without a socket.
LEMMA OfflineCatchUpTable ==
  /\ Single(OfflineCatchUp)
  /\ OnlyAt(OfflineCatchUp, {"edit"}, {4, 8, 9})
  /\ OnlyAt(OfflineCatchUp, Cuts, {7})
  /\ OnlyAt(OfflineCatchUp, {"open"}, {1, 10})
  /\ Never(OfflineCatchUp, {"fail"})
  /\ Has(OfflineCatchUp, 2, Await("joined", {"a"}, {}))
  /\ Has(OfflineCatchUp, 4, Edits("a", "o1"))
  /\ Has(OfflineCatchUp, 5, Settle)
  /\ Has(OfflineCatchUp, 7, Go("close", {"a"}))
  /\ Has(OfflineCatchUp, 8, Edits("a", "o2"))
  /\ Has(OfflineCatchUp, 9, Edits("a", "o3"))
  /\ Has(OfflineCatchUp, 11, Await("joined", {"a"}, {}))
  /\ Has(OfflineCatchUp, 13, Settle)
  /\ OnlyAt(OfflineCatchUp, {"check"}, {6, 14})
  /\ Has(OfflineCatchUp, 6, Check("stored", {}, {"o1"}))
  /\ Has(OfflineCatchUp, 14, Check("stored", {}, {"o1", "o2", "o3"}))
<1> USE DEF OfflineCatchUp, Script, Open
<1>1. Single(OfflineCatchUp)
  BY DEF Single, Go, Check, Await, Settle, Step, Edits
<1>2. OnlyAt(OfflineCatchUp, {"edit"}, {4, 8, 9})
  BY DEF OnlyAt, Go, Check, Await, Settle, Step, Edits
<1>3. OnlyAt(OfflineCatchUp, Cuts, {7})
  BY DEF OnlyAt, Cuts, Go, Check, Await, Settle, Step, Edits
<1>4. OnlyAt(OfflineCatchUp, {"open"}, {1, 10})
  BY DEF OnlyAt, Go, Check, Await, Settle, Step, Edits
<1>5. Never(OfflineCatchUp, {"fail"})
  BY DEF Never, Go, Check, Await, Settle, Step, Edits
<1>6. Has(OfflineCatchUp, 2, Await("joined", {"a"}, {}))
  BY DEF Has
<1>7. Has(OfflineCatchUp, 4, Edits("a", "o1"))
  BY DEF Has
<1>8. Has(OfflineCatchUp, 5, Settle)
  BY DEF Has
<1>9. Has(OfflineCatchUp, 7, Go("close", {"a"}))
  BY DEF Has
<1>10. Has(OfflineCatchUp, 8, Edits("a", "o2"))
  BY DEF Has
<1>11. Has(OfflineCatchUp, 9, Edits("a", "o3"))
  BY DEF Has
<1>12. Has(OfflineCatchUp, 11, Await("joined", {"a"}, {}))
  BY DEF Has
<1>13. Has(OfflineCatchUp, 13, Settle)
  BY DEF Has
<1>14. OnlyAt(OfflineCatchUp, {"check"}, {6, 14})
  BY DEF OnlyAt, Go, Check, Await, Settle, Step, Edits
<1>15. Has(OfflineCatchUp, 6, Check("stored", {}, {"o1"}))
  BY DEF Has
<1>16. Has(OfflineCatchUp, 14, Check("stored", {}, {"o1", "o2", "o3"}))
  BY DEF Has
<1>17. QED
  BY <1>1, <1>2, <1>3, <1>4, <1>5, <1>6, <1>7, <1>8, <1>9, <1>10, <1>11, <1>12, <1>13, <1>14, <1>15, <1>16

\* The log replayed.
LEMMA AuditTable ==
  /\ Single(Audit)
  /\ OnlyAt(Audit, {"edit"}, {3, 4})
  /\ Never(Audit, Cuts \cup {"fail"})
  /\ Has(Audit, 2, Await("joined", {"a"}, {}))
  /\ Has(Audit, 3, Edits("a", "o1"))
  /\ Has(Audit, 4, Edits("a", "o2"))
  /\ Has(Audit, 5, Settle)
  /\ OnlyAt(Audit, {"check"}, {6, 7})
  /\ Has(Audit, 6, Check("stored", {}, {"o1", "o2"}))
  /\ Has(Audit, 7, Check("replays", {"a"}, {}))
<1> USE DEF Audit, Script, Open
<1>1. Single(Audit)
  BY DEF Single, Go, Check, Await, Settle, Step, Edits
<1>2. OnlyAt(Audit, {"edit"}, {3, 4})
  BY DEF OnlyAt, Go, Check, Await, Settle, Step, Edits
<1>3. Never(Audit, Cuts \cup {"fail"})
  BY DEF Never, Cuts, Go, Check, Await, Settle, Step, Edits
<1>4. Has(Audit, 2, Await("joined", {"a"}, {}))
  BY DEF Has
<1>5. Has(Audit, 3, Edits("a", "o1"))
  BY DEF Has
<1>6. Has(Audit, 4, Edits("a", "o2"))
  BY DEF Has
<1>7. Has(Audit, 5, Settle)
  BY DEF Has
<1>8. OnlyAt(Audit, {"check"}, {6, 7})
  BY DEF OnlyAt, Go, Check, Await, Settle, Step, Edits
<1>9. Has(Audit, 6, Check("stored", {}, {"o1", "o2"}))
  BY DEF Has
<1>10. Has(Audit, 7, Check("replays", {"a"}, {}))
  BY DEF Has
<1>11. QED
  BY <1>1, <1>2, <1>3, <1>4, <1>5, <1>6, <1>7, <1>8, <1>9, <1>10

\* Several processes behind one log.
LEMMA MultiprocessTable ==
  /\ Single(Multiprocess)
  /\ OnlyAt(Multiprocess, {"edit"}, {4, 5, 6})
  /\ Never(Multiprocess, Cuts \cup {"fail"})
  /\ Has(Multiprocess, 2, Await("joined", {"a", "b"}, {}))
  /\ Has(Multiprocess, 4, Edits("a", "o1"))
  /\ Has(Multiprocess, 5, Edits("b", "p1"))
  /\ Has(Multiprocess, 6, Edits("a", "o2"))
  /\ Has(Multiprocess, 7, Settle)
  /\ Has(Multiprocess, 11, Await("joined", {"c"}, {}))
  /\ Has(Multiprocess, 13, Settle)
  /\ OnlyAt(Multiprocess, {"check"}, {8, 9, 14, 15})
  /\ Has(Multiprocess, 8, Check("equal", {"a", "b"}, {}))
  /\ Has(Multiprocess, 9, Check("stored", {}, {"o1", "p1", "o2"}))
  /\ Has(Multiprocess, 14, Check("has", {"c"}, {"o1", "p1", "o2"}))
  /\ Has(Multiprocess, 15, Check("replays", {"a"}, {}))
<1> USE DEF Multiprocess, Script, Open
<1>1. Single(Multiprocess)
  BY DEF Single, Go, Check, Await, Settle, Step, Edits
<1>2. OnlyAt(Multiprocess, {"edit"}, {4, 5, 6})
  BY DEF OnlyAt, Go, Check, Await, Settle, Step, Edits
<1>3. Never(Multiprocess, Cuts \cup {"fail"})
  BY DEF Never, Cuts, Go, Check, Await, Settle, Step, Edits
<1>4. Has(Multiprocess, 2, Await("joined", {"a", "b"}, {}))
  BY DEF Has
<1>5. Has(Multiprocess, 4, Edits("a", "o1"))
  BY DEF Has
<1>6. Has(Multiprocess, 5, Edits("b", "p1"))
  BY DEF Has
<1>7. Has(Multiprocess, 6, Edits("a", "o2"))
  BY DEF Has
<1>8. Has(Multiprocess, 7, Settle)
  BY DEF Has
<1>9. Has(Multiprocess, 11, Await("joined", {"c"}, {}))
  BY DEF Has
<1>10. Has(Multiprocess, 13, Settle)
  BY DEF Has
<1>11. OnlyAt(Multiprocess, {"check"}, {8, 9, 14, 15})
  BY DEF OnlyAt, Go, Check, Await, Settle, Step, Edits
<1>12. Has(Multiprocess, 8, Check("equal", {"a", "b"}, {}))
  BY DEF Has
<1>13. Has(Multiprocess, 9, Check("stored", {}, {"o1", "p1", "o2"}))
  BY DEF Has
<1>14. Has(Multiprocess, 14, Check("has", {"c"}, {"o1", "p1", "o2"}))
  BY DEF Has
<1>15. Has(Multiprocess, 15, Check("replays", {"a"}, {}))
  BY DEF Has
<1>16. QED
  BY <1>1, <1>2, <1>3, <1>4, <1>5, <1>6, <1>7, <1>8, <1>9, <1>10, <1>11, <1>12, <1>13, <1>14, <1>15

\* A server killed after the log has the edits.
LEMMA CrashRecoveryTable ==
  /\ Single(CrashRecovery)
  /\ OnlyAt(CrashRecovery, Cuts, {6})
  /\ Has(CrashRecovery, 5, Await("stored", {}, {"o1", "o2"}))
  /\ Has(CrashRecovery, 8, Await("joined", {"c"}, {}))
  /\ Has(CrashRecovery, 10, Settle)
  /\ OnlyAt(CrashRecovery, {"check"}, {11, 12})
  /\ Has(CrashRecovery, 11, Check("has", {"c"}, {"o1", "o2"}))
  /\ Has(CrashRecovery, 12, Check("stored", {}, {"o1", "o2"}))
<1> USE DEF CrashRecovery, Script, Open
<1>1. Single(CrashRecovery)
  BY DEF Single, Go, Check, Await, Settle, Step, Edits
<1>2. OnlyAt(CrashRecovery, Cuts, {6})
  BY DEF OnlyAt, Cuts, Go, Check, Await, Settle, Step, Edits
<1>3. Has(CrashRecovery, 5, Await("stored", {}, {"o1", "o2"}))
  BY DEF Has
<1>4. Has(CrashRecovery, 8, Await("joined", {"c"}, {}))
  BY DEF Has
<1>5. Has(CrashRecovery, 10, Settle)
  BY DEF Has
<1>6. OnlyAt(CrashRecovery, {"check"}, {11, 12})
  BY DEF OnlyAt, Go, Check, Await, Settle, Step, Edits
<1>7. Has(CrashRecovery, 11, Check("has", {"c"}, {"o1", "o2"}))
  BY DEF Has
<1>8. Has(CrashRecovery, 12, Check("stored", {}, {"o1", "o2"}))
  BY DEF Has
<1>9. QED
  BY <1>1, <1>2, <1>3, <1>4, <1>5, <1>6, <1>7, <1>8

\* Two editors and a vandal.
LEMMA ChaosTable ==
  /\ DOMAIN Chaos.threads = {1, 2, 3}
  /\ Len(Chaos.threads[2]) = 2
  /\ Never(Chaos, Cuts \cup {"fail"})
  /\ OnlyAt(Chaos, {"fork"}, {3})
  /\ \A i \in DOMAIN Chaos.threads[1] : Chaos.threads[1][i].do # "edit"
  /\ Has(Chaos, 2, Await("joined", {"a", "b"}, {}))
  /\ Has(Chaos, 4, Await("finished", {}, {}))
  /\ Has(Chaos, 5, Settle)
  /\ Chaos.threads[2][1] = Edits("a", "o1")
  /\ Chaos.threads[2][2] = Edits("b", "p1")
  /\ OnlyAt(Chaos, {"check"}, {6, 7, 8, 9})
  /\ Has(Chaos, 6, Check("equal", {"a", "b"}, {}))
  /\ Has(Chaos, 7, Check("has", {"a"}, {"o1", "p1"}))
  /\ Has(Chaos, 8, Check("stored", {}, {"o1", "p1"}))
  /\ Has(Chaos, 9, Check("replays", {"a"}, {}))
<1> USE DEF Chaos, Script, Open, Barrage
<1>1. DOMAIN Chaos.threads = {1, 2, 3}
  BY DEF Go, Check, Await, Settle, Step, Edits
<1>2. Len(Chaos.threads[2]) = 2
  BY DEF Go, Check, Await, Settle, Step, Edits
<1>3. Never(Chaos, Cuts \cup {"fail"})
  BY DEF Never, Cuts, Go, Check, Await, Settle, Step, Edits
<1>4. OnlyAt(Chaos, {"fork"}, {3})
  BY DEF OnlyAt, Go, Check, Await, Settle, Step, Edits
<1>5. \A i \in DOMAIN Chaos.threads[1] : Chaos.threads[1][i].do # "edit"
  BY DEF Go, Check, Await, Settle, Step, Edits
<1>6. Has(Chaos, 2, Await("joined", {"a", "b"}, {}))
  BY DEF Has
<1>7. Has(Chaos, 4, Await("finished", {}, {}))
  BY DEF Has
<1>8. Has(Chaos, 5, Settle)
  BY DEF Has
<1>9. Chaos.threads[2][1] = Edits("a", "o1")
  BY DEF Go, Check, Await, Settle, Step, Edits
<1>10. Chaos.threads[2][2] = Edits("b", "p1")
  BY DEF Go, Check, Await, Settle, Step, Edits
<1>11. OnlyAt(Chaos, {"check"}, {6, 7, 8, 9})
  BY DEF OnlyAt, Go, Check, Await, Settle, Step, Edits
<1>12. Has(Chaos, 6, Check("equal", {"a", "b"}, {}))
  BY DEF Has
<1>13. Has(Chaos, 7, Check("has", {"a"}, {"o1", "p1"}))
  BY DEF Has
<1>14. Has(Chaos, 8, Check("stored", {}, {"o1", "p1"}))
  BY DEF Has
<1>15. Has(Chaos, 9, Check("replays", {"a"}, {}))
  BY DEF Has
<1>16. QED
  BY <1>1, <1>2, <1>3, <1>4, <1>5, <1>6, <1>7, <1>8, <1>9, <1>10, <1>11, <1>12, <1>13, <1>14, <1>15

\* A churner, an editor that leaves, a verifier.
LEMMA StressTable ==
  /\ Has(Stress, 8, Await("has", {"a"}, {"o1", "o2", "p1"}))
  /\ Has(Stress, 11, Await("has", {"c"}, {"o1", "o2", "p1"}))
  /\ OnlyAt(Stress, {"check"}, {12, 13})
  /\ Has(Stress, 12, Check("equal", {"a", "c"}, {}))
  /\ Has(Stress, 13, Check("stored", {}, {"o1", "o2", "p1"}))
<1> USE DEF Stress, Script, Open
<1>1. Has(Stress, 8, Await("has", {"a"}, {"o1", "o2", "p1"}))
  BY DEF Has
<1>2. Has(Stress, 11, Await("has", {"c"}, {"o1", "o2", "p1"}))
  BY DEF Has
<1>3. OnlyAt(Stress, {"check"}, {12, 13})
  BY DEF OnlyAt, Go, Check, Await, Settle, Step, Edits
<1>4. Has(Stress, 12, Check("equal", {"a", "c"}, {}))
  BY DEF Has
<1>5. Has(Stress, 13, Check("stored", {}, {"o1", "o2", "p1"}))
  BY DEF Has
<1>6. QED
  BY <1>1, <1>2, <1>3, <1>4, <1>5

\* A slow write behind AnyCable.
LEMMA AnyCableSlowStoreTable ==
  /\ Single(AnyCableSlowStore)
  /\ OnlyAt(AnyCableSlowStore, {"edit"}, {5})
  /\ Never(AnyCableSlowStore, Cuts \cup {"fail"})
  /\ OnlyAt(AnyCableSlowStore, {"quick"}, {11})
  /\ Has(AnyCableSlowStore, 1, Go("slow", {}))
  /\ Has(AnyCableSlowStore, 3, Await("joined", {"a", "b"}, {}))
  /\ Has(AnyCableSlowStore, 5, Edits("a", "o1"))
  /\ Has(AnyCableSlowStore, 12, Settle)
  /\ OnlyAt(AnyCableSlowStore, {"check"}, {6, 7, 10, 13, 14})
  /\ Has(AnyCableSlowStore, 6, Check("lacks", {"b"}, {"o1"}))
  /\ Has(AnyCableSlowStore, 7, Check("unstored", {}, {"o1"}))
  /\ Has(AnyCableSlowStore, 10, Check("lacks", {"c"}, {"o1"}))
  /\ Has(AnyCableSlowStore, 13, Check("has", {"b"}, {"o1"}))
  /\ Has(AnyCableSlowStore, 14, Check("stored", {}, {"o1"}))
<1> USE DEF AnyCableSlowStore, Script, Open
<1>1. Single(AnyCableSlowStore)
  BY DEF Single, Go, Check, Await, Settle, Step, Edits
<1>2. OnlyAt(AnyCableSlowStore, {"edit"}, {5})
  BY DEF OnlyAt, Go, Check, Await, Settle, Step, Edits
<1>3. Never(AnyCableSlowStore, Cuts \cup {"fail"})
  BY DEF Never, Cuts, Go, Check, Await, Settle, Step, Edits
<1>4. OnlyAt(AnyCableSlowStore, {"quick"}, {11})
  BY DEF OnlyAt, Go, Check, Await, Settle, Step, Edits
<1>5. Has(AnyCableSlowStore, 1, Go("slow", {}))
  BY DEF Has
<1>6. Has(AnyCableSlowStore, 3, Await("joined", {"a", "b"}, {}))
  BY DEF Has
<1>7. Has(AnyCableSlowStore, 5, Edits("a", "o1"))
  BY DEF Has
<1>8. Has(AnyCableSlowStore, 12, Settle)
  BY DEF Has
<1>9. OnlyAt(AnyCableSlowStore, {"check"}, {6, 7, 10, 13, 14})
  BY DEF OnlyAt, Go, Check, Await, Settle, Step, Edits
<1>10. Has(AnyCableSlowStore, 6, Check("lacks", {"b"}, {"o1"}))
  BY DEF Has
<1>11. Has(AnyCableSlowStore, 7, Check("unstored", {}, {"o1"}))
  BY DEF Has
<1>12. Has(AnyCableSlowStore, 10, Check("lacks", {"c"}, {"o1"}))
  BY DEF Has
<1>13. Has(AnyCableSlowStore, 13, Check("has", {"b"}, {"o1"}))
  BY DEF Has
<1>14. Has(AnyCableSlowStore, 14, Check("stored", {}, {"o1"}))
  BY DEF Has
<1>15. QED
  BY <1>1, <1>2, <1>3, <1>4, <1>5, <1>6, <1>7, <1>8, <1>9, <1>10, <1>11, <1>12, <1>13, <1>14

\* A write that raises behind AnyCable.
LEMMA AnyCableFailureTable ==
  /\ FailTable(AnyCableFailure)
  /\ Never(AnyCableFailure, Hailing)
  /\ OnlyAt(AnyCableFailure, {"check"}, {7, 8, 12})
  /\ Has(AnyCableFailure, 7, Check("lacks", {"b"}, {"o1"}))
  /\ Has(AnyCableFailure, 8, Check("unstored", {}, {"o1"}))
  /\ Has(AnyCableFailure, 12, Check("lacks", {"c"}, {"o1"}))
<1> USE DEF AnyCableFailure, Script, Open
<1>1. FailTable(AnyCableFailure)
  <2>1. Single(AnyCableFailure)
    BY DEF Single, Go, Check, Await, Settle, Step, Edits
  <2>2. OnlyAt(AnyCableFailure, {"edit"}, {5})
    BY DEF OnlyAt, Go, Check, Await, Settle, Step, Edits
  <2>3. OnlyAt(AnyCableFailure, {"fail"}, {1})
    BY DEF OnlyAt, Go, Check, Await, Settle, Step, Edits
  <2>4. Never(AnyCableFailure, Cuts)
    BY DEF Never, Cuts, Go, Check, Await, Settle, Step, Edits
  <2>5. Has(AnyCableFailure, 1, Go("fail", {}))
    BY DEF Has
  <2>6. Has(AnyCableFailure, 3, Await("joined", {"a", "b"}, {}))
    BY DEF Has
  <2>7. Has(AnyCableFailure, 4, Settle)
    BY DEF Has
  <2>8. Has(AnyCableFailure, 5, Edits("a", "o1"))
    BY DEF Has
  <2>9. Has(AnyCableFailure, 6, Settle)
    BY DEF Has
  <2>10. QED
    BY <2>1, <2>2, <2>3, <2>4, <2>5, <2>6, <2>7, <2>8, <2>9 DEF FailTable
<1>2. Never(AnyCableFailure, Hailing)
  BY DEF Never, Hailing, Go, Check, Await, Settle, Step, Edits
<1>3. OnlyAt(AnyCableFailure, {"check"}, {7, 8, 12})
  BY DEF OnlyAt, Go, Check, Await, Settle, Step, Edits
<1>4. Has(AnyCableFailure, 7, Check("lacks", {"b"}, {"o1"}))
  BY DEF Has
<1>5. Has(AnyCableFailure, 8, Check("unstored", {}, {"o1"}))
  BY DEF Has
<1>6. Has(AnyCableFailure, 12, Check("lacks", {"c"}, {"o1"}))
  BY DEF Has
<1>7. QED
  BY <1>1, <1>2, <1>3, <1>4, <1>5, <1>6

\* A cut network, and a client that resends every update.
LEMMA ReliableTable ==
  /\ BlackTable(Reliable, 6, 9)
  /\ OnlyAt(Reliable, {"edit"}, {5, 10})
  /\ Has(Reliable, 2, Await("joined", {"a"}, {}))
  /\ Has(Reliable, 4, Await("joined", {"b"}, {}))
  /\ Has(Reliable, 5, Edits("a", "o1"))
  /\ OnlyAt(Reliable, {"check"}, {11, 12})
  /\ Has(Reliable, 11, Check("lacks", {"b"}, {"o2"}))
  /\ Has(Reliable, 12, Check("pending", {"a"}, {}))
<1> USE DEF Reliable, Script, Open
<1>1. BlackTable(Reliable, 6, 9)
  <2>1. Single(Reliable)
    BY DEF Single, Go, Check, Await, Settle, Step, Edits
  <2>2. Never(Reliable, Cuts \cup Hailing)
    BY DEF Never, Cuts, Hailing, Go, Check, Await, Settle, Step, Edits
  <2>3. \A i \in DOMAIN Reliable.threads[1] :
        Reliable.threads[1][i].do = "open" => Reliable.threads[1][i].cs \subseteq {"a", "b"}
    BY DEF Go, Check, Await, Settle, Step, Edits
  <2>4. OnlyAt(Reliable, {"black", "lossy"}, {9})
    BY DEF OnlyAt, Go, Check, Await, Settle, Step, Edits
  <2>5. OnlyAt(Reliable, {"clean"}, {13})
    BY DEF OnlyAt, Go, Check, Await, Settle, Step, Edits
  <2>6. Has(Reliable, 6, Await("drained", {"a"}, {}))
    BY DEF Has
  <2>7. Has(Reliable, 8, Settle)
    BY SMTT(60) DEF Has
  <2>8. Has(Reliable, 9, Go("black", {"a"}))
    BY SMTT(60) DEF Has
  <2>9. Has(Reliable, 10, Edits("a", "o2"))
    BY SMTT(60) DEF Has
  <2>10. QED
    BY <2>1, <2>2, <2>3, <2>4, <2>5, <2>6, <2>7, <2>8, <2>9 DEF BlackTable
<1>2. OnlyAt(Reliable, {"edit"}, {5, 10})
  BY DEF OnlyAt, Go, Check, Await, Settle, Step, Edits
<1>3. Has(Reliable, 2, Await("joined", {"a"}, {}))
  BY DEF Has
<1>4. Has(Reliable, 4, Await("joined", {"b"}, {}))
  BY DEF Has
<1>5. Has(Reliable, 5, Edits("a", "o1"))
  BY DEF Has
<1>6. OnlyAt(Reliable, {"check"}, {11, 12})
  BY DEF OnlyAt, Go, Check, Await, Settle, Step, Edits
<1>7. Has(Reliable, 11, Check("lacks", {"b"}, {"o2"}))
  BY DEF Has
<1>8. Has(Reliable, 12, Check("pending", {"a"}, {}))
  BY DEF Has
<1>9. QED
  BY <1>1, <1>2, <1>3, <1>4, <1>5, <1>6, <1>7, <1>8

\* A cut network, and the provider.
LEMMA ReliableProviderTable ==
  /\ BlackTable(ReliableProvider, 5, 7)
  /\ OnlyAt(ReliableProvider, {"edit"}, {3, 8})
  /\ Has(ReliableProvider, 2, Await("synced", {"a", "b"}, {}))
  /\ Has(ReliableProvider, 3, Edits("a", "o1"))
  /\ Has(ReliableProvider, 4, Await("has", {"b"}, {"o1"}))
  /\ Has(ReliableProvider, 13, Await("has", {"b"}, {"o2"}))
  /\ OnlyAt(ReliableProvider, {"check"}, {9, 10, 15})
  /\ Has(ReliableProvider, 9, Check("lacks", {"b"}, {"o2"}))
  /\ Has(ReliableProvider, 10, Check("pending", {"a"}, {}))
  /\ Has(ReliableProvider, 15, Check("equal", {"a", "b"}, {}))
<1> USE DEF ReliableProvider, Script, Open
<1>1. BlackTable(ReliableProvider, 5, 7)
  <2>1. Single(ReliableProvider)
    BY DEF Single, Go, Check, Await, Settle, Step, Edits
  <2>2. Never(ReliableProvider, Cuts \cup Hailing)
    BY DEF Never, Cuts, Hailing, Go, Check, Await, Settle, Step, Edits
  <2>3. \A i \in DOMAIN ReliableProvider.threads[1] :
        ReliableProvider.threads[1][i].do = "open" => ReliableProvider.threads[1][i].cs \subseteq {"a", "b"}
    BY DEF Go, Check, Await, Settle, Step, Edits
  <2>4. OnlyAt(ReliableProvider, {"black", "lossy"}, {7})
    BY DEF OnlyAt, Go, Check, Await, Settle, Step, Edits
  <2>5. OnlyAt(ReliableProvider, {"clean"}, {11})
    BY DEF OnlyAt, Go, Check, Await, Settle, Step, Edits
  <2>6. Has(ReliableProvider, 5, Await("drained", {"a"}, {}))
    BY DEF Has
  <2>7. Has(ReliableProvider, 6, Settle)
    BY DEF Has
  <2>8. Has(ReliableProvider, 7, Go("black", {"a"}))
    BY DEF Has
  <2>9. Has(ReliableProvider, 8, Edits("a", "o2"))
    BY DEF Has
  <2>10. QED
    BY <2>1, <2>2, <2>3, <2>4, <2>5, <2>6, <2>7, <2>8, <2>9 DEF BlackTable
<1>2. OnlyAt(ReliableProvider, {"edit"}, {3, 8})
  BY DEF OnlyAt, Go, Check, Await, Settle, Step, Edits
<1>3. Has(ReliableProvider, 2, Await("synced", {"a", "b"}, {}))
  BY DEF Has
<1>4. Has(ReliableProvider, 3, Edits("a", "o1"))
  BY DEF Has
<1>5. Has(ReliableProvider, 4, Await("has", {"b"}, {"o1"}))
  BY DEF Has
<1>6. Has(ReliableProvider, 13, Await("has", {"b"}, {"o2"}))
  BY DEF Has
<1>7. OnlyAt(ReliableProvider, {"check"}, {9, 10, 15})
  BY DEF OnlyAt, Go, Check, Await, Settle, Step, Edits
<1>8. Has(ReliableProvider, 9, Check("lacks", {"b"}, {"o2"}))
  BY DEF Has
<1>9. Has(ReliableProvider, 10, Check("pending", {"a"}, {}))
  BY DEF Has
<1>10. Has(ReliableProvider, 15, Check("equal", {"a", "b"}, {}))
  BY DEF Has
<1>11. QED
  BY <1>1, <1>2, <1>3, <1>4, <1>5, <1>6, <1>7, <1>8, <1>9, <1>10

\* A lossy network, and the provider.
LEMMA ReliableStressTable ==
  /\ Has(ReliableStress, 5, Edits("a", "o1"))
  /\ Has(ReliableStress, 6, Edits("a", "o2"))
  /\ Has(ReliableStress, 8, Await("drained", {"a"}, {}))
  /\ OnlyAt(ReliableStress, {"check"}, {9})
  /\ Has(ReliableStress, 9, Check("stored", {}, {"o1", "o2"}))
<1> USE DEF ReliableStress, Script, Open
<1>1. Has(ReliableStress, 5, Edits("a", "o1"))
  BY DEF Has
<1>2. Has(ReliableStress, 6, Edits("a", "o2"))
  BY DEF Has
<1>3. Has(ReliableStress, 8, Await("drained", {"a"}, {}))
  BY DEF Has
<1>4. OnlyAt(ReliableStress, {"check"}, {9})
  BY DEF OnlyAt, Go, Check, Await, Settle, Step, Edits
<1>5. Has(ReliableStress, 9, Check("stored", {}, {"o1", "o2"}))
  BY DEF Has
<1>6. QED
  BY <1>1, <1>2, <1>3, <1>4, <1>5

-----------------------------------------------------------------------------
(* Following a script.                                                     *)

\* Every script has a flow of its own.
LEMMA FirstThread == \A s \in Scripts : 1 \in DOMAIN s.threads
<1> USE DEF Script
<1>1. /\ 1 \in DOMAIN E2E.threads /\ 1 \in DOMAIN SlowStore.threads
      /\ 1 \in DOMAIN StoreFailure.threads /\ 1 \in DOMAIN SelfHeal.threads
      /\ 1 \in DOMAIN OfflineCatchUp.threads /\ 1 \in DOMAIN Audit.threads
      /\ 1 \in DOMAIN Multiprocess.threads /\ 1 \in DOMAIN CrashRecovery.threads
  BY DEF E2E, SlowStore, StoreFailure, SelfHeal, OfflineCatchUp, Audit, Multiprocess,
     CrashRecovery
<1>2. /\ 1 \in DOMAIN Chaos.threads /\ 1 \in DOMAIN Stress.threads
      /\ 1 \in DOMAIN AnyCableSlowStore.threads /\ 1 \in DOMAIN AnyCableFailure.threads
      /\ 1 \in DOMAIN Reliable.threads /\ 1 \in DOMAIN ReliableProvider.threads
      /\ 1 \in DOMAIN ReliableStress.threads
  BY DEF Chaos, Stress, AnyCableSlowStore, AnyCableFailure, Reliable, ReliableProvider,
     ReliableStress
<1>3. QED
  BY <1>1, <1>2 DEF Scripts

\* The flow has its place.
LEMMA FlowPlaced ==
  ASSUME ScenarioInv
  PROVE  /\ 1 \in DOMAIN script.threads /\ 1 \in DOMAIN pc /\ DOMAIN pc = DOMAIN script.threads
         /\ pc[1] \in Nat /\ pc[1] >= 1
  BY FirstThread, Parts DEF ScriptTyped, Placed

\* It stands still or takes its step.
LEMMA FlowFrom ==
  ASSUME ScenarioInv, [ScenarioNext]_scenarioVars
  PROVE  \/ pc'[1] = pc[1] /\ ~ScriptStep(1)
         \/ /\ ScriptStep(1) /\ pc'[1] = pc[1] + 1
            /\ pc[1] \in DOMAIN script.threads[1] /\ Current(1) = script.threads[1][pc[1]]
<1>1. ASSUME NEW u \in Thread, ScriptStep(u), ~ScriptStep(1) PROVE pc'[1] = pc[1]
  BY <1>1, FlowPlaced DEF ScriptStep
<1>2. CASE ScriptStep(1)
  <2>1. pc[1] \in 1 .. Len(script.threads[1]) /\ script.threads[1] \in Seq(StepType)
    BY <1>2, AtAStep DEF ScriptStep
  <2>2. pc'[1] = pc[1] + 1
    BY <1>2, FlowPlaced DEF ScriptStep
  <2>3. QED
    BY <1>2, <2>1, <2>2 DEF Current
<1>3. CASE ~ScriptStep(1)
  BY <1>1, <1>3, StepKinds, MoveRests DEF scenarioVars, scriptVars
<1>4. QED
  BY <1>2, <1>3

\* Without other threads, every step is its own.
LEMMA OnlyFirst ==
  ASSUME ScenarioInv, Single(script), NEW t, ScriptStep(t)
  PROVE  t = 1
  BY AtAStep DEF ScriptStep, Single

\* What the flow has left behind is past.
LEMMA FlowPassed ==
  ASSUME ScenarioInv, NEW i \in Nat, i >= 1, i < pc[1]
  PROVE  Passed(1, i) /\ At(1, i) = script.threads[1][i]
  BY FlowPlaced DEF Passed, At

\* Who has joined is connected, if the script cuts no socket after that.
LEMMA JoinedAt ==
  ASSUME ScenarioInv, Progress, Links, NEW i \in Nat, i >= 1, i < pc[1], NEW cs,
         Has(script, i, Await("joined", cs, {})), Uncut(1, i), NEW c \in Client, c \in cs
  PROVE  connected[c] /\ subscribed[c] /\ c \in opened
<1>1. At(1, i) = Await("joined", cs, {}) /\ Passed(1, i)
  BY FlowPassed DEF Has
<1>2. connected[c]
  BY <1>1 DEF Progress, JoinedStays, Await, Step
<1>3. QED
  BY <1>2 DEF Links

\* No socket is cut by a script that cuts none.
LEMMA NeverCut ==
  ASSUME Never(script, Cuts), NEW t, NEW i
  PROVE  Uncut(t, i)
  BY DEF Never, Uncut, At

\* What the flow has typed is there.
LEMMA EditedAt ==
  ASSUME ScenarioInv, Progress, NEW i \in Nat, i >= 1, i < pc[1], NEW c, NEW o,
         Has(script, i, Edits(c, o))
  PROVE  o \in doc[c]
<1>1. At(1, i) = Edits(c, o) /\ Passed(1, i)
  BY FlowPassed DEF Has
<1>2. QED
  BY <1>1 DEF Progress, Kept, Edits, Step

\* What it has waited for is there.
LEMMA FoundAt ==
  ASSUME ScenarioInv, Progress, NEW i \in Nat, i >= 1, i < pc[1], NEW c, NEW ops,
         Has(script, i, Await("has", {c}, ops))
  PROVE  ops \subseteq doc[c]
<1>1. At(1, i) = Await("has", {c}, ops) /\ Passed(1, i)
  BY FlowPassed DEF Has
<1>2. QED
  BY <1>1 DEF Progress, Kept, Await, Step

\* What is made is among the edits of the script, and shown or stored.
LEMMA MadeWithin ==
  ASSUME ScenarioInv, Journey, NEW X, Edited(script, X)
  PROVE  /\ Made \subseteq X /\ store \subseteq X
         /\ \A c \in Client : doc[c] \subseteq X
<1>1. Made \subseteq X
  BY TypedFrom DEF Made
<1>2. QED
  BY <1>1, ShownMade DEF Journey, StoreMade

\* A client that types nothing shows only what is stored.
LEMMA ShowsStored ==
  ASSUME ScenarioInv, NEW c \in Client, NEW o \in doc[c], o \notin Authored(c)
  PROVE  o \in store
<1>1. o \notin Typed(c)
  BY TypedOwn, Parts DEF ScriptTyped
<1>2. QED
  BY <1>1 DEF ScenarioInv, StoredFirst, SeenOnlyStored

\* Before the flow comes to its edits nothing is made.
LEMMA Unmade ==
  ASSUME ScenarioInv, Progress, NEW I, OnlyAt(script, {"edit"}, I),
         \A i \in I : pc[1] =< i
  PROVE  Made = {}
<1> SUFFICES ASSUME NEW o \in Made PROVE FALSE
  OBVIOUS
<1>1. PICK t, i : Passed(t, i) /\ At(t, i).do = "edit"
  BY DEF Progress, Taken
<1>2. t \in DOMAIN script.threads /\ i \in DOMAIN script.threads[t]
  <2>1. /\ t \in DOMAIN script.threads /\ script.threads[t] \in Seq(StepType)
        /\ pc[t] \in 1 .. Len(script.threads[t]) + 1
    BY <1>1, Parts, ScriptsWellMade DEF Passed, ScriptTyped, Placed, WellMade
  <2>2. QED
    BY <1>1, <2>1 DEF Passed
<1>3. t = 1 /\ i \in I
  BY <1>1, <1>2 DEF OnlyAt, At
<1>4. QED
  BY <1>1, <1>3, FlowPlaced DEF Passed

\* When nothing is made nothing is on its way.
LEMMA UnmadeBare ==
  ASSUME ScenarioInv, Journey, Made = {}
  PROVE  /\ store = {} /\ jobs = {}
         /\ \A e \in up : e.frame.kind \in Content => e.frame.ops = {}
         /\ \A c \in Client : doc[c] = {} /\ parked[c] = {}
  BY ShownMade DEF Journey, StoreMade, FramesMade

\* One edit by itself has nothing to wait for.
LEMMA NoGap ==
  ASSUME ScenarioInv, Journey, NEW o, Made \subseteq {o}, NEW e \in up, e.frame.kind \in Content
  PROVE  UpdateReady(store, e.frame.ops)
<1>1. e.frame.ops \subseteq Made
  BY DEF Journey, FramesMade
<1>2. SUFFICES ASSUME o \in Made PROVE Past[o] = {}
  BY <1>1 DEF UpdateReady
<1>3. PICK c \in Client : o \in doc[c]
  BY <1>2 DEF Made
<1>4. Past[o] \subseteq doc[c] /\ doc[c] \subseteq {o}
  BY <1>3, ShownMade DEF Journey, DocsMade, Closed
<1>5. o \in Op
  BY <1>3, Parts
<1>6. o \notin Past[o]
  BY <1>5, DocAssumption
<1>7. QED
  BY <1>4, <1>6

-----------------------------------------------------------------------------
(* The write that raises.                                                  *)

\* A SyncStep1 on its way down greets who joins, resyncs who was turned away, or
\* follows a frame out of turn.
LEMMA GreetedFrom ==
  ASSUME ScenarioInv, Journey, [ScenarioNext]_scenarioVars, NEW c \in Client,
         NEW f \in down'[c], f.kind = "step1", f \notin down[c]
  PROVE  \/ Join(c)
         \/ \E e \in up : RejectGap(e) /\ e.client = c
         \/ \E t \in Thread : ScriptStep(t) /\ AtStep(t, Hailing)
<1>1. ASSUME NEW t \in Thread, ScriptStep(t), ~AtStep(t, Hailing) PROVE FALSE
  <2>1. ~(down' = down)
    OBVIOUS
  <2>2. CASE EditStep(t)
    <3>1. Ready(t)
      BY <1>1 DEF ScriptStep
    <3>2. QED
      BY <2>1, <2>2, <3>1, EditEffect
  <2>3. ASSUME NEW cs \in SUBSET Client, Cut(cs) PROVE FALSE
    BY <2>3, CutParts
  <2>4. QED
    BY <1>1, <2>1, <2>2, <2>3, ScriptKinds DEF Quiet, Hailing
<1>2. ASSUME NEW d \in Client, Join(d) PROVE d = c
  BY <1>2, Parts DEF Join, SyncSubscribed, Transmit, CableTyped
<1>3. ASSUME NEW d \in Client, Confirmed(d) \/ ResendTick(d) PROVE FALSE
  BY <1>3 DEF Confirmed, SessionOnConnect, ResendTick, Resend
<1>4. ASSUME NEW d \in Client, NEW g \in down[d], Taking(d, g) PROVE FALSE
  <2>1. Consume(d, g)
    BY <1>4 DEF Taking, ReceiveAck, ReceiveOneAck, ReceiveStep1, ReceiveContent, ReceiveInVain
  <2>2. QED
    BY <2>1, ConsumeTyped, Parts DEF CableTyped
<1>5. ASSUME NEW e \in up, Handling(e) PROVE RejectGap(e) /\ e.client = c
  <2>1. e.client \in Client
    BY Parts DEF CableTyped, Envelope
  <2>2. ~HandleStep1(e)
    BY <2>1, Parts DEF HandleStep1, Transmit, SyncStep2, CableTyped
  <2>3. ~DropFrame(e) /\ ~(\E w : AcceptUpdate(w, e))
    BY DEF DropFrame, AcceptUpdate
  <2>4. RejectGap(e)
    BY <1>5, <2>2, <2>3 DEF Handling
  <2>5. QED
    BY <2>1, <2>4, Parts DEF RejectGap, Transmit, CableTyped
<1>6. ASSUME NEW j \in jobs, Working(j) PROVE FALSE
  <2>1. ~RecordChange(j) /\ ~Abort(j)
    BY DEF RecordChange, Abort
  <2>2. j.client \in Client
    BY Parts DEF ChannelTypeOK, Job
  <2>3. ~SendAck(j)
    BY <2>2, Parts DEF SendAck, Transmit, Ack, CableTyped
  <2>4. ~DistributeChange(j)
    <3>1. j.frame.kind # "step1" => [j.frame EXCEPT !.id = 0].kind # "step1"
      BY Parts DEF ChannelTypeOK, Job, Frame
    <3>2. j.frame.kind # "step1"
      BY DEF Journey, FramesMade, Content
    <3>3. ASSUME DistributeChange(j) PROVE FALSE
      <4>1. down' = [d \in Client |-> IF subscribed[d] THEN down[d] \cup {[j.frame EXCEPT !.id = 0]}
                                                      ELSE down[d]]
        BY <3>3 DEF DistributeChange, Distribute
      <4>2. [j.frame EXCEPT !.id = 0].kind # "step1"
        BY <3>1, <3>2
      <4>3. QED
        BY <4>1, <4>2
    <3>4. QED
      BY <3>3
  <2>5. QED
    BY <1>6, <2>1, <2>3, <2>4 DEF Working
<1>7. ~(UNCHANGED scenarioVars)
  BY DEF scenarioVars
<1>8. QED
  BY StepKinds, <1>1, <1>2, <1>3, <1>4, <1>5, <1>6, <1>7 DEF Move

FailScripts == {StoreFailure, SelfHeal, AnyCableFailure}

\* Their clients send an edit once, on a network that loses nothing.
LEMMA FailScriptParts ==
  ASSUME script \in FailScripts
  PROVE  /\ FailTable(script) /\ Edited(script, {"o1"})
         /\ profile.queue = "none" /\ Lossless
         /\ script = SelfHeal \/ Never(script, Hailing)
<1>1. FailTable(script) /\ Edited(script, {"o1"}) /\ (script = SelfHeal \/ Never(script, Hailing))
  BY StoreFailureTable, SelfHealTable, AnyCableFailureTable, ScriptEdits DEF FailScripts
<1>2. profile.queue = "none" /\ Lossless
  BY DEF FailScripts, profile, Lossless, StoreFailure, SelfHeal, AnyCableFailure, Script,
     ScenarioClient, AnyCableClient, Profile
<1>3. QED
  BY <1>1, <1>2

\* Until the second handshake of SelfHeal.
Failing == script \in FailScripts /\ (script = SelfHeal => pc[1] =< 9)

\* What is on its way to the store.
Loaded == {e \in up : e.frame.kind \in Content /\ e.frame.ops # {}}

\* While the fault waits, one frame or one job has the edit; then nothing has.
OneCarrier ==
  \/ failNext /\ jobs = {} /\ \E e : Loaded = {e}
  \/ failNext /\ Loaded = {} /\ \E j : jobs = {j} /\ j.stage = "record"
  \/ ~failNext /\ jobs = {} /\ Loaded = {}

\* The one write raises: nothing is stored, and nobody asks for it again.
Lost ==
  Failing =>
    /\ store = {}
    /\ pc[1] \in 2 .. 5 => failNext
    /\ pc[1] > 4 => \A f \in down["a"] : f.kind # "step1"
    /\ pc[1] > 5 => OneCarrier

\* Where the flow of a failing script is, its editor and its reader are connected.
LEMMA FailJoined ==
  ASSUME ScenarioInv, Progress, Links, script \in FailScripts, pc[1] > 3
  PROVE  \A c \in {"a", "b"} : c \in Client /\ connected[c] /\ subscribed[c]
<1>1. {"a", "b"} \subseteq Client
  BY ScenarioAssumption
<1>2. Has(script, 3, Await("joined", {"a", "b"}, {})) /\ Never(script, Cuts)
  BY FailScriptParts DEF FailTable
<1>3. QED
  BY <1>1, <1>2, JoinedAt, NeverCut

\* Nobody but the editor has anything to answer with.
LEMMA BareOthers ==
  ASSUME ScenarioInv, Journey, Edited(script, {"o1"}), store = {}, NEW c \in Client, c # "a"
  PROVE  doc[c] \cup parked[c] = {}
<1>1. parked[c] = {}
  BY Parts DEF StoredFirst
<1>2. doc[c] \subseteq {"o1"}
  BY MadeWithin
<1>3. "o1" \notin Authored(c)
  BY DEF Authored
<1>4. QED
  BY <1>1, <1>2, <1>3, ShowsStored

\* Before the edit nothing is on its way.
LEMMA FailUnmade ==
  ASSUME ScenarioInv, Journey, Progress, script \in FailScripts, pc[1] =< 5
  PROVE  Made = {} /\ store = {} /\ jobs = {} /\ Loaded = {}
<1>1. OnlyAt(script, {"edit"}, {5})
  BY FailScriptParts DEF FailTable
<1>2. Made = {}
  BY <1>1, Unmade
<1>3. QED
  BY <1>2, UnmadeBare DEF Loaded

\* The carrier of the edit, in every move.
LEMMA CarrierMove ==
  ASSUME ScenarioInv, Journey, Progress, Links, Lost, Failing, pc[1] > 5, OneCarrier, Move
  PROVE  OneCarrier'
<1>0. /\ Edited(script, {"o1"}) /\ profile.queue = "none" /\ store = {}
      /\ \A c \in Client : pending[c] = {}
  BY FailScriptParts, FlowPlaced, Parts DEF Failing, Lost, Queueless
<1>1. ASSUME NEW c \in Client, Join(c) PROVE OneCarrier'
  BY <1>1 DEF Join, SyncSubscribed, scriptVars, OneCarrier, Loaded
<1>2. ASSUME NEW c \in Client, Confirmed(c) PROVE OneCarrier'
  <2>1. /\ UNCHANGED <<jobs, failNext, pending>>
        /\ up' = up \cup Enveloped(c, {SyncStep1(StateVector(doc[c]))} \cup UpdateFrames(c)')
    BY <1>2 DEF Confirmed, SessionOnConnect, OnConnect, channelVars, scriptVars
  <2>2. UpdateFrames(c)' = {}
    BY <1>0, <2>1 DEF UpdateFrames, Flushed
  <2>3. Loaded' = Loaded
    BY <2>1, <2>2 DEF Loaded, Enveloped, SyncStep1, Content
  <2>4. QED
    BY <2>1, <2>3 DEF OneCarrier
<1>3. ASSUME NEW c \in Client, ResendTick(c) PROVE FALSE
  BY <1>0, <1>3 DEF ResendTick, Resend
<1>4. ASSUME NEW c \in Client, NEW f \in down[c], Taking(c, f) PROVE OneCarrier'
  <2>1. UNCHANGED <<jobs, failNext>>
    BY <1>4 DEF Taking, channelVars, scriptVars
  <2>2. CASE ReceiveStep1(c, f)
    <3>1. c # "a"
      BY <1>4, <2>2, FlowPlaced DEF Lost, ReceiveStep1
    <3>2. doc[c] \cup parked[c] = {}
      BY <1>0, <3>1, BareOthers
    <3>3. up' = up \cup Enveloped(c, {SyncStep2({})})
      BY <2>2, <3>2 DEF ReceiveStep1, EncodeDiff
    <3>4. Loaded' = Loaded
      BY <3>3 DEF Loaded, Enveloped, SyncStep2
    <3>5. QED
      BY <2>1, <3>4 DEF OneCarrier
  <2>3. CASE ~ReceiveStep1(c, f)
    <3>1. up' = up
      BY <1>0, <1>4, <2>3 DEF Taking, ReceiveContent, ReceiveInVain
    <3>2. QED
      BY <2>1, <3>1 DEF OneCarrier, Loaded
  <2>4. QED
    BY <2>2, <2>3
<1>5. ASSUME NEW e \in up, Handling(e) PROVE OneCarrier'
  <2>1. failNext' = failNext
    BY <1>5 DEF Handling, scriptVars
  <2>2. CASE HandleStep1(e) \/ DropFrame(e)
    <3>1. e \notin Loaded
      <4>1. DropFrame(e) => e.frame.ops = {}
        BY OnlyEmptyDropped
      <4>2. QED
        BY <2>2, <4>1 DEF HandleStep1, Loaded, Content
    <3>2. jobs' = jobs /\ up' = up \ {e}
      BY <2>2 DEF HandleStep1, DropFrame, channelVars
    <3>3. Loaded' = Loaded
      BY <3>1, <3>2 DEF Loaded
    <3>4. QED
      BY <2>1, <3>2, <3>3 DEF OneCarrier
  <2>3. CASE RejectGap(e)
    <3>1. Made \subseteq {"o1"}
      BY <1>0, MadeWithin
    <3>2. e.frame.kind \in Content /\ ~UpdateReady(store, e.frame.ops)
      BY <2>3 DEF RejectGap, Accepts, CarriesUpdate, Content
    <3>3. QED
      BY <3>1, <3>2, NoGap
  <2>4. ASSUME NEW w, AcceptUpdate(w, e) PROVE OneCarrier'
    <3>1. e \in Loaded
      BY <2>4 DEF AcceptUpdate, Accepts, CarriesUpdate, Loaded, Content
    <3>2. failNext /\ jobs = {} /\ Loaded = {e}
      BY <3>1 DEF OneCarrier
    <3>3. UpdateAdvances(store, e.frame.ops)
      BY <1>0, <3>1 DEF UpdateAdvances, Loaded
    <3>4. jobs' = {JobFor(w, e, "record")} /\ up' = up \ {e}
      BY <2>4, <3>2, <3>3 DEF AcceptUpdate
    <3>5. Loaded' = {}
      BY <3>2, <3>4 DEF Loaded
    <3>6. JobFor(w, e, "record").stage = "record"
      BY DEF JobFor
    <3>7. QED
      BY <2>1, <3>2, <3>4, <3>5, <3>6 DEF OneCarrier
  <2>5. QED
    BY <1>5, <2>2, <2>3, <2>4 DEF Handling
<1>6. ASSUME NEW j \in jobs, Working(j) PROVE OneCarrier'
  <2>1. failNext /\ Loaded = {} /\ jobs = {j} /\ j.stage = "record"
    BY <1>6 DEF OneCarrier
  <2>2. Abort(j) /\ failNext' = FALSE
    BY <1>6, <2>1 DEF Working, DistributeChange, SendAck
  <2>3. jobs' = {} /\ up' = up
    BY <2>1, <2>2 DEF Abort
  <2>4. Loaded' = {}
    BY <2>1, <2>3 DEF Loaded
  <2>5. QED
    BY <2>2, <2>3, <2>4 DEF OneCarrier
<1>7. QED
  BY <1>1, <1>2, <1>3, <1>4, <1>5, <1>6 DEF Move

\* The flow takes a step of some kind where the script has one.
LEMMA FlowAt ==
  ASSUME ScenarioInv, [ScenarioNext]_scenarioVars, ScriptStep(1),
         NEW kinds, NEW I, OnlyAt(script, kinds, I), AtStep(1, kinds)
  PROVE  pc[1] \in I
  BY FlowFrom, FlowPlaced DEF OnlyAt, AtStep

\* Where a script lets the dust settle, it has.
LEMMA SettleStep ==
  ASSUME NEW t, ScriptStep(t), Current(t) = Settle
  PROVE  /\ Still /\ UNCHANGED <<sessionVars, channelVars, up, down>>
         /\ UNCHANGED <<forked, opened, network, slow, failNext>>
<1>1. Current(t).do = "await" /\ Current(t).fact = "settled"
  BY DEF Settle, Await, Step
<1>2. FactHolds(t, Current(t)) => Still
  BY <1>1 DEF FactHolds, Still
<1>3. QED
  BY <1>1, <1>2, AwaitStep

\* The flow is past such a step when it leaves it.
LEMMA SettleFlow ==
  ASSUME ScenarioInv, [ScenarioNext]_scenarioVars, NEW i \in Nat, Has(script, i, Settle),
         pc[1] = i, pc'[1] # i
  PROVE  /\ Still /\ UNCHANGED <<sessionVars, channelVars, up, down>>
         /\ UNCHANGED <<forked, opened, network, slow, failNext>>
<1>1. ScriptStep(1) /\ Current(1) = script.threads[1][i]
  BY FlowFrom
<1>2. QED
  BY <1>1, SettleStep DEF Has

\* The edit is what the fault waits for.
LEMMA CarrierTyped ==
  ASSUME ScenarioInv, Journey, Progress, Links, Lost, Failing, [ScenarioNext]_scenarioVars,
         pc[1] = 5, ScriptStep(1)
  PROVE  OneCarrier'
<1>1. FailTable(script) /\ profile.queue = "none" /\ Lossless
  BY FailScriptParts DEF Failing
<1>2. Current(1) = Edits("a", "o1")
  BY <1>1, FlowFrom DEF FailTable, Has
<1>21. Current(1).do = "edit"
  BY <1>2 DEF Edits, Step
<1>3. EditStep(1) /\ Ready(1)
  BY <1>21 DEF ScriptStep, AtStep, OpenSockets, Close, Kill, Rejoin, SendOutOfTurn, Switch,
     Fork, GoOn
<1>4. PICK c \in Cast : \E o : /\ EditOf(Current(1), c, o) /\ Type(c, o)
                                /\ UNCHANGED <<channelVars, failNext>>
  BY <1>3, EditEffect
<1>5. Type("a", "o1") /\ UNCHANGED <<jobs, failNext>>
  BY <1>2, <1>4 DEF EditOf, Edits, Step, channelVars
<1>6. connected["a"]
  BY FailJoined DEF Failing
<1>7. up' = up \cup Enveloped("a", {Update({"o1"}, 0)})
  BY <1>1, <1>5, <1>6, TypedSends
<1>8. failNext /\ jobs = {} /\ Loaded = {}
  BY FailUnmade DEF Failing, Lost
<1> DEFINE e == [client |-> "a", live |-> TRUE, frame |-> Update({"o1"}, 0)]
<1>9. Loaded' = {e}
  BY <1>7, <1>8 DEF Loaded, Enveloped, Update, Content
<1>10. QED
  BY <1>5, <1>8, <1>9 DEF OneCarrier

\* The script does nothing to what is on its way after that.
LEMMA CarrierScript ==
  ASSUME ScenarioInv, Journey, Progress, Links, Failing, Failing',
         [ScenarioNext]_scenarioVars, pc[1] > 5, OneCarrier, NEW t, ScriptStep(t)
  PROVE  OneCarrier'
<1>1. FailTable(script) /\ (script = SelfHeal \/ Never(script, Hailing))
  BY FailScriptParts DEF Failing
<1>2. t = 1 /\ Ready(t)
  BY <1>1, OnlyFirst DEF FailTable, ScriptStep
<1>3. ~EditStep(t)
  BY <1>1, <1>2, FlowAt DEF FailTable, EditStep
<1>4. ~AtStep(t, Cuts)
  BY <1>1, <1>2, NeverAt DEF FailTable
<1>5. ~AtStep(t, Hailing)
  <2>1. CASE script = SelfHeal
    <3>1. pc[1] + 1 =< 9
      BY <1>2, <2>1, FlowFrom, Grows DEF Failing
    <3>2. OnlyAt(script, Hailing, {9})
      BY <2>1, SelfHealTable
    <3>3. QED
      BY <1>2, <3>1, <3>2, FlowAt, FlowPlaced
  <2>2. QED
    BY <1>1, <1>2, <2>1, NeverAt
<1>6. Quiet
  BY <1>3, <1>4, <1>5, ScriptKinds DEF Cuts, Hailing
<1>7. failNext' = failNext
  <2>1. ~AtStep(t, {"fail"})
    BY <1>1, <1>2, FlowAt DEF FailTable
  <2>2. failNext' = (Current(t).do = "fail" \/ failNext)
    BY ScriptEffects
  <2>3. failNext \in BOOLEAN
    BY Parts DEF ScriptTyped
  <2>4. QED
    BY <2>1, <2>2, <2>3 DEF AtStep
<1>8. QED
  BY <1>6, <1>7 DEF Quiet, channelVars, OneCarrier, Loaded

\* The fault waits for the first write.
LEMMA FaultWaits ==
  ASSUME ScenarioInv, Journey, Progress, Lost, [ScenarioNext]_scenarioVars,
         script \in FailScripts, pc'[1] \in 2 .. 5
  PROVE  failNext'
<1>1. CASE pc[1] \in 2 .. 5
  <2>1. failNext /\ jobs = {}
    BY <1>1, FailUnmade DEF Lost, Failing
  <2>2. ASSUME NEW t, ScriptStep(t) PROVE failNext'
    BY <2>1, <2>2, ScriptEffects
  <2>3. Move => failNext' = failNext
    BY <2>1 DEF Move, Join, Confirmed, ResendTick, Taking, Handling, scriptVars
  <2>4. QED
    BY <2>1, <2>2, <2>3, StepKinds DEF scenarioVars, scriptVars
<1>2. CASE pc[1] \notin 2 .. 5
  <2>1. pc[1] = 1 /\ ScriptStep(1) /\ Current(1) = script.threads[1][1]
    BY <1>2, FlowFrom, FlowPlaced
  <2>2. Has(script, 1, Go("fail", {}))
    BY FailScriptParts DEF FailTable
  <2>3. Current(1).do = "fail"
    BY <2>1, <2>2 DEF Has, Go, Step
  <2>4. QED
    BY <2>1, <2>3, ScriptEffects
<1>3. QED
  BY <1>1, <1>2

\* Nobody greets the editor again.
LEMMA UngreetedStep ==
  ASSUME ScenarioInv, Journey, Progress, Links, Lost, Failing, Failing',
         [ScenarioNext]_scenarioVars, pc'[1] > 4, NEW f \in down'["a"]
  PROVE  f.kind # "step1"
<1>0. FailTable(script) /\ "a" \in Client /\ Edited(script, {"o1"})
  BY FailScriptParts, ScenarioAssumption DEF Failing
<1>1. CASE pc[1] = 4
  <2>1. Has(script, 4, Settle) /\ pc'[1] # 4
    BY <1>0 DEF FailTable
  <2>2. down["a"] = {} /\ down' = down
    BY <1>0, <1>1, <2>1, SettleFlow DEF Still
  <2>3. QED
    BY <2>2
<1>2. CASE pc[1] > 4
  <2>0. \A g \in down["a"] : g.kind # "step1"
    BY <1>2 DEF Lost
  <2>1. SUFFICES ASSUME f \notin down["a"], f.kind = "step1" PROVE FALSE
    BY <2>0
  <2>2. ~Join("a")
    <3>1. subscribed["a"]
      BY <1>2, FailJoined, FlowPlaced DEF Failing
    <3>2. QED
      BY <3>1 DEF Join, SyncSubscribed
  <2>3. ASSUME NEW e \in up, RejectGap(e) PROVE FALSE
    <3>1. Made \subseteq {"o1"}
      BY <1>0, MadeWithin
    <3>2. e.frame.kind \in Content /\ ~UpdateReady(store, e.frame.ops)
      BY <2>3 DEF RejectGap, Accepts, CarriesUpdate, Content
    <3>3. QED
      BY <3>1, <3>2, NoGap
  <2>4. ASSUME NEW t \in Thread, ScriptStep(t), AtStep(t, Hailing) PROVE FALSE
    <3>1. t = 1 /\ Ready(t)
      BY <1>0, <2>4, OnlyFirst DEF FailTable, ScriptStep
    <3>2. script = SelfHeal
      BY <2>4, <3>1, FailScriptParts, NeverAt DEF Failing
    <3>3. pc[1] = 9
      BY <2>4, <3>1, <3>2, SelfHealTable, FlowAt
    <3>4. pc'[1] = 10
      BY <2>4, <3>1, <3>3, FlowFrom
    <3>5. QED
      BY <3>2, <3>4, Grows DEF Failing
  <2>5. QED
    BY <1>0, <2>1, <2>2, <2>3, <2>4, GreetedFrom
<1>3. QED
  BY <1>1, <1>2, FlowFrom, FlowPlaced

\* The lost write, step by step.
LEMMA LostStep ==
  ASSUME ScenarioInv, Journey, Progress, Links, Lost, [ScenarioNext]_scenarioVars
  PROVE  Lost'
<1> SUFFICES ASSUME Failing' PROVE Lost'
  BY DEF Lost
<1>1. Failing
  BY FlowFrom, FlowPlaced, Grows DEF Failing
<1>2. store' = {}
  <2>1. SUFFICES ASSUME store' # store PROVE FALSE
    BY <1>1 DEF Lost
  <2>2. jobs # {} /\ ~failNext
    BY <2>1, StoreFrom
  <2>3. CASE pc[1] =< 5
    BY <1>1, <2>2, <2>3, FailUnmade DEF Failing
  <2>4. CASE pc[1] > 5
    BY <1>1, <2>2, <2>4 DEF Lost, OneCarrier
  <2>5. QED
    BY <2>3, <2>4, FlowPlaced
<1>3. pc'[1] > 5 => OneCarrier'
  <2>1. SUFFICES ASSUME pc'[1] > 5 PROVE OneCarrier'
    OBVIOUS
  <2>2. CASE pc[1] > 5
    <3>1. OneCarrier
      BY <1>1, <2>2 DEF Lost
    <3>2. UNCHANGED scenarioVars => OneCarrier'
      <4>1. UNCHANGED scenarioVars => UNCHANGED <<up, jobs, failNext>>
        BY DEF scenarioVars, channelVars, scriptVars
      <4>2. UNCHANGED up => Loaded' = Loaded
        BY DEF Loaded
      <4>3. QED
        BY <3>1, <4>1, <4>2 DEF OneCarrier
    <3>3. QED
      BY <1>1, <2>2, <3>1, <3>2, CarrierMove, CarrierScript, StepKinds
  <2>3. CASE ~(pc[1] > 5)
    <3>1. pc[1] = 5 /\ ScriptStep(1)
      BY <2>1, <2>3, FlowFrom, FlowPlaced
    <3>2. QED
      BY <1>1, <3>1, CarrierTyped
  <2>4. QED
    BY <2>2, <2>3
<1>4. pc'[1] \in 2 .. 5 => failNext'
  BY <1>1, FaultWaits DEF Failing
<1>5. pc'[1] > 4 => \A f \in down'["a"] : f.kind # "step1"
  BY <1>1, UngreetedStep
<1>6. QED
  BY <1>2, <1>3, <1>4, <1>5 DEF Lost

\* Nothing has happened at the start.
LEMMA LostInit == ScenarioInit => Lost
<1> SUFFICES ASSUME ScenarioInit PROVE Lost
  OBVIOUS
<1>1. store = {} /\ pc[1] = 1
  BY FirstThread DEF ScenarioInit, ChannelInit
<1>2. QED
  BY <1>1 DEF Lost

-----------------------------------------------------------------------------
(* Debts: on a lossless cable, whatever a client that is subscribed shows is*)
(* owed to the store.                                                      *)

\* The scripts that count on it, SelfHeal from its second handshake on.
Carried ==
  \/ script \in {SlowStore, AnyCableSlowStore, OfflineCatchUp, Audit, Multiprocess, Chaos}
  \/ script = SelfHeal /\ pc[1] > 9

\* Their clients send an edit once, on a network that loses nothing.
LEMMA CarriedParts ==
  ASSUME Carried
  PROVE  /\ profile.queue = "none" /\ Lossless
         /\ profile.answers \/ script = AnyCableSlowStore
         /\ script = SelfHeal \/ Never(script, {"fail"})
<1>1. Never(script, Cuts \cup {"fail"}) => Never(script, {"fail"})
  BY DEF Never
<1>2. script = SelfHeal \/ Never(script, {"fail"})
  BY <1>1, SlowStoreTable, AnyCableSlowStoreTable, OfflineCatchUpTable, AuditTable,
     MultiprocessTable, ChaosTable DEF Carried
<1> USE DEF Carried, profile, Script, Profile, ScenarioClient, AuditClient,
            MultiprocessClient, ChaosClient, AnyCableClient
<1>3. profile.queue = "none" /\ profile.loses = {}
  BY DEF SlowStore, AnyCableSlowStore, OfflineCatchUp, Audit, Multiprocess, Chaos, SelfHeal
<1>4. profile.answers \/ script = AnyCableSlowStore
  BY DEF SlowStore, OfflineCatchUp, Audit, Multiprocess, Chaos, SelfHeal
<1>5. QED
  BY <1>2, <1>3, <1>4 DEF Lossless

\* An offline editor has no socket.
Away == script = OfflineCatchUp /\ pc[1] \in 8 .. 10 => "a" \notin opened

\* The fault of SelfHeal has struck when the dust has settled.
Spent == script = SelfHeal /\ pc[1] > 6 => ~failNext

\* What is shown is owed.
Debts ==
  Carried => /\ ~failNext
             /\ \A c \in Client : subscribed[c] => \A o \in doc[c] : Owed(c, o)

\* A socket stays closed until the script opens it.
LEMMA AwayStep ==
  ASSUME ScenarioInv, Away, [ScenarioNext]_scenarioVars
  PROVE  Away'
<1> SUFFICES ASSUME script = OfflineCatchUp, pc'[1] \in 8 .. 10 PROVE "a" \notin opened'
  BY Grows DEF Away
<1>1. Single(script) /\ OnlyAt(script, {"open"}, {1, 10}) /\ Has(script, 7, Go("close", {"a"}))
  BY OfflineCatchUpTable
<1>2. CASE pc'[1] = pc[1]
  <2>1. "a" \notin opened
    BY <1>2 DEF Away
  <2>2. ~(\E t \in Thread : ScriptStep(t))
    BY <1>1, <1>2, OnlyFirst, FlowFrom, FlowPlaced DEF ScriptStep
  <2>3. opened' = opened
    BY <2>2, StepKinds, MoveRests DEF scenarioVars, scriptVars
  <2>4. QED
    BY <2>1, <2>3
<1>3. CASE pc'[1] # pc[1]
  <2>1. ScriptStep(1) /\ pc[1] \in 7 .. 9 /\ Current(1) = script.threads[1][pc[1]]
    BY <1>3, FlowFrom, FlowPlaced
  <2>2. CASE pc[1] = 7
    <3>1. Current(1).do = "close" /\ Current(1).cs = {"a"}
      BY <1>1, <2>1, <2>2 DEF Has, Go, Step
    <3>2. Close(1)
      BY <2>1, <3>1 DEF ScriptStep, AtStep, OpenSockets, Kill, Rejoin, SendOutOfTurn,
         EditStep, Switch, Fork, GoOn
    <3>3. QED
      BY <3>1, <3>2 DEF Close, Drop
  <2>3. CASE pc[1] # 7
    <3>1. "a" \notin opened
      BY <2>1, <2>3 DEF Away
    <3>2. Current(1).do # "open"
      BY <1>1, <2>1, FlowAt DEF AtStep
    <3>3. QED
      BY <2>1, <3>1, <3>2, ScriptEffects
  <2>4. QED
    BY <2>2, <2>3
<1>4. QED
  BY <1>2, <1>3

\* A fault that has struck does not strike again.
LEMMA NoFault ==
  ASSUME ScenarioInv, [ScenarioNext]_scenarioVars, ~failNext,
         \A t \in Thread : ScriptStep(t) => Current(t).do # "fail"
  PROVE  ~failNext'
<1>1. ASSUME NEW t \in Thread, ScriptStep(t) PROVE ~failNext'
  BY <1>1, ScriptEffects
<1>2. QED
  BY <1>1, StepKinds, MoveRests DEF scenarioVars, scriptVars

\* The failing scripts bring the fault about once.
LEMMA NoFaultAfter ==
  ASSUME ScenarioInv, [ScenarioNext]_scenarioVars, ~failNext, script \in FailScripts, pc[1] > 1
  PROVE  ~failNext'
<1>1. Single(script) /\ OnlyAt(script, {"fail"}, {1})
  BY FailScriptParts DEF FailTable
<1>2. ASSUME NEW t \in Thread, ScriptStep(t) PROVE Current(t).do # "fail"
  BY <1>1, <1>2, OnlyFirst, FlowAt, FlowPlaced DEF AtStep
<1>3. QED
  BY <1>2, NoFault

\* When the dust has settled the fault has struck.
LEMMA SpentStep ==
  ASSUME ScenarioInv, Lost, Spent, [ScenarioNext]_scenarioVars
  PROVE  Spent'
<1> SUFFICES ASSUME script = SelfHeal, pc'[1] > 6 PROVE ~failNext'
  BY Grows DEF Spent
<1>1. script \in FailScripts
  BY DEF FailScripts
<1>2. CASE pc[1] > 6
  BY <1>1, <1>2, NoFaultAfter, FlowPlaced DEF Spent
<1>3. CASE ~(pc[1] > 6)
  <2>1. pc[1] = 6 /\ Has(script, 6, Settle)
    BY <1>1, <1>3, FlowFrom, FlowPlaced, FailScriptParts DEF FailTable
  <2>2. Still /\ failNext' = failNext
    BY <2>1, SettleFlow
  <2>3. Failing /\ OneCarrier
    BY <1>1, <2>1 DEF Failing, Lost
  <2>4. Loaded = {} /\ jobs = {}
    BY <2>2 DEF Still, Loaded
  <2>5. QED
    BY <2>2, <2>3, <2>4 DEF OneCarrier
<1>4. QED
  BY <1>2, <1>3

\* Whoever types is connected, or has no socket.
LEMMA EditorsOn ==
  ASSUME ScenarioInv, Progress, Links, Away, Carried, [ScenarioNext]_scenarioVars,
         NEW t \in Thread, ScriptStep(t), NEW c \in Client, NEW o, EditOf(Current(t), c, o)
  PROVE  connected[c] \/ ~subscribed[c]
<1>1. AtStep(t, {"edit"}) /\ Current(t).cs = {c} /\ Ready(t)
  BY DEF AtStep, EditOf, ScriptStep
<1>2. ASSUME Single(script)
      PROVE  t = 1 /\ ScriptStep(1) /\ Current(1) = script.threads[1][pc[1]]
  BY <1>2, OnlyFirst, FlowFrom, FlowPlaced
<1>3. CASE script = SlowStore
  <2>1. Single(script) /\ OnlyAt(script, {"edit"}, {5})
        /\ Has(script, 3, Await("joined", {"a", "b"}, {}))
        /\ Has(script, 5, Edits("a", "o1")) /\ Uncut(1, 3)
    BY <1>3, SlowStoreTable, NeverCut DEF Never
  <2>2. pc[1] = 5 /\ Current(t) = Edits("a", "o1")
    BY <1>1, <1>2, <2>1, FlowAt DEF Has
  <2>3. c = "a"
    BY <1>1, <2>2 DEF Edits, Step
  <2>4. QED
    BY <2>1, <2>2, <2>3, JoinedAt
<1>4. CASE script = AnyCableSlowStore
  <2>1. Single(script) /\ OnlyAt(script, {"edit"}, {5})
        /\ Has(script, 3, Await("joined", {"a", "b"}, {}))
        /\ Has(script, 5, Edits("a", "o1")) /\ Uncut(1, 3)
    BY <1>4, AnyCableSlowStoreTable, NeverCut DEF Never
  <2>2. pc[1] = 5 /\ Current(t) = Edits("a", "o1")
    BY <1>1, <1>2, <2>1, FlowAt DEF Has
  <2>3. c = "a"
    BY <1>1, <2>2 DEF Edits, Step
  <2>4. QED
    BY <2>1, <2>2, <2>3, JoinedAt
<1>5. CASE script = Audit
  <2>1. Single(script) /\ OnlyAt(script, {"edit"}, {3, 4})
        /\ Has(script, 2, Await("joined", {"a"}, {})) /\ Uncut(1, 2)
        /\ Has(script, 3, Edits("a", "o1")) /\ Has(script, 4, Edits("a", "o2"))
    BY <1>5, AuditTable, NeverCut DEF Never
  <2>2. pc[1] \in {3, 4} /\ Current(t) \in {Edits("a", "o1"), Edits("a", "o2")}
    BY <1>1, <1>2, <2>1, FlowAt DEF Has
  <2>3. c = "a"
    BY <1>1, <2>2 DEF Edits, Step
  <2>4. QED
    BY <2>1, <2>2, <2>3, JoinedAt
<1>6. CASE script = Multiprocess
  <2>1. Single(script) /\ OnlyAt(script, {"edit"}, {4, 5, 6})
        /\ Has(script, 2, Await("joined", {"a", "b"}, {})) /\ Uncut(1, 2)
    BY <1>6, MultiprocessTable, NeverCut DEF Never
  <2>2. pc[1] \in {4, 5, 6}
    BY <1>1, <1>2, <2>1, FlowAt
  <2>3. c \in {"a", "b"}
    BY <1>1, EditStepOwn DEF EditOf, Authored
  <2>4. QED
    BY <2>1, <2>2, <2>3, JoinedAt
<1>7. CASE script = OfflineCatchUp
  <2>1. Single(script) /\ OnlyAt(script, {"edit"}, {4, 8, 9}) /\ OnlyAt(script, Cuts, {7})
        /\ Has(script, 2, Await("joined", {"a"}, {})) /\ Has(script, 4, Edits("a", "o1"))
        /\ Has(script, 8, Edits("a", "o2")) /\ Has(script, 9, Edits("a", "o3"))
    BY <1>7, OfflineCatchUpTable
  <2>2. pc[1] \in {4, 8, 9}
    BY <1>1, <1>2, <2>1, FlowAt
  <2>3. Current(t) \in {Edits("a", "o1"), Edits("a", "o2"), Edits("a", "o3")}
    BY <1>2, <2>1, <2>2 DEF Has
  <2>4. c = "a"
    BY <1>1, <2>3 DEF Edits, Step
  <2>5. CASE pc[1] = 4
    <3>1. Uncut(1, 2)
      BY <2>1, <2>5 DEF Uncut, OnlyAt, At
    <3>2. QED
      BY <2>1, <2>4, <2>5, <3>1, JoinedAt
  <2>6. CASE pc[1] \in {8, 9}
    BY <1>7, <2>4, <2>6 DEF Away, Links
  <2>7. QED
    BY <2>2, <2>5, <2>6
<1>8. CASE script = SelfHeal
  <2>1. Single(script) /\ OnlyAt(script, {"edit"}, {5}) /\ pc[1] > 9
    BY <1>8, SelfHealTable DEF FailTable, Carried, SlowStore, AnyCableSlowStore,
       OfflineCatchUp, Audit, Multiprocess, Chaos, SelfHeal, Script
  <2>2. QED
    BY <1>1, <1>2, <2>1, FlowAt
<1>9. CASE script = Chaos
  <2>1. Has(script, 2, Await("joined", {"a", "b"}, {})) /\ Uncut(1, 2)
        /\ OnlyAt(script, {"fork"}, {3})
    BY <1>9, ChaosTable, NeverCut DEF Never
  <2>2. t # 1
    BY <1>1, <1>9, ChaosTable, FlowFrom DEF AtStep
  <2>3. PICK u, i : Passed(u, i) /\ At(u, i).do = "fork"
    BY <1>1, <2>2 DEF Ready, Progress, ForkTaken
  <2>4. u \in DOMAIN script.threads /\ i \in DOMAIN script.threads[u]
    <3>1. /\ u \in DOMAIN script.threads /\ script.threads[u] \in Seq(StepType)
          /\ pc[u] \in 1 .. Len(script.threads[u]) + 1
      BY <2>3, Parts, ScriptsWellMade DEF Passed, ScriptTyped, Placed, WellMade
    <3>2. QED
      BY <2>3, <3>1 DEF Passed
  <2>5. u = 1 /\ i = 3
    BY <2>1, <2>3, <2>4 DEF OnlyAt, At
  <2>6. pc[1] > 3
    BY <2>3, <2>5, FlowPlaced DEF Passed
  <2>7. c \in {"a", "b"}
    BY <1>1, EditStepOwn DEF EditOf, Authored
  <2>8. QED
    BY <2>1, <2>6, <2>7, FlowPlaced, JoinedAt
<1>10. QED
  BY <1>3, <1>4, <1>5, <1>6, <1>7, <1>8, <1>9 DEF Carried

\* A document shows something new when it comes from the store or is typed.
LEMMA DocNews ==
  ASSUME ScenarioInv, [ScenarioNext]_scenarioVars, NEW c \in Client,
         NEW o \in doc'[c], o \notin doc[c]
  PROVE  o \in store \/ \E t \in Thread : ScriptStep(t) /\ EditStep(t)
<1>1. ASSUME NEW t \in Thread, ScriptStep(t), ~EditStep(t) PROVE doc' = doc
  BY <1>1 DEF ScriptStep, OpenSockets, Close, Kill, Drop, Rejoin, SendOutOfTurn, Switch,
     Fork, GoOn, sessionVars
<1>2. ASSUME NEW d \in Client, Join(d) \/ Confirmed(d) \/ ResendTick(d) PROVE doc' = doc
  BY <1>2 DEF Join, Confirmed, SessionOnConnect, ResendTick, Resend, sessionVars
<1>3. ASSUME NEW d \in Client, NEW f \in down[d], Taking(d, f) PROVE o \in store
  <2>1. CASE ReceiveContent(d, f)
    <3>1. f.kind \in {"step2", "update"}
          /\ doc' = [doc EXCEPT ![d] = Integrate(doc[d], parked[d] \cup f.ops)]
      BY <2>1 DEF ReceiveContent
    <3>2. f.ops \subseteq store /\ parked[d] \subseteq store
      BY <1>3, <3>1, Parts DEF StoredFirst
    <3>3. doc'[c] \subseteq doc[c] \cup store
      BY <3>1, <3>2, Parts DEF Integrate
    <3>4. QED
      BY <3>3
  <2>2. CASE ~ReceiveContent(d, f)
    BY <1>3, <2>2 DEF Taking, ReceiveAck, ReceiveOneAck, ReceiveStep1, ReceiveInVain
  <2>3. QED
    BY <2>1, <2>2
<1>4. ASSUME NEW e \in up, Handling(e) PROVE doc' = doc
  BY <1>4 DEF Handling, sessionVars
<1>5. ASSUME NEW j \in jobs, Working(j) PROVE doc' = doc
  BY <1>5 DEF Working, sessionVars
<1>6. QED
  BY StepKinds, <1>1, <1>2, <1>3, <1>4, <1>5 DEF Move, scenarioVars, sessionVars

\* Behind AnyCable only readers join late, and they show nothing of their own.
LEMMA AnyCableJoins ==
  ASSUME ScenarioInv, Journey, Progress, Links, script = AnyCableSlowStore,
         NEW c \in Client, ~subscribed[c]
  PROVE  doc[c] \subseteq store
<1>1. Edited(script, {"o1"}) /\ OnlyAt(script, {"edit"}, {5})
      /\ Has(script, 3, Await("joined", {"a", "b"}, {})) /\ Uncut(1, 3)
  BY AnyCableSlowStoreTable, ScriptEdits, NeverCut DEF Never
<1>2. CASE pc[1] =< 5
  BY <1>1, <1>2, Unmade, UnmadeBare
<1>3. CASE pc[1] > 5
  <2>1. c # "a"
    BY <1>1, <1>3, JoinedAt, FlowPlaced
  <2>2. doc[c] \subseteq {"o1"} /\ "o1" \notin Authored(c)
    BY <1>1, <2>1, MadeWithin DEF Authored
  <2>3. QED
    BY <2>2, ShowsStored
<1>4. QED
  BY <1>2, <1>3, FlowPlaced

\* The second handshake: the editor is asked for what the fault has lost.
LEMMA DebtsRejoin ==
  ASSUME ScenarioInv, Journey, Lost, Spent, [ScenarioNext]_scenarioVars,
         script = SelfHeal, pc[1] = 9, ScriptStep(1)
  PROVE  ~failNext' /\ \A c \in Client : \A o \in doc'[c] : Owed(c, o)'
<1>1. Current(1) = Go("rejoin", {"a"})
  BY FlowFrom, SelfHealTable DEF Has
<1>2. Current(1).do = "rejoin" /\ Current(1).cs = {"a"}
  BY <1>1 DEF Go, Step
<1>3. Rejoin(1)
  BY <1>2 DEF ScriptStep, AtStep, OpenSockets, Close, Kill, SendOutOfTurn, EditStep, Switch,
     Fork, GoOn
<1>4. /\ Transmit("a", TRUE, SyncStep1(StateVector(store)))
      /\ UNCHANGED <<doc, store, failNext>>
  BY <1>2, <1>3 DEF Rejoin, channelVars
<1>5. store = {} /\ ~failNext /\ Edited(script, {"o1"}) /\ "a" \in Client
  BY ScriptEdits, ScenarioAssumption DEF Lost, Failing, FailScripts, Spent
<1>6. profile'.answers
  <2>1. script' = script
    BY Grows
  <2>2. QED
    BY <2>1 DEF profile, SelfHeal, Script, ScenarioClient, Profile
<1>7. ASSUME NEW o PROVE Owed("a", o)'
  <2>1. SyncStep1(StateVector(store)) \in down'["a"]
    BY <1>4, <1>5, Parts DEF Transmit, CableTyped
  <2>2. SyncStep1(StateVector(store)).kind = "step1" /\ o \notin SyncStep1(StateVector(store)).ops
    BY <1>5 DEF SyncStep1, StateVector
  <2>3. QED
    BY <1>6, <2>1, <2>2 DEF Owed
<1>8. \A c \in Client : c # "a" => doc'[c] = {}
  BY <1>4, <1>5, BareOthers
<1>9. QED
  BY <1>4, <1>5, <1>7, <1>8

\* What is shown stays owed, step by step.
LEMMA DebtsStep ==
  ASSUME ScenarioInv, Journey, Progress, Links, Lost, Spent, Away, Debts,
         [ScenarioNext]_scenarioVars
  PROVE  Debts'
<1> SUFFICES ASSUME Carried'
    PROVE  /\ ~failNext'
           /\ \A c \in Client : subscribed'[c] => \A o \in doc'[c] : Owed(c, o)'
  BY DEF Debts
<1>0. script' = script
  BY Grows
<1>1. CASE Carried
  <2>1. /\ profile.queue = "none" /\ Lossless /\ ~failNext
        /\ profile.answers \/ script = AnyCableSlowStore
    BY <1>1, CarriedParts DEF Debts
  <2>2. ~failNext'
    <3>1. CASE script = SelfHeal
      <4>1. script \in FailScripts /\ pc[1] > 9
        BY <1>1, <3>1 DEF FailScripts, Carried, SlowStore, AnyCableSlowStore,
           OfflineCatchUp, Audit, Multiprocess, Chaos, SelfHeal, Script
      <4>2. QED
        BY <2>1, <4>1, NoFaultAfter, FlowPlaced
    <3>2. CASE script # SelfHeal
      <4>1. Never(script, {"fail"})
        BY <1>1, <3>2, CarriedParts
      <4>2. ASSUME NEW t \in Thread, ScriptStep(t) PROVE Current(t).do # "fail"
        BY <4>1, <4>2, NeverAt DEF AtStep, ScriptStep
      <4>3. QED
        BY <2>1, <4>2, NoFault
    <3>3. QED
      BY <3>1, <3>2
  <2>3. Resynced
    <3>1. CASE script = AnyCableSlowStore
      <4>1. Made \subseteq {"o1"}
        BY <3>1, ScriptEdits, MadeWithin
      <4>2. QED
        BY <4>1, NoGap DEF Resynced
    <3>2. QED
      BY <2>1, <3>1 DEF Resynced
  <2>4. SUFFICES ASSUME NEW c \in Client, subscribed'[c], NEW o \in doc'[c]
                 PROVE  Owed(c, o)'
    BY <2>2
  <2>5. CASE o \in doc[c] /\ subscribed[c]
    <3>1. Owed(c, o)
      BY <1>1, <2>5 DEF Debts
    <3>2. QED
      BY <2>1, <2>3, <2>4, <2>5, <3>1, OwedStays
  <2>6. CASE o \in doc[c] /\ ~subscribed[c]
    <3>1. Join(c)
      BY <2>4, <2>6, SocketFrom DEF CutOff
    <3>2. CASE profile.answers
      BY <2>6, <3>1, <3>2, OwedJoined
    <3>3. CASE script = AnyCableSlowStore
      <4>1. o \in store
        BY <2>6, <3>3, AnyCableJoins
      <4>2. QED
        BY <4>1, Grows DEF Owed
    <3>4. QED
      BY <2>1, <3>2, <3>3
  <2>7. CASE o \notin doc[c]
    <3>1. CASE o \in store
      BY <3>1, Grows DEF Owed
    <3>2. ASSUME NEW t \in Thread, ScriptStep(t), EditStep(t) PROVE Owed(c, o)'
      <4>1. Ready(t)
        BY <3>2 DEF ScriptStep
      <4>2. PICK d \in Client : \E p : /\ EditOf(Current(t), d, p) /\ Type(d, p) /\ Types(d, p)
                                       /\ \A x \in Client \ {d} : doc'[x] = doc[x]
                                       /\ UNCHANGED channelVars
        BY <3>2, <4>1, EditEffect
      <4>3. PICK p : /\ EditOf(Current(t), d, p) /\ Type(d, p) /\ Types(d, p)
                     /\ \A x \in Client \ {d} : doc'[x] = doc[x]
                     /\ UNCHANGED channelVars
        BY <4>2
      <4>4. d = c /\ p = o
        BY <2>4, <2>7, <4>3 DEF Types
      <4>5. connected[c]
        BY <1>1, <2>4, <3>2, <4>3, <4>4, EditorsOn DEF channelVars
      <4>6. QED
        BY <2>1, <4>3, <4>4, <4>5, OwedTyped
    <3>3. QED
      BY <2>4, <2>7, <3>1, <3>2, DocNews
  <2>8. QED
    BY <2>5, <2>6, <2>7
<1>2. CASE ~Carried
  <2>1. script = SelfHeal /\ pc[1] = 9 /\ ScriptStep(1)
    <3>1. script = SelfHeal /\ pc'[1] > 9 /\ ~(pc[1] > 9)
      BY <1>0, <1>2 DEF Carried
    <3>2. QED
      BY <3>1, FlowFrom, FlowPlaced
  <2>2. QED
    BY <2>1, DebtsRejoin
<1>3. QED
  BY <1>1, <1>2

\* Nobody has a socket at the start.
LEMMA DebtsInit == ScenarioInit => Away /\ Spent /\ Debts
<1> SUFFICES ASSUME ScenarioInit PROVE Away /\ Spent /\ Debts
  OBVIOUS
<1>1. /\ opened = {} /\ ~failNext /\ \A c \in Client : ~subscribed[c]
  BY DEF ScenarioInit, ChannelInit
<1>2. QED
  BY <1>1 DEF Away, Spent, Debts

-----------------------------------------------------------------------------
(* Settled: when the dust has settled, what is owed is stored and shown.   *)

\* A settled step of the flow leaves nobody's edit unstored or unseen.
LEMMA Settles ==
  ASSUME ScenarioInv, Journey, Heard, Debts, Carried, [ScenarioNext]_scenarioVars,
         NEW i \in Nat, Has(script, i, Settle), pc[1] = i, pc'[1] # i,
         NEW c \in Client, subscribed[c], NEW o \in doc[c]
  PROVE  o \in store' /\ \A d \in Client : connected[d] => o \in doc'[d]
<1>1. Still
  BY SettleFlow
<1>2. o \in store
  BY <1>1, StillOwed DEF Debts
<1>3. \A d \in Client : connected[d] => o \in doc[d]
  BY <1>1, <1>2, StillHeard
<1>4. QED
  BY <1>2, <1>3, Grows

\* A script that writes slowly from its first step to its step quick.
SlowTable(s, quick) ==
  /\ Single(s) /\ OnlyAt(s, {"edit"}, {5}) /\ Never(s, Cuts) /\ OnlyAt(s, {"quick"}, {quick})
  /\ Has(s, 1, Go("slow", {})) /\ Has(s, 3, Await("joined", {"a", "b"}, {}))
  /\ Has(s, 5, Edits("a", "o1")) /\ Has(s, quick + 1, Settle)

\* Nothing is stored before that, and everything when the dust has settled.
Slowly(s, quick) ==
  script = s =>
    /\ pc[1] \in 2 .. quick => slow
    /\ pc[1] =< quick => store = {}
    /\ pc[1] > quick + 1 => "o1" \in store /\ "o1" \in doc["b"]

Slowed == Slowly(SlowStore, 14) /\ Slowly(AnyCableSlowStore, 11)

\* The scripts with a slow store are of this kind.
LEMMA SlowTables == SlowTable(SlowStore, 14) /\ SlowTable(AnyCableSlowStore, 11)
<1>1. Never(SlowStore, Cuts) /\ Never(AnyCableSlowStore, Cuts)
  BY SlowStoreTable, AnyCableSlowStoreTable DEF Never
<1>2. 14 + 1 = 15 /\ 11 + 1 = 12
  OBVIOUS
<1>3. SlowTable(SlowStore, 14)
  BY <1>1, <1>2, SlowStoreTable DEF SlowTable
<1>4. SlowTable(AnyCableSlowStore, 11)
  BY <1>1, <1>2, AnyCableSlowStoreTable DEF SlowTable
<1>5. QED
  BY <1>3, <1>4

\* A slow write holds the edit back, step by step.
LEMMA SlowlyStep ==
  ASSUME ScenarioInv, Journey, Heard, Progress, Links, Debts, [ScenarioNext]_scenarioVars,
         NEW s \in {SlowStore, AnyCableSlowStore}, NEW quick \in {11, 14},
         SlowTable(s, quick), Slowly(s, quick)
  PROVE  Slowly(s, quick)'
<1> SUFFICES ASSUME script = s
             PROVE  /\ pc'[1] \in 2 .. quick => slow'
                    /\ pc'[1] =< quick => store' = {}
                    /\ pc'[1] > quick + 1 => "o1" \in store' /\ "o1" \in doc'["b"]
  BY Grows DEF Slowly
<1>0. SlowTable(script, quick) /\ pc[1] \in Nat
  BY FlowPlaced
<1>1. ASSUME pc'[1] \in 2 .. quick PROVE slow'
  <2>1. CASE pc[1] = 1
    <3>1. ScriptStep(1) /\ Current(1) = Go("slow", {})
      BY <1>0, <1>1, <2>1, FlowFrom DEF SlowTable, Has
    <3>2. Current(1).do = "slow"
      BY <3>1 DEF Go, Step
    <3>3. QED
      BY <3>1, <3>2, ScriptEffects
  <2>2. CASE pc[1] # 1
    <3>1. slow
      BY <1>1, <2>2, FlowFrom, FlowPlaced DEF Slowly
    <3>2. ASSUME NEW t \in Thread, ScriptStep(t) PROVE Current(t).do # "quick"
      <4>1. t = 1
        BY <1>0, <3>2, OnlyFirst DEF SlowTable
      <4>2. pc[1] # quick
        BY <1>0, <1>1, <3>2, <4>1, FlowFrom
      <4>3. QED
        BY <1>0, <3>2, <4>1, <4>2, FlowAt DEF SlowTable, AtStep
    <3>3. QED
      BY <3>1, <3>2, ScriptEffects, StepKinds, MoveRests DEF scenarioVars, scriptVars
  <2>3. QED
    BY <2>1, <2>2
<1>2. ASSUME pc'[1] =< quick PROVE store' = {}
  <2>1. store = {} /\ pc[1] =< quick
    BY <1>2, FlowFrom, FlowPlaced DEF Slowly
  <2>2. ASSUME store' # store PROVE FALSE
    <3>1. jobs # {} /\ ~slow
      BY <2>2, StoreFrom
    <3>2. pc[1] = 1
      BY <2>1, <3>1, FlowPlaced DEF Slowly
    <3>3. Made = {}
      BY <1>0, <3>2, Unmade DEF SlowTable
    <3>4. QED
      BY <3>1, <3>3, UnmadeBare
  <2>3. QED
    BY <2>1, <2>2
<1>3. ASSUME pc'[1] > quick + 1 PROVE "o1" \in store' /\ "o1" \in doc'["b"]
  <2>0. "a" \in Client /\ "b" \in Client
    BY ScenarioAssumption
  <2>1. CASE pc[1] > quick + 1
    BY <2>0, <2>1, Grows DEF Slowly
  <2>2. CASE ~(pc[1] > quick + 1)
    <3>1. pc[1] = quick + 1 /\ pc'[1] # quick + 1
      BY <1>3, <2>2, FlowFrom, FlowPlaced
    <3>2. "o1" \in doc["a"]
      BY <1>0, <3>1, EditedAt DEF SlowTable
    <3>3. \A c \in {"a", "b"} : connected[c] /\ subscribed[c]
      BY <1>0, <2>0, <3>1, JoinedAt, NeverCut DEF SlowTable
    <3>4. connected["b"] /\ subscribed["a"]
      BY <3>3
    <3>5. Carried
      BY DEF Carried
    <3>6. QED
      BY <1>0, <2>0, <3>1, <3>2, <3>4, <3>5, Settles DEF SlowTable
  <2>3. QED
    BY <2>1, <2>2
<1>4. QED
  BY <1>1, <1>2, <1>3

\* Both of them.
LEMMA SlowedStep ==
  ASSUME ScenarioInv, Journey, Heard, Progress, Links, Debts, [ScenarioNext]_scenarioVars,
         Slowed
  PROVE  Slowed'
  BY SlowTables, SlowlyStep DEF Slowed

\* The scripts begin with an empty store.
LEMMA SlowedInit == ScenarioInit => Slowed
<1> SUFFICES ASSUME ScenarioInit PROVE Slowed
  OBVIOUS
<1>1. pc[1] = 1 /\ store = {}
  BY FirstThread DEF ScenarioInit, ChannelInit
<1>2. QED
  BY <1>1 DEF Slowed, Slowly

\* Who has waited for the others has seen them come to their end.
LEMMA FinishedFact ==
  ASSUME NEW t, NEW s, s.fact = "finished", FactHolds(t, s)
  PROVE  \A u \in Thread \ {t} : Done(u)
  BY Zenon DEF FactHolds

\* Past its step i the flow has the operations ops in the store and with cs.
Collected(i, ops, cs) ==
  pc[1] > i => ops \subseteq store /\ \A c \in cs : ops \subseteq doc[c]

\* At the settled step i each of them is stored already or owed.
Due(i, ops, cs) ==
  /\ Has(script, i, Settle)
  /\ pc[1] = i => /\ \A c \in cs : connected[c]
                  /\ \A o \in ops : \/ o \in store
                                    \/ Carried /\ \E c \in Client : subscribed[c] /\ o \in doc[c]

\* So they are collected past it.
LEMMA Collects ==
  ASSUME ScenarioInv, Journey, Heard, Debts, [ScenarioNext]_scenarioVars,
         NEW i \in Nat, NEW ops, NEW cs \in SUBSET Client, Due(i, ops, cs),
         Collected(i, ops, cs)
  PROVE  Collected(i, ops, cs)'
<1> SUFFICES ASSUME pc'[1] > i
             PROVE  ops \subseteq store' /\ \A c \in cs : ops \subseteq doc'[c]
  BY DEF Collected
<1>1. CASE pc[1] > i
  <2>1. ops \subseteq store /\ \A c \in cs : ops \subseteq doc[c]
    BY <1>1 DEF Collected
  <2>2. QED
    BY <2>1, Grows
<1>2. CASE ~(pc[1] > i)
  <2>1. pc[1] = i /\ pc'[1] # i
    BY <1>2, FlowFrom, FlowPlaced
  <2>2. Still /\ Has(script, i, Settle)
    BY <2>1, SettleFlow DEF Due
  <2>3. ASSUME NEW o \in ops PROVE o \in store' /\ \A c \in cs : o \in doc'[c]
    <3>1. CASE o \in store
      <4>1. \A c \in cs : o \in doc[c]
        BY <2>1, <2>2, <3>1, StillHeard DEF Due
      <4>2. QED
        BY <3>1, <4>1, Grows
    <3>2. CASE o \notin store
      <4>1. Carried /\ \E c \in Client : subscribed[c] /\ o \in doc[c]
        BY <2>1, <2>3, <3>2 DEF Due
      <4>2. o \in store' /\ \A d \in Client : connected[d] => o \in doc'[d]
        BY <2>1, <2>2, <4>1, Settles
      <4>3. QED
        BY <2>1, <4>2 DEF Due
    <3>3. QED
      BY <3>1, <3>2
  <2>4. QED
    BY <2>3
<1>3. QED
  BY <1>1, <1>2

\* No socket is cut by a script that cuts them elsewhere.
LEMMA CutElsewhere ==
  ASSUME NEW k, OnlyAt(script, Cuts, {k}), NEW i, k < i \/ k >= pc[1]
  PROVE  Uncut(1, i)
  BY DEF OnlyAt, Uncut, At

\* Where each script finds its edits collected.
Gathered ==
  /\ script = SelfHeal => Collected(11, {"o1"}, {"b"})
  /\ script = OfflineCatchUp =>
       Collected(5, {"o1"}, {}) /\ Collected(13, {"o1", "o2", "o3"}, {})
  /\ script = Audit => Collected(5, {"o1", "o2"}, {})
  /\ script = Multiprocess =>
       /\ Collected(7, {"o1", "o2", "p1"}, {"a", "b"})
       /\ Collected(13, {"o1", "o2", "p1"}, {"c"})
  /\ script = CrashRecovery => Collected(10, {"o1", "o2"}, {"c"})
  /\ script = Chaos =>
       /\ pc[1] > 4 => Passed(2, 2)
       /\ Collected(5, {"o1", "p1"}, {"a", "b"})

\* The second handshake brings the edit back.
LEMMA SelfHealDue ==
  ASSUME ScenarioInv, Progress, Links, script = SelfHeal
  PROVE  Due(11, {"o1"}, {"b"})
<1> SUFFICES ASSUME pc[1] = 11
             PROVE  /\ connected["b"] /\ Carried
                    /\ "a" \in Client /\ subscribed["a"] /\ "o1" \in doc["a"]
  BY SelfHealTable DEF Due
<1>1. script \in FailScripts /\ FailTable(script)
  BY SelfHealTable DEF FailScripts
<1>2. \A c \in {"a", "b"} : c \in Client /\ connected[c] /\ subscribed[c]
  BY <1>1, FailJoined
<1>3. "o1" \in doc["a"]
  BY <1>1, EditedAt DEF FailTable
<1>4. Carried
  BY DEF Carried
<1>5. QED
  BY <1>2, <1>3, <1>4

\* What is typed on a socket, and without one until there is one again.
LEMMA OfflineCatchUpDue ==
  ASSUME ScenarioInv, Progress, Links, script = OfflineCatchUp
  PROVE  Due(5, {"o1"}, {}) /\ Due(13, {"o1", "o2", "o3"}, {})
<1>0. Carried /\ "a" \in Client
  BY ScenarioAssumption DEF Carried
<1>1. ASSUME pc[1] = 5 PROVE subscribed["a"] /\ "o1" \in doc["a"]
  <2>1. Uncut(1, 2)
    <3>1. OnlyAt(script, Cuts, {7}) /\ 7 >= pc[1]
      BY <1>1, OfflineCatchUpTable
    <3>2. QED
      BY <3>1, CutElsewhere
  <2>2. QED
    BY <1>0, <1>1, <2>1, OfflineCatchUpTable, JoinedAt, EditedAt
<1>2. ASSUME pc[1] = 13 PROVE subscribed["a"] /\ {"o1", "o2", "o3"} \subseteq doc["a"]
  <2>1. Uncut(1, 11)
    <3>1. OnlyAt(script, Cuts, {7}) /\ 7 < 11
      BY OfflineCatchUpTable
    <3>2. QED
      BY <3>1, CutElsewhere
  <2>2. "o1" \in doc["a"] /\ "o2" \in doc["a"] /\ "o3" \in doc["a"]
    BY <1>2, OfflineCatchUpTable, EditedAt
  <2>3. QED
    BY <1>0, <1>2, <2>1, <2>2, OfflineCatchUpTable, JoinedAt
<1>3. Has(script, 5, Settle) /\ Has(script, 13, Settle)
  BY OfflineCatchUpTable
<1>4. Due(5, {"o1"}, {})
  BY <1>0, <1>1, <1>3 DEF Due
<1>5. Due(13, {"o1", "o2", "o3"}, {})
  BY <1>0, <1>2, <1>3 DEF Due
<1>6. QED
  BY <1>4, <1>5

\* One writer after another.
LEMMA AuditDue ==
  ASSUME ScenarioInv, Progress, Links, script = Audit
  PROVE  Due(5, {"o1", "o2"}, {})
<1>0. Carried /\ "a" \in Client /\ Never(script, Cuts)
  BY ScenarioAssumption, AuditTable DEF Carried, Never
<1>1. ASSUME pc[1] = 5 PROVE subscribed["a"] /\ "o1" \in doc["a"] /\ "o2" \in doc["a"]
  BY <1>0, <1>1, AuditTable, NeverCut, JoinedAt, EditedAt
<1>2. QED
  BY <1>0, <1>1, AuditTable DEF Due

\* Two writers, and one who comes when they are done.
LEMMA MultiprocessDue ==
  ASSUME ScenarioInv, Progress, Links, script = Multiprocess
  PROVE  /\ Due(7, {"o1", "o2", "p1"}, {"a", "b"})
         /\ Due(13, {"o1", "o2", "p1"}, {"c"})
<1>0. Carried /\ {"a", "b", "c"} \subseteq Client /\ Never(script, Cuts)
  BY ScenarioAssumption, MultiprocessTable DEF Carried, Never
<1>1. ASSUME pc[1] >= 7
      PROVE  /\ \A c \in {"a", "b"} : connected[c] /\ subscribed[c]
             /\ "o1" \in doc["a"] /\ "o2" \in doc["a"] /\ "p1" \in doc["b"]
  <2>1. pc[1] \in Nat
    BY FlowPlaced
  <2>2. \A c \in {"a", "b"} : connected[c] /\ subscribed[c]
    BY <1>0, <1>1, <2>1, MultiprocessTable, NeverCut, JoinedAt
  <2>3. "o1" \in doc["a"] /\ "o2" \in doc["a"] /\ "p1" \in doc["b"]
    BY <1>1, <2>1, MultiprocessTable, EditedAt
  <2>4. QED
    BY <2>2, <2>3
<1>2. ASSUME pc[1] = 13 PROVE connected["c"]
  BY <1>0, <1>2, MultiprocessTable, NeverCut, JoinedAt
<1>3. ASSUME pc[1] >= 7, NEW o \in {"o1", "o2", "p1"}
      PROVE  \E c \in Client : subscribed[c] /\ o \in doc[c]
  BY <1>0, <1>1, <1>3
<1>4. pc[1] = 7 \/ pc[1] = 13 => pc[1] >= 7
  OBVIOUS
<1>5. Due(7, {"o1", "o2", "p1"}, {"a", "b"})
  BY <1>0, <1>1, <1>3, <1>4, MultiprocessTable DEF Due
<1>6. Due(13, {"o1", "o2", "p1"}, {"c"})
  BY <1>0, <1>2, <1>3, <1>4, MultiprocessTable DEF Due
<1>7. QED
  BY <1>5, <1>6

\* What is in the log before the kill is there after it.
LEMMA CrashRecoveryDue ==
  ASSUME ScenarioInv, Progress, Links, script = CrashRecovery
  PROVE  Due(10, {"o1", "o2"}, {"c"})
<1> SUFFICES ASSUME pc[1] = 10 PROVE connected["c"] /\ {"o1", "o2"} \subseteq store
  BY CrashRecoveryTable DEF Due
<1>1. Uncut(1, 8)
  <2>1. OnlyAt(script, Cuts, {6}) /\ 6 < 8
    BY CrashRecoveryTable
  <2>2. QED
    BY <2>1, CutElsewhere
<1>2. connected["c"]
  BY <1>1, CrashRecoveryTable, ScenarioAssumption, JoinedAt
<1>3. Passed(1, 5) /\ At(1, 5) = Await("stored", {}, {"o1", "o2"})
  BY FlowPassed, CrashRecoveryTable DEF Has
<1>4. {"o1", "o2"} \subseteq store
  BY <1>3 DEF Progress, Kept, Await, Step
<1>5. QED
  BY <1>2, <1>4

\* The editors have come to their end.
LEMMA ChaosDue ==
  ASSUME ScenarioInv, Progress, Links, script = Chaos, pc[1] > 4 => Passed(2, 2)
  PROVE  Due(5, {"o1", "p1"}, {"a", "b"})
<1>0. Carried /\ {"a", "b"} \subseteq Client /\ Never(script, Cuts)
  BY ScenarioAssumption, ChaosTable DEF Carried, Never
<1>1. ASSUME pc[1] = 5
      PROVE  /\ \A c \in {"a", "b"} : connected[c] /\ subscribed[c]
             /\ "o1" \in doc["a"] /\ "p1" \in doc["b"]
  <2>1. \A c \in {"a", "b"} : connected[c] /\ subscribed[c]
    BY <1>0, <1>1, ChaosTable, NeverCut, JoinedAt
  <2>2. Passed(2, 2) /\ Passed(2, 1)
    BY <1>1, Parts DEF Passed, ScriptTyped, Placed
  <2>3. At(2, 1) = Edits("a", "o1") /\ At(2, 2) = Edits("b", "p1")
    BY ChaosTable DEF At
  <2>4. "o1" \in doc["a"] /\ "p1" \in doc["b"]
    BY <2>2, <2>3 DEF Progress, Kept, Edits, Step
  <2>5. QED
    BY <2>1, <2>4
<1>2. QED
  BY <1>0, <1>1, ChaosTable DEF Due

\* Who waits for the others goes on when they have come to their end.
LEMMA ChaosFinished ==
  ASSUME ScenarioInv, [ScenarioNext]_scenarioVars, script = Chaos,
         pc[1] > 4 => Passed(2, 2)
  PROVE  pc'[1] > 4 => Passed(2, 2)'
<1>1. CASE pc[1] > 4
  BY <1>1, PassedStays
<1>2. CASE ~(pc[1] > 4)
  <2> SUFFICES ASSUME pc'[1] > 4 PROVE Passed(2, 2)
    BY PassedStays
  <2>1. pc[1] = 4 /\ ScriptStep(1) /\ Current(1) = script.threads[1][4]
    BY <1>2, FlowFrom, FlowPlaced
  <2>2. Current(1) = Await("finished", {}, {})
    BY <2>1, ChaosTable DEF Has
  <2>3. Current(1).do = "await" /\ Current(1).fact = "finished"
    BY <2>2 DEF Await, Step
  <2>4. FactHolds(1, Current(1))
    BY <2>1, <2>3, AwaitStep
  <2>5. Done(2)
    BY <2>3, <2>4, FinishedFact DEF Thread
  <2>6. 2 \in DOMAIN script.threads /\ Len(script.threads[2]) = 2
    BY ChaosTable
  <2>7. pc[2] > 2 /\ 2 \in DOMAIN pc /\ pc[2] \in Nat
    <3>1. Placed
      BY Parts DEF ScriptTyped
    <3>2. QED
      BY <2>5, <2>6, <3>1, FlowPlaced DEF Done, Placed
  <2>8. QED
    BY <2>7 DEF Passed
<1>3. QED
  BY <1>1, <1>2

\* The scripts that settle, step by step.
LEMMA GatheredStep ==
  ASSUME ScenarioInv, Journey, Heard, Progress, Links, Debts, [ScenarioNext]_scenarioVars,
         Gathered
  PROVE  Gathered'
<1>0. {"a", "b", "c"} \subseteq Client /\ script' = script
  BY ScenarioAssumption, Grows
<1>1. script = SelfHeal => Collected(11, {"o1"}, {"b"})'
  BY <1>0, SelfHealDue, Collects DEF Gathered
<1>2. script = OfflineCatchUp =>
        Collected(5, {"o1"}, {})' /\ Collected(13, {"o1", "o2", "o3"}, {})'
  BY OfflineCatchUpDue, Collects DEF Gathered
<1>3. script = Audit => Collected(5, {"o1", "o2"}, {})'
  BY AuditDue, Collects DEF Gathered
<1>4. script = Multiprocess =>
        /\ Collected(7, {"o1", "o2", "p1"}, {"a", "b"})'
        /\ Collected(13, {"o1", "o2", "p1"}, {"c"})'
  BY <1>0, MultiprocessDue, Collects DEF Gathered
<1>5. script = CrashRecovery => Collected(10, {"o1", "o2"}, {"c"})'
  BY <1>0, CrashRecoveryDue, Collects DEF Gathered
<1>6. script = Chaos =>
        /\ pc'[1] > 4 => Passed(2, 2)'
        /\ Collected(5, {"o1", "p1"}, {"a", "b"})'
  BY <1>0, ChaosDue, ChaosFinished, Collects DEF Gathered
<1>7. QED
  BY <1>0, <1>1, <1>2, <1>3, <1>4, <1>5, <1>6 DEF Gathered

\* The scripts begin before all that.
LEMMA GatheredInit == ScenarioInit => Gathered
<1> SUFFICES ASSUME ScenarioInit PROVE Gathered
  OBVIOUS
<1>1. pc[1] = 1
  BY FirstThread DEF ScenarioInit
<1>2. QED
  BY <1>1 DEF Gathered, Collected

-----------------------------------------------------------------------------
(* The outage: a frame that the network drops stays in its sender's queue. *)

\* An update leaves a queue by an ack, and comes to it by an edit.
LEMMA PendingFrom ==
  ASSUME ScenarioInv, [ScenarioNext]_scenarioVars, NEW c \in Client
  PROVE  /\ \A p \in pending[c] :
              p \in pending'[c] \/ \E f \in down[c] : f.kind = "ack" /\ p.seq =< f.id
         /\ pending'[c] \subseteq pending[c] \/ \E t \in Thread : ScriptStep(t) /\ EditStep(t)
<1> DEFINE Kept1 == \A p \in pending[c] :
                      p \in pending'[c] \/ \E f \in down[c] : f.kind = "ack" /\ p.seq =< f.id
           Less == pending'[c] \subseteq pending[c]
<1>a. UNCHANGED pending => Kept1 /\ Less
  OBVIOUS
<1>b. RSTypeOK /\ down \in [Client -> SUBSET Frame]
  BY Parts DEF QueuesOK, CableTyped
<1>1. ASSUME NEW t \in Thread, ScriptStep(t), EditStep(t) PROVE Kept1
  <2>1. Ready(t)
    BY <1>1 DEF ScriptStep
  <2>2. PICK d \in Client, o \in Op : Type(d, o)
    BY <1>1, <2>1, EditEffect
  <2>3. profile.queue \in {"none", "each", "tail"}
    BY Parts, ScriptsWellMade DEF ScriptTyped, WellMade, profile
  <2>4. CASE profile.queue = "none"
    BY <1>a, <2>2, <2>4 DEF Type, rsVars
  <2>5. CASE profile.queue = "each"
    <3>1. pending' = [pending EXCEPT ![d] = @ \cup {[seq |-> nextSeq[d], update |-> {o}]}]
      BY <2>2, <2>5 DEF Type
    <3>2. QED
      BY <1>b, <3>1 DEF RSTypeOK
  <2>6. CASE profile.queue = "tail"
    <3>1. pending' = [pending EXCEPT ![d] = @ \cup {[seq |-> nextSeq[d], update |-> {o}]}]
      <4>1. Enqueue(d, {o})
        BY <2>2, <2>6 DEF Type
      <4>2. QED
        BY <1>b, <4>1 DEF Enqueue, RSTypeOK
    <3>2. QED
      BY <1>b, <3>1 DEF RSTypeOK
  <2>7. QED
    BY <2>3, <2>4, <2>5, <2>6
<1>2. ASSUME NEW t \in Thread, ScriptStep(t), ~EditStep(t) PROVE UNCHANGED pending
  BY <1>2 DEF ScriptStep, OpenSockets, Close, Kill, Drop, Rejoin, SendOutOfTurn,
     Switch, Fork, GoOn, sessionVars, rsVars
<1>3. ASSUME NEW d, Join(d) \/ Confirmed(d) PROVE UNCHANGED pending
  BY <1>3 DEF Join, Confirmed, SessionOnConnect, OnConnect, sessionVars, rsVars
<1>4. ASSUME NEW d \in Client, ResendTick(d) PROVE UNCHANGED pending
  <2>1. profile.queue \in {"none", "each", "tail"}
    BY Parts, ScriptsWellMade DEF ScriptTyped, WellMade, profile
  <2>2. CASE profile.queue = "none"
    BY <1>4, <2>2, Parts DEF ResendTick, Resend, Queueless
  <2>3. CASE profile.queue = "each"
    BY <1>4, <2>3 DEF ResendTick, Resend, rsVars
  <2>4. CASE profile.queue = "tail"
    BY <1>4, <2>4 DEF ResendTick, Resend, OnTick
  <2>5. QED
    BY <2>1, <2>2, <2>3, <2>4
<1>5. ASSUME NEW d \in Client, NEW f \in down[d], Taking(d, f) PROVE Kept1 /\ Less
  <2>1. CASE ReceiveAck(d, f)
    <3>1. f.kind = "ack" /\ OnAck(d, f.id)
      BY <2>1 DEF ReceiveAck
    <3>2. UNCHANGED pending \/ pending' = [pending EXCEPT ![d] = {p \in @ : p.seq > f.id}]
      BY <1>b, <3>1 DEF OnAck, RSTypeOK, rsVars
    <3>3. f.id \in Nat /\ \A p \in pending[c] : p.seq \in Nat
      BY <1>b DEF RSTypeOK, Entry, Frame
    <3>4. \A p \in pending[c] : p.seq > f.id \/ p.seq =< f.id
      BY <3>3
    <3>5. QED
      BY <1>a, <1>b, <3>1, <3>2, <3>4 DEF RSTypeOK
  <2>2. CASE ReceiveOneAck(d, f)
    <3>1. f.kind = "ack" /\ pending' = [pending EXCEPT ![d] = {p \in @ : p.seq # f.id}]
      BY <2>2 DEF ReceiveOneAck
    <3>2. f.id \in Nat
      BY <1>b DEF Frame
    <3>3. \A p \in pending[c] : p.seq # f.id \/ p.seq =< f.id
      BY <3>2
    <3>4. QED
      BY <1>b, <3>1, <3>3 DEF RSTypeOK
  <2>3. CASE ~ReceiveAck(d, f) /\ ~ReceiveOneAck(d, f)
    BY <1>5, <2>3 DEF Taking, ReceiveStep1, ReceiveContent, ReceiveInVain, rsVars
  <2>4. QED
    BY <2>1, <2>2, <2>3
<1>6. ASSUME NEW e \in up, Handling(e) PROVE UNCHANGED pending
  BY <1>6 DEF Handling, sessionVars, rsVars
<1>7. ASSUME NEW j \in jobs, Working(j) PROVE UNCHANGED pending
  BY <1>7 DEF Working, sessionVars, rsVars
<1>8. UNCHANGED scenarioVars => UNCHANGED pending
  BY DEF scenarioVars, sessionVars, rsVars
<1>9. Kept1
  BY StepKinds, <1>a, <1>1, <1>2, <1>3, <1>4, <1>5, <1>6, <1>7, <1>8 DEF Move
<1>10. Less \/ \E t \in Thread : ScriptStep(t) /\ EditStep(t)
  BY StepKinds, <1>a, <1>2, <1>3, <1>4, <1>5, <1>6, <1>7, <1>8 DEF Move
<1>11. QED
  BY <1>9, <1>10

\* In an outage an edit is queued and goes no further.
LEMMA TypedInOutage ==
  ASSUME ScenarioInv, NEW c \in Client, NEW o, Type(c, o), network[c] = "black",
         "update" \in profile.loses, profile.queue \in {"each", "tail"}
  PROVE  up' = up /\ pending'[c] # {}
<1>1. Carriage(c, "update") = {FALSE}
  BY DEF Carriage
<1>2. RSTypeOK
  BY Parts DEF QueuesOK
<1>3. CASE profile.queue = "each"
  <2>1. /\ up' = up \cup Outgoing(c, FALSE, {Update({o}, nextSeq[c])})
        /\ pending' = [pending EXCEPT ![c] = @ \cup {[seq |-> nextSeq[c], update |-> {o}]}]
    BY <1>1, <1>3 DEF Type
  <2>2. QED
    BY <1>2, <2>1 DEF Outgoing, RSTypeOK
<1>4. CASE profile.queue = "tail"
  <2>1. Enqueue(c, {o}) /\ up' = up \cup Outgoing(c, FALSE, UpdateFrames(c)')
    BY <1>1, <1>4 DEF Type
  <2>2. pending' = [pending EXCEPT ![c] = @ \cup {[seq |-> nextSeq[c], update |-> {o}]}]
    BY <2>1 DEF Enqueue
  <2>3. Outgoing(c, FALSE, UpdateFrames(c)') = {}
    BY DEF Outgoing
  <2>4. QED
    BY <1>2, <2>1, <2>2, <2>3 DEF RSTypeOK
<1>5. QED
  BY <1>3, <1>4

\* Nor does a retransmit.
LEMMA ResentInOutage ==
  ASSUME NEW c, Resend(c), network[c] = "black",
         "update" \in profile.loses, profile.queue \in {"each", "tail"}
  PROVE  up' = up
<1>1. Carriage(c, "update") = {FALSE}
  BY DEF Carriage
<1>2. CASE profile.queue = "each"
  BY <1>1, <1>2 DEF Resend, Outgoing
<1>3. CASE profile.queue = "tail"
  <2>1. up' = up \cup Outgoing(c, FALSE, UpdateFrames(c)')
    BY <1>1, <1>3 DEF Resend
  <2>2. Outgoing(c, FALSE, UpdateFrames(c)') = {}
    BY DEF Outgoing
  <2>3. QED
    BY <2>1, <2>2
<1>4. QED
  BY <1>2, <1>3

\* What a step waits for or expects, one kind at a time.
LEMMA Facts ==
  ASSUME NEW t, NEW s
  PROVE  /\ s.fact = "synced" /\ FactHolds(t, s) => \A c \in s.cs : synced[c]
         /\ s.fact = "drained" /\ FactHolds(t, s) => \A c \in s.cs : pending[c] = {}
         /\ s.fact = "has" /\ (\A c \in s.cs : s.ops \subseteq doc[c]) => FactHolds(t, s)
         /\ s.fact = "lacks" /\ (\A c \in s.cs : s.ops \cap doc[c] = {}) => FactHolds(t, s)
         /\ s.fact = "stored" /\ s.ops \subseteq store => FactHolds(t, s)
         /\ s.fact = "unstored" /\ s.ops \cap store = {} => FactHolds(t, s)
         /\ s.fact = "pending" /\ (\A c \in s.cs : pending[c] # {}) => FactHolds(t, s)
         /\ s.fact = "equal" /\ (\A c, d \in s.cs : doc[c] = doc[d]) => FactHolds(t, s)
         /\ s.fact = "replays" /\ (\A c \in s.cs : doc[c] = store) => FactHolds(t, s)
<1>1. s.fact = "synced" /\ FactHolds(t, s) => \A c \in s.cs : synced[c]
  BY Zenon DEF FactHolds
<1>2. s.fact = "drained" /\ FactHolds(t, s) => \A c \in s.cs : pending[c] = {}
  BY Zenon DEF FactHolds
<1>3. s.fact = "has" /\ (\A c \in s.cs : s.ops \subseteq doc[c]) => FactHolds(t, s)
  BY Zenon DEF FactHolds
<1>4. s.fact = "lacks" /\ (\A c \in s.cs : s.ops \cap doc[c] = {}) => FactHolds(t, s)
  BY Zenon DEF FactHolds
<1>5. s.fact = "stored" /\ s.ops \subseteq store => FactHolds(t, s)
  BY Zenon DEF FactHolds
<1>6. s.fact = "unstored" /\ s.ops \cap store = {} => FactHolds(t, s)
  BY Zenon DEF FactHolds
<1>7. s.fact = "pending" /\ (\A c \in s.cs : pending[c] # {}) => FactHolds(t, s)
  BY Zenon DEF FactHolds
<1>8. s.fact = "equal" /\ (\A c, d \in s.cs : doc[c] = doc[d]) => FactHolds(t, s)
  BY Zenon DEF FactHolds
<1>9. s.fact = "replays" /\ (\A c \in s.cs : doc[c] = store) => FactHolds(t, s)
  BY Zenon DEF FactHolds
<1>10. QED
  BY <1>1, <1>2, <1>3, <1>4, <1>5, <1>6, <1>7, <1>8, <1>9

\* The provider's clients have met when the script has seen them synced.
Met == script = ReliableProvider /\ pc[1] > 2 => connected["a"] /\ connected["b"]

\* They stay so: this script cuts no socket.
LEMMA MetStep ==
  ASSUME ScenarioInv, Journey, Progress, Shaken, Met, [ScenarioNext]_scenarioVars
  PROVE  Met'
<1> SUFFICES ASSUME script = ReliableProvider, pc'[1] > 2
             PROVE  connected'["a"] /\ connected'["b"]
  BY Grows DEF Met
<1>0. "a" \in Client /\ "b" \in Client /\ Never(script, Cuts \cup Hailing)
  BY ScenarioAssumption, ReliableProviderTable DEF BlackTable
<1>1. CASE pc[1] > 2
  <2>1. connected["a"] /\ connected["b"]
    BY <1>1 DEF Met
  <2>2. ASSUME NEW t \in Thread, ScriptStep(t) PROVE ~AtStep(t, Cuts)
    BY <1>0, <2>2, NeverAt DEF ScriptStep, AtStep
  <2>3. \A c \in {"a", "b"} : connected[c] => connected'[c]
    BY <1>0, <2>2, SocketFrom
  <2>4. QED
    BY <2>1, <2>3
<1>2. CASE ~(pc[1] > 2)
  <2>1. pc[1] = 2 /\ ScriptStep(1) /\ Current(1) = script.threads[1][2]
    BY <1>2, FlowFrom, FlowPlaced
  <2>2. Current(1) = Await("synced", {"a", "b"}, {})
    BY <2>1, ReliableProviderTable DEF Has
  <2>3. Current(1).do = "await" /\ Current(1).fact = "synced" /\ Current(1).cs = {"a", "b"}
    BY <2>2 DEF Await, Step
  <2>4. FactHolds(1, Current(1)) /\ UNCHANGED sessionVars
    BY <2>1, <2>3, AwaitStep
  <2>5. \A c \in {"a", "b"} : synced[c]
    BY <2>3, <2>4, Facts
  <2>6. Made = {}
    BY <2>1, ReliableProviderTable, Unmade
  <2>7. profile.queue = "tail"
    BY DEF profile, ReliableProvider, Script, RawConsumer, Profile
  <2>8. \A c \in {"a", "b"} : connected[c]
    BY <1>0, <2>5, <2>6, <2>7 DEF Shaken
  <2>9. QED
    BY <2>4, <2>8 DEF sessionVars, rsVars
<1>3. QED
  BY <1>1, <1>2

\* Script s, drained at its step drained, loses the network of "a" at its step
\* black, and types o2 then.
Outage(s, drained, black) ==
  script = s =>
    /\ opened \subseteq {"a", "b"}
    /\ \A c \in Client : c # "a" => pending[c] = {}
    /\ pc[1] \in drained + 1 .. black + 1 => pending["a"] = {}
    /\ pc[1] \in black .. black + 4 => Still
    /\ pc[1] \in black + 1 .. black + 4 => network["a"] = "black"
    /\ pc[1] \in black + 2 .. black + 4 => pending["a"] # {} /\ "o2" \notin store

\* A script of this kind, which edits at its step first and then only in the outage.
OutageTable(s, first, drained, black) ==
  /\ BlackTable(s, drained, black) /\ OnlyAt(s, {"edit"}, {first, black + 1})
  /\ Edited(s, {"o1", "o2"})

\* The clients that lose the network have a queue.
LEMMA OutageParts ==
  ASSUME script \in {Reliable, ReliableProvider}
  PROVE  profile.queue \in {"each", "tail"} /\ "update" \in profile.loses
<1>1. Reliable.profile.queue = "each" /\ "update" \in Reliable.profile.loses
  BY DEF Reliable, Script, ReliableClient, Profile
<1>2. /\ ReliableProvider.profile.queue = "tail"
      /\ "update" \in ReliableProvider.profile.loses
  BY DEF ReliableProvider, Script, RawConsumer, Profile, Everything
<1>3. QED
  BY <1>1, <1>2 DEF profile

\* While a settled script has nobody else to connect and nothing to retransmit, or
\* no network to do it on, the dust stays where it is.
LEMMA StillMoves ==
  ASSUME ScenarioInv, Links, Still, Move, opened \subseteq {"a", "b"},
         connected["a"], connected["b"], \A c \in Client : c # "a" => pending[c] = {},
         pending["a"] = {} \/ network["a"] = "black",
         script \in {Reliable, ReliableProvider}
  PROVE  Still'
<1>0. profile.queue \in {"each", "tail"} /\ "update" \in profile.loses
  BY OutageParts
<1>1. ASSUME NEW c \in Client, Join(c) PROVE FALSE
  <2>1. c \in {"a", "b"} /\ ~subscribed[c]
    BY <1>1 DEF Join, SyncSubscribed
  <2>2. QED
    BY <1>1, <2>1 DEF Links
<1>2. ASSUME NEW c \in Client, Confirmed(c) PROVE FALSE
  <2>1. c \in opened /\ ~connected[c]
    BY <1>2 DEF Confirmed, Links
  <2>2. QED
    BY <2>1
<1>3. ASSUME NEW c \in Client, ResendTick(c) PROVE Still'
  <2>1. Resend(c) /\ UNCHANGED jobs
    BY <1>3 DEF ResendTick, channelVars
  <2>2. pending[c] # {} /\ UNCHANGED down
    BY <2>1 DEF Resend
  <2>3. c = "a" /\ network[c] = "black"
    BY <2>2
  <2>4. up' = up
    BY <1>0, <2>1, <2>3, ResentInOutage
  <2>5. QED
    BY <2>1, <2>2, <2>4 DEF Still
<1>4. ASSUME NEW c \in Client, NEW f \in down[c] PROVE FALSE
  BY <1>4 DEF Still
<1>5. up = {} /\ jobs = {}
  BY DEF Still
<1>6. QED
  BY <1>1, <1>2, <1>3, <1>4, <1>5 DEF Move

\* Nor does the script stir it, with an edit that the network drops.
LEMMA StillScript ==
  ASSUME ScenarioInv, Still, NEW t \in Thread, ScriptStep(t), Never(script, Cuts \cup Hailing),
         EditStep(t) => Current(t).cs = {"a"} /\ network["a"] = "black",
         script \in {Reliable, ReliableProvider}
  PROVE  Still' /\ (EditStep(t) => pending'["a"] # {})
<1>0. Ready(t) /\ profile.queue \in {"each", "tail"} /\ "update" \in profile.loses
  BY OutageParts DEF ScriptStep
<1>1. ~AtStep(t, Cuts \cup Hailing)
  BY <1>0, NeverAt
<1>2. CASE EditStep(t)
  <2>1. PICK c \in Client, o \in Op :
         /\ EditOf(Current(t), c, o) /\ Type(c, o)
         /\ UNCHANGED <<parked, synced, down, channelVars>>
    BY <1>0, <1>2, EditEffect
  <2>2. c = "a" /\ network[c] = "black"
    BY <1>2, <2>1 DEF EditOf
  <2>3. up' = up /\ pending'["a"] # {}
    BY <1>0, <2>1, <2>2, TypedInOutage
  <2>4. QED
    BY <2>1, <2>3 DEF Still, channelVars
<1>3. CASE ~EditStep(t)
  <2>1. Quiet
    BY <1>1, <1>3, ScriptKinds DEF AtStep, Cuts, Hailing
  <2>2. QED
    BY <1>3, <2>1 DEF Quiet, Still, channelVars
<1>4. QED
  BY <1>2, <1>3

\* The outage, step by step.
LEMMA OutageStep ==
  ASSUME ScenarioInv, Journey, Heard, Links, [ScenarioNext]_scenarioVars,
         NEW s \in {Reliable, ReliableProvider}, NEW first \in {3, 5},
         NEW drained \in {5, 6}, NEW black \in {7, 9}, first < drained, drained < black,
         OutageTable(s, first, drained, black), Outage(s, drained, black),
         script = s /\ pc[1] >= black => connected["a"] /\ connected["b"]
  PROVE  Outage(s, drained, black)'
<1> SUFFICES ASSUME script = s
             PROVE  /\ opened' \subseteq {"a", "b"}
                    /\ \A c \in Client : c # "a" => pending'[c] = {}
                    /\ pc'[1] \in drained + 1 .. black + 1 => pending'["a"] = {}
                    /\ pc'[1] \in black .. black + 4 => Still'
                    /\ pc'[1] \in black + 1 .. black + 4 => network'["a"] = "black"
                    /\ pc'[1] \in black + 2 .. black + 4 =>
                         pending'["a"] # {} /\ "o2" \notin store'
  BY Grows DEF Outage
<1>0. /\ OutageTable(script, first, drained, black) /\ pc[1] \in Nat
      /\ Single(script) /\ Never(script, Cuts \cup Hailing) /\ "a" \in Client
      /\ OnlyAt(script, {"edit"}, {first, black + 1})
  BY FlowPlaced, ScenarioAssumption DEF OutageTable, BlackTable
<1>a. ASSUME NEW t \in Thread, ScriptStep(t)
      PROVE  t = 1 /\ pc'[1] = pc[1] + 1 /\ Current(1) = script.threads[1][pc[1]]
  BY <1>0, <1>a, OnlyFirst, FlowFrom
<1>b. ASSUME NEW t \in Thread, ScriptStep(t), EditStep(t) PROVE pc[1] \in {first, black + 1}
  BY <1>0, <1>a, <1>b, FlowAt DEF EditStep
<1>c. ASSUME pc[1] = black + 1, ScriptStep(1)
      PROVE  Current(1) = Edits("a", "o2") /\ EditStep(1)
  <2>1. Current(1) = Edits("a", "o2")
    BY <1>0, <1>a, <1>c DEF OutageTable, BlackTable, Has, Thread
  <2>2. Current(1).do = "edit"
    BY <2>1 DEF Edits, Step
  <2>3. QED
    BY <1>c, <2>1, <2>2 DEF ScriptStep, AtStep, OpenSockets, Close, Kill, Rejoin,
       SendOutOfTurn, Switch, Fork, GoOn
<1>1. opened' \subseteq {"a", "b"}
  <2>1. opened \subseteq {"a", "b"}
    BY DEF Outage
  <2>2. ASSUME NEW t \in Thread, ScriptStep(t) PROVE opened' \subseteq {"a", "b"}
    <3>1. Current(t).do = "open" => Current(t).cs \subseteq {"a", "b"}
      BY <1>0, <1>a, <2>2, FlowFrom DEF OutageTable, BlackTable
    <3>2. QED
      BY <2>1, <2>2, <3>1, ScriptEffects
  <2>3. QED
    BY <2>1, <2>2, StepKinds, MoveRests DEF scenarioVars, scriptVars
<1>2. ASSUME NEW c \in Client, c # "a" PROVE pending'[c] = {}
  <2>1. pending[c] = {}
    BY <1>2 DEF Outage
  <2>2. Typed(c) \subseteq {"o1", "o2"} \cap Authored(c)
    BY <1>0, TypedFrom DEF OutageTable
  <2>3. Typed(c) = {}
    BY <1>2, <2>2 DEF Authored
  <2>4. QED
    BY <2>1, <2>3, QueueFrom DEF Types
<1>3. ASSUME pc'[1] \in drained + 1 .. black + 1 PROVE pending'["a"] = {}
  <2>1. CASE pc[1] = drained
    <3>1. ScriptStep(1) /\ Current(1) = script.threads[1][drained]
      BY <1>3, <2>1, FlowFrom
    <3>2. Current(1) = Await("drained", {"a"}, {})
      BY <1>0, <3>1 DEF OutageTable, BlackTable, Has
    <3>3. Current(1).do = "await" /\ Current(1).fact = "drained" /\ Current(1).cs = {"a"}
      BY <3>2 DEF Await, Step
    <3>4. FactHolds(1, Current(1)) /\ UNCHANGED sessionVars
      BY <3>1, <3>3, AwaitStep
    <3>5. pending["a"] = {}
      BY <3>3, <3>4, Facts
    <3>6. QED
      BY <3>4, <3>5 DEF sessionVars, rsVars
  <2>2. CASE pc[1] # drained
    <3>1. pc[1] \in drained + 1 .. black + 1
      BY <1>0, <1>3, <2>2, FlowFrom
    <3>2. pending["a"] = {}
      BY <3>1 DEF Outage
    <3>3. ASSUME NEW t \in Thread, ScriptStep(t), EditStep(t) PROVE FALSE
      BY <1>a, <1>b, <1>3, <3>1, <3>3
    <3>4. QED
      BY <1>0, <3>2, <3>3, PendingFrom
  <2>3. QED
    BY <2>1, <2>2
<1>4. ASSUME pc'[1] \in black + 1 .. black + 4 PROVE network'["a"] = "black"
  <2>1. CASE pc[1] = black
    <3>1. ScriptStep(1) /\ Current(1) = script.threads[1][black]
      BY <1>4, <2>1, FlowFrom
    <3>2. Current(1) = Go("black", {"a"})
      BY <1>0, <3>1 DEF OutageTable, BlackTable, Has
    <3>3. Current(1).do = "black" /\ Current(1).cs = {"a"}
      BY <3>2 DEF Go, Step
    <3>4. QED
      BY <1>0, <3>1, <3>3, ScriptEffects
  <2>2. CASE pc[1] # black
    <3>1. pc[1] \in black + 1 .. black + 4
      BY <1>0, <1>4, <2>2, FlowFrom
    <3>2. network["a"] = "black"
      BY <3>1 DEF Outage
    <3>3. ASSUME NEW t \in Thread, ScriptStep(t) PROVE network'["a"] = "black"
      <4>1. t = 1 /\ pc[1] # black /\ pc[1] # black + 4
        BY <1>a, <1>4, <3>1, <3>3
      <4>2. OnlyAt(script, {"black", "lossy"}, {black}) /\ OnlyAt(script, {"clean"}, {black + 4})
        BY <1>0 DEF OutageTable, BlackTable
      <4>3. Current(t).do \notin {"black", "lossy"}
        BY <3>3, <4>1, <4>2, FlowAt DEF AtStep
      <4>4. Current(t).do # "clean"
        BY <3>3, <4>1, <4>2, FlowAt DEF AtStep
      <4>5. QED
        BY <1>0, <3>2, <3>3, <4>3, <4>4, ScriptEffects
    <3>4. QED
      BY <3>2, <3>3, StepKinds, MoveRests DEF scenarioVars, scriptVars
  <2>3. QED
    BY <2>1, <2>2
<1>5. ASSUME pc'[1] \in black .. black + 4, pc[1] \in black .. black + 4
      PROVE  Still' /\ (pc[1] = black + 1 /\ ScriptStep(1) => pending'["a"] # {})
  <2>1. /\ Still /\ opened \subseteq {"a", "b"} /\ connected["a"] /\ connected["b"]
        /\ \A c \in Client : c # "a" => pending[c] = {}
    BY <1>5 DEF Outage
  <2>2. pending["a"] = {} \/ network["a"] = "black"
    <3>1. pc[1] = black \/ pc[1] \in black + 1 .. black + 4
      BY <1>5
    <3>2. pc[1] = black => pc[1] \in drained + 1 .. black + 1
      OBVIOUS
    <3>3. QED
      BY <3>1, <3>2 DEF Outage
  <2>3. ASSUME NEW t \in Thread, ScriptStep(t)
        PROVE  Still' /\ (pc[1] = black + 1 => pending'["a"] # {})
    <3>1. t = 1
      BY <1>a, <2>3
    <3>2. ASSUME EditStep(t) PROVE Current(t).cs = {"a"} /\ network["a"] = "black"
      <4>1. pc[1] = black + 1
        BY <1>b, <1>5, <2>3, <3>2
      <4>2. network["a"] = "black"
        BY <4>1 DEF Outage
      <4>3. Current(1) = Edits("a", "o2")
        BY <1>c, <2>3, <3>1, <4>1
      <4>4. QED
        BY <3>1, <4>2, <4>3 DEF Edits, Step
    <3>3. Still' /\ (EditStep(t) => pending'["a"] # {})
      BY <1>0, <2>1, <2>3, <3>2, StillScript
    <3>4. QED
      BY <1>c, <2>3, <3>1, <3>3
  <2>4. Move => Still'
    BY <2>1, <2>2, StillMoves
  <2>5. UNCHANGED scenarioVars => Still'
    BY <2>1 DEF Still, scenarioVars, channelVars
  <2>6. QED
    BY <2>3, <2>4, <2>5, StepKinds DEF Thread
<1>6. ASSUME pc'[1] \in black .. black + 4 PROVE Still'
  <2>1. CASE pc[1] \in black .. black + 4
    BY <1>5, <1>6, <2>1
  <2>2. CASE pc[1] \notin black .. black + 4
    <3>1. pc[1] = black - 1 /\ pc'[1] # black - 1 /\ black - 1 \in Nat
      BY <1>0, <1>6, <2>2, FlowFrom
    <3>2. Still /\ UNCHANGED <<channelVars, up, down>>
      BY <1>0, <3>1, SettleFlow DEF OutageTable, BlackTable
    <3>3. QED
      BY <3>2 DEF Still, channelVars
  <2>3. QED
    BY <2>1, <2>2
<1>7. ASSUME pc'[1] \in black + 2 .. black + 4
      PROVE  pending'["a"] # {} /\ "o2" \notin store'
  <2>1. pc[1] \in black + 1 .. black + 4 /\ pc'[1] \in black .. black + 4
    BY <1>0, <1>7, FlowFrom
  <2>2. Still /\ connected["a"]
    BY <2>1 DEF Outage
  <2>3. store' = store
    BY <2>2, StoreFrom DEF Still
  <2>4. CASE pc[1] = black + 1
    <3>1. ScriptStep(1)
      BY <1>7, <2>4, FlowFrom
    <3>2. pending'["a"] # {}
      BY <1>5, <2>1, <2>4, <3>1
    <3>3. Current(1) = Edits("a", "o2") /\ EditStep(1) /\ Ready(1)
      BY <1>c, <2>4, <3>1 DEF ScriptStep
    <3>4. PICK c \in Client, o \in Op : EditOf(Current(1), c, o) /\ Types(c, o)
      BY <3>3, EditEffect
    <3>5. c = "a" /\ o = "o2"
      BY <3>3, <3>4 DEF EditOf, Edits, Step
    <3>6. "o2" \notin doc["a"]
      BY <3>4, <3>5 DEF Types
    <3>7. store \subseteq doc["a"]
      BY <1>0, <2>2, StillHeard
    <3>8. QED
      BY <2>3, <3>2, <3>6, <3>7
  <2>5. CASE pc[1] # black + 1
    <3>1. pc[1] \in black + 2 .. black + 4
      BY <1>0, <2>1, <2>5
    <3>2. pending["a"] # {} /\ "o2" \notin store
      BY <3>1 DEF Outage
    <3>3. down["a"] = {}
      BY <1>0, <2>2 DEF Still
    <3>4. \A p \in pending["a"] : p \in pending'["a"]
      BY <1>0, <3>3, PendingFrom
    <3>5. QED
      BY <2>3, <3>2, <3>4
  <2>6. QED
    BY <2>4, <2>5
<1>8. QED
  BY <1>1, <1>2, <1>3, <1>4, <1>6, <1>7

Outages == Outage(Reliable, 6, 9) /\ Outage(ReliableProvider, 5, 7)

\* The scripts with an outage are of this kind.
LEMMA OutageTables ==
  OutageTable(Reliable, 5, 6, 9) /\ OutageTable(ReliableProvider, 3, 5, 7)
<1>1. 9 + 1 = 10 /\ 7 + 1 = 8
  OBVIOUS
<1>2. OutageTable(Reliable, 5, 6, 9)
  BY <1>1, ReliableTable, ScriptEdits DEF OutageTable
<1>3. OutageTable(ReliableProvider, 3, 5, 7)
  BY <1>1, ReliableProviderTable, ScriptEdits DEF OutageTable
<1>4. QED
  BY <1>2, <1>3

\* Both of them, step by step.
LEMMA OutagesStep ==
  ASSUME ScenarioInv, Journey, Heard, Progress, Links, Met, [ScenarioNext]_scenarioVars,
         Outages
  PROVE  Outages'
<1>0. "a" \in Client /\ "b" \in Client
  BY ScenarioAssumption
<1>1. ASSUME script = Reliable, pc[1] >= 9 PROVE connected["a"] /\ connected["b"]
  <2>1. Never(script, Cuts)
    BY <1>1, ReliableTable DEF BlackTable, Never
  <2>2. pc[1] > 2 /\ pc[1] > 4
    BY <1>1, FlowPlaced
  <2>3. connected["a"]
    BY <1>0, <1>1, <2>1, <2>2, ReliableTable, NeverCut, JoinedAt
  <2>4. connected["b"]
    BY <1>0, <1>1, <2>1, <2>2, ReliableTable, NeverCut, JoinedAt
  <2>5. QED
    BY <2>3, <2>4
<1>2. ASSUME script = ReliableProvider, pc[1] >= 7 PROVE connected["a"] /\ connected["b"]
  BY <1>2, FlowPlaced DEF Met
<1>3. Outage(Reliable, 6, 9)'
  BY <1>1, OutageTables, OutageStep DEF Outages
<1>4. Outage(ReliableProvider, 5, 7)'
  BY <1>2, OutageTables, OutageStep DEF Outages
<1>5. QED
  BY <1>3, <1>4 DEF Outages

\* The scripts begin before it.
LEMMA OutagesInit == ScenarioInit => Met /\ Outages
<1> SUFFICES ASSUME ScenarioInit PROVE Met /\ Outages
  OBVIOUS
<1>1. /\ pc[1] = 1 /\ opened = {}
      /\ \A c \in Client : pending[c] = {}
  BY FirstThread DEF ScenarioInit, SessionInit, RSInit
<1>2. "a" \in Client
  BY ScenarioAssumption
<1>3. ASSUME NEW s, NEW drained \in {5, 6}, NEW black \in {7, 9} PROVE Outage(s, drained, black)
  BY <1>1, <1>2, <1>3 DEF Outage
<1>4. QED
  BY <1>1, <1>3 DEF Met, Outages

-----------------------------------------------------------------------------
(* The tail: with the provider's queue, whatever a client shows is stored or*)
(* still pending, since an ack comes back only for what its frame brought. *)

\* The steps of the provider's scripts call its queue, one method at most.
LEMMA QueueCalls ==
  ASSUME ScenarioInv, [ScenarioNext]_scenarioVars, profile.queue = "tail"
  PROVE  \/ UNCHANGED rsVars
         \/ \E c \in Client : \E o \in Op : Enqueue(c, {o})
         \/ \E c \in Client : OnConnect(c) \/ OnTick(c)
         \/ \E c \in Client : \E f \in down[c] : OnAck(c, f.id)
<1> DEFINE Calls == \/ UNCHANGED rsVars
                    \/ \E c \in Client : \E o \in Op : Enqueue(c, {o})
                    \/ \E c \in Client : OnConnect(c) \/ OnTick(c)
                    \/ \E c \in Client : \E f \in down[c] : OnAck(c, f.id)
<1>0. Never(script, Cuts \cup Hailing) /\ profile.queue # "each" /\ profile.queue # "none"
  BY TailScripts, Parts DEF ScriptTyped
<1>1. ASSUME NEW t \in Thread, ScriptStep(t) PROVE Calls
  <2>1. Ready(t) /\ ~AtStep(t, Cuts \cup Hailing)
    BY <1>0, <1>1, NeverAt DEF ScriptStep
  <2>2. CASE EditStep(t)
    <3>1. PICK c \in Client, o \in Op : Type(c, o)
      BY <2>1, <2>2, EditEffect
    <3>2. Enqueue(c, {o})
      BY <1>0, <3>1 DEF Type
    <3>3. QED
      BY <3>2
  <2>3. CASE ~EditStep(t)
    <3>1. Quiet
      BY <1>1, <2>1, <2>3, ScriptKinds DEF AtStep, Cuts, Hailing
    <3>2. QED
      BY <3>1 DEF Quiet, sessionVars
  <2>4. QED
    BY <2>2, <2>3
<1>2. ASSUME NEW c \in Client, Join(c) PROVE UNCHANGED rsVars
  BY <1>2 DEF Join, sessionVars
<1>3. ASSUME NEW c \in Client, Confirmed(c) PROVE OnConnect(c)
  BY <1>3 DEF Confirmed, SessionOnConnect
<1>4. ASSUME NEW c \in Client, ResendTick(c) PROVE OnTick(c)
  BY <1>0, <1>4 DEF ResendTick, Resend
<1>5. ASSUME NEW c \in Client, NEW f \in down[c], Taking(c, f)
      PROVE  OnAck(c, f.id) \/ UNCHANGED rsVars
  BY <1>0, <1>5 DEF Taking, ReceiveAck, ReceiveStep1, ReceiveContent, ReceiveInVain
<1>6. ASSUME NEW e \in up, Handling(e) PROVE UNCHANGED rsVars
  BY <1>6 DEF Handling, sessionVars
<1>7. ASSUME NEW j \in jobs, Working(j) PROVE UNCHANGED rsVars
  BY <1>7 DEF Working, sessionVars
<1>8. UNCHANGED scenarioVars => UNCHANGED rsVars
  BY DEF scenarioVars, sessionVars
<1>9. QED
  BY StepKinds, <1>1, <1>2, <1>3, <1>4, <1>5, <1>6, <1>7, <1>8 DEF Move

\* So its own invariant holds in them.
Queued == profile.queue = "tail" => RSInv

\* It is the queue of ReliableSync, and stays the one (reliable_sync.ts:42-57).
LEMMA QueuedStep ==
  ASSUME ScenarioInv, Queued, [ScenarioNext]_scenarioVars
  PROVE  Queued'
<1> SUFFICES ASSUME profile.queue = "tail" PROVE RSInv'
  BY Grows DEF Queued, profile
<1>0. RSInv
  BY DEF Queued
<1>1. ASSUME NEW c \in Client, NEW o \in Op, Enqueue(c, {o}) PROVE RSInv'
  BY <1>0, <1>1, EnqueueInv
<1>2. ASSUME NEW c \in Client, OnConnect(c) \/ OnTick(c) PROVE RSInv'
  BY <1>0, <1>2, TransportInv
<1>3. ASSUME NEW c \in Client, NEW f \in down[c], OnAck(c, f.id) PROVE RSInv'
  <2>1. f.id \in Int
    BY <1>3, Parts DEF CableTyped, Frame
  <2>2. QED
    BY <1>0, <1>3, <2>1, OnAckInv
<1>4. UNCHANGED rsVars => RSInv'
  BY <1>0, RSStutterInv
<1>5. QED
  BY <1>1, <1>2, <1>3, <1>4, QueueCalls

\* An ack of the number id is of no update beyond S.
Covers(c, id, S) ==
  id < nextSeq[c] /\ \A p \in pending[c] : p.seq =< id => p.update \subseteq S

\* What is shown is stored or pending; what a frame, a job or an ack will have
\* acknowledged is in it, or stored.
Tailed ==
  profile.queue = "tail" =>
    /\ \A c \in Client : \A o \in doc[c] : o \in store \/ \E p \in pending[c] : o \in p.update
    /\ \A e \in up : Covers(e.client, e.frame.id, e.frame.ops \cup store)
    /\ \A j \in jobs : Covers(j.client, j.frame.id, j.frame.ops \cup store)
    /\ \A c \in Client : \A f \in down[c] : f.kind = "ack" => Covers(c, f.id, store)

\* An update that is queued later has a number beyond it.
LEMMA CoversStays ==
  ASSUME ScenarioInv, Queued, profile.queue = "tail", [ScenarioNext]_scenarioVars,
         NEW c \in Client, NEW id \in Nat, NEW S, NEW X, Covers(c, id, S), S \subseteq X
  PROVE  id < nextSeq'[c] /\ \A p \in pending'[c] : p.seq =< id => p.update \subseteq X
<1>0. RSTypeOK
  BY Parts DEF QueuesOK
<1>1. nextSeq'[c] \in Nat /\ nextSeq'[c] >= nextSeq[c] /\ nextSeq[c] \in Nat
  <2>1. nextSeq \in [Client -> Nat \ {0}]
    BY <1>0 DEF RSTypeOK
  <2>2. ASSUME NEW d \in Client, NEW u, Enqueue(d, u)
        PROVE  nextSeq' = [nextSeq EXCEPT ![d] = @ + 1]
    BY <2>2 DEF Enqueue
  <2>3. ASSUME NEW d, OnConnect(d) \/ OnTick(d) PROVE nextSeq' = nextSeq
    BY <2>3 DEF OnConnect, OnTick
  <2>4. ASSUME NEW d, NEW n, OnAck(d, n) PROVE nextSeq' = nextSeq
    BY <2>4 DEF OnAck, rsVars
  <2>5. nextSeq' = nextSeq \/ \E d \in Client : nextSeq' = [nextSeq EXCEPT ![d] = @ + 1]
    BY <2>2, <2>3, <2>4, QueueCalls DEF rsVars
  <2>6. QED
    BY <2>1, <2>5
<1>2. \A p \in pending'[c] : p \in pending[c] \/ p.seq = nextSeq[c]
  BY QueueFrom
<1>3. \A p \in pending'[c] : p.seq =< id => p \in pending[c]
  BY <1>1, <1>2 DEF Covers
<1>4. QED
  BY <1>1, <1>3 DEF Covers

\* What has no number acknowledges nothing.
LEMMA CoversNothing ==
  ASSUME RSInv, NEW c \in Client, NEW S
  PROVE  Covers(c, 0, S)
<1>1. ASSUME NEW p \in pending[c] PROVE ~(p.seq =< 0)
  <2>1. p.seq \in Nat \ {0}
    BY DEF RSInv, RSTypeOK, Entry
  <2>2. QED
    BY <2>1
<1>2. 0 < nextSeq[c]
  <2>1. nextSeq[c] \in Nat \ {0}
    BY DEF RSInv, RSTypeOK
  <2>2. QED
    BY <2>1
<1>3. QED
  BY <1>1, <1>2 DEF Covers

\* A flush acknowledges just what it sends.
LEMMA CoversFlushed ==
  ASSUME RSInv, NEW c \in Client, NEW g \in UpdateFrames(c), NEW S
  PROVE  Covers(c, g.id, g.ops \cup S)
<1>1. PICK f \in Flushed(c) : g = Update(f.update, f.id)
  BY DEF UpdateFrames
<1>2. f.update = Merge(pending[c]) /\ f.id = nextSeq[c] - 1
  BY RSInvTail DEF TailComplete
<1>3. nextSeq[c] \in Nat
  BY DEF RSInv, RSTypeOK
<1>4. g.ops = Merge(pending[c]) /\ g.id = nextSeq[c] - 1
  BY <1>1, <1>2 DEF Update
<1>5. \A p \in pending[c] : p.update \subseteq Merge(pending[c])
  BY DEF Merge
<1>6. QED
  BY <1>3, <1>4, <1>5 DEF Covers

\* Both, whatever is stored.
FlushCovers ==
  \A c \in Client : \A S :
    /\ Covers(c, 0, S)
    /\ \A g \in UpdateFrames(c) : Covers(c, g.id, g.ops \cup S)

\* The same after a step.
LEMMA CoversNext == RSInv' => FlushCovers'
<1>1. RSInv => FlushCovers
  BY CoversNothing, CoversFlushed DEF FlushCovers
<1>2. QED
  BY <1>1, PTL

\* The cable is well typed after a step too.
LEMMA CableNext == ScenarioInv' => CableTyped'
<1>1. ScenarioInv => CableTyped
  BY Parts
<1>2. QED
  BY <1>1, PTL

\* An ack is of what is stored, step by step.
LEMMA TailedStep ==
  ASSUME ScenarioInv, ScenarioInv', Queued, Tailed, [ScenarioNext]_scenarioVars
  PROVE  Tailed'
<1> DEFINE Later(c, id, S) ==
             id < nextSeq'[c] /\ \A p \in pending'[c] : p.seq =< id => p.update \subseteq S
<1> SUFFICES ASSUME profile.queue = "tail"
             PROVE  /\ \A c \in Client : \A o \in doc'[c] :
                         o \in store' \/ \E p \in pending'[c] : o \in p.update
                    /\ \A e \in up' : Later(e.client, e.frame.id, e.frame.ops \cup store')
                    /\ \A j \in jobs' : Later(j.client, j.frame.id, j.frame.ops \cup store')
                    /\ \A c \in Client : \A f \in down'[c] :
                         f.kind = "ack" => Later(c, f.id, store')
  BY Grows DEF Tailed, profile, Covers
<1>0. /\ store \subseteq store' /\ RSInv' /\ jobs \subseteq Job
      /\ up \subseteq Envelope /\ down \in [Client -> SUBSET Frame]
  BY QueuedStep, Grows, Parts DEF Queued, profile, CableTyped, ChannelTypeOK
<1>1. ASSUME NEW c \in Client, NEW S PROVE Later(c, 0, S)
  BY <1>0, <1>1, CoversNext DEF FlushCovers, Covers
<1>2. ASSUME NEW c \in Client, NEW g \in UpdateFrames(c)' PROVE Later(c, g.id, g.ops \cup store')
  BY <1>0, <1>2, CoversNext DEF FlushCovers, Covers
<1>3. ASSUME NEW c \in Client, NEW id \in Nat, NEW ops, Covers(c, id, ops \cup store)
      PROVE  Later(c, id, ops \cup store')
  <2>1. ops \cup store \subseteq ops \cup store'
    BY <1>0
  <2>2. QED
    BY <1>3, <2>1, CoversStays
<1>4. ASSUME NEW c \in Client, NEW id \in Nat, Covers(c, id, store)
      PROVE  Later(c, id, store')
  BY <1>0, <1>4, CoversStays
<1>5. ASSUME NEW c \in Client, NEW o \in doc'[c], o \notin store'
      PROVE  \E p \in pending'[c] : o \in p.update
  <2>1. CASE o \in doc[c]
    <3>1. PICK p \in pending[c] : o \in p.update
      BY <1>0, <1>5, <2>1 DEF Tailed
    <3>2. ASSUME NEW f \in down[c], f.kind = "ack", p.seq =< f.id PROVE FALSE
      <4>1. Covers(c, f.id, store)
        BY <3>2 DEF Tailed
      <4>2. p.update \subseteq store
        BY <3>2, <4>1 DEF Covers
      <4>3. QED
        BY <1>0, <1>5, <3>1, <4>2
    <3>3. p \in pending'[c]
      BY <3>2, PendingFrom
    <3>4. QED
      BY <3>1, <3>3
  <2>2. CASE o \notin doc[c]
    <3>1. PICK t \in Thread : ScriptStep(t) /\ EditStep(t)
      BY <1>0, <1>5, <2>2, DocNews
    <3>2. PICK d \in Client, p \in Op :
            Type(d, p) /\ Types(d, p) /\ \A x \in Client \ {d} : doc'[x] = doc[x]
      BY <3>1, EditEffect DEF ScriptStep
    <3>3. d = c /\ p = o
      BY <1>5, <2>2, <3>2 DEF Types
    <3>4. Enqueue(c, {o})
      BY <3>2, <3>3 DEF Type
    <3>5. pending' = [pending EXCEPT ![c] = @ \cup {[seq |-> nextSeq[c], update |-> {o}]}]
      BY <3>4 DEF Enqueue
    <3>6. pending \in [Client -> SUBSET Entry]
      BY Parts DEF QueuesOK, RSTypeOK
    <3>7. [seq |-> nextSeq[c], update |-> {o}] \in pending'[c]
      BY <3>5, <3>6
    <3>8. QED
      BY <3>7
  <2>3. QED
    BY <2>1, <2>2
<1>6. ASSUME NEW e \in up' PROVE Later(e.client, e.frame.id, e.frame.ops \cup store')
  <2>0. e.client \in Client
    <3>1. CableTyped'
      BY CableNext
    <3>2. up' \subseteq Envelope
      BY <3>1 DEF CableTyped
    <3>3. e \in Envelope
      BY <1>6, <3>2
    <3>4. QED
      BY <3>3 DEF Envelope
  <2>1. CASE e.frame.id = 0
    BY <1>1, <2>0, <2>1
  <2>2. CASE \E d \in up : Same(d, e)
    <3>1. PICK d \in up : Same(d, e)
      BY <2>2
    <3>2. Covers(e.client, e.frame.id, e.frame.ops \cup store) /\ e.frame.id \in Nat
      BY <1>0, <3>1 DEF Tailed, Same, Envelope, Frame
    <3>3. QED
      BY <1>3, <2>0, <3>2
  <2>3. CASE FromQueue(e)
    <3>1. e.frame \in UpdateFrames(e.client)'
      BY <2>3 DEF FromQueue
    <3>2. QED
      BY <1>2, <2>0, <3>1
  <2>4. e.frame = Update({}, 0) \/ FromHello(e) \/ FromAnswer(e) => e.frame.id = 0
    <3>1. \A ops : Update(ops, 0).id = 0 /\ SyncStep1(ops).id = 0 /\ SyncStep2(ops).id = 0
      BY DEF Update, SyncStep1, SyncStep2
    <3>2. FromHello(e) => \E ops : e.frame = SyncStep1(ops)
      BY Zenon DEF FromHello
    <3>3. FromAnswer(e) => \E ops : e.frame = SyncStep2(ops)
      BY Zenon DEF FromAnswer
    <3>4. QED
      BY <3>1, <3>2, <3>3
  <2>5. ~FromTyping(e)
    BY DEF FromTyping
  <2>6. QED
    BY <2>1, <2>2, <2>3, <2>4, <2>5, UpFrom
<1>7. ASSUME NEW j \in jobs' PROVE Later(j.client, j.frame.id, j.frame.ops \cup store')
  <2>1. \/ \E i \in jobs : Same(i, j)
        \/ \E e \in up : Same(e, j)
    BY JobFrom
  <2>2. /\ Covers(j.client, j.frame.id, j.frame.ops \cup store)
        /\ j.client \in Client /\ j.frame.id \in Nat
    BY <1>0, <2>1 DEF Tailed, Same, Envelope, Job, Frame
  <2>3. QED
    BY <1>3, <2>2
<1>8. ASSUME NEW c \in Client, NEW f \in down'[c], f.kind = "ack" PROVE Later(c, f.id, store')
  <2>1. CASE f \in down[c]
    <3>1. Covers(c, f.id, store) /\ f.id \in Nat
      BY <1>0, <1>8, <2>1 DEF Tailed, Frame
    <3>2. QED
      BY <1>4, <3>1
  <2>2. ASSUME NEW j \in jobs, j.stage = "ack", j.client = c, f = Ack(j.frame.id)
        PROVE  Later(c, f.id, store')
    <3>1. j.frame.ops \subseteq store
      BY <2>2, Parts DEF StoredFirst
    <3>2. j.frame.ops \cup store = store
      BY <3>1
    <3>3. Covers(c, f.id, store) /\ f.id \in Nat
      BY <1>0, <2>2, <3>2 DEF Tailed, Ack, Job, Frame
    <3>4. QED
      BY <1>4, <3>3
  <2>3. ASSUME NEW j \in jobs, f = [j.frame EXCEPT !.id = 0] PROVE Later(c, f.id, store')
    <3>1. f.id = 0
      BY <1>0, <2>3 DEF Job, Frame
    <3>2. QED
      BY <1>1, <3>1
  <2>4. \A ops : f # SyncStep1(ops) /\ f # SyncStep2(ops)
    BY <1>8 DEF SyncStep1, SyncStep2
  <2>5. QED
    BY <2>1, <2>2, <2>3, <2>4, DownFrom
<1>9. QED
  BY <1>5, <1>6, <1>7, <1>8

\* The queues begin empty.
LEMMA TailedInit == ScenarioInit => Queued /\ Tailed
<1> SUFFICES ASSUME ScenarioInit PROVE Queued /\ Tailed
  OBVIOUS
<1>1. RSInit({}) /\ doc = [c \in Client |-> Opened(c, {}, {})]
  BY DEF ScenarioInit, SessionInit
<1>2. RSInv
  BY <1>1, RSInitInv
<1>3. \A c \in Client : doc[c] = {}
  BY <1>1, ScenarioAssumption DEF Opened
<1>4. up = {} /\ jobs = {} /\ \A c \in Client : down[c] = {}
  BY DEF ScenarioInit, ChannelInit
<1>5. QED
  BY <1>2, <1>3, <1>4 DEF Queued, Tailed

\* What the provider's stress has seen drained is stored.
Drained == script = ReliableStress /\ pc[1] > 8 => {"o1", "o2"} \subseteq store

\* What is stored stays so, and the wait is over only once the queue is empty.
LEMMA DrainedStep ==
  ASSUME ScenarioInv, Progress, Tailed, Drained, [ScenarioNext]_scenarioVars
  PROVE  Drained'
<1> SUFFICES ASSUME script = ReliableStress, pc'[1] > 8 PROVE {"o1", "o2"} \subseteq store
  BY Grows DEF Drained
<1>1. CASE pc[1] > 8
  BY <1>1 DEF Drained
<1>2. CASE ~(pc[1] > 8)
  <2>1. pc[1] = 8 /\ ScriptStep(1) /\ Current(1) = script.threads[1][8]
    BY <1>2, FlowFrom, FlowPlaced
  <2>2. Current(1) = Await("drained", {"a"}, {})
    BY <2>1, ReliableStressTable DEF Has
  <2>3. Current(1).do = "await" /\ Current(1).fact = "drained" /\ Current(1).cs = {"a"}
    BY <2>2 DEF Await, Step
  <2>4. pending["a"] = {}
    BY <2>1, <2>3, AwaitStep, Facts
  <2>5. "o1" \in doc["a"] /\ "o2" \in doc["a"]
    BY <2>1, ReliableStressTable, EditedAt
  <2>6. profile.queue = "tail"
    BY DEF profile, ReliableStress, Script, LossyConsumer, Profile
  <2>7. "a" \in Client
    BY ScenarioAssumption
  <2>8. QED
    BY <2>4, <2>5, <2>6, <2>7 DEF Tailed
<1>3. QED
  BY <1>1, <1>2

-----------------------------------------------------------------------------
(* The checks.                                                             *)

\* The inductive invariant: what holds of the system, and what the scripts rely on.
ChecksInv ==
  /\ ScenarioInv
  /\ Journey /\ Links /\ Shaken /\ Heard /\ Progress
  /\ Lost /\ Away /\ Spent /\ Debts
  /\ Slowed /\ Gathered /\ Met /\ Outages
  /\ Queued /\ Tailed /\ Drained

\* It holds of every script before its first step.
LEMMA ChecksInitInv == ScenarioInit => ChecksInv
<1> SUFFICES ASSUME ScenarioInit PROVE ChecksInv
  OBVIOUS
<1>1. ScenarioInv
  BY ScenarioInitInv
<1>2. 1 \in DOMAIN script.threads /\ pc = [t \in DOMAIN script.threads |-> 1]
  BY FirstThread DEF ScenarioInit
<1>3. pc[1] = 1
  BY <1>2
<1>4. Drained
  BY <1>3 DEF Drained
<1>5. QED
  BY <1>1, <1>4, JourneyInit, LinksInit, ShakenInit, HeardInit, ProgressInit, LostInit,
     DebtsInit, SlowedInit, GatheredInit, OutagesInit, TailedInit DEF ChecksInv

\* Every step keeps it.
LEMMA ChecksStepInv == ChecksInv /\ [ScenarioNext]_scenarioVars => ChecksInv'
<1> SUFFICES ASSUME ChecksInv, [ScenarioNext]_scenarioVars PROVE ChecksInv'
  OBVIOUS
<1>0. /\ ScenarioInv
      /\ Journey /\ Links /\ Shaken /\ Heard /\ Progress
      /\ Lost /\ Away /\ Spent /\ Debts
      /\ Slowed /\ Gathered /\ Met /\ Outages
      /\ Queued /\ Tailed /\ Drained
  BY DEF ChecksInv
<1>1. ScenarioInv'
  BY <1>0, ScenarioStepInv
<1>2. Journey' /\ Links' /\ Shaken' /\ Heard' /\ Progress'
  BY <1>0, JourneyStep, LinksStep, ShakenStep, HeardStep, ProgressStep
<1>3. Lost' /\ Away' /\ Spent' /\ Debts'
  BY <1>0, LostStep, AwayStep, SpentStep, DebtsStep
<1>4. Slowed' /\ Gathered' /\ Met' /\ Outages'
  BY <1>0, SlowedStep, GatheredStep, MetStep, OutagesStep
<1>5. Queued' /\ Tailed' /\ Drained'
  BY <1>0, <1>1, QueuedStep, TailedStep, DrainedStep
<1>6. QED
  BY <1>1, <1>2, <1>3, <1>4, <1>5 DEF ChecksInv

\* What a check of each kind finds true.
LEMMA CheckFacts ==
  ASSUME NEW cs, NEW ops
  PROVE  /\ (\A c \in cs : ops \subseteq doc[c]) => FactHolds(1, Check("has", cs, ops))
         /\ (\A c \in cs : ops \cap doc[c] = {}) => FactHolds(1, Check("lacks", cs, ops))
         /\ ops \subseteq store => FactHolds(1, Check("stored", cs, ops))
         /\ ops \cap store = {} => FactHolds(1, Check("unstored", cs, ops))
         /\ (\A c \in cs : pending[c] # {}) => FactHolds(1, Check("pending", cs, ops))
         /\ (\A c, d \in cs : doc[c] = doc[d]) => FactHolds(1, Check("equal", cs, ops))
         /\ (\A c \in cs : doc[c] = store) => FactHolds(1, Check("replays", cs, ops))
<1>1. ASSUME NEW f
      PROVE  /\ Check(f, cs, ops).fact = f
             /\ Check(f, cs, ops).cs = cs /\ Check(f, cs, ops).ops = ops
  BY DEF Check, Step
<1>2. QED
  BY <1>1, Facts

\* Only the script's own flow checks, and only at the steps that its table lists.
LEMMA CheckAt ==
  ASSUME ScenarioInv, NEW t, Ready(t), Current(t).do = "check",
         NEW I, OnlyAt(script, {"check"}, I)
  PROVE  t = 1 /\ pc[1] \in I /\ Current(t) = script.threads[1][pc[1]]
  BY AtAStep DEF OnlyAt, Current

\* What the flow of a script finds at its step i.
Finds(i) == pc[1] = i => FactHolds(1, script.threads[1][i])

\* Two browsers: what one shows of the other's is stored (e2e.mjs).
LEMMA E2EFinds == ChecksInv /\ script = E2E => Finds(10)
<1> SUFFICES ASSUME ChecksInv, script = E2E, pc[1] = 10
             PROVE  FactHolds(1, script.threads[1][10])
  BY DEF Finds
<1>1. ScenarioInv /\ Progress /\ "a" \in Client /\ "b" \in Client
  BY ScenarioAssumption DEF ChecksInv
<1>2. "o1" \in doc["b"] /\ "r1" \in doc["a"]
  <2>1. /\ Has(script, 6, Await("has", {"b"}, {"o1"}))
        /\ Has(script, 8, Await("has", {"a"}, {"r1"}))
    BY E2ETable
  <2>2. /\ 6 \in Nat /\ 6 >= 1 /\ 6 < pc[1]
        /\ 8 \in Nat /\ 8 >= 1 /\ 8 < pc[1]
    OBVIOUS
  <2>3. {"o1"} \subseteq doc["b"] /\ {"r1"} \subseteq doc["a"]
    BY <1>1, <2>1, <2>2, FoundAt, Zenon
  <2>4. QED
    BY <2>3
<1>3. "o1" \notin Authored("b") /\ "r1" \notin Authored("a")
  BY DEF Authored
<1>4. "o1" \in store /\ "r1" \in store
  BY <1>1, <1>2, <1>3, ShowsStored
<1>5. script.threads[1][10] = Check("stored", {}, {"o1", "r1"})
  BY E2ETable DEF Has
<1>6. QED
  BY <1>4, <1>5, CheckFacts

\* Until the store is quick, nobody but the editor of a slow script shows the edit.
LEMMA SlowFinds ==
  ASSUME ChecksInv, NEW s, NEW quick \in Nat, SlowTable(s, quick), Slowly(s, quick),
         Edited(s, {"o1"}), script = s, pc[1] =< quick
  PROVE  store = {} /\ doc["b"] = {} /\ doc["c"] = {}
<1>1. store = {}
  <2>1. pc[1] =< quick => store = {}
    BY Zenon DEF Slowly
  <2>2. QED
    BY <2>1
<1>2. ScenarioInv /\ Journey /\ "b" \in Client /\ "c" \in Client
  BY ScenarioAssumption DEF ChecksInv
<1>3. Edited(script, {"o1"})
  OBVIOUS
<1>4. QED
  BY <1>1, <1>2, <1>3, BareOthers

\* A slow store (audit_scenarios.mjs).
LEMMA SlowStoreFinds ==
  ChecksInv /\ script = SlowStore => \A i \in {6, 7, 8, 12, 13, 16, 17} : Finds(i)
<1> SUFFICES ASSUME ChecksInv, script = SlowStore, NEW i \in {6, 7, 8, 12, 13, 16, 17},
                    pc[1] = i
             PROVE  FactHolds(1, script.threads[1][i])
  BY DEF Finds
<1>1. SlowTable(SlowStore, 14) /\ Slowly(SlowStore, 14) /\ Edited(SlowStore, {"o1"})
  BY SlowTables, ScriptEdits DEF ChecksInv, Slowed
<1>2. CASE i = 6
  <2>1. ScenarioInv /\ Progress
    BY DEF ChecksInv
  <2>2. "o1" \in doc["a"]
    BY <1>2, <2>1, SlowStoreTable, EditedAt
  <2>3. script.threads[1][i] = Check("has", {"a"}, {"o1"})
    BY <1>2, SlowStoreTable DEF Has
  <2>4. QED
    BY <2>2, <2>3, CheckFacts
<1>3. CASE i \in {7, 8, 12, 13}
  <2>1. store = {} /\ doc["b"] = {} /\ doc["c"] = {}
    BY <1>1, <1>3, SlowFinds
  <2>2. CASE i = 7
    <3>1. script.threads[1][i] = Check("lacks", {"b"}, {"o1"})
      BY <2>2, SlowStoreTable DEF Has
    <3>2. QED
      BY <2>1, <3>1, CheckFacts
  <2>3. CASE i \in {8, 13}
    <3>1. script.threads[1][i] = Check("unstored", {}, {"o1"})
      BY <2>3, SlowStoreTable DEF Has
    <3>2. QED
      BY <2>1, <3>1, CheckFacts
  <2>4. CASE i = 12
    <3>1. script.threads[1][i] = Check("lacks", {"c"}, {"o1"})
      BY <2>4, SlowStoreTable DEF Has
    <3>2. QED
      BY <2>1, <3>1, CheckFacts
  <2>5. QED
    BY <1>3, <2>2, <2>3, <2>4
<1>4. CASE i \in {16, 17}
  <2>1. "o1" \in store /\ "o1" \in doc["b"]
    BY <1>1, <1>4 DEF Slowly
  <2>2. CASE i = 16
    <3>1. script.threads[1][i] = Check("has", {"b"}, {"o1"})
      BY <2>2, SlowStoreTable DEF Has
    <3>2. QED
      BY <2>1, <3>1, CheckFacts
  <2>3. CASE i = 17
    <3>1. script.threads[1][i] = Check("stored", {}, {"o1"})
      BY <2>3, SlowStoreTable DEF Has
    <3>2. QED
      BY <2>1, <3>1, CheckFacts
  <2>4. QED
    BY <1>4, <2>2, <2>3
<1>5. QED
  BY <1>2, <1>3, <1>4

\* A slow store behind AnyCable (anycable_guarantee.mjs).
LEMMA AnyCableSlowStoreFinds ==
  ChecksInv /\ script = AnyCableSlowStore => \A i \in {6, 7, 10, 13, 14} : Finds(i)
<1> SUFFICES ASSUME ChecksInv, script = AnyCableSlowStore, NEW i \in {6, 7, 10, 13, 14},
                    pc[1] = i
             PROVE  FactHolds(1, script.threads[1][i])
  BY DEF Finds
<1>1. /\ SlowTable(AnyCableSlowStore, 11) /\ Slowly(AnyCableSlowStore, 11)
      /\ Edited(AnyCableSlowStore, {"o1"})
  BY SlowTables, ScriptEdits DEF ChecksInv, Slowed
<1>2. CASE i \in {6, 7, 10}
  <2>1. store = {} /\ doc["b"] = {} /\ doc["c"] = {}
    BY <1>1, <1>2, SlowFinds
  <2>2. CASE i = 6
    <3>1. script.threads[1][i] = Check("lacks", {"b"}, {"o1"})
      BY <2>2, AnyCableSlowStoreTable DEF Has
    <3>2. QED
      BY <2>1, <3>1, CheckFacts
  <2>3. CASE i = 7
    <3>1. script.threads[1][i] = Check("unstored", {}, {"o1"})
      BY <2>3, AnyCableSlowStoreTable DEF Has
    <3>2. QED
      BY <2>1, <3>1, CheckFacts
  <2>4. CASE i = 10
    <3>1. script.threads[1][i] = Check("lacks", {"c"}, {"o1"})
      BY <2>4, AnyCableSlowStoreTable DEF Has
    <3>2. QED
      BY <2>1, <3>1, CheckFacts
  <2>5. QED
    BY <1>2, <2>2, <2>3, <2>4
<1>3. CASE i \in {13, 14}
  <2>1. "o1" \in store /\ "o1" \in doc["b"]
    BY <1>1, <1>3 DEF Slowly
  <2>2. CASE i = 13
    <3>1. script.threads[1][i] = Check("has", {"b"}, {"o1"})
      BY <2>2, AnyCableSlowStoreTable DEF Has
    <3>2. QED
      BY <2>1, <3>1, CheckFacts
  <2>3. CASE i = 14
    <3>1. script.threads[1][i] = Check("stored", {}, {"o1"})
      BY <2>3, AnyCableSlowStoreTable DEF Has
    <3>2. QED
      BY <2>1, <3>1, CheckFacts
  <2>4. QED
    BY <1>3, <2>2, <2>3
<1>4. QED
  BY <1>2, <1>3

\* Where a write is to fail, only the editor has the edit.
LEMMA FailFinds ==
  ASSUME ChecksInv, Failing, pc[1] > 5
  PROVE  /\ store = {} /\ doc["b"] = {} /\ doc["c"] = {}
         /\ "o1" \in doc["a"]
<1>1. /\ ScenarioInv /\ Journey /\ Progress /\ Lost
      /\ "b" \in Client /\ "c" \in Client
  BY ScenarioAssumption DEF ChecksInv
<1>2. FailTable(script) /\ Edited(script, {"o1"})
  BY FailScriptParts DEF Failing
<1>3. store = {}
  BY <1>1 DEF Lost
<1>4. doc["b"] = {} /\ doc["c"] = {}
  BY <1>1, <1>2, <1>3, BareOthers
<1>5. Has(script, 5, Edits("a", "o1"))
  BY <1>2 DEF FailTable
<1>6. "o1" \in doc["a"]
  BY <1>1, <1>5, EditedAt
<1>7. QED
  BY <1>3, <1>4, <1>6

\* A store that fails once (audit_scenarios.mjs).
LEMMA StoreFailureFinds ==
  ChecksInv /\ script = StoreFailure => \A i \in {7, 8, 9} : Finds(i)
<1> SUFFICES ASSUME ChecksInv, script = StoreFailure, NEW i \in {7, 8, 9}, pc[1] = i
             PROVE  FactHolds(1, script.threads[1][i])
  BY DEF Finds
<1>1. Failing
  <2>1. StoreFailure.name # SelfHeal.name
    BY DEF StoreFailure, SelfHeal, Script
  <2>2. QED
    BY <2>1 DEF Failing, FailScripts
<1>2. /\ store = {} /\ doc["b"] = {} /\ doc["c"] = {}
      /\ "o1" \in doc["a"]
  BY <1>1, FailFinds
<1>3. CASE i = 7
  <2>1. script.threads[1][i] = Check("lacks", {"b"}, {"o1"})
    BY <1>3, StoreFailureTable DEF Has
  <2>2. QED
    BY <1>3, <1>2, <2>1, CheckFacts
<1>4. CASE i = 8
  <2>1. script.threads[1][i] = Check("unstored", {}, {"o1"})
    BY <1>4, StoreFailureTable DEF Has
  <2>2. QED
    BY <1>4, <1>2, <2>1, CheckFacts
<1>5. CASE i = 9
  <2>1. script.threads[1][i] = Check("has", {"a"}, {"o1"})
    BY <1>5, StoreFailureTable DEF Has
  <2>2. QED
    BY <1>5, <1>2, <2>1, CheckFacts
<1>6. QED
  BY <1>3, <1>4, <1>5

\* A store that fails once behind AnyCable (anycable_guarantee.mjs).
LEMMA AnyCableFailureFinds ==
  ChecksInv /\ script = AnyCableFailure => \A i \in {7, 8, 12} : Finds(i)
<1> SUFFICES ASSUME ChecksInv, script = AnyCableFailure, NEW i \in {7, 8, 12}, pc[1] = i
             PROVE  FactHolds(1, script.threads[1][i])
  BY DEF Finds
<1>1. Failing
  <2>1. AnyCableFailure.name # SelfHeal.name
    BY DEF AnyCableFailure, SelfHeal, Script
  <2>2. QED
    BY <2>1 DEF Failing, FailScripts
<1>2. /\ store = {} /\ doc["b"] = {} /\ doc["c"] = {}
      /\ "o1" \in doc["a"]
  BY <1>1, FailFinds
<1>3. CASE i = 7
  <2>1. script.threads[1][i] = Check("lacks", {"b"}, {"o1"})
    BY <1>3, AnyCableFailureTable DEF Has
  <2>2. QED
    BY <1>3, <1>2, <2>1, CheckFacts
<1>4. CASE i = 8
  <2>1. script.threads[1][i] = Check("unstored", {}, {"o1"})
    BY <1>4, AnyCableFailureTable DEF Has
  <2>2. QED
    BY <1>4, <1>2, <2>1, CheckFacts
<1>5. CASE i = 12
  <2>1. script.threads[1][i] = Check("lacks", {"c"}, {"o1"})
    BY <1>5, AnyCableFailureTable DEF Has
  <2>2. QED
    BY <1>5, <1>2, <2>1, CheckFacts
<1>6. QED
  BY <1>3, <1>4, <1>5

\* The next handshake brings the lost edit back (audit_scenarios.mjs).
LEMMA SelfHealFinds ==
  ChecksInv /\ script = SelfHeal => \A i \in {7, 8, 12, 13} : Finds(i)
<1> SUFFICES ASSUME ChecksInv, script = SelfHeal, NEW i \in {7, 8, 12, 13}, pc[1] = i
             PROVE  FactHolds(1, script.threads[1][i])
  BY DEF Finds
<1>1. i \in {7, 8} => store = {} /\ doc["b"] = {}
  <2>1. i \in {7, 8} => Failing
    BY DEF Failing, FailScripts
  <2>2. QED
    BY <2>1, FailFinds
<1>2. i \in {12, 13} => "o1" \in store /\ "o1" \in doc["b"]
  BY DEF ChecksInv, Gathered, Collected
<1>3. CASE i = 7
  <2>1. script.threads[1][i] = Check("unstored", {}, {"o1"})
    BY <1>3, SelfHealTable DEF Has
  <2>2. QED
    BY <1>3, <1>1, <2>1, CheckFacts
<1>4. CASE i = 8
  <2>1. script.threads[1][i] = Check("lacks", {"b"}, {"o1"})
    BY <1>4, SelfHealTable DEF Has
  <2>2. QED
    BY <1>4, <1>1, <2>1, CheckFacts
<1>5. CASE i = 12
  <2>1. script.threads[1][i] = Check("stored", {}, {"o1"})
    BY <1>5, SelfHealTable DEF Has
  <2>2. QED
    BY <1>5, <1>2, <2>1, CheckFacts
<1>6. CASE i = 13
  <2>1. script.threads[1][i] = Check("has", {"b"}, {"o1"})
    BY <1>6, SelfHealTable DEF Has
  <2>2. QED
    BY <1>6, <1>2, <2>1, CheckFacts
<1>7. QED
  BY <1>3, <1>4, <1>5, <1>6

\* What was typed offline is stored after the reconnect (audit_scenarios.mjs).
LEMMA OfflineCatchUpFinds ==
  ChecksInv /\ script = OfflineCatchUp => \A i \in {6, 14} : Finds(i)
<1> SUFFICES ASSUME ChecksInv, script = OfflineCatchUp, NEW i \in {6, 14}, pc[1] = i
             PROVE  FactHolds(1, script.threads[1][i])
  BY DEF Finds
<1>1. /\ i = 6 => {"o1"} \subseteq store
      /\ i = 14 => {"o1", "o2", "o3"} \subseteq store
  BY DEF ChecksInv, Gathered, Collected
<1>2. CASE i = 6
  <2>1. script.threads[1][i] = Check("stored", {}, {"o1"})
    BY <1>2, OfflineCatchUpTable DEF Has
  <2>2. QED
    BY <1>2, <1>1, <2>1, CheckFacts
<1>3. CASE i = 14
  <2>1. script.threads[1][i] = Check("stored", {}, {"o1", "o2", "o3"})
    BY <1>3, OfflineCatchUpTable DEF Has
  <2>2. QED
    BY <1>3, <1>1, <2>1, CheckFacts
<1>4. QED
  BY <1>2, <1>3

\* The log replays to the document (audit.mjs).
LEMMA AuditFinds ==
  ChecksInv /\ script = Audit => \A i \in {6, 7} : Finds(i)
<1> SUFFICES ASSUME ChecksInv, script = Audit, NEW i \in {6, 7}, pc[1] = i
             PROVE  FactHolds(1, script.threads[1][i])
  BY DEF Finds
<1>1. /\ ScenarioInv /\ Journey /\ Progress /\ "a" \in Client
  BY ScenarioAssumption DEF ChecksInv
<1>2. Edited(script, {"o1", "o2"})
  BY ScriptEdits
<1>3. store \subseteq {"o1", "o2"} /\ \A c \in Client : doc[c] \subseteq {"o1", "o2"}
  BY <1>1, <1>2, MadeWithin
<1>4. {"o1", "o2"} \subseteq store
  BY DEF ChecksInv, Gathered, Collected
<1>5. "o1" \in doc["a"] /\ "o2" \in doc["a"]
  BY <1>1, AuditTable, EditedAt
<1>6. doc["a"] \subseteq {"o1", "o2"}
  BY <1>1, <1>3
<1>7. doc["a"] = {"o1", "o2"} /\ store = {"o1", "o2"}
  BY <1>3, <1>4, <1>5, <1>6
<1>8. CASE i = 6
  <2>1. script.threads[1][i] = Check("stored", {}, {"o1", "o2"})
    BY <1>8, AuditTable DEF Has
  <2>2. QED
    BY <1>4, <1>8, <2>1, CheckFacts
<1>9. CASE i = 7
  <2>1. script.threads[1][i] = Check("replays", {"a"}, {})
    BY <1>9, AuditTable DEF Has
  <2>2. QED
    BY <1>7, <1>9, <2>1, CheckFacts
<1>10. QED
  BY <1>8, <1>9

\* Two servers, one store (multiprocess.mjs).
LEMMA MultiprocessFinds ==
  ChecksInv /\ script = Multiprocess => \A i \in {8, 9, 14, 15} : Finds(i)
<1> SUFFICES ASSUME ChecksInv, script = Multiprocess, NEW i \in {8, 9, 14, 15}, pc[1] = i
             PROVE  FactHolds(1, script.threads[1][i])
  BY DEF Finds
<1>1. /\ ScenarioInv /\ Journey /\ Progress /\ "a" \in Client /\ "b" \in Client /\ "c" \in Client
  BY ScenarioAssumption DEF ChecksInv
<1>2. Edited(script, {"o1", "o2", "p1"})
  BY ScriptEdits
<1>3. store \subseteq {"o1", "o2", "p1"} /\ \A c \in Client : doc[c] \subseteq {"o1", "o2", "p1"}
  BY <1>1, <1>2, MadeWithin
<1>4. /\ {"o1", "o2", "p1"} \subseteq store
      /\ \A c \in {"a", "b"} : {"o1", "o2", "p1"} \subseteq doc[c]
      /\ i \in {14, 15} => {"o1", "o2", "p1"} \subseteq doc["c"]
  BY DEF ChecksInv, Gathered, Collected
<1>5. store = {"o1", "o2", "p1"} /\ doc["a"] = store /\ doc["b"] = store
  BY <1>1, <1>3, <1>4
<1>6. CASE i = 8
  <2>1. script.threads[1][i] = Check("equal", {"a", "b"}, {})
    BY <1>6, MultiprocessTable DEF Has
  <2>2. \A c, d \in {"a", "b"} : doc[c] = doc[d]
    BY <1>5
  <2>3. QED
    BY <2>1, <2>2, CheckFacts
<1>7. CASE i = 9
  <2>1. script.threads[1][i] = Check("stored", {}, {"o1", "p1", "o2"})
    BY <1>7, MultiprocessTable DEF Has
  <2>2. QED
    BY <1>7, <1>5, <2>1, CheckFacts
<1>8. CASE i = 14
  <2>1. script.threads[1][i] = Check("has", {"c"}, {"o1", "p1", "o2"})
    BY <1>8, MultiprocessTable DEF Has
  <2>2. QED
    BY <1>8, <1>4, <2>1, CheckFacts
<1>9. CASE i = 15
  <2>1. script.threads[1][i] = Check("replays", {"a"}, {})
    BY <1>9, MultiprocessTable DEF Has
  <2>2. QED
    BY <1>9, <1>5, <2>1, CheckFacts
<1>10. QED
  BY <1>6, <1>7, <1>8, <1>9

\* What was acknowledged survives the kill (crash_recovery.mjs).
LEMMA CrashRecoveryFinds ==
  ChecksInv /\ script = CrashRecovery => \A i \in {11, 12} : Finds(i)
<1> SUFFICES ASSUME ChecksInv, script = CrashRecovery, NEW i \in {11, 12}, pc[1] = i
             PROVE  FactHolds(1, script.threads[1][i])
  BY DEF Finds
<1>1. {"o1", "o2"} \subseteq store /\ {"o1", "o2"} \subseteq doc["c"]
  BY DEF ChecksInv, Gathered, Collected
<1>2. CASE i = 11
  <2>1. script.threads[1][i] = Check("has", {"c"}, {"o1", "o2"})
    BY <1>2, CrashRecoveryTable DEF Has
  <2>2. QED
    BY <1>2, <1>1, <2>1, CheckFacts
<1>3. CASE i = 12
  <2>1. script.threads[1][i] = Check("stored", {}, {"o1", "o2"})
    BY <1>3, CrashRecoveryTable DEF Has
  <2>2. QED
    BY <1>3, <1>1, <2>1, CheckFacts
<1>4. QED
  BY <1>2, <1>3

\* The barrage changes nothing (chaos.mjs).
LEMMA ChaosFinds ==
  ChecksInv /\ script = Chaos => \A i \in {6, 7, 8, 9} : Finds(i)
<1> SUFFICES ASSUME ChecksInv, script = Chaos, NEW i \in {6, 7, 8, 9}, pc[1] = i
             PROVE  FactHolds(1, script.threads[1][i])
  BY DEF Finds
<1>1. /\ ScenarioInv /\ Journey /\ Progress /\ "a" \in Client /\ "b" \in Client
  BY ScenarioAssumption DEF ChecksInv
<1>2. Edited(script, {"o1", "p1"})
  BY ScriptEdits
<1>3. store \subseteq {"o1", "p1"} /\ \A c \in Client : doc[c] \subseteq {"o1", "p1"}
  BY <1>1, <1>2, MadeWithin
<1>4. {"o1", "p1"} \subseteq store /\ \A c \in {"a", "b"} : {"o1", "p1"} \subseteq doc[c]
  BY DEF ChecksInv, Gathered, Collected
<1>5. store = {"o1", "p1"} /\ doc["a"] = store /\ doc["b"] = store
  <2>1. /\ doc["a"] \subseteq {"o1", "p1"} /\ doc["b"] \subseteq {"o1", "p1"}
        /\ {"o1", "p1"} \subseteq doc["a"] /\ {"o1", "p1"} \subseteq doc["b"]
    BY <1>1, <1>3, <1>4
  <2>2. store = {"o1", "p1"}
    BY <1>3, <1>4
  <2>3. doc["a"] = {"o1", "p1"}
    BY <2>1
  <2>4. doc["b"] = {"o1", "p1"}
    BY <2>1
  <2>5. QED
    BY <2>2, <2>3, <2>4
<1>6. CASE i = 6
  <2>1. script.threads[1][i] = Check("equal", {"a", "b"}, {})
    BY <1>6, ChaosTable DEF Has
  <2>2. \A c, d \in {"a", "b"} : doc[c] = doc[d]
    BY <1>5
  <2>3. QED
    BY <2>1, <2>2, CheckFacts
<1>7. CASE i = 7
  <2>1. script.threads[1][i] = Check("has", {"a"}, {"o1", "p1"})
    BY <1>7, ChaosTable DEF Has
  <2>2. QED
    BY <1>7, <1>5, <2>1, CheckFacts
<1>8. CASE i = 8
  <2>1. script.threads[1][i] = Check("stored", {}, {"o1", "p1"})
    BY <1>8, ChaosTable DEF Has
  <2>2. QED
    BY <1>8, <1>5, <2>1, CheckFacts
<1>9. CASE i = 9
  <2>1. script.threads[1][i] = Check("replays", {"a"}, {})
    BY <1>9, ChaosTable DEF Has
  <2>2. QED
    BY <1>9, <1>5, <2>1, CheckFacts
<1>10. QED
  BY <1>6, <1>7, <1>8, <1>9

\* Whoever came through the storm shows the same, and it is stored (stress.mjs).
LEMMA StressFinds ==
  ChecksInv /\ script = Stress => \A i \in {12, 13} : Finds(i)
<1> SUFFICES ASSUME ChecksInv, script = Stress, NEW i \in {12, 13}, pc[1] = i
             PROVE  FactHolds(1, script.threads[1][i])
  BY DEF Finds
<1>1. /\ ScenarioInv /\ Journey /\ Progress /\ "a" \in Client /\ "c" \in Client
  BY ScenarioAssumption DEF ChecksInv
<1>2. Edited(script, {"o1", "o2", "p1"})
  BY ScriptEdits
<1>3. doc["a"] \subseteq {"o1", "o2", "p1"} /\ doc["c"] \subseteq {"o1", "o2", "p1"}
  BY <1>1, <1>2, MadeWithin
<1>4. {"o1", "o2", "p1"} \subseteq doc["a"] /\ {"o1", "o2", "p1"} \subseteq doc["c"]
  <2>1. /\ Has(script, 8, Await("has", {"a"}, {"o1", "o2", "p1"}))
        /\ Has(script, 11, Await("has", {"c"}, {"o1", "o2", "p1"}))
    BY StressTable
  <2>2. /\ 8 \in Nat /\ 8 >= 1 /\ 8 < pc[1]
        /\ 11 \in Nat /\ 11 >= 1 /\ 11 < pc[1]
    OBVIOUS
  <2>3. QED
    BY <1>1, <2>1, <2>2, FoundAt, Zenon
<1>5. Authored("c") = {}
  BY DEF Authored
<1>6. {"o1", "o2", "p1"} \subseteq store
  BY <1>1, <1>4, <1>5, ShowsStored
<1>7. CASE i = 12
  <2>1. script.threads[1][i] = Check("equal", {"a", "c"}, {})
    BY <1>7, StressTable DEF Has
  <2>2. doc["a"] = doc["c"]
    BY <1>3, <1>4
  <2>3. \A c, d \in {"a", "c"} : doc[c] = doc[d]
    BY <2>2
  <2>4. QED
    BY <2>1, <2>3, CheckFacts
<1>8. CASE i = 13
  <2>1. script.threads[1][i] = Check("stored", {}, {"o1", "o2", "p1"})
    BY <1>8, StressTable DEF Has
  <2>2. QED
    BY <1>6, <2>1, CheckFacts
<1>9. QED
  BY <1>7, <1>8

\* In an outage the edit is with its author, in the queue, and nowhere else.
LEMMA OutageFinds ==
  ASSUME ChecksInv, NEW drained \in Nat, NEW black \in Nat, NEW s, script = s,
         Outage(s, drained, black), pc[1] \in black + 2 .. black + 4
  PROVE  pending["a"] # {} /\ "o2" \notin doc["b"]
<1>1. pending["a"] # {} /\ "o2" \notin store
  BY DEF Outage
<1>2. ScenarioInv /\ "b" \in Client
  BY ScenarioAssumption DEF ChecksInv
<1>3. "o2" \notin Authored("b")
  BY DEF Authored
<1>4. QED
  BY <1>1, <1>2, <1>3, ShowsStored

\* The client that resends each update, in its outage (reliable.mjs).
LEMMA ReliableFinds ==
  ChecksInv /\ script = Reliable => \A i \in {11, 12} : Finds(i)
<1> SUFFICES ASSUME ChecksInv, script = Reliable, NEW i \in {11, 12}, pc[1] = i
             PROVE  FactHolds(1, script.threads[1][i])
  BY DEF Finds
<1>1. Outage(Reliable, 6, 9)
  BY DEF ChecksInv, Outages
<1>2. pending["a"] # {} /\ "o2" \notin doc["b"]
  BY <1>1, OutageFinds
<1>3. CASE i = 11
  <2>1. script.threads[1][i] = Check("lacks", {"b"}, {"o2"})
    BY <1>3, ReliableTable DEF Has
  <2>2. QED
    BY <1>2, <2>1, CheckFacts
<1>4. CASE i = 12
  <2>1. script.threads[1][i] = Check("pending", {"a"}, {})
    BY <1>4, ReliableTable DEF Has
  <2>2. QED
    BY <1>2, <2>1, CheckFacts
<1>5. QED
  BY <1>3, <1>4

\* The provider, in its outage and after it (reliable_provider.mjs).
LEMMA ReliableProviderFinds ==
  ChecksInv /\ script = ReliableProvider => \A i \in {9, 10, 15} : Finds(i)
<1> SUFFICES ASSUME ChecksInv, script = ReliableProvider, NEW i \in {9, 10, 15}, pc[1] = i
             PROVE  FactHolds(1, script.threads[1][i])
  BY DEF Finds
<1>1. Outage(ReliableProvider, 5, 7)
  BY DEF ChecksInv, Outages
<1>2. i \in {9, 10} => pending["a"] # {} /\ "o2" \notin doc["b"]
  BY <1>1, OutageFinds
<1>3. CASE i = 9
  <2>1. script.threads[1][i] = Check("lacks", {"b"}, {"o2"})
    BY <1>3, ReliableProviderTable DEF Has
  <2>2. QED
    BY <1>2, <1>3, <2>1, CheckFacts
<1>4. CASE i = 10
  <2>1. script.threads[1][i] = Check("pending", {"a"}, {})
    BY <1>4, ReliableProviderTable DEF Has
  <2>2. QED
    BY <1>2, <1>4, <2>1, CheckFacts
<1>5. CASE i = 15
  <2>1. /\ ScenarioInv /\ Journey /\ Progress /\ "a" \in Client /\ "b" \in Client
    BY ScenarioAssumption DEF ChecksInv
  <2>2. Edited(script, {"o1", "o2"})
    BY ScriptEdits
  <2>3. doc["a"] \subseteq {"o1", "o2"} /\ doc["b"] \subseteq {"o1", "o2"}
    BY <2>1, <2>2, MadeWithin
  <2>4. Has(script, 3, Edits("a", "o1")) /\ Has(script, 8, Edits("a", "o2"))
    BY ReliableProviderTable DEF BlackTable
  <2>5. "o1" \in doc["a"] /\ "o2" \in doc["a"]
    BY <1>5, <2>1, <2>4, EditedAt
  <2>6. {"o1"} \subseteq doc["b"] /\ {"o2"} \subseteq doc["b"]
    <3>1. /\ Has(script, 4, Await("has", {"b"}, {"o1"}))
          /\ Has(script, 13, Await("has", {"b"}, {"o2"}))
      BY ReliableProviderTable
    <3>2. /\ 4 \in Nat /\ 4 >= 1 /\ 4 < pc[1]
          /\ 13 \in Nat /\ 13 >= 1 /\ 13 < pc[1]
      BY <1>5
    <3>3. QED
      BY <2>1, <3>1, <3>2, FoundAt, Zenon
  <2>7. doc["a"] = doc["b"]
    BY <2>3, <2>5, <2>6
  <2>8. \A c, d \in {"a", "b"} : doc[c] = doc[d]
    BY <2>7
  <2>9. script.threads[1][i] = Check("equal", {"a", "b"}, {})
    BY <1>5, ReliableProviderTable DEF Has
  <2>10. QED
    BY <2>8, <2>9, CheckFacts
<1>6. QED
  BY <1>3, <1>4, <1>5

\* The provider on a lossy network: drained is stored (reliable_stress.mjs).
LEMMA ReliableStressFinds == ChecksInv /\ script = ReliableStress => Finds(9)
<1> SUFFICES ASSUME ChecksInv, script = ReliableStress, pc[1] = 9
             PROVE  FactHolds(1, script.threads[1][9])
  BY DEF Finds
<1>1. {"o1", "o2"} \subseteq store
  BY DEF ChecksInv, Drained
<1>2. script.threads[1][9] = Check("stored", {}, {"o1", "o2"})
  BY ReliableStressTable DEF Has
<1>3. QED
  BY <1>1, <1>2, CheckFacts

\* A script that checks only in its own flow, and finds there what it checks, holds.
LEMMA FlowChecks ==
  ASSUME ScenarioInv, NEW I, OnlyAt(script, {"check"}, I), \A i \in I : Finds(i)
  PROVE  ChecksHold
<1> SUFFICES ASSUME NEW t \in Thread, Ready(t), Current(t).do = "check"
             PROVE  FactHolds(t, Current(t))
  BY DEF ChecksHold
<1>1. t = 1 /\ pc[1] \in I /\ Current(t) = script.threads[1][pc[1]]
  BY CheckAt
<1>2. Finds(pc[1])
  BY <1>1
<1>3. FactHolds(1, script.threads[1][pc[1]])
  BY <1>2 DEF Finds
<1>4. QED
  BY <1>1, <1>3

\* Each script does.
LEMMA ChecksFollow == ChecksInv => ChecksHold
<1> SUFFICES ASSUME ChecksInv PROVE ChecksHold
  OBVIOUS
<1>0. ScenarioInv /\ script \in Scripts
  <2>1. ScenarioInv
    BY DEF ChecksInv
  <2>2. QED
    BY <2>1, Parts DEF ScriptTyped
<1>1. CASE script = E2E
  <2>1. OnlyAt(script, {"check"}, {10}) /\ \A i \in {10} : Finds(i)
    BY <1>1, E2EFinds, E2ETable
  <2>2. QED
    BY <1>0, <2>1, FlowChecks
<1>2. CASE script = SlowStore
  <2>1. OnlyAt(script, {"check"}, {6, 7, 8, 12, 13, 16, 17}) /\ \A i \in {6, 7, 8, 12, 13, 16, 17} : Finds(i)
    BY <1>2, SlowStoreFinds, SlowStoreTable
  <2>2. QED
    BY <1>0, <2>1, FlowChecks
<1>3. CASE script = StoreFailure
  <2>1. OnlyAt(script, {"check"}, {7, 8, 9}) /\ \A i \in {7, 8, 9} : Finds(i)
    BY <1>3, StoreFailureFinds, StoreFailureTable
  <2>2. QED
    BY <1>0, <2>1, FlowChecks
<1>4. CASE script = SelfHeal
  <2>1. OnlyAt(script, {"check"}, {7, 8, 12, 13}) /\ \A i \in {7, 8, 12, 13} : Finds(i)
    BY <1>4, SelfHealFinds, SelfHealTable
  <2>2. QED
    BY <1>0, <2>1, FlowChecks
<1>5. CASE script = OfflineCatchUp
  <2>1. OnlyAt(script, {"check"}, {6, 14}) /\ \A i \in {6, 14} : Finds(i)
    BY <1>5, OfflineCatchUpFinds, OfflineCatchUpTable
  <2>2. QED
    BY <1>0, <2>1, FlowChecks
<1>6. CASE script = Audit
  <2>1. OnlyAt(script, {"check"}, {6, 7}) /\ \A i \in {6, 7} : Finds(i)
    BY <1>6, AuditFinds, AuditTable
  <2>2. QED
    BY <1>0, <2>1, FlowChecks
<1>7. CASE script = Multiprocess
  <2>1. OnlyAt(script, {"check"}, {8, 9, 14, 15}) /\ \A i \in {8, 9, 14, 15} : Finds(i)
    BY <1>7, MultiprocessFinds, MultiprocessTable
  <2>2. QED
    BY <1>0, <2>1, FlowChecks
<1>8. CASE script = CrashRecovery
  <2>1. OnlyAt(script, {"check"}, {11, 12}) /\ \A i \in {11, 12} : Finds(i)
    BY <1>8, CrashRecoveryFinds, CrashRecoveryTable
  <2>2. QED
    BY <1>0, <2>1, FlowChecks
<1>9. CASE script = Chaos
  <2>1. OnlyAt(script, {"check"}, {6, 7, 8, 9}) /\ \A i \in {6, 7, 8, 9} : Finds(i)
    BY <1>9, ChaosFinds, ChaosTable
  <2>2. QED
    BY <1>0, <2>1, FlowChecks
<1>10. CASE script = Stress
  <2>1. OnlyAt(script, {"check"}, {12, 13}) /\ \A i \in {12, 13} : Finds(i)
    BY <1>10, StressFinds, StressTable
  <2>2. QED
    BY <1>0, <2>1, FlowChecks
<1>11. CASE script = AnyCableSlowStore
  <2>1. OnlyAt(script, {"check"}, {6, 7, 10, 13, 14}) /\ \A i \in {6, 7, 10, 13, 14} : Finds(i)
    BY <1>11, AnyCableSlowStoreFinds, AnyCableSlowStoreTable
  <2>2. QED
    BY <1>0, <2>1, FlowChecks
<1>12. CASE script = AnyCableFailure
  <2>1. OnlyAt(script, {"check"}, {7, 8, 12}) /\ \A i \in {7, 8, 12} : Finds(i)
    BY <1>12, AnyCableFailureFinds, AnyCableFailureTable
  <2>2. QED
    BY <1>0, <2>1, FlowChecks
<1>13. CASE script = Reliable
  <2>1. OnlyAt(script, {"check"}, {11, 12}) /\ \A i \in {11, 12} : Finds(i)
    BY <1>13, ReliableFinds, ReliableTable
  <2>2. QED
    BY <1>0, <2>1, FlowChecks
<1>14. CASE script = ReliableProvider
  <2>1. OnlyAt(script, {"check"}, {9, 10, 15}) /\ \A i \in {9, 10, 15} : Finds(i)
    BY <1>14, ReliableProviderFinds, ReliableProviderTable
  <2>2. QED
    BY <1>0, <2>1, FlowChecks
<1>15. CASE script = ReliableStress
  <2>1. OnlyAt(script, {"check"}, {9}) /\ \A i \in {9} : Finds(i)
    BY <1>15, ReliableStressFinds, ReliableStressTable
  <2>2. QED
    BY <1>0, <2>1, FlowChecks
<1>16. QED
  BY <1>0, <1>1, <1>2, <1>3, <1>4, <1>5, <1>6, <1>7, <1>8, <1>9, <1>10, <1>11, <1>12,
     <1>13, <1>14, <1>15 DEF Scripts

\* All that the scripts rely on holds of them in every timing (frontend/*.mjs).
THEOREM ScriptInvariance == ScenarioSpec => []ChecksInv
  BY ChecksInitInv, ChecksStepInv, PTL DEF ScenarioSpec

\* Whatever a script checks holds whenever the script may check it, in every timing
\* of the clients, the cable, the server's workers and the store, under every fault
\* the script injects: an edit that the store has not taken is nowhere but with its
\* author, one that settled is stored, documents agree when the dust is down, the
\* log replays to them (the check() and throw lines of frontend/*.mjs).
THEOREM ScriptsCheckOut == ScenarioSpec => []ChecksHold
  BY ScriptInvariance, ChecksFollow, PTL
=============================================================================
