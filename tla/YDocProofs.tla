----------------------------- MODULE YDocProofs -----------------------------
(***************************************************************************)
(* What TLAPS proves of YDoc, for any operations, updates and threads: the *)
(* answers of the native calls are exact, whatever the document has        *)
(* pending and whatever other threads apply between two transactions.      *)
(*                                                                         *)
(* The argument: a document never holds parked content that could be       *)
(* integrated (Doc), so rebuilding it on a probe gives it back unchanged,  *)
(* and a probe without the parked part tells about the update alone.       *)
(***************************************************************************)
EXTENDS YDoc, TLAPS

-----------------------------------------------------------------------------
(* Facts about documents.                                                  *)

\* Applying an update yields a document: nothing parked could be integrated.
LEMMA ApplyDoc ==
  ASSUME NEW d \in Doc, NEW u \in SUBSET Op
  PROVE  /\ Apply(d, u) \in Doc
         /\ Apply(d, u).done \cup Apply(d, u).parked = d.done \cup d.parked \cup u
         /\ d.done \subseteq Apply(d, u).done
<1> DEFINE pool == d.parked \cup u
           new  == Integrate(d.done, pool)
<1>1. Apply(d, u) = [done |-> new, parked |-> pool \ new]
  BY DEF Apply
<1>2. d.done \in SUBSET Op /\ d.parked \in SUBSET Op
  BY DEF Doc
<1>3. new \in SUBSET Op /\ d.done \subseteq new
  BY <1>2 DEF Integrate
<1>4. new \cup (pool \ new) = d.done \cup pool
  BY DEF Integrate
<1>5. Closed(new)
  BY <1>2, DocAssumption DEF Closed, Integrate, Doc
<1>6. \A o \in pool \ new : ~(Past[o] \subseteq new \cup (pool \ new))
  BY <1>4 DEF Integrate
<1>7. [done |-> new, parked |-> pool \ new] \in Doc
  <2> HIDE DEF new, pool
  <2>1. pool \ new \in SUBSET Op
    BY <1>2 DEF pool
  <2> QED
    BY <2>1, <1>3, <1>5, <1>6 DEF Doc
<1> QED
  BY <1>1, <1>3, <1>4, <1>7

\* The empty document is one.
LEMMA EmptyIsDoc == EmptyDoc \in Doc
BY DEF EmptyDoc, Doc, Closed

\* Rebuilding a document from its whole state gives it back.
LEMMA Rebuilt ==
  ASSUME NEW d \in Doc
  PROVE  Apply(EmptyDoc, EncodeState(d, {})) = d
<1>1. EncodeState(d, {}) = d.done \cup d.parked
  BY DEF EncodeState, EncodeDiff
<1>2. Integrate({}, d.done \cup d.parked) = d.done
  BY DEF Integrate, Doc, Closed
<1>3. (d.done \cup d.parked) \ d.done = d.parked
  BY DEF Doc, Closed
<1>4. d = [done |-> d.done, parked |-> d.parked]
  BY DEF Doc
<1> QED
  BY <1>1, <1>2, <1>3, <1>4 DEF Apply, EmptyDoc

\* integrated_update is the diff of the integrated state, pending or not.
LEMMA IntegratedOnly ==
  ASSUME NEW d \in Doc, NEW sv
  PROVE  IntegratedUpdate(d, sv) = EncodeDiff(d.done, sv)
<1>1. CASE HasPending(d)
  BY <1>1, Rebuilt DEF IntegratedUpdate
<1>2. CASE ~HasPending(d)
  BY <1>2 DEF IntegratedUpdate, HasPending, EncodeState
<1> QED
  BY <1>1, <1>2

\* The probe of update_ready? decides readiness exactly.
LEMMA ProbeReady ==
  ASSUME NEW d \in Doc, NEW u \in SUBSET Op
  PROVE  IntegratesCleanly(d, u) <=> UpdateReady(d.done, u)
<1> DEFINE bare == [done |-> d.done, parked |-> {}]
<1>1. IntegratedUpdate(d, {}) = d.done
  <2>1. IntegratedUpdate(d, {}) = EncodeDiff(d.done, {})
    BY IntegratedOnly
  <2> QED
    BY <2>1 DEF EncodeDiff
<1>2. Apply(EmptyDoc, d.done) = bare
  BY DEF Apply, EmptyDoc, Integrate, Doc, Closed
<1>3. Apply(bare, u).parked = u \ Integrate(d.done, u)
  BY DEF Apply
<1>4. u \ Integrate(d.done, u) = {} <=> UpdateReady(d.done, u)
  BY DEF Integrate, UpdateReady, Doc, Closed
<1> QED
  BY <1>1, <1>2, <1>3, <1>4 DEF IntegratesCleanly, HasPending

\* What the clock lower bound rejects could not have been integrated.
LEMMA LowerSound ==
  ASSUME NEW S, NEW u \in SUBSET Op, UpdateReady(S, u)
  PROVE  LowerCovered(S, u)
BY YDocAssumption DEF LowerCovered, UpdateReady

\* A larger document is ready for all that a smaller one is ready for.
LEMMA ReadyGrows ==
  ASSUME NEW S, NEW T, S \subseteq T, NEW u, UpdateReady(S, u)
  PROVE  UpdateReady(T, u)
BY DEF UpdateReady

\* The probe of update_advances?, asked of a ready update, decides whether the
\* document lacks some of it.
LEMMA ProbeAdvances ==
  ASSUME NEW d \in Doc, NEW u \in SUBSET Op, UpdateReady(d.done, u)
  PROVE  ChangesProbe(d, u) <=> UpdateAdvances(d.done, u)
<1> DEFINE after == Apply(d, u)
<1>1. Apply(EmptyDoc, EncodeState(d, {})) = d
  BY Rebuilt
<1>2. after \in Doc /\ after.done \cup after.parked = d.done \cup d.parked \cup u
  BY ApplyDoc
<1>3. u \subseteq after.done
  BY DEF Apply, Integrate, UpdateReady
<1>4. ASSUME u \subseteq d.done PROVE after = d
  <2>1. Integrate(d.done, d.parked \cup u) = d.done
    BY <1>4 DEF Integrate, Doc, Closed
  <2>2. (d.parked \cup u) \ d.done = d.parked
    BY <1>4 DEF Doc, Closed
  <2>3. d = [done |-> d.done, parked |-> d.parked]
    BY DEF Doc
  <2> QED
    BY <2>1, <2>2, <2>3 DEF Apply
<1>5. CASE u \cap Delete # {}
  <2>1. ChangesProbe(d, u) <=> EncodeState(d, {}) # EncodeState(after, {})
    BY <1>1, <1>5 DEF ChangesProbe
  <2>2. EncodeState(d, {}) = d.done \cup d.parked
    BY DEF EncodeState, EncodeDiff
  <2>3. EncodeState(after, {}) = after.done \cup after.parked
    BY DEF EncodeState, EncodeDiff
  <2>4. ASSUME u \subseteq d.done \cup d.parked PROVE u \subseteq d.done
    BY <2>4 DEF UpdateReady, Doc
  <2> QED
    BY <1>2, <1>4, <2>1, <2>2, <2>3, <2>4 DEF UpdateAdvances
<1>6. CASE u \cap Delete = {}
  <2>1. ChangesProbe(d, u) <=>
          \/ StateVector(d.done) # StateVector(after.done)
          \/ HasPending(d) # HasPending(after)
    BY <1>1, <1>6 DEF ChangesProbe
  <2>2. u \subseteq StateVector(after.done)
    BY <1>3, <1>6 DEF StateVector
  <2>3. StateVector(d.done) \subseteq d.done
    BY DEF StateVector
  <2> QED
    BY <1>4, <2>1, <2>2, <2>3 DEF UpdateAdvances
<1> QED
  BY <1>5, <1>6

-----------------------------------------------------------------------------
(* The inductive invariant, one thread's call c at a time.                 *)

\* What a call c may claim while S is integrated.
CallRight(S, c) ==
  /\ c.since \subseteq S
  /\ c.op = "update_ready" /\ c.stage = "returned" =>
       IF c.yes THEN UpdateReady(S, c.arg) ELSE ~UpdateReady(c.since, c.arg)
  /\ c.op = "update_advances" /\ c.stage = "returned" /\ UpdateReady(c.since, c.arg) =>
       IF c.yes THEN UpdateAdvances(c.since, c.arg) ELSE ~UpdateAdvances(S, c.arg)
  /\ c.op = "serve" /\ c.stage = "returned" =>
       /\ \A o \in c.served : Past[o] \subseteq c.served \cup c.arg
       /\ c.since \subseteq c.served \cup c.arg
       /\ c.served \subseteq S

YInv ==
  /\ YTypeOK
  /\ \A t \in Thread : CallRight(doc.done, call[t])

\* The invariant says what the properties say.
LEMMA YInvImplies == YInv => ReadyExact /\ AdvancesExact /\ ServedComplete
BY DEF YInv, CallRight, ReadyExact, AdvancesExact, ServedComplete, Answered

\* What a call has claimed stays right while the document grows.
LEMMA RightGrows ==
  ASSUME NEW S, NEW T, S \subseteq T, NEW c, CallRight(S, c)
  PROVE  CallRight(T, c)
BY ReadyGrows DEF CallRight, UpdateAdvances

\* A step of thread t that leaves it with a right call c, while the document
\* only grows, preserves the invariant.
LEMMA CallStep ==
  ASSUME YInv, NEW t \in Thread, NEW c \in Call,
         doc' \in Doc, doc.done \subseteq doc'.done,
         call' = [call EXCEPT ![t] = c], CallRight(doc'.done, c)
  PROVE  YInv'
<1>1. call' \in [Thread -> Call]
  BY DEF YInv, YTypeOK
<1>2. ASSUME NEW s \in Thread PROVE CallRight(doc'.done, call'[s])
  <2>1. CASE s = t
    BY <2>1 DEF YInv, YTypeOK
  <2>2. CASE s # t
    <3>1. call'[s] = call[s]
      BY <2>2 DEF YInv, YTypeOK
    <3>2. CallRight(doc.done, call[s])
      BY DEF YInv
    <3> QED
      BY <3>1, <3>2, RightGrows
  <2> QED
    BY <2>1, <2>2
<1>3. YTypeOK'
  BY <1>1 DEF YTypeOK
<1>4. (\A s \in Thread : CallRight(doc.done, call[s]))'
  BY <1>2
<1> QED
  BY <1>3, <1>4 DEF YInv

\* apply_update (lib.rs:239).
LEMMA ApplyUpdateInv ==
  ASSUME YInv, NEW t \in Thread, NEW u \in Update, ApplyUpdate(t, u)
  PROVE  YInv'
<1>1. doc \in Doc /\ u \in SUBSET Op
  BY YDocAssumption DEF YInv, YTypeOK
<1>2. doc' \in Doc /\ doc.done \subseteq doc'.done
  BY <1>1, ApplyDoc DEF ApplyUpdate
<1>3. NoCall \in Call /\ CallRight(doc'.done, NoCall)
  BY DEF NoCall, Call, CallRight
<1> QED
  BY <1>2, <1>3, CallStep DEF ApplyUpdate

\* handle_sync_message with a SyncStep1, and compacted_state_update (lib.rs:290).
LEMMA ServeInv ==
  ASSUME YInv, NEW t \in Thread, NEW sv \in PeerVectors, Serve(t, sv)
  PROVE  YInv'
<1> DEFINE served == IntegratedUpdate(doc, sv)
           c == [op |-> "serve", stage |-> "returned", arg |-> sv,
                 since |-> doc.done, yes |-> FALSE, served |-> served]
<1>1. doc \in Doc /\ doc.done \in SUBSET Op /\ Closed(doc.done)
  BY DEF YInv, YTypeOK, Doc
<1>2. sv \in SUBSET Op
  BY DEF PeerVectors, StateVector
<1>3. served = EncodeDiff(doc.done, sv)
  BY <1>1, IntegratedOnly
<1>4. served \subseteq doc.done /\ doc.done \subseteq served \cup sv
  BY <1>3 DEF EncodeDiff
<1>5. \A o \in served : Past[o] \subseteq served \cup sv
  BY <1>1, <1>4 DEF Closed
<1>6. c \in Call
  <2> HIDE DEF served
  <2> QED
    BY <1>1, <1>2, <1>4 DEF Call
<1>7. CallRight(doc.done, c)
  <2> HIDE DEF served
  <2> QED
    BY <1>4, <1>5 DEF CallRight
<1>8. call' = [call EXCEPT ![t] = c] /\ doc' = doc
  BY DEF Serve
<1> QED
  BY <1>1, <1>6, <1>7, <1>8, CallStep

\* A question that has not been answered claims nothing.
LEMMA AsksInv ==
  ASSUME YInv, NEW t \in Thread, NEW op \in Question, NEW u \in SUBSET Op,
         Asks(t, op, u), UNCHANGED doc
  PROVE  YInv'
<1> DEFINE c == [op |-> op, stage |-> "second", arg |-> u, since |-> doc.done,
                 yes |-> FALSE, served |-> {}]
<1>1. doc \in Doc /\ doc.done \in SUBSET Op
  BY DEF YInv, YTypeOK, Doc
<1>2. c \in Call /\ CallRight(doc.done, c)
  BY <1>1 DEF Call, CallRight
<1>3. call' = [call EXCEPT ![t] = c]
  BY DEF Asks
<1> QED
  BY <1>1, <1>2, <1>3, CallStep

\* A question answered rightly.
LEMMA AnswersInv ==
  ASSUME YInv, NEW t \in Thread, NEW op \in Question, NEW u \in SUBSET Op,
         NEW since \in SUBSET Op, NEW yes \in BOOLEAN,
         since \subseteq doc.done,
         Answers(t, op, u, since, yes), UNCHANGED doc,
         op = "update_ready" =>
           IF yes THEN UpdateReady(doc.done, u) ELSE ~UpdateReady(since, u),
         op = "update_advances" /\ UpdateReady(since, u) =>
           IF yes THEN UpdateAdvances(since, u) ELSE ~UpdateAdvances(doc.done, u)
  PROVE  YInv'
<1> DEFINE c == [op |-> op, stage |-> "returned", arg |-> u, since |-> since,
                 yes |-> yes, served |-> {}]
<1>1. doc \in Doc
  BY DEF YInv, YTypeOK
<1>2. c \in Call
  BY DEF Call
<1>3. CallRight(doc.done, c)
  BY DEF CallRight, Question
<1>4. call' = [call EXCEPT ![t] = c]
  BY DEF Answers
<1> QED
  BY <1>1, <1>2, <1>3, <1>4, CallStep

\* update_ready? up to its clock test (protocol.rs:85).
LEMMA ReadyFirstInv ==
  ASSUME YInv, NEW t \in Thread, NEW u \in Update, ReadyFirst(t, u)
  PROVE  YInv'
<1>1. u \in SUBSET Op /\ "update_ready" \in Question /\ doc.done \in SUBSET Op
  BY YDocAssumption DEF Question, YInv, YTypeOK, Doc
<1>2. CASE LowerCovered(doc.done, u)
  BY <1>1, <1>2, AsksInv DEF ReadyFirst
<1>3. CASE ~LowerCovered(doc.done, u)
  <2>1. ~UpdateReady(doc.done, u)
    BY <1>1, <1>3, LowerSound
  <2> QED
    BY <1>1, <1>3, <2>1, AnswersInv DEF ReadyFirst
<1> QED
  BY <1>2, <1>3

\* update_ready?, the probe (protocol.rs:96): the document may have grown.
LEMMA ReadySecondInv ==
  ASSUME YInv, NEW t \in Thread, ReadySecond(t)
  PROVE  YInv'
<1> DEFINE u == call[t].arg
           since == call[t].since
           yes == IntegratesCleanly(doc, u)
<1>1. u \in SUBSET Op /\ since \in SUBSET Op /\ "update_ready" \in Question /\ doc \in Doc
  BY DEF Question, YInv, YTypeOK, Call
<1>2. since \subseteq doc.done
  BY DEF YInv, CallRight
<1>3. yes <=> UpdateReady(doc.done, u)
  BY <1>1, ProbeReady
<1>4. yes \in BOOLEAN
  BY DEF IntegratesCleanly
<1>5. IF yes THEN UpdateReady(doc.done, u) ELSE ~UpdateReady(since, u)
  BY <1>2, <1>3, ReadyGrows
<1>6. Answers(t, "update_ready", u, since, yes) /\ UNCHANGED doc
  BY DEF ReadySecond
<1> HIDE DEF u, since, yes
<1> QED
  BY <1>1, <1>2, <1>4, <1>5, <1>6, AnswersInv

\* update_advances?, up to its clock test (protocol.rs:141).
LEMMA AdvancesFirstInv ==
  ASSUME YInv, NEW t \in Thread, NEW u \in Update, AdvancesFirst(t, u)
  PROVE  YInv'
<1>1. u \in SUBSET Op /\ "update_advances" \in Question /\ doc.done \in SUBSET Op
  BY YDocAssumption DEF Question, YInv, YTypeOK, Doc
<1>2. CASE UpdateClocks(u) \subseteq doc.done
  BY <1>1, <1>2, AsksInv DEF AdvancesFirst
<1>3. CASE ~(UpdateClocks(u) \subseteq doc.done)
  <2>1. UpdateAdvances(doc.done, u)
    BY <1>3 DEF UpdateClocks, UpdateAdvances
  <2> QED
    BY <1>1, <1>3, <2>1, AnswersInv DEF AdvancesFirst
<1> QED
  BY <1>2, <1>3

\* update_advances?, the probe (protocol.rs:151): the document may have grown.
LEMMA AdvancesSecondInv ==
  ASSUME YInv, NEW t \in Thread, AdvancesSecond(t)
  PROVE  YInv'
<1> DEFINE u == call[t].arg
           since == call[t].since
           yes == ChangesProbe(doc, u)
<1>1. u \in SUBSET Op /\ since \in SUBSET Op /\ "update_advances" \in Question /\ doc \in Doc
  BY DEF Question, YInv, YTypeOK, Call
<1>2. since \subseteq doc.done
  BY DEF YInv, CallRight
<1>3. UpdateReady(since, u) => (yes <=> UpdateAdvances(doc.done, u))
  BY <1>1, <1>2, ReadyGrows, ProbeAdvances
<1>4. yes \in BOOLEAN
  BY DEF ChangesProbe
<1>5. UpdateReady(since, u) =>
        IF yes THEN UpdateAdvances(since, u) ELSE ~UpdateAdvances(doc.done, u)
  BY <1>2, <1>3 DEF UpdateAdvances
<1>6. Answers(t, "update_advances", u, since, yes) /\ UNCHANGED doc
  BY DEF AdvancesSecond
<1> HIDE DEF u, since, yes
<1> QED
  BY <1>1, <1>2, <1>4, <1>5, <1>6, AnswersInv

\* update_advances? of an update with deletions.
LEMMA AdvancesAtOnceInv ==
  ASSUME YInv, NEW t \in Thread, NEW u \in Update, AdvancesAtOnce(t, u)
  PROVE  YInv'
<1> DEFINE yes == ChangesProbe(doc, u)
<1>1. /\ u \in SUBSET Op /\ "update_advances" \in Question
      /\ doc \in Doc /\ doc.done \in SUBSET Op
  BY YDocAssumption DEF Question, YInv, YTypeOK, Doc
<1>2. yes \in BOOLEAN
  BY DEF ChangesProbe
<1>3. UpdateReady(doc.done, u) => (yes <=> UpdateAdvances(doc.done, u))
  BY <1>1, ProbeAdvances
<1>4. Answers(t, "update_advances", u, doc.done, yes) /\ UNCHANGED doc
  BY DEF AdvancesAtOnce
<1> HIDE DEF yes
<1> QED
  BY <1>1, <1>2, <1>3, <1>4, AnswersInv

\* The invariant holds at the start and is preserved by every step.
LEMMA YInvariance == YSpec => []YInv
<1>1. YInit => YInv
  BY EmptyIsDoc DEF YInit, YInv, YTypeOK, NoCall, Call, CallRight
<1>2. YInv /\ [YNext]_yVars => YInv'
  <2> SUFFICES ASSUME YInv, [YNext]_yVars PROVE YInv'
    OBVIOUS
  <2>1. ASSUME NEW t \in Thread, NEW u \in Update, ApplyUpdate(t, u) PROVE YInv'
    BY <2>1, ApplyUpdateInv
  <2>2. ASSUME NEW t \in Thread, NEW u \in Update, ReadyFirst(t, u) PROVE YInv'
    BY <2>2, ReadyFirstInv
  <2>3. ASSUME NEW t \in Thread, NEW u \in Update, AdvancesFirst(t, u) PROVE YInv'
    BY <2>3, AdvancesFirstInv
  <2>4. ASSUME NEW t \in Thread, NEW u \in Update, AdvancesAtOnce(t, u) PROVE YInv'
    BY <2>4, AdvancesAtOnceInv
  <2>5. ASSUME NEW t \in Thread, NEW sv \in PeerVectors, Serve(t, sv) PROVE YInv'
    BY <2>5, ServeInv
  <2>6. ASSUME NEW t \in Thread, ReadySecond(t) PROVE YInv'
    BY <2>6, ReadySecondInv
  <2>7. ASSUME NEW t \in Thread, AdvancesSecond(t) PROVE YInv'
    BY <2>7, AdvancesSecondInv
  <2>8. CASE UNCHANGED yVars
    BY <2>8 DEF yVars, YInv, YTypeOK, CallRight
  <2> QED
    BY <2>1, <2>2, <2>3, <2>4, <2>5, <2>6, <2>7, <2>8 DEF YNext
<1> QED
  BY <1>1, <1>2, PTL DEF YSpec

\* A document is closed, and never parks what it could integrate, whatever
\* updates arrive in whatever order (lib.rs:239).
THEOREM DocumentWellFormed == YSpec => []YTypeOK
<1>1. YInv => YTypeOK
  BY DEF YInv
<1> QED
  BY <1>1, YInvariance, PTL

\* update_ready? answers exactly, on any document (protocol.rs:82-105).
THEOREM ReadyIsExact == YSpec => []ReadyExact
BY YInvImplies, YInvariance, PTL

\* update_advances? tells a retry from news exactly where the concern asks it
\* (protocol.rs:134-199).
THEOREM AdvancesIsExact == YSpec => []AdvancesExact
BY YInvImplies, YInvariance, PTL

\* A served update is complete and gap-free (protocol.rs:221).
THEOREM ServesComplete == YSpec => []ServedComplete
BY YInvImplies, YInvariance, PTL
=============================================================================
