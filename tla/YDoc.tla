-------------------------------- MODULE YDoc --------------------------------
(***************************************************************************)
(* The native document, ext/yrby/src/lib.rs and protocol.rs: one Y::Doc    *)
(* that several Ruby threads call into.  Unlike the document on_load builds*)
(* it may hold pending content: structs and deletions it was given before  *)
(* what they depend on.                                                    *)
(*                                                                         *)
(* A native call runs without the GVL.  Each transaction of yrs is one step*)
(* (the document's lock makes it one, see NativeCall); a call that opens   *)
(* two transactions is two steps, with other threads' calls in between.    *)
(* Probe documents are private to their call.                              *)
(***************************************************************************)
EXTENDS CausalDoc

CONSTANTS
  Thread,    \* the Ruby threads sharing the document
  Earlier,   \* Earlier[o]: the insertions of o's client with a lower clock
  Update     \* the updates callers may pass

ASSUME YDocAssumption ==
  /\ Earlier \in [Op -> SUBSET (Op \ Delete)]
  /\ \A o \in Op : Earlier[o] \subseteq Past[o]
  /\ Update \subseteq SUBSET Op

VARIABLES
  doc,       \* the shared document
  call       \* call[t]: the call thread t is making, or has last made

yVars == <<doc, call>>

\* Integrated content, which needs nothing else, and what is parked in
\* pending_update and pending_ds, every operation of which lacks something.
Doc == {d \in [done : SUBSET Op, parked : SUBSET Op] :
          /\ Closed(d.done)
          /\ \A o \in d.parked : ~(Past[o] \subseteq d.done \cup d.parked)}

EmptyDoc == [done |-> {}, parked |-> {}]

-----------------------------------------------------------------------------
(* What yrs does to a document.                                            *)

\* Mutant: what was parked is not tried again.
ApplyOnce(d, u) ==
  LET new == Integrate(d.done, u)
  IN  [done |-> new, parked |-> d.parked \cup (u \ new)]

\* apply_update: what was parked is tried again with the new content.
Apply(d, u) ==
  LET pool == d.parked \cup u
      new  == Integrate(d.done, pool)
  IN  [done |-> new, parked |-> pool \ new]

\* encode_state_as_update_v1: lossless, pending content merged in.
EncodeState(d, sv) == EncodeDiff(d.done, sv) \cup d.parked

\* has_pending
HasPending(d) == d.parked # {}

\* state_vector() >= update.state_vector_lower(): the first block of each
\* client in u continues what is integrated.
LowerCovered(S, u) ==
  \A o \in u \ Delete : Earlier[o] \cap u = {} => Earlier[o] \subseteq S

\* update.state_vector(): the clocks of u, of a client it covers from clock 0.
\* It does not see what continues a client's earlier blocks.
UpdateClocks(u) == {o \in u \ Delete : Earlier[o] \subseteq u}

-----------------------------------------------------------------------------
(* The helpers of protocol.rs.                                             *)

\* Mutant: pending content is served along.
ServeLossless(d, sv) == EncodeState(d, sv)

\* integrated_update: rebuilt and pruned, if there is anything to prune.
IntegratedUpdate(d, sv) ==
  IF HasPending(d)
    THEN EncodeDiff(Apply(EmptyDoc, EncodeState(d, {})).done, sv)
    ELSE EncodeState(d, sv)

\* Mutant: the probe inherits what the document has pending.
ProbeWithBaggage(d, u) ==
  ~HasPending(Apply(Apply(EmptyDoc, EncodeState(d, {})), u))

\* update_is_ready, from its second transaction on: a probe seeded with the
\* integrated state takes u without parking any of it.
IntegratesCleanly(d, u) ==
  ~HasPending(Apply(Apply(EmptyDoc, IntegratedUpdate(d, {})), u))

\* Mutant: clocks are compared for every update.
ClocksMoveProbe(d, u) ==
  LET before == Apply(EmptyDoc, EncodeState(d, {}))
  IN  StateVector(before.done) # StateVector(Apply(before, u).done)

\* update_advances_doc, from its second transaction on: a probe seeded with the
\* whole state changes.  Deletions move no clock, so they need the full compare.
ChangesProbe(d, u) ==
  LET before == Apply(EmptyDoc, EncodeState(d, {}))
      after  == Apply(before, u)
  IN  IF u \cap Delete # {}
        THEN EncodeState(before, {}) # EncodeState(after, {})
        ELSE \/ StateVector(before.done) # StateVector(after.done)
             \/ HasPending(before) # HasPending(after)

-----------------------------------------------------------------------------
(* The calls.  since is what was integrated when the call began, which only *)
(* the properties look at; a question is answered in yes, a peer is served *)
(* an encoded update.                                                      *)

Question == {"update_ready", "update_advances"}

NoCall == [op |-> "none", stage |-> "returned", arg |-> {}, since |-> {},
           yes |-> FALSE, served |-> {}]

Call == [op    : {"none", "serve"} \cup Question,
         stage : {"second", "returned"},
         arg   : SUBSET Op,
         since : SUBSET Op,
         yes   : BOOLEAN,
         served : SUBSET Op]

YInit ==
  /\ doc = EmptyDoc
  /\ call = [t \in Thread |-> NoCall]

Free(t) == call[t].stage = "returned"

Asks(t, op, u) ==
  call' = [call EXCEPT ![t] = [op |-> op, stage |-> "second", arg |-> u,
                               since |-> doc.done, yes |-> FALSE,
                               served |-> {}]]

Answers(t, op, u, since, yes) ==
  call' = [call EXCEPT ![t] = [op |-> op, stage |-> "returned", arg |-> u,
                               since |-> since, yes |-> yes, served |-> {}]]

\* apply_update, or handle_sync_message with a SyncStep2 or an Update.
ApplyUpdate(t, u) ==
  /\ Free(t)
  /\ doc' = Apply(doc, u)
  /\ call' = [call EXCEPT ![t] = NoCall]

\* handle_sync_message with a SyncStep1, and compacted_state_update (for which
\* sv is empty): pending check and encode share one transaction.
Serve(t, sv) ==
  /\ Free(t)
  /\ call' = [call EXCEPT ![t] = [op |-> "serve", stage |-> "returned", arg |-> sv,
                                  since |-> doc.done, yes |-> FALSE,
                                  served |-> IntegratedUpdate(doc, sv)]]
  /\ UNCHANGED doc

\* update_ready: the clock lower bound rejects, or leaves it to the probe.
ReadyFirst(t, u) ==
  /\ Free(t)
  /\ IF LowerCovered(doc.done, u)
       THEN Asks(t, "update_ready", u)
       ELSE Answers(t, "update_ready", u, doc.done, FALSE)
  /\ UNCHANGED doc

ReadySecond(t) ==
  /\ call[t].stage = "second" /\ call[t].op = "update_ready"
  /\ Answers(t, "update_ready", call[t].arg, call[t].since,
             IntegratesCleanly(doc, call[t].arg))
  /\ UNCHANGED doc

\* update_advances: without deletions, clocks beyond the document's say yes.
AdvancesFirst(t, u) ==
  /\ Free(t)
  /\ u \cap Delete = {}
  /\ IF UpdateClocks(u) \subseteq doc.done
       THEN Asks(t, "update_advances", u)
       ELSE Answers(t, "update_advances", u, doc.done, TRUE)
  /\ UNCHANGED doc

AdvancesSecond(t) ==
  /\ call[t].stage = "second" /\ call[t].op = "update_advances"
  /\ Answers(t, "update_advances", call[t].arg, call[t].since,
             ChangesProbe(doc, call[t].arg))
  /\ UNCHANGED doc

\* With deletions there is one transaction only.
AdvancesAtOnce(t, u) ==
  /\ Free(t)
  /\ u \cap Delete # {}
  /\ Answers(t, "update_advances", u, doc.done, ChangesProbe(doc, u))
  /\ UNCHANGED doc

\* The state vectors that a peer can hold.
PeerVectors == {StateVector(S) : S \in {T \in SUBSET Op : Closed(T)}}

YNext ==
  \E t \in Thread :
    \/ \E u \in Update :
         \/ ApplyUpdate(t, u)
         \/ ReadyFirst(t, u)
         \/ AdvancesFirst(t, u)
         \/ AdvancesAtOnce(t, u)
    \/ \E sv \in PeerVectors : Serve(t, sv)
    \/ ReadySecond(t)
    \/ AdvancesSecond(t)

YSpec == YInit /\ [][YNext]_yVars

-----------------------------------------------------------------------------
(* Properties.                                                             *)

\* The type invariant.
YTypeOK ==
  /\ doc \in Doc
  /\ call \in [Thread -> Call]

Answered(t, op) == call[t].op = op /\ call[t].stage = "returned"

\* update_ready? answers exactly the question whether the update would
\* integrate, though it reads the document twice and the document may hold
\* pending content: yes still holds when the call returns, no held when it
\* began (protocol.rs:69-81).  The cheap clock test rejects nothing by mistake.
ReadyExact ==
  \A t \in Thread : Answered(t, "update_ready") =>
    IF call[t].yes THEN UpdateReady(doc.done, call[t].arg)
                            ELSE ~UpdateReady(call[t].since, call[t].arg)

\* update_advances?, asked of a ready update, tells a retry from new content,
\* whatever else is pending: a no means that all of it is integrated, a yes that
\* some of it was missing when the call began (protocol.rs:107-133).
AdvancesExact ==
  \A t \in Thread :
    Answered(t, "update_advances") /\ UpdateReady(call[t].since, call[t].arg) =>
      IF call[t].yes THEN UpdateAdvances(call[t].since, call[t].arg)
                              ELSE ~UpdateAdvances(doc.done, call[t].arg)

\* What is served to a peer is complete for it and withholds nothing: a peer
\* whose clocks were asked for integrates all of it (protocol.rs:209-220).
ServedComplete ==
  \A t \in Thread : Answered(t, "serve") =>
    /\ \A o \in call[t].served : Past[o] \subseteq call[t].served \cup call[t].arg
    /\ call[t].since \subseteq call[t].served \cup call[t].arg
    /\ call[t].served \subseteq doc.done

\* "an update that would park reports as advancing, never as a duplicate"
\* (CHANGELOG.md:25-26): after a no from update_advances?, the document holds
\* every operation of the update, integrated or parked.
DuplicateIsHeld ==
  \A t \in Thread : Answered(t, "update_advances") /\ ~call[t].yes =>
    call[t].arg \subseteq doc.done \cup doc.parked
=============================================================================
