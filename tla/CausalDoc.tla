----------------------------- MODULE CausalDoc -----------------------------
(***************************************************************************)
(* A Y.js document, as far as synchronisation can tell two documents apart.*)
(*                                                                         *)
(* A document is the set of operations it has integrated.  An operation is *)
(* an insertion (one clock of one client id) or a deletion; Past[o] is     *)
(* everything that must be integrated before o can be: for an insertion    *)
(* its client's earlier clocks and its origins, for a deletion its target, *)
(* and all they depend on in turn.  An update is a set of operations.      *)
(* These are the semantics of yrs and Yjs (external libraries) that        *)
(* lib/y/action_cable/sync.rb and the client rely on, and the contract of  *)
(* ext/yrby/src/protocol.rs, on documents that hold no unintegrable        *)
(* content of their own.                                                   *)
(***************************************************************************)
EXTENDS Integers, FiniteSets

CONSTANTS
  Client,    \* the clients editing the document
  Op,        \* the operations that may ever be made
  Delete,    \* the operations that are deletions: they move no clock
  Past       \* Past[o]: the causal past of operation o

ASSUME DocAssumption ==
  /\ Delete \subseteq Op
  /\ Past \in [Op -> SUBSET Op]
  /\ \A o \in Op : o \notin Past[o]
  /\ \A o \in Op : \A p \in Past[o] : Past[p] \subseteq Past[o]

\* A set of operations that needs nothing from outside itself.
Closed(S) == \A o \in S : Past[o] \subseteq S

\* What is integrated once pool has been applied to a document holding S;
\* the rest of pool stays behind as pending structs.  Past is transitive, so
\* an operation whose whole past is at hand is integrated in the same pass.
Integrate(S, pool) == S \cup {o \in pool : Past[o] \subseteq S \cup pool}

\* The state vector: the integrated clocks.  A deletion has none.
StateVector(S) == S \ Delete

\* Mutant: deletions, which no clock witnesses, are left out of the diff.
ClockDiff(S, sv) == {o \in S \ Delete : o \notin sv}

\* encode_state_as_update(sv): the insertions beyond sv and every deletion.
EncodeDiff(S, sv) == {o \in S : o \in Delete \/ o \notin sv}

\* update_ready?(u): u would integrate completely into a document holding S.
UpdateReady(S, u) == \A o \in u : Past[o] \subseteq S \cup u

\* update_advances?(u), for a ready u: S lacks some of its content.
UpdateAdvances(S, u) == ~(u \subseteq S)
=============================================================================
