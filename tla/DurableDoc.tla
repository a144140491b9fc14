----------------------------- MODULE DurableDoc -----------------------------
(***************************************************************************)
(* What the synchronisation promises, without frames, queues or workers:   *)
(* users write into their own view of a document, writes become durable in *)
(* causal order, every durable write may be shown to everybody, and a      *)
(* writer forgets a write only once it is durable.                         *)
(***************************************************************************)
EXTENDS CausalDoc

CONSTANTS
  Recorded,          \* what is durable to begin with
  Seed               \* Seed[c]: what c's view holds before it starts writing

VARIABLES
  durable,           \* the operations that survive everything
  view,              \* view[c]: the operations c's user sees
  unconfirmed        \* unconfirmed[c]: c's writes not yet confirmed durable

absVars == <<durable, view, unconfirmed>>

AbsInit ==
  /\ durable = Recorded
  /\ view = [c \in Client |-> Seed[c]]
  /\ unconfirmed = [c \in Client |-> {}]

\* A user writes an operation on top of what is in view.
Write(c, o) ==
  /\ o \notin view[c] /\ Past[o] \subseteq view[c]
  /\ view' = [view EXCEPT ![c] = @ \cup {o}]
  /\ unconfirmed' = [unconfirmed EXCEPT ![c] = @ \cup {o}]
  /\ UNCHANGED durable

\* Operations somebody has in view become durable, their past not after them.
Persist(S) ==
  /\ S \subseteq UNION {view[c] : c \in Client}
  /\ Closed(durable \cup S)
  /\ durable' = durable \cup S
  /\ UNCHANGED <<view, unconfirmed>>

\* A writer learns that some of its writes are durable.
Confirm(c, S) ==
  /\ S \subseteq durable
  /\ unconfirmed' = [unconfirmed EXCEPT ![c] = @ \ S]
  /\ UNCHANGED <<durable, view>>

\* Durable operations come into a user's view, their past not after them.
Show(c, S) ==
  /\ S \subseteq durable
  /\ Closed(view[c] \cup S)
  /\ view' = [view EXCEPT ![c] = @ \cup S]
  /\ UNCHANGED <<durable, unconfirmed>>

AbsNext ==
  \/ \E S \in SUBSET Op : Persist(S)
  \/ \E c \in Client :
       \/ \E o \in Op : Write(c, o)
       \/ \E S \in SUBSET Op : Confirm(c, S) \/ Show(c, S)

AbsSpec == AbsInit /\ [][AbsNext]_absVars
=============================================================================
