----------------------------- MODULE MCYrbySync -----------------------------
(***************************************************************************)
(* YrbySync for TLC: two clients and a few operations, whose causal order  *)
(* crosses between the clients.  "a1" and "a2" are successive insertions   *)
(* of client "a", "b1" and "b2" of "b", "d" deletes "a1"; either user may  *)
(* delete.                                                                 *)
(***************************************************************************)
EXTENDS YrbySync

\* a2 was typed next to b1, b2 next to a1.
MCPast ==
  [o \in Op |->
     CASE o = "a1" -> {}
       [] o = "a2" -> Op \cap {"a1", "b1"}
       [] o = "b1" -> {}
       [] o = "b2" -> Op \cap {"b1", "a1"}
       [] o = "d"  -> {"a1"}]

MCOwn ==
  [c \in Client |->
     Op \cap (IF c = "a" THEN {"a1", "a2", "d"} ELSE {"b1", "b2", "d"})]

\* One user only.
OwnOfB == [c \in Client |-> IF c = "b" THEN MCOwn["b"] ELSE {}]

MCDelete == Op \cap {"d"}

\* No content from before the session, or client "a" starting with "a1".
NothingPreloaded == [c \in Client |-> {}]
A1Preloaded == [c \in Client |-> IF c = "a" THEN {"a1"} ELSE {}]
=============================================================================
