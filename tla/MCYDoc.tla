------------------------------- MODULE MCYDoc -------------------------------
(***************************************************************************)
(* YDoc for TLC: "a1", "a2", "a3" are successive insertions of one client, *)
(* "b1" of another is typed next to a1, "d" deletes a1.  An update of two  *)
(* operations is already a merged one, with or without a gap inside.       *)
(***************************************************************************)
EXTENDS YDoc, FiniteSetsExt

CONSTANT MaxMerged  \* bound: the operations in one update

MCEarlier ==
  [o \in Op |-> CASE o = "a2" -> {"a1"}
                 [] o = "a3" -> {"a1", "a2"}
                 [] OTHER -> {}]

MCPast ==
  [o \in Op |-> MCEarlier[o] \cup (IF o \in {"b1", "d"} THEN {"a1"} ELSE {})]

MCUpdate == UNION {kSubset(k, Op) : k \in 1..MaxMerged}
=============================================================================
