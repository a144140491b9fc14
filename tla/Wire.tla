-------------------------------- MODULE Wire --------------------------------
(***************************************************************************)
(* The cable between the browser clients and the Rails processes, and the  *)
(* frames on it.  Action Cable and the WebSocket are external: a frame     *)
(* either way is delivered at most once, and not in order - Action Cable   *)
(* hands the messages of one connection to a pool of worker threads, and   *)
(* broadcasts come back through a pub/sub adapter.  So both directions are *)
(* sets.  What is in flight when a connection drops is lost, except for    *)
(* frames the server has already read: those it still handles, with nobody *)
(* left to answer.                                                         *)
(***************************************************************************)
EXTENDS CausalDoc

VARIABLES
  up,     \* frames on their way to the server, each with its connection
  down    \* down[c]: frames on their way to client c's live connection

\* SyncStep1 (ops is a state vector), SyncStep2, Update, and the ack envelope.
\* id 0 is "no id": sequence numbers start at 1.
Frame == [kind : {"step1", "step2", "update", "ack"},
          ops  : SUBSET Op,
          id   : Nat]

SyncStep1(sv)   == [kind |-> "step1",  ops |-> sv, id |-> 0]
SyncStep2(u)    == [kind |-> "step2",  ops |-> u,  id |-> 0]
Update(u, n)    == [kind |-> "update", ops |-> u,  id |-> n]
Ack(n)          == [kind |-> "ack",    ops |-> {}, id |-> n]

\* A frame with the client that sent it; live while the connection it came in
\* on is still that client's connection.
Envelope == [client : Client, live : BOOLEAN, frame : Frame]

Enveloped(c, frames) ==
  {[client |-> c, live |-> TRUE, frame |-> f] : f \in frames}

\* The same envelope or job once client c's connection is gone.
Orphan(c, e) == IF e.client = c THEN [e EXCEPT !.live = FALSE] ELSE e
=============================================================================
