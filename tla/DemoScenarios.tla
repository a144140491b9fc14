--------------------------- MODULE DemoScenarios ---------------------------
(***************************************************************************)
(* The demo's end-to-end scripts (DemoScripts) against the modelled server *)
(* and cable, in every timing: frames overtake each other, workers stop    *)
(* between two steps, and the script goes on at any moment after what it   *)
(* waits for has come true.  The server is SyncChannel's; the clients share*)
(* YProtocolSession's handlers, whatever class they are of, except where   *)
(* the classes differ.                                                     *)
(***************************************************************************)
EXTENDS YProtocolSession, SyncChannel, DemoScripts, Functions

VARIABLES
  script,    \* the script that runs, chosen at the start
  pc,        \* pc[t]: the next step of thread t
  forked,    \* the threads beside the first have begun
  opened,    \* the clients whose socket the script has opened
  network,   \* network[c]: "clean", "lossy" or "black"
  slow,      \* writes to the store take as long as the script wants
  failNext   \* the next write to the store raises

scriptVars == <<script, pc, forked, opened, network, slow, failNext>>
scenarioVars == <<sessionVars, channelVars, up, down, scriptVars>>

\* Every operation of the scripts, and what it was typed next to.
ScenarioOp == {"o1", "o2", "o3", "p1", "r1"}
ScenarioPast ==
  [o \in ScenarioOp |->
     CASE o \in {"o2", "r1"} -> {"o1"}
       [] o = "o3" -> {"o1", "o2"}
       [] OTHER -> {}]

\* The scripts' clients and operations are among those of the server and the
\* documents, every client starts with an empty document, and no edit of a script
\* comes near the cap on frames (8 MiB, and the demo keeps it, sync.rb:52).
ASSUME ScenarioAssumption ==
  /\ {"a", "b", "c"} \subseteq Client /\ ScenarioOp \subseteq Op
  /\ Cardinality(ScenarioOp) =< MaxFrameOps
  /\ \A c \in Client : Preloaded[c] = {}

\* The script types; nobody starts with content.
ScenarioOwn == [c \in Client |-> Op]
ScenarioPreloaded == [c \in Client |-> {}]

ScenarioInit ==
  /\ SessionInit({}, {})
  /\ ChannelInit({}, {})
  /\ up = {}
  /\ down = [c \in Client |-> {}]
  /\ script \in Scripts
  /\ pc = [t \in DOMAIN script.threads |-> 1]
  /\ forked = FALSE
  /\ opened = {}
  /\ network = [c \in Client |-> "clean"]
  /\ slow = FALSE
  /\ failNext = FALSE

-----------------------------------------------------------------------------
(* The network and the clients.                                            *)

profile == script.profile

\* Whether a frame of kind k that c hands to its socket gets onto it.
Carriage(c, k) ==
  CASE network[c] = "clean" \/ k \notin profile.loses -> {TRUE}
    [] network[c] = "black" /\ k \in profile.loses -> {FALSE}
    [] network[c] = "lossy" /\ k \in profile.loses -> BOOLEAN

\* An open socket's frames, if they are carried.
Outgoing(c, carried, frames) ==
  IF connected[c] /\ carried THEN Enveloped(c, frames) ELSE {}

\* An unacknowledged update of a client that resends each in its own frame.
EachFrame(c) == {Update(p.update, p.seq) : p \in pending[c]}

\* An edit: the document's "update" listener sends it, or queues and sends it.
Type(c, o) ==
  /\ o \notin doc[c] /\ Past[o] \subseteq doc[c]
  /\ doc' = [doc EXCEPT ![c] = @ \cup {o}]
  /\ \E carried \in Carriage(c, "update") :
       CASE profile.queue = "none" ->
              /\ up' = up \cup Outgoing(c, carried, {Update({o}, 0)})
              /\ UNCHANGED rsVars
         [] profile.queue = "each" ->
              /\ up' = up \cup Outgoing(c, carried, {Update({o}, nextSeq[c])})
              /\ pending' = [pending EXCEPT
                               ![c] = @ \cup {[seq |-> nextSeq[c], update |-> {o}]}]
              /\ nextSeq' = [nextSeq EXCEPT ![c] = @ + 1]
              /\ UNCHANGED <<connected, timer, tailCache>>
         [] profile.queue = "tail" ->
              /\ Enqueue(c, {o})
              /\ up' = up \cup Outgoing(c, carried, UpdateFrames(c)')
  /\ UNCHANGED <<parked, synced, down>>

\* The resend interval.
Resend(c) ==
  /\ pending[c] # {} /\ connected[c]
  /\ \E carried \in Carriage(c, "update") :
       CASE profile.queue = "each" ->
              /\ up' = up \cup Outgoing(c, carried, EachFrame(c))
              /\ UNCHANGED rsVars
         [] profile.queue = "tail" ->
              /\ OnTick(c)
              /\ up' = up \cup Outgoing(c, carried, UpdateFrames(c)')
  /\ UNCHANGED <<doc, parked, synced, down>>

\* A client that resends each update forgets the one that is acknowledged.
ReceiveOneAck(c, f) ==
  /\ f \in down[c] /\ f.kind = "ack"
  /\ Consume(c, f)
  /\ pending' = [pending EXCEPT ![c] = {p \in @ : p.seq # f.id}]
  /\ UNCHANGED <<doc, parked, synced, up, nextSeq, connected, timer, tailCache>>

\* What comes to nothing: an ack the network drops, a SyncStep1 nobody answers
\* or whose answer is lost.
ReceiveInVain(c, f) ==
  /\ f \in down[c]
  /\ \/ f.kind = "ack" /\ network[c] = "lossy"
     \/ f.kind = "step1" /\ (~profile.answers \/ FALSE \in Carriage(c, "step2"))
  /\ Consume(c, f)
  /\ UNCHANGED <<doc, parked, synced, up, rsVars>>

ReceiveFrame(c, k) ==
  /\ UNCHANGED <<scriptVars, channelVars>>
  /\ \E f \in down[c] :
    /\ f.kind = k
    /\ \/ profile.queue = "tail" /\ ReceiveAck(c, f)
       \/ profile.queue = "each" /\ ReceiveOneAck(c, f)
       \/ profile.answers /\ TRUE \in Carriage(c, "step2") /\ ReceiveStep1(c, f)
       \/ ReceiveContent(c, f)
       \/ ReceiveInVain(c, f)

\* The server accepts the subscription, and its confirmation arrives.
Join(c) ==
  /\ c \in opened
  /\ SyncSubscribed(c)
  /\ UNCHANGED <<sessionVars, scriptVars>>

\* The confirmation follows the server's SyncStep1 down the same socket: Action
\* Cable holds it back until the stream is up.
Confirmed(c) ==
  /\ subscribed[c] /\ ~connected[c]
  /\ \A f \in down[c] : f.kind # "step1"
  /\ SessionOnConnect(c)
  /\ UNCHANGED <<channelVars, scriptVars>>

ResendTick(c) == Resend(c) /\ UNCHANGED <<channelVars, scriptVars>>

HandleFrame(c, k) ==
  /\ UNCHANGED <<scriptVars, sessionVars>>
  /\ \E e \in up :
    /\ e.client = c /\ e.frame.kind = k
    /\ \/ HandleStep1(e) \/ DropFrame(e) \/ RejectGap(e)
       \/ \E w \in Worker : AcceptUpdate(w, e)

\* The handler goes on; a write fails or dawdles if the script says so.
HandlerStep(w) ==
  /\ UNCHANGED <<script, pc, forked, opened, network, slow, sessionVars>>
  /\ \E j \in jobs :
    /\ j.worker = w
    /\ \/ j.stage = "record" /\ failNext /\ Abort(j) /\ failNext' = FALSE
       \/ ~slow /\ ~failNext /\ RecordChange(j) /\ UNCHANGED failNext
       \/ (DistributeChange(j) \/ SendAck(j)) /\ UNCHANGED failNext

-----------------------------------------------------------------------------
(* The script.                                                             *)

Thread == 1 .. 3

Done(t) == t \in DOMAIN script.threads => pc[t] > Len(script.threads[t])

Ready(t) == ~Done(t) /\ (t = 1 \/ forked)

Current(t) == script.threads[t][pc[t]]

\* What a step waits for or expects, read off the clients, the log or the cable.
FactHolds(t, s) ==
  CASE s.fact = "joined"   -> \A c \in s.cs : connected[c]
    [] s.fact = "synced"   -> \A c \in s.cs : synced[c]
    [] s.fact = "settled"  -> up = {} /\ jobs = {} /\ \A c \in Client : down[c] = {}
    [] s.fact = "has"      -> \A c \in s.cs : s.ops \subseteq doc[c]
    [] s.fact = "lacks"    -> \A c \in s.cs : s.ops \cap doc[c] = {}
    [] s.fact = "stored"   -> s.ops \subseteq store
    [] s.fact = "unstored" -> s.ops \cap store = {}
    [] s.fact = "drained"  -> \A c \in s.cs : pending[c] = {}
    [] s.fact = "pending"  -> \A c \in s.cs : pending[c] # {}
    [] s.fact = "equal"    -> \A c, d \in s.cs : doc[c] = doc[d]
    [] s.fact = "replays"  -> \A c \in s.cs : doc[c] = store
    [] s.fact = "finished" -> \A u \in Thread \ {t} : Done(u)

\* Thread t is at a step of one of the given kinds.
AtStep(t, kinds) == Current(t).do \in kinds

\* new WebSocket(...): the subscription follows by itself.
OpenSockets(t) ==
  /\ AtStep(t, {"open"})
  /\ opened' = opened \cup Current(t).cs
  /\ UNCHANGED <<sessionVars, channelVars, up, down, forked, network, slow, failNext>>

\* The sockets of cs are gone, and with them some frames on their way up.
Drop(cs, lost) ==
  /\ opened'     = opened \ cs
  /\ connected'  = [c \in Client |-> connected[c] /\ c \notin cs]
  /\ timer'      = [c \in Client |-> timer[c] /\ c \notin cs]
  /\ synced'     = [c \in Client |-> synced[c] /\ c \notin cs]
  /\ subscribed' = [c \in Client |-> subscribed[c] /\ c \notin cs]
  /\ down'       = [c \in Client |-> IF c \in cs THEN {} ELSE down[c]]
  /\ up'         = {[e EXCEPT !.live = @ /\ e.client \notin cs] : e \in up \ lost}
  /\ UNCHANGED <<doc, parked, pending, nextSeq, tailCache, store, forked, network,
                 slow, failNext>>

Close(t) ==
  /\ AtStep(t, {"close"})
  /\ \E lost \in SUBSET {e \in up : e.client \in Current(t).cs} :
       Drop(Current(t).cs, lost)
  /\ jobs' = {[j EXCEPT !.live = @ /\ j.client \notin Current(t).cs] : j \in jobs}

\* kill -9 of the server.
Kill(t) ==
  /\ AtStep(t, {"kill"})
  /\ Drop(Client, up)
  /\ jobs' = {}

\* A second socket for the same document: both sides open a handshake again.
Rejoin(t) ==
  /\ AtStep(t, {"rejoin"})
  /\ \E c \in Current(t).cs :
       /\ synced' = [synced EXCEPT ![c] = FALSE]
       /\ up' = up \cup Enveloped(c, {SyncStep1(StateVector(doc[c]))})
       /\ Transmit(c, TRUE, SyncStep1(StateVector(store)))
  /\ UNCHANGED <<doc, parked, rsVars, channelVars, forked, opened, network, slow, failNext>>

\* flushOffline, and the vandal's barrage: a frame out of turn.
SendOutOfTurn(t) ==
  /\ AtStep(t, {"handshake", "noise"})
  /\ \E c \in Current(t).cs :
       up' = up \cup Enveloped(c, {IF Current(t).do = "noise" THEN Update({}, 0)
                                   ELSE SyncStep1(StateVector(doc[c]))})
  /\ UNCHANGED <<sessionVars, channelVars, down, forked, opened, network, slow, failNext>>

EditStep(t) ==
  /\ AtStep(t, {"edit"})
  /\ \E c \in Current(t).cs, o \in Current(t).ops : Type(c, o)
  /\ UNCHANGED <<channelVars, forked, opened, network, slow, failNext>>

\* The switches: the clients' networks, and the store's faults.
Switch(t) ==
  /\ AtStep(t, {"black", "lossy", "clean", "slow", "quick", "fail"})
  /\ network' = [c \in Client |-> IF c \in Current(t).cs THEN Current(t).do ELSE network[c]]
  /\ slow' = (Current(t).do = "slow" \/ (slow /\ Current(t).do # "quick"))
  /\ failNext' = (Current(t).do = "fail" \/ failNext)
  /\ UNCHANGED <<sessionVars, channelVars, up, down, forked, opened>>

Fork(t) ==
  /\ AtStep(t, {"fork"})
  /\ forked' = TRUE
  /\ UNCHANGED <<sessionVars, channelVars, up, down, opened, network, slow, failNext>>

\* waitFor, and a check: what it finds is ChecksHold's.
GoOn(t) ==
  /\ AtStep(t, {"await", "check"})
  /\ Current(t).do = "await" => FactHolds(t, Current(t))
  /\ UNCHANGED <<sessionVars, channelVars, up, down, forked, opened, network, slow, failNext>>

\* Thread t takes the step it is at, and is past it next.
ScriptStep(t) ==
  /\ Ready(t)
  /\ pc' = [pc EXCEPT ![t] = @ + 1]
  /\ UNCHANGED script
  /\ \/ OpenSockets(t) \/ Close(t) \/ Kill(t) \/ Rejoin(t) \/ SendOutOfTurn(t)
     \/ EditStep(t) \/ Switch(t) \/ Fork(t) \/ GoOn(t)

-----------------------------------------------------------------------------

Upward   == {"step1", "step2", "update"}
Downward == Upward \cup {"ack"}

ScenarioNext ==
  \/ \E t \in Thread : ScriptStep(t)
  \/ \E c \in Client :
       \/ Join(c)
       \/ Confirmed(c)
       \/ ResendTick(c)
       \/ \E k \in Downward : ReceiveFrame(c, k)
       \/ \E k \in Upward : HandleFrame(c, k)
  \/ \E w \in Worker : HandlerStep(w)

\* A script is never stuck where it may go on, an open socket is subscribed and
\* delivers both ways, the interval fires, and a worker finishes what it began.
ScenarioFairness ==
  /\ \A t \in Thread : WF_scenarioVars(ScriptStep(t))
  /\ \A c \in Client :
       /\ WF_scenarioVars(Join(c) \/ Confirmed(c))
       /\ WF_scenarioVars(ResendTick(c))
       /\ \A k \in Downward : WF_scenarioVars(ReceiveFrame(c, k))
       /\ \A k \in Upward : WF_scenarioVars(HandleFrame(c, k))
  /\ \A w \in Worker : WF_scenarioVars(HandlerStep(w))

ScenarioSpec ==
  ScenarioInit /\ [][ScenarioNext]_scenarioVars /\ ScenarioFairness

\* The type invariant.
ScenarioTypeOK ==
  /\ SessionTypeOK
  /\ ChannelTypeOK
  /\ up \subseteq Envelope
  /\ down \in [Client -> SUBSET Frame]
  /\ script \in Scripts
  /\ \A t \in DOMAIN pc : pc[t] \in 1 .. Len(script.threads[t]) + 1
  /\ opened \subseteq Client
  /\ network \in [Client -> {"clean", "lossy", "black"}]
  /\ {forked, slow, failNext} \subseteq BOOLEAN

\* Whatever a script checks holds whenever the script may check it, not only in
\* the timing of the day: an edit the store has not taken is nowhere but with its
\* author, one that settled is stored, documents agree when the dust is down
\* (the check() and throw lines of frontend/*.mjs).
ChecksHold ==
  \A t \in Thread :
    Ready(t) /\ Current(t).do = "check" => FactHolds(t, Current(t))

Typed(c) ==
  UNION {s.ops : s \in {s \in UNION {Range(script.threads[t]) :
                                       t \in DOMAIN script.threads} :
                          s.do = "edit" /\ c \in s.cs}}

\* A client shows nothing of others that is not durable: no broadcast outruns its
\* record, under a slow store, a failing one or a killed process
\* (audit_scenarios.mjs:140-195, sync.rb:298-299).
SeenOnlyStored == \A c \in Client : doc[c] \ Typed(c) \subseteq store

\* Every script comes to its end: whatever it waits for happens, although an edit
\* of these clients may travel only once (frontend/*.mjs, every waitFor).
ScriptsFinish == <>(\A t \in Thread : Done(t))
=============================================================================
