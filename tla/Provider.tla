------------------------------ MODULE Provider ------------------------------
(***************************************************************************)
(* The Action Cable provider, packages/client/src/actioncable_provider.ts: *)
(* what a browser application calls (connect, disconnect, destroy, edits,  *)
(* presence) and what the cable and the page call back, in any order.  It  *)
(* drives the delivery queue (ReliableSync) and presence (Presence).  Every*)
(* method runs to completion, so it is one step.                           *)
(*                                                                         *)
(* After unsubscribe() the cable calls a subscription no more, and a page  *)
(* between pagehide and pageshow is frozen: only the application's own     *)
(* pagehide handler may still run, and may disconnect or destroy.          *)
(***************************************************************************)
EXTENDS ReliableSync, Presence

VARIABLES
  subscription,  \* #subscription is set; exactly then the page handlers are on
  transport,     \* #connected: the cable says the subscription is up
  status,        \* #status, as the listeners last heard it
  synced,        \* session.synced
  page,          \* "shown" or "hidden"
  stash,         \* #stashedPresence
  destroyed,     \* destroy() was called
  wanted         \* what the application last made of its presence (history)

lifeVars == <<subscription, transport, status, synced, page, stash, destroyed, wanted>>
providerVars == <<rsVars, presenceVars, lifeVars>>

Status == {"connecting", "connected", "synced", "disconnected"}

ProviderInit ==
  /\ RSInit({})
  /\ PresenceInit
  /\ subscription = [c \in Client |-> FALSE]
  /\ transport    = [c \in Client |-> FALSE]
  /\ status       = [c \in Client |-> "disconnected"]
  /\ synced       = [c \in Client |-> FALSE]
  /\ page         = [c \in Client |-> "shown"]
  /\ stash        = [c \in Client |-> Null]
  /\ destroyed    = [c \in Client |-> FALSE]
  /\ wanted       = [c \in Client |-> Blank]

Running(c) == page[c] = "shown" /\ ~destroyed[c]

\* #send does nothing without a subscription, and what is handed to a
\* subscription that is not up is lost.
Carries(c) == subscription[c] /\ transport[c]

ComputeStatus(sub, up, caughtUp) ==
  CASE ~sub           -> "disconnected"
    [] sub /\ ~up     -> "connecting"
    [] sub /\ up      -> IF caughtUp THEN "synced" ELSE "connected"

\* #refreshStatus, at the end of a handler.
RefreshStatus(c) ==
  status' = [status EXCEPT ![c] =
               ComputeStatus(subscription'[c], transport'[c], synced'[c])]

-----------------------------------------------------------------------------
(* The application's calls.                                                *)

\* connect().
Connect(c) ==
  /\ Running(c) /\ ~subscription[c]
  /\ subscription' = [subscription EXCEPT ![c] = TRUE]
  /\ UNCHANGED <<rsVars, presenceVars, transport, synced, page, stash, destroyed, wanted>>
  /\ RefreshStatus(c)

\* Mutant: the subscription is given up before the removal frame is sent.
TearDownFirst(c) ==
  /\ LeavePresence(c, FALSE)
  /\ transport' = [transport EXCEPT ![c] = FALSE]
  /\ synced' = [synced EXCEPT ![c] = FALSE]
  /\ subscription' = [subscription EXCEPT ![c] = FALSE]
  /\ wanted' = [wanted EXCEPT ![c] = Null]
  /\ UNCHANGED <<page, stash>>
  /\ RefreshStatus(c)

\* disconnect()'s work on a live subscription: take leave, pause, detach.
TearDown(c) ==
  /\ LeavePresence(c, Carries(c))
  /\ transport' = [transport EXCEPT ![c] = FALSE]
  /\ synced' = [synced EXCEPT ![c] = FALSE]
  /\ subscription' = [subscription EXCEPT ![c] = FALSE]
  /\ wanted' = [wanted EXCEPT ![c] = Null]
  /\ UNCHANGED <<page, stash>>
  /\ RefreshStatus(c)

\* disconnect().
Disconnect(c) ==
  /\ subscription[c]
  /\ TearDown(c)
  /\ OnDisconnect(c)
  /\ UNCHANGED destroyed

\* destroy(): disconnect(), drop the queue, and awareness.destroy() removes the
\* local state of a provider that was not connected, with nobody listening.
DestroyProvider(c) ==
  /\ ~destroyed[c]
  /\ IF subscription[c] THEN TearDown(c)
     ELSE /\ RemoveLocalAwareness(c, FALSE)
          /\ wanted' = [wanted EXCEPT ![c] = Null]
          /\ UNCHANGED <<subscription, transport, status, synced, page, stash>>
  /\ Destroy(c)
  /\ destroyed' = [destroyed EXCEPT ![c] = TRUE]

\* A local edit fires the document's "update" event.
LocalEdit(c, u) ==
  /\ Running(c)
  /\ Enqueue(c, u)
  /\ UNCHANGED <<presenceVars, lifeVars>>

\* The application sets or removes its presence.
SetPresence(c, s) ==
  /\ Running(c)
  /\ SetLocalState(c, s, Carries(c))
  /\ wanted' = [wanted EXCEPT ![c] = s]
  /\ UNCHANGED <<rsVars, subscription, transport, status, synced, page, stash, destroyed>>

-----------------------------------------------------------------------------
(* The cable's callbacks.                                                  *)

\* connected(): handshake, presence, unacknowledged tail.
CableConnected(c) ==
  /\ Running(c) /\ subscription[c]
  /\ transport' = [transport EXCEPT ![c] = TRUE]
  /\ AnnouncePresence(c)
  /\ OnConnect(c)
  /\ UNCHANGED <<subscription, synced, page, stash, destroyed, wanted>>
  /\ RefreshStatus(c)

\* Mutant: the queue is not told of the drop.
DroppedUnpaused(c) ==
  /\ Running(c) /\ subscription[c]
  /\ transport' = [transport EXCEPT ![c] = FALSE]
  /\ synced' = [synced EXCEPT ![c] = FALSE]
  /\ ClearRemoteStates(c)
  /\ UNCHANGED <<rsVars, subscription, page, stash, destroyed, wanted>>
  /\ RefreshStatus(c)

\* disconnected(): pause, forget who else is here.  The cable will retry.
CableDisconnected(c) ==
  /\ Running(c) /\ subscription[c]
  /\ transport' = [transport EXCEPT ![c] = FALSE]
  /\ synced' = [synced EXCEPT ![c] = FALSE]
  /\ ClearRemoteStates(c)
  /\ OnDisconnect(c)
  /\ UNCHANGED <<subscription, page, stash, destroyed, wanted>>
  /\ RefreshStatus(c)

\* rejected(): the channel refused the subscription; disconnect().
CableRejected(c) ==
  /\ Running(c) /\ subscription[c] /\ ~transport[c]
  /\ TearDown(c)
  /\ OnDisconnect(c)
  /\ UNCHANGED destroyed

\* received({ ack }).
CableAck(c, id) ==
  /\ Running(c) /\ subscription[c]
  /\ OnAck(c, id)
  /\ UNCHANGED <<presenceVars, lifeVars>>

\* Mutant: nobody looks at the status after a SyncStep2.
CableSync2Unnoticed(c) ==
  /\ Running(c) /\ subscription[c]
  /\ synced' = [synced EXCEPT ![c] = TRUE]
  /\ UNCHANGED <<rsVars, presenceVars, subscription, transport, status, page, stash,
                 destroyed, wanted>>

\* received() with a SyncStep2, the server's or a relayed one: messages may
\* come in before connected() does.
CableSync2(c) ==
  /\ Running(c) /\ subscription[c]
  /\ synced' = [synced EXCEPT ![c] = TRUE]
  /\ UNCHANGED <<rsVars, presenceVars, subscription, transport, page, stash,
                 destroyed, wanted>>
  /\ RefreshStatus(c)

\* received() with an awareness frame.
CableAwareness(c, e) ==
  /\ Running(c) /\ subscription[c]
  /\ ApplyEntry(c, e)
  /\ UNCHANGED <<rsVars, lifeVars>>

-----------------------------------------------------------------------------
(* Timers and the page.                                                    *)

\* The retransmit interval.
RetransmitTick(c) ==
  /\ Running(c)
  /\ OnTick(c)
  /\ UNCHANGED <<presenceVars, lifeVars>>

\* The Awareness object renews its state every 15 s.
Renew(c) ==
  /\ Running(c) /\ states[c][c] # Null
  /\ SetLocalState(c, states[c][c], Carries(c))
  /\ UNCHANGED <<rsVars, lifeVars>>

\* Its reaper.
ReapPeer(c, p) ==
  /\ Running(c)
  /\ Reap(c, p, Carries(c))
  /\ UNCHANGED <<rsVars, lifeVars>>

\* pagehide.  The handlers are installed while there is a subscription.
PageHide(c) ==
  /\ page[c] = "shown"
  /\ page' = [page EXCEPT ![c] = "hidden"]
  /\ IF subscription[c]
       THEN /\ stash' = [stash EXCEPT ![c] = states[c][c]]
            /\ RemoveLocalAwareness(c, Carries(c))
       ELSE UNCHANGED <<presenceVars, stash>>
  /\ UNCHANGED <<rsVars, subscription, transport, status, synced, destroyed, wanted>>

\* Mutant: the handlers stay installed after disconnect().
RestoreAnyway(c) ==
  /\ page[c] = "hidden"
  /\ page' = [page EXCEPT ![c] = "shown"]
  /\ IF stash[c] # Null /\ states[c][c] = Null
       THEN SetLocalState(c, stash[c], Carries(c)) ELSE UNCHANGED presenceVars
  /\ stash' = [stash EXCEPT ![c] = Null]
  /\ UNCHANGED <<rsVars, subscription, transport, status, synced, destroyed, wanted>>

\* pageshow with persisted: the user came back out of the bfcache.
PageShow(c) ==
  /\ page[c] = "hidden"
  /\ page' = [page EXCEPT ![c] = "shown"]
  /\ IF subscription[c] /\ stash[c] # Null
       THEN /\ IF states[c][c] = Null THEN SetLocalState(c, stash[c], Carries(c))
                                      ELSE UNCHANGED presenceVars
            /\ stash' = [stash EXCEPT ![c] = Null]
       ELSE UNCHANGED <<presenceVars, stash>>
  /\ UNCHANGED <<rsVars, subscription, transport, status, synced, destroyed, wanted>>

\* Everything that can befall client c apart from edits and acknowledgements.
LifeStep(c) ==
  \/ Connect(c) \/ Disconnect(c) \/ DestroyProvider(c)
  \/ \E s \in Cursor \cup {Null} : SetPresence(c, s)
  \/ CableConnected(c) \/ CableDisconnected(c) \/ CableRejected(c)
  \/ CableSync2(c)
  \/ \E e \in air : CableAwareness(c, e)
  \/ RetransmitTick(c) \/ Renew(c)
  \/ \E p \in Client : ReapPeer(c, p)
  \/ PageHide(c) \/ PageShow(c)

ProviderNext ==
  \E c \in Client :
    \/ LifeStep(c)
    \/ \E u \in SUBSET Op : LocalEdit(c, u)
    \/ \E id \in Nat \cup {-1} : CableAck(c, id)

ProviderSpec == ProviderInit /\ [][ProviderNext]_providerVars

Live(p) == Carries(p) /\ page[p] = "shown" /\ states[p][p] # Null

\* The reaper is an interval timer: where the page is open it gets to whoever
\* has gone.
ReaperRuns ==
  \A c, p \in Client : WF_providerVars(~Live(p) /\ ReapPeer(c, p))

-----------------------------------------------------------------------------
(* Properties.                                                             *)

\* The type invariant of the provider and its presence.
ProviderTypeOK ==
  /\ PresenceTypeOK
  /\ subscription \in [Client -> BOOLEAN]
  /\ transport \in [Client -> BOOLEAN]
  /\ status \in [Client -> Status]
  /\ synced \in [Client -> BOOLEAN]
  /\ page \in [Client -> {"shown", "hidden"}]
  /\ stash \in [Client -> State]
  /\ destroyed \in [Client -> BOOLEAN]
  /\ wanted \in [Client -> State]

\* Provider and queue agree on the transport through every teardown: no
\* interval retransmits into a subscription that is gone, a destroyed provider
\* keeps none of its queue (actioncable_provider.ts:180-222).
InStep ==
  \A c \in Client :
    /\ connected[c] = transport[c]
    /\ transport[c] => subscription[c]
    /\ timer[c] => subscription[c]
    /\ destroyed[c] => ~subscription[c] /\ pending[c] = {}

\* What the listeners last heard is true now, whichever callback came last; no
\* handler changes the three inputs without refreshing the status
\* (actioncable_provider.ts:224-235).
StatusTruthful ==
  \A c \in Client :
    status[c] = ComputeStatus(subscription[c], transport[c], synced[c])

\* A shown page has the presence its application last asked for: pagehide,
\* pageshow, disconnects and drops neither lose it nor bring back what was
\* given up (actioncable_provider.ts:243-258).
PresenceKept ==
  \A c \in Client : page[c] = "shown" => states[c][c] = wanted[c]

\* While a client is connected and has presence, the last thing it said of
\* itself is its present state: what changed while it was away is announced on
\* connect (y_protocol_session.ts:120-126).
PeersTold ==
  \A c \in Client :
    connected[c] /\ states[c][c] # Null =>
      \E e \in air :
        /\ e.from = c /\ e.who = c /\ e.state = states[c][c]
        /\ \A f \in air : f.from = c /\ f.who = c => f.clock =< e.clock

\* A client that takes its leave over a live transport tells its peers, with a
\* clock beyond everything it said before, before it is gone
\* (actioncable_provider.ts:198-207, 245-248).
FarewellSaid ==
  [][\A c \in Client :
       Carries(c) /\ states[c][c] # Null /\ states'[c][c] = Null =>
         \E e \in air' : /\ e.who = c /\ e.state = Null
                         /\ \A f \in air : f.from = c /\ f.who = c => f.clock < e.clock
    ]_providerVars

\* A departed peer's cursor disappears for good where the page is open: the
\* reaper removes it and no straggling frame brings it back.
GhostsFade ==
  \A c, p \in Client :
    c # p => (<>[](Running(c) /\ ~Live(p)) => <>[](states[c][p] = Null))
=============================================================================
