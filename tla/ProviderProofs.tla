--------------------------- MODULE ProviderProofs ---------------------------
(***************************************************************************)
(* Theorems about the provider: for any number of clients, updates and     *)
(* presence states, whatever the application, the cable and the page do in *)
(* which order.                                                            *)
(***************************************************************************)
EXTENDS Provider, ReliableSyncProofs

\* What a shown page hides and a hidden one keeps: under a subscription the
\* stash holds the presence the application wants, otherwise nothing was hidden.
HiddenKept ==
  \A c \in Client :
    page[c] = "hidden" =>
      IF subscription[c] THEN states[c][c] = Null /\ stash[c] = wanted[c]
                         ELSE states[c][c] = wanted[c]

\* Nobody speaks for another client except to remove it, and nothing a client
\* said of itself is ahead of its clock.
AirHonest ==
  \A e \in air :
    IF e.from = e.who THEN e.clock =< clocks[e.who][e.who] ELSE e.state = Null

\* The inductive invariant.
PInv ==
  /\ ProviderTypeOK
  /\ InStep
  /\ StatusTruthful
  /\ PresenceKept
  /\ HiddenKept
  /\ AirHonest
  /\ PeersTold

-----------------------------------------------------------------------------
(* The queue under the provider.                                           *)

\* What a step does to the queue is one of its methods, or nothing.
LEMMA QueueCalls == [ProviderNext]_providerVars => [RSNext]_rsVars
<1>1. ASSUME NEW c \in Client, LifeStep(c)
      PROVE  UNCHANGED rsVars \/ OnConnect(c) \/ OnDisconnect(c) \/ OnTick(c)
               \/ Destroy(c)
  BY <1>1 DEF LifeStep, Connect, Disconnect, DestroyProvider, SetPresence,
     CableConnected, CableDisconnected, CableRejected, CableSync2,
     CableAwareness, RetransmitTick, Renew, ReapPeer, PageHide, PageShow
<1>2. ASSUME NEW c \in Client, NEW u \in SUBSET Op, LocalEdit(c, u)
      PROVE  RSNext
  BY <1>2 DEF LocalEdit, RSNext
<1>3. ASSUME NEW c \in Client, NEW id \in Nat \cup {-1}, CableAck(c, id)
      PROVE  RSNext
  BY <1>3 DEF CableAck, RSNext
<1>4. CASE UNCHANGED providerVars
  BY <1>4 DEF providerVars
<1>5. ASSUME NEW c \in Client, LifeStep(c)
      PROVE  [RSNext]_rsVars
  BY <1>1, <1>5 DEF RSNext
<1>6. QED
  BY <1>2, <1>3, <1>4, <1>5 DEF ProviderNext

\* The provider uses its queue as the queue expects to be used, so what holds of
\* the queue under any order of calls holds under the provider
\* (actioncable_provider.ts:143-222).
THEOREM ProviderDrivesQueue == ProviderSpec => RSSpec
<1>1. ProviderInit => RSInit({})
  BY DEF ProviderInit
<1>2. QED
  BY <1>1, QueueCalls, PTL DEF ProviderSpec, RSSpec

\* Under the provider the interval runs exactly while it has work
\* (reliable_sync.ts:155-165).
THEOREM ProviderTimerArmed == ProviderSpec => []TimerArmed
  BY ProviderDrivesQueue, RetransmitArmed, PTL

-----------------------------------------------------------------------------
(* The provider's own state.                                               *)

\* A handler that ends in #refreshStatus leaves every status true.
LEMMA Refreshed ==
  ASSUME ProviderTypeOK, StatusTruthful, NEW c \in Client, RefreshStatus(c),
         \A d \in Client \ {c} : /\ subscription'[d] = subscription[d]
                                 /\ transport'[d] = transport[d]
                                 /\ synced'[d] = synced[d]
  PROVE  StatusTruthful'
<1>1. \A d \in Client :
        status'[d] = IF d = c
                     THEN ComputeStatus(subscription'[d], transport'[d], synced'[d])
                     ELSE status[d]
  BY DEF ProviderTypeOK, RefreshStatus
<1>2. QED
  BY <1>1 DEF StatusTruthful

\* The connection state of a step of c: what the queue, the provider and the
\* status make of it.
LEMMA LifeStepKeeps ==
  ASSUME ProviderTypeOK, RSTypeOK, InStep, StatusTruthful, NEW c \in Client,
         LifeStep(c)
  PROVE  /\ subscription' \in [Client -> BOOLEAN]
         /\ transport' \in [Client -> BOOLEAN]
         /\ synced' \in [Client -> BOOLEAN]
         /\ \A d \in Client :
              /\ connected'[d] = transport'[d]
              /\ transport'[d] => subscription'[d]
              /\ destroyed'[d] => ~subscription'[d] /\ pending'[d] = {}
         /\ StatusTruthful'
<1> USE DEF ProviderTypeOK, RSTypeOK, InStep
<1>1. CASE Connect(c)
  <2>1. /\ subscription' = [subscription EXCEPT ![c] = TRUE]
        /\ UNCHANGED <<connected, transport, synced, destroyed, pending>>
        /\ ~destroyed[c] /\ RefreshStatus(c)
    BY <1>1 DEF Connect, Running, rsVars
  <2>2. QED
    BY <2>1, Refreshed
<1>2. CASE CableSync2(c)
  <2>1. /\ synced' = [synced EXCEPT ![c] = TRUE]
        /\ UNCHANGED <<connected, transport, subscription, destroyed, pending>>
        /\ RefreshStatus(c)
    BY <1>2 DEF CableSync2, rsVars
  <2>2. QED
    BY <2>1, Refreshed
<1>3. ASSUME TearDown(c)
      PROVE  /\ transport' = [transport EXCEPT ![c] = FALSE]
             /\ synced' = [synced EXCEPT ![c] = FALSE]
             /\ subscription' = [subscription EXCEPT ![c] = FALSE]
             /\ StatusTruthful'
  <2>1. /\ transport' = [transport EXCEPT ![c] = FALSE]
        /\ synced' = [synced EXCEPT ![c] = FALSE]
        /\ subscription' = [subscription EXCEPT ![c] = FALSE]
        /\ RefreshStatus(c)
    BY <1>3 DEF TearDown
  <2>2. QED
    BY <2>1, Refreshed
<1>4. CASE Disconnect(c) \/ CableRejected(c)
  <2>1. /\ TearDown(c) /\ connected' = [connected EXCEPT ![c] = FALSE]
        /\ UNCHANGED <<pending, destroyed>>
    BY <1>4 DEF Disconnect, CableRejected, OnDisconnect
  <2>2. QED
    BY <2>1, <1>3
<1>5. CASE DestroyProvider(c)
  <2>1. /\ connected' = [connected EXCEPT ![c] = FALSE]
        /\ pending' = [pending EXCEPT ![c] = {}]
        /\ destroyed' = [destroyed EXCEPT ![c] = TRUE]
    BY <1>5 DEF DestroyProvider, Destroy
  <2>2. CASE TearDown(c)
    BY <2>1, <2>2, <1>3
  <2>3. CASE ~subscription[c] /\ UNCHANGED <<subscription, transport, status, synced>>
    BY <2>1, <2>3 DEF StatusTruthful
  <2>4. QED
    BY <1>5, <2>2, <2>3 DEF DestroyProvider
<1>6. CASE CableConnected(c)
  <2>1. /\ connected' = [connected EXCEPT ![c] = TRUE]
        /\ transport' = [transport EXCEPT ![c] = TRUE]
        /\ UNCHANGED <<subscription, synced, destroyed, pending>>
        /\ subscription[c] /\ RefreshStatus(c)
    BY <1>6 DEF CableConnected, OnConnect
  <2>2. QED
    BY <2>1, Refreshed
<1>7. CASE CableDisconnected(c)
  <2>1. /\ connected' = [connected EXCEPT ![c] = FALSE]
        /\ transport' = [transport EXCEPT ![c] = FALSE]
        /\ synced' = [synced EXCEPT ![c] = FALSE]
        /\ UNCHANGED <<subscription, destroyed, pending>>
        /\ RefreshStatus(c)
    BY <1>7 DEF CableDisconnected, OnDisconnect
  <2>2. QED
    BY <2>1, Refreshed
<1>8. CASE UNCHANGED <<connected, pending, subscription, transport, status, synced,
                       destroyed>>
  BY <1>8 DEF StatusTruthful
<1>9. CASE \/ \E s \in Cursor \cup {Null} : SetPresence(c, s)
           \/ \E e \in air : CableAwareness(c, e)
           \/ RetransmitTick(c) \/ Renew(c) \/ \E p \in Client : ReapPeer(c, p)
           \/ PageHide(c) \/ PageShow(c)
  BY <1>8, <1>9 DEF SetPresence, CableAwareness, RetransmitTick, OnTick, Renew,
     ReapPeer, PageHide, PageShow, lifeVars, rsVars
<1>10. QED
  BY <1>1, <1>2, <1>4, <1>5, <1>6, <1>7, <1>9 DEF LifeStep

-----------------------------------------------------------------------------
(* Presence.                                                               *)

\* A step of c's changes no other client's own state, and what it adds to the
\* air comes from c.
OwnVoice(c) ==
  /\ \A d \in Client \ {c} : states'[d][d] = states[d][d]
  /\ air \subseteq air'
  /\ \A e \in air' \ air : e.from = c

\* A step that leaves c's own state alone and says nothing of it.
Quiet(c) ==
  /\ PresenceTypeOK' /\ AirHonest' /\ OwnVoice(c)
  /\ states'[c][c] = states[c][c]
  /\ \A e \in air' \ air : e.who # c

\* A step that makes c's own state s and, if carried, says so with a clock
\* beyond (or, announcing again, not behind) everything c said of itself.
Speaks(c, s, carried) ==
  /\ PresenceTypeOK' /\ AirHonest' /\ OwnVoice(c)
  /\ states'[c][c] = s
  /\ carried =>
       \E e \in air' :
         /\ e.from = c /\ e.who = c /\ e.state = s
         /\ \A f \in air' : f.from = c /\ f.who = c => f.clock =< e.clock

\* The same with a clock strictly beyond.
LastWord(c, s) ==
  \E e \in air' :
    /\ e.who = c /\ e.state = s
    /\ \A f \in air : f.from = c /\ f.who = c => f.clock < e.clock

\* awareness.setLocalState (y_protocol_session.ts:97-104).
LEMMA SetSpeaks ==
  ASSUME PresenceTypeOK, AirHonest, NEW c \in Client, NEW s \in State,
         NEW carried \in BOOLEAN, SetLocalState(c, s, carried)
  PROVE  Speaks(c, s, carried) /\ (carried => LastWord(c, s))
<1> DEFINE e == Say(c, c, s, clocks[c][c] + 1)
<1>1. /\ states' = [states EXCEPT ![c][c] = s]
      /\ clocks' = [clocks EXCEPT ![c][c] = clocks[c][c] + 1]
      /\ air' = air \cup (IF carried THEN {e} ELSE {})
  BY DEF SetLocalState
<1>2. /\ e \in Said /\ e.from = c /\ e.who = c /\ e.state = s
      /\ e.clock = clocks[c][c] + 1
  BY DEF Say, Said, PresenceTypeOK
<1>3. /\ \A d \in Client : states'[d][d] = IF d = c THEN s ELSE states[d][d]
      /\ \A d \in Client : clocks'[d][d] = IF d = c THEN clocks[c][c] + 1
                                                    ELSE clocks[d][d]
      /\ clocks[c][c] \in Nat
  BY <1>1 DEF PresenceTypeOK
<1> HIDE DEF e
<1>4. PresenceTypeOK'
  BY <1>1, <1>2 DEF PresenceTypeOK
<1>5. \A f \in air : f.from = f.who => f.clock \in Nat /\ f.clock =< clocks[f.who][f.who]
  BY DEF AirHonest, PresenceTypeOK, Said
<1>6. AirHonest'
  <2>1. ASSUME NEW f \in air
        PROVE  IF f.from = f.who THEN f.clock =< clocks'[f.who][f.who]
                                 ELSE f.state = Null
    BY <1>3, <1>5 DEF AirHonest, PresenceTypeOK, Said
  <2>2. QED
    BY <1>1, <1>2, <1>3, <2>1 DEF AirHonest
<1>7. OwnVoice(c)
  BY <1>1, <1>2, <1>3 DEF OwnVoice
<1>8. \A f \in air' : f.from = c /\ f.who = c => f = e \/ f.clock < e.clock
  BY <1>1, <1>2, <1>3, <1>5 DEF AirHonest
<1>9. Speaks(c, s, carried)
  <2>1. CASE carried
    <3>1. e \in air' /\ \A f \in air' : f.from = c /\ f.who = c => f.clock =< e.clock
      BY <1>1, <1>2, <1>3, <1>8, <2>1, <1>5
    <3>2. QED
      BY <1>2, <1>3, <1>4, <1>6, <1>7, <3>1 DEF Speaks
  <2>2. QED
    BY <1>3, <1>4, <1>6, <1>7, <2>1 DEF Speaks
<1>10. carried => LastWord(c, s)
  BY <1>1, <1>2, <1>3, <1>5 DEF LastWord
<1>11. QED
  BY <1>9, <1>10

\* disconnect(): take leave and clear the others (y_protocol_session.ts:129-148).
LEMMA LeaveSpeaks ==
  ASSUME PresenceTypeOK, AirHonest, NEW c \in Client, NEW carried \in BOOLEAN,
         LeavePresence(c, carried)
  PROVE  /\ PresenceTypeOK' /\ AirHonest' /\ OwnVoice(c)
         /\ states'[c][c] = Null
         /\ carried /\ states[c][c] # Null => LastWord(c, Null)
<1> DEFINE n == IF states[c][c] # Null THEN clocks[c][c] + 1 ELSE clocks[c][c]
           e == Say(c, c, Null, n)
<1>1. /\ states' = [states EXCEPT ![c] = [p \in Client |-> Null]]
      /\ clocks' = [clocks EXCEPT ![c][c] = n]
      /\ air' = air \cup (IF carried /\ states[c][c] # Null THEN {e} ELSE {})
  BY DEF LeavePresence
<1>2. n \in Nat /\ clocks[c][c] \in Nat /\ n >= clocks[c][c]
      /\ (states[c][c] # Null => n > clocks[c][c])
  BY DEF PresenceTypeOK
<1>3. e \in Said /\ e.from = c /\ e.who = c /\ e.state = Null /\ e.clock = n
  BY <1>2 DEF Say, Said, State
<1> HIDE DEF n, e
<1>4. /\ \A d \in Client : states'[d][d] = IF d = c THEN Null ELSE states[d][d]
      /\ \A d \in Client : clocks'[d][d] = IF d = c THEN n ELSE clocks[d][d]
  BY <1>1 DEF PresenceTypeOK
<1>5. PresenceTypeOK'
  <2>1. Null \in State
    BY DEF State
  <2>2. QED
    BY <1>1, <1>2, <1>3, <2>1 DEF PresenceTypeOK
<1>6. \A f \in air : f.from = f.who => f.clock \in Nat /\ f.clock =< clocks[f.who][f.who]
  BY DEF AirHonest, PresenceTypeOK, Said
<1>7. AirHonest'
  <2>1. ASSUME NEW f \in air
        PROVE  IF f.from = f.who THEN f.clock =< clocks'[f.who][f.who]
                                 ELSE f.state = Null
    BY <1>2, <1>4, <1>6 DEF AirHonest, PresenceTypeOK, Said
  <2>2. QED
    BY <1>1, <1>2, <1>3, <1>4, <2>1 DEF AirHonest
<1>8. OwnVoice(c)
  BY <1>1, <1>3, <1>4 DEF OwnVoice
<1>9. carried /\ states[c][c] # Null => LastWord(c, Null)
  BY <1>1, <1>2, <1>3, <1>6 DEF LastWord
<1>10. QED
  BY <1>4, <1>5, <1>7, <1>8, <1>9

\* onConnect() says again what the client's state is (y_protocol_session.ts:120-126).
LEMMA AnnounceSpeaks ==
  ASSUME PresenceTypeOK, AirHonest, NEW c \in Client, AnnouncePresence(c)
  PROVE  Speaks(c, states[c][c], states[c][c] # Null)
<1> DEFINE e == Say(c, c, states[c][c], clocks[c][c])
<1>1. /\ UNCHANGED <<states, clocks>>
      /\ air' = air \cup (IF states[c][c] # Null THEN {e} ELSE {})
  BY DEF AnnouncePresence
<1>2. /\ e \in Said /\ e.from = c /\ e.who = c /\ e.state = states[c][c]
      /\ e.clock = clocks[c][c] /\ clocks[c][c] \in Nat
  BY DEF Say, Said, PresenceTypeOK
<1> HIDE DEF e
<1>3. PresenceTypeOK' /\ AirHonest' /\ OwnVoice(c)
  BY <1>1, <1>2 DEF PresenceTypeOK, AirHonest, OwnVoice
<1>4. \A f \in air' : f.from = c /\ f.who = c => f.clock =< e.clock
  BY <1>1, <1>2 DEF AirHonest
<1>5. QED
  BY <1>1, <1>2, <1>3, <1>4 DEF Speaks

\* What a client hears, or forgets, of others leaves its own state alone: an
\* entry that removes it only moves its clock, an entry that sets it is an echo.
LEMMA ApplyQuiet ==
  ASSUME PresenceTypeOK, AirHonest, NEW c \in Client, NEW e \in air,
         ApplyEntry(c, e)
  PROVE  Quiet(c)
<1>1. /\ e \in Said /\ e.who \in Client /\ e.clock \in Nat /\ e.state \in State
      /\ clocks[c][c] \in Nat /\ UNCHANGED air
  BY DEF PresenceTypeOK, Said, ApplyEntry
<1>2. e.who = c /\ e.state # Null => e.clock =< clocks[c][c]
  BY DEF AirHonest
<1>3. Newer(c, e)
  BY DEF ApplyEntry
<1>4. CASE e.who = c /\ e.state = Null /\ states[c][c] # Null
  <2>1. clocks' = [clocks EXCEPT ![c][c] = e.clock + 1] /\ UNCHANGED states
    BY <1>4 DEF ApplyEntry
  <2>2. PresenceTypeOK'
    BY <1>1, <2>1 DEF PresenceTypeOK
  <2>3. \A d \in Client : clocks'[d][d] = IF d = c THEN e.clock + 1 ELSE clocks[d][d]
    BY <2>1 DEF PresenceTypeOK
  <2>4. clocks[c][c] =< e.clock
    BY <1>1, <1>3, <1>4 DEF Newer
  <2>5. AirHonest'
    <3>1. ASSUME NEW f \in air, f.from = f.who
          PROVE  f.clock =< clocks'[f.who][f.who]
      <4>1. f.who \in Client /\ f.clock \in Nat /\ f.clock =< clocks[f.who][f.who]
        BY <3>1 DEF AirHonest, PresenceTypeOK, Said
      <4>2. QED
        BY <4>1, <2>3, <2>4, <1>1
    <3>2. QED
      BY <1>1, <3>1 DEF AirHonest
  <2>6. QED
    BY <1>1, <2>1, <2>2, <2>5 DEF Quiet, OwnVoice
<1>5. CASE ~(e.who = c /\ e.state = Null /\ states[c][c] # Null)
  <2>1. /\ states' = [states EXCEPT ![c][e.who] = e.state]
        /\ clocks' = [clocks EXCEPT ![c][e.who] = e.clock]
    BY <1>5 DEF ApplyEntry
  <2>2. PresenceTypeOK'
    BY <1>1, <2>1 DEF PresenceTypeOK
  <2>3. e.who = c => e.state = Null /\ states[c][c] = Null
    BY <1>1, <1>2, <1>3, <1>5 DEF Newer
  <2>4. e.who = c => clocks[c][c] =< e.clock
    BY <1>1, <1>3 DEF Newer
  <2>5. \A d \in Client : states'[d][d] = states[d][d]
    BY <2>1, <2>3 DEF PresenceTypeOK
  <2>6. \A d \in Client : clocks'[d][d] = IF d = c /\ e.who = c THEN e.clock
                                                                ELSE clocks[d][d]
    BY <2>1 DEF PresenceTypeOK
  <2>7. AirHonest'
    <3>1. ASSUME NEW f \in air, f.from = f.who
          PROVE  f.clock =< clocks'[f.who][f.who]
      <4>1. f.who \in Client /\ f.clock \in Nat /\ f.clock =< clocks[f.who][f.who]
        BY <3>1 DEF AirHonest, PresenceTypeOK, Said
      <4>2. QED
        BY <4>1, <2>6, <2>4, <1>1
    <3>2. QED
      BY <1>1, <3>1 DEF AirHonest
  <2>8. QED
    BY <1>1, <2>2, <2>5, <2>7 DEF Quiet, OwnVoice
<1>6. QED
  BY <1>4, <1>5

\* Clearing or reaping others' states leaves the client's own alone
\* (y_protocol_session.ts:129-136).
LEMMA ForgetQuiet ==
  ASSUME PresenceTypeOK, AirHonest, NEW c \in Client,
         \/ ClearRemoteStates(c)
         \/ \E p \in Client : Reap(c, p, Carries(c))
         \/ UNCHANGED presenceVars
  PROVE  Quiet(c)
<1>1. CASE ClearRemoteStates(c)
  <2>1. /\ states' = [states EXCEPT ![c] = [p \in Client |->
                        IF p = c THEN states[c][p] ELSE Null]]
        /\ UNCHANGED <<clocks, air>>
    BY <1>1 DEF ClearRemoteStates
  <2>2. \A d \in Client : states'[d][d] = states[d][d]
    BY <2>1 DEF PresenceTypeOK
  <2>3. Null \in State
    BY DEF State
  <2>4. PresenceTypeOK' /\ AirHonest'
    BY <2>1, <2>3 DEF PresenceTypeOK, AirHonest
  <2>5. QED
    BY <2>1, <2>2, <2>4 DEF Quiet, OwnVoice
<1>2. ASSUME NEW p \in Client, Reap(c, p, Carries(c))
      PROVE  Quiet(c)
  <2> DEFINE e == Say(c, p, Null, clocks[c][p])
  <2>1. /\ p # c /\ states' = [states EXCEPT ![c][p] = Null]
        /\ UNCHANGED clocks
        /\ air' = air \cup (IF Carries(c) THEN {e} ELSE {})
    BY <1>2 DEF Reap
  <2>2. e \in Said /\ e.from = c /\ e.who = p /\ e.state = Null
    BY DEF Say, Said, State, PresenceTypeOK
  <2> HIDE DEF e
  <2>3. Null \in State
    BY DEF State
  <2>4. PresenceTypeOK' /\ AirHonest'
    BY <2>1, <2>2, <2>3 DEF PresenceTypeOK, AirHonest
  <2>5. \A d \in Client : states'[d][d] = states[d][d]
    BY <2>1 DEF PresenceTypeOK
  <2>6. QED
    BY <2>1, <2>2, <2>4, <2>5 DEF Quiet, OwnVoice
<1>3. CASE UNCHANGED presenceVars
  BY <1>3 DEF presenceVars, Quiet, OwnVoice, PresenceTypeOK, AirHonest
<1>4. QED
  BY <1>1, <1>2, <1>3

-----------------------------------------------------------------------------
(* One step of one client.                                                 *)

\* The last thing c said of itself is its present state.
Told(c) ==
  \E e \in air :
    /\ e.from = c /\ e.who = c /\ e.state = states[c][c]
    /\ \A f \in air : f.from = c /\ f.who = c => f.clock =< e.clock

\* What a step of c's owes to the invariant.
Settles(c) ==
  /\ PresenceTypeOK' /\ AirHonest' /\ OwnVoice(c)
  /\ page' \in [Client -> {"shown", "hidden"}]
  /\ stash' \in [Client -> State]
  /\ destroyed' \in [Client -> BOOLEAN]
  /\ wanted' \in [Client -> State]
  /\ \A d \in Client \ {c} :
       /\ page'[d] = page[d] /\ stash'[d] = stash[d] /\ wanted'[d] = wanted[d]
       /\ subscription'[d] = subscription[d] /\ connected'[d] = connected[d]
  /\ page'[c] = "shown" => states'[c][c] = wanted'[c]
  /\ page'[c] = "hidden" =>
       IF subscription'[c] THEN states'[c][c] = Null /\ stash'[c] = wanted'[c]
                           ELSE states'[c][c] = wanted'[c]
  /\ connected'[c] /\ states'[c][c] # Null => Told(c)'
  /\ Carries(c) /\ states[c][c] # Null /\ states'[c][c] = Null => LastWord(c, Null)

\* The cable is up exactly for those whose frames it carries.
LEMMA CarriesConnected ==
  ASSUME InStep, ProviderTypeOK, NEW c \in Client
  PROVE  Carries(c) = connected[c] /\ Carries(c) \in BOOLEAN
BY DEF InStep, Carries, ProviderTypeOK

\* A step that only hears or forgets, or does not touch presence, settles.
LEMMA QuietSettles ==
  ASSUME PInv, NEW c \in Client, Quiet(c), page[c] = "shown",
         connected'[c] => connected[c],
         UNCHANGED <<page, stash, destroyed, wanted>>,
         \A d \in Client \ {c} : /\ subscription'[d] = subscription[d]
                                 /\ connected'[d] = connected[d]
  PROVE  Settles(c)
<1>1. /\ PresenceTypeOK' /\ AirHonest' /\ OwnVoice(c)
      /\ states'[c][c] = states[c][c]
      /\ air \subseteq air' /\ \A e \in air' \ air : e.who # c
  BY DEF Quiet, OwnVoice
<1>2. connected'[c] /\ states'[c][c] # Null => Told(c)'
  <2>1. SUFFICES ASSUME connected'[c], states'[c][c] # Null
                 PROVE  Told(c)'
    OBVIOUS
  <2>2. PICK e \in air : /\ e.from = c /\ e.who = c /\ e.state = states[c][c]
                         /\ \A f \in air : f.from = c /\ f.who = c => f.clock =< e.clock
    BY <1>1, <2>1 DEF PInv, PeersTold
  <2>3. e \in air' /\ \A f \in air' : f.from = c /\ f.who = c => f.clock =< e.clock
    BY <1>1, <2>2
  <2>4. QED
    BY <1>1, <2>2, <2>3 DEF Told
<1>3. page[c] = "shown" /\ states[c][c] = wanted[c]
  BY DEF PInv, PresenceKept
<1>4. QED
  BY <1>1, <1>2, <1>3 DEF Settles, PInv, ProviderTypeOK

\* A step in which c speaks leaves it told.
LEMMA SpeaksTold ==
  ASSUME NEW c \in Client, NEW s, NEW carried \in BOOLEAN, Speaks(c, s, carried),
         connected'[c] /\ s # Null => carried
  PROVE  /\ PresenceTypeOK' /\ AirHonest' /\ OwnVoice(c) /\ states'[c][c] = s
         /\ connected'[c] /\ states'[c][c] # Null => Told(c)'
BY DEF Speaks, Told

\* The application and the awareness timers set c's state under the provider
\* (actioncable_provider.ts:243-258).
LEMMA SetSettles ==
  ASSUME PInv, NEW c \in Client, NEW s \in State, SetLocalState(c, s, Carries(c)),
         connected'[c] => connected[c], UNCHANGED subscription,
         destroyed' \in [Client -> BOOLEAN], page' \in [Client -> {"shown", "hidden"}],
         stash' \in [Client -> State], wanted' \in [Client -> State],
         \A d \in Client \ {c} : /\ page'[d] = page[d] /\ stash'[d] = stash[d]
                                 /\ wanted'[d] = wanted[d]
                                 /\ connected'[d] = connected[d],
         page'[c] = "shown" => s = wanted'[c],
         page'[c] = "hidden" =>
           IF subscription[c] THEN s = Null /\ stash'[c] = wanted'[c]
                              ELSE s = wanted'[c]
  PROVE  Settles(c)
<1>1. Carries(c) \in BOOLEAN /\ Carries(c) = connected[c]
  BY CarriesConnected DEF PInv
<1>2. Speaks(c, s, Carries(c)) /\ (Carries(c) => LastWord(c, s))
  BY <1>1, SetSpeaks DEF PInv, ProviderTypeOK
<1>3. /\ PresenceTypeOK' /\ AirHonest' /\ OwnVoice(c) /\ states'[c][c] = s
      /\ connected'[c] /\ states'[c][c] # Null => Told(c)'
  BY <1>1, <1>2, SpeaksTold
<1>4. QED
  BY <1>2, <1>3 DEF Settles

\* A teardown takes leave (actioncable_provider.ts:198-215).
LEMMA LeaveSettles ==
  ASSUME PInv, NEW c \in Client, TearDown(c), connected' = [connected EXCEPT ![c] = FALSE],
         RSTypeOK, destroyed' \in [Client -> BOOLEAN]
  PROVE  Settles(c)
<1>1. Carries(c) \in BOOLEAN
  BY CarriesConnected DEF PInv
<1>2. LeavePresence(c, Carries(c))
  BY DEF TearDown
<1>3. /\ PresenceTypeOK' /\ AirHonest' /\ OwnVoice(c) /\ states'[c][c] = Null
      /\ Carries(c) /\ states[c][c] # Null => LastWord(c, Null)
  BY <1>1, <1>2, LeaveSpeaks DEF PInv, ProviderTypeOK
<1>4. /\ wanted' = [wanted EXCEPT ![c] = Null]
      /\ subscription' = [subscription EXCEPT ![c] = FALSE]
      /\ UNCHANGED <<page, stash>>
  BY DEF TearDown
<1>5. Null \in State
  BY DEF State
<1>6. /\ page' \in [Client -> {"shown", "hidden"}] /\ stash' \in [Client -> State]
      /\ wanted' \in [Client -> State] /\ wanted'[c] = Null
      /\ subscription'[c] = FALSE /\ connected'[c] = FALSE
      /\ \A d \in Client \ {c} :
           /\ page'[d] = page[d] /\ stash'[d] = stash[d] /\ wanted'[d] = wanted[d]
           /\ subscription'[d] = subscription[d] /\ connected'[d] = connected[d]
  BY <1>4, <1>5 DEF PInv, ProviderTypeOK, RSTypeOK
<1>7. QED
  BY <1>3, <1>6 DEF Settles

\* Whatever befalls a client, it settles.
LEMMA LifeStepSettles ==
  ASSUME PInv, RSTypeOK, NEW c \in Client, LifeStep(c)
  PROVE  Settles(c)
<1>1. /\ ProviderTypeOK /\ PresenceTypeOK /\ AirHonest /\ InStep
      /\ Null \in State /\ states[c][c] \in State
      /\ (page[c] = "shown" => states[c][c] = wanted[c])
      /\ (page[c] = "hidden" =>
            IF subscription[c] THEN states[c][c] = Null /\ stash[c] = wanted[c]
                               ELSE states[c][c] = wanted[c])
  BY DEF PInv, ProviderTypeOK, PresenceTypeOK, State, PresenceKept, HiddenKept
<1>2. UNCHANGED presenceVars => Quiet(c)
  BY <1>1, ForgetQuiet
<1>3. CASE Connect(c)
  <2>1. /\ page[c] = "shown" /\ UNCHANGED <<presenceVars, connected, page, stash,
                                             destroyed, wanted>>
        /\ subscription' = [subscription EXCEPT ![c] = TRUE]
    BY <1>3 DEF Connect, Running, rsVars
  <2>2. \A d \in Client \ {c} : subscription'[d] = subscription[d]
    BY <1>1, <2>1 DEF ProviderTypeOK
  <2>3. QED
    BY <1>2, <2>1, <2>2, QuietSettles
<1>4. CASE Disconnect(c) \/ CableRejected(c)
  <2>1. /\ TearDown(c) /\ connected' = [connected EXCEPT ![c] = FALSE]
        /\ UNCHANGED destroyed
    BY <1>4 DEF Disconnect, CableRejected, OnDisconnect
  <2>2. QED
    BY <1>1, <2>1, LeaveSettles DEF ProviderTypeOK
<1>5. CASE DestroyProvider(c)
  <2>1. /\ connected' = [connected EXCEPT ![c] = FALSE]
        /\ destroyed' = [destroyed EXCEPT ![c] = TRUE]
        /\ destroyed' \in [Client -> BOOLEAN]
    BY <1>1, <1>5 DEF DestroyProvider, Destroy, ProviderTypeOK
  <2>2. CASE subscription[c]
    BY <1>5, <2>1, <2>2, LeaveSettles DEF DestroyProvider
  <2>3. CASE ~subscription[c]
    <3>1. /\ RemoveLocalAwareness(c, Carries(c)) /\ wanted' = [wanted EXCEPT ![c] = Null]
          /\ UNCHANGED <<subscription, page, stash>>
      BY <1>5, <2>3 DEF DestroyProvider, Carries
    <3>2. /\ connected'[c] = FALSE /\ wanted'[c] = Null
          /\ page' \in [Client -> {"shown", "hidden"}] /\ stash' \in [Client -> State]
          /\ wanted' \in [Client -> State]
          /\ \A d \in Client \ {c} :
               /\ page'[d] = page[d] /\ stash'[d] = stash[d] /\ wanted'[d] = wanted[d]
               /\ connected'[d] = connected[d]
      BY <1>1, <2>1, <3>1 DEF ProviderTypeOK, RSTypeOK
    <3>3. CASE states[c][c] # Null
      <4>1. SetLocalState(c, Null, Carries(c))
        BY <3>1, <3>3 DEF RemoveLocalAwareness
      <4>2. QED
        BY <1>1, <2>1, <2>3, <3>1, <3>2, <4>1, SetSettles
    <3>4. CASE states[c][c] = Null
      <4>1. Quiet(c)
        BY <1>2, <3>1, <3>4 DEF RemoveLocalAwareness
      <4>2. /\ PresenceTypeOK' /\ AirHonest' /\ OwnVoice(c) /\ states'[c][c] = Null
        BY <3>4, <4>1 DEF Quiet
      <4>3. QED
        BY <2>1, <2>3, <3>1, <3>2, <3>4, <4>2 DEF Settles
    <3>5. QED
      BY <3>3, <3>4
  <2>4. QED
    BY <2>2, <2>3
<1>6. ASSUME NEW s \in Cursor \cup {Null}, SetPresence(c, s)
      PROVE  Settles(c)
  <2>1. /\ SetLocalState(c, s, Carries(c)) /\ wanted' = [wanted EXCEPT ![c] = s]
        /\ UNCHANGED <<connected, subscription, page, stash, destroyed>>
        /\ page[c] = "shown"
    BY <1>6 DEF SetPresence, Running, rsVars
  <2>2. /\ s \in State /\ wanted' \in [Client -> State] /\ wanted'[c] = s
        /\ \A d \in Client \ {c} : wanted'[d] = wanted[d]
    BY <1>1, <2>1 DEF ProviderTypeOK, State
  <2>3. QED
    BY <1>1, <2>1, <2>2, SetSettles DEF ProviderTypeOK
<1>7. CASE CableConnected(c)
  <2>1. /\ subscription[c] /\ page[c] = "shown" /\ AnnouncePresence(c)
        /\ connected' = [connected EXCEPT ![c] = TRUE]
        /\ UNCHANGED <<subscription, page, stash, destroyed, wanted>>
    BY <1>7 DEF CableConnected, Running, OnConnect
  <2>2. Speaks(c, states[c][c], states[c][c] # Null)
    BY <1>1, <2>1, AnnounceSpeaks
  <2>3. /\ PresenceTypeOK' /\ AirHonest' /\ OwnVoice(c)
        /\ states'[c][c] = states[c][c]
        /\ connected'[c] /\ states'[c][c] # Null => Told(c)'
    BY <2>2, SpeaksTold
  <2>4. \A d \in Client \ {c} : connected'[d] = connected[d]
    BY <2>1 DEF RSTypeOK
  <2>5. QED
    BY <1>1, <2>1, <2>3, <2>4 DEF Settles, ProviderTypeOK
<1>8. CASE CableDisconnected(c)
  <2>1. /\ page[c] = "shown" /\ ClearRemoteStates(c)
        /\ connected' = [connected EXCEPT ![c] = FALSE]
        /\ UNCHANGED <<subscription, page, stash, destroyed, wanted>>
    BY <1>8 DEF CableDisconnected, Running, OnDisconnect
  <2>2. connected'[c] = FALSE /\ \A d \in Client \ {c} : connected'[d] = connected[d]
    BY <2>1 DEF RSTypeOK
  <2>3. QED
    BY <1>1, <2>1, <2>2, ForgetQuiet, QuietSettles
<1>9. ASSUME Quiet(c), page[c] = "shown",
             UNCHANGED <<connected, subscription, page, stash, destroyed, wanted>>
      PROVE  Settles(c)
  BY <1>9, QuietSettles
<1>10. CASE CableSync2(c) \/ RetransmitTick(c)
  <2>1. /\ page[c] = "shown"
        /\ UNCHANGED <<presenceVars, connected, subscription, page, stash, destroyed,
                       wanted>>
    BY <1>10 DEF CableSync2, RetransmitTick, OnTick, Running, rsVars, lifeVars
  <2>2. QED
    BY <1>2, <1>9, <2>1
<1>11. ASSUME NEW e \in air, CableAwareness(c, e)
       PROVE  Settles(c)
  <2>1. /\ page[c] = "shown" /\ ApplyEntry(c, e)
        /\ UNCHANGED <<connected, subscription, page, stash, destroyed, wanted>>
    BY <1>11 DEF CableAwareness, Running, rsVars, lifeVars
  <2>2. QED
    BY <1>1, <1>9, <2>1, ApplyQuiet
<1>12. ASSUME NEW p \in Client, ReapPeer(c, p)
       PROVE  Settles(c)
  <2>1. /\ page[c] = "shown" /\ Reap(c, p, Carries(c))
        /\ UNCHANGED <<connected, subscription, page, stash, destroyed, wanted>>
    BY <1>12 DEF ReapPeer, Running, rsVars, lifeVars
  <2>2. QED
    BY <1>1, <1>9, <2>1, ForgetQuiet
<1>13. CASE Renew(c)
  <2>1. /\ page[c] = "shown" /\ SetLocalState(c, states[c][c], Carries(c))
        /\ UNCHANGED <<connected, subscription, page, stash, destroyed, wanted>>
    BY <1>13 DEF Renew, Running, rsVars, lifeVars
  <2>2. QED
    BY <1>1, <2>1, SetSettles DEF ProviderTypeOK
<1>14. CASE PageHide(c)
  <2>1. /\ page[c] = "shown" /\ page' = [page EXCEPT ![c] = "hidden"]
        /\ UNCHANGED <<connected, subscription, destroyed, wanted>>
    BY <1>14 DEF PageHide, rsVars
  <2>2. /\ page' \in [Client -> {"shown", "hidden"}] /\ page'[c] = "hidden"
        /\ \A d \in Client \ {c} : page'[d] = page[d]
    BY <1>1, <2>1 DEF ProviderTypeOK
  <2>3. CASE subscription[c]
    <3>1. /\ stash' = [stash EXCEPT ![c] = states[c][c]]
          /\ RemoveLocalAwareness(c, Carries(c))
      BY <1>14, <2>3 DEF PageHide
    <3>2. /\ stash' \in [Client -> State] /\ stash'[c] = wanted[c]
          /\ \A d \in Client \ {c} : stash'[d] = stash[d]
      BY <1>1, <2>1, <3>1 DEF ProviderTypeOK
    <3>3. CASE states[c][c] # Null
      <4>1. SetLocalState(c, Null, Carries(c))
        BY <3>1, <3>3 DEF RemoveLocalAwareness
      <4>2. QED
        BY <1>1, <2>1, <2>2, <2>3, <3>2, <4>1, SetSettles DEF ProviderTypeOK
    <3>4. CASE states[c][c] = Null
      <4>1. Quiet(c)
        BY <1>2, <3>1, <3>4 DEF RemoveLocalAwareness
      <4>2. PresenceTypeOK' /\ AirHonest' /\ OwnVoice(c) /\ states'[c][c] = Null
        BY <3>4, <4>1 DEF Quiet
      <4>3. QED
        BY <1>1, <2>1, <2>2, <2>3, <3>2, <3>4, <4>2 DEF Settles, ProviderTypeOK
    <3>5. QED
      BY <3>3, <3>4
  <2>4. CASE ~subscription[c]
    <3>1. UNCHANGED <<presenceVars, stash>>
      BY <1>14, <2>4 DEF PageHide
    <3>2. /\ Quiet(c) /\ ~connected[c]
      BY <1>1, <1>2, <2>4, <3>1 DEF InStep
    <3>3. /\ PresenceTypeOK' /\ AirHonest' /\ OwnVoice(c)
          /\ states'[c][c] = states[c][c]
      BY <3>2 DEF Quiet
    <3>4. QED
      BY <1>1, <2>1, <2>2, <2>4, <3>1, <3>2, <3>3 DEF Settles, ProviderTypeOK
  <2>5. QED
    BY <2>3, <2>4
<1>15. CASE PageShow(c)
  <2>1. /\ page[c] = "hidden" /\ page' = [page EXCEPT ![c] = "shown"]
        /\ UNCHANGED <<connected, subscription, destroyed, wanted>>
    BY <1>15 DEF PageShow, rsVars
  <2>2. /\ page' \in [Client -> {"shown", "hidden"}] /\ page'[c] = "shown"
        /\ \A d \in Client \ {c} : page'[d] = page[d]
    BY <1>1, <2>1 DEF ProviderTypeOK
  <2>3. CASE subscription[c] /\ stash[c] # Null
    <3>1. /\ SetLocalState(c, stash[c], Carries(c))
          /\ stash' = [stash EXCEPT ![c] = Null]
      BY <1>1, <1>15, <2>1, <2>3 DEF PageShow
    <3>2. /\ stash' \in [Client -> State] /\ stash[c] \in State
          /\ \A d \in Client \ {c} : stash'[d] = stash[d]
      BY <1>1, <3>1 DEF ProviderTypeOK
    <3>3. QED
      BY <1>1, <2>1, <2>2, <2>3, <3>1, <3>2, SetSettles DEF ProviderTypeOK
  <2>4. CASE ~(subscription[c] /\ stash[c] # Null)
    <3>1. UNCHANGED <<presenceVars, stash>>
      BY <1>15, <2>4 DEF PageShow
    <3>2. Quiet(c)
      BY <1>2, <3>1
    <3>3. /\ PresenceTypeOK' /\ AirHonest' /\ OwnVoice(c)
          /\ states'[c][c] = states[c][c]
      BY <3>2 DEF Quiet
    <3>4. connected'[c] /\ states'[c][c] # Null => FALSE
      BY <1>1, <2>1, <2>4, <3>3 DEF InStep
    <3>5. QED
      BY <1>1, <2>1, <2>2, <2>4, <3>1, <3>3, <3>4 DEF Settles, ProviderTypeOK
  <2>5. QED
    BY <2>3, <2>4
<1>16. QED
  BY <1>3, <1>4, <1>5, <1>6, <1>7, <1>8, <1>10, <1>11, <1>12, <1>13, <1>14, <1>15
     DEF LifeStep

-----------------------------------------------------------------------------
(* The invariant.                                                          *)

LEMMA PInvInit == ProviderInit => PInv
<1> SUFFICES ASSUME ProviderInit PROVE PInv
  OBVIOUS
<1>1. ProviderTypeOK
  BY DEF ProviderInit, PresenceInit, ProviderTypeOK, PresenceTypeOK, State, Status
<1>2. InStep /\ PeersTold
  <2>1. \A c \in Client : /\ ~timer[c] /\ ~transport[c] /\ ~destroyed[c]
    BY DEF ProviderInit, RSInit
  <2>2. connected = [c \in Client |-> c \in {}]
    BY DEF ProviderInit, RSInit
  <2>3. \A c \in Client : (c \in {}) = FALSE
    OBVIOUS
  <2>4. \A c \in Client : connected[c] = (c \in {})
    BY <2>2, Zenon
  <2>5. \A c \in Client : connected[c] = transport[c] /\ ~connected[c]
    BY <2>3, <2>4 DEF ProviderInit
  <2>6. QED
    BY <2>1, <2>5 DEF InStep, PeersTold
<1>3. \A c \in Client : page[c] = "shown" /\ states[c][c] = wanted[c]
  BY DEF ProviderInit, PresenceInit
<1>4. PresenceKept /\ HiddenKept
  BY <1>3 DEF PresenceKept, HiddenKept
<1>5. AirHonest
  BY DEF ProviderInit, PresenceInit, AirHonest
<1>6. StatusTruthful
  BY DEF ProviderInit, StatusTruthful, ComputeStatus
<1>7. QED
  BY <1>1, <1>2, <1>4, <1>5, <1>6 DEF PInv

\* A step that leaves the connection and presence alone keeps the invariant; the
\* queue's own invariant says when its timer runs.
LEMMA PInvUntouched ==
  ASSUME PInv, RSTypeOK, TimerArmed', UNCHANGED <<presenceVars, lifeVars, connected>>,
         \A c \in Client : destroyed[c] => pending'[c] = {}
  PROVE  PInv'
<1>1. ProviderTypeOK'
  BY DEF PInv, ProviderTypeOK, PresenceTypeOK, presenceVars, lifeVars
<1>2. InStep'
  BY DEF PInv, InStep, TimerArmed, lifeVars
<1>3. StatusTruthful' /\ PresenceKept' /\ HiddenKept' /\ AirHonest' /\ PeersTold'
  BY DEF PInv, StatusTruthful, PresenceKept, HiddenKept, AirHonest, PeersTold,
     presenceVars, lifeVars
<1>4. QED
  BY <1>1, <1>2, <1>3 DEF PInv

LEMMA PInvLife ==
  ASSUME PInv, RSTypeOK, TimerArmed', NEW c \in Client, LifeStep(c)
  PROVE  PInv'
<1>1. Settles(c)
  BY LifeStepSettles
<1>2. /\ subscription' \in [Client -> BOOLEAN]
      /\ transport' \in [Client -> BOOLEAN]
      /\ synced' \in [Client -> BOOLEAN]
      /\ \A d \in Client :
           /\ connected'[d] = transport'[d]
           /\ transport'[d] => subscription'[d]
           /\ destroyed'[d] => ~subscription'[d] /\ pending'[d] = {}
      /\ StatusTruthful'
  BY LifeStepKeeps DEF PInv
<1>3. status' \in [Client -> Status]
  <2>1. RefreshStatus(c) \/ UNCHANGED status
    BY DEF LifeStep, Connect, Disconnect, DestroyProvider, SetPresence, TearDown,
       CableConnected, CableDisconnected, CableRejected, CableSync2,
       CableAwareness, RetransmitTick, Renew, ReapPeer, PageHide, PageShow, lifeVars
  <2>2. ComputeStatus(subscription'[c], transport'[c], synced'[c]) \in Status
    BY <1>2 DEF ComputeStatus, Status
  <2>3. QED
    BY <2>1, <2>2 DEF RefreshStatus, PInv, ProviderTypeOK
<1>4. ProviderTypeOK'
  BY <1>1, <1>2, <1>3 DEF Settles, ProviderTypeOK
<1>5. InStep'
  BY <1>2 DEF InStep, TimerArmed
<1>6. PresenceKept' /\ HiddenKept'
  <2>1. \A d \in Client \ {c} :
          /\ page'[d] = page[d] /\ stash'[d] = stash[d] /\ wanted'[d] = wanted[d]
          /\ subscription'[d] = subscription[d] /\ states'[d][d] = states[d][d]
    BY <1>1 DEF Settles, OwnVoice
  <2>2. QED
    BY <1>1, <2>1 DEF Settles, PInv, PresenceKept, HiddenKept
<1>7. PeersTold'
  <2>1. SUFFICES ASSUME NEW d \in Client, connected'[d], states'[d][d] # Null
                 PROVE  Told(d)'
    BY DEF PeersTold, Told
  <2>2. CASE d = c
    BY <1>1, <2>1, <2>2 DEF Settles
  <2>3. CASE d # c
    <3>1. /\ connected[d] /\ states'[d][d] = states[d][d]
          /\ air \subseteq air' /\ \A f \in air' \ air : f.from = c
      BY <1>1, <2>1, <2>3 DEF Settles, OwnVoice
    <3>2. PICK e \in air :
            /\ e.from = d /\ e.who = d /\ e.state = states[d][d]
            /\ \A f \in air : f.from = d /\ f.who = d => f.clock =< e.clock
      BY <2>1, <3>1 DEF PInv, PeersTold
    <3>3. e \in air' /\ \A f \in air' : f.from = d /\ f.who = d => f.clock =< e.clock
      BY <2>3, <3>1, <3>2
    <3>4. QED
      BY <3>1, <3>2, <3>3 DEF Told
  <2>4. QED
    BY <2>2, <2>3
<1>8. AirHonest'
  BY <1>1 DEF Settles
<1>9. QED
  BY <1>2, <1>4, <1>5, <1>6, <1>7, <1>8 DEF PInv

\* Every step of the provider keeps the invariant, given the queue's.
LEMMA PInvStep == PInv /\ RSInv /\ RSInv' /\ [ProviderNext]_providerVars => PInv'
<1> SUFFICES ASSUME PInv, RSInv, RSInv', [ProviderNext]_providerVars PROVE PInv'
  OBVIOUS
<1>1. RSTypeOK /\ TimerArmed'
  BY DEF RSInv
<1>2. ASSUME NEW c \in Client, LifeStep(c)
      PROVE  PInv'
  BY <1>1, <1>2, PInvLife
<1>3. ASSUME NEW c \in Client, NEW u \in SUBSET Op, LocalEdit(c, u)
      PROVE  PInv'
  <2>1. /\ UNCHANGED <<presenceVars, lifeVars, connected>> /\ ~destroyed[c]
        /\ \A d \in Client \ {c} : pending'[d] = pending[d]
    BY <1>1, <1>3 DEF LocalEdit, Enqueue, Running, RSTypeOK
  <2>2. QED
    BY <1>1, <2>1, PInvUntouched DEF PInv, InStep
<1>4. ASSUME NEW c \in Client, NEW id \in Nat \cup {-1}, CableAck(c, id)
      PROVE  PInv'
  <2>1. /\ UNCHANGED <<presenceVars, lifeVars, connected>> /\ ~destroyed[c]
        /\ \A d \in Client \ {c} : pending'[d] = pending[d]
    BY <1>1, <1>4 DEF CableAck, OnAck, Running, RSTypeOK, rsVars
  <2>2. QED
    BY <1>1, <2>1, PInvUntouched DEF PInv, InStep
<1>5. CASE UNCHANGED providerVars
  <2>1. UNCHANGED <<presenceVars, lifeVars, connected, pending>>
    BY <1>5 DEF providerVars, rsVars
  <2>2. QED
    BY <1>1, <2>1, PInvUntouched DEF PInv, InStep
<1>6. QED
  BY <1>2, <1>3, <1>4, <1>5 DEF ProviderNext

LEMMA PInvariance == ProviderSpec => [](PInv /\ RSInv)
<1>1. ProviderSpec => []RSInv
  BY ProviderDrivesQueue, RSInvariance, PTL
<1>2. ProviderSpec => []PInv
  BY <1>1, PInvInit, PInvStep, PTL DEF ProviderSpec
<1>3. QED
  BY <1>1, <1>2, PTL

\* The provider and its presence keep their types
\* (actioncable_provider.ts:70-104, y_protocol_session.ts:64-107).
THEOREM ProviderTypeCorrect == ProviderSpec => []ProviderTypeOK
<1>1. PInv => ProviderTypeOK
  BY DEF PInv
<1>2. QED
  BY <1>1, PInvariance, PTL

\* Provider and queue agree on the transport through every order of connects,
\* drops, rejections and teardowns (actioncable_provider.ts:180-222).
THEOREM StaysInStep == ProviderSpec => []InStep
<1>1. PInv => InStep
  BY DEF PInv
<1>2. QED
  BY <1>1, PInvariance, PTL

\* The status the listeners last heard is the true one
\* (actioncable_provider.ts:224-235).
THEOREM StatusIsTruthful == ProviderSpec => []StatusTruthful
<1>1. PInv => StatusTruthful
  BY DEF PInv
<1>2. QED
  BY <1>1, PInvariance, PTL

\* A shown page has the presence its application last asked for, whatever
\* pagehide, pageshow and teardowns did in between
\* (actioncable_provider.ts:243-258).
THEOREM PresenceIsKept == ProviderSpec => []PresenceKept
<1>1. PInv => PresenceKept
  BY DEF PInv
<1>2. QED
  BY <1>1, PInvariance, PTL

\* What a connected client last said of itself is its present state
\* (y_protocol_session.ts:120-126).
THEOREM PeersAreTold == ProviderSpec => []PeersTold
<1>1. PInv => PeersTold
  BY DEF PInv
<1>2. QED
  BY <1>1, PInvariance, PTL

\* A client that takes its leave over a live transport says so, with a clock
\* beyond all it said before, before it is gone
\* (actioncable_provider.ts:198-207, 245-248).
THEOREM FarewellIsSaid == ProviderSpec => FarewellSaid
<1> DEFINE Farewell(c) == Carries(c) /\ states[c][c] # Null /\ states'[c][c] = Null =>
         \E e \in air' : /\ e.who = c /\ e.state = Null
                         /\ \A f \in air : f.from = c /\ f.who = c => f.clock < e.clock
<1>1. ASSUME PInv, RSInv, [ProviderNext]_providerVars
      PROVE  [\A c \in Client : Farewell(c)]_providerVars
  <2>1. ASSUME NEW c \in Client, NEW d \in Client, LifeStep(d)
        PROVE  Farewell(c)
    <3>1. Settles(d)
      BY <1>1, <2>1, LifeStepSettles DEF RSInv
    <3>2. CASE c = d
      BY <3>1, <3>2 DEF Settles, LastWord
    <3>3. CASE c # d
      BY <3>1, <3>3 DEF Settles, OwnVoice
    <3>4. QED
      BY <3>2, <3>3
  <2>2. ASSUME UNCHANGED presenceVars
        PROVE  \A c \in Client : Farewell(c)
    BY <2>2 DEF presenceVars
  <2>3. ASSUME NEW d \in Client,
               \/ \E u \in SUBSET Op : LocalEdit(d, u)
               \/ \E id \in Nat \cup {-1} : CableAck(d, id)
        PROVE  UNCHANGED presenceVars
    BY <2>3 DEF LocalEdit, CableAck
  <2>4. QED
    BY <1>1, <2>1, <2>2, <2>3 DEF ProviderNext
<1>2. QED
  BY <1>1, PInvariance, PTL DEF ProviderSpec, FarewellSaid
=============================================================================
