-------------------------- MODULE NativeCallProofs --------------------------
(***************************************************************************)
(* Proofs about NativeCall, for any number of threads, callers and calls:  *)
(* who holds the document's lock, or waits for it, is in the native region *)
(* without the GVL, and the lock never admits a reader beside a writer.    *)
(***************************************************************************)
EXTENDS NativeCall, TLAPS

\* A call's transactions are a suffix of its method's.
CallsTyped == todo \in [Thread -> Method \cup {<<>>}]

\* A transaction that has begun belongs to a call in the native region.
BegunInside ==
  \A t \in Thread : t \in begun => place[t] = "native" /\ todo[t] # <<>>

\* The lock is held within a transaction only.
HeldWithin == \A t \in Thread : Holds(t) => t \in begun

\* Who waits to write has a writing transaction before it.
QueuedWants == \A t \in Thread : t \in queued => Wants(t, "write")

\* The GVL is with a thread in Ruby code.
GVLInRuby == \A t \in Thread : gvl = t => place[t] = "ruby"

\* The inductive invariant.
NInv ==
  /\ NativeTypeOK
  /\ CallsTyped
  /\ BegunInside
  /\ HeldWithin
  /\ QueuedWants
  /\ GVLInRuby

\* What is left of a method after one of its transactions.
LEMMA MethodTail ==
  ASSUME NEW m \in Method
  PROVE  m # <<>> /\ Tail(m) \in Method \cup {<<>>}
<1>1. CASE m = <<"read">>
  BY <1>1 DEF Method
<1>2. CASE m = <<"write">>
  BY <1>2 DEF Method
<1>3. CASE m = <<"read", "read">>
  <2>1. Tail(m) = <<"read">>
    BY <1>3
  <2>2. QED
    BY <1>3, <2>1 DEF Method
<1>4. QED
  BY <1>1, <1>2, <1>3 DEF Method

\* The GVL and the region: the two steps of the interpreter.
LEMMA NInvGVL ==
  ASSUME NInv, NEW t \in Thread, TakeGVL(t) \/ YieldGVL(t)
  PROVE  NInv'
<1>1. /\ todo' = todo /\ calls' = calls /\ begun' = begun /\ reads' = reads
      /\ writer' = writer /\ queued' = queued
      /\ gvl' \in Thread \cup {NoThread}
      /\ place' \in [Thread -> {"ruby", "native", "returning"}]
      /\ \A s \in Thread : place[s] = "native" => place'[s] = "native"
      /\ \A s \in Thread : gvl' = s => place'[s] = "ruby"
  <2>1. CASE TakeGVL(t)
    BY <2>1 DEF NInv, NativeTypeOK, TakeGVL, lockVars
  <2>2. CASE YieldGVL(t)
    BY <2>2, NativeAssumption DEF NInv, NativeTypeOK, YieldGVL, lockVars
  <2>3. QED
    BY <2>1, <2>2
<1>2. NativeTypeOK' /\ CallsTyped'
  BY <1>1 DEF NInv, NativeTypeOK, CallsTyped
<1>3. BegunInside' /\ GVLInRuby'
  BY <1>1 DEF NInv, BegunInside, GVLInRuby
<1>4. HeldWithin' /\ QueuedWants'
  BY <1>1 DEF NInv, HeldWithin, QueuedWants, Holds, Wants
<1>5. QED
  BY <1>2, <1>3, <1>4 DEF NInv

\* A caller in Ruby code has nothing begun and waits for nothing.
LEMMA NInvEnter ==
  ASSUME NInv, NEW t \in Thread, NEW method \in Method, Enter(t, method)
  PROVE  NInv'
<1>1. place[t] = "ruby" /\ t \notin begun /\ t \notin queued
  BY DEF NInv, GVLInRuby, BegunInside, QueuedWants, Wants, Enter
<1>2. /\ begun' = begun /\ reads' = reads /\ writer' = writer /\ queued' = queued
      /\ gvl' = NoThread
      /\ place' = [place EXCEPT ![t] = "native"]
      /\ todo' = [todo EXCEPT ![t] = method]
  BY DEF Enter, lockVars
<1>3. NativeTypeOK' /\ CallsTyped'
  <2>1. calls' \in [Thread -> 0 .. MaxCalls]
    BY NativeAssumption DEF NInv, NativeTypeOK, Enter
  <2>2. QED
    BY <1>2, <2>1 DEF NInv, NativeTypeOK, CallsTyped
<1>4. BegunInside' /\ HeldWithin' /\ QueuedWants'
  BY <1>1, <1>2 DEF NInv, NativeTypeOK, CallsTyped, BegunInside, HeldWithin,
                    QueuedWants, Holds, Wants
<1>5. GVLInRuby'
  BY <1>2, NativeAssumption DEF GVLInRuby
<1>6. QED
  BY <1>3, <1>4, <1>5 DEF NInv

\* A reader is admitted beside readers only.
LEMMA NInvBeginRead ==
  ASSUME NInv, NEW t \in Thread, BeginRead(t)
  PROVE  NInv'
<1>1. /\ place[t] = "native" /\ todo[t] # <<>> /\ t \notin begun /\ reads[t] = 0
  BY DEF NInv, NativeTypeOK, HeldWithin, Holds, BeginRead, Wants
<1>2. NativeTypeOK' /\ CallsTyped'
  BY <1>1, NativeAssumption DEF NInv, NativeTypeOK, CallsTyped, BeginRead
<1>3. BegunInside' /\ HeldWithin' /\ GVLInRuby'
  BY <1>1 DEF NInv, NativeTypeOK, BegunInside, HeldWithin, Holds, GVLInRuby, BeginRead
<1>4. QueuedWants'
  BY DEF NInv, QueuedWants, BeginRead
<1>5. QED
  BY <1>2, <1>3, <1>4 DEF NInv

\* Waiting changes nothing else.
LEMMA NInvQueueWrite ==
  ASSUME NInv, NEW t \in Thread, QueueWrite(t)
  PROVE  NInv'
<1>1. NativeTypeOK' /\ CallsTyped'
  BY DEF NInv, NativeTypeOK, CallsTyped, QueueWrite
<1>2. BegunInside' /\ HeldWithin' /\ GVLInRuby'
  BY DEF NInv, BegunInside, HeldWithin, Holds, GVLInRuby, QueueWrite
<1>3. QueuedWants'
  BY DEF NInv, QueuedWants, QueueWrite, Wants
<1>4. QED
  BY <1>1, <1>2, <1>3 DEF NInv

\* A writer is admitted alone.
LEMMA NInvBeginWrite ==
  ASSUME NInv, NEW t \in Thread, BeginWrite(t)
  PROVE  NInv'
<1>1. place[t] = "native" /\ todo[t] # <<>> /\ t \notin begun
  BY DEF NInv, QueuedWants, Wants, BeginWrite
<1>2. NativeTypeOK' /\ CallsTyped'
  BY DEF NInv, NativeTypeOK, CallsTyped, BeginWrite
<1>3. BegunInside' /\ HeldWithin' /\ GVLInRuby'
  BY <1>1 DEF NInv, NativeTypeOK, BegunInside, HeldWithin, Holds, GVLInRuby, BeginWrite
<1>4. QueuedWants'
  BY <1>1 DEF NInv, QueuedWants, BeginWrite, Wants
<1>5. QED
  BY <1>2, <1>3, <1>4 DEF NInv

\* The end of a transaction, by its end, the method's or a panic: the lock goes
\* with it.
LEMMA NInvEnd ==
  ASSUME NInv, NEW t \in Thread, EndTransaction(t) \/ Panic(t)
  PROVE  NInv'
<1>1. t \in begun /\ t \notin queued /\ todo[t] \in Method
  BY DEF NInv, CallsTyped, BegunInside, QueuedWants, Wants, EndTransaction, Panic
<1>2. /\ gvl' = gvl /\ place' = place /\ calls' = calls
      /\ Release(t)
      /\ \E rest \in Method \cup {<<>>} : todo' = [todo EXCEPT ![t] = rest]
  <2>1. CASE EndTransaction(t)
    BY <1>1, <2>1, MethodTail DEF EndTransaction
  <2>2. CASE Panic(t)
    BY <2>2 DEF Panic
  <2>3. QED
    BY <2>1, <2>2
<1>3. PICK rest \in Method \cup {<<>>} : todo' = [todo EXCEPT ![t] = rest]
  BY <1>2
<1>4. CallsTyped' /\ \A s \in Thread : s # t => todo'[s] = todo[s]
  BY <1>3 DEF NInv, CallsTyped
<1>5. /\ begun' = begun \ {t} /\ queued' = queued
      /\ reads' = [reads EXCEPT ![t] = 0]
      /\ writer' \in {writer, NoThread} /\ writer' # t
  BY <1>2, NativeAssumption DEF Release
<1>6. NativeTypeOK'
  BY <1>2, <1>4, <1>5 DEF NInv, NativeTypeOK, CallsTyped
<1>7. BegunInside' /\ GVLInRuby'
  BY <1>2, <1>4, <1>5 DEF NInv, BegunInside, GVLInRuby
<1>8. HeldWithin'
  BY <1>5, NativeAssumption DEF NInv, NativeTypeOK, HeldWithin, Holds
<1>9. QueuedWants'
  BY <1>1, <1>2, <1>4, <1>5 DEF NInv, QueuedWants, Wants
<1>10. QED
  BY <1>4, <1>6, <1>7, <1>8, <1>9 DEF NInv

\* A call that has nothing left to do holds nothing.
LEMMA NInvLeave ==
  ASSUME NInv, NEW t \in Thread, Leave(t)
  PROVE  NInv'
<1>1. /\ t \notin begun /\ t \notin queued /\ gvl # t
  BY DEF NInv, BegunInside, QueuedWants, Wants, GVLInRuby, Leave
<1>2. NativeTypeOK' /\ CallsTyped'
  BY DEF NInv, NativeTypeOK, CallsTyped, Leave, lockVars
<1>3. BegunInside' /\ HeldWithin' /\ GVLInRuby'
  BY <1>1 DEF NInv, NativeTypeOK, BegunInside, HeldWithin, Holds, GVLInRuby, Leave, lockVars
<1>4. QueuedWants'
  BY <1>1 DEF NInv, NativeTypeOK, QueuedWants, Wants, Leave, lockVars
<1>5. QED
  BY <1>2, <1>3, <1>4 DEF NInv

\* Every step.
LEMMA NInvStep ==
  ASSUME NInv, [NativeNext]_nativeVars
  PROVE  NInv'
<1>1. CASE UNCHANGED nativeVars
  BY <1>1 DEF NInv, NativeTypeOK, CallsTyped, BegunInside, HeldWithin, QueuedWants,
              GVLInRuby, Holds, Wants, nativeVars
<1>2. CASE NativeNext
  <2>1. PICK t \in Thread :
          \/ TakeGVL(t)
          \/ YieldGVL(t)
          \/ \E method \in Method : Enter(t, method)
          \/ NativeStep(t)
          \/ Panic(t)
    BY <1>2 DEF NativeNext
  <2>2. QED
    BY <2>1, NInvGVL, NInvEnter, NInvBeginRead, NInvQueueWrite, NInvBeginWrite,
       NInvEnd, NInvLeave DEF NativeStep
<1>3. QED
  BY <1>1, <1>2

\* The invariant holds throughout, whatever fairness adds.
LEMMA NInvariance == NativeSpec => []NInv
<1>1. NativeInit => NInv
  <2> SUFFICES ASSUME NativeInit PROVE NInv
    OBVIOUS
  <2>2. NativeTypeOK /\ CallsTyped
    BY NativeAssumption DEF NativeInit, NativeTypeOK, CallsTyped
  <2>3. BegunInside /\ HeldWithin /\ QueuedWants /\ GVLInRuby
    BY NativeAssumption DEF NativeInit, BegunInside, HeldWithin, QueuedWants,
                            GVLInRuby, Holds
  <2>4. QED
    BY <2>2, <2>3 DEF NInv
<1>2. NInv /\ [NativeNext]_nativeVars => NInv'
  BY NInvStep
<1>3. QED
  BY <1>1, <1>2, PTL DEF NativeSpec

\* Type correctness, and with it the promise of the document's lock: no reader
\* is admitted beside a writer (the transactions of lib.rs and protocol.rs).
THEOREM NativeTypeCorrect == NativeSpec => []NativeTypeOK
<1>1. NInv => NativeTypeOK
  BY DEF NInv
<1>2. QED
  BY <1>1, NInvariance, PTL

\* Whoever holds the document's lock, or waits for it, is in the native region
\* without the GVL, and within a call (nogvl, lib.rs:45-49).
THEOREM LockIsDisciplined == NativeSpec => []LockDiscipline
<1>1. NInv => LockDiscipline
  BY DEF NInv, BegunInside, HeldWithin, QueuedWants, Wants, GVLInRuby, LockDiscipline
<1>2. QED
  BY <1>1, NInvariance, PTL

\* Whenever threads are in the native region, one of them can go on without Ruby
\* and without the GVL: the lock that prefers writers cannot deadlock methods that
\* end one transaction before they begin the next (lib.rs:45-49, 163-166).
THEOREM NobodyDeadlocks == NativeSpec => []SomebodyGoesOn
<1>1. ASSUME NInv, NEW t \in Thread, place[t] = "native"
      PROVE  \E s \in Thread : CanGoOn(s)
  <2>1. CASE begun # {}
    \* Whoever is within a transaction ends it.
    BY <1>1, <2>1 DEF NInv, NativeTypeOK, BegunInside, CanGoOn
  <2>2. CASE begun = {}
    \* Then nobody holds the lock,
    <3>1. writer = NoThread /\ \A s \in Thread : reads[s] = 0
      BY <1>1, <2>2 DEF NInv, NativeTypeOK, HeldWithin, Holds
    <3>2. CASE queued # {}
      \* so a waiting writer gets it,
      BY <1>1, <3>1, <3>2 DEF NInv, NativeTypeOK, QueuedWants, Wants, CanGoOn
    <3>3. CASE queued = {}
      \* or t itself goes on.
      <4>1. CASE todo[t] = <<>>
        BY <1>1, <4>1 DEF CanGoOn
      <4>2. CASE todo[t] # <<>>
        <5>1. Head(todo[t]) \in {"read", "write"}
          BY <1>1, <4>2 DEF NInv, CallsTyped, Method
        <5>2. QED
          BY <1>1, <2>2, <3>1, <3>3, <4>2, <5>1 DEF Wants, CanGoOn
      <4>3. QED
        BY <4>1, <4>2
    <3>4. QED
      BY <3>2, <3>3
  <2>3. QED
    BY <2>1, <2>2
<1>2. NInv => SomebodyGoesOn
  BY <1>1 DEF SomebodyGoesOn
<1>3. QED
  BY <1>2, NInvariance, PTL
=============================================================================
