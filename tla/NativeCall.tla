----------------------------- MODULE NativeCall -----------------------------
(***************************************************************************)
(* How a native method runs, ext/yrby/src/lib.rs: nogvl releases Ruby's    *)
(* global lock (GVL), the method opens its transactions on the shared      *)
(* document, one after another, and takes the GVL again to return.  A      *)
(* thread in that region cannot be interrupted.  The document's own lock   *)
(* (of yrs) admits one writer or many readers and prefers writers: while   *)
(* one waits, no reader is admitted.                                       *)
(***************************************************************************)
EXTENDS Integers, Sequences

CONSTANTS
  Thread,    \* the Ruby threads of a process
  Caller,    \* those that share a document
  NoThread,  \* nobody
  MaxCalls   \* bound: the calls each caller makes (endless writers could
             \* starve a reader of a lock that prefers writers)

ASSUME NativeAssumption ==
  /\ NoThread \notin Thread
  /\ Caller \subseteq Thread
  /\ MaxCalls \in Nat

VARIABLES
  gvl,       \* the thread that holds the GVL
  place,     \* place[t]: in Ruby code, in the native region, or on the way back
  todo,      \* todo[t]: the transactions its call has yet to end
  begun,     \* the threads that have begun the first of those
  reads,     \* reads[t]: how often t has locked the document for reading
  writer,    \* the thread that has locked it for writing
  queued,    \* the threads waiting to
  calls      \* calls[t]: the calls t has made

lockVars == <<begun, reads, writer, queued>>
nativeVars == <<gvl, place, todo, begun, reads, writer, queued, calls>>

-----------------------------------------------------------------------------

\* The transactions a method opens on the document, whichever it is: readers
\* and encoders open one, update_ready? and update_advances? a first one for
\* the clocks and a second one for the probe's seed, apply_update a writing one.
Method == {<<"read">>, <<"read", "read">>, <<"write">>}

\* The type invariant, with the promise of the document's lock.
NativeTypeOK ==
  /\ gvl \in Thread \cup {NoThread}
  /\ place \in [Thread -> {"ruby", "native", "returning"}]
  /\ \A t \in Thread : todo[t] = <<>> \/ todo[t] \in Method
  /\ begun \subseteq Thread
  /\ reads \in [Thread -> {0, 1}]
  /\ writer \in Thread \cup {NoThread}
  /\ queued \subseteq Thread
  /\ calls \in [Thread -> 0..MaxCalls]
  /\ writer # NoThread => \A t \in Thread : reads[t] = 0

NativeInit ==
  /\ gvl = NoThread
  /\ place = [t \in Thread |-> "ruby"]
  /\ todo = [t \in Thread |-> <<>>]
  /\ begun = {} /\ reads = [t \in Thread |-> 0]
  /\ writer = NoThread /\ queued = {}
  /\ calls = [t \in Thread |-> 0]

Holds(t) == reads[t] > 0 \/ t = writer

\* The interpreter gives the GVL to a thread that wants it; one that comes out
\* of a native method returns its result, or raises what it panicked with.
TakeGVL(t) ==
  /\ gvl = NoThread /\ place[t] # "native"
  /\ gvl' = t
  /\ place' = [place EXCEPT ![t] = "ruby"]
  /\ UNCHANGED <<todo, calls>> /\ UNCHANGED lockVars

\* A time slice ends.
YieldGVL(t) ==
  /\ gvl = t
  /\ gvl' = NoThread
  /\ UNCHANGED <<place, todo, calls>> /\ UNCHANGED lockVars

\* Mutant: the GVL is kept for the native region.
EnterWithGVL(t, method) ==
  /\ gvl = t /\ t \in Caller /\ calls[t] < MaxCalls
  /\ place' = [place EXCEPT ![t] = "native"]
  /\ todo' = [todo EXCEPT ![t] = method]
  /\ calls' = [calls EXCEPT ![t] = @ + 1]
  /\ UNCHANGED gvl /\ UNCHANGED lockVars

\* A method copies its arguments out of Ruby and lets go of the GVL.
Enter(t, method) ==
  /\ gvl = t /\ t \in Caller /\ calls[t] < MaxCalls
  /\ gvl' = NoThread
  /\ place' = [place EXCEPT ![t] = "native"]
  /\ todo' = [todo EXCEPT ![t] = method]
  /\ calls' = [calls EXCEPT ![t] = @ + 1]
  /\ UNCHANGED lockVars

Wants(t, mode) ==
  /\ place[t] = "native" /\ todo[t] # <<>> /\ Head(todo[t]) = mode
  /\ t \notin begun

\* Mutant: a method looks at the document without asking for a transaction.
ReadUnlocked(t) ==
  /\ Wants(t, "read")
  /\ begun' = begun \cup {t}
  /\ reads' = [reads EXCEPT ![t] = @ + 1]
  /\ UNCHANGED <<gvl, place, todo, writer, queued, calls>>

\* transact
BeginRead(t) ==
  /\ Wants(t, "read")
  /\ writer = NoThread /\ queued = {}
  /\ begun' = begun \cup {t}
  /\ reads' = [reads EXCEPT ![t] = @ + 1]
  /\ UNCHANGED <<gvl, place, todo, writer, queued, calls>>

\* transact_mut: first in line and then alone.
QueueWrite(t) ==
  /\ Wants(t, "write") /\ t \notin queued
  /\ queued' = queued \cup {t}
  /\ UNCHANGED <<gvl, place, todo, begun, reads, writer, calls>>

BeginWrite(t) ==
  /\ t \in queued
  /\ writer = NoThread /\ \A s \in Thread : reads[s] = 0
  /\ writer' = t
  /\ begun' = begun \cup {t}
  /\ queued' = queued \ {t}
  /\ UNCHANGED <<gvl, place, todo, reads, calls>>

\* A transaction is dropped, and the lock with it.
Release(t) ==
  /\ begun' = begun \ {t}
  /\ reads' = [reads EXCEPT ![t] = 0]
  /\ writer' = IF writer = t THEN NoThread ELSE writer
  /\ UNCHANGED queued

\* Mutant: a chained temporary keeps the first transaction until the method is
\* done, as read_text once did.
EndLast(t) ==
  /\ t \in begun
  /\ todo' = [todo EXCEPT ![t] = Tail(todo[t])]
  /\ IF Len(todo[t]) = 1 THEN Release(t)
                         ELSE /\ begun' = begun \ {t}
                              /\ UNCHANGED <<reads, writer, queued>>
  /\ UNCHANGED <<gvl, place, calls>>

\* A transaction ends before the next begins; the method may answer at once.
EndTransaction(t) ==
  /\ t \in begun
  /\ \E rest \in {<<>>, Tail(todo[t])} : todo' = [todo EXCEPT ![t] = rest]
  /\ Release(t)
  /\ UNCHANGED <<gvl, place, calls>>

\* Mutant: what was held when it panicked stays held.
PanicHolding(t) ==
  /\ t \in begun
  /\ todo' = [todo EXCEPT ![t] = <<>>]
  /\ begun' = begun \ {t}
  /\ UNCHANGED <<gvl, place, reads, writer, queued, calls>>

\* A panic within a transaction is caught inside the region, once unwinding
\* has dropped the transaction.
Panic(t) ==
  /\ t \in begun
  /\ todo' = [todo EXCEPT ![t] = <<>>]
  /\ Release(t)
  /\ UNCHANGED <<gvl, place, calls>>

\* The method is done, and waits for the GVL.
Leave(t) ==
  /\ place[t] = "native" /\ todo[t] = <<>>
  /\ place' = [place EXCEPT ![t] = "returning"]
  /\ UNCHANGED <<gvl, todo, calls>> /\ UNCHANGED lockVars

\* What a thread does in the native region, once it can.
NativeStep(t) ==
  BeginRead(t) \/ QueueWrite(t) \/ BeginWrite(t) \/ EndTransaction(t) \/ Leave(t)

NativeNext ==
  \E t \in Thread :
    \/ TakeGVL(t)
    \/ YieldGVL(t)
    \/ \E method \in Method : Enter(t, method)
    \/ NativeStep(t)
    \/ Panic(t)

\* The operating system runs every thread that can run.  The interpreter's
\* timer ends time slices, and the threads that want the GVL queue for it.
NativeFairness ==
  \A t \in Thread :
    /\ WF_nativeVars(NativeStep(t))
    /\ WF_nativeVars(YieldGVL(t))
    /\ SF_nativeVars(TakeGVL(t))

NativeSpec == NativeInit /\ [][NativeNext]_nativeVars /\ NativeFairness

-----------------------------------------------------------------------------
(* Properties.                                                             *)

\* The lock discipline of nogvl (lib.rs:45-49): whoever holds the document's
\* lock, or waits for it, is inside the native region and has dropped the GVL.
\* And no transaction outlives the call that opened it, a panic included.
LockDiscipline ==
  \A t \in Thread :
    Holds(t) \/ t \in queued => /\ place[t] = "native" /\ gvl # t
                                /\ todo[t] # <<>>

\* What t is inside the native region for, it can do at once.
CanGoOn(t) ==
  /\ place[t] = "native"
  /\ \/ todo[t] = <<>> \/ t \in begun
     \/ Wants(t, "read") /\ writer = NoThread /\ queued = {}
     \/ Wants(t, "write") /\ t \notin queued
     \/ t \in queued /\ writer = NoThread /\ \A s \in Thread : reads[s] = 0

\* The threads in the native region never all wait for each other: one of them can
\* go on, without Ruby and without the GVL.  A method that asked for a second
\* transaction while it held its first would wait for a writer that waits for it
\* (lib.rs:45-49, 163-166).
SomebodyGoesOn ==
  (\E t \in Thread : place[t] = "native") => \E t \in Thread : CanGoOn(t)

\* No call hangs in the region that cannot be interrupted, whatever other
\* threads read and write meanwhile (lib.rs:163-166).
CallsReturn ==
  \A t \in Thread : place[t] = "native" ~> place[t] = "ruby"
=============================================================================
