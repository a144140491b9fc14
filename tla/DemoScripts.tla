---------------------------- MODULE DemoScripts ----------------------------
(***************************************************************************)
(* The end-to-end scripts of the demo, examples/actioncable-demo/frontend/ *)
(* *.mjs: what each makes its clients, the network and the store do, and   *)
(* what it then expects.  Each script is run against the real server once, *)
(* in whatever timing it happens to meet; DemoScenarios runs it in all.    *)
(*                                                                         *)
(* A script is a client class and threads of steps; the first thread is the*)
(* script's own flow.  Of many clients or edits with one role a few remain.*)
(* A sleep is nothing where the script only lets time pass in the middle of*)
(* something, and "settled" where what follows counts on the dust to settle*)
(* ("nothing else is sent, so the server stays idle").  A storm begins from*)
(* a settled cable too, which bounds the timings.                          *)
(* Presence, and counting the rows of the log, are left out.               *)
(***************************************************************************)
EXTENDS Naturals, Sequences

Step(do, fact, cs, ops) == [do |-> do, fact |-> fact, cs |-> cs, ops |-> ops]

Edits(c, o)          == Step("edit", "nothing", {c}, {o})
Await(fact, cs, ops) == Step("await", fact, cs, ops)
Check(fact, cs, ops) == Step("check", fact, cs, ops)
Go(do, cs)           == Step(do, "nothing", cs, {})
Settle               == Await("settled", {}, {})
Open(cs)             == <<Go("open", cs), Await("joined", cs, {})>>

-----------------------------------------------------------------------------
(* The clients.  queue: "none" sends an edit once and without an id; "each" *)
(* resends every unacknowledged update in a frame of its own; "tail" is    *)
(* the provider with its ReliableSync.  answers: replies to a SyncStep1.   *)
(* loses: what the class's switch to cut the network drops.                *)

Profile(queue, answers, loses) ==
  [queue |-> queue, answers |-> answers, loses |-> loses]

Everything == {"step1", "step2", "update"}

E2EClient          == Profile("none", TRUE, {})
AuditClient        == Profile("none", TRUE, {})
ScenarioClient     == Profile("none", TRUE, {})
MultiprocessClient == Profile("none", TRUE, {})
CrashClient        == Profile("none", TRUE, {})
ChaosClient        == Profile("none", TRUE, {})
StressClient       == Profile("none", TRUE, {})
AnyCableClient     == Profile("none", FALSE, {})
ReliableClient     == Profile("each", TRUE, {"update"})
RawConsumer        == Profile("tail", TRUE, Everything)
LossyConsumer      == Profile("tail", TRUE, Everything)

Script(name, profile, threads) ==
  [name |-> name, profile |-> profile, threads |-> threads]

-----------------------------------------------------------------------------
(* The scripts.                                                            *)

E2E == Script("e2e", E2EClient,
  << Open({"a"}) \o <<Edits("a", "o1")>> \o Open({"b"}) \o
     << Await("has", {"b"}, {"o1"}),
        Edits("b", "r1"),
        Await("has", {"a"}, {"r1"}),
        Await("equal", {"a", "b"}, {}),
        Check("stored", {}, {"o1", "r1"}) >> >>)

SlowStore == Script("slowStore", ScenarioClient,
  << <<Go("slow", {})>> \o Open({"a", "b"}) \o
     << Settle,
        Edits("a", "o1"),
        Check("has", {"a"}, {"o1"}),
        Check("lacks", {"b"}, {"o1"}),
        Check("unstored", {}, {"o1"}) >> \o
     Open({"c"}) \o
     << Await("synced", {"c"}, {}),
        Check("lacks", {"c"}, {"o1"}),
        Check("unstored", {}, {"o1"}),
        Go("quick", {}), Settle,
        Check("has", {"b"}, {"o1"}),
        Check("stored", {}, {"o1"}) >> >>)

StoreFailure == Script("storeFailure", ScenarioClient,
  << <<Go("fail", {})>> \o Open({"a", "b"}) \o
     << Settle, Edits("a", "o1"), Settle,
        Check("lacks", {"b"}, {"o1"}),
        Check("unstored", {}, {"o1"}),
        Check("has", {"a"}, {"o1"}) >> >>)

SelfHeal == Script("selfHeal", ScenarioClient,
  << <<Go("fail", {})>> \o Open({"a", "b"}) \o
     << Settle, Edits("a", "o1"), Settle,
        Check("unstored", {}, {"o1"}),
        Check("lacks", {"b"}, {"o1"}),
        Go("rejoin", {"a"}), Await("synced", {"a"}, {}), Settle,
        Check("stored", {}, {"o1"}),
        Check("has", {"b"}, {"o1"}) >> >>)

OfflineCatchUp == Script("offlineCatchUp", ScenarioClient,
  << Open({"a"}) \o
     << Settle, Edits("a", "o1"), Settle,
        Check("stored", {}, {"o1"}),
        Go("close", {"a"}),
        Edits("a", "o2"), Edits("a", "o3") >> \o
     Open({"a"}) \o
     << Await("synced", {"a"}, {}), Settle,
        Check("stored", {}, {"o1", "o2", "o3"}) >> >>)

Audit == Script("audit", AuditClient,
  << Open({"a"}) \o
     << Edits("a", "o1"), Edits("a", "o2"), Settle,
        Check("stored", {}, {"o1", "o2"}),
        Check("replays", {"a"}, {}) >> >>)

Multiprocess == Script("multiprocess", MultiprocessClient,
  << Open({"a", "b"}) \o
     << Settle,
        Edits("a", "o1"), Edits("b", "p1"), Edits("a", "o2"), Settle,
        Check("equal", {"a", "b"}, {}),
        Check("stored", {}, {"o1", "p1", "o2"}) >> \o
     Open({"c"}) \o
     << Await("synced", {"c"}, {}), Settle,
        Check("has", {"c"}, {"o1", "p1", "o2"}),
        Check("replays", {"a"}, {}) >> >>)

CrashRecovery == Script("crashRecovery", CrashClient,
  << Open({"a"}) \o
     << Edits("a", "o1"), Edits("a", "o2"),
        Await("stored", {}, {"o1", "o2"}),
        Go("kill", {}) >> \o
     Open({"c"}) \o
     << Await("synced", {"c"}, {}), Settle,
        Check("has", {"c"}, {"o1", "o2"}),
        Check("stored", {}, {"o1", "o2"}) >> >>)

\* The vandal's frames decode to no change.
Barrage == <<Go("noise", {"c"})>>

Chaos == Script("chaos", ChaosClient,
  << Open({"a", "b"}) \o
     << Go("fork", {}), Await("finished", {}, {}), Settle,
        Check("equal", {"a", "b"}, {}),
        Check("has", {"a"}, {"o1", "p1"}),
        Check("stored", {}, {"o1", "p1"}),
        Check("replays", {"a"}, {}) >>,
     << Edits("a", "o1"), Edits("b", "p1") >>,
     Barrage >>)

\* A churner in the storm, a killer that leaves after its edits, the verifier.
Stress == Script("stress", StressClient,
  << Open({"a", "b"}) \o
     << Settle, Go("fork", {}), Await("finished", {}, {}), Settle,
        Go("close", {"b"}),
        Await("has", {"a"}, {"o1", "o2", "p1"}) >> \o
     Open({"c"}) \o
     << Await("has", {"c"}, {"o1", "o2", "p1"}),
        Check("equal", {"a", "c"}, {}),
        Check("stored", {}, {"o1", "o2", "p1"}) >>,
     << Edits("a", "o1"), Go("close", {"a"}), Edits("a", "o2") >> \o
     Open({"a"}) \o <<Go("handshake", {"a"})>>,
     << Edits("b", "p1") >> >>)

AnyCableSlowStore == Script("anyCableSlowStore", AnyCableClient,
  << <<Go("slow", {})>> \o Open({"a", "b"}) \o
     << Settle,
        Edits("a", "o1"),
        Check("lacks", {"b"}, {"o1"}),
        Check("unstored", {}, {"o1"}) >> \o
     Open({"c"}) \o
     << Check("lacks", {"c"}, {"o1"}),
        Go("quick", {}), Settle,
        Check("has", {"b"}, {"o1"}),
        Check("stored", {}, {"o1"}) >> >>)

AnyCableFailure == Script("anyCableFailure", AnyCableClient,
  << <<Go("fail", {})>> \o Open({"a", "b"}) \o
     << Settle, Edits("a", "o1"), Settle,
        Check("lacks", {"b"}, {"o1"}),
        Check("unstored", {}, {"o1"}) >> \o
     Open({"c"}) \o
     << Settle, Check("lacks", {"c"}, {"o1"}) >> >>)

Reliable == Script("reliable", ReliableClient,
  << Open({"a"}) \o Open({"b"}) \o
     << Edits("a", "o1"),
        Await("drained", {"a"}, {}), Await("has", {"b"}, {"o1"}), Settle,
        Go("black", {"a"}),
        Edits("a", "o2"),
        Check("lacks", {"b"}, {"o2"}),
        Check("pending", {"a"}, {}),
        Go("clean", {"a"}),
        Await("drained", {"a"}, {}), Await("has", {"b"}, {"o2"}),
        Await("equal", {"a", "b"}, {}) >> >>)

ReliableProvider == Script("reliableProvider", RawConsumer,
  << << Go("open", {"a", "b"}), Await("synced", {"a", "b"}, {}),
        Edits("a", "o1"),
        Await("has", {"b"}, {"o1"}), Await("drained", {"a"}, {}), Settle,
        Go("black", {"a"}),
        Edits("a", "o2"),
        Check("lacks", {"b"}, {"o2"}),
        Check("pending", {"a"}, {}),
        Go("clean", {"a"}),
        Await("drained", {"a"}, {}), Await("has", {"b"}, {"o2"}),
        Settle,
        Check("equal", {"a", "b"}, {}) >> >>)

\* One of its editors; its outages are a case of the loss.
ReliableStress == Script("reliableStress", LossyConsumer,
  << << Go("open", {"a"}), Await("synced", {"a"}, {}), Settle,
        Go("lossy", {"a"}),
        Edits("a", "o1"), Edits("a", "o2"),
        Go("clean", {"a"}),
        Await("drained", {"a"}, {}),
        Check("stored", {}, {"o1", "o2"}), Settle,
        Go("open", {"c"}), Await("synced", {"c"}, {}),
        Await("has", {"c"}, {"o1", "o2"}) >> >>)

Scripts == {E2E, SlowStore, StoreFailure, SelfHeal, OfflineCatchUp, Audit,
            Multiprocess, CrashRecovery, Chaos, Stress, AnyCableSlowStore,
            AnyCableFailure, Reliable, ReliableProvider, ReliableStress}
=============================================================================
