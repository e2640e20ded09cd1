---------------------------- MODULE StartupProofs ----------------------------
(***************************************************************************)
(* Proofs about the start of an engine: which pods have run before others, *)
(* and of which engines all pods ever run, for any number of pods and any  *)
(* names that the user may choose, and however many pods are lost.         *)
(***************************************************************************)
EXTENDS Startup, ManifestProofs

-----------------------------------------------------------------------------
(* The engines and their pods.                                             *)

LEMMA VariantFacts ==
    ASSUME de \in Variants
    PROVE  /\ de.frame.name \in Names \cup {FRAME_STANDALONE}
           /\ de.user.name \in Names \cup {USER_STANDALONE}
           /\ de.master.name \in Names \cup {SERVER_MASTER}
           /\ de.executor.name = "server-executor"
           /\ de.frame.size = {Replicas} /\ de.user.size = {Replicas}
           /\ de.executor.size = {Replicas}
           /\ \E n \in MasterSizes : de.master.size = {n}
<1>1. PICK f \in Names \cup {FRAME_STANDALONE}, u \in Names \cup {USER_STANDALONE},
           m \in Names \cup {SERVER_MASTER}, n \in MasterSizes,
           fc \in BOOLEAN, uc \in BOOLEAN, mc \in BOOLEAN, ec \in BOOLEAN :
        de = Variant(f, u, m, n, fc, uc, mc, ec)
  BY DEF Variants
<1>2. /\ de.frame = Frame(f, {Replicas}, fc) /\ de.user = User(u, {Replicas}, uc)
      /\ de.master = Component(m, {n}, 10240, mc)
      /\ de.executor = Component("server-executor", {Replicas}, 10241, ec)
  BY <1>1 DEF Variant, Engine
<1>3. de.frame.name = f /\ de.frame.size = {Replicas}
  BY <1>2 DEF Frame
<1>4. de.user.name = u /\ de.user.size = {Replicas}
  BY <1>2 DEF User
<1>5. de.master.name = m /\ de.master.size = {n}
  BY <1>2 DEF Component
<1>6. de.executor.name = "server-executor" /\ de.executor.size = {Replicas}
  BY <1>2 DEF Component
<1> QED
  BY <1>3, <1>4, <1>5, <1>6

(* The workload of part k.                                                 *)
Workload(k) == Pos(k, Len(Part(k, de)))

LEMMA WorkloadFacts ==
    ASSUME PlanOK, NEW k \in 1 .. 4
    PROVE  /\ Workload(k) \in DOMAIN plan /\ Workload(k) \in Workloads
           /\ EndForm(k, de, plan[Workload(k)])
           /\ Name(Workload(k)) \in OwnNames(k, de)
           /\ Workload(k) \in StatefulSets <=> Clustered(k, de)
<1>1. Workload(k) \in DOMAIN plan /\ plan[Workload(k)] = Part(k, de)[Len(Part(k, de))]
  BY PartEnd, Placed DEF Workload
<1>2. Workload(k) \in Workloads /\ StepForm(k, de, plan[Workload(k)])
  BY PartEnd, Placed DEF Workload
<1>3. EndForm(k, de, plan[Workload(k)])
  BY <1>1, EndForms
<1>4. Name(Workload(k)) \in OwnNames(k, de)
  BY <1>2, <1>3 DEF StepForm, Named, EndForm, Name
<1>5. Workload(k) \in StatefulSets <=> Clustered(k, de)
  BY <1>1, <1>3 DEF EndForm, StatefulSets, OfKind
<1> QED
  BY <1>1, <1>2, <1>3, <1>4, <1>5

(* How many pods it has.                                                   *)
LEMMA CountFacts ==
    ASSUME PlanOK, de \in Variants, NEW k \in 1 .. 4
    PROVE  /\ Count(plan, Workload(k)) \in Nat
           /\ Copies(k, de) = {Count(plan, Workload(k))}
           /\ k = 4 => Count(plan, Workload(k)) >= 1
<1>1. \E c \in Nat : Copies(k, de) = {c} /\ (k = 4 => c >= 1)
  <2>1. \E n \in Nat : de.master.size = {n}
    BY VariantFacts, StartupAssumption
  <2>2. /\ de.frame.size = {Replicas} /\ de.user.size = {Replicas}
        /\ de.executor.size = {Replicas}
    BY VariantFacts
  <2>3. Replicas \in Nat /\ Replicas >= 1 /\ 1 \in Nat
    BY StartupAssumption
  <2>4. CASE k = 1
    BY <2>2, <2>3, <2>4 DEF Copies
  <2>5. CASE k = 2
    BY <2>2, <2>3, <2>5 DEF Copies
  <2>6. CASE k = 3
    BY <2>1, <2>3, <2>6 DEF Copies
  <2>7. CASE k = 4
    BY <2>2, <2>3, <2>7 DEF Copies
  <2> QED
    BY <2>4, <2>5, <2>6, <2>7
<1>2. PICK c \in Nat : Copies(k, de) = {c} /\ (k = 4 => c >= 1)
  BY <1>1
<1>3. plan[Workload(k)].body.spec.replicas = {c}
  BY <1>2, WorkloadFacts DEF EndForm
<1>4. (CHOOSE n \in {c} : TRUE) = c
  OBVIOUS
<1>5. Count(plan, Workload(k)) = c
  BY <1>3, <1>4 DEF Count
<1> QED
  BY <1>2, <1>5

(* The pods, and those of one workload.                                    *)
LEMMA SlotFacts ==
    ASSUME PlanOK, de \in Variants
    PROVE  /\ \A p \in Slots(plan) : \E k \in 1 .. 4 :
                 p[1] = Workload(k) /\ p = <<Workload(k), p[2]>>
                 /\ p[2] \in 0 .. Count(plan, Workload(k)) - 1
           /\ \A k \in 1 .. 4 : \A i \in 0 .. Count(plan, Workload(k)) - 1 :
                 <<Workload(k), i>> \in Slots(plan)
<1>1. Slots(plan) = UNION {{<<w, i>> : i \in 0 .. Count(plan, w) - 1} : w \in Workloads}
  BY DEF Slots, Workloads, OfKind
<1>2. ASSUME NEW p \in Slots(plan)
      PROVE  \E k \in 1 .. 4 : /\ p[1] = Workload(k) /\ p = <<Workload(k), p[2]>>
                               /\ p[2] \in 0 .. Count(plan, Workload(k)) - 1
  <2>1. PICK w \in Workloads : p \in {<<w, i>> : i \in 0 .. Count(plan, w) - 1}
    BY <1>1
  <2>2. PICK i \in 0 .. Count(plan, w) - 1 : p = <<w, i>>
    BY <2>1
  <2>3. PICK k \in 1 .. 4 : w = Workload(k)
    BY WorkloadAt DEF Workload
  <2> QED
    BY <2>2, <2>3
<1>3. ASSUME NEW k \in 1 .. 4, NEW i \in 0 .. Count(plan, Workload(k)) - 1
      PROVE  <<Workload(k), i>> \in Slots(plan)
  <2>1. Workload(k) \in Workloads
    BY WorkloadFacts
  <2> QED
    BY <1>1, <2>1
<1> QED
  BY <1>2, <1>3

LEMMA SlotsBelow ==
    ASSUME PlanOK, de \in Variants, NEW p \in Slots(plan), NEW i \in 0 .. p[2] - 1
    PROVE  <<p[1], i>> \in Slots(plan) /\ p[2] \in Nat
<1>1. PICK k \in 1 .. 4 : p[1] = Workload(k) /\ p[2] \in 0 .. Count(plan, Workload(k)) - 1
  BY SlotFacts
<1>2. Count(plan, Workload(k)) \in Nat
  BY CountFacts
<1>3. i \in 0 .. Count(plan, Workload(k)) - 1 /\ p[2] \in Nat
  BY <1>1, <1>2
<1> QED
  BY <1>1, <1>3, SlotFacts

-----------------------------------------------------------------------------
(* The invariant: types, and what must have been when a pod runs.          *)

Engines == de \in Variants /\ Unambiguous

StartInv == StartTypeOK /\ DOMAIN passed = Slots(plan) /\ Engines

LEMMA StartInvInit == StartInit => StartInv
<1> SUFFICES ASSUME StartInit PROVE StartInv
  OBVIOUS
<1>1. plan = PlanOf(de) /\ Len(plan) \in Nat
  <2>1. 4 \in 1 .. 4 /\ Before(4, de) \in Nat /\ Len(Part(4, de)) \in 2 .. 5
    BY PlanFacts
  <2> QED
    BY <2>1, PlanFacts DEF StartInit, Last
<1>2. written \in 0 .. Len(plan) /\ once \subseteq Pods
  BY <1>1 DEF StartInit
<1>3. left \in 0 .. MaxLoss
  BY StartupAssumption DEF StartInit
<1>4. /\ pod \in [Slots(plan) -> {"absent", "init", "running", "failing"}]
      /\ DOMAIN passed = Slots(plan)
  BY DEF StartInit
<1>5. \A p \in Pods : passed[p] \subseteq Fields(p[1]).waits
  BY <1>4 DEF StartInit, Pods
<1> QED
  BY <1>1, <1>2, <1>3, <1>4, <1>5 DEF StartInv, StartTypeOK, Engines, StartInit

(* No step changes the engine or its plan.                                 *)
LEMMA StepKeeps ==
    ASSUME [StartNext]_startVars
    PROVE  de' = de /\ plan' = plan /\ ns' = ns
BY DEF StartNext, startVars, WriteNext, ComeUp, CreatePod, PassWait, StartContainers, LosePod

LEMMA StartInvStep ==
    ASSUME StartInv, [StartNext]_startVars
    PROVE  StartInv'
<1> DEFINE States == {"absent", "init", "running", "failing"}
<1>1. de' = de /\ plan' = plan /\ Engines'
  BY StepKeeps DEF StartInv, Engines, Unambiguous
<1>2. Len(plan) \in Nat
  <2>1. 4 \in 1 .. 4 /\ Before(4, de) \in Nat /\ Len(Part(4, de)) \in 2 .. 5
    BY PlanFacts
  <2> QED
    BY <2>1, PlanFacts DEF StartInv, StartTypeOK, Last
<1>3. /\ plan = PlanOf(de) /\ written \in 0 .. Len(plan) /\ pod \in [Slots(plan) -> States]
      /\ DOMAIN passed = Slots(plan) /\ once \subseteq Slots(plan) /\ left \in 0 .. MaxLoss
      /\ \A p \in Slots(plan) : passed[p] \subseteq Fields(p[1]).waits
  BY DEF StartInv, StartTypeOK, Pods
<1> DEFINE NextOK ==
      /\ written' \in 0 .. Len(plan) /\ pod' \in [Slots(plan) -> States]
      /\ DOMAIN passed' = Slots(plan) /\ once' \subseteq Slots(plan) /\ left' \in 0 .. MaxLoss
      /\ \A p \in Slots(plan) : passed'[p] \subseteq Fields(p[1]).waits
<1>4. NextOK
  <2>1. CASE WriteNext
    BY <1>2, <1>3, <2>1 DEF WriteNext
  <2>2. ASSUME NEW p \in Slots(plan), CreatePod(p)
        PROVE  NextOK
    <3>1. pod' = [pod EXCEPT ![p] = "init"] /\ passed' = [passed EXCEPT ![p] = {}]
          /\ UNCHANGED <<written, once, left>>
      BY <2>2 DEF CreatePod
    <3> QED
      BY <1>3, <3>1
  <2>3. ASSUME NEW p \in Slots(plan), NEW h \in Fields(p[1]).waits, PassWait(p, h)
        PROVE  NextOK
    <3>1. passed' = [passed EXCEPT ![p] = @ \cup {h}] /\ UNCHANGED <<pod, written, once, left>>
      BY <2>3 DEF PassWait
    <3> QED
      BY <1>3, <2>3, <3>1
  <2>4. ASSUME NEW p \in Slots(plan), StartContainers(p)
        PROVE  NextOK
    <3>1. /\ pod' = [pod EXCEPT ![p] = IF Listed(p) THEN "running" ELSE "failing"]
          /\ once' = once \cup {p} /\ UNCHANGED <<written, passed, left>>
      BY <2>4 DEF StartContainers
    <3> QED
      BY <1>3, <3>1
  <2>5. ASSUME NEW p \in Slots(plan), LosePod(p)
        PROVE  NextOK
    <3>1. /\ left > 0 /\ left' = left - 1 /\ pod' = [pod EXCEPT ![p] = "absent"]
          /\ UNCHANGED <<written, passed, once>>
      BY <2>5 DEF LosePod
    <3> QED
      BY <1>3, <3>1, StartupAssumption
  <2>6. CASE UNCHANGED startVars
    BY <1>3, <2>6 DEF startVars
  <2>7. DOMAIN pod = Slots(plan)
    BY <1>3
  <2> QED
    BY <2>1, <2>2, <2>3, <2>4, <2>5, <2>6, <2>7 DEF StartNext, ComeUp, Pods
<1>5. DOMAIN pod' = Slots(plan)
  BY <1>4
<1> QED
  BY <1>1, <1>3, <1>4, <1>5 DEF StartInv, StartTypeOK, Pods, Fields

LEMMA StartInvariant == StartSpec => []StartInv
BY StartInvInit, StartInvStep, PTL DEF StartSpec

(* The variables of the start keep their types.                            *)
THEOREM StartTypeSafe == StartSpec => []StartTypeOK
<1>1. StartInv => StartTypeOK
  BY DEF StartInv
<1> QED
  BY <1>1, StartInvariant, PTL

-----------------------------------------------------------------------------
(* What must have run before a pod runs.                                   *)

(* The name h has resolved: some pod behind it has run.                    *)
Served(h) ==
    \/ /\ h.ordinal = {}
       /\ \E s \in Services :
            /\ Name(s) = h.host
            /\ Fixed(s).headless => \E q \in once : Routes(s, q[1])
    \/ \E q \in once :
            /\ q[1] \in StatefulSets /\ h.ordinal = {q[2]}
            /\ Name(q[1]) = h.host /\ Fixed(q[1]).service = h.host

ReadyOnce     == \A p \in Pods : Ready(p) => p \in once
RunningListed == \A p \in Pods : pod[p] = "running" => Listed(p)
PassedServed  == \A p \in Pods : \A h \in passed[p] : Served(h)
OnceServed    == \A p \in once : \A h \in Fields(p[1]).waits : Served(h)
InOrder       == \A p \in Pods :
                    p[1] \in StatefulSets /\ (pod[p] # "absent" \/ p \in once) =>
                        \A i \in 0 .. p[2] - 1 : <<p[1], i>> \in once

LifeInv == ReadyOnce /\ RunningListed /\ PassedServed /\ OnceServed /\ InOrder

LEMMA LifeInit == StartInit => LifeInv
<1> SUFFICES ASSUME StartInit PROVE LifeInv
  OBVIOUS
<1>1. \A p \in Pods : pod[p] = "absent" /\ passed[p] = {}
  BY DEF StartInit, Pods
<1>2. once = {}
  BY DEF StartInit
<1> QED
  BY <1>1, <1>2 DEF LifeInv, ReadyOnce, RunningListed, PassedServed, OnceServed, InOrder, Ready

LEMMA ServedStays ==
    ASSUME plan' = plan, once \subseteq once', NEW h, Served(h)
    PROVE  Served(h)'
<1>1. Services' = Services /\ StatefulSets' = StatefulSets
  BY DEF Services, StatefulSets, OfKind
<1>2. /\ \A i : Name(i)' = Name(i) /\ Fixed(i)' = Fixed(i)
      /\ \A i, j : Routes(i, j)' <=> Routes(i, j)
  BY DEF Name, Fixed, Routes, Fields
<1> QED
  BY <1>1, <1>2 DEF Served

LEMMA ResolvesServed ==
    ASSUME ReadyOnce, NEW h, Resolves(h)
    PROVE  Served(h)
BY DEF ReadyOnce, Resolves, Served

LEMMA LifeStep ==
    ASSUME StartInv, LifeInv, [StartNext]_startVars
    PROVE  LifeInv'
<1> DEFINE States == {"absent", "init", "running", "failing"}
<1>1. de' = de /\ plan' = plan /\ ns' = ns /\ PlanOK /\ de \in Variants
  BY StepKeeps DEF StartInv, StartTypeOK, Engines, PlanOK
<1>2. /\ pod \in [Slots(plan) -> States] /\ DOMAIN passed = Slots(plan)
      /\ once \subseteq Slots(plan) /\ Pods = Slots(plan)
  BY DEF StartInv, StartTypeOK, Pods
<1>3. /\ pod' \in [Slots(plan) -> States] /\ DOMAIN passed' = Slots(plan)
      /\ Pods' = Slots(plan)
  BY <1>1, StartInvStep DEF StartInv, StartTypeOK, Pods
<1>4. /\ \A p : Listed(p)' <=> Listed(p)
      /\ \A p : Fields(p[1])' = Fields(p[1])
      /\ StatefulSets' = StatefulSets
  BY <1>1 DEF Listed, Fields, Name, StatefulSets, OfKind
<1>5. /\ \A p \in Slots(plan) : pod[p] \in {"running", "failing"} => p \in once
      /\ \A p \in Slots(plan) : pod[p] = "running" => Listed(p)
      /\ \A p \in Slots(plan) : \A h \in passed[p] : Served(h)
      /\ \A p \in once : \A h \in Fields(p[1]).waits : Served(h)
      /\ \A p \in Slots(plan) : p[1] \in StatefulSets /\ (pod[p] # "absent" \/ p \in once) =>
            \A i \in 0 .. p[2] - 1 : <<p[1], i>> \in once
  BY <1>2 DEF LifeInv, ReadyOnce, RunningListed, PassedServed, OnceServed, InOrder, Ready
<1> DEFINE NextLife ==
      /\ \A p \in Slots(plan) : pod'[p] \in {"running", "failing"} => p \in once'
      /\ \A p \in Slots(plan) : pod'[p] = "running" => Listed(p)
      /\ \A p \in Slots(plan) : \A h \in passed'[p] : Served(h)
      /\ \A p \in once' : \A h \in Fields(p[1]).waits : Served(h)
      /\ \A p \in Slots(plan) : p[1] \in StatefulSets /\ (pod'[p] # "absent" \/ p \in once') =>
            \A i \in 0 .. p[2] - 1 : <<p[1], i>> \in once'
<1>6. NextLife /\ once \subseteq once'
  <2>1. CASE WriteNext \/ UNCHANGED startVars
    <3>1. UNCHANGED <<pod, passed, once>>
      BY <2>1 DEF WriteNext, startVars
    <3> QED
      BY <1>5, <3>1
  <2>2. ASSUME NEW p \in Slots(plan), CreatePod(p)
        PROVE  NextLife /\ once \subseteq once'
    <3>1. pod' = [pod EXCEPT ![p] = "init"] /\ passed' = [passed EXCEPT ![p] = {}]
          /\ UNCHANGED once
      BY <2>2 DEF CreatePod
    <3>2. p[1] \in StatefulSets => \A i \in 0 .. p[2] - 1 : <<p[1], i>> \in once
      <4> SUFFICES ASSUME p[1] \in StatefulSets, NEW i \in 0 .. p[2] - 1
                   PROVE  <<p[1], i>> \in once
        OBVIOUS
      <4>1. Ready(<<p[1], i>>)
        BY <2>2 DEF CreatePod
      <4>2. <<p[1], i>> \in Slots(plan)
        BY <1>1, SlotsBelow
      <4> QED
        BY <1>5, <4>1, <4>2 DEF Ready
    <3> QED
      BY <1>2, <1>5, <3>1, <3>2
  <2>3. ASSUME NEW p \in Slots(plan), NEW h \in Fields(p[1]).waits, PassWait(p, h)
        PROVE  NextLife /\ once \subseteq once'
    <3>1. passed' = [passed EXCEPT ![p] = @ \cup {h}] /\ UNCHANGED <<pod, once>> /\ Resolves(h)
      BY <2>3 DEF PassWait
    <3>2. Served(h)
      BY <3>1, ResolvesServed DEF LifeInv
    <3>3. \A q \in Slots(plan) : \A g \in passed'[q] : Served(g)
      BY <1>2, <1>5, <3>1, <3>2
    <3> QED
      BY <1>5, <3>1, <3>3
  <2>4. ASSUME NEW p \in Slots(plan), StartContainers(p)
        PROVE  NextLife /\ once \subseteq once'
    <3>1. /\ pod' = [pod EXCEPT ![p] = IF Listed(p) THEN "running" ELSE "failing"]
          /\ once' = once \cup {p} /\ UNCHANGED passed
          /\ pod[p] = "init" /\ passed[p] = Fields(p[1]).waits
      BY <2>4 DEF StartContainers
    <3>2. \A q \in Slots(plan) : pod'[q] = "running" => Listed(q)
      BY <1>2, <1>5, <3>1
    <3>3. \A q \in once' : \A h \in Fields(q[1]).waits : Served(h)
      BY <1>5, <3>1
    <3>4. \A q \in Slots(plan) : q # p => pod'[q] = pod[q]
      BY <1>2, <3>1
    <3>5. \A q \in Slots(plan) : q[1] \in StatefulSets /\ (pod'[q] # "absent" \/ q \in once') =>
             \A i \in 0 .. q[2] - 1 : <<q[1], i>> \in once'
      BY <1>5, <3>1, <3>4
    <3> QED
      BY <1>5, <3>1, <3>2, <3>3, <3>4, <3>5
  <2>5. ASSUME NEW p \in Slots(plan), LosePod(p)
        PROVE  NextLife /\ once \subseteq once'
    <3>1. pod' = [pod EXCEPT ![p] = "absent"] /\ UNCHANGED <<passed, once>> /\ pod[p] # "absent"
      BY <2>5 DEF LosePod
    <3> QED
      BY <1>2, <1>5, <3>1
  <2> QED
    BY <1>2, <2>1, <2>2, <2>3, <2>4, <2>5 DEF StartNext, ComeUp
<1>7. \A h : Served(h) => Served(h)'
  BY <1>1, <1>6, ServedStays
<1>8. ReadyOnce' /\ RunningListed'
  BY <1>3, <1>4, <1>6 DEF ReadyOnce, RunningListed, Ready
<1>9. PassedServed' /\ OnceServed'
  BY <1>3, <1>4, <1>6, <1>7 DEF PassedServed, OnceServed
<1>10. InOrder'
  BY <1>3, <1>4, <1>6 DEF InOrder
<1> QED
  BY <1>8, <1>9, <1>10 DEF LifeInv

LEMMA LifeInvariant == StartSpec => [](StartInv /\ LifeInv)
<1>1. StartInit => StartInv /\ LifeInv
  BY StartInvInit, LifeInit
<1>2. (StartInv /\ LifeInv) /\ [StartNext]_startVars => (StartInv /\ LifeInv)'
  BY StartInvStep, LifeStep
<1> QED
  BY <1>1, <1>2, PTL DEF StartSpec

-----------------------------------------------------------------------------
(* Whose names are whose.  What is proved from here on needs that the user *)
(* gives no component the name that the handlers hard-code for another.    *)

NamesFree == Names \cap {FRAME_STANDALONE, USER_STANDALONE, SERVER_MASTER} = {}

LEMMA HardCodedNames ==
    ASSUME NamesFree, de \in Variants, NEW k \in 1 .. 4
    PROVE  /\ FRAME_STANDALONE \in OwnNames(k, de) =>
                 k = 1 /\ ~ de.frame.cluster /\ de.frame.name = FRAME_STANDALONE
           /\ USER_STANDALONE \in OwnNames(k, de) => k = 2 /\ de.user.name = USER_STANDALONE
           /\ SERVER_MASTER \in OwnNames(k, de) => k = 3 /\ de.master.name = SERVER_MASTER
<1>1. /\ de.frame.name \notin {USER_STANDALONE, SERVER_MASTER}
      /\ de.user.name \notin {FRAME_STANDALONE, SERVER_MASTER}
      /\ de.master.name \notin {FRAME_STANDALONE, USER_STANDALONE}
  BY VariantFacts DEF NamesFree, FRAME_STANDALONE, USER_STANDALONE, SERVER_MASTER
<1>2. /\ {"mysql", "mysql-read"} \cap {FRAME_STANDALONE, USER_STANDALONE, SERVER_MASTER} = {}
      /\ de.executor.name \notin {FRAME_STANDALONE, USER_STANDALONE, SERVER_MASTER}
  BY VariantFacts DEF FRAME_STANDALONE, USER_STANDALONE, SERVER_MASTER
<1>3. CASE k = 1
  BY <1>1, <1>2, <1>3 DEF OwnNames
<1>4. CASE k = 2
  BY <1>1, <1>4 DEF OwnNames
<1>5. CASE k = 3
  BY <1>1, <1>5 DEF OwnNames
<1>6. CASE k = 4
  BY <1>2, <1>6 DEF OwnNames
<1> QED
  BY <1>3, <1>4, <1>5, <1>6

LEMMA ServiceAt ==
    ASSUME PlanOK, NEW s \in Services
    PROVE  \E k \in 1 .. 4 :
             /\ Name(s) \in OwnNames(k, de)
             /\ Fixed(s).headless = TRUE \/ (k = 1 /\ de.frame.cluster)
             /\ \A w \in Workloads : Routes(s, w) => w = Workload(k)
<1>1. s \in DOMAIN plan /\ plan[s].obj[1] = "Service"
  BY DEF Services, OfKind
<1>2. PICK k \in 1 .. 4, j \in Nat : j \in 1 .. Len(Part(k, de)) /\ s = Pos(k, j)
  BY <1>1, Located
<1>3. StepForm(k, de, plan[s])
  BY <1>2, Placed
<1>4. Name(s) \in OwnNames(k, de) /\ Fields(s).selector = {Label(k, de)}
  BY <1>1, <1>3 DEF StepForm, Named, Name, Fields
<1>5. Fixed(s).headless = TRUE \/ (k = 1 /\ de.frame.cluster)
  <2>1. CASE Addressed(k, de, plan[s].obj[2])
    BY <2>1 DEF Addressed
  <2>2. CASE ~ Addressed(k, de, plan[s].obj[2])
    <3>1. Fixed(s) = [headless |-> TRUE]
      BY <1>1, <1>3, <2>2 DEF StepForm, Immutable, Fixed
    <3> QED
      BY <3>1
  <2> QED
    BY <2>1, <2>2
<1>6. ASSUME NEW w \in Workloads, Routes(s, w) PROVE w = Workload(k)
  <2>1. PICK l \in 1 .. 4 : w = Pos(l, Len(Part(l, de)))
    BY WorkloadAt
  <2>2. k = l
    BY <1>4, <1>6, <2>1, PodsLabelled DEF Routes
  <2> QED
    BY <2>1, <2>2 DEF Workload
<1> QED
  BY <1>4, <1>5, <1>6

(* A hard-coded name that has resolved is that of its component.           *)
LEMMA ServedHost ==
    ASSUME NamesFree, StartInv,
           NEW name \in {FRAME_STANDALONE, USER_STANDALONE, SERVER_MASTER}, Served(Host(name))
    PROVE  \E k \in 1 .. 4 : /\ name \in OwnNames(k, de)
                             /\ \E q \in once : q[1] = Workload(k)
<1>1. PlanOK /\ de \in Variants /\ once \subseteq Slots(plan)
  BY DEF StartInv, StartTypeOK, Engines, PlanOK, Pods
<1>2. Host(name).ordinal = {} /\ Host(name).host = name
  BY DEF Host
<1>3. PICK s \in Services : /\ Name(s) = name
                            /\ Fixed(s).headless => \E q \in once : Routes(s, q[1])
  BY <1>2 DEF Served
<1>4. PICK k \in 1 .. 4 : /\ Name(s) \in OwnNames(k, de)
                          /\ Fixed(s).headless = TRUE \/ (k = 1 /\ de.frame.cluster)
                          /\ \A w \in Workloads : Routes(s, w) => w = Workload(k)
  BY <1>1, ServiceAt
<1>5. Fixed(s).headless = TRUE
  BY <1>1, <1>3, <1>4, HardCodedNames
<1>6. PICK q \in once : Routes(s, q[1])
  BY <1>3, <1>5
<1>7. q[1] \in Workloads
  BY <1>1, SlotFacts, WorkloadFacts
<1> QED
  BY <1>3, <1>4, <1>6, <1>7

LEMMA ServedPod ==
    ASSUME NamesFree, StartInv, NEW i, Served(Pod(SERVER_MASTER, i))
    PROVE  de.master.name = SERVER_MASTER /\ Clustered(3, de) /\ <<Workload(3), i>> \in once
<1>1. PlanOK /\ de \in Variants /\ once \subseteq Slots(plan)
  BY DEF StartInv, StartTypeOK, Engines, PlanOK, Pods
<1>2. Pod(SERVER_MASTER, i).ordinal = {i} /\ Pod(SERVER_MASTER, i).host = SERVER_MASTER
  BY DEF Pod
<1>3. PICK q \in once : q[1] \in StatefulSets /\ {i} = {q[2]} /\ Name(q[1]) = SERVER_MASTER
  BY <1>2 DEF Served
<1>4. PICK k \in 1 .. 4 : q[1] = Workload(k) /\ q = <<Workload(k), q[2]>>
  BY <1>1, SlotFacts
<1>5. Name(Workload(k)) \in OwnNames(k, de) /\ Clustered(k, de)
  BY <1>1, <1>3, <1>4, WorkloadFacts
<1>6. k = 3 /\ de.master.name = SERVER_MASTER
  BY <1>1, <1>3, <1>4, <1>5, HardCodedNames
<1>7. q[2] = i
  BY <1>3
<1> QED
  BY <1>3, <1>4, <1>5, <1>6, <1>7

(* A master has run: so have both stores, which have the names it waits for. *)
LEMMA MasterRan ==
    ASSUME NamesFree, StartInv, LifeInv, NEW p \in once, p[1] = Workload(3)
    PROVE  /\ ~ de.frame.cluster /\ de.frame.name = FRAME_STANDALONE
           /\ de.user.name = USER_STANDALONE
           /\ \E q \in once : q[1] = Workload(1)
           /\ \E q \in once : q[1] = Workload(2)
<1>1. PlanOK /\ de \in Variants
  BY DEF StartInv, StartTypeOK, Engines, PlanOK
<1>2. Fields(p[1]).waits = MasterWaits
  <2>1. EndForm(3, de, plan[Workload(3)])
    BY <1>1, WorkloadFacts
  <2> QED
    BY <2>1 DEF EndForm, Fields, Waits
<1>3. Served(Host(FRAME_STANDALONE)) /\ Served(Host(USER_STANDALONE))
  BY <1>2 DEF LifeInv, OnceServed, MasterWaits
<1>4. PICK k \in 1 .. 4 : /\ FRAME_STANDALONE \in OwnNames(k, de)
                          /\ \E q \in once : q[1] = Workload(k)
  BY <1>3, ServedHost
<1>5. PICK l \in 1 .. 4 : /\ USER_STANDALONE \in OwnNames(l, de)
                          /\ \E q \in once : q[1] = Workload(l)
  BY <1>3, ServedHost
<1> QED
  BY <1>1, <1>4, <1>5, HardCodedNames

(* An executor has run: so has a master, and of a cluster of executors all *)
(* masters.                                                                *)
LEMMA ExecutorRan ==
    ASSUME NamesFree, StartInv, LifeInv, NEW p \in once, p[1] = Workload(4)
    PROVE  /\ de.master.name = SERVER_MASTER
           /\ \E q \in once : q[1] = Workload(3)
           /\ de.executor.cluster =>
                 /\ de.master.size = {1} \/ de.master.cluster
                 /\ \A i \in 0 .. Count(plan, Workload(3)) - 1 : <<Workload(3), i>> \in once
<1>1. PlanOK /\ de \in Variants /\ once \subseteq Slots(plan) /\ Pods = Slots(plan)
  BY DEF StartInv, StartTypeOK, Engines, PlanOK, Pods
<1>2. Fields(p[1]).waits = Waits(4, de)
  <2>1. EndForm(4, de, plan[Workload(4)])
    BY <1>1, WorkloadFacts
  <2> QED
    BY <2>1 DEF EndForm, Fields
<1>3. \A h \in Waits(4, de) : Served(h)
  BY <1>2 DEF LifeInv, OnceServed
<1>4. ASSUME Host(SERVER_MASTER) \in Waits(4, de)
      PROVE  de.master.name = SERVER_MASTER /\ \E q \in once : q[1] = Workload(3)
  <2>1. PICK k \in 1 .. 4 : /\ SERVER_MASTER \in OwnNames(k, de)
                            /\ \E q \in once : q[1] = Workload(k)
    BY <1>3, <1>4, ServedHost
  <2> QED
    BY <1>1, <2>1, HardCodedNames
<1>5. CASE ~ de.executor.cluster
  <2>1. Host(SERVER_MASTER) \in Waits(4, de)
    BY <1>5 DEF Waits
  <2> QED
    BY <1>4, <1>5, <2>1
<1>6. CASE de.executor.cluster
  <2> DEFINE c == Count(plan, Workload(3))
  <2>1. PICK n \in Nat : de.master.size = {n}
    BY <1>1, VariantFacts, StartupAssumption
  <2>2. c \in Nat /\ Copies(3, de) = {c}
    BY <1>1, CountFacts
  <2> HIDE DEF c
  <2>3. CASE n = 1
    <3>1. Host(SERVER_MASTER) \in Waits(4, de)
      BY <1>6, <2>1, <2>3 DEF Waits, loadExecutorInitContainerCommand
    <3>2. PICK q \in once : q[1] = Workload(3)
      BY <1>4, <3>1
    <3>3. c = 1
      <4>1. Copies(3, de) = {1}
        BY <2>1, <2>3 DEF Copies
      <4> QED
        BY <2>2, <4>1
    <3>4. q \in Slots(plan)
      BY <1>1
    <3>5. PICK k \in 1 .. 4 : /\ q[1] = Workload(k) /\ q = <<Workload(k), q[2]>>
                              /\ q[2] \in 0 .. Count(plan, Workload(k)) - 1
      BY <1>1, <3>4, SlotFacts
    <3>6. q = <<Workload(3), q[2]>> /\ q[2] \in 0 .. c - 1
      BY <3>2, <3>5 DEF c
    <3>7. \A i \in 0 .. c - 1 : i = q[2]
      BY <3>3, <3>6
    <3>8. \A i \in 0 .. c - 1 : <<Workload(3), i>> \in once
      BY <3>6, <3>7
    <3> QED
      BY <1>4, <2>1, <2>3, <3>1, <3>8 DEF c
  <2>4. CASE n # 1
    <3>1. Pod(SERVER_MASTER, n - 1) \in Waits(4, de)
      BY <1>6, <2>1, <2>4 DEF Waits, loadExecutorInitContainerCommand
    <3>2. /\ de.master.name = SERVER_MASTER /\ Clustered(3, de)
          /\ <<Workload(3), n - 1>> \in once
      BY <1>3, <3>1, ServedPod
    <3>3. c = n
      <4>1. Copies(3, de) = {n}
        BY <2>1, <3>2 DEF Copies, Clustered
      <4> QED
        BY <2>2, <4>1
    <3> DEFINE last == <<Workload(3), n - 1>>
    <3>4. last[1] = Workload(3) /\ last[2] = n - 1 /\ last \in Pods /\ last \in once
      BY <1>1, <3>2
    <3>5. Workload(3) \in StatefulSets
      BY <1>1, <3>2, WorkloadFacts
    <3>6. \A i \in 0 .. last[2] - 1 : <<last[1], i>> \in once
      <4> HIDE DEF last
      <4> QED
        BY <3>4, <3>5 DEF LifeInv, InOrder
    <3>7. \A i \in 0 .. c - 1 : i = n - 1 \/ i \in 0 .. (n - 1) - 1
      BY <2>1, <3>3
    <3>8. \A i \in 0 .. c - 1 : <<Workload(3), i>> \in once
      BY <3>2, <3>4, <3>6, <3>7
    <3>9. de.master.cluster
      BY <3>2 DEF Clustered
    <3> QED
      BY <3>2, <3>4, <3>8, <3>9 DEF c
  <2> QED
    BY <2>3, <2>4
<1> QED
  BY <1>5, <1>6

-----------------------------------------------------------------------------
(* The properties.                                                         *)

(* Only the pods of a component bear its name.                             *)
LEMMA OwnerOf ==
    ASSUME StartInv, NEW p \in Pods, NEW k \in 1 .. 4, Name(p[1]) \in OwnNames(k, de)
    PROVE  p[1] = Workload(k)
<1>1. PlanOK /\ de \in Variants /\ Unambiguous /\ Pods = Slots(plan)
  BY DEF StartInv, StartTypeOK, Engines, PlanOK, Pods
<1>2. PICK l \in 1 .. 4 : p[1] = Workload(l)
  BY <1>1, SlotFacts
<1>3. Name(p[1]) \in OwnNames(l, de)
  BY <1>1, <1>2, WorkloadFacts
<1>4. k # l => OwnNames(k, de) \cap OwnNames(l, de) = {}
  BY <1>1, OwnNamesApart
<1> QED
  BY <1>2, <1>3, <1>4

(* A workload that is not one of MySQL's cluster has its component's name. *)
LEMMA NameOfPods ==
    ASSUME StartInv, ~ de.frame.cluster
    PROVE  /\ \A p \in Pods : p[1] = Workload(1) => p \in PodsOf(de.frame.name)
           /\ \A p \in Pods : p[1] = Workload(2) => p \in PodsOf(de.user.name)
<1>1. PlanOK
  BY DEF StartInv, StartTypeOK, PlanOK
<1>2. Name(Workload(1)) \in OwnNames(1, de) /\ Name(Workload(2)) \in OwnNames(2, de)
  BY <1>1, WorkloadFacts
<1>3. OwnNames(1, de) = {de.frame.name} /\ OwnNames(2, de) = {de.user.name}
  BY DEF OwnNames
<1> QED
  BY <1>2, <1>3 DEF PodsOf

LEMMA OrderKept ==
    ASSUME NamesFree, StartInv, LifeInv
    PROVE  StartOrder
<1>1. PlanOK /\ de \in Variants /\ Pods = Slots(plan) /\ once \subseteq Pods
  BY DEF StartInv, StartTypeOK, Engines, PlanOK, Pods
<1>2. de.master.name \in OwnNames(3, de) /\ de.executor.name \in OwnNames(4, de)
  BY DEF OwnNames
<1>3. ASSUME NEW p \in PodsOf(de.master.name) \cap once
      PROVE  PodsOf(de.frame.name) \cap once # {} /\ PodsOf(de.user.name) \cap once # {}
  <2>1. p \in Pods /\ p[1] = Workload(3)
    BY <1>2, <1>3, OwnerOf DEF PodsOf
  <2>2. /\ ~ de.frame.cluster
        /\ \E q \in once : q[1] = Workload(1)
        /\ \E q \in once : q[1] = Workload(2)
    BY <1>3, <2>1, MasterRan
  <2> QED
    BY <1>1, <2>2, NameOfPods
<1>4. ASSUME de.executor.cluster, PodsOf(de.executor.name) \cap once # {}
      PROVE  PodsOf(de.master.name) \subseteq once
  <2>1. PICK p \in PodsOf(de.executor.name) : p \in once
    BY <1>4
  <2>2. p \in Pods /\ p[1] = Workload(4)
    BY <1>2, <2>1, OwnerOf DEF PodsOf
  <2>3. \A i \in 0 .. Count(plan, Workload(3)) - 1 : <<Workload(3), i>> \in once
    BY <1>4, <2>1, <2>2, ExecutorRan
  <2>4. ASSUME NEW q \in PodsOf(de.master.name) PROVE q \in once
    <3>1. q \in Pods /\ q[1] = Workload(3)
      BY <1>2, <2>4, OwnerOf DEF PodsOf
    <3>2. q = <<Workload(3), q[2]>> /\ q[2] \in 0 .. Count(plan, Workload(3)) - 1
      BY <1>1, <3>1, SlotFacts
    <3> QED
      BY <2>3, <3>2
  <2> QED
    BY <2>4
<1> QED
  BY <1>3, <1>4 DEF StartOrder

(* The pods that run do so because what they wait for has been there: an   *)
(* engine all of whose pods run is one whose user knew the hard-coded names.*)
LEMMA RunningStartable ==
    ASSUME NamesFree, StartInv, LifeInv, AllRunning
    PROVE  Startable
<1>1. PlanOK /\ de \in Variants /\ Pods = Slots(plan) /\ once \subseteq Pods
  BY DEF StartInv, StartTypeOK, Engines, PlanOK, Pods
<1>2. \A p \in Pods : p \in once /\ Listed(p)
  BY DEF AllRunning, LifeInv, ReadyOnce, RunningListed, Ready
<1>3. PICK p \in once : p[1] = Workload(4)
  <2>1. Count(plan, Workload(4)) \in Nat /\ Count(plan, Workload(4)) >= 1
    BY <1>1, CountFacts
  <2>2. 0 \in 0 .. Count(plan, Workload(4)) - 1
    BY <2>1
  <2>3. <<Workload(4), 0>> \in Slots(plan)
    BY <1>1, <2>2, SlotFacts
  <2> QED
    BY <1>1, <1>2, <2>3
<1>4. /\ de.master.name = SERVER_MASTER
      /\ \E q \in once : q[1] = Workload(3)
      /\ de.executor.cluster => de.master.size = {1} \/ de.master.cluster
  BY <1>3, ExecutorRan
<1>5. PICK q \in once : q[1] = Workload(3)
  BY <1>4
<1>6. /\ ~ de.frame.cluster /\ de.frame.name = FRAME_STANDALONE
      /\ de.user.name = USER_STANDALONE
  BY <1>5, MasterRan
<1>7. ASSUME de.master.cluster PROVE de.master.size # {0} /\ ns = "dev"
  <2>1. Workload(3) \in StatefulSets /\ Name(Workload(3)) \in OwnNames(3, de)
    BY <1>1, <1>7, WorkloadFacts DEF Clustered
  <2>2. Name(q[1]) = de.master.name
    BY <1>5, <2>1 DEF OwnNames
  <2>3. ns = "dev"
    BY <1>1, <1>2, <1>5, <2>1, <2>2 DEF Listed, InitClusterNamespace
  <2>4. q[2] \in 0 .. Count(plan, Workload(3)) - 1
    <3>1. PICK k \in 1 .. 4 : /\ q[1] = Workload(k)
                              /\ q[2] \in 0 .. Count(plan, Workload(k)) - 1
      BY <1>1, SlotFacts
    <3> QED
      BY <1>5, <3>1
  <2>5. Count(plan, Workload(3)) \in Nat /\ de.master.size = {Count(plan, Workload(3))}
    BY <1>1, <1>7, CountFacts DEF Copies
  <2>6. Count(plan, Workload(3)) # 0
    BY <2>4, <2>5
  <2> QED
    BY <2>3, <2>5, <2>6
<1> QED
  BY <1>4, <1>6, <1>7 DEF Startable

(* Masters first run after MySQL and an etcd pod have, and the executors   *)
(* of a cluster after every master has.                                    *)
THEOREM StartOrderSafe == NamesFree => (StartSpec => []StartOrder)
<1> SUFFICES ASSUME NamesFree PROVE StartSpec => []StartOrder
  OBVIOUS
<1>1. StartInv /\ LifeInv => StartOrder
  BY OrderKept
<1> QED
  BY <1>1, LifeInvariant, PTL

(* All pods run only of an engine that keeps the conditions of Startable.  *)
THEOREM RunsOnlySafe == NamesFree => (StartSpec => []RunsOnlyStartable)
<1> SUFFICES ASSUME NamesFree PROVE StartSpec => []RunsOnlyStartable
  OBVIOUS
<1>1. StartInv /\ LifeInv => RunsOnlyStartable
  BY RunningStartable DEF RunsOnlyStartable
<1> QED
  BY <1>1, LifeInvariant, PTL
=============================================================================
