----------------------------- MODULE ManifestProofs ---------------------------
(***************************************************************************)
(* Proofs about the objects of one pass, for every resource that edits     *)
(* reach, whatever the names, sizes, ports and images are.  The invariant  *)
(* is that the plan is that of the resource and the resource has its type; *)
(* the properties follow from those of the parts of a plan.                *)
(***************************************************************************)
EXTENDS ManifestParts

-----------------------------------------------------------------------------
(* The plan of the resource, step by step.                                 *)

PlanOK == plan = PlanOf(de)

Pos(k, j) == Before(k, de) + j

LEMMA Located ==
    ASSUME PlanOK, NEW i \in DOMAIN plan
    PROVE  \E k \in 1 .. 4 : \E j \in 1 .. Len(Part(k, de)) : i = Pos(k, j)
BY PlanFacts DEF PlanOK, Pos

LEMMA Placed ==
    ASSUME PlanOK, NEW k \in 1 .. 4, NEW j \in 1 .. Len(Part(k, de))
    PROVE  /\ Pos(k, j) \in DOMAIN plan
           /\ plan[Pos(k, j)] = Part(k, de)[j]
           /\ StepForm(k, de, plan[Pos(k, j)])
           /\ (Pos(k, j) \in Workloads) <=> (j = Len(Part(k, de)))
           /\ Pos(k, j) \in Nat
<1>1. Pos(k, j) \in DOMAIN plan /\ Pos(k, j) \in Nat
  <2> DEFINE b == Before(k, de)  n == Len(Part(k, de))  end == Last(4, de)
  <2>1. b \in Nat /\ n \in 2 .. 5 /\ b + n <= end
    BY PlanFacts DEF Last
  <2>2. 4 \in 1 .. 4 /\ Before(4, de) \in Nat /\ Len(Part(4, de)) \in 2 .. 5
    BY PlanFacts
  <2>3. end \in Nat
    BY <2>2 DEF Last
  <2>4. DOMAIN plan = 1 .. end
    BY PlanFacts DEF PlanOK
  <2>5. j \in 1 .. n /\ Pos(k, j) = b + j
    BY DEF Pos
  <2> HIDE DEF b, n, end
  <2> QED
    BY <2>1, <2>3, <2>4, <2>5
<1>2. plan[Pos(k, j)] = Part(k, de)[j]
  BY PlanFacts DEF PlanOK, Pos
<1>3. StepForm(k, de, Part(k, de)[j]) /\ Ends(Part(k, de))
  BY PartForms DEF PartForm
<1> QED
  BY <1>1, <1>2, <1>3 DEF Workloads, OfKind, Ends

LEMMA PartEnd ==
    ASSUME PlanOK, NEW k \in 1 .. 4
    PROVE  /\ Len(Part(k, de)) \in 1 .. Len(Part(k, de))
           /\ Pos(k, Len(Part(k, de))) \in Workloads
           /\ \A i \in 1 .. Len(Part(k, de)) :
                 (i < Len(Part(k, de))) <=> (Pos(k, i) < Pos(k, Len(Part(k, de))))
<1>1. Len(Part(k, de)) \in 2 .. 5 /\ Before(k, de) \in Nat
  BY PlanFacts
<1>2. \A n \in 2 .. 5 : n \in 1 .. n
  OBVIOUS
<1>3. Len(Part(k, de)) \in 1 .. Len(Part(k, de))
  BY <1>1, <1>2
<1> QED
  BY <1>1, <1>3, Placed DEF Pos

(* A workload ends its part.                                               *)
LEMMA WorkloadAt ==
    ASSUME PlanOK, NEW w \in Workloads
    PROVE  \E k \in 1 .. 4 : w = Pos(k, Len(Part(k, de)))
<1>1. w \in DOMAIN plan
  BY DEF Workloads, OfKind
<1>2. PICK k \in 1 .. 4, j \in Nat : j \in 1 .. Len(Part(k, de)) /\ w = Pos(k, j)
  BY <1>1, Located
<1>3. j = Len(Part(k, de))
  BY <1>2, Placed
<1> QED
  BY <1>2, <1>3

LEMMA PodsLabelled ==
    ASSUME PlanOK, NEW k \in 1 .. 4, NEW l \in 1 .. 4
    PROVE  {Label(k, de)} \subseteq Fields(Pos(l, Len(Part(l, de)))).pod <=> k = l
<1>1. Labelled(l, de, Part(l, de)[Len(Part(l, de))])
  BY PartForms DEF PartForm
<1>2. Labelled(l, de, plan[Pos(l, Len(Part(l, de)))])
  BY <1>1, PartEnd, Placed
<1> QED
  BY <1>2, LabelFacts DEF Labelled, Fields

LEMMA PlanRoutes ==
    ASSUME PlanOK
    PROVE  RoutesToPods
<1> SUFFICES ASSUME NEW s \in Services
             PROVE  \E w \in Workloads :
                      /\ {x \in Workloads : Routes(s, x)} = {w}
                      /\ (~ de.frame.cluster \/ de.frame.port = CONTAINER_PORT)
                            => Fields(s).ports \subseteq Fields(w).ports
  BY DEF RoutesToPods
<1>1. s \in DOMAIN plan /\ plan[s].obj[1] = "Service"
  BY DEF Services, OfKind
<1>2. PICK k \in 1 .. 4, j \in Nat : j \in 1 .. Len(Part(k, de)) /\ s = Pos(k, j)
  BY <1>1, Located
<1> DEFINE n == Len(Part(k, de))  w == Pos(k, n)
<1>3. Fields(s).selector = {Label(k, de)}
  BY <1>1, <1>2, Placed DEF StepForm, Fields
<1>4. w \in Workloads
  BY PartEnd
<1>5. \A x \in Workloads : Routes(s, x) <=> x = w
  <2> TAKE x \in Workloads
  <2>1. PICK l \in 1 .. 4 : x = Pos(l, Len(Part(l, de)))
    BY WorkloadAt
  <2>2. Routes(s, x) <=> k = l
    BY <1>3, <2>1, PodsLabelled DEF Routes
  <2>3. x = w => k = l
    <3>1. {Label(k, de)} \subseteq Fields(w).pod
      BY PodsLabelled
    <3>2. {Label(k, de)} \subseteq Fields(x).pod <=> k = l
      BY <2>1, PodsLabelled
    <3> QED
      BY <3>1, <3>2
  <2> QED
    BY <2>1, <2>2, <2>3
<1>6. ASSUME ~ de.frame.cluster \/ de.frame.port = CONTAINER_PORT
      PROVE  Fields(s).ports \subseteq Fields(w).ports
  <2>1. Opens(k, de, Part(k, de))
    BY PartForms DEF PartForm
  <2>2. plan[s] = Part(k, de)[j] /\ plan[w] = Part(k, de)[n]
    BY <1>2, Placed, PartEnd
  <2>3. k = 1 /\ de.frame.cluster => de.frame.port = CONTAINER_PORT
    BY <1>6
  <2>4. \A i \in 1 .. n : Part(k, de)[i].obj[1] = "Service" =>
            Part(k, de)[i].body.spec.ports \subseteq Part(k, de)[n].body.spec.ports
    BY <2>1, <2>3 DEF Opens
  <2> QED
    BY <1>1, <1>2, <2>2, <2>4 DEF Fields
<1> QED
  BY <1>4, <1>5, <1>6

LEMMA PlanMounts ==
    ASSUME PlanOK
    PROVE  MountsProvided
<1> SUFFICES ASSUME NEW w \in Workloads, NEW m \in Fields(w).mounts
             PROVE  \E i \in OfKind({"ConfigMap", "PersistentVolumeClaim"}) :
                        i < w /\ Name(i) = m
  BY DEF MountsProvided
<1>1. PICK k \in 1 .. 4 : w = Pos(k, Len(Part(k, de)))
  BY WorkloadAt
<1> DEFINE P == Part(k, de)
<1>2. Mounts(P) /\ plan[w] = P[Len(P)]
  BY <1>1, PartForms, PartEnd, Placed DEF PartForm
<1>3. PICK j \in 1 .. Len(P) : /\ j < Len(P) /\ P[j].obj[2] = m
                               /\ P[j].obj[1] \in {"ConfigMap", "PersistentVolumeClaim"}
  BY <1>2 DEF Mounts, Fields
<1>4. Pos(k, j) < w
  BY <1>1, <1>3, PartEnd
<1>5. Pos(k, j) \in DOMAIN plan /\ plan[Pos(k, j)] = P[j]
  BY Placed
<1> QED
  BY <1>3, <1>4, <1>5 DEF OfKind, Name

(* The Service that Governs speaks of, in the plan.                        *)
LEMMA ServiceOf ==
    ASSUME PlanOK, NEW k \in 1 .. 4
    PROVE  \E s \in Services :
             /\ s < Pos(k, Len(Part(k, de))) /\ Fixed(s).headless = TRUE
             /\ Clustered(k, de) => Name(s) = Fixed(Pos(k, Len(Part(k, de)))).service
             /\ (k = 1 /\ Clustered(k, de)) \/ Name(s) \in OwnNames(k, de)
             /\ Fields(s).selector = {Label(k, de)}
<1> DEFINE P == Part(k, de)  w == Pos(k, Len(P))
<1>1. Governs(k, de, P) /\ plan[w] = P[Len(P)]
  BY PartForms, PartEnd, Placed DEF PartForm
<1>2. PICK j \in 1 .. Len(P) :
        /\ j < Len(P) /\ P[j].obj[1] = "Service" /\ P[j].body.immut.headless = TRUE
        /\ Clustered(k, de) => P[j].obj[2] = P[Len(P)].body.immut.service
        /\ (k = 1 /\ Clustered(k, de)) \/ P[j].obj[2] \in OwnNames(k, de)
  BY <1>1 DEF Governs
<1>3. Pos(k, j) < w
  BY <1>2, PartEnd
<1>4. Pos(k, j) \in DOMAIN plan /\ plan[Pos(k, j)] = P[j] /\ StepForm(k, de, P[j])
  BY Placed
<1>5. Pos(k, j) \in Services
  BY <1>2, <1>4 DEF Services, OfKind
<1>6. P[j].body.spec.selector = {Label(k, de)}
  BY <1>2, <1>4 DEF StepForm
<1> HIDE DEF P
<1>7. /\ Fixed(Pos(k, j)) = P[j].body.immut /\ Name(Pos(k, j)) = P[j].obj[2]
      /\ Fixed(w) = P[Len(P)].body.immut /\ Fields(Pos(k, j)) = P[j].body.spec
  BY <1>1, <1>4 DEF Fixed, Name, Fields
<1>8. /\ Pos(k, j) < w /\ Fixed(Pos(k, j)).headless = TRUE
      /\ Clustered(k, de) => Name(Pos(k, j)) = Fixed(w).service
      /\ (k = 1 /\ Clustered(k, de)) \/ Name(Pos(k, j)) \in OwnNames(k, de)
      /\ Fields(Pos(k, j)).selector = {Label(k, de)}
  BY <1>2, <1>3, <1>6, <1>7
<1> QED
  BY <1>5, <1>8 DEF P

LEMMA StatefulSetAt ==
    ASSUME PlanOK, NEW w \in StatefulSets
    PROVE  \E k \in 1 .. 4 : /\ w = Pos(k, Len(Part(k, de))) /\ Clustered(k, de)
                             /\ Fixed(w) = [selector |-> {Label(k, de)}, service |-> Name(w)]
<1>1. w \in Workloads /\ plan[w].obj[1] = "StatefulSet"
  BY DEF StatefulSets, Workloads, OfKind
<1>2. PICK k \in 1 .. 4 : w = Pos(k, Len(Part(k, de)))
  BY <1>1, WorkloadAt
<1>3. StepForm(k, de, plan[w])
  BY <1>2, PartEnd, Placed
<1> QED
  BY <1>1, <1>2, <1>3 DEF StepForm, Immutable, Fixed, Name

LEMMA PlanGoverned ==
    ASSUME PlanOK
    PROVE  Governed
<1> SUFFICES ASSUME NEW w \in StatefulSets
             PROVE  \E s \in Services : /\ s < w /\ Name(s) = Fixed(w).service
                                        /\ Fixed(s).headless /\ Routes(s, w)
  BY DEF Governed
<1>1. PICK k \in 1 .. 4 : w = Pos(k, Len(Part(k, de))) /\ Clustered(k, de)
  BY StatefulSetAt
<1>2. PICK s \in Services : /\ s < w /\ Fixed(s).headless = TRUE
                            /\ Name(s) = Fixed(w).service
                            /\ Fields(s).selector = {Label(k, de)}
  BY <1>1, ServiceOf
<1>3. Routes(s, w)
  BY <1>1, <1>2, PodsLabelled DEF Routes
<1> QED
  BY <1>2, <1>3

(* The names that Unambiguous keeps apart.                                 *)
LEMMA OwnNamesApart ==
    ASSUME Unambiguous, NEW k \in 1 .. 4, NEW l \in 1 .. 4, k # l
    PROVE  OwnNames(k, de) \cap OwnNames(l, de) = {}
<1>1. \A i \in 1 .. 4 : i = 1 \/ i = 2 \/ i = 3 \/ i = 4
  OBVIOUS
<1> DEFINE own == OwnNames(1, de)
<1>2. {de.user.name, de.master.name, de.executor.name} \cap own = {}
  BY DEF Unambiguous, OwnNames
<1>3. /\ OwnNames(2, de) = {de.user.name} /\ OwnNames(3, de) = {de.master.name}
      /\ OwnNames(4, de) = {de.executor.name}
  BY DEF OwnNames
<1>4. /\ de.user.name # de.master.name /\ de.master.name # de.executor.name
      /\ de.user.name # de.executor.name
  BY DEF Unambiguous
<1> HIDE DEF own
<1>5. OwnNames(1, de) = own
  BY DEF own
<1> QED
  BY <1>1, <1>2, <1>3, <1>4, <1>5

LEMMA PlanDistinct ==
    ASSUME PlanOK
    PROVE  DistinctObjects
<1> SUFFICES ASSUME Unambiguous, NEW i \in DOMAIN plan, NEW j \in DOMAIN plan,
                    plan[i].obj = plan[j].obj
             PROVE  i = j
  BY DEF DistinctObjects
<1>1. PICK k \in 1 .. 4, p \in Nat : p \in 1 .. Len(Part(k, de)) /\ i = Pos(k, p)
  BY Located
<1>2. PICK l \in 1 .. 4, q \in Nat : q \in 1 .. Len(Part(l, de)) /\ j = Pos(l, q)
  BY Located
<1>3. Named(k, de, plan[i]) /\ Named(l, de, plan[j])
  BY <1>1, <1>2, Placed DEF StepForm
<1>4. k = l
  BY <1>3, OwnNamesApart, FixedNamesApart DEF Named
<1>5. Part(k, de)[p] = plan[i] /\ Part(k, de)[q] = plan[j]
  BY <1>1, <1>2, <1>4, Placed
<1>6. Apart(Part(k, de))
  BY PartForms DEF PartForm
<1>7. q \in 1 .. Len(Part(k, de))
  BY <1>2, <1>4
<1>8. p = q
  BY <1>1, <1>5, <1>6, <1>7 DEF Apart
<1> QED
  BY <1>1, <1>2, <1>4, <1>8

LEMMA PlanFollows == Spec => []PlanOK
<1>1. Init => PlanOK
  BY DEF Init, PlanOK
<1>2. PlanOK /\ [Next]_<<de, plan>> => PlanOK'
  BY DEF Next, PlanOK
<1> QED
  BY <1>1, <1>2, PTL DEF Spec

(* Every Service of every engine that edits reach routes to one workload.  *)
THEOREM RoutesSafe == Spec => []RoutesToPods
BY PlanFollows, PlanRoutes, PTL

(* What a workload mounts is written before it.                            *)
THEOREM MountsSafe == Spec => []MountsProvided
BY PlanFollows, PlanMounts, PTL

(* Every StatefulSet has its governing Service.                            *)
THEOREM GovernedSafe == Spec => []Governed
BY PlanFollows, PlanGoverned, PTL

(* No pass writes an object twice.                                         *)
THEOREM DistinctSafe == Spec => []DistinctObjects
BY PlanFollows, PlanDistinct, PTL

-----------------------------------------------------------------------------
(* The resource keeps its shape, and an edit concerns one component.       *)

ShapedComponent(c) == c = [name |-> c.name, size |-> c.size, ports |-> c.ports,
                           cluster |-> c.cluster]

ShapedFrame(c) == c = [name |-> c.name, image |-> c.image, size |-> c.size,
                       port |-> c.port, cluster |-> c.cluster]

ShapedUser(c) == c = [name |-> c.name, image |-> c.image, size |-> c.size,
                      ports |-> c.ports, cluster |-> c.cluster]

Shaped(d) ==
    /\ d = [image |-> d.image, master |-> d.master, executor |-> d.executor,
            frame |-> d.frame, user |-> d.user]
    /\ ShapedComponent(d.master)
    /\ ShapedComponent(d.executor)
    /\ ShapedFrame(d.frame)
    /\ ShapedUser(d.user)

Optional(s) == s \subseteq Int /\ \A m, n \in s : m = n

ResourceOK(d) == Shaped(d) /\ Optional(d.user.size) /\ Optional(d.master.size)

(* The component of part k is the same in d and e.                         *)
SamePart(k, d, e) ==
    /\ k = 1 => d.frame = e.frame
    /\ k = 2 => d.user = e.user
    /\ k = 3 => d.master = e.master
    /\ k = 4 => d.executor = e.executor

OneEdit(d, e) == \E c \in 1 .. 4 : \A k \in 1 .. 4 : k # c => SamePart(k, d, e)

LEMMA EngineShaped ==
    ASSUME NEW i, NEW m1, NEW m2, NEW m3, NEW m4, NEW e1, NEW e2, NEW e3, NEW e4,
           NEW f1, NEW f2, NEW f3, NEW u1, NEW u2, NEW u3, Optional(m2), Optional(u2)
    PROVE  ResourceOK(Engine(i, Component(m1, m2, m3, m4), Component(e1, e2, e3, e4),
                             Frame(f1, f2, f3), User(u1, u2, u3)))
<1> DEFINE m == Component(m1, m2, m3, m4)  e == Component(e1, e2, e3, e4)
           f == Frame(f1, f2, f3)  u == User(u1, u2, u3)  d == Engine(i, m, e, f, u)
<1>1. ShapedComponent(m) /\ m.size = m2
  BY DEF ShapedComponent, Component
<1>2. ShapedComponent(e)
  BY DEF ShapedComponent, Component
<1>3. ShapedFrame(f)
  BY DEF ShapedFrame, Frame
<1>4. ShapedUser(u) /\ u.size = u2
  BY DEF ShapedUser, User
<1> HIDE DEF m, e, f, u
<1>5. /\ d = [image |-> d.image, master |-> d.master, executor |-> d.executor,
              frame |-> d.frame, user |-> d.user]
      /\ d.master = m /\ d.executor = e /\ d.frame = f /\ d.user = u
  BY DEF Engine
<1> HIDE DEF d
<1>6. ResourceOK(d)
  BY <1>1, <1>2, <1>3, <1>4, <1>5 DEF ResourceOK, Shaped
<1> QED
  BY <1>6 DEF d, m, e, f, u

LEMMA DemoShaped ==
    ASSUME NEW masters \in Int, NEW executors
    PROVE  ResourceOK(Demo(masters, executors))
<1> DEFINE several == masters > 1  many == executors > 1  size == {masters}
           none == {}  one == {1}  alone == FALSE
           f == Frame(FRAME_STANDALONE, none, alone)  u == User(USER_STANDALONE, one, alone)
<1>1. Optional(size) /\ Optional(one)
  BY DEF Optional
<1>2. Demo(masters, executors) =
        Engine(DemoImage, Component("server-master", size, 10240, several),
               Component("server-executor", {executors}, 10241, many), f, u)
  BY DEF Demo, SingleFrame, SingleUser
<1> HIDE DEF several, many, size, none, one, alone, f, u
<1>3. ResourceOK(Engine(DemoImage, Component("server-master", size, 10240, several),
          Component("server-executor", {executors}, 10241, many),
          Frame(FRAME_STANDALONE, none, alone), User(USER_STANDALONE, one, alone)))
  BY <1>1, EngineShaped
<1> QED
  BY <1>2, <1>3 DEF f, u

LEMMA InitShaped == Init => ResourceOK(de)
<1> SUFFICES ASSUME Init PROVE ResourceOK(de)
  OBVIOUS
<1>1. Optional({1}) /\ Optional({3}) /\ Optional({})
  BY DEF Optional
<1>2. \A masters \in {1, 3}, executors \in {1, 3} : ResourceOK(Demo(masters, executors))
  BY DemoShaped
<1>3. ResourceOK(UserStorageSingle)
  BY <1>1, EngineShaped DEF UserStorageSingle, NoComponent, SingleFrame, SingleUser
<1>4. ResourceOK(UserStorageCluster)
  BY <1>1, EngineShaped DEF UserStorageCluster, NoComponent
<1> QED
  BY <1>2, <1>3, <1>4 DEF Init, Deployable

LEMMA ImageReplaced ==
    ASSUME NEW d, ResourceOK(d), NEW x, NEW e, e = [d EXCEPT !.image = x]
    PROVE  ResourceOK(e) /\ OneEdit(d, e)
<1>1. /\ e = [image |-> x, master |-> d.master, executor |-> d.executor,
            frame |-> d.frame, user |-> d.user]
      /\ e.image = x /\ e.master = d.master /\ e.executor = d.executor
      /\ e.frame = d.frame /\ e.user = d.user
  BY DEF ResourceOK, Shaped
<1>2. ResourceOK(e)
  BY <1>1 DEF ResourceOK, Shaped
<1>3. \A k \in 1 .. 4 : k # 1 => SamePart(k, d, e)
  BY <1>1 DEF SamePart
<1>4. 1 \in 1 .. 4
  OBVIOUS
<1> QED
  BY <1>2, <1>3, <1>4 DEF OneEdit

LEMMA MasterReplaced ==
    ASSUME NEW d, ResourceOK(d), NEW x, ShapedComponent(x), Optional(x.size),
           NEW e, e = [d EXCEPT !.master = x]
    PROVE  ResourceOK(e) /\ OneEdit(d, e)
<1>1. /\ e = [image |-> d.image, master |-> x, executor |-> d.executor,
            frame |-> d.frame, user |-> d.user]
      /\ e.image = d.image /\ e.master = x /\ e.executor = d.executor
      /\ e.frame = d.frame /\ e.user = d.user
  BY DEF ResourceOK, Shaped
<1>2. ResourceOK(e)
  BY <1>1 DEF ResourceOK, Shaped
<1>3. \A k \in 1 .. 4 : k # 3 => SamePart(k, d, e)
  BY <1>1 DEF SamePart
<1>4. 3 \in 1 .. 4
  OBVIOUS
<1> QED
  BY <1>2, <1>3, <1>4 DEF OneEdit

LEMMA ExecutorReplaced ==
    ASSUME NEW d, ResourceOK(d), NEW x, ShapedComponent(x),
           NEW e, e = [d EXCEPT !.executor = x]
    PROVE  ResourceOK(e) /\ OneEdit(d, e)
<1>1. /\ e = [image |-> d.image, master |-> d.master, executor |-> x,
            frame |-> d.frame, user |-> d.user]
      /\ e.image = d.image /\ e.master = d.master /\ e.executor = x
      /\ e.frame = d.frame /\ e.user = d.user
  BY DEF ResourceOK, Shaped
<1>2. ResourceOK(e)
  BY <1>1 DEF ResourceOK, Shaped
<1>3. \A k \in 1 .. 4 : k # 4 => SamePart(k, d, e)
  BY <1>1 DEF SamePart
<1>4. 4 \in 1 .. 4
  OBVIOUS
<1> QED
  BY <1>2, <1>3, <1>4 DEF OneEdit

LEMMA FrameReplaced ==
    ASSUME NEW d, ResourceOK(d), NEW x, ShapedFrame(x), NEW e, e = [d EXCEPT !.frame = x]
    PROVE  ResourceOK(e) /\ OneEdit(d, e)
<1>1. /\ e = [image |-> d.image, master |-> d.master, executor |-> d.executor,
            frame |-> x, user |-> d.user]
      /\ e.image = d.image /\ e.master = d.master /\ e.executor = d.executor
      /\ e.frame = x /\ e.user = d.user
  BY DEF ResourceOK, Shaped
<1>2. ResourceOK(e)
  BY <1>1 DEF ResourceOK, Shaped
<1>3. \A k \in 1 .. 4 : k # 1 => SamePart(k, d, e)
  BY <1>1 DEF SamePart
<1>4. 1 \in 1 .. 4
  OBVIOUS
<1> QED
  BY <1>2, <1>3, <1>4 DEF OneEdit

LEMMA UserReplaced ==
    ASSUME NEW d, ResourceOK(d), NEW x, ShapedUser(x), Optional(x.size),
           NEW e, e = [d EXCEPT !.user = x]
    PROVE  ResourceOK(e) /\ OneEdit(d, e)
<1>1. /\ e = [image |-> d.image, master |-> d.master, executor |-> d.executor,
            frame |-> d.frame, user |-> x]
      /\ e.image = d.image /\ e.master = d.master /\ e.executor = d.executor
      /\ e.frame = d.frame /\ e.user = x
  BY DEF ResourceOK, Shaped
<1>2. ResourceOK(e)
  BY <1>1 DEF ResourceOK, Shaped
<1>3. \A k \in 1 .. 4 : k # 2 => SamePart(k, d, e)
  BY <1>1 DEF SamePart
<1>4. 2 \in 1 .. 4
  OBVIOUS
<1> QED
  BY <1>2, <1>3, <1>4 DEF OneEdit

LEMMA EditKeeps ==
    ASSUME ResourceOK(de), Edit
    PROVE  ResourceOK(de') /\ OneEdit(de, de')
<1> USE SizesAssumption
<1>1. CASE EditFrame
  <2>1. ASSUME NEW v \in Names \cup {FRAME_STANDALONE}, de' = [de EXCEPT !.frame.name = v]
        PROVE  ResourceOK(de') /\ OneEdit(de, de')
    <3> DEFINE x == [de.frame EXCEPT !.name = v]
    <3>1. de' = [de EXCEPT !.frame = x]
      BY <2>1 DEF ResourceOK, Shaped
    <3>2. ShapedFrame(x)
      BY DEF ResourceOK, Shaped, ShapedFrame
    <3> QED
      BY <3>1, <3>2, FrameReplaced
  <2>2. ASSUME NEW v \in FramePorts, de' = [de EXCEPT !.frame.port = v]
        PROVE  ResourceOK(de') /\ OneEdit(de, de')
    <3> DEFINE x == [de.frame EXCEPT !.port = v]
    <3>1. de' = [de EXCEPT !.frame = x]
      BY <2>2 DEF ResourceOK, Shaped
    <3>2. ShapedFrame(x)
      BY DEF ResourceOK, Shaped, ShapedFrame
    <3> QED
      BY <3>1, <3>2, FrameReplaced
  <2>3. ASSUME NEW v \in BOOLEAN, de' = [de EXCEPT !.frame.cluster = v]
        PROVE  ResourceOK(de') /\ OneEdit(de, de')
    <3> DEFINE x == [de.frame EXCEPT !.cluster = v]
    <3>1. de' = [de EXCEPT !.frame = x]
      BY <2>3 DEF ResourceOK, Shaped
    <3>2. ShapedFrame(x)
      BY DEF ResourceOK, Shaped, ShapedFrame
    <3> QED
      BY <3>1, <3>2, FrameReplaced
  <2> QED
    BY <1>1, <2>1, <2>2, <2>3 DEF EditFrame
<1>2. CASE EditUser
  <2>1. ASSUME NEW v \in Names \cup {USER_STANDALONE}, de' = [de EXCEPT !.user.name = v]
        PROVE  ResourceOK(de') /\ OneEdit(de, de')
    <3> DEFINE x == [de.user EXCEPT !.name = v]
    <3>1. de' = [de EXCEPT !.user = x]
      BY <2>1 DEF ResourceOK, Shaped
    <3>2. ShapedUser(x)
      BY DEF ResourceOK, Shaped, ShapedUser
    <3>3. x.size = de.user.size
      BY DEF ResourceOK, Shaped, ShapedUser
    <3>4. Optional(x.size)
      BY <3>3 DEF ResourceOK, Optional
    <3> HIDE DEF x
    <3> QED
      BY <3>1, <3>2, <3>4, UserReplaced
  <2>2. ASSUME NEW v \in Sizes, de' = [de EXCEPT !.user.size = v]
        PROVE  ResourceOK(de') /\ OneEdit(de, de')
    <3> DEFINE x == [de.user EXCEPT !.size = v]
    <3>1. de' = [de EXCEPT !.user = x]
      BY <2>2 DEF ResourceOK, Shaped
    <3>2. ShapedUser(x)
      BY DEF ResourceOK, Shaped, ShapedUser
    <3>3. x.size = v
      BY DEF ResourceOK, Shaped, ShapedUser
    <3>4. Optional(x.size)
      BY <3>3 DEF ResourceOK, Optional
    <3> HIDE DEF x
    <3> QED
      BY <3>1, <3>2, <3>4, UserReplaced
  <2>3. ASSUME NEW v \in BOOLEAN, de' = [de EXCEPT !.user.cluster = v]
        PROVE  ResourceOK(de') /\ OneEdit(de, de')
    <3> DEFINE x == [de.user EXCEPT !.cluster = v]
    <3>1. de' = [de EXCEPT !.user = x]
      BY <2>3 DEF ResourceOK, Shaped
    <3>2. ShapedUser(x)
      BY DEF ResourceOK, Shaped, ShapedUser
    <3>3. x.size = de.user.size
      BY DEF ResourceOK, Shaped, ShapedUser
    <3>4. Optional(x.size)
      BY <3>3 DEF ResourceOK, Optional
    <3> HIDE DEF x
    <3> QED
      BY <3>1, <3>2, <3>4, UserReplaced
  <2> QED
    BY <1>2, <2>1, <2>2, <2>3 DEF EditUser
<1>3. CASE EditMaster
  <2>1. ASSUME NEW v \in Names \cup {SERVER_MASTER}, de' = [de EXCEPT !.master.name = v]
        PROVE  ResourceOK(de') /\ OneEdit(de, de')
    <3> DEFINE x == [de.master EXCEPT !.name = v]
    <3>1. de' = [de EXCEPT !.master = x]
      BY <2>1 DEF ResourceOK, Shaped
    <3>2. ShapedComponent(x)
      BY DEF ResourceOK, Shaped, ShapedComponent
    <3>3. x.size = de.master.size
      BY DEF ResourceOK, Shaped, ShapedComponent
    <3>4. Optional(x.size)
      BY <3>3 DEF ResourceOK, Optional
    <3> HIDE DEF x
    <3> QED
      BY <3>1, <3>2, <3>4, MasterReplaced
  <2>2. ASSUME NEW v \in Sizes, de' = [de EXCEPT !.master.size = v]
        PROVE  ResourceOK(de') /\ OneEdit(de, de')
    <3> DEFINE x == [de.master EXCEPT !.size = v]
    <3>1. de' = [de EXCEPT !.master = x]
      BY <2>2 DEF ResourceOK, Shaped
    <3>2. ShapedComponent(x)
      BY DEF ResourceOK, Shaped, ShapedComponent
    <3>3. x.size = v
      BY DEF ResourceOK, Shaped, ShapedComponent
    <3>4. Optional(x.size)
      BY <3>3 DEF ResourceOK, Optional
    <3> HIDE DEF x
    <3> QED
      BY <3>1, <3>2, <3>4, MasterReplaced
  <2>3. ASSUME NEW v \in BOOLEAN, de' = [de EXCEPT !.master.cluster = v]
        PROVE  ResourceOK(de') /\ OneEdit(de, de')
    <3> DEFINE x == [de.master EXCEPT !.cluster = v]
    <3>1. de' = [de EXCEPT !.master = x]
      BY <2>3 DEF ResourceOK, Shaped
    <3>2. ShapedComponent(x)
      BY DEF ResourceOK, Shaped, ShapedComponent
    <3>3. x.size = de.master.size
      BY DEF ResourceOK, Shaped, ShapedComponent
    <3>4. Optional(x.size)
      BY <3>3 DEF ResourceOK, Optional
    <3> HIDE DEF x
    <3> QED
      BY <3>1, <3>2, <3>4, MasterReplaced
  <2> QED
    BY <1>3, <2>1, <2>2, <2>3 DEF EditMaster
<1>4. CASE EditExecutor
  <2>1. ASSUME NEW v \in Names \cup {"server-executor"}, de' = [de EXCEPT !.executor.name = v]
        PROVE  ResourceOK(de') /\ OneEdit(de, de')
    <3> DEFINE x == [de.executor EXCEPT !.name = v]
    <3>1. de' = [de EXCEPT !.executor = x]
      BY <2>1 DEF ResourceOK, Shaped
    <3>2. ShapedComponent(x)
      BY DEF ResourceOK, Shaped, ShapedComponent
    <3> QED
      BY <3>1, <3>2, ExecutorReplaced
  <2>2. ASSUME NEW v \in BOOLEAN, de' = [de EXCEPT !.executor.cluster = v]
        PROVE  ResourceOK(de') /\ OneEdit(de, de')
    <3> DEFINE x == [de.executor EXCEPT !.cluster = v]
    <3>1. de' = [de EXCEPT !.executor = x]
      BY <2>2 DEF ResourceOK, Shaped
    <3>2. ShapedComponent(x)
      BY DEF ResourceOK, Shaped, ShapedComponent
    <3> QED
      BY <3>1, <3>2, ExecutorReplaced
  <2> QED
    BY <1>4, <2>1, <2>2 DEF EditExecutor
<1>5. CASE EditImage
  BY <1>5, ImageReplaced DEF EditImage
<1> QED
  BY <1>1, <1>2, <1>3, <1>4, <1>5 DEF Edit

-----------------------------------------------------------------------------
(* What an edit makes of the objects that exist.                           *)

NamesDiffer(d) ==
    /\ {d.user.name, d.master.name, d.executor.name} \cap OwnNames(1, d) = {}
    /\ d.user.name # d.master.name /\ d.master.name # d.executor.name
    /\ d.user.name # d.executor.name

LEMMA NamesApart ==
    ASSUME NEW d, NamesDiffer(d), NEW k \in 1 .. 4, NEW l \in 1 .. 4, k # l
    PROVE  OwnNames(k, d) \cap OwnNames(l, d) = {}
<1>1. \A i \in 1 .. 4 : i = 1 \/ i = 2 \/ i = 3 \/ i = 4
  OBVIOUS
<1>2. /\ OwnNames(2, d) = {d.user.name} /\ OwnNames(3, d) = {d.master.name}
      /\ OwnNames(4, d) = {d.executor.name}
  BY DEF OwnNames
<1> QED
  BY <1>1, <1>2 DEF NamesDiffer

LEMMA KeptStep ==
    ASSUME NEW d, NEW a \in Kept(PlanOf(d))
    PROVE  \E k \in 1 .. 4 : \E st : StepForm(k, d, st) /\ a = <<st.obj, st.body.immut>>
<1>1. PICK i \in DOMAIN PlanOf(d) : a = <<PlanOf(d)[i].obj, PlanOf(d)[i].body.immut>>
  BY DEF Kept
<1>2. PICK k \in 1 .. 4, j \in Nat : j \in 1 .. Len(Part(k, d)) /\ i = Before(k, d) + j
  BY PlanFacts
<1>3. PlanOf(d)[i] = Part(k, d)[j]
  BY <1>2, PlanFacts
<1>4. StepForm(k, d, PlanOf(d)[i])
  BY <1>2, <1>3, PartForms DEF PartForm
<1> QED
  BY <1>1, <1>4

(* Within a part, name and kind of an object fix what it keeps for ever.   *)
LEMMA ImmutableByName ==
    ASSUME NEW d, NEW e, ~ RenamesCluster(d, e), ~ TakesReadService(d, e),
           NEW k \in 1 .. 4, NEW st, NEW su, StepForm(k, d, st), StepForm(k, e, su),
           st.obj[1] = su.obj[1], st.obj[2] = su.obj[2]
    PROVE  st.body.immut = su.body.immut
<1> DEFINE kind == st.obj[1]  name == st.obj[2]
<1>1. CASE kind \in {"PersistentVolume", "PersistentVolumeClaim"}
  <2>1. st.body.immut = [class |-> Class(k)]
    BY <1>1 DEF StepForm, Immutable
  <2>2. su.body.immut = [class |-> Class(k)]
    BY <1>1 DEF StepForm, Immutable
  <2> QED
    BY <2>1, <2>2
<1>5. CASE kind = "ConfigMap"
  <2>1. st.body.immut = Nothing /\ su.body.immut = Nothing
    BY <1>5 DEF StepForm, Immutable
  <2> QED
    BY <2>1
<1>2. CASE kind = "Service"
  <2>1. name \in OwnNames(k, d) /\ name \in OwnNames(k, e)
    BY <1>2 DEF StepForm, Named
  <2>2. Addressed(k, d, name) <=> Addressed(k, e, name)
    <3>1. ASSUME Addressed(k, d, name), ~ Addressed(k, e, name) PROVE FALSE
      <4>1. d.frame.cluster /\ ~ e.frame.cluster /\ name = "mysql-read" /\ k = 1
        BY <3>1 DEF Addressed
      <4>2. e.frame.name = "mysql-read"
        BY <2>1, <4>1 DEF OwnNames
      <4> QED
        BY <4>1, <4>2 DEF TakesReadService
    <3>2. ASSUME Addressed(k, e, name), ~ Addressed(k, d, name) PROVE FALSE
      <4>1. e.frame.cluster /\ ~ d.frame.cluster /\ name = "mysql-read" /\ k = 1
        BY <3>2 DEF Addressed
      <4>2. d.frame.name = "mysql-read"
        BY <2>1, <4>1 DEF OwnNames
      <4> QED
        BY <4>1, <4>2 DEF TakesReadService
    <3> QED
      BY <3>1, <3>2
  <2> QED
    BY <1>2, <2>2 DEF StepForm, Immutable
<1>3. CASE kind = "Deployment"
  <2>1. ~ Clustered(k, d) /\ ~ Clustered(k, e)
    BY <1>3 DEF StepForm, Immutable
  <2>2. Label(k, d) = Label(k, e)
    <3>1. CASE k = 1
      BY <2>1, <3>1 DEF Label, Clustered
    <3>2. CASE k = 2
      BY <2>1, <3>2 DEF Label, Clustered
    <3>3. CASE k = 3
      BY <2>1, <3>3 DEF Label, Clustered
    <3>4. CASE k = 4
      BY <2>1, <3>4 DEF Label, Clustered
    <3> QED
      BY <3>1, <3>2, <3>3, <3>4
  <2>3. st.body.immut = [selector |-> {Label(k, d)}, service |-> ""]
    BY <1>3 DEF StepForm, Immutable
  <2>4. su.body.immut = [selector |-> {Label(k, e)}, service |-> ""]
    BY <1>3 DEF StepForm, Immutable
  <2> QED
    BY <2>2, <2>3, <2>4
<1>4. CASE kind = "StatefulSet"
  <2>1. Clustered(k, d) /\ Clustered(k, e)
    BY <1>4 DEF StepForm, Immutable
  <2>2. name \in OwnNames(k, d) /\ name \in OwnNames(k, e)
    BY <1>4 DEF StepForm, Named
  <2>3. Label(k, d) = Label(k, e)
    <3>1. CASE k = 1
      BY <2>1, <3>1 DEF Label, Clustered, RenamesCluster
    <3>2. CASE k = 2
      <4>1. d.user.name = e.user.name
        BY <2>2, <3>2 DEF OwnNames
      <4> QED
        BY <2>1, <3>2, <4>1 DEF Label, Clustered
    <3>3. CASE k = 3
      BY <2>1, <3>3 DEF Label, Clustered
    <3>4. CASE k = 4
      BY <2>1, <3>4 DEF Label, Clustered
    <3> QED
      BY <3>1, <3>2, <3>3, <3>4
  <2> QED
    BY <1>4, <2>3 DEF StepForm, Immutable
<1> QED
  BY <1>1, <1>2, <1>3, <1>4, <1>5 DEF StepForm

LEMMA KeptImmutable ==
    ASSUME NEW d, NEW e, OneEdit(d, e), NamesDiffer(d), NamesDiffer(e),
           ~ RenamesCluster(d, e), ~ TakesReadService(d, e),
           NEW a \in Kept(PlanOf(d)), NEW b \in Kept(PlanOf(e)), a[1] = b[1]
    PROVE  a = b
<1>1. PICK k \in 1 .. 4 : \E st : StepForm(k, d, st) /\ a = <<st.obj, st.body.immut>>
  BY KeptStep
<1>2. PICK st : StepForm(k, d, st) /\ a = <<st.obj, st.body.immut>>
  BY <1>1
<1>3. PICK l \in 1 .. 4 : \E su : StepForm(l, e, su) /\ b = <<su.obj, su.body.immut>>
  BY KeptStep
<1>4. PICK su : StepForm(l, e, su) /\ b = <<su.obj, su.body.immut>>
  BY <1>3
<1>5. st.obj = su.obj
  BY <1>2, <1>4
<1>6. k = l
  <2> SUFFICES ASSUME k # l PROVE FALSE
    OBVIOUS
  <2>1. Named(k, d, st) /\ Named(l, e, su)
    BY <1>2, <1>4 DEF StepForm
  <2>2. st.obj[2] \in OwnNames(k, d) /\ st.obj[2] \in OwnNames(l, e)
    BY <1>5, <2>1, FixedNamesApart DEF Named
  <2>3. PICK c \in 1 .. 4 : \A i \in 1 .. 4 : i # c => SamePart(i, d, e)
    BY DEF OneEdit
  <2>4. OwnNames(k, d) = OwnNames(k, e) \/ OwnNames(l, d) = OwnNames(l, e)
    <3>1. \A i \in 1 .. 4 : SamePart(i, d, e) => OwnNames(i, d) = OwnNames(i, e)
      <4> SUFFICES ASSUME NEW i \in 1 .. 4, SamePart(i, d, e)
                   PROVE  OwnNames(i, d) = OwnNames(i, e)
        OBVIOUS
      <4>1. CASE i = 1
        BY <4>1 DEF SamePart, OwnNames
      <4>2. CASE i = 2
        BY <4>2 DEF SamePart, OwnNames
      <4>3. CASE i = 3
        BY <4>3 DEF SamePart, OwnNames
      <4>4. CASE i = 4
        BY <4>4 DEF SamePart, OwnNames
      <4> QED
        BY <4>1, <4>2, <4>3, <4>4
    <3> QED
      BY <2>3, <3>1
  <2> QED
    BY <2>2, <2>4, NamesApart
<1>7. st.body.immut = su.body.immut
  BY <1>2, <1>4, <1>5, <1>6, ImmutableByName
<1> QED
  BY <1>2, <1>4, <1>5, <1>7

EditInv == PlanOK /\ ResourceOK(de)

LEMMA EditInvariant == Spec => []EditInv
<1>1. Init => EditInv
  BY InitShaped DEF Init, EditInv, PlanOK
<1>2. EditInv /\ [Next]_<<de, plan>> => EditInv'
  <2> SUFFICES ASSUME EditInv, [Next]_<<de, plan>> PROVE EditInv'
    OBVIOUS
  <2>1. CASE Next
    BY <2>1, EditKeeps DEF Next, EditInv, PlanOK
  <2>2. CASE UNCHANGED <<de, plan>>
    BY <2>2 DEF EditInv, PlanOK
  <2> QED
    BY <2>1, <2>2
<1> QED
  BY <1>1, <1>2, PTL DEF Spec

(* An edit changes no immutable field of an object that stays, but for the *)
(* two exceptions that EditsKeepImmutable names.                           *)
THEOREM EditsImmutableSafe == Spec => EditsKeepImmutable
<1>1. EditInv /\ [Next]_<<de, plan>> =>
        [ (/\ Unambiguous /\ Unambiguous'
           /\ ~ RenamesCluster(de, de') /\ ~ TakesReadService(de, de')) =>
              \A a \in Kept(plan), b \in Kept(plan') : a[1] = b[1] => a = b ]_<<de, plan>>
  <2> SUFFICES ASSUME EditInv, Next, Unambiguous, Unambiguous',
                      ~ RenamesCluster(de, de'), ~ TakesReadService(de, de'),
                      NEW a \in Kept(plan), NEW b \in Kept(plan'), a[1] = b[1]
               PROVE  a = b
    OBVIOUS
  <2>1. plan = PlanOf(de) /\ plan' = PlanOf(de')
    BY DEF EditInv, PlanOK, Next
  <2>2. OneEdit(de, de')
    BY EditKeeps DEF Next, EditInv
  <2>3. NamesDiffer(de)
    BY DEF Unambiguous, NamesDiffer, OwnNames
  <2>4. NamesDiffer(de')
    BY DEF Unambiguous, NamesDiffer, OwnNames
  <2> QED
    BY <2>1, <2>2, <2>3, <2>4, KeptImmutable
<1> QED
  BY <1>1, EditInvariant, PTL DEF Spec, EditsKeepImmutable

-----------------------------------------------------------------------------
(* The names that pods wait for or list as peers exist.                    *)

(* Services and pods that exist when workload w is written.                *)
LEMMA ServesService ==
    ASSUME PlanOK, NEW k \in 1 .. 3, ~ (k = 1 /\ Clustered(k, de)),
           NEW name, OwnNames(k, de) = {name}
    PROVE  \E i \in DOMAIN plan : i < Pos(k, Len(Part(k, de))) /\ Serves(i, Host(name))
<1>1. PICK s \in Services : s < Pos(k, Len(Part(k, de))) /\ Name(s) \in OwnNames(k, de)
  <2>1. k \in 1 .. 4
    OBVIOUS
  <2> QED
    BY <2>1, ServiceOf
<1>2. s \in DOMAIN plan
  BY DEF Services, OfKind
<1>3. Host(name).ordinal = {} /\ Host(name).host = name
  BY DEF Host
<1> QED
  BY <1>1, <1>2, <1>3 DEF Serves

LEMMA ServesPod ==
    ASSUME PlanOK, NEW k \in {2, 3}, Clustered(k, de), NEW name, OwnNames(k, de) = {name},
           NEW size, size = IF k = 2 THEN de.user.size ELSE de.master.size,
           NEW n \in size, NEW i, i < n
    PROVE  LET w == Pos(k, Len(Part(k, de))) IN w \in DOMAIN plan /\ Serves(w, Pod(name, i))
<1> DEFINE w == Pos(k, Len(Part(k, de)))
<1>1. w \in DOMAIN plan /\ plan[w] = Part(k, de)[Len(Part(k, de))]
  <2>1. k \in 1 .. 4
    OBVIOUS
  <2> HIDE DEF w
  <2>2. Len(Part(k, de)) \in 1 .. Len(Part(k, de)) /\ w = Pos(k, Len(Part(k, de)))
    BY <2>1, PartEnd DEF w
  <2> QED
    BY <2>1, <2>2, Placed
<1>2. EndForm(k, de, plan[w])
  BY <1>1, EndForms
<1>3. StepForm(k, de, plan[w])
  <2>1. k \in 1 .. 4
    OBVIOUS
  <2> HIDE DEF w
  <2>2. Len(Part(k, de)) \in 1 .. Len(Part(k, de)) /\ w = Pos(k, Len(Part(k, de)))
    BY <2>1, PartEnd DEF w
  <2> QED
    BY <2>1, <2>2, Placed
<1>6. plan[w].obj[1] = "StatefulSet" /\ plan[w].body.spec.replicas = size
  <2>1. CASE k = 2
    BY <1>2, <2>1 DEF EndForm, Copies, Clustered
  <2>2. CASE k = 3
    BY <1>2, <2>2 DEF EndForm, Copies, Clustered
  <2> QED
    BY <2>1, <2>2
<1>7. plan[w].obj[2] = name
  BY <1>3, <1>6 DEF StepForm, Named
<1>8. plan[w].body.immut = [selector |-> {Label(k, de)}, service |-> name]
  BY <1>3, <1>6, <1>7 DEF StepForm, Immutable
<1>4. Pod(name, i).ordinal = {i} /\ Pod(name, i).host = name
  BY DEF Pod
<1> HIDE DEF w
<1>5. Serves(w, Pod(name, i))
  BY <1>1, <1>4, <1>6, <1>7, <1>8 DEF Serves, StatefulSets, OfKind, Name, Fixed, Fields
<1> QED
  BY <1>1, <1>5 DEF w

LEMMA PartOrder ==
    ASSUME PlanOK, NEW k \in 1 .. 4, NEW l \in 1 .. 4, k < l
    PROVE  Pos(k, Len(Part(k, de))) < Pos(l, Len(Part(l, de)))
<1> DEFINE b == Before(k, de)  c == Before(l, de)  m == Len(Part(k, de))  n == Len(Part(l, de))
<1>1. b \in Nat /\ m \in 2 .. 5 /\ c \in Nat /\ n \in 2 .. 5 /\ b + m <= c
  BY PlanFacts DEF Last
<1>2. Pos(k, m) = b + m /\ Pos(l, n) = c + n
  BY DEF Pos
<1> HIDE DEF b, c, m, n
<1>3. b + m < c + n
  BY <1>1
<1> QED
  BY <1>2, <1>3 DEF m, n

LEMMA PlanResolves ==
    ASSUME PlanOK, ResourceOK(de)
    PROVE  NamesResolve
<1> SUFFICES ASSUME Conforming, NEW w \in Workloads
             PROVE  /\ \A h \in Fields(w).waits : \E i \in DOMAIN plan : i < w /\ Serves(i, h)
                    /\ \A h \in Fields(w).peers : \E i \in DOMAIN plan : Serves(i, h)
  BY DEF NamesResolve
<1> DEFINE At(k) == Pos(k, Len(Part(k, de)))
<1>1. PICK l \in 1 .. 4 : w = At(l)
  BY WorkloadAt
<1>2. EndForm(l, de, plan[w])
  BY <1>1, EndForms, PartEnd, Placed
<1>3. Fields(w).waits = Waits(l, de) /\ Fields(w).peers = Peers(l, de)
  BY <1>2 DEF EndForm, Fields
<1>4. \A k \in 1 .. 4 : At(k) \in Nat /\ At(k) \in DOMAIN plan
  BY PartEnd, Placed
<1>5. \A i \in DOMAIN plan : i \in Nat
  <2> TAKE i \in DOMAIN plan
  <2>1. PICK k \in 1 .. 4, j \in Nat : j \in 1 .. Len(Part(k, de)) /\ i = Pos(k, j)
    BY Located
  <2> QED
    BY <2>1, Placed
<1>6. /\ OwnNames(1, de) = {FRAME_STANDALONE} /\ ~ Clustered(1, de)
      /\ OwnNames(2, de) = {USER_STANDALONE} /\ OwnNames(3, de) = {SERVER_MASTER}
  BY DEF Conforming, OwnNames, Clustered
<1>7. /\ \E i \in DOMAIN plan : i < At(1) /\ Serves(i, Host(FRAME_STANDALONE))
      /\ \E i \in DOMAIN plan : i < At(2) /\ Serves(i, Host(USER_STANDALONE))
      /\ \E i \in DOMAIN plan : i < At(3) /\ Serves(i, Host(SERVER_MASTER))
  <2>1. 1 \in 1 .. 3 /\ 2 \in 1 .. 3 /\ 3 \in 1 .. 3
    OBVIOUS
  <2> QED
    BY <1>6, <2>1, ServesService
<1>8. PICK n \in de.master.size : n >= 1 /\ (de.master.cluster <=> n > 1)
  BY DEF Conforming
<1>9. n \in Int /\ \A m \in de.master.size : m = n
  BY <1>8 DEF ResourceOK, Optional
<1>10. ASSUME NEW i \in Int, i < n, n > 1
       PROVE  At(3) \in DOMAIN plan /\ Serves(At(3), Pod(SERVER_MASTER, i))
  <2>1. Clustered(3, de)
    BY <1>8, <1>10 DEF Clustered
  <2> QED
    BY <1>6, <1>8, <1>10, <2>1, ServesPod
<1>11. ASSUME NEW h \in MasterPods(de), n > 1
       PROVE  \E i \in DOMAIN plan : Serves(i, h)
  <2>1. PICK m \in de.master.size, i \in Int : i \in 0 .. m - 1 /\ h = Pod(SERVER_MASTER, i)
    BY DEF MasterPods, ResourceOK, Optional
  <2>2. i < n
    BY <1>9, <2>1
  <2> QED
    BY <1>10, <1>11, <2>1, <2>2
<1>12. At(1) < At(3) /\ At(2) < At(3) /\ At(3) < At(4)
  BY PartOrder
<1>13. ASSUME NEW h \in Waits(l, de)
       PROVE  \E i \in DOMAIN plan : i < w /\ Serves(i, h)
  <2>1. CASE l = 1 \/ l = 2
    BY <1>13, <2>1 DEF Waits
  <2>2. CASE l = 3
    <3>1. h = Host(FRAME_STANDALONE) \/ h = Host(USER_STANDALONE)
      BY <1>13, <2>2 DEF Waits, MasterWaits
    <3> QED
      BY <1>1, <1>4, <1>5, <1>7, <1>12, <2>2, <3>1
  <2>3. CASE l = 4
    <3>1. h = Host(SERVER_MASTER) \/ (h = Pod(SERVER_MASTER, n - 1) /\ n # 1)
      BY <1>8, <1>9, <1>13, <2>3 DEF Waits, loadExecutorInitContainerCommand
    <3>2. CASE h = Host(SERVER_MASTER)
      BY <1>1, <1>4, <1>5, <1>7, <1>12, <2>3, <3>2
    <3>3. CASE h = Pod(SERVER_MASTER, n - 1) /\ n # 1
      <4>1. n - 1 \in Int /\ n - 1 < n /\ n > 1
        BY <1>8, <1>9, <3>3
      <4> QED
        BY <1>1, <1>10, <1>12, <2>3, <3>3, <4>1
    <3> QED
      BY <3>1, <3>2, <3>3
  <2> QED
    BY <2>1, <2>2, <2>3
<1>14. ASSUME NEW h \in Peers(l, de)
       PROVE  \E i \in DOMAIN plan : Serves(i, h)
  <2>1. CASE l = 1
    BY <1>14, <2>1 DEF Peers
  <2>2. CASE l = 2
    <3>1. h \in EtcdPods(de) /\ de.user.cluster
      BY <1>14, <2>2 DEF Peers
    <3>2. PICK m \in de.user.size, i \in Int : i \in 0 .. m - 1 /\ h = Pod(USER_STANDALONE, i)
      BY <3>1 DEF EtcdPods, ResourceOK, Optional, Conforming
    <3>3. i < m /\ Clustered(2, de)
      BY <3>1, <3>2 DEF ResourceOK, Optional, Clustered
    <3> QED
      BY <1>6, <3>2, <3>3, ServesPod
  <2>3. CASE l = 3 \/ l = 4
    <3>1. h = Host(SERVER_MASTER) \/ (h \in MasterPods(de) /\ n > 1)
      <4>1. CASE l = 3
        BY <1>8, <1>14, <4>1 DEF Peers
      <4>2. CASE l = 4
        <5>1. n = 1 => de.master.size = {1}
          BY <1>8, <1>9
        <5> QED
          BY <1>8, <1>9, <1>14, <4>2, <5>1 DEF Peers, loadExecutorContainerCommand
      <4> QED
        BY <2>3, <4>1, <4>2
    <3> QED
      BY <1>7, <1>11, <3>1
  <2> QED
    BY <2>1, <2>2, <2>3
<1> QED
  BY <1>3, <1>13, <1>14

(* With the names of the demos, every name a pod waits for is served by an *)
(* earlier step, and every peer exists, whatever the numbers of pods are.  *)
THEOREM ResolveSafe == Spec => []NamesResolve
<1>1. EditInv => NamesResolve
  BY PlanResolves DEF EditInv
<1> QED
  BY <1>1, EditInvariant, PTL

=============================================================================
