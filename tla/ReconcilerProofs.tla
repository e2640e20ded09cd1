--------------------------- MODULE ReconcilerProofs ---------------------------
(***************************************************************************)
(* Proofs about module Reconciler, for every set of engines, objects and   *)
(* specifications, every plan and every bound.                             *)
(***************************************************************************)
EXTENDS Reconciler, TLAPS

-----------------------------------------------------------------------------
(* Sequences that grow.                                                    *)

LEMMA AppendFacts ==
    ASSUME NEW S, NEW l \in Seq(S), NEW x \in S
    PROVE  /\ Append(l, x) \in Seq(S)
           /\ Len(Append(l, x)) = Len(l) + 1
           /\ \A n \in 1 .. Len(l) : Append(l, x)[n] = l[n]
           /\ Append(l, x)[Len(l) + 1] = x
OBVIOUS

LEMMA LatestFacts ==
    ASSUME NEW S, NEW l \in Seq(S)
    PROVE  /\ Len(l) \in Nat
           /\ \A n \in 1 .. Len(l) : l[n] \in S
           /\ Exists(l) => Len(l) \in 1 .. Len(l) /\ Latest(l) \in S /\ Latest(l).live
BY DEF Exists, Latest

LEMMA CachedFacts ==
    ASSUME NEW S, NEW l \in Seq(S), NEW n \in Nat, n <= Len(l), Cached(l, n)
    PROVE  n \in 1 .. Len(l) /\ l[n] \in S /\ l[n].live
BY DEF Cached

-----------------------------------------------------------------------------
(* The plan that a pass follows, and the step it is at.                    *)

LEMMA StepFacts ==
    ASSUME TypeOK, CacheOK, PassOK, InPass
    PROVE  /\ eng \in Engines
           /\ snap \in 1 .. Len(crLog[eng])
           /\ Resource \in CRVersion
           /\ Len(Steps) \in Nat
           /\ at \in 1 .. Len(Steps)
           /\ IsStep(Step)
           /\ (Step.mode = "apply") <=> (Step.obj \in Watched)
<1>1. /\ eng \in Engines
      /\ snap \in 1 .. Len(crLog[eng])
      /\ Resource \in CRVersion
  <2>1. crLog[eng] \in Seq(CRVersion) /\ snap \in 1 .. crSeen[eng]
    BY DEF TypeOK, PassOK
  <2>2. crSeen[eng] \in Nat /\ crSeen[eng] <= Len(crLog[eng])
    BY DEF TypeOK, PassOK, CacheOK
  <2> QED
    BY <2>1, <2>2 DEF PassOK, Resource
<1>2. Resource.spec \in Specs
  BY <1>1 DEF CRVersion
<1>3. at \in 1 .. Len(Steps) /\ Step \in StepsOf(Resource.spec) /\ Len(Steps) \in Nat
  BY <1>2, PlanAssumption DEF PassOK, Steps, Step, StepsOf
<1> QED
  BY <1>1, <1>2, <1>3, PlanAssumption

LEMMA CallFacts ==
    ASSUME TypeOK, CacheOK, PassOK, pc = "step"
    PROVE  /\ Call \in Request
           /\ Call.base # 0 => /\ Call.base <= Len(log[Call.obj])
                               /\ log[Call.obj][Call.base] = Read
           /\ Call.ver.live
           /\ Call.ver.owner \in {eng, NoEngine}
           /\ Call.ver.owner = eng => Call.ver.from = snap
           /\ Call.base # 0 => Call.ver.owner = eng
<1>1. InPass
  BY DEF InPass
<1> USE <1>1
<1>2. Step.obj \in Objects /\ Step.body \in Bodies
  BY StepFacts DEF IsStep
<1>3. /\ log[Step.obj] \in Seq(Version)
      /\ seen[Step.obj] \in Nat
      /\ seen[Step.obj] <= Len(log[Step.obj])
  BY <1>2 DEF TypeOK, CacheOK
<1>4. Applied \in Version /\ Created \in Version
  <2>1. eng \in Engines /\ snap \in Nat /\ Resource.uid \in Nat
    BY StepFacts DEF TypeOK, CRVersion
  <2> QED
    BY <1>2, <2>1 DEF Applied, Created, Version
<1>5. Call \in Request
  BY <1>2, <1>3, <1>4 DEF Call, Request
<1>6. NoEngine # eng
  BY StepFacts, NamesAssumption
<1> QED
  BY <1>3, <1>5, <1>6 DEF Call, Known, Read, Applied, Created

-----------------------------------------------------------------------------
(***************************************************************************)
(* The shape of a step.  Every action of Next changes the logs, the caches,*)
(* the requests in flight and the worker in one of a few ways, and these   *)
(* ways alone are what the invariant OwnerInv depends on.                  *)
(***************************************************************************)

(* Resources and children gain at most one version.                        *)
CRStep == crLog' = crLog \/ \E c \in Engines, v \in CRVersion : StoreCR(c, v)

MayStore(o, v) == Live(o) /\ v.live => KeepsOwner(Latest(log[o]), v)

ChildStep ==
    log' = log \/ \E o \in Objects, v \in Version : StoreChild(o, v) /\ MayStore(o, v)

(* Caches move forward, within what is stored.                             *)
CacheStep ==
    /\ crSeen' \in [Engines -> Nat]
    /\ seen' \in [Objects -> Nat]
    /\ \A c \in Engines : crSeen[c] <= crSeen'[c] /\ crSeen'[c] <= Len(crLog[c])
    /\ \A o \in Objects : seen'[o] <= Len(log[o])

(* New requests leave what they replace with its owner.                    *)
GoodRequest(q) ==
    q.base # 0 => q.base <= Len(log[q.obj]) /\ KeepsOwner(log[q.obj][q.base], q.ver)

LateStep ==
    /\ late' = late
       \/ \E q \in Request : (late' = late \cup {q} /\ GoodRequest(q)) \/ late' = late \ {q}
    /\ lateCR' \subseteq lateCR
       \/ \E c \in Engines, n \in Nat :
            lateCR' = lateCR \cup {[eng |-> c, base |-> n]} /\ n \in 1 .. Len(crLog[c])

(* The worker keeps its snapshot, drops it, or takes the one in the cache. *)
WorkerStep ==
    /\ pc' \in {"down", "idle", "step", "final"}
    /\ queue' \subseteq Engines
    /\ snap' \in Nat /\ at' \in Nat
    /\ \/ /\ pc' \in {"down", "idle"}
          /\ eng' = NoEngine
       \/ /\ pc' \in {"step", "final"}
          /\ eng' \in Engines
          /\ \/ eng' = eng /\ snap' = snap
             \/ snap' = crSeen[eng'] /\ snap' # 0
          /\ at' \in 1 .. Len(Plan[crLog[eng'][snap'].spec])

LeftStep == left' \in [Budgets -> Nat]

Shape == CRStep /\ ChildStep /\ CacheStep /\ LateStep /\ WorkerStep /\ LeftStep

(* A log of one kind of versions grows at its end.                          *)
Extends(l, m) == Len(l) <= Len(m) /\ \A n \in 1 .. Len(l) : m[n] = l[n]

LEMMA ExtendsByOne ==
    ASSUME NEW D, NEW S, NEW f \in [D -> Seq(S)], NEW g,
           g = f \/ \E d \in D, x \in S : g = [f EXCEPT ![d] = Append(@, x)]
    PROVE  g \in [D -> Seq(S)] /\ \A d \in D : Extends(f[d], g[d])
<1>1. CASE g = f
  BY <1>1 DEF Extends
<1>2. ASSUME NEW d \in D, NEW x \in S, g = [f EXCEPT ![d] = Append(@, x)]
      PROVE  g \in [D -> Seq(S)] /\ \A e \in D : Extends(f[e], g[e])
  <2>1. /\ Append(f[d], x) \in Seq(S)
        /\ Len(Append(f[d], x)) = Len(f[d]) + 1
        /\ \A n \in 1 .. Len(f[d]) : Append(f[d], x)[n] = f[d][n]
    BY AppendFacts
  <2>2. Extends(f[d], Append(f[d], x))
    BY <2>1 DEF Extends
  <2>3. ASSUME NEW e \in D PROVE Extends(f[e], f[e])
    BY DEF Extends
  <2> QED
    BY <1>2, <2>1, <2>2, <2>3
<1> QED
  BY <1>1, <1>2

LEMMA LogsGrow ==
    ASSUME TypeOK, CRStep, ChildStep
    PROVE  /\ crLog' \in [Engines -> Seq(CRVersion)]
           /\ log' \in [Objects -> Seq(Version)]
           /\ \A c \in Engines : Extends(crLog[c], crLog'[c])
           /\ \A o \in Objects : Extends(log[o], log'[o])
<1>1. crLog \in [Engines -> Seq(CRVersion)] /\ log \in [Objects -> Seq(Version)]
  BY DEF TypeOK
<1>2. crLog' = crLog \/ \E c \in Engines, v \in CRVersion :
                            crLog' = [crLog EXCEPT ![c] = Append(@, v)]
  BY DEF CRStep, StoreCR
<1>3. log' = log \/ \E o \in Objects, v \in Version :
                        log' = [log EXCEPT ![o] = Append(@, v)]
  BY DEF ChildStep, StoreChild
<1> QED
  BY <1>1, <1>2, <1>3, ExtendsByOne

(* The versions of a child after a step: the old ones and perhaps a new one. *)
LEMMA NewVersion ==
    ASSUME TypeOK, CRStep, ChildStep,
           NEW o \in Objects, NEW n \in 1 .. Len(log'[o])
    PROVE  \/ n \in 1 .. Len(log[o]) /\ log'[o][n] = log[o][n]
           \/ n = Len(log[o]) + 1 /\ MayStore(o, log'[o][n])
<1>1. log[o] \in Seq(Version) /\ Extends(log[o], log'[o]) /\ Len(log'[o]) \in Nat
  BY LogsGrow DEF TypeOK
<1>2. CASE n <= Len(log[o])
  BY <1>1, <1>2 DEF Extends
<1>3. CASE ~ (n <= Len(log[o]))
  <2>1. PICK v \in Version : log' = [log EXCEPT ![o] = Append(log[o], v)] /\ MayStore(o, v)
    BY <1>3 DEF ChildStep, StoreChild, TypeOK
  <2>2. log'[o] = Append(log[o], v)
    BY <2>1 DEF TypeOK
  <2>3. Len(log'[o]) = Len(log[o]) + 1 /\ log'[o][Len(log[o]) + 1] = v
    BY <1>1, <2>2
  <2> QED
    BY <1>1, <1>3, <2>1, <2>3
<1> QED
  BY <1>2, <1>3

(* NoTheft is kept.                                                        *)
LEMMA ShapeOwners ==
    ASSUME TypeOK, NoTheft, Shape
    PROVE  NoTheft'
<1>1. ASSUME NEW o \in Objects, NEW n \in Successive(log'[o])
      PROVE  KeepsOwner(log'[o][n - 1], log'[o][n])
  <2>1. log[o] \in Seq(Version) /\ log'[o] \in Seq(Version) /\ Extends(log[o], log'[o])
    BY LogsGrow DEF TypeOK, Shape
  <2>2. n \in 1 .. Len(log'[o]) /\ n > 1 /\ log'[o][n - 1].live /\ log'[o][n].live
    BY DEF Successive
  <2>3. CASE n \in 1 .. Len(log[o]) /\ log'[o][n] = log[o][n]
    <3>1. log'[o][n - 1] = log[o][n - 1]
      BY <2>1, <2>2, <2>3 DEF Extends
    <3>2. n \in Successive(log[o])
      BY <2>2, <2>3, <3>1 DEF Successive
    <3> QED
      BY <2>3, <3>1, <3>2 DEF NoTheft, KeepsOwner
  <2>4. CASE n = Len(log[o]) + 1 /\ MayStore(o, log'[o][n])
    <3>1. log'[o][n - 1] = Latest(log[o]) /\ Len(log[o]) \in Nat \ {0}
      BY <2>1, <2>2, <2>4 DEF Extends, Latest
    <3>2. Live(o)
      BY <2>1, <2>2, <3>1 DEF Live, Exists
    <3> QED
      BY <2>2, <2>4, <3>1, <3>2 DEF MayStore
  <2> QED
    BY <2>2, <2>3, <2>4, NewVersion DEF Shape
<1> QED
  BY <1>1 DEF NoTheft, KeepsOwner

LEMMA ShapeCaches ==
    ASSUME TypeOK, CacheOK, Shape
    PROVE  CacheOK'
<1>1. ASSUME NEW c \in Engines PROVE crSeen'[c] <= Len(crLog'[c])
  BY LogsGrow DEF Shape, CacheStep, TypeOK, Extends
<1>2. ASSUME NEW o \in Objects PROVE seen'[o] <= Len(log'[o])
  BY LogsGrow DEF Shape, CacheStep, TypeOK, Extends
<1> QED
  BY <1>1, <1>2 DEF CacheOK

LEMMA ShapePass ==
    ASSUME TypeOK, CacheOK, PassOK, Shape
    PROVE  PassOK'
<1>1. CASE pc' \in {"down", "idle"} /\ eng' = NoEngine
  BY <1>1 DEF PassOK, InPass
<1>2. CASE /\ pc' \in {"step", "final"} /\ eng' \in Engines
           /\ (eng' = eng /\ snap' = snap) \/ (snap' = crSeen[eng'] /\ snap' # 0)
           /\ at' \in 1 .. Len(Plan[crLog[eng'][snap'].spec])
  <2>1. crSeen[eng'] \in Nat /\ crSeen'[eng'] \in Nat
        /\ crSeen[eng'] <= crSeen'[eng'] /\ crSeen[eng'] <= Len(crLog[eng'])
    BY <1>2 DEF Shape, CacheStep, TypeOK, CacheOK
  <2>2. snap' \in 1 .. crSeen[eng']
    <3>1. CASE eng' = eng /\ snap' = snap
      BY <1>2, <3>1, NamesAssumption DEF PassOK
    <3>2. CASE snap' = crSeen[eng'] /\ snap' # 0
      BY <2>1, <3>2
    <3> QED
      BY <1>2, <3>1, <3>2
  <2>3. crLog'[eng'][snap'] = crLog[eng'][snap']
    BY <1>2, <2>1, <2>2, LogsGrow DEF Shape, Extends, TypeOK
  <2> QED
    BY <1>2, <2>1, <2>2, <2>3 DEF PassOK, InPass, Steps, Resource
<1> QED
  BY <1>1, <1>2 DEF Shape, WorkerStep

LEMMA ShapeLate ==
    ASSUME TypeOK, LateOwners, Shape
    PROVE  /\ late' \subseteq Request
           /\ lateCR' \subseteq [eng : Engines, base : Nat]
           /\ LateOwners'
<1>1. ASSUME NEW q \in late'
      PROVE  q \in Request /\ GoodRequest(q)
  BY DEF Shape, LateStep, TypeOK, LateOwners, GoodRequest
<1>2. ASSUME NEW q \in late', q.base # 0
      PROVE  q.base <= Len(log'[q.obj]) /\ KeepsOwner(log'[q.obj][q.base], q.ver)
  <2>1. q.obj \in Objects /\ q.base \in Nat /\ GoodRequest(q)
    BY <1>1 DEF Request
  <2>2. Extends(log[q.obj], log'[q.obj]) /\ Len(log[q.obj]) \in Nat /\ Len(log'[q.obj]) \in Nat
    BY <2>1, LogsGrow DEF Shape, TypeOK
  <2>3. q.base <= Len(log'[q.obj]) /\ log'[q.obj][q.base] = log[q.obj][q.base]
    BY <1>2, <2>1, <2>2 DEF Extends, GoodRequest
  <2> QED
    BY <1>2, <2>1, <2>3 DEF GoodRequest
<1>3. ASSUME NEW r \in lateCR'
      PROVE  r \in [eng : Engines, base : Nat] /\ r.base \in 1 .. Len(crLog'[r.eng])
  <2>1. r \in [eng : Engines, base : Nat] /\ r.base \in 1 .. Len(crLog[r.eng])
    BY DEF Shape, LateStep, TypeOK, LateOwners
  <2>2. Extends(crLog[r.eng], crLog'[r.eng])
        /\ Len(crLog[r.eng]) \in Nat /\ Len(crLog'[r.eng]) \in Nat
    BY <2>1, LogsGrow DEF Shape, TypeOK
  <2> QED
    BY <2>1, <2>2 DEF Extends
<1> QED
  BY <1>1, <1>2, <1>3 DEF LateOwners

THEOREM ShapeInvariant ==
    ASSUME OwnerInv, Shape
    PROVE  OwnerInv'
<1>1. CacheOK' /\ PassOK' /\ LateOwners' /\ NoTheft'
  BY ShapeCaches, ShapePass, ShapeLate, ShapeOwners DEF OwnerInv
<1>2. TypeOK'
  <2>1. /\ crLog' \in [Engines -> Seq(CRVersion)] /\ log' \in [Objects -> Seq(Version)]
        /\ late' \subseteq Request /\ lateCR' \subseteq [eng : Engines, base : Nat]
    BY LogsGrow, ShapeLate DEF OwnerInv, Shape
  <2>2. /\ crSeen' \in [Engines -> Nat] /\ seen' \in [Objects -> Nat]
        /\ queue' \subseteq Engines /\ pc' \in {"down", "idle", "step", "final"}
        /\ eng' \in Engines \cup {NoEngine} /\ snap' \in Nat /\ at' \in Nat
        /\ left' \in [Budgets -> Nat]
    BY DEF Shape, CacheStep, WorkerStep, LeftStep
  <2> QED
    BY <2>1, <2>2 DEF TypeOK
<1> QED
  BY <1>1, <1>2 DEF OwnerInv

-----------------------------------------------------------------------------
(* Parts of a shape that many actions share.                               *)

LEMMA KeepWorker ==
    ASSUME TypeOK, PassOK, UNCHANGED workerVars, queue' \subseteq Engines
    PROVE  WorkerStep
<1>1. pc' = pc /\ eng' = eng /\ snap' = snap /\ at' = at
  BY DEF workerVars
<1>2. CASE InPass
  BY <1>1, <1>2 DEF TypeOK, PassOK, InPass, WorkerStep, Steps, Resource
<1>3. CASE ~ InPass
  BY <1>1, <1>3 DEF TypeOK, PassOK, InPass, WorkerStep
<1> QED
  BY <1>2, <1>3

LEMMA KeepCaches ==
    ASSUME TypeOK, CacheOK, UNCHANGED <<crSeen, seen>>
    PROVE  CacheStep
BY DEF TypeOK, CacheOK, CacheStep

LEMMA KeepLate ==
    ASSUME UNCHANGED lateVars
    PROVE  LateStep
BY DEF lateVars, LateStep

LEMMA KeepLeft ==
    ASSUME TypeOK, UNCHANGED left \/ \E b \in Budgets : Spend(b)
    PROVE  LeftStep
<1>1. CASE UNCHANGED left
  BY <1>1 DEF TypeOK, LeftStep
<1>2. ASSUME NEW b \in Budgets, Spend(b) PROVE LeftStep
  <2>1. left[b] \in Nat /\ left[b] > 0 /\ left' = [left EXCEPT ![b] = left[b] - 1]
    BY <1>2 DEF TypeOK, Spend
  <2> QED
    BY <2>1 DEF TypeOK, LeftStep
<1> QED
  BY <1>1, <1>2

LEMMA LeaveWorker ==
    ASSUME NEW where \in {"down", "idle"}, Leave(where), queue' \subseteq Engines
    PROVE  WorkerStep
BY DEF Leave, WorkerStep

LEMMA RequeueWorker ==
    ASSUME TypeOK, CacheOK, PassOK, InPass, Requeue
    PROVE  WorkerStep
<1>1. queue' \subseteq Engines
  BY StepFacts DEF Requeue, TypeOK
<1> QED
  BY <1>1, LeaveWorker DEF Requeue

LEMMA GotoWorker ==
    ASSUME TypeOK, CacheOK, PassOK, InPass,
           NEW where \in {"step", "final"}, NEW n \in 1 .. Len(Steps), Goto(where, n)
    PROVE  WorkerStep
<1>1. pc' = where /\ at' = n /\ eng' = eng /\ snap' = snap /\ queue' = queue
  BY DEF Goto
<1>2. eng \in Engines /\ Len(Steps) \in Nat
  BY StepFacts
<1> QED
  BY <1>1, <1>2 DEF TypeOK, WorkerStep, Steps, Resource

LEMMA ProceedWorker ==
    ASSUME TypeOK, CacheOK, PassOK, InPass, Proceed
    PROVE  WorkerStep
<1>1. at \in 1 .. Len(Steps) /\ Len(Steps) \in Nat
  BY StepFacts
<1>2. CASE at < Len(Steps)
  <2>1. at + 1 \in 1 .. Len(Steps) /\ Goto("step", at + 1)
    BY <1>1, <1>2 DEF Proceed
  <2> QED
    BY <2>1, GotoWorker
<1>3. CASE ~ (at < Len(Steps))
  BY <1>1, <1>3, GotoWorker DEF Proceed
<1> QED
  BY <1>2, <1>3

LEMMA FailWorker ==
    ASSUME TypeOK, CacheOK, PassOK, InPass, Fail
    PROVE  WorkerStep
<1>1. at \in 1 .. Len(Steps)
  BY StepFacts
<1> QED
  BY <1>1, RequeueWorker, ProceedWorker, GotoWorker DEF Fail

-----------------------------------------------------------------------------
(* Every action has the shape.  First the users and finalizers.            *)

LEMMA CRGains ==
    ASSUME OwnerInv, NEW c \in Engines, NEW v \in CRVersion, StoreCR(c, v),
           UNCHANGED left \/ \E b \in Budgets : Spend(b),
           UNCHANGED <<crSeen, childVars, queue, workerVars, lateVars>>
    PROVE  Shape
<1>1. CRStep /\ ChildStep
  BY DEF CRStep, ChildStep, childVars
<1>2. CacheStep /\ LateStep
  BY KeepCaches, KeepLate DEF OwnerInv, childVars
<1>3. WorkerStep /\ LeftStep
  BY KeepWorker, KeepLeft DEF OwnerInv, TypeOK
<1> QED
  BY <1>1, <1>2, <1>3 DEF Shape

LEMMA LatestCR ==
    ASSUME TypeOK, NEW c \in Engines, CRLive(c)
    PROVE  Latest(crLog[c]) \in CRVersion
BY LatestFacts DEF TypeOK, CRLive

LEMMA SettledType ==
    ASSUME NEW v \in CRVersion
    PROVE  Settled(v) \in CRVersion
BY DEF Settled, CRVersion

LEMMA UserShape ==
    ASSUME OwnerInv, NEW c \in Engines, User(c)
    PROVE  Shape
<1> USE DEF OwnerInv
<1>1. Len(crLog[c]) + 1 \in Nat
  BY DEF TypeOK
<1>2. ASSUME NEW s \in Specs, NEW fins \in SUBSET Finalizers, CreateCR(c, s, fins)
      PROVE  Shape
  <2> DEFINE v == [live |-> TRUE, uid |-> Rv(crLog[c]) + 1, gen |-> Rv(crLog[c]) + 1,
                   spec |-> s, fins |-> fins, deleting |-> FALSE]
  <2>1. v \in CRVersion
    BY <1>1 DEF CRVersion, Rv
  <2> QED
    BY <1>2, <2>1, CRGains DEF CreateCR, Budgets
<1>3. ASSUME NEW s \in Specs, EditCR(c, s)
      PROVE  Shape
  <2> DEFINE v == [Latest(crLog[c]) EXCEPT !.spec = s, !.gen = Rv(crLog[c]) + 1]
  <2>1. v \in CRVersion
    BY <1>1, <1>3, LatestCR DEF CRVersion, Rv, EditCR
  <2> QED
    BY <1>3, <2>1, CRGains DEF EditCR, Budgets
<1>4. ASSUME DeleteCR(c) PROVE Shape
  <2> DEFINE v == Settled([Latest(crLog[c]) EXCEPT !.deleting = TRUE])
  <2>1. [Latest(crLog[c]) EXCEPT !.deleting = TRUE] \in CRVersion
    BY <1>4, LatestCR DEF CRVersion, DeleteCR
  <2>2. v \in CRVersion
    BY <2>1, SettledType
  <2> QED
    BY <1>4, <2>2, CRGains DEF DeleteCR, Budgets
<1> QED
  BY <1>2, <1>3, <1>4 DEF User

LEMMA ReleaseFinalizerShape ==
    ASSUME OwnerInv, NEW c \in Engines, NEW f \in Finalizers, ReleaseFinalizer(c, f)
    PROVE  Shape
<1> USE DEF OwnerInv
<1> DEFINE w == [Latest(crLog[c]) EXCEPT !.fins = @ \ {f}]
<1>1. w \in CRVersion
  BY LatestCR DEF CRVersion, ReleaseFinalizer
<1>2. Settled(w) \in CRVersion
  BY <1>1, SettledType
<1> QED
  BY <1>2, CRGains DEF ReleaseFinalizer

-----------------------------------------------------------------------------
(* The informers and the beginning of a pass.                              *)

LEMMA OwnerType ==
    ASSUME NEW l \in Seq(Version), NEW n \in Nat, n <= Len(l)
    PROVE  Owner(l, n) \subseteq Engines
<1>1. CASE Cached(l, n)
  <2>1. l[n] \in Version
    BY <1>1, CachedFacts
  <2>2. l[n].owner \in Engines \cup {NoEngine}
    BY <2>1 DEF Version
  <2>3. Owner(l, n) = {l[n].owner} \ {NoEngine}
    BY <1>1 DEF Owner
  <2> QED
    BY <2>2, <2>3
<1>2. CASE ~ Cached(l, n)
  <2>1. Owner(l, n) = {}
    BY <1>2 DEF Owner
  <2> QED
    BY <2>1
<1> QED
  BY <1>1, <1>2

(* A step that only moves the worker.                                      *)
LEMMA WorkerMoves ==
    ASSUME OwnerInv, WorkerStep, LeftStep, UNCHANGED <<crVars, childVars, lateVars>>
    PROVE  Shape
<1>1. CacheStep /\ LateStep
  BY KeepCaches, KeepLate DEF OwnerInv, childVars, crVars
<1> QED
  BY <1>1 DEF Shape, CRStep, ChildStep, childVars, crVars

LEMMA ObserveCRShape ==
    ASSUME OwnerInv, NEW c \in Engines, ObserveCR(c)
    PROVE  Shape
<1> USE DEF OwnerInv
<1>1. CacheStep
  BY DEF ObserveCR, TypeOK, CacheOK, CacheStep, childVars, Rv
<1>2. queue' \subseteq Engines
  BY DEF ObserveCR, TypeOK
<1>3. WorkerStep
  BY <1>2, KeepWorker DEF ObserveCR
<1> QED
  BY <1>1, <1>3, KeepLate, KeepLeft
     DEF ObserveCR, Shape, CRStep, ChildStep, childVars

LEMMA ResyncShape ==
    ASSUME OwnerInv, NEW c \in Engines, Resync(c)
    PROVE  Shape
<1> USE DEF OwnerInv
<1>1. queue' \subseteq Engines
  BY DEF Resync, TypeOK
<1>2. WorkerStep
  BY <1>1, KeepWorker DEF Resync
<1> QED
  BY <1>2, KeepLeft, WorkerMoves DEF Resync

LEMMA ObserveShape ==
    ASSUME OwnerInv, NEW o \in Objects, Observe(o)
    PROVE  Shape
<1> USE DEF OwnerInv
<1>1. /\ log[o] \in Seq(Version) /\ seen[o] \in Nat /\ Len(log[o]) \in Nat
      /\ seen[o] < Len(log[o])
  BY DEF Observe, TypeOK, Rv
<1>2. CacheStep
  BY <1>1 DEF Observe, TypeOK, CacheOK, CacheStep, crVars
<1>3. Owner(log[o], seen[o]) \subseteq Engines /\ Owner(log[o], seen[o] + 1) \subseteq Engines
  BY <1>1, OwnerType
<1>4. queue' \subseteq Engines
  BY <1>3 DEF Observe, TypeOK
<1>5. WorkerStep
  BY <1>4, KeepWorker DEF Observe
<1> QED
  BY <1>2, <1>5, KeepLate, KeepLeft DEF Observe, Shape, CRStep, ChildStep, crVars

LEMMA BeginShape ==
    ASSUME OwnerInv, NEW c \in Engines, Begin(c)
    PROVE  Shape
<1> USE DEF OwnerInv
<1>1. queue' \subseteq Engines
  BY DEF Begin, TypeOK
<1>2. WorkerStep
  <2>1. CASE UNCHANGED workerVars
    BY <1>1, <2>1, KeepWorker
  <2>2. CASE /\ Cached(crLog[c], crSeen[c])
             /\ pc' = "step" /\ eng' = c /\ snap' = crSeen[c] /\ at' = 1
    <3>1. crSeen[c] \in 1 .. Len(crLog[c]) /\ crLog[c][crSeen[c]] \in CRVersion
      BY <2>2, CachedFacts DEF TypeOK, CacheOK
    <3>2. crLog[c][crSeen[c]].spec \in Specs
      BY <3>1 DEF CRVersion
    <3>3. 1 \in 1 .. Len(Plan[crLog[c][crSeen[c]].spec])
      BY <3>2, PlanAssumption
    <3> QED
      BY <1>1, <2>2, <3>1, <3>3 DEF WorkerStep, TypeOK
  <2> QED
    BY <2>1, <2>2 DEF Begin
<1> QED
  BY <1>2, KeepCaches, KeepLate, KeepLeft
     DEF Begin, Shape, CRStep, ChildStep, childVars, crVars

-----------------------------------------------------------------------------
(* The steps of a pass.                                                    *)

LEMMA QuietStepShape ==
    ASSUME OwnerInv, BuildPanics \/ RefuseTaken \/ SkipUnchanged \/ CallRefused \/ Finish \/ Crash
    PROVE  Shape
<1> USE DEF OwnerInv
<1>1. LeftStep
  BY KeepLeft DEF BuildPanics, RefuseTaken, SkipUnchanged, CallRefused, Finish, Crash, Budgets
<1>2. UNCHANGED <<crVars, childVars, lateVars>>
  BY DEF BuildPanics, RefuseTaken, SkipUnchanged, CallRefused, Finish, Crash
<1>3. ASSUME pc = "step", Proceed \/ Fail PROVE WorkerStep
  BY <1>3, ProceedWorker, FailWorker DEF InPass
<1>4. ASSUME NEW where \in {"down", "idle"}, Leave(where), queue' = {} \/ queue' = queue
      PROVE  WorkerStep
  BY <1>4, LeaveWorker DEF TypeOK
<1>5. WorkerStep
  BY <1>3, <1>4 DEF BuildPanics, RefuseTaken, SkipUnchanged, CallRefused, Finish, Crash
<1> QED
  BY <1>1, <1>2, <1>5, WorkerMoves

(* The pass has read the object in the cache, without another owner.       *)
LEMMA CallReads ==
    ASSUME TypeOK, CacheOK, PassOK, pc = "step", ~ Taken, Call.base # 0
    PROVE  /\ Call.obj \in Objects /\ Call.base \in 1 .. Len(log[Call.obj])
           /\ log[Call.obj][Call.base].owner \in {NoEngine, eng}
           /\ Call.ver.owner = eng /\ Call.ver.from = snap
<1>1. InPass /\ eng \in Engines /\ snap \in Nat
  BY StepFacts DEF InPass, TypeOK
<1>2. Step.obj \in Objects /\ Call.obj = Step.obj
  BY <1>1, StepFacts DEF IsStep, Call
<1>3. Known /\ Call.base = seen[Step.obj]
  BY DEF Call
<1>4. seen[Step.obj] \in 1 .. Len(log[Step.obj])
  BY <1>2, <1>3, CachedFacts DEF TypeOK, CacheOK, Known
<1>5. Read.owner \in {NoEngine, eng}
  BY <1>3 DEF Taken
<1>6. Call.ver.owner = eng /\ Call.ver.from = snap
  BY <1>3, CallFacts
<1> QED
  BY <1>2, <1>3, <1>4, <1>5, <1>6 DEF Read

(* A request that the server accepts extends the child by a good version.  *)
LEMMA StoreShape ==
    ASSUME TypeOK, NEW q \in Request, GoodRequest(q), Accepts(q), Store(q)
    PROVE  ChildStep
<1>1. q.obj \in Objects /\ q.ver \in Version /\ q.base \in Nat
  BY DEF Request
<1>2. MayStore(q.obj, q.ver)
  <2>1. CASE q.base = 0
    BY <2>1 DEF Accepts, MayStore, GoodRequest
  <2>2. CASE q.base # 0
    BY <2>2 DEF Accepts, MayStore, GoodRequest, Latest, Rv
  <2> QED
    BY <2>1, <2>2
<1> QED
  BY <1>1, <1>2 DEF Store, ChildStep

LEMMA CallGood ==
    ASSUME OwnerInv, pc = "step", Calls
    PROVE  Call \in Request /\ GoodRequest(Call)
<1> USE DEF OwnerInv
<1>1. Call \in Request /\ (Call.base # 0 => Call.base <= Len(log[Call.obj]))
  BY CallFacts
<1> QED
  BY <1>1, CallReads DEF Calls, GoodRequest, KeepsOwner

LEMMA CallSucceedsShape ==
    ASSUME OwnerInv, CallSucceeds
    PROVE  Shape
<1> USE DEF OwnerInv
<1>1. ChildStep
  BY CallGood, StoreShape DEF CallSucceeds
<1>2. WorkerStep
  BY ProceedWorker DEF CallSucceeds, InPass
<1>3. CacheStep /\ LateStep /\ LeftStep
  BY KeepCaches, KeepLate, KeepLeft DEF CallSucceeds, crVars
<1> QED
  BY <1>1, <1>2, <1>3 DEF Shape, CRStep, CallSucceeds, crVars

LEMMA CallFaultShape ==
    ASSUME OwnerInv, CallFault
    PROVE  Shape
<1> USE DEF OwnerInv
<1>1. Call \in Request /\ GoodRequest(Call)
  BY CallGood DEF CallFault
<1>2. LateStep
  BY <1>1 DEF CallFault, LateStep
<1>3. WorkerStep
  BY FailWorker DEF CallFault, InPass
<1>4. CacheStep /\ LeftStep
  BY KeepCaches, KeepLeft DEF CallFault, crVars, childVars, Budgets
<1> QED
  BY <1>2, <1>3, <1>4 DEF Shape, CRStep, ChildStep, CallFault, crVars, childVars

LEMMA UpdateCRStep ==
    ASSUME TypeOK, NEW c \in Engines, NEW n \in 1 .. Len(crLog[c]), UpdateCR(c, n)
    PROVE  CRStep
<1>1. crLog[c][n] \in CRVersion
  BY DEF TypeOK
<1>2. [crLog[c][n] EXCEPT !.fins = @ \ {pvFinalizer}] \in CRVersion
  BY <1>1 DEF CRVersion
<1>3. WithoutPV(crLog[c][n]) \in CRVersion
  BY <1>2, SettledType DEF WithoutPV
<1> QED
  BY <1>3 DEF UpdateCR, CRStep

LEMMA PVFinalizerShape ==
    ASSUME OwnerInv, PVFinalizer \/ PVFinalizerFault
    PROVE  Shape
<1> USE DEF OwnerInv
<1>1. InPass
  BY DEF PVFinalizer, PVFinalizerFault, InPass
<1>2. eng \in Engines /\ snap \in 1 .. Len(crLog[eng]) /\ snap \in Nat
  BY <1>1, StepFacts DEF TypeOK
<1>3. CRStep
  BY <1>2, UpdateCRStep DEF PVFinalizer, PVFinalizerFault, CRStep, crVars
<1>4. WorkerStep
  <2>1. CASE Leave("idle") /\ UNCHANGED queue
    BY <2>1, LeaveWorker DEF TypeOK
  <2>2. CASE Requeue
    BY <1>1, <2>2, RequeueWorker
  <2> QED
    BY <2>1, <2>2 DEF PVFinalizer, PVFinalizerFault
<1>5. CacheStep /\ LeftStep
  BY KeepCaches, KeepLeft DEF PVFinalizer, PVFinalizerFault, crVars, childVars, Budgets
<1>6. LateStep
  BY <1>2 DEF LateStep, PVFinalizer, PVFinalizerFault, lateVars
<1> QED
  BY <1>3, <1>4, <1>5, <1>6
     DEF Shape, ChildStep, PVFinalizer, PVFinalizerFault, childVars

LEMMA LateShape ==
    ASSUME OwnerInv,
           \/ \E q \in late : LateWrite(q)
           \/ \E r \in lateCR : LateUpdateCR(r)
    PROVE  Shape
<1> USE DEF OwnerInv
<1>1. ASSUME NEW q \in late, LateWrite(q) PROVE Shape
  <2>1. q \in Request /\ GoodRequest(q)
    BY DEF TypeOK, LateOwners, GoodRequest
  <2>2. ChildStep
    BY <1>1, <2>1, StoreShape DEF LateWrite, ChildStep
  <2>3. LateStep
    BY <1>1, <2>1 DEF LateWrite, LateStep
  <2>4. WorkerStep /\ CacheStep /\ LeftStep
    BY <1>1, KeepWorker, KeepCaches, KeepLeft DEF LateWrite, crVars, TypeOK
  <2> QED
    BY <1>1, <2>2, <2>3, <2>4 DEF Shape, CRStep, LateWrite, crVars
<1>2. ASSUME NEW r \in lateCR, LateUpdateCR(r) PROVE Shape
  <2>1. r.eng \in Engines /\ r.base \in 1 .. Len(crLog[r.eng])
    BY DEF TypeOK, LateOwners
  <2>2. CRStep
    BY <1>2, <2>1, UpdateCRStep DEF LateUpdateCR, CRStep
  <2>3. LateStep
    BY <1>2 DEF LateUpdateCR, LateStep
  <2>4. WorkerStep /\ CacheStep /\ LeftStep
    BY <1>2, KeepWorker, KeepCaches, KeepLeft DEF LateUpdateCR, childVars, TypeOK
  <2> QED
    BY <1>2, <2>2, <2>3, <2>4 DEF Shape, ChildStep, LateUpdateCR, childVars
<1> QED
  BY <1>1, <1>2

-----------------------------------------------------------------------------
(* The process and the other clients.                                      *)

LEMMA StartShape ==
    ASSUME OwnerInv, Start
    PROVE  Shape
<1> USE DEF OwnerInv
<1>1. CacheStep
  BY DEF Start, TypeOK, CacheOK, CacheStep, Rv
<1>2. ASSUME NEW o \in Watched PROVE Owner(log[o], Rv(log[o])) \subseteq Engines
  <2>1. log[o] \in Seq(Version) /\ Len(log[o]) \in Nat
    BY NamesAssumption DEF TypeOK
  <2> QED
    BY <2>1, OwnerType DEF Rv
<1>3. queue' \subseteq Engines
  BY <1>2 DEF Start
<1>4. WorkerStep
  BY <1>3 DEF Start, PassOK, InPass, TypeOK, WorkerStep
<1> QED
  BY <1>1, <1>4, KeepLate, KeepLeft DEF Start, Shape, CRStep, ChildStep

LEMMA ChildGains ==
    ASSUME OwnerInv, NEW o \in Objects, NEW v \in Version, StoreChild(o, v), MayStore(o, v),
           UNCHANGED left \/ \E b \in Budgets : Spend(b),
           UNCHANGED <<crVars, seen, queue, workerVars, lateVars>>
    PROVE  Shape
<1>1. CRStep /\ ChildStep
  BY DEF CRStep, ChildStep, crVars
<1>2. CacheStep /\ LateStep
  BY KeepCaches, KeepLate DEF OwnerInv, crVars
<1>3. WorkerStep /\ LeftStep
  BY KeepWorker, KeepLeft DEF OwnerInv, TypeOK
<1> QED
  BY <1>1, <1>2, <1>3 DEF Shape

LEMMA LatestChild ==
    ASSUME TypeOK, NEW o \in Objects, Live(o)
    PROVE  Latest(log[o]) \in Version /\ Len(log[o]) \in 1 .. Len(log[o])
<1>1. log[o] \in Seq(Version)
  BY DEF TypeOK
<1> QED
  BY <1>1, LatestFacts DEF Live

(* A deleted object owes nothing to anybody.                               *)
LEMMA GoneShape ==
    ASSUME OwnerInv, NEW o \in Objects, Live(o)
    PROVE  Gone(Latest(log[o])) \in Version /\ MayStore(o, Gone(Latest(log[o])))
<1>1. Latest(log[o]) \in Version
  BY LatestChild DEF OwnerInv
<1>2. /\ Gone(Latest(log[o])) \in Version
      /\ ~ Gone(Latest(log[o])).live
      /\ Gone(Latest(log[o])).owner = NoEngine
  BY <1>1 DEF Gone, Version
<1> QED
  BY <1>2 DEF MayStore

LEMMA CollectShape ==
    ASSUME OwnerInv, NEW o \in Objects, Collect(o)
    PROVE  Shape
<1>1. Gone(Latest(log[o])) \in Version /\ MayStore(o, Gone(Latest(log[o])))
  BY GoneShape DEF Collect
<1> QED
  BY <1>1, ChildGains DEF Collect, Budgets

(* The content that another client writes into a child.                    *)
LEMMA ForeignBody ==
    ASSUME NEW b \in Bodies
    PROVE  [b EXCEPT !.spec = Foreign] \in Bodies
<1> DEFINE I == UNION {{st.body.immut : st \in StepsOf(s)} : s \in Specs}
           P == {Foreign} \cup UNION {{st.body.spec : st \in StepsOf(s)} : s \in Specs}
<1>1. Bodies = [immut : I, spec : P]
  BY DEF Bodies
<1>2. Foreign \in P
  OBVIOUS
<1> HIDE DEF I, P
<1> QED
  BY <1>1, <1>2

LEMMA ForeignChild ==
    ASSUME NEW v \in Version, NEW w, w = [v EXCEPT !.body.spec = Foreign]
    PROVE  /\ w \in Version
           /\ w.owner = v.owner /\ w.from = v.from /\ w.live = v.live
           /\ w.body.immut = v.body.immut
<1>1. v.body \in Bodies
  BY DEF Version
<1>2. [v.body EXCEPT !.spec = Foreign] \in Bodies
  BY <1>1, ForeignBody
<1>3. w = [v EXCEPT !.body = [v.body EXCEPT !.spec = Foreign]]
  BY DEF Version
<1>4. /\ w \in Version /\ w.owner = v.owner /\ w.from = v.from /\ w.live = v.live
      /\ w.body = [v.body EXCEPT !.spec = Foreign]
  BY <1>2, <1>3 DEF Version
<1> QED
  BY <1>1, <1>4 DEF Bodies

LEMMA DisturbShape ==
    ASSUME OwnerInv, NEW o \in Objects, Disturb(o)
    PROVE  Shape
<1> USE DEF OwnerInv
<1> DEFINE v == Latest(log[o])
           w == [v EXCEPT !.body.spec = Foreign]
<1>1. /\ UNCHANGED <<crVars, seen, queue, workerVars, lateVars>>
      /\ \E b \in Budgets : Spend(b)
      /\ Live(o)
      /\ StoreChild(o, Gone(v)) \/ StoreChild(o, v) \/ StoreChild(o, w)
  BY DEF Disturb, Budgets
<1>2. v \in Version
  BY <1>1, LatestChild
<1>3. MayStore(o, v)
  BY DEF MayStore, KeepsOwner
<1>4. w \in Version /\ w.owner = v.owner
  BY <1>2, ForeignChild
<1>5. MayStore(o, w)
  BY <1>4 DEF MayStore, KeepsOwner
<1>6. Gone(v) \in Version /\ MayStore(o, Gone(v))
  BY <1>1, GoneShape
<1> HIDE DEF v, w
<1> QED
  BY <1>1, <1>2, <1>3, <1>4, <1>5, <1>6, ChildGains

(* What another client creates under the name of a child.                  *)
Intruder(b) == [live |-> TRUE, owner |-> NoEngine, uid |-> 0, from |-> 0, body |-> b]

LEMMA SquatChild ==
    ASSUME NEW o \in Objects, Squat(o)
    PROVE  \E b \in Bodies : /\ StoreChild(o, Intruder(b)) /\ Intruder(b) \in Version
                            /\ \E p \in Planned(o) : b.immut = p.immut
<1>1. PICK b \in ForeignBodies(o) : StoreChild(o, Intruder(b))
  BY DEF Squat, Intruder
<1>2. PICK p \in Planned(o) : b = [p EXCEPT !.spec = Foreign]
  BY DEF ForeignBodies
<1>3. p \in Bodies
  <2>1. PICK s \in Specs : \E st \in StepsOf(s) : p = st.body
    BY <1>2 DEF Planned
  <2> QED
    BY <2>1, PlanAssumption DEF IsStep
<1>4. b \in Bodies /\ b.immut = p.immut
  BY <1>2, <1>3, ForeignBody DEF Bodies
<1>5. Intruder(b) \in Version
  BY <1>4 DEF Intruder, Version
<1> QED
  BY <1>1, <1>2, <1>4, <1>5

LEMMA SquatShape ==
    ASSUME OwnerInv, NEW o \in Objects, Squat(o)
    PROVE  Shape
<1>1. PICK b \in Bodies : StoreChild(o, Intruder(b)) /\ Intruder(b) \in Version
  BY SquatChild
<1>2. MayStore(o, Intruder(b))
  BY DEF MayStore, Squat
<1> QED
  BY <1>1, <1>2, ChildGains DEF Squat, Budgets

-----------------------------------------------------------------------------
(* The invariant about owners.                                             *)

LEMMA NextShape ==
    ASSUME OwnerInv, Next
    PROVE  Shape
<1>1. ASSUME NEW c \in Engines, User(c) \/ ObserveCR(c) \/ Resync(c) \/ Begin(c)
      PROVE  Shape
  BY <1>1, UserShape, ObserveCRShape, ResyncShape, BeginShape
<1>2. ASSUME NEW c \in Engines, NEW f \in Finalizers, ReleaseFinalizer(c, f)
      PROVE  Shape
  BY <1>2, ReleaseFinalizerShape
<1>3. ASSUME NEW o \in Objects, Observe(o) \/ Collect(o) \/ Disturb(o) \/ Squat(o)
      PROVE  Shape
  BY <1>3, ObserveShape, CollectShape, DisturbShape, SquatShape
<1>4. CASE Pass
  BY <1>4, QuietStepShape, CallSucceedsShape, PVFinalizerShape DEF Pass
<1>5. CASE Fault
  BY <1>5, QuietStepShape, CallFaultShape, PVFinalizerShape DEF Fault
<1>6. CASE Start
  BY <1>6, StartShape
<1>7. CASE (\E q \in late : LateWrite(q)) \/ (\E r \in lateCR : LateUpdateCR(r))
  BY <1>7, LateShape
<1> QED
  BY <1>1, <1>2, <1>3, <1>4, <1>5, <1>6, <1>7 DEF Next

LEMMA InitOwners ==
    ASSUME Init
    PROVE  OwnerInv
<1>1. TypeOK
  BY BoundsAssumption DEF Init, TypeOK, Budgets
<1>2. CacheOK /\ PassOK /\ LateOwners
  BY DEF Init, CacheOK, PassOK, InPass, LateOwners
<1>3. NoTheft
  BY DEF Init, NoTheft, Successive
<1> QED
  BY <1>1, <1>2, <1>3 DEF OwnerInv

LEMMA StutterShape ==
    ASSUME OwnerInv, UNCHANGED vars
    PROVE  Shape
<1>1. UNCHANGED <<crVars, childVars, queue, workerVars, lateVars, left>>
  BY DEF vars, crVars, childVars, workerVars, lateVars
<1>2. WorkerStep /\ LeftStep
  BY <1>1, KeepWorker, KeepLeft DEF OwnerInv, TypeOK
<1> QED
  BY <1>1, <1>2, WorkerMoves

-----------------------------------------------------------------------------
(***************************************************************************)
(* The ages of versions.  What a step stores or sends is no older than     *)
(* what it replaces, and nothing is newer than what the operator has seen. *)
(***************************************************************************)
Recent(o, v) == Within(v) /\ (Live(o) /\ v.live => MayFollow(Latest(log[o]), v))

RecentRequest(q) ==
    Within(q.ver) /\ (q.base # 0 => MayFollow(log[q.obj][q.base], q.ver))

AgeStep ==
    /\ \/ log' = log
       \/ \E o \in Objects, v \in Version : StoreChild(o, v) /\ Recent(o, v)
    /\ \/ late' \subseteq late
       \/ \E q \in Request : late' = late \cup {q} /\ RecentRequest(q)

(* A version within the horizon stays there: caches only move forward.     *)
LEMMA WithinKept ==
    ASSUME TypeOK, PassOK, CacheOK, CacheStep, WorkerStep,
           NEW v \in Version, Within(v)
    PROVE  Within(v)'
<1>1. SUFFICES ASSUME v.owner # NoEngine
               PROVE  v.from <= crSeen'[v.owner] /\ (eng' = v.owner => v.from <= snap')
  BY DEF Within
<1>2. v.owner \in Engines /\ v.from \in Nat
  BY <1>1 DEF Version
<1>3. v.from <= crSeen[v.owner] /\ crSeen[v.owner] <= crSeen'[v.owner]
  BY <1>1, <1>2 DEF Within, CacheStep
<1>4. crSeen[v.owner] \in Nat /\ crSeen'[v.owner] \in Nat
  BY <1>2 DEF TypeOK, CacheStep
<1>5. ASSUME eng' = v.owner PROVE v.from <= snap'
  BY <1>1, <1>3, <1>5 DEF WorkerStep, Within
<1> QED
  BY <1>2, <1>3, <1>4, <1>5

(* The versions of a child after a step, and the age of the new one.       *)
LEMMA NewRecent ==
    ASSUME TypeOK, CRStep, ChildStep, AgeStep,
           NEW o \in Objects, NEW n \in 1 .. Len(log'[o])
    PROVE  \/ n \in 1 .. Len(log[o]) /\ log'[o][n] = log[o][n]
           \/ n = Len(log[o]) + 1 /\ Recent(o, log'[o][n])
<1>1. log[o] \in Seq(Version) /\ Extends(log[o], log'[o]) /\ Len(log'[o]) \in Nat
  BY LogsGrow DEF TypeOK
<1>2. CASE n <= Len(log[o])
  BY <1>1, <1>2 DEF Extends
<1>3. CASE ~ (n <= Len(log[o]))
  <2>1. PICK v \in Version : log' = [log EXCEPT ![o] = Append(log[o], v)] /\ Recent(o, v)
    <3>1. log' # log
      BY <1>1, <1>3
    <3>2. PICK p \in Objects, v \in Version : StoreChild(p, v) /\ Recent(p, v)
      BY <3>1 DEF AgeStep
    <3>3. log' = [log EXCEPT ![p] = Append(log[p], v)]
      BY <3>2 DEF StoreChild
    <3>4. p = o
      BY <1>1, <1>3, <3>3 DEF TypeOK
    <3> QED
      BY <3>2, <3>3, <3>4
  <2>2. log'[o] = Append(log[o], v)
    BY <2>1 DEF TypeOK
  <2>3. Len(log'[o]) = Len(log[o]) + 1 /\ log'[o][Len(log[o]) + 1] = v
    BY <1>1, <2>2
  <2> QED
    BY <1>1, <1>3, <2>1, <2>3
<1> QED
  BY <1>2, <1>3

(* Horizon is kept.                                                        *)
LEMMA AgeHorizon ==
    ASSUME TypeOK, PassOK, CacheOK, Horizon, Shape, AgeStep
    PROVE  Horizon'
<1>1. ASSUME NEW o \in Objects, NEW n \in 1 .. Len(log'[o]),
             log'[o][n].owner # NoEngine
      PROVE  /\ log'[o][n].from <= crSeen'[log'[o][n].owner]
             /\ eng' = log'[o][n].owner => log'[o][n].from <= snap'
  <2>1. PICK v \in Version : v = log'[o][n]
    BY LogsGrow DEF Shape
  <2>2. Within(v)
    BY <2>1, NewRecent DEF Shape, Horizon, Recent
  <2>3. Within(v)'
    BY <2>2, WithinKept DEF Shape
  <2> QED
    BY <1>1, <2>1, <2>3 DEF Within
<1> QED
  BY <1>1 DEF Horizon, Within

(* NoRollback is kept.                                                     *)
LEMMA AgeOrder ==
    ASSUME TypeOK, NoRollback, NoTheft, Shape, AgeStep
    PROVE  NoRollback'
<1>1. ASSUME NEW o \in Objects, NEW n \in Successive(log'[o])
      PROVE  MayFollow(log'[o][n - 1], log'[o][n])
  <2>1. log[o] \in Seq(Version) /\ log'[o] \in Seq(Version) /\ Extends(log[o], log'[o])
    BY LogsGrow DEF TypeOK, Shape
  <2>2. n \in 1 .. Len(log'[o]) /\ n > 1 /\ log'[o][n - 1].live /\ log'[o][n].live
    BY DEF Successive
  <2>3. CASE n \in 1 .. Len(log[o]) /\ log'[o][n] = log[o][n]
    <3>1. log'[o][n - 1] = log[o][n - 1]
      BY <2>1, <2>2, <2>3 DEF Extends
    <3>2. n \in Successive(log[o])
      BY <2>2, <2>3, <3>1 DEF Successive
    <3> QED
      BY <2>3, <3>1, <3>2 DEF NoRollback, NoTheft, MayFollow
  <2>4. CASE n = Len(log[o]) + 1 /\ Recent(o, log'[o][n])
    <3>1. log'[o][n - 1] = Latest(log[o]) /\ Len(log[o]) \in Nat \ {0}
      BY <2>1, <2>2, <2>4 DEF Extends, Latest
    <3>2. Live(o)
      BY <2>1, <2>2, <3>1 DEF Live, Exists
    <3> QED
      BY <2>2, <2>4, <3>1, <3>2 DEF Recent
  <2> QED
    BY <2>2, <2>3, <2>4, NewRecent DEF Shape
<1> QED
  BY <1>1 DEF NoRollback, MayFollow

LEMMA AgeLate ==
    ASSUME OwnerInv, LateOK, Shape, AgeStep
    PROVE  LateOK'
<1>1. ASSUME NEW q \in late'
      PROVE  q \in Request /\ GoodRequest(q) /\ RecentRequest(q)
  <2>1. \A p \in late : p \in Request /\ GoodRequest(p) /\ RecentRequest(p)
    BY DEF OwnerInv, TypeOK, LateOwners, LateOK, GoodRequest, RecentRequest
  <2>2. q \in Request /\ GoodRequest(q)
    BY <2>1 DEF Shape, LateStep
  <2>3. RecentRequest(q)
    BY <2>1 DEF AgeStep
  <2> QED
    BY <2>2, <2>3
<1>2. ASSUME NEW q \in Request, GoodRequest(q), RecentRequest(q)
      PROVE  Within(q.ver)' /\ (q.base # 0 => MayFollow(log'[q.obj][q.base], q.ver))
  <2>1. q.obj \in Objects /\ q.base \in Nat /\ q.ver \in Version
    BY DEF Request
  <2>2. Within(q.ver)'
    BY <1>2, <2>1, WithinKept DEF Shape, RecentRequest, OwnerInv
  <2>3. Extends(log[q.obj], log'[q.obj]) /\ Len(log[q.obj]) \in Nat
    BY <2>1, LogsGrow DEF Shape, OwnerInv, TypeOK
  <2>4. q.base # 0 => log'[q.obj][q.base] = log[q.obj][q.base]
    BY <1>2, <2>1, <2>3 DEF Extends, GoodRequest
  <2> QED
    BY <1>2, <2>2, <2>4 DEF RecentRequest
<1> QED
  BY <1>1, <1>2 DEF LateOK, Within

-----------------------------------------------------------------------------
(* What each action stores or sends.                                       *)

(* What a pass asks for is as new as all that the operator has seen.       *)
LEMMA CallRecent ==
    ASSUME IInv, pc = "step", ~ Taken
    PROVE  RecentRequest(Call)
<1> USE DEF IInv, OwnerInv
<1>1. eng \in Engines /\ snap \in 1 .. crSeen[eng] /\ crSeen[eng] \in Nat
  BY DEF TypeOK, PassOK, InPass
<1>2. /\ Call.ver.owner \in {eng, NoEngine}
      /\ Call.ver.owner = eng => Call.ver.from = snap
  BY CallFacts
<1>3. Within(Call.ver)
  BY <1>1, <1>2 DEF Within
<1>4. ASSUME Call.base # 0
      PROVE  MayFollow(log[Call.obj][Call.base], Call.ver)
  <2>1. /\ Call.obj \in Objects /\ Call.base \in 1 .. Len(log[Call.obj])
        /\ log[Call.obj][Call.base].owner \in {NoEngine, eng}
        /\ Call.ver.owner = eng /\ Call.ver.from = snap
    BY <1>4, CallReads
  <2>2. Within(log[Call.obj][Call.base])
    BY <2>1 DEF Horizon
  <2> QED
    BY <2>1, <2>2 DEF MayFollow, Within
<1> QED
  BY <1>3, <1>4 DEF RecentRequest

(* A request that the server accepts replaces the version it carries.      *)
LEMMA StoreRecent ==
    ASSUME NEW q \in Request, RecentRequest(q), Accepts(q), Store(q), late' \subseteq late
    PROVE  AgeStep
<1>1. q.obj \in Objects /\ q.ver \in Version /\ q.base \in Nat
  BY DEF Request
<1>2. Recent(q.obj, q.ver)
  BY DEF Recent, RecentRequest, Accepts, Latest, Rv
<1> QED
  BY <1>1, <1>2 DEF Store, AgeStep

LEMMA CallAge ==
    ASSUME IInv, CallSucceeds \/ CallFault
    PROVE  AgeStep
<1>1. pc = "step" /\ Calls
  BY DEF CallSucceeds, CallFault
<1>2. Call \in Request /\ RecentRequest(Call)
  BY <1>1, CallGood, CallRecent DEF Calls, IInv
<1>3. CASE CallSucceeds
  BY <1>2, <1>3, StoreRecent DEF CallSucceeds, lateVars
<1>4. CASE CallFault
  BY <1>2, <1>4 DEF CallFault, childVars, AgeStep
<1> QED
  BY <1>3, <1>4

LEMMA LateAge ==
    ASSUME IInv, NEW q \in late, LateWrite(q)
    PROVE  AgeStep
<1>1. q \in Request /\ RecentRequest(q)
  BY DEF IInv, OwnerInv, TypeOK, LateOK, RecentRequest
<1> QED
  BY <1>1, StoreRecent DEF LateWrite, AgeStep

LEMMA OthersAge ==
    ASSUME IInv, NEW o \in Objects, Collect(o) \/ Disturb(o) \/ Squat(o)
    PROVE  AgeStep
<1> USE DEF IInv, OwnerInv
<1> DEFINE v == Latest(log[o])
           w == [v EXCEPT !.body.spec = Foreign]
<1>1. ASSUME NEW x \in Version, StoreChild(o, x), Recent(o, x)
      PROVE  AgeStep
  BY <1>1 DEF AgeStep, Collect, Disturb, Squat, lateVars
<1>2. CASE Collect(o) \/ Disturb(o)
  <2>1. Live(o) /\ (StoreChild(o, Gone(v)) \/ StoreChild(o, v) \/ StoreChild(o, w))
    BY <1>2 DEF Collect, Disturb
  <2>2. v \in Version /\ Within(v)
    BY <2>1, LatestChild DEF Horizon, Latest
  <2>3. Recent(o, v)
    BY <2>2 DEF Recent, MayFollow, Version
  <2>4. w \in Version /\ w.owner = v.owner /\ w.from = v.from
    BY <2>2, ForeignChild
  <2>5. Recent(o, w)
    BY <2>2, <2>4 DEF Recent, MayFollow, Within, Version
  <2>6. Gone(v) \in Version /\ Recent(o, Gone(v))
    <3>1. Gone(v) \in Version
      BY <2>1, GoneShape
    <3>2. ~ Gone(v).live /\ Gone(v).owner = NoEngine
      BY <2>2 DEF Gone, Version
    <3> QED
      BY <3>1, <3>2 DEF Recent, Within
  <2> HIDE DEF v, w
  <2> QED
    BY <1>1, <2>1, <2>2, <2>3, <2>4, <2>5, <2>6
<1>3. CASE Squat(o)
  <2>1. PICK b \in Bodies : StoreChild(o, Intruder(b)) /\ Intruder(b) \in Version
    BY <1>3, SquatChild
  <2>2. Recent(o, Intruder(b))
    BY <1>3 DEF Recent, Within, Intruder, Squat
  <2> QED
    BY <1>1, <2>1, <2>2
<1> QED
  BY <1>2, <1>3

LEMMA NextAge ==
    ASSUME IInv, Next
    PROVE  AgeStep
<1>1. CASE UNCHANGED <<log, late>>
  BY <1>1 DEF AgeStep
<1>2. ASSUME NEW c \in Engines, User(c) \/ ObserveCR(c) \/ Resync(c) \/ Begin(c)
      PROVE  UNCHANGED <<log, late>>
  BY <1>2 DEF User, CreateCR, EditCR, DeleteCR, ObserveCR, Resync, Begin,
              childVars, lateVars
<1>3. CASE \/ \E c \in Engines, f \in Finalizers : ReleaseFinalizer(c, f)
           \/ \E r \in lateCR : LateUpdateCR(r)
  BY <1>1, <1>3 DEF ReleaseFinalizer, LateUpdateCR, childVars, lateVars
<1>4. ASSUME NEW o \in Objects, Observe(o) PROVE UNCHANGED <<log, late>>
  BY <1>4 DEF Observe, lateVars
<1>5. ASSUME NEW o \in Objects, Collect(o) \/ Disturb(o) \/ Squat(o)
      PROVE  AgeStep
  BY <1>5, OthersAge
<1>6. CASE Pass
  BY <1>1, <1>6, CallAge
     DEF Pass, BuildPanics, RefuseTaken, SkipUnchanged, CallRefused, Finish,
         PVFinalizer, childVars, lateVars
<1>7. CASE Fault
  BY <1>1, <1>7, CallAge
     DEF Fault, PVFinalizerFault, Crash, childVars, lateVars
<1>8. CASE Start
  BY <1>1, <1>8 DEF Start, lateVars
<1>9. CASE \E q \in late : LateWrite(q)
  BY <1>9, LateAge
<1> QED
  BY <1>1, <1>2, <1>3, <1>4, <1>5, <1>6, <1>7, <1>8, <1>9 DEF Next

-----------------------------------------------------------------------------
(* The invariant and what follows from it.                                 *)

LEMMA InitInvariant ==
    ASSUME Init
    PROVE  IInv
<1>1. Horizon /\ LateOK /\ NoRollback
  BY DEF Init, Horizon, LateOK, NoRollback, Successive
<1> QED
  BY <1>1, InitOwners DEF IInv

LEMMA StepInvariant ==
    ASSUME IInv, [Next]_vars
    PROVE  IInv'
<1>1. Shape
  BY NextShape, StutterShape DEF IInv
<1>2. AgeStep
  BY NextAge DEF AgeStep, vars
<1>3. Horizon' /\ LateOK' /\ NoRollback'
  BY <1>1, <1>2, AgeHorizon, AgeLate, AgeOrder DEF IInv, OwnerInv
<1> QED
  BY <1>1, <1>3, ShapeInvariant DEF IInv

(***************************************************************************)
(* The invariant is inductive: caches, the pass, the histories and the     *)
(* requests in flight stay consistent with each other, whatever users,     *)
(* informers, failures and other clients do.                               *)
(***************************************************************************)
THEOREM Invariance == Spec => []IInv
<1>1. Init => IInv
  BY InitInvariant
<1>2. IInv /\ [Next]_vars => IInv'
  BY StepInvariant
<1> QED
  BY <1>1, <1>2, PTL DEF Spec

(* Every variable keeps its type.                                          *)
THEOREM TypeCorrectness == Spec => []TypeOK
<1>1. IInv => TypeOK
  BY DEF IInv, OwnerInv
<1> QED
  BY <1>1, Invariance, PTL

(* No child goes back to an older version of its engine's resource.        *)
THEOREM RollbackFreedom == Spec => []NoRollback
<1>1. IInv => NoRollback
  BY DEF IInv
<1> QED
  BY <1>1, Invariance, PTL

(* No engine takes a child away from another one.                          *)
THEOREM TheftFreedom == Spec => []NoTheft
<1>1. IInv => NoTheft
  BY DEF IInv, OwnerInv
<1> QED
  BY <1>1, Invariance, PTL

-----------------------------------------------------------------------------
(***************************************************************************)
(* The histories of resources.  A version that replaces a live one keeps   *)
(* what users and other controllers have written, unless it is theirs.     *)
(***************************************************************************)
Keeps(before, after) ==
    /\ before.uid = after.uid
    /\ before.gen <= after.gen
    /\ before.gen = after.gen => before.spec = after.spec
    /\ before.deleting => after.deleting
    /\ after.fins \subseteq before.fins

(* A specification was written by the time its version was stored.         *)
Dated == \A c \in Engines : \A n \in 1 .. Len(crLog[c]) : crLog[c][n].gen <= n

MayReplace(c, v) ==
    /\ v \in CRVersion
    /\ v.gen <= Len(crLog[c]) + 1
    /\ CRLive(c) => Keeps(Latest(crLog[c]), v)

ResourceStep ==
    crLog' = crLog \/ \E c \in Engines, v \in CRVersion : StoreCR(c, v) /\ MayReplace(c, v)

LEMMA ResourceStepKeeps ==
    ASSUME TypeOK, Dated, NoLostEdit, ResourceStep
    PROVE  Dated' /\ NoLostEdit'
<1>1. CASE crLog' = crLog
  BY <1>1 DEF Dated, NoLostEdit, Successive
<1>2. ASSUME NEW d \in Engines, NEW v \in CRVersion, StoreCR(d, v), MayReplace(d, v)
      PROVE  Dated' /\ NoLostEdit'
  <2>1. crLog \in [Engines -> Seq(CRVersion)] /\ crLog[d] \in Seq(CRVersion)
    BY DEF TypeOK
  <2>2. crLog' = [crLog EXCEPT ![d] = Append(crLog[d], v)]
    BY <1>2 DEF StoreCR
  <2>3. /\ Len(Append(crLog[d], v)) = Len(crLog[d]) + 1
        /\ \A n \in 1 .. Len(crLog[d]) : Append(crLog[d], v)[n] = crLog[d][n]
        /\ Append(crLog[d], v)[Len(crLog[d]) + 1] = v
        /\ Len(crLog[d]) \in Nat
    BY <2>1, AppendFacts
  <2>4. /\ crLog'[d] = Append(crLog[d], v)
        /\ \A c \in Engines \ {d} : crLog'[c] = crLog[c]
    BY <2>1, <2>2
  <2>5. ASSUME NEW c \in Engines, NEW n \in 1 .. Len(crLog'[c])
        PROVE  crLog'[c][n].gen <= n
    <3>1. CASE c # d
      BY <2>4, <3>1 DEF Dated
    <3>2. CASE c = d /\ n \in 1 .. Len(crLog[d])
      BY <2>3, <2>4, <3>2 DEF Dated
    <3>3. CASE c = d /\ n = Len(crLog[d]) + 1
      BY <1>2, <2>3, <2>4, <3>3 DEF MayReplace
    <3> QED
      BY <2>3, <2>4, <3>1, <3>2, <3>3
  <2>6. ASSUME NEW c \in Engines, NEW n \in Successive(crLog'[c])
        PROVE  Keeps(crLog'[c][n - 1], crLog'[c][n])
    <3>1. CASE c # d \/ n \in 1 .. Len(crLog[d])
      <4>1. n \in Successive(crLog[c]) /\ crLog'[c][n - 1] = crLog[c][n - 1]
            /\ crLog'[c][n] = crLog[c][n]
        BY <2>3, <2>4, <3>1 DEF Successive
      <4> QED
        BY <4>1 DEF NoLostEdit, Keeps
    <3>2. CASE c = d /\ n \notin 1 .. Len(crLog[d])
      <4>1. n = Len(crLog[d]) + 1 /\ n > 1 /\ crLog'[d][n - 1].live
        BY <2>3, <2>4, <3>2 DEF Successive
      <4>2. crLog'[d][n - 1] = Latest(crLog[d]) /\ crLog'[d][n] = v
        BY <2>3, <2>4, <4>1 DEF Latest
      <4>3. CRLive(d)
        BY <2>3, <4>1, <4>2 DEF CRLive, Exists
      <4> QED
        BY <1>2, <3>2, <4>2, <4>3 DEF MayReplace
    <3> QED
      BY <3>1, <3>2
  <2> QED
    BY <2>5, <2>6 DEF Dated, NoLostEdit, Keeps
<1> QED
  BY <1>1, <1>2 DEF ResourceStep

(* A change of the current version that leaves its specification alone.    *)
LEMMA SettledReplaces ==
    ASSUME TypeOK, Dated, NEW c \in Engines, crLog[c] # <<>>,
           NEW v \in CRVersion,
           v.uid = Latest(crLog[c]).uid, v.gen = Latest(crLog[c]).gen,
           v.spec = Latest(crLog[c]).spec,
           Latest(crLog[c]).deleting => v.deleting,
           v.fins \subseteq Latest(crLog[c]).fins
    PROVE  Settled(v) \in CRVersion /\ MayReplace(c, Settled(v))
<1>1. crLog[c] \in Seq(CRVersion) /\ Len(crLog[c]) \in Nat \ {0}
  BY DEF TypeOK
<1>2. Latest(crLog[c]).gen <= Len(crLog[c]) /\ Latest(crLog[c]).gen \in Nat
  BY <1>1 DEF Dated, Latest, CRVersion
<1>3. Settled(v) \in CRVersion
  BY SettledType
<1>4. /\ Settled(v).uid = v.uid /\ Settled(v).gen = v.gen /\ Settled(v).spec = v.spec
      /\ Settled(v).deleting = v.deleting /\ Settled(v).fins = v.fins
  BY DEF Settled, CRVersion
<1> QED
  BY <1>1, <1>2, <1>3, <1>4 DEF MayReplace, Keeps

LEMMA UserReplaces ==
    ASSUME TypeOK, Dated, NEW c \in Engines, User(c)
    PROVE  ResourceStep
<1>1. crLog[c] \in Seq(CRVersion) /\ Len(crLog[c]) \in Nat
  BY DEF TypeOK
<1>2. ASSUME CRLive(c)
      PROVE  /\ Latest(crLog[c]) \in CRVersion
             /\ Latest(crLog[c]).gen <= Len(crLog[c])
             /\ crLog[c] # <<>>
  BY <1>1, <1>2 DEF CRLive, Exists, Latest, Dated
<1>3. ASSUME NEW s \in Specs, NEW fins \in SUBSET Finalizers, CreateCR(c, s, fins)
      PROVE  ResourceStep
  <2> DEFINE v == [live |-> TRUE, uid |-> Rv(crLog[c]) + 1, gen |-> Rv(crLog[c]) + 1,
                   spec |-> s, fins |-> fins, deleting |-> FALSE]
  <2>1. v \in CRVersion /\ v.gen = Len(crLog[c]) + 1
    BY <1>1 DEF CRVersion, Rv
  <2>2. MayReplace(c, v)
    BY <1>1, <1>3, <2>1 DEF MayReplace, CreateCR
  <2> QED
    BY <1>3, <2>1, <2>2 DEF CreateCR, ResourceStep
<1>4. ASSUME NEW s \in Specs, EditCR(c, s)
      PROVE  ResourceStep
  <2> DEFINE v == [Latest(crLog[c]) EXCEPT !.spec = s, !.gen = Rv(crLog[c]) + 1]
  <2>1. CRLive(c)
    BY <1>4 DEF EditCR
  <2>2. v \in CRVersion /\ v.gen = Len(crLog[c]) + 1
        /\ v.uid = Latest(crLog[c]).uid /\ v.deleting = Latest(crLog[c]).deleting
        /\ v.fins = Latest(crLog[c]).fins
    <3>1. PICK b \in CRVersion : b = Latest(crLog[c])
      BY <1>2, <2>1
    <3>2. v = [b EXCEPT !.spec = s, !.gen = Len(crLog[c]) + 1]
      BY <3>1 DEF Rv
    <3>3. Len(crLog[c]) + 1 \in Nat
      BY <1>1
    <3> HIDE DEF v
    <3> QED
      BY <3>1, <3>2, <3>3 DEF CRVersion
  <2>3. Latest(crLog[c]).gen \in Nat
    BY <1>2, <2>1 DEF CRVersion
  <2>4. MayReplace(c, v)
    BY <1>1, <1>2, <2>1, <2>2, <2>3 DEF MayReplace, Keeps
  <2> QED
    BY <1>4, <2>2, <2>4 DEF EditCR, ResourceStep
<1>5. ASSUME DeleteCR(c) PROVE ResourceStep
  <2> DEFINE v == [Latest(crLog[c]) EXCEPT !.deleting = TRUE]
  <2>1. v \in CRVersion /\ crLog[c] # <<>>
        /\ v.uid = Latest(crLog[c]).uid /\ v.gen = Latest(crLog[c]).gen
        /\ v.spec = Latest(crLog[c]).spec /\ v.deleting
        /\ v.fins = Latest(crLog[c]).fins
    BY <1>2, <1>5 DEF DeleteCR, CRVersion
  <2>2. Settled(v) \in CRVersion /\ MayReplace(c, Settled(v))
    BY <2>1, SettledReplaces
  <2> QED
    BY <1>5, <2>2 DEF DeleteCR, ResourceStep
<1> QED
  BY <1>3, <1>4, <1>5 DEF User

(* One finalizer fewer.                                                    *)
LEMMA FinalizerReplaces ==
    ASSUME TypeOK, Dated, NEW c \in Engines, crLog[c] # <<>>, NEW f
    PROVE  LET v == Settled([Latest(crLog[c]) EXCEPT !.fins = @ \ {f}])
           IN v \in CRVersion /\ MayReplace(c, v)
<1> DEFINE v == [Latest(crLog[c]) EXCEPT !.fins = @ \ {f}]
<1>1. Latest(crLog[c]) \in CRVersion
  BY DEF TypeOK, Latest
<1>2. v \in CRVersion
      /\ v.uid = Latest(crLog[c]).uid /\ v.gen = Latest(crLog[c]).gen
      /\ v.spec = Latest(crLog[c]).spec /\ v.deleting = Latest(crLog[c]).deleting
      /\ v.fins \subseteq Latest(crLog[c]).fins
  BY <1>1 DEF CRVersion
<1> HIDE DEF v
<1>3. Settled(v) \in CRVersion /\ MayReplace(c, Settled(v))
  BY <1>2, SettledReplaces
<1> QED
  BY <1>3 DEF v

LEMMA UpdateCRReplaces ==
    ASSUME TypeOK, Dated, NEW c \in Engines, NEW n \in 1 .. Len(crLog[c]), UpdateCR(c, n)
    PROVE  ResourceStep
<1>1. n = Len(crLog[c]) /\ crLog[c] # <<>> /\ crLog[c][n] = Latest(crLog[c])
  BY DEF UpdateCR, Rv, Latest, TypeOK
<1>2. WithoutPV(crLog[c][n]) \in CRVersion /\ MayReplace(c, WithoutPV(crLog[c][n]))
  BY <1>1, FinalizerReplaces DEF WithoutPV
<1> QED
  BY <1>2 DEF UpdateCR, ResourceStep

LEMMA NextReplaces ==
    ASSUME OwnerInv, Dated, Next
    PROVE  ResourceStep
<1> USE DEF OwnerInv
<1>1. ASSUME NEW c \in Engines, User(c) \/ ObserveCR(c) \/ Resync(c) \/ Begin(c)
      PROVE  ResourceStep
  BY <1>1, UserReplaces DEF ObserveCR, Resync, Begin, ResourceStep, crVars
<1>2. ASSUME NEW c \in Engines, NEW f \in Finalizers, ReleaseFinalizer(c, f)
      PROVE  ResourceStep
  <2>1. crLog[c] # <<>>
    BY <1>2 DEF ReleaseFinalizer, CRLive, Exists
  <2> QED
    BY <1>2, <2>1, FinalizerReplaces DEF ReleaseFinalizer, ResourceStep
<1>3. ASSUME NEW o \in Objects, Observe(o) \/ Collect(o) \/ Disturb(o) \/ Squat(o)
      PROVE  ResourceStep
  BY <1>3 DEF Observe, Collect, Disturb, Squat, ResourceStep, crVars
<1>4. CASE PVFinalizer
  <2>1. eng \in Engines /\ snap \in 1 .. Len(crLog[eng])
    BY <1>4, StepFacts DEF PVFinalizer, InPass
  <2> QED
    BY <1>4, <2>1, UpdateCRReplaces DEF PVFinalizer, ResourceStep
<1>5. CASE Pass /\ ~ PVFinalizer
  BY <1>5 DEF Pass, BuildPanics, RefuseTaken, SkipUnchanged, CallSucceeds,
              CallRefused, Finish, ResourceStep, crVars
<1>6. CASE Fault \/ Start
  BY <1>6 DEF Fault, CallFault, PVFinalizerFault, Crash, Start, ResourceStep, crVars
<1>7. CASE \E q \in late : LateWrite(q)
  BY <1>7 DEF LateWrite, ResourceStep, crVars
<1>8. ASSUME NEW r \in lateCR, LateUpdateCR(r) PROVE ResourceStep
  <2>1. r.eng \in Engines /\ r.base \in 1 .. Len(crLog[r.eng])
    BY DEF TypeOK, LateOwners
  <2> QED
    BY <1>8, <2>1, UpdateCRReplaces DEF LateUpdateCR, ResourceStep
<1> QED
  BY <1>1, <1>2, <1>3, <1>4, <1>5, <1>6, <1>7, <1>8 DEF Next

(***************************************************************************)
(* No update of the operator undoes an edit, a deletion or the work of     *)
(* another controller on the finalizers.                                   *)
(***************************************************************************)
THEOREM EditSafety == Spec => []NoLostEdit
<1>1. Init => Dated /\ NoLostEdit
  BY DEF Init, Dated, NoLostEdit, Successive
<1>2. IInv /\ Dated /\ NoLostEdit /\ [Next]_vars => Dated' /\ NoLostEdit'
  <2>1. ASSUME IInv, Dated, NoLostEdit, Next PROVE Dated' /\ NoLostEdit'
    BY <2>1, NextReplaces, ResourceStepKeeps DEF IInv, OwnerInv
  <2>2. ASSUME Dated, NoLostEdit, UNCHANGED vars PROVE Dated' /\ NoLostEdit'
    BY <2>2 DEF vars, Dated, NoLostEdit, Successive
  <2> QED
    BY <2>1, <2>2
<1> QED
  BY <1>1, <1>2, Invariance, PTL DEF Spec

-----------------------------------------------------------------------------
(***************************************************************************)
(* The controller loop implements the store of module OwnedStore.  IInv    *)
(* orders what is written; what the abstract store asks for besides is     *)
(* that each write stems from a wish: the pass has read a version of the   *)
(* resource that was live, and so has the pass behind each request in      *)
(* flight.                                                                 *)
(***************************************************************************)

(* What a pass that follows version n of engine c gives to child o.        *)
Stems(o, c, n, v) ==
    /\ n \in 1 .. Len(crLog[c])
    /\ crLog[c][n].live
    /\ v.uid = crLog[c][n].uid
    /\ v.body \in Wanted[crLog[c][n].spec][o]

(* A request is a Create without owner, or follows a wish of its owner.    *)
Genuine(q) ==
    /\ q.ver.live
    /\ q.ver.owner # NoEngine => Stems(q.obj, q.ver.owner, q.ver.from, q.ver)
    /\ q.ver.owner = NoEngine =>
         /\ q.base = 0 /\ q.ver.uid = 0 /\ q.ver.from = 0
         /\ \E s \in Specs : q.ver.body \in Wanted[s][q.obj]

(* The pass follows a version that was live, and so do requests in flight. *)
Origin ==
    /\ InPass => Resource.live
    /\ \A q \in late : Genuine(q)

-----------------------------------------------------------------------------
(* The children as the abstract store sees them.                           *)

LEMMA ForeignBodyType ==
    ASSUME NEW o, NEW b \in ForeignBodies(o)
    PROVE  b \in Bodies /\ b.spec = Foreign
<1>1. PICK p \in Planned(o) : b = [p EXCEPT !.spec = Foreign]
  BY DEF ForeignBodies
<1>2. PICK s \in Specs : \E st \in StepsOf(s) : p = st.body
  BY <1>1 DEF Planned
<1>3. p \in Bodies
  BY <1>2, PlanAssumption DEF IsStep
<1> QED
  BY <1>1, <1>3, ForeignBody DEF Bodies

LEMMA ChildrenFacts ==
    ASSUME NEW o \in Objects
    PROVE  /\ Children[o].live => Live(o)
           /\ Live(o) => Children[o] = Latest(log[o])
BY DEF Children, Absent, Live, Exists, Latest

LEMMA ChildrenKept ==
    ASSUME UNCHANGED log
    PROVE  UNCHANGED Children
BY DEF Children, Latest

LEMMA ChildrenGain ==
    ASSUME TypeOK, NEW o \in Objects, NEW v \in Version, StoreChild(o, v)
    PROVE  Children' = [Children EXCEPT ![o] = v]
<1>1. log[o] \in Seq(Version) /\ log' = [log EXCEPT ![o] = Append(log[o], v)]
  BY DEF TypeOK, StoreChild
<1>2. log'[o] = Append(log[o], v) /\ \A p \in Objects \ {o} : log'[p] = log[p]
  BY <1>1 DEF TypeOK
<1>3. log'[o] # <<>> /\ log'[o][Len(log'[o])] = v
  BY <1>1, <1>2, AppendFacts
<1> QED
  BY <1>2, <1>3 DEF Children, Latest

LEMMA WantedFacts ==
    ASSUME NEW s \in Specs, NEW st \in StepsOf(s), st.obj \in Objects
    PROVE  st.body \in Wanted[s][st.obj]
BY DEF Wanted

LEMMA CallGenuine ==
    ASSUME IInv, Origin, pc = "step"
    PROVE  Genuine(Call)
<1> USE DEF IInv, OwnerInv
<1>1. InPass
  BY DEF InPass
<1>2. /\ eng \in Engines /\ snap \in 1 .. Len(crLog[eng]) /\ Resource \in CRVersion
      /\ Step.obj \in Objects /\ at \in 1 .. Len(Steps)
  BY <1>1, StepFacts DEF IsStep
<1>3. Resource.spec \in Specs /\ Step \in StepsOf(Resource.spec)
  BY <1>2 DEF CRVersion, StepsOf, Step, Steps
<1>4. Step.body \in Wanted[Resource.spec][Step.obj]
  BY <1>2, <1>3, WantedFacts
<1>5. Call.obj = Step.obj /\ eng # NoEngine
  BY <1>2, NamesAssumption DEF Call
<1>6. CASE Step.mode = "apply"
  <2>1. Call.ver = Applied
    BY <1>6 DEF Call
  <2>2. Stems(Step.obj, eng, snap, Applied)
    BY <1>1, <1>2, <1>4 DEF Stems, Applied, Origin, Resource
  <2> QED
    BY <1>5, <2>1, <2>2 DEF Genuine, Applied
<1>7. CASE Step.mode # "apply"
  <2>1. Call.ver = Created /\ Call.base = 0
    BY <1>7 DEF Call, Known
  <2> QED
    BY <1>3, <1>4, <1>5, <2>1 DEF Genuine, Created
<1> QED
  BY <1>6, <1>7

(***************************************************************************)
(* A request that the API server accepts is a step of the abstract store:  *)
(* an engine shapes a child, or an object without owner is provided.       *)
(***************************************************************************)
LEMMA StoreImplements ==
    ASSUME TypeOK, NEW q \in Request, RecentRequest(q), Genuine(q), Accepts(q), Store(q),
           UNCHANGED crLog
    PROVE  [Promise!Next]_(Promise!storeVars)
<1> DEFINE o == q.obj
           v == q.ver
<1>1. o \in Objects /\ v \in Version /\ q.base \in Nat
  BY DEF Request
<1>2. CASE UNCHANGED log
  BY <1>2, ChildrenKept DEF Promise!storeVars
<1>3. CASE StoreChild(o, v)
  <2>1. Children' = [Children EXCEPT ![o] = v]
    BY <1>1, <1>3, ChildrenGain
  <2>2. v = [live |-> TRUE, owner |-> v.owner, uid |-> v.uid, from |-> v.from,
             body |-> v.body]
    BY <1>1 DEF Genuine, Version
  <2>3. CASE v.owner = NoEngine
    <3>1. ~ Children[o].live
      BY <1>1, <2>3, ChildrenFacts DEF Genuine, Accepts
    <3>2. PICK s \in Specs : v.body \in Wanted[s][o]
      BY <2>3 DEF Genuine
    <3>3. s \in DOMAIN Wanted
      BY DEF Wanted
    <3>4. v = [live |-> TRUE, owner |-> NoEngine, uid |-> 0, from |-> 0, body |-> v.body]
      BY <2>2, <2>3 DEF Genuine
    <3>5. Promise!Provide(o)
      BY <2>1, <3>1, <3>2, <3>3, <3>4 DEF Promise!Provide, Promise!Become
    <3> QED
      BY <1>1, <3>5 DEF Promise!Next
  <2>4. CASE v.owner # NoEngine
    <3> DEFINE c == v.owner
               n == v.from
    <3>1. c \in Engines
      BY <1>1, <2>4 DEF Version
    <3>2. Stems(o, c, n, v)
      BY <2>4 DEF Genuine
    <3>3. \/ Promise!Free(Children[o])
          \/ Children[o].owner = c /\ Children[o].from <= n
      <4>1. CASE ~ Live(o)
        BY <1>1, <4>1, ChildrenFacts DEF Promise!Free
      <4>2. CASE Live(o)
        <5>1. q.base # 0 /\ q.base = Len(log[o])
          BY <4>2 DEF Accepts, Rv
        <5>2. MayFollow(Latest(log[o]), v)
          BY <5>1 DEF RecentRequest, Latest
        <5> QED
          BY <1>1, <4>2, <5>2, ChildrenFacts DEF MayFollow, Promise!Free
      <4> QED
        BY <4>1, <4>2
    <3>4. Children[o].live => v.body.immut = Children[o].body.immut
      BY <1>1, ChildrenFacts DEF Accepts
    <3>5. Promise!Shape(o, c, n)
      BY <2>1, <2>2, <3>2, <3>3, <3>4 DEF Promise!Shape, Promise!Become, Stems
    <3> QED
      BY <1>1, <3>1, <3>2, <3>5 DEF Promise!Next, Stems
  <2> QED
    BY <2>3, <2>4
<1> QED
  BY <1>2, <1>3 DEF Store

-----------------------------------------------------------------------------
(* The invariant Origin.                                                   *)

(* A version that is stored stays what it is.                              *)
LEMMA VersionStays ==
    ASSUME TypeOK, Shape, NEW c \in Engines, NEW n \in 1 .. Len(crLog[c])
    PROVE  n \in 1 .. Len(crLog'[c]) /\ crLog'[c][n] = crLog[c][n]
<1>1. Extends(crLog[c], crLog'[c])
  BY LogsGrow DEF Shape
<1>2. Len(crLog[c]) \in Nat /\ Len(crLog'[c]) \in Nat
  BY LogsGrow DEF Shape, TypeOK
<1> QED
  BY <1>1, <1>2 DEF Extends

LEMMA GenuineStays ==
    ASSUME TypeOK, Shape, NEW q \in Request, Genuine(q)
    PROVE  Genuine(q)'
<1>1. q.ver \in Version
  BY DEF Request
<1>2. ASSUME q.ver.owner # NoEngine
      PROVE  Stems(q.obj, q.ver.owner, q.ver.from, q.ver)'
  <2>1. q.ver.owner \in Engines /\ Stems(q.obj, q.ver.owner, q.ver.from, q.ver)
    BY <1>1, <1>2 DEF Version, Genuine
  <2> QED
    BY <2>1, VersionStays DEF Stems, Wanted
<1> QED
  BY <1>2 DEF Genuine, Wanted

(* The version that a pass follows: the one it had, or a live one.         *)
Follows ==
    InPass' => \/ InPass /\ eng' = eng /\ snap' = snap
               \/ /\ eng' \in Engines /\ snap' \in 1 .. Len(crLog[eng'])
                  /\ crLog[eng'][snap'].live

(* New requests are those of the pass.                                     *)
Asks == late' \subseteq late \/ (pc = "step" /\ late' = late \cup {Call})

LEMMA OriginStays ==
    ASSUME IInv, Origin, Shape, Follows, Asks
    PROVE  Origin'
<1> USE DEF IInv, OwnerInv
<1>1. ASSUME InPass'
      PROVE  Resource.live'
  <2>1. /\ eng' \in Engines /\ snap' \in 1 .. Len(crLog[eng'])
        /\ crLog[eng'][snap'].live
    <3>1. CASE InPass /\ eng' = eng /\ snap' = snap
      BY <3>1, StepFacts DEF Origin, Resource
    <3> QED
      BY <1>1, <3>1 DEF Follows
  <2> QED
    BY <2>1, VersionStays DEF Resource
<1>2. ASSUME NEW q \in late' PROVE Genuine(q)'
  <2>1. q \in Request /\ Genuine(q)
    <3>1. CASE q \in late
      BY <3>1 DEF TypeOK, Origin
    <3>2. CASE pc = "step" /\ q = Call
      BY <3>2, CallFacts, CallGenuine
    <3> QED
      BY <3>1, <3>2 DEF Asks
  <2> QED
    BY <2>1, GenuineStays
<1> QED
  BY <1>1, <1>2 DEF Origin

LEMMA NextFollows ==
    ASSUME IInv, Next
    PROVE  Follows /\ Asks
<1> USE DEF IInv, OwnerInv
<1>1. ASSUME UNCHANGED workerVars PROVE Follows
  BY <1>1 DEF workerVars, Follows, InPass
<1>2. ASSUME NEW where \in {"down", "idle"}, Leave(where) PROVE Follows
  BY <1>2 DEF Leave, Follows, InPass
<1>3. ASSUME pc = "step", Proceed \/ Fail PROVE Follows
  <2>1. CASE Requeue
    BY <1>2, <2>1 DEF Requeue
  <2>2. CASE Proceed \/ Goto("final", at)
    BY <1>3, <2>2 DEF Proceed, Goto, Follows, InPass
  <2> QED
    BY <1>3, <2>1, <2>2 DEF Fail
<1>4. ASSUME UNCHANGED lateVars PROVE Asks
  BY <1>4 DEF lateVars, Asks
<1>5. ASSUME NEW c \in Engines, Begin(c) PROVE Follows /\ Asks
  <2>1. CASE UNCHANGED workerVars
    BY <1>1, <1>4, <1>5, <2>1 DEF Begin
  <2>2. CASE Cached(crLog[c], crSeen[c]) /\ eng' = c /\ snap' = crSeen[c]
    <3>1. crSeen[c] \in 1 .. Len(crLog[c]) /\ crLog[c][crSeen[c]].live
      BY <2>2, CachedFacts DEF TypeOK, CacheOK
    <3> QED
      BY <1>4, <1>5, <2>2, <3>1 DEF Begin, Follows
  <2> QED
    BY <1>5, <2>1, <2>2 DEF Begin
<1>6. ASSUME NEW c \in Engines, User(c) \/ ObserveCR(c) \/ Resync(c)
      PROVE  Follows /\ Asks
  BY <1>1, <1>4, <1>6 DEF User, CreateCR, EditCR, DeleteCR, ObserveCR, Resync
<1>7. ASSUME NEW c \in Engines, NEW f \in Finalizers, ReleaseFinalizer(c, f)
      PROVE  Follows /\ Asks
  BY <1>1, <1>4, <1>7 DEF ReleaseFinalizer
<1>8. ASSUME NEW o \in Objects, Observe(o) \/ Collect(o) \/ Disturb(o) \/ Squat(o)
      PROVE  Follows /\ Asks
  BY <1>1, <1>4, <1>8 DEF Observe, Collect, Disturb, Squat
<1>9. ASSUME Pass PROVE Follows /\ Asks
  <2>1. Asks
    BY <1>4, <1>9 DEF Pass, BuildPanics, RefuseTaken, SkipUnchanged, CallSucceeds,
                      CallRefused, Finish, PVFinalizer
  <2>2. CASE RefuseTaken \/ SkipUnchanged \/ CallSucceeds \/ CallRefused
    BY <1>3, <2>1, <2>2 DEF RefuseTaken, SkipUnchanged, CallSucceeds, CallRefused
  <2>3. CASE BuildPanics \/ Finish \/ PVFinalizer
    BY <1>2, <2>1, <2>3 DEF BuildPanics, Finish, PVFinalizer, Requeue
  <2> QED
    BY <1>9, <2>1, <2>2, <2>3 DEF Pass
<1>10. ASSUME Fault PROVE Follows /\ Asks
  <2>1. CASE CallFault
    BY <1>3, <2>1 DEF CallFault, Asks
  <2>2. CASE PVFinalizerFault \/ Crash
    BY <1>2, <2>2 DEF PVFinalizerFault, Crash, Requeue, lateVars, Asks
  <2> QED
    BY <1>10, <2>1, <2>2 DEF Fault
<1>11. ASSUME Start PROVE Follows /\ Asks
  BY <1>4, <1>11 DEF Start, Follows, InPass
<1>12. ASSUME NEW q \in late, LateWrite(q) PROVE Follows /\ Asks
  BY <1>1, <1>12 DEF LateWrite, Asks
<1>13. ASSUME NEW r \in lateCR, LateUpdateCR(r) PROVE Follows /\ Asks
  BY <1>1, <1>13 DEF LateUpdateCR, Asks
<1> QED
  BY <1>5, <1>6, <1>7, <1>8, <1>9, <1>10, <1>11, <1>12, <1>13 DEF Next

LEMMA OriginInvariant == Spec => []Origin
<1>1. Init => Origin
  BY DEF Init, Origin, InPass
<1>2. IInv /\ Origin /\ [Next]_vars => Origin'
  <2>1. ASSUME IInv, Origin, Next PROVE Origin'
    BY <2>1, NextShape, NextFollows, OriginStays DEF IInv, OwnerInv
  <2>2. ASSUME Origin, UNCHANGED vars PROVE Origin'
    BY <2>2 DEF vars, Origin, InPass, Resource, Genuine, Stems, Wanted
  <2> QED
    BY <2>1, <2>2
<1> QED
  BY <1>1, <1>2, Invariance, PTL DEF Spec

-----------------------------------------------------------------------------
(* Every step of the operator is a step of the abstract store, or none.    *)

(* A new version of a resource: another wish, or the same one.             *)
LEMMA ResourceImplements ==
    ASSUME TypeOK, NEW c \in Engines, NEW v \in CRVersion, StoreCR(c, v),
           \/ v.gen = Len(crLog[c]) + 1
           \/ /\ crLog[c] # <<>>
              /\ v.gen = Latest(crLog[c]).gen /\ v.spec = Latest(crLog[c]).spec
              /\ v.uid = Latest(crLog[c]).uid,
           UNCHANGED log
    PROVE  Promise!Next
<1>1. crLog[c] \in Seq(CRVersion) /\ Len(crLog[c]) \in Nat
  BY DEF TypeOK
<1>2. crLog' = [crLog EXCEPT ![c] = Append(crLog[c], v)] /\ crLog'[c] = Append(crLog[c], v)
  BY DEF StoreCR, TypeOK
<1>3. Len(crLog'[c]) = Len(crLog[c]) + 1 /\ Promise!Last(crLog'[c]) = v
  BY <1>1, <1>2, AppendFacts DEF Promise!Last
<1>4. Promise!Grows(c)
  BY <1>2, <1>3 DEF Promise!Grows
<1>5. UNCHANGED Children
  BY ChildrenKept
<1>6. CASE v.gen = Len(crLog[c]) + 1
  BY <1>3, <1>4, <1>5, <1>6 DEF Promise!Declare, Promise!Next
<1>7. CASE /\ crLog[c] # <<>>
           /\ v.gen = Latest(crLog[c]).gen /\ v.spec = Latest(crLog[c]).spec
           /\ v.uid = Latest(crLog[c]).uid
  <2>1. Promise!Last(crLog[c]) = Latest(crLog[c])
    BY DEF Promise!Last, Latest
  <2>2. Promise!Annotate(c)
    BY <1>3, <1>4, <1>5, <1>7, <2>1 DEF Promise!Annotate
  <2> QED
    BY <2>2 DEF Promise!Next
<1> QED
  BY <1>6, <1>7

(* A change of the current version that leaves its specification alone.    *)
LEMMA AnnotationImplements ==
    ASSUME TypeOK, NEW c \in Engines, crLog[c] # <<>>, NEW v \in CRVersion,
           v.gen = Latest(crLog[c]).gen, v.spec = Latest(crLog[c]).spec,
           v.uid = Latest(crLog[c]).uid, StoreCR(c, Settled(v)), UNCHANGED log
    PROVE  Promise!Next
<1>1. /\ Settled(v) \in CRVersion /\ Settled(v).gen = v.gen /\ Settled(v).spec = v.spec
      /\ Settled(v).uid = v.uid
  BY DEF Settled, CRVersion
<1> QED
  BY <1>1, ResourceImplements

LEMMA UserImplements ==
    ASSUME TypeOK, NEW c \in Engines, User(c)
    PROVE  Promise!Next
<1>1. UNCHANGED log
  BY DEF User, CreateCR, EditCR, DeleteCR, childVars
<1>2. Len(crLog[c]) + 1 \in Nat
  BY DEF TypeOK
<1>3. ASSUME NEW s \in Specs, NEW fins \in SUBSET Finalizers, CreateCR(c, s, fins)
      PROVE  Promise!Next
  <2> DEFINE v == [live |-> TRUE, uid |-> Rv(crLog[c]) + 1, gen |-> Rv(crLog[c]) + 1,
                   spec |-> s, fins |-> fins, deleting |-> FALSE]
  <2>1. v \in CRVersion /\ v.gen = Len(crLog[c]) + 1
    BY <1>2 DEF CRVersion, Rv
  <2> QED
    BY <1>1, <1>3, <2>1, ResourceImplements DEF CreateCR
<1>4. ASSUME NEW s \in Specs, EditCR(c, s)
      PROVE  Promise!Next
  <2> DEFINE v == [Latest(crLog[c]) EXCEPT !.spec = s, !.gen = Rv(crLog[c]) + 1]
  <2>1. v \in CRVersion /\ v.gen = Len(crLog[c]) + 1
    BY <1>2, <1>4, LatestCR DEF CRVersion, Rv, EditCR
  <2> QED
    BY <1>1, <1>4, <2>1, ResourceImplements DEF EditCR
<1>5. ASSUME DeleteCR(c) PROVE Promise!Next
  <2> DEFINE v == [Latest(crLog[c]) EXCEPT !.deleting = TRUE]
  <2>1. crLog[c] # <<>> /\ Latest(crLog[c]) \in CRVersion
    BY <1>5, LatestCR DEF DeleteCR, CRLive, Exists
  <2>2. /\ v \in CRVersion
        /\ v.gen = Latest(crLog[c]).gen /\ v.spec = Latest(crLog[c]).spec
        /\ v.uid = Latest(crLog[c]).uid
    BY <2>1 DEF CRVersion
  <2> QED
    BY <1>1, <1>5, <2>1, <2>2, AnnotationImplements DEF DeleteCR
<1> QED
  BY <1>3, <1>4, <1>5 DEF User

(* One finalizer fewer.                                                    *)
LEMMA FinalizerImplements ==
    ASSUME TypeOK, NEW c \in Engines, crLog[c] # <<>>, NEW f,
           StoreCR(c, Settled([Latest(crLog[c]) EXCEPT !.fins = @ \ {f}])), UNCHANGED log
    PROVE  Promise!Next
<1> DEFINE v == [Latest(crLog[c]) EXCEPT !.fins = @ \ {f}]
<1>1. Latest(crLog[c]) \in CRVersion
  BY DEF TypeOK, Latest
<1>2. /\ v \in CRVersion
      /\ v.gen = Latest(crLog[c]).gen /\ v.spec = Latest(crLog[c]).spec
      /\ v.uid = Latest(crLog[c]).uid
  BY <1>1 DEF CRVersion
<1> HIDE DEF v
<1>3. StoreCR(c, Settled(v))
  BY DEF v
<1> QED
  BY <1>2, <1>3, AnnotationImplements

LEMMA UpdateCRImplements ==
    ASSUME TypeOK, NEW c \in Engines, NEW n \in 1 .. Len(crLog[c]), UpdateCR(c, n),
           UNCHANGED log
    PROVE  [Promise!Next]_(Promise!storeVars)
<1>1. crLog[c] # <<>> /\ crLog[c][n] = Latest(crLog[c])
  BY DEF UpdateCR, Rv, Latest, TypeOK
<1>2. CASE UNCHANGED crLog
  BY <1>2, ChildrenKept DEF Promise!storeVars
<1>3. CASE StoreCR(c, WithoutPV(Latest(crLog[c])))
  BY <1>1, <1>3, FinalizerImplements DEF WithoutPV
<1> QED
  BY <1>1, <1>2, <1>3 DEF UpdateCR

(* Other clients of the API server.                                        *)
LEMMA MeddleImplements ==
    ASSUME TypeOK, NEW o \in Objects, NEW v \in Version, StoreChild(o, v), UNCHANGED crLog,
           \/ Live(o) /\ ~ v.live
           \/ ~ Live(o) /\ v.live /\ v.owner = NoEngine /\ v.body.spec = Foreign
           \/ Live(o) /\ v = [Latest(log[o]) EXCEPT !.body.spec = Foreign]
           \/ Live(o) /\ v = Latest(log[o])
    PROVE  [Promise!Next]_(Promise!storeVars)
<1>1. Children' = [Children EXCEPT ![o] = v]
  BY ChildrenGain
<1>2. o \in DOMAIN Children
  BY DEF Children
<1>3. Children'[o] = v
  BY <1>1, <1>2
<1>4. ASSUME \/ Children[o].live /\ ~ v.live
             \/ ~ Children[o].live /\ v.live /\ v.owner = NoEngine /\ v.body.spec = Foreign
             \/ Children[o].live /\ v = [Children[o] EXCEPT !.body.spec = Foreign]
      PROVE  Promise!Next
  <2>1. Promise!Meddle(o)
    BY <1>1, <1>3, <1>4 DEF Promise!Meddle, Promise!Become, Promise!Free
  <2> QED
    BY <2>1 DEF Promise!Next
<1>5. CASE Live(o) /\ v = Latest(log[o])
  <2>1. UNCHANGED Children
    BY <1>1, <1>2, <1>5, ChildrenFacts DEF Children
  <2> QED
    BY <2>1 DEF Promise!storeVars
<1>6. Live(o) => Children[o].live /\ Children[o] = Latest(log[o])
  BY ChildrenFacts DEF Live, Exists
<1>7. ~ Live(o) => ~ Children[o].live
  BY ChildrenFacts
<1> QED
  BY <1>4, <1>5, <1>6, <1>7

LEMMA OthersImplement ==
    ASSUME IInv, NEW o \in Objects, Collect(o) \/ Disturb(o) \/ Squat(o)
    PROVE  [Promise!Next]_(Promise!storeVars)
<1> USE DEF IInv, OwnerInv
<1>1. UNCHANGED crLog
  BY DEF Collect, Disturb, Squat, crVars
<1>2. CASE Squat(o)
  <2>1. PICK b \in ForeignBodies(o) :
          StoreChild(o, [live |-> TRUE, owner |-> NoEngine, uid |-> 0, from |-> 0,
                         body |-> b])
    BY <1>2 DEF Squat
  <2>2. b \in Bodies /\ b.spec = Foreign
    BY ForeignBodyType
  <2> DEFINE v == [live |-> TRUE, owner |-> NoEngine, uid |-> 0, from |-> 0, body |-> b]
  <2>3. v \in Version
    BY <2>2 DEF Version
  <2> QED
    BY <1>1, <1>2, <2>1, <2>2, <2>3, MeddleImplements DEF Squat
<1>3. CASE Collect(o) \/ Disturb(o)
  <2> DEFINE v == Latest(log[o])
             w == [v EXCEPT !.body.spec = Foreign]
  <2>1. Live(o) /\ v \in Version
    BY <1>3, LatestChild DEF Collect, Disturb
  <2>2. Gone(v) \in Version /\ ~ Gone(v).live
    BY <2>1 DEF Gone, Version
  <2>3. w \in Version
    <3>1. w = [v EXCEPT !.body = [v.body EXCEPT !.spec = Foreign]] /\ v.body \in Bodies
      BY <2>1 DEF Version
    <3>2. [v.body EXCEPT !.spec = Foreign] \in Bodies
      BY <3>1, ForeignBody
    <3> QED
      BY <2>1, <3>1, <3>2 DEF Version
  <2>4. StoreChild(o, Gone(v)) \/ StoreChild(o, v) \/ StoreChild(o, w)
    BY <1>3 DEF Collect, Disturb
  <2> QED
    BY <1>1, <2>1, <2>2, <2>3, <2>4, MeddleImplements
<1> QED
  BY <1>2, <1>3

LEMMA InitImplements ==
    ASSUME Init
    PROVE  Promise!Init
BY DEF Init, Promise!Init, Children, Absent

LEMMA NextImplements ==
    ASSUME IInv, Origin, [Next]_vars
    PROVE  [Promise!Next]_(Promise!storeVars)
<1> USE DEF IInv, OwnerInv
<1>1. ASSUME UNCHANGED <<crLog, log>> PROVE UNCHANGED Promise!storeVars
  BY <1>1, ChildrenKept DEF Promise!storeVars
<1>2. ASSUME NEW c \in Engines, User(c) \/ ObserveCR(c) \/ Resync(c) \/ Begin(c)
      PROVE  [Promise!Next]_(Promise!storeVars)
  BY <1>1, <1>2, UserImplements DEF ObserveCR, Resync, Begin, crVars, childVars
<1>3. ASSUME NEW c \in Engines, NEW f \in Finalizers, ReleaseFinalizer(c, f)
      PROVE  [Promise!Next]_(Promise!storeVars)
  <2>1. crLog[c] # <<>> /\ UNCHANGED log
    BY <1>3 DEF ReleaseFinalizer, CRLive, Exists, childVars
  <2> QED
    BY <1>3, <2>1, FinalizerImplements DEF ReleaseFinalizer
<1>4. ASSUME NEW o \in Objects, Observe(o) \/ Collect(o) \/ Disturb(o) \/ Squat(o)
      PROVE  [Promise!Next]_(Promise!storeVars)
  BY <1>1, <1>4, OthersImplement DEF Observe, crVars
<1>5. CASE CallSucceeds
  <2>1. Call \in Request /\ RecentRequest(Call) /\ Genuine(Call)
    BY <1>5, CallFacts, CallRecent, CallGenuine DEF CallSucceeds, Calls
  <2> QED
    BY <1>5, <2>1, StoreImplements DEF CallSucceeds, crVars
<1>6. CASE PVFinalizer
  <2>1. eng \in Engines /\ snap \in 1 .. Len(crLog[eng])
    BY <1>6, StepFacts DEF PVFinalizer, InPass
  <2>2. UNCHANGED log
    BY <1>6 DEF PVFinalizer, childVars
  <2> QED
    BY <1>1, <1>6, <2>1, <2>2, UpdateCRImplements DEF PVFinalizer
<1>7. CASE BuildPanics \/ RefuseTaken \/ SkipUnchanged \/ CallRefused \/ Finish \/ Fault \/ Start
  BY <1>1, <1>7 DEF BuildPanics, RefuseTaken, SkipUnchanged, CallRefused, Finish, Fault,
                    CallFault, PVFinalizerFault, Crash, Start, crVars, childVars
<1>8. ASSUME NEW q \in late, LateWrite(q)
      PROVE  [Promise!Next]_(Promise!storeVars)
  <2>1. q \in Request /\ RecentRequest(q) /\ Genuine(q) /\ UNCHANGED crLog
    BY <1>8 DEF TypeOK, LateOK, RecentRequest, Origin, LateWrite, crVars
  <2> QED
    BY <1>1, <1>8, <2>1, StoreImplements DEF LateWrite
<1>9. ASSUME NEW r \in lateCR, LateUpdateCR(r)
      PROVE  [Promise!Next]_(Promise!storeVars)
  <2>1. r.eng \in Engines /\ r.base \in 1 .. Len(crLog[r.eng]) /\ UNCHANGED log
    BY <1>9 DEF TypeOK, LateOwners, LateUpdateCR, childVars
  <2> QED
    BY <1>1, <1>9, <2>1, UpdateCRImplements DEF LateUpdateCR
<1>10. CASE UNCHANGED vars
  BY <1>1, <1>10 DEF vars
<1> QED
  BY <1>2, <1>3, <1>4, <1>5, <1>6, <1>7, <1>8, <1>9, <1>10 DEF Next, Pass

(***************************************************************************)
(* The operator implements the abstract store: each version of a child     *)
(* that it stores, now or late, follows one live wish of one engine, in    *)
(* the order of the wishes, and respects owners and immutable fields.      *)
(***************************************************************************)
THEOREM Implementation == Spec => ImplementsStore
<1>1. Init => Promise!Init
  BY InitImplements
<1>2. IInv /\ Origin /\ [Next]_vars => [Promise!Next]_(Promise!storeVars)
  BY NextImplements
<1> QED
  BY <1>1, <1>2, Invariance, OriginInvariant, PTL DEF Spec, ImplementsStore, Promise!Spec
=============================================================================
