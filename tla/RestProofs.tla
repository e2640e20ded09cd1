------------------------------ MODULE RestProofs ------------------------------
(***************************************************************************)
(* Proofs about module Reconciler when the operator rests: what it has in  *)
(* place then, for every set of engines, objects and specifications, every *)
(* plan and every bound.                                                   *)
(* The argument is about what is owed, RestInv of module Reconciler: an    *)
(* object that is not in place still has a pass coming that begins with    *)
(* the latest specification, or one under way that has not reached it.     *)
(***************************************************************************)
EXTENDS ReconcilerProofs

-----------------------------------------------------------------------------
(* What a step keeps.                                                      *)

LEMMA Growth ==
    ASSUME OwnerInv, Shape
    PROVE  /\ \A c \in Engines :
                 /\ Len(crLog[c]) \in Nat /\ Len(crLog'[c]) \in Nat
                 /\ crSeen[c] \in Nat /\ crSeen'[c] \in Nat
                 /\ crSeen[c] <= crSeen'[c] /\ crSeen'[c] <= Len(crLog[c])
                 /\ Extends(crLog[c], crLog'[c])
                 /\ Len(crLog'[c]) <= Len(crLog[c]) => crLog'[c] = crLog[c]
           /\ \A o \in Objects :
                 /\ Len(log[o]) \in Nat /\ Len(log'[o]) \in Nat
                 /\ seen[o] \in Nat /\ seen'[o] \in Nat /\ seen[o] <= Len(log[o])
                 /\ Extends(log[o], log'[o])
                 /\ Len(log'[o]) <= Len(log[o]) => log'[o] = log[o]
<1>1. /\ crLog \in [Engines -> Seq(CRVersion)] /\ log \in [Objects -> Seq(Version)]
      /\ crLog' \in [Engines -> Seq(CRVersion)] /\ log' \in [Objects -> Seq(Version)]
      /\ \A c \in Engines : Extends(crLog[c], crLog'[c])
      /\ \A o \in Objects : Extends(log[o], log'[o])
  BY LogsGrow DEF OwnerInv, Shape, TypeOK
<1>2. ASSUME NEW c \in Engines
      PROVE  /\ crSeen[c] \in Nat /\ crSeen'[c] \in Nat
             /\ crSeen[c] <= crSeen'[c] /\ crSeen'[c] <= Len(crLog[c])
  BY DEF OwnerInv, TypeOK, Shape, CacheStep
<1>3. ASSUME NEW o \in Objects
      PROVE  seen[o] \in Nat /\ seen'[o] \in Nat /\ seen[o] <= Len(log[o])
  BY DEF OwnerInv, TypeOK, CacheOK, Shape, CacheStep
<1>4. ASSUME NEW c \in Engines, Len(crLog'[c]) <= Len(crLog[c])
      PROVE  crLog'[c] = crLog[c]
  <2>1. CASE crLog' = crLog
    BY <2>1
  <2>2. ASSUME NEW d \in Engines, NEW v \in CRVersion, StoreCR(d, v)
        PROVE  crLog'[c] = crLog[c]
    <3>1. crLog' = [crLog EXCEPT ![d] = Append(crLog[d], v)]
      BY <2>2 DEF StoreCR
    <3>2. Len(Append(crLog[d], v)) = Len(crLog[d]) + 1 /\ Len(crLog[d]) \in Nat
      BY <1>1, AppendFacts
    <3> QED
      BY <1>1, <1>4, <3>1, <3>2
  <2> QED
    BY <2>1, <2>2 DEF Shape, CRStep
<1>5. ASSUME NEW o \in Objects, Len(log'[o]) <= Len(log[o])
      PROVE  log'[o] = log[o]
  <2>1. CASE log' = log
    BY <2>1
  <2>2. ASSUME NEW p \in Objects, NEW v \in Version, StoreChild(p, v)
        PROVE  log'[o] = log[o]
    <3>1. log' = [log EXCEPT ![p] = Append(log[p], v)]
      BY <2>2 DEF StoreChild
    <3>2. Len(Append(log[p], v)) = Len(log[p]) + 1 /\ Len(log[p]) \in Nat
      BY <1>1, AppendFacts
    <3> QED
      BY <1>1, <1>5, <3>1, <3>2
  <2> QED
    BY <2>1, <2>2 DEF Shape, ChildStep
<1> QED
  BY <1>1, <1>2, <1>3, <1>4, <1>5

LEMMA PendingKept ==
    ASSUME OwnerInv, Shape, NEW c, NEW o \in Objects, seen'[o] = seen[o], Pending(c, o)
    PROVE  Pending(c, o)'
<1>1. PICK n \in 1 .. Len(log[o]) : n >= seen[o] /\ log[o][n].live /\ log[o][n].owner = c
  BY DEF Pending
<1>2. /\ Len(log[o]) \in Nat /\ Len(log'[o]) \in Nat /\ seen[o] \in Nat
      /\ Len(log[o]) <= Len(log'[o]) /\ log'[o][n] = log[o][n]
  BY <1>1, Growth DEF Extends
<1>3. seen'[o] < Len(log'[o]) /\ n \in 1 .. Len(log'[o]) /\ n >= seen'[o]
  BY <1>1, <1>2 DEF Pending
<1> QED
  BY <1>1, <1>2, <1>3 DEF Pending

(* An object that is no longer in place has left an event.                 *)
LEMMA PlaceKept ==
    ASSUME OwnerInv, Shape, NEW c \in Engines, crLog'[c] = crLog[c],
           NEW st, st.obj \in Objects, InPlace(c, st),
           seen'[st.obj] = seen[st.obj] \/ log'[st.obj] = log[st.obj]
    PROVE  InPlace(c, st)' \/ Pending(c, st.obj)'
<1> DEFINE o == st.obj
<1>1. o \in Objects /\ log[o] # <<>> /\ Latest(log[o]).live /\ Latest(log[o]).owner = c
  BY DEF InPlace, Live, Exists
<1>2. CASE log'[o] = log[o]
  BY <1>2 DEF InPlace, Live, Exists, Latest
<1>3. CASE log'[o] # log[o]
  <2>1. /\ Len(log[o]) \in Nat /\ Len(log'[o]) \in Nat /\ seen[o] \in Nat
        /\ seen[o] <= Len(log[o]) /\ Len(log[o]) < Len(log'[o])
        /\ \A n \in 1 .. Len(log[o]) : log'[o][n] = log[o][n]
    BY <1>3, Growth DEF Extends
  <2>2. Len(log[o]) \in 1 .. Len(log[o])
    <3>1. log[o] \in Seq(Version)
      BY DEF OwnerInv, TypeOK
    <3> QED
      BY <1>1, <3>1
  <2>3. seen'[o] = seen[o]
    BY <1>3
  <2> QED
    BY <1>1, <2>1, <2>2, <2>3 DEF Pending, Latest
<1> QED
  BY <1>2, <1>3

LEMMA PlanFactsOf ==
    ASSUME TypeOK, NEW c \in Engines, CRLive(c)
    PROVE  /\ Latest(crLog[c]).spec \in Specs
           /\ \A st \in PlanSteps(c) :
                 /\ IsStep(st)
                 /\ st.mode = "apply" <=> st.obj \in Watched
                 /\ st.obj \in Objects
<1>1. Latest(crLog[c]) \in CRVersion
  BY LatestCR
<1>2. Latest(crLog[c]).spec \in Specs
  BY <1>1 DEF CRVersion
<1> QED
  BY <1>2, PlanAssumption DEF PlanSteps, IsStep

LeftFalls == \A b \in Budgets : left[b] \in Nat /\ left'[b] \in Nat /\ left'[b] <= left[b]

LEMMA LeftSpent ==
    ASSUME TypeOK, UNCHANGED left \/ \E b \in Budgets : Spend(b)
    PROVE  LeftFalls
<1>1. left \in [Budgets -> Nat]
  BY DEF TypeOK
<1>2. CASE UNCHANGED left
  BY <1>1, <1>2 DEF LeftFalls
<1>3. ASSUME NEW b \in Budgets, Spend(b) PROVE LeftFalls
  <2>1. left[b] > 0 /\ left' = [left EXCEPT ![b] = left[b] - 1]
    BY <1>3 DEF Spend
  <2> QED
    BY <1>1, <2>1 DEF LeftFalls
<1> QED
  BY <1>2, <1>3

LEMMA FailureStays ==
    ASSUME Budgeted, LeftFalls, NothingFailed'
    PROVE  NothingFailed /\ left'.fault = left.fault /\ left'.squat = left.squat
<1>1. "fault" \in Budgets /\ "squat" \in Budgets
  BY DEF Budgets
<1> QED
  BY <1>1, BoundsAssumption DEF Budgeted, LeftFalls, NothingFailed

LEMMA ConcernsKept ==
    ASSUME OwnerInv, Shape, Budgeted, LeftFalls, NEW c \in Engines, CRLive(c),
           crLog'[c] = crLog[c], NEW st, Concerns(c, st)'
    PROVE  Concerns(c, st)
<1>1. PlanSteps(c)' = PlanSteps(c) /\ Latest(crLog'[c]) = Latest(crLog[c])
  BY DEF PlanSteps, Latest
<1>2. ASSUME Unshared(c)' PROVE Unshared(c)
  <2> SUFFICES ASSUME NEW t \in PlanSteps(c), NEW n \in 1 .. Len(log[t.obj])
               PROVE  log[t.obj][n].owner \in {NoEngine, c}
    BY DEF Unshared
  <2>1. t.obj \in Objects
    BY PlanFactsOf DEF OwnerInv
  <2>2. n \in 1 .. Len(log'[t.obj]) /\ log'[t.obj][n] = log[t.obj][n]
    BY <2>1, Growth DEF Extends
  <2> QED
    BY <1>1, <1>2, <2>2 DEF Unshared
<1> QED
  BY <1>1, <1>2, FailureStays DEF Concerns, Sound

(* Whatever a step does, the logs that it leaves grow: what must be shown  *)
(* of an action is what it does with passes that are coming or under way.  *)
LEMMA OwedStep ==
    ASSUME OwnerInv, RestInv, Shape, LeftFalls,
           \A o \in Watched : seen'[o] = seen[o] \/ log'[o] = log[o],
           \A c \in Engines :
              CRLive(c) /\ crLog'[c] = crLog[c] /\ Coming(c) /\ ~ Coming(c)' =>
                 \A st \in PlanSteps(c) : ToDo(c, st)',
           \A c \in Engines :
              CRLive(c) /\ crLog'[c] = crLog[c] /\ ~ Coming(c) /\ ~ Coming(c)' =>
                 \A st \in PlanSteps(c) :
                    Concerns(c, st) /\ Concerns(c, st)' /\ ToDo(c, st) =>
                       InPlace(c, st)' \/ ToDo(c, st)'
    PROVE  Owed'
<1> SUFFICES ASSUME NEW c \in Engines, CRLive(c)', ~ Coming(c)',
                    NEW st \in PlanSteps(c)', Concerns(c, st)'
             PROVE  InPlace(c, st)' \/ ToDo(c, st)'
  BY DEF Owed
<1>1. crLog'[c] = crLog[c]
  <2>1. ~ (crSeen'[c] < Len(crLog'[c]))
    BY DEF Coming
  <2> QED
    BY <2>1, Growth
<1>2. CRLive(c) /\ PlanSteps(c)' = PlanSteps(c)
  BY <1>1 DEF CRLive, Exists, PlanSteps, Latest
<1>3. st \in PlanSteps(c) /\ Concerns(c, st)
  BY <1>1, <1>2, ConcernsKept DEF RestInv
<1>4. CASE Coming(c)
  BY <1>1, <1>2, <1>3, <1>4
<1>5. CASE ~ Coming(c)
  <2>1. InPlace(c, st) \/ ToDo(c, st)
    BY <1>2, <1>3, <1>5 DEF RestInv, Owed
  <2>2. CASE ToDo(c, st)
    BY <1>1, <1>2, <1>3, <1>5, <2>2
  <2>3. CASE InPlace(c, st)
    <3>1. st.obj \in Objects /\ st.obj \in Watched
      BY <1>2, <1>3, PlanFactsOf DEF OwnerInv, Concerns
    <3>2. ~ Pending(c, st.obj)'
      BY <3>1 DEF Coming
    <3> QED
      BY <1>1, <2>3, <3>1, <3>2, PlaceKept
  <2> QED
    BY <2>1, <2>2, <2>3
<1> QED
  BY <1>4, <1>5

LEMMA ComingKept ==
    ASSUME OwnerInv, Shape, NEW c \in Engines, crLog'[c] = crLog[c], Coming(c),
           pc = "down" => pc' = "down", queue \subseteq queue', UNCHANGED <<crSeen, seen>>
    PROVE  Coming(c)'
<1>1. ASSUME NEW o \in Watched, Pending(c, o) PROVE Pending(c, o)'
  BY <1>1, PendingKept, NamesAssumption
<1> QED
  BY <1>1 DEF Coming

LEMMA ToDoKept ==
    ASSUME NEW c, NEW st, crLog'[c] = crLog[c], UNCHANGED workerVars, ToDo(c, st)
    PROVE  ToDo(c, st)'
BY DEF ToDo, workerVars, Steps, Resource

-----------------------------------------------------------------------------
(* Every action keeps what is owed.  First those outside the operator.     *)

LEMMA OutsideRest ==
    ASSUME OwnerInv, RestInv, Shape, LeftFalls,
           UNCHANGED <<crSeen, seen, queue, workerVars>>
    PROVE  Fresh' /\ Owed'
<1>1. Fresh'
  BY DEF RestInv, Fresh, InPass, workerVars
<1>2. pc' = pc
  BY DEF workerVars
<1>3. Owed'
  BY <1>2, OwedStep, ComingKept, ToDoKept
<1> QED
  BY <1>1, <1>3

(* The informers.                                                          *)
LEMMA ObserveCRRest ==
    ASSUME OwnerInv, RestInv, Shape, LeftFalls, NEW d \in Engines, ObserveCR(d) \/ Resync(d)
    PROVE  Fresh' /\ Owed'
<1>1. /\ UNCHANGED <<crLog, log, seen, workerVars>> /\ queue' = queue \cup {d}
      /\ \A c \in Engines : c # d => crSeen'[c] = crSeen[c]
  BY DEF ObserveCR, Resync, crVars, childVars, OwnerInv, TypeOK
<1>2. eng' = eng /\ snap' = snap /\ pc' = pc /\ at' = at
  BY <1>1 DEF workerVars
<1>3. Fresh'
  BY <1>1, <1>2 DEF RestInv, Fresh, OwnerInv, PassOK, InPass
<1>4. ASSUME NEW c \in Engines, Coming(c) PROVE Coming(c)'
  <2>1. \A o : Pending(c, o) => Pending(c, o)'
    BY <1>1 DEF Pending
  <2> QED
    BY <1>1, <1>2, <1>4, <2>1 DEF Coming
<1>5. Owed'
  BY <1>1, <1>4, OwedStep, ToDoKept
<1> QED
  BY <1>3, <1>5

LEMMA ObserveRest ==
    ASSUME OwnerInv, RestInv, Shape, LeftFalls, NEW p \in Objects, Observe(p)
    PROVE  Fresh' /\ Owed'
<1>1. /\ UNCHANGED <<crLog, crSeen, log, workerVars>>
      /\ queue' = queue \cup Owner(log[p], seen[p]) \cup Owner(log[p], seen[p] + 1)
      /\ seen' = [seen EXCEPT ![p] = seen[p] + 1]
  BY DEF Observe, crVars
<1>2. eng' = eng /\ snap' = snap /\ pc' = pc /\ at' = at
  BY <1>1 DEF workerVars
<1>3. Fresh'
  BY <1>1, <1>2 DEF RestInv, Fresh, InPass
<1>4. seen[p] \in Nat /\ Len(log[p]) \in Nat /\ seen'[p] = seen[p] + 1
      /\ \A o \in Objects : o # p => seen'[o] = seen[o]
  BY <1>1, Growth DEF OwnerInv, TypeOK
<1>5. ASSUME NEW c \in Engines, Pending(c, p) PROVE c \in queue' \/ Pending(c, p)'
  <2>1. PICK n \in 1 .. Len(log[p]) : n >= seen[p] /\ log[p][n].live /\ log[p][n].owner = c
    BY <1>5 DEF Pending
  <2>2. c # NoEngine /\ n # 0 /\ n \in Nat
    BY <2>1, NamesAssumption
  <2>3. CASE n = seen[p] \/ n = seen[p] + 1
    BY <1>1, <2>1, <2>2, <2>3 DEF Owner, Cached
  <2>4. CASE n > seen[p] + 1
    BY <1>1, <1>4, <2>1, <2>4 DEF Pending
  <2> QED
    BY <1>4, <2>1, <2>2, <2>3, <2>4
<1>6. ASSUME NEW c \in Engines, Coming(c) PROVE Coming(c)'
  <2>1. ASSUME NEW o \in Watched, Pending(c, o) PROVE c \in queue' \/ Pending(c, o)'
    <3>1. o \in Objects
      BY NamesAssumption
    <3>2. CASE o # p
      BY <1>1, <1>4, <2>1, <3>1, <3>2 DEF Pending
    <3> QED
      BY <1>5, <2>1, <3>2
  <2> QED
    BY <1>1, <1>2, <1>6, <2>1 DEF Coming
<1>7. Owed'
  BY <1>1, <1>6, OwedStep, ToDoKept
<1> QED
  BY <1>3, <1>7

(* A pass begins with the latest version that the operator has.            *)
LEMMA BeginRest ==
    ASSUME OwnerInv, RestInv, Shape, LeftFalls, NEW d \in Engines, Begin(d)
    PROVE  Fresh' /\ Owed'
<1>1. UNCHANGED <<crLog, crSeen, log, seen>> /\ pc = "idle" /\ queue' = queue \ {d}
  BY DEF Begin, crVars, childVars
<1>2. ASSUME NEW c \in Engines, Coming(c), c # d PROVE Coming(c)'
  <2>1. \A o : Pending(c, o) => Pending(c, o)'
    BY <1>1 DEF Pending
  <2> QED
    BY <1>1, <1>2, <2>1 DEF Coming
<1>3. \A c, st : ~ ToDo(c, st)
  BY <1>1 DEF ToDo
<1>4. CASE ~ Cached(crLog[d], crSeen[d])
  <2>1. UNCHANGED workerVars
    BY <1>4 DEF Begin
  <2>2. Fresh'
    BY <1>1, <2>1 DEF Fresh, InPass, workerVars
  <2>3. ASSUME CRLive(d) PROVE Coming(d)'
    <3>1. crLog[d] \in Seq(CRVersion)
      BY DEF OwnerInv, TypeOK
    <3>2. Len(crLog[d]) # 0 /\ crLog[d][Len(crLog[d])].live
      BY <2>3, <3>1 DEF CRLive, Exists, Latest
    <3>3. crSeen[d] # Len(crLog[d])
      BY <1>4, <3>2 DEF Cached
    <3>4. crSeen[d] < Len(crLog[d])
      BY <3>3, Growth
    <3> QED
      BY <1>1, <3>4 DEF Coming
  <2> QED
    BY <1>1, <1>2, <1>3, <2>2, <2>3, OwedStep
<1>5. CASE Cached(crLog[d], crSeen[d])
  <2>1. pc' = "step" /\ eng' = d /\ snap' = crSeen[d] /\ at' = 1
    BY <1>5 DEF Begin
  <2>2. Fresh'
    BY <1>1, <2>1 DEF Fresh
  <2>3. ASSUME CRLive(d), ~ Coming(d)', NEW st \in PlanSteps(d) PROVE ToDo(d, st)'
    <3>1. snap' = Len(crLog[d])
      <4>1. ~ (crSeen[d] < Len(crLog[d]))
        BY <1>1, <2>3 DEF Coming
      <4> QED
        BY <2>1, <4>1, Growth
    <3>2. Steps' = Plan[Latest(crLog[d]).spec]
      BY <1>1, <2>1, <3>1 DEF Steps, Resource, Latest
    <3> QED
      BY <1>1, <2>1, <2>3, <3>1, <3>2 DEF ToDo, PlanSteps, StepsOf
  <2> QED
    BY <1>1, <1>2, <1>3, <2>2, <2>3, OwedStep
<1> QED
  BY <1>4, <1>5

(* The process dies, or starts and queues what there is.                   *)
LEMMA CrashRest ==
    ASSUME OwnerInv, RestInv, Shape, Crash \/ BuildPanics
    PROVE  Fresh' /\ Owed'
<1>1. pc' = "down"
  BY DEF Crash, BuildPanics, Leave
<1> QED
  BY <1>1 DEF Fresh, InPass, Owed, Coming

LEMMA StartRest ==
    ASSUME OwnerInv, RestInv, Shape, Start
    PROVE  Fresh' /\ Owed'
<1>1. pc' = "idle" /\ \A c \in Engines : CRLive(c)' => c \in queue'
  BY DEF Start, CRLive, Exists, Latest
<1> QED
  BY <1>1 DEF Fresh, InPass, Owed, Coming

-----------------------------------------------------------------------------
(* A step of a pass.                                                       *)

(* The step is dealt with: it is repeated, or the pass goes on, and if the *)
(* step was st then its object is in place.                                *)
Handles(c, st) == Requeue \/ (Proceed /\ (st = Step => InPlace(c, st)'))

(* What is asked of the step with respect to st.                           *)
Duty(c, st) ==
    /\ c = eng /\ CRLive(c) /\ ~ Coming(c) /\ snap = Len(crLog[c])
    /\ Concerns(c, st) /\ Concerns(c, st)' /\ ToDo(c, st)

LEMMA StepInPlan ==
    ASSUME OwnerInv, pc = "step", snap = Len(crLog[eng]), NEW st, ToDo(eng, st)
    PROVE  /\ eng \in Engines
           /\ Latest(crLog[eng]) = Resource
           /\ Step \in PlanSteps(eng) /\ st \in PlanSteps(eng)
           /\ at \in Nat /\ at <= Len(Steps) /\ Len(Steps) \in Nat
           /\ Resource.spec \in Specs
           /\ IsStep(Step) /\ (Step.mode = "apply" <=> Step.obj \in Watched)
<1>1. /\ eng \in Engines /\ Resource \in CRVersion
      /\ Len(Steps) \in Nat /\ at \in 1 .. Len(Steps)
      /\ IsStep(Step) /\ (Step.mode = "apply" <=> Step.obj \in Watched)
  BY StepFacts DEF OwnerInv, InPass
<1>2. Latest(crLog[eng]) = Resource
  BY DEF Latest, Resource
<1>3. Step \in PlanSteps(eng)
  BY <1>1, <1>2 DEF PlanSteps, StepsOf, Steps, Step
<1>4. st \in PlanSteps(eng)
  BY <1>1, <1>2 DEF ToDo, PlanSteps, StepsOf, Steps
<1> QED
  BY <1>1, <1>2, <1>3, <1>4 DEF CRVersion

LEMMA MovesRest ==
    ASSUME OwnerInv, RestInv, Shape, LeftFalls, pc = "step",
           UNCHANGED <<crLog, crSeen, seen>>, Fail \/ Proceed,
           \A c \in Engines : \A st \in PlanSteps(c) : Duty(c, st) => Handles(c, st)
    PROVE  Fresh' /\ Owed'
<1>1. /\ queue \subseteq queue' /\ eng \in Engines
      /\ Requeue \/ Goto("step", at + 1) \/ Goto("final", at)
  <2>1. eng \in Engines
    BY StepFacts DEF OwnerInv, InPass
  <2> QED
    BY <2>1 DEF Fail, Proceed, Requeue, Goto
<1>2. Fresh'
  BY <1>1 DEF RestInv, Fresh, InPass, Requeue, Leave, Goto
<1>3. \A c \in Engines : Coming(c) => Coming(c)'
  BY <1>1, ComingKept
<1>4. ASSUME NEW c \in Engines, CRLive(c), ~ Coming(c), ~ Coming(c)',
             NEW st \in PlanSteps(c), Concerns(c, st), Concerns(c, st)', ToDo(c, st)
      PROVE  InPlace(c, st)' \/ ToDo(c, st)'
  <2>1. c = eng /\ snap = Len(crLog[c])
    BY <1>4 DEF ToDo
  <2>2. ~ Requeue
    BY <1>4, <2>1 DEF Requeue, Coming
  <2>3. Proceed /\ (st = Step => InPlace(c, st)')
    BY <1>4, <2>1, <2>2 DEF Handles, Duty
  <2>4. PICK i \in at .. Len(Steps) : Steps[i] = st
    BY <1>4 DEF ToDo
  <2>5. at \in Nat /\ Len(Steps) \in Nat
    BY <1>4, <2>1, StepInPlan
  <2>6. CASE i = at
    BY <2>3, <2>4, <2>6 DEF Step
  <2>7. CASE i # at
    <3>1. Goto("step", at + 1) /\ i \in at + 1 .. Len(Steps)
      BY <2>3, <2>4, <2>5, <2>7 DEF Proceed
    <3>2. pc' = "step" /\ at' = at + 1 /\ eng' = eng /\ snap' = snap
      BY <3>1 DEF Goto
    <3>3. Steps' = Steps
      BY <3>2 DEF Steps, Resource
    <3> QED
      BY <2>1, <2>4, <3>1, <3>2, <3>3 DEF ToDo
  <2> QED
    BY <2>6, <2>7
<1>5. Owed'
  BY <1>3, <1>4, OwedStep
<1> QED
  BY <1>2, <1>5

(* An error that is not returned belongs to a step whose error is not, or  *)
(* leaves out steps whose errors are not returned either.                  *)
LEMMA FailHandles ==
    ASSUME OwnerInv, pc = "step", snap = Len(crLog[eng]), Fail,
           NEW st, ToDo(eng, st), st.onErr = "return", NEW c
    PROVE  Handles(c, st)
<1>1. CASE Step.onErr = "return" \/ Step.onErr = "ignore"
  BY <1>1 DEF Fail, Handles
<1>2. CASE Step.onErr = "finish"
  <2>1. PICK i \in at .. Len(Steps) : Steps[i] = st
    BY DEF ToDo
  <2>2. i # at
    BY <1>2, <2>1 DEF Step
  <2>3. /\ Steps = Plan[Resource.spec] /\ Resource.spec \in Specs
        /\ at \in 1 .. Len(Steps) /\ Len(Steps) \in Nat
    BY StepInPlan, StepFacts DEF OwnerInv, InPass, Steps
  <2>4. at < i /\ i \in 1 .. Len(Steps)
    BY <2>1, <2>2, <2>3
  <2>5. Steps[i].onErr = "finish"
    BY <1>2, <2>3, <2>4, FinishAssumption DEF Step
  <2> QED
    BY <2>1, <2>5
<1> QED
  BY <1>1, <1>2 DEF Fail

(* The cache is up to date with an object that the engine had or has.      *)
LEMMA CacheCurrent ==
    ASSUME OwnerInv, NEW c \in Engines, ~ Coming(c), NEW o \in Watched,
           NEW n \in 1 .. Len(log[o]), n >= seen[o], log[o][n].live, log[o][n].owner = c
    PROVE  seen[o] = Len(log[o])
<1>1. o \in Objects
  BY NamesAssumption
<1>2. seen[o] <= Len(log[o]) /\ seen[o] \in Nat /\ log[o] \in Seq(Version)
  BY <1>1 DEF OwnerInv, TypeOK, CacheOK
<1>3. ~ Pending(c, o)
  BY DEF Coming
<1>4. ~ (seen[o] < Len(log[o]))
  BY <1>3 DEF Pending
<1> QED
  BY <1>2, <1>4

LEMMA ImmutsOf ==
    ASSUME NEW o \in Objects
    PROVE  Immuts[o] = {b.immut : b \in Planned(o)}
BY DEF Immuts

(* A pass that has the latest version, for an engine that has been alone   *)
(* with its objects, meets no error.                                       *)
LEMMA NoFailure ==
    ASSUME OwnerInv, RestInv, pc = "step", snap = Len(crLog[eng]), CRLive(eng),
           ~ Coming(eng), FixedParts, Sound(eng), NEW st, ToDo(eng, st)
    PROVE  /\ Step.build = "ok" /\ ~ Taken
           /\ Step.mode = "apply" => Accepts(Call)
<1> DEFINE o == Step.obj
<1>1. /\ eng \in Engines /\ Step \in PlanSteps(eng) /\ o \in Objects
      /\ Step.mode = "apply" <=> o \in Watched
  BY StepInPlan DEF IsStep
<1>2. Step.build = "ok"
  BY <1>1 DEF Sound, WellFormed, PlanSteps
<1>3. \A n \in 1 .. Len(log[o]) : log[o][n].owner \in {NoEngine, eng}
  BY <1>1 DEF Sound, Unshared
<1>4. /\ seen[o] \in Nat /\ seen[o] <= Len(log[o]) /\ log[o] \in Seq(Version)
      /\ Len(log[o]) \in Nat
  BY <1>1 DEF OwnerInv, TypeOK, CacheOK
<1>5. Known => seen[o] \in 1 .. Len(log[o]) /\ log[o][seen[o]].live
  BY <1>4, CachedFacts DEF Known
<1>6. ~ Taken
  BY <1>3, <1>5 DEF Taken, Read
<1>7. ASSUME Step.mode = "apply" PROVE Accepts(Call)
  <2>1. o \in Watched
    BY <1>1, <1>7
  <2>2. \A n \in 1 .. Len(log[o]) : log[o][n].live => log[o][n].owner = eng
    BY <1>3, <2>1 DEF RestInv, Ours, Sound
  <2>3. Call.obj = o /\ Call.ver.body = Step.body
    BY <1>7 DEF Call, Applied
  <2>4. CASE ~ Known
    <3>1. ASSUME Live(o) PROVE FALSE
      <4>1. Len(log[o]) \in 1 .. Len(log[o]) /\ log[o][Len(log[o])].live
        BY <1>4, <3>1, LatestFacts DEF Live, Latest
      <4>2. seen[o] = Len(log[o])
        BY <1>1, <1>4, <2>1, <2>2, <4>1, CacheCurrent
      <4> QED
        BY <1>7, <2>4, <4>1, <4>2 DEF Known, Cached
    <3>2. Call.base = 0
      BY <2>4 DEF Call
    <3> QED
      BY <2>3, <3>1, <3>2 DEF Accepts
  <2>5. CASE Known
    <3>1. seen[o] = Len(log[o])
      BY <1>1, <1>4, <1>5, <2>1, <2>2, <2>5, CacheCurrent
    <3>2. Call.base = Len(log[o]) /\ Len(log[o]) # 0
      BY <1>5, <2>5, <3>1 DEF Call
    <3>3. Live(o)
      BY <1>5, <2>5, <3>1, <3>2 DEF Live, Exists, Latest
    <3>4. Latest(log[o]).body.immut \in Immuts[o]
      BY <1>1, <1>5, <2>5, <3>1 DEF RestInv, Contents, Latest
    <3>5. PICK s \in Specs : \E t \in StepsOf(s) :
                t.obj = o /\ t.body.immut = Latest(log[o]).body.immut
      BY <1>1, <3>4, ImmutsOf DEF Planned
    <3>6. Step \in StepsOf(Resource.spec) /\ Resource.spec \in Specs
      BY <1>1, StepInPlan DEF PlanSteps
    <3>7. Step.body.immut = Latest(log[o]).body.immut
      BY <1>7, <3>5, <3>6 DEF FixedParts
    <3> QED
      BY <2>3, <3>2, <3>3, <3>7 DEF Accepts, Rv
  <2> QED
    BY <2>4, <2>5
<1> QED
  BY <1>2, <1>6, <1>7

(* CreateOrUpdate finds the object as it should be.                        *)
LEMMA SkipHandles ==
    ASSUME OwnerInv, SkipUnchanged, NEW c \in Engines, NEW st \in PlanSteps(c), Duty(c, st)
    PROVE  Handles(c, st)
<1> DEFINE o == Step.obj
<1>1. pc = "step" /\ Unchanged /\ Proceed /\ log' = log /\ crLog' = crLog
  BY DEF SkipUnchanged, childVars, crVars
<1>2. /\ eng = c /\ o \in Objects /\ o \in Watched
      /\ Latest(crLog[c]) = Resource
  BY <1>1, StepInPlan DEF Duty, IsStep, Unchanged, Known
<1>3. /\ log[o] \in Seq(Version) /\ Len(log[o]) \in Nat
      /\ seen[o] \in Nat /\ seen[o] <= Len(log[o])
  BY <1>2 DEF OwnerInv, TypeOK, CacheOK
<1>4. seen[o] \in 1 .. Len(log[o]) /\ log[o][seen[o]].live
  BY <1>1, <1>3, CachedFacts DEF Unchanged, Known
<1>5. /\ log[o][seen[o]].owner = c /\ log[o][seen[o]].uid = Resource.uid
      /\ log[o][seen[o]].body = Step.body
  BY <1>1, <1>2 DEF Unchanged, SameContent, Read, Applied
<1>6. seen[o] = Len(log[o])
  BY <1>2, <1>3, <1>4, <1>5, CacheCurrent DEF Duty
<1>7. log[o] # <<>>
  BY <1>3, <1>4
<1>8. st = Step => InPlace(c, st)'
  BY <1>1, <1>2, <1>4, <1>5, <1>6, <1>7 DEF InPlace, Live, Exists, Latest
<1> QED
  BY <1>1, <1>8 DEF Handles

(* The server stores what the step asks for, or has it already.            *)
LEMMA CallHandles ==
    ASSUME OwnerInv, CallSucceeds, NEW c \in Engines, NEW st \in PlanSteps(c), Duty(c, st)
    PROVE  Handles(c, st)
<1> DEFINE o == Step.obj
<1>1. pc = "step" /\ Proceed /\ Store(Call) /\ crLog' = crLog
  BY DEF CallSucceeds, crVars
<1> SUFFICES ASSUME st = Step PROVE InPlace(c, st)'
  BY <1>1 DEF Handles
<1>2. /\ eng = c /\ o \in Objects /\ Latest(crLog[c]) = Resource
      /\ Step.mode = "apply"
  BY <1>1, StepInPlan DEF Duty, IsStep, Concerns
<1>3. /\ Call.obj = o /\ Call.ver.owner = c /\ Call.ver.uid = Resource.uid
      /\ Call.ver.body = st.body /\ Call.ver.live
  BY <1>2 DEF Call, Applied
<1>4. log \in [Objects -> Seq(Version)] /\ Call.ver \in Version
  BY <1>1, CallFacts DEF OwnerInv, TypeOK, Request
<1>5. CASE Live(o) /\ SameContent(Latest(log[o]), Call.ver)
  <2>1. log' = log
    BY <1>1, <1>3, <1>5 DEF Store
  <2> QED
    BY <1>1, <1>2, <1>3, <1>5, <2>1 DEF InPlace, Live, Exists, Latest, SameContent
<1>6. CASE ~ (Live(o) /\ SameContent(Latest(log[o]), Call.ver))
  <2>1. log' = [log EXCEPT ![o] = Append(log[o], Call.ver)]
    BY <1>1, <1>3, <1>6 DEF Store, StoreChild
  <2>2. log'[o] = Append(log[o], Call.ver)
    BY <1>2, <1>4, <2>1
  <2>3. log[o] \in Seq(Version)
    BY <1>2, <1>4
  <2>4. log'[o] # <<>> /\ Latest(log'[o]) = Call.ver
    BY <1>4, <2>2, <2>3, AppendFacts DEF Latest
  <2> QED
    BY <1>1, <1>2, <1>3, <2>4 DEF InPlace, Live, Exists, Latest
<1> QED
  BY <1>5, <1>6

(* Whatever else happens in a call is an error.                            *)
LEMMA ErrorHandles ==
    ASSUME OwnerInv, RestInv, LeftFalls, RefuseTaken \/ CallRefused \/ CallFault,
           NEW c \in Engines, NEW st \in PlanSteps(c), Duty(c, st)
    PROVE  Handles(c, st)
<1>1. pc = "step" /\ c = eng /\ snap = Len(crLog[c]) /\ ToDo(c, st) /\ st.mode = "apply"
  BY DEF RefuseTaken, CallRefused, CallFault, Duty, Concerns
<1>2. CASE Fail /\ st.onErr = "return"
  BY <1>1, <1>2, FailHandles
<1>3. CASE st.onErr # "return"
  <2>1. FixedParts /\ Sound(c) /\ Sound(c)'
    BY <1>3 DEF Duty, Concerns
  <2>2. Step.build = "ok" /\ ~ Taken /\ (Step.mode = "apply" => Accepts(Call))
    BY <1>1, <2>1, NoFailure DEF Duty
  <2>3. ~ CallFault
    <3>1. left'.fault = left.fault /\ left.fault \in Nat
      BY <2>1, FailureStays DEF Sound, RestInv, LeftFalls, Budgets
    <3>2. ASSUME Spend("fault") PROVE FALSE
      BY <3>1, <3>2 DEF OwnerInv, TypeOK, Spend, Budgets
    <3> QED
      BY <3>2 DEF CallFault
  <2>4. CallRefused /\ Step.mode = "create" /\ Proceed
    <3>1. CallRefused
      BY <2>2, <2>3 DEF RefuseTaken
    <3>2. Step.mode # "apply" /\ Step.mode \in {"create", "apply"}
      BY <1>1, <2>2, <3>1, StepInPlan DEF CallRefused, IsStep
    <3> QED
      BY <2>2, <3>1, <3>2 DEF CallRefused
  <2>5. st # Step
    BY <1>1, <2>4
  <2> QED
    BY <2>4, <2>5 DEF Handles
<1>4. CASE Proceed /\ ~ Fail /\ st.onErr = "return"
  <2>1. Step.mode = "create"
    BY <1>4 DEF CallRefused, RefuseTaken, CallFault
  <2>2. st # Step
    BY <1>1, <2>1
  <2> QED
    BY <1>4, <2>2 DEF Handles
<1>5. Fail \/ Proceed
  BY DEF RefuseTaken, CallRefused, CallFault
<1> QED
  BY <1>2, <1>3, <1>4, <1>5

LEMMA PassRest ==
    ASSUME OwnerInv, RestInv, Shape, LeftFalls,
           RefuseTaken \/ SkipUnchanged \/ CallSucceeds \/ CallRefused \/ CallFault
    PROVE  Fresh' /\ Owed'
<1>1. /\ pc = "step" /\ UNCHANGED <<crLog, crSeen, seen>>
      /\ Fail \/ Proceed
  BY DEF RefuseTaken, SkipUnchanged, CallSucceeds, CallRefused, CallFault, crVars, childVars
<1>2. \A c \in Engines : \A st \in PlanSteps(c) : Duty(c, st) => Handles(c, st)
  BY SkipHandles, CallHandles, ErrorHandles
<1> QED
  BY <1>1, <1>2, MovesRest

(* The end of a pass.                                                      *)
LEMMA EndRest ==
    ASSUME OwnerInv, RestInv, Shape, LeftFalls, Finish \/ PVFinalizer \/ PVFinalizerFault
    PROVE  Fresh' /\ Owed'
<1>1. /\ pc = "final" /\ pc' = "idle" /\ UNCHANGED <<crSeen, seen>>
      /\ queue \subseteq queue'
  BY DEF Finish, PVFinalizer, PVFinalizerFault, Leave, Requeue, crVars, childVars
<1>2. Fresh'
  BY <1>1 DEF Fresh, InPass
<1>3. \A c, st : ~ ToDo(c, st)
  BY <1>1 DEF ToDo
<1>4. Owed'
  BY <1>1, <1>3, ComingKept, OwedStep
<1> QED
  BY <1>2, <1>4

-----------------------------------------------------------------------------
(* What is stored, and what is in flight.                                  *)

GoodChild(o, v) ==
    /\ v.body.immut \in Immuts[o]
    /\ NothingFailed' /\ o \in Watched /\ v.live => v.owner # NoEngine

ContentStep ==
    /\ \/ log' = log
       \/ \E o \in Objects, v \in Version : StoreChild(o, v) /\ GoodChild(o, v)
    /\ \/ late' \subseteq late
       \/ /\ ~ NothingFailed'
          /\ \E q \in Request : late' = late \cup {q} /\ q.ver.body.immut \in Immuts[q.obj]

LEMMA PlanContent ==
    ASSUME OwnerInv, pc = "step"
    PROVE  /\ Call \in Request /\ Call.obj = Step.obj /\ Call.ver.body = Step.body
           /\ Step.body.immut \in Immuts[Step.obj]
           /\ Step.obj \in Watched => Call.ver.owner # NoEngine
<1>1. /\ InPass /\ eng \in Engines /\ Resource \in CRVersion
      /\ Len(Steps) \in Nat /\ at \in 1 .. Len(Steps)
      /\ (Step.mode = "apply" <=> Step.obj \in Watched) /\ Step.obj \in Objects
  BY StepFacts DEF OwnerInv, InPass, IsStep
<1>2. Resource.spec \in Specs /\ Step \in StepsOf(Resource.spec)
  BY <1>1 DEF CRVersion, StepsOf, Steps, Step
<1>3. Step.body \in Planned(Step.obj)
  BY <1>2 DEF Planned
<1>4. Call \in Request
  BY CallFacts DEF OwnerInv
<1>5. Call.obj = Step.obj /\ Call.ver.body = Step.body
  BY DEF Call, Applied, Created
<1>6. Step.mode = "apply" => Call.ver.owner = eng
  BY DEF Call, Applied
<1> QED
  BY <1>1, <1>3, <1>4, <1>5, <1>6, NamesAssumption, ImmutsOf

LEMMA ContentsKept ==
    ASSUME OwnerInv, Contents, Budgeted, Ours, Shape, LeftFalls, ContentStep
    PROVE  Contents' /\ Budgeted' /\ Ours'
<1>1. Budgeted'
  <2>1. "fault" \in Budgets /\ "squat" \in Budgets
    BY DEF Budgets
  <2>2. /\ left'.fault \in Nat /\ left.fault \in Nat /\ left'.fault <= left.fault
        /\ left'.squat \in Nat /\ left.squat \in Nat /\ left'.squat <= left.squat
    BY <2>1 DEF LeftFalls
  <2> QED
    BY <2>2, BoundsAssumption DEF Budgeted
<1>2. ASSUME NEW q \in late' PROVE q.ver.body.immut \in Immuts[q.obj]
  BY <1>2 DEF Contents, ContentStep
<1>3. ASSUME NEW o \in Objects, NEW n \in 1 .. Len(log'[o])
      PROVE  /\ log'[o][n].body.immut \in Immuts[o]
             /\ NothingFailed' /\ o \in Watched /\ log'[o][n].live
                   => log'[o][n].owner # NoEngine
  <2>1. log \in [Objects -> Seq(Version)]
    BY DEF OwnerInv, TypeOK
  <2>2. ASSUME n \in 1 .. Len(log[o]), log'[o][n] = log[o][n]
        PROVE  /\ log'[o][n].body.immut \in Immuts[o]
               /\ NothingFailed' /\ o \in Watched /\ log'[o][n].live
                     => log'[o][n].owner # NoEngine
    BY <2>2, FailureStays DEF Contents, Ours
  <2>3. CASE log' = log
    BY <2>2, <2>3
  <2>4. ASSUME NEW p \in Objects, NEW v \in Version, StoreChild(p, v), GoodChild(p, v)
        PROVE  /\ log'[o][n].body.immut \in Immuts[o]
               /\ NothingFailed' /\ o \in Watched /\ log'[o][n].live
                     => log'[o][n].owner # NoEngine
    <3>1. log'[o] = IF o = p THEN Append(log[o], v) ELSE log[o]
      BY <2>1, <2>4 DEF StoreChild
    <3>2. CASE o # p
      BY <2>2, <3>1, <3>2
    <3>3. CASE o = p
      <4>1. log'[o] = Append(log[o], v) /\ log[o] \in Seq(Version)
        BY <2>1, <3>1, <3>3
      <4>2. /\ Len(log'[o]) = Len(log[o]) + 1 /\ Len(log[o]) \in Nat
            /\ \A m \in 1 .. Len(log[o]) : log'[o][m] = log[o][m]
            /\ log'[o][Len(log[o]) + 1] = v
        BY <4>1, AppendFacts
      <4>3. CASE n \in 1 .. Len(log[o])
        BY <2>2, <4>2, <4>3
      <4>4. CASE n = Len(log[o]) + 1
        BY <2>4, <3>3, <4>2, <4>4 DEF GoodChild
      <4> QED
        BY <4>2, <4>3, <4>4
    <3> QED
      BY <3>2, <3>3
  <2> QED
    BY <2>3, <2>4 DEF ContentStep
<1>4. Contents'
  BY <1>2, <1>3 DEF Contents, Immuts
<1>5. NothingFailed' => late' = {}
  BY FailureStays DEF Ours, ContentStep
<1>6. Ours'
  BY <1>3, <1>5, NamesAssumption DEF Ours
<1> QED
  BY <1>1, <1>4, <1>6

LEMMA Spent ==
    ASSUME TypeOK, Budgeted, Spend("fault") \/ Spend("squat")
    PROVE  ~ NothingFailed'
<1>1. "fault" \in Budgets /\ "squat" \in Budgets
  BY DEF Budgets
<1>2. /\ left.fault \in Nat /\ left.fault <= MaxFault
      /\ left.squat \in Nat /\ left.squat <= MaxSquat
      /\ left \in [Budgets -> Nat]
  BY <1>1 DEF TypeOK, Budgeted
<1>3. CASE Spend("fault")
  <2>1. left'.fault = left.fault - 1
    BY <1>1, <1>2, <1>3 DEF Spend
  <2> QED
    BY <1>2, <2>1, BoundsAssumption DEF NothingFailed
<1>4. CASE Spend("squat")
  <2>1. left'.squat = left.squat - 1
    BY <1>1, <1>2, <1>4 DEF Spend
  <2> QED
    BY <1>2, <2>1, BoundsAssumption DEF NothingFailed
<1> QED
  BY <1>3, <1>4

LEMMA CallContent ==
    ASSUME OwnerInv, Budgeted, CallSucceeds \/ CallFault
    PROVE  ContentStep
<1>1. /\ Call \in Request /\ Call.obj = Step.obj /\ Call.ver.body = Step.body
      /\ Step.body.immut \in Immuts[Step.obj]
      /\ Step.obj \in Watched => Call.ver.owner # NoEngine
  BY PlanContent DEF CallSucceeds, CallFault
<1>2. CASE CallSucceeds
  <2>1. Store(Call) /\ late' = late
    BY <1>2 DEF CallSucceeds, lateVars
  <2>2. Call.obj \in Objects /\ Call.ver \in Version /\ GoodChild(Call.obj, Call.ver)
    BY <1>1 DEF Request, GoodChild
  <2> QED
    BY <2>1, <2>2 DEF Store, ContentStep
<1>3. CASE CallFault
  <2>1. log' = log /\ (late' = late \/ late' = late \cup {Call})
    BY <1>3 DEF CallFault, childVars
  <2>2. ~ NothingFailed'
    BY <1>3, Spent DEF CallFault, OwnerInv
  <2> QED
    BY <1>1, <2>1, <2>2 DEF ContentStep
<1> QED
  BY <1>2, <1>3

LEMMA LateContent ==
    ASSUME OwnerInv, Contents, Budgeted, Ours, LeftFalls, NEW q \in late, LateWrite(q)
    PROVE  ContentStep
<1>1. ~ NothingFailed'
  BY FailureStays DEF Ours
<1>2. q.obj \in Objects /\ q.ver \in Version
  BY DEF OwnerInv, TypeOK, Request
<1>3. GoodChild(q.obj, q.ver)
  BY <1>1 DEF GoodChild, Contents
<1> QED
  BY <1>2, <1>3 DEF LateWrite, Store, ContentStep

LEMMA OthersContent ==
    ASSUME OwnerInv, Contents, Budgeted, Ours, LeftFalls,
           NEW o \in Objects, Collect(o) \/ Disturb(o)
    PROVE  ContentStep
<1> DEFINE v == Latest(log[o])
           w == [v EXCEPT !.body.spec = Foreign]
<1>1. Live(o) /\ late' = late
      /\ (StoreChild(o, Gone(v)) \/ StoreChild(o, v) \/ StoreChild(o, w))
  BY DEF Collect, Disturb, lateVars
<1>2. v \in Version /\ Len(log[o]) \in 1 .. Len(log[o])
  BY <1>1, LatestChild DEF OwnerInv
<1>3. GoodChild(o, v)
  BY <1>2, FailureStays DEF Contents, Ours, GoodChild, Latest
<1>4. Gone(v) \in Version /\ GoodChild(o, Gone(v))
  <2>1. Gone(v) \in Version
    BY <1>1, GoneShape
  <2>2. Gone(v).body = v.body /\ ~ Gone(v).live
    BY <1>2 DEF Gone, Version
  <2> QED
    BY <1>3, <2>1, <2>2 DEF GoodChild
<1>5. w \in Version /\ GoodChild(o, w)
  BY <1>2, <1>3, ForeignChild DEF GoodChild
<1> HIDE DEF v, w
<1> QED
  BY <1>1, <1>2, <1>3, <1>4, <1>5 DEF ContentStep

LEMMA SquatContent ==
    ASSUME OwnerInv, Budgeted, NEW o \in Objects, Squat(o)
    PROVE  ContentStep
<1>1. PICK b \in Bodies : /\ StoreChild(o, Intruder(b)) /\ Intruder(b) \in Version
                         /\ \E p \in Planned(o) : b.immut = p.immut
  BY SquatChild
<1>2. ~ NothingFailed'
  BY Spent DEF Squat, OwnerInv
<1>3. GoodChild(o, Intruder(b))
  BY <1>1, <1>2, ImmutsOf DEF GoodChild, Intruder
<1> QED
  BY <1>1, <1>3 DEF ContentStep, Squat, lateVars

-----------------------------------------------------------------------------
(* The invariant.                                                          *)

LEMMA NextSpends ==
    ASSUME Next
    PROVE  UNCHANGED left \/ \E b \in Budgets : Spend(b)
<1>1. ASSUME NEW c \in Engines, User(c) \/ ObserveCR(c) \/ Resync(c) \/ Begin(c)
      PROVE  UNCHANGED left \/ \E b \in Budgets : Spend(b)
  BY <1>1 DEF User, CreateCR, EditCR, DeleteCR, ObserveCR, Resync, Begin, Budgets
<1>2. ASSUME NEW o \in Objects, Observe(o) \/ Collect(o) \/ Disturb(o) \/ Squat(o)
      PROVE  UNCHANGED left \/ \E b \in Budgets : Spend(b)
  BY <1>2 DEF Observe, Collect, Disturb, Squat, Budgets
<1>3. CASE Pass
  BY <1>3 DEF Pass, BuildPanics, RefuseTaken, SkipUnchanged, CallSucceeds,
              CallRefused, Finish, PVFinalizer
<1>4. CASE Fault
  BY <1>4 DEF Fault, CallFault, PVFinalizerFault, Crash, Budgets
<1>5. CASE Start
  BY <1>5 DEF Start
<1>6. CASE \/ \E c \in Engines, f \in Finalizers : ReleaseFinalizer(c, f)
           \/ \E q \in late : LateWrite(q)
           \/ \E r \in lateCR : LateUpdateCR(r)
  BY <1>6 DEF ReleaseFinalizer, LateWrite, LateUpdateCR
<1> QED
  BY <1>1, <1>2, <1>3, <1>4, <1>5, <1>6 DEF Next

LEMMA RestInit ==
    ASSUME Init
    PROVE  RestInv
<1>1. Fresh /\ Owed
  BY DEF Init, Fresh, InPass, Owed, CRLive, Exists
<1>2. \A o \in Objects : Len(log[o]) = 0
  BY DEF Init
<1>3. late = {}
  BY DEF Init
<1>4. Contents /\ Ours
  BY <1>2, <1>3, NamesAssumption DEF Contents, Ours
<1>5. Budgeted
  BY BoundsAssumption DEF Init, Budgeted
<1> QED
  BY <1>1, <1>4, <1>5 DEF RestInv

LEMMA NextOwed ==
    ASSUME OwnerInv, RestInv, Shape, LeftFalls, Next
    PROVE  Fresh' /\ Owed'
<1>1. ASSUME NEW c \in Engines, User(c) PROVE Fresh' /\ Owed'
  BY <1>1, OutsideRest DEF User, CreateCR, EditCR, DeleteCR, childVars
<1>2. ASSUME NEW c \in Engines, ObserveCR(c) \/ Resync(c) \/ Begin(c)
      PROVE  Fresh' /\ Owed'
  BY <1>2, ObserveCRRest, BeginRest
<1>3. CASE \/ \E c \in Engines, f \in Finalizers : ReleaseFinalizer(c, f)
           \/ \E q \in late : LateWrite(q)
           \/ \E r \in lateCR : LateUpdateCR(r)
  BY <1>3, OutsideRest DEF ReleaseFinalizer, LateWrite, LateUpdateCR, crVars, childVars
<1>4. ASSUME NEW o \in Objects, Observe(o) PROVE Fresh' /\ Owed'
  BY <1>4, ObserveRest
<1>5. ASSUME NEW o \in Objects, Collect(o) \/ Disturb(o) \/ Squat(o)
      PROVE  Fresh' /\ Owed'
  BY <1>5, OutsideRest DEF Collect, Disturb, Squat, crVars
<1>6. CASE Pass
  BY <1>6, CrashRest, PassRest, EndRest DEF Pass
<1>7. CASE Fault
  BY <1>7, CrashRest, PassRest, EndRest DEF Fault
<1>8. CASE Start
  BY <1>8, StartRest
<1> QED
  BY <1>1, <1>2, <1>3, <1>4, <1>5, <1>6, <1>7, <1>8 DEF Next

LEMMA NextContent ==
    ASSUME OwnerInv, Contents, Budgeted, Ours, LeftFalls, Next
    PROVE  ContentStep
<1>1. CASE UNCHANGED <<log, late>>
  BY <1>1 DEF ContentStep
<1>2. ASSUME NEW c \in Engines, User(c) \/ ObserveCR(c) \/ Resync(c) \/ Begin(c)
      PROVE  UNCHANGED <<log, late>>
  BY <1>2 DEF User, CreateCR, EditCR, DeleteCR, ObserveCR, Resync, Begin,
              childVars, lateVars
<1>3. CASE \/ \E c \in Engines, f \in Finalizers : ReleaseFinalizer(c, f)
           \/ \E r \in lateCR : LateUpdateCR(r)
  BY <1>1, <1>3 DEF ReleaseFinalizer, LateUpdateCR, childVars, lateVars
<1>4. ASSUME NEW o \in Objects, Observe(o) PROVE UNCHANGED <<log, late>>
  BY <1>4 DEF Observe, lateVars
<1>5. ASSUME NEW o \in Objects, Collect(o) \/ Disturb(o) \/ Squat(o)
      PROVE  ContentStep
  BY <1>5, OthersContent, SquatContent
<1>6. CASE Pass
  BY <1>1, <1>6, CallContent
     DEF Pass, BuildPanics, RefuseTaken, SkipUnchanged, CallRefused, Finish,
         PVFinalizer, childVars, lateVars
<1>7. CASE Fault
  BY <1>1, <1>7, CallContent
     DEF Fault, PVFinalizerFault, Crash, childVars, lateVars
<1>8. CASE Start
  BY <1>1, <1>8 DEF Start, lateVars
<1>9. CASE \E q \in late : LateWrite(q)
  BY <1>9, LateContent
<1> QED
  BY <1>1, <1>2, <1>3, <1>4, <1>5, <1>6, <1>7, <1>8, <1>9 DEF Next

LEMMA RestStep ==
    ASSUME OwnerInv, RestInv, Next
    PROVE  RestInv'
<1>1. Shape
  BY NextShape
<1>2. LeftFalls
  BY NextSpends, LeftSpent DEF OwnerInv
<1>3. Fresh' /\ Owed'
  BY <1>1, <1>2, NextOwed
<1>4. Contents' /\ Budgeted' /\ Ours'
  BY <1>1, <1>2, NextContent, ContentsKept DEF RestInv
<1> QED
  BY <1>3, <1>4 DEF RestInv

LEMMA RestStutter ==
    ASSUME RestInv, UNCHANGED vars
    PROVE  RestInv'
<1>1. Fresh' /\ Contents' /\ Budgeted' /\ Ours'
  BY DEF vars, RestInv, Fresh, InPass, Contents, Budgeted, Ours, NothingFailed
<1>2. ASSUME NEW c \in Engines
      PROVE  /\ Coming(c)' <=> Coming(c)
             /\ CRLive(c)' <=> CRLive(c)
             /\ PlanSteps(c)' = PlanSteps(c)
  BY DEF vars, Coming, Pending, CRLive, Exists, PlanSteps, Latest
<1>3. ASSUME NEW c \in Engines, NEW st \in PlanSteps(c), Concerns(c, st)'
      PROVE  Concerns(c, st)
  BY <1>3 DEF vars, Concerns, Sound, NothingFailed, Unshared, PlanSteps, Latest
<1>4. ASSUME NEW c \in Engines, NEW st, InPlace(c, st) \/ ToDo(c, st)
      PROVE  InPlace(c, st)' \/ ToDo(c, st)'
  BY <1>4 DEF vars, InPlace, Live, Exists, Latest, ToDo, Steps, Resource
<1>5. Owed'
  BY <1>2, <1>3, <1>4 DEF RestInv, Owed
<1> QED
  BY <1>1, <1>5 DEF RestInv

THEOREM RestInvariance == Spec => [](OwnerInv /\ RestInv)
<1>1. Init => OwnerInv /\ RestInv
  BY InitOwners, RestInit
<1>2. OwnerInv /\ RestInv /\ [Next]_vars => (OwnerInv /\ RestInv)'
  BY NextShape, StutterShape, ShapeInvariant, RestStep, RestStutter
<1> QED
  BY <1>1, <1>2, PTL DEF Spec

LEMMA QuietOwes ==
    ASSUME OwnerInv, RestInv, Quiet, NEW c \in Engines, CRLive(c),
           NEW st \in PlanSteps(c), Concerns(c, st)
    PROVE  InPlace(c, st)
<1>1. ~ Coming(c)
  BY DEF Quiet, Coming, Pending, Rv
<1>2. ~ ToDo(c, st)
  BY DEF Quiet, ToDo
<1> QED
  BY <1>1, <1>2 DEF RestInv, Owed

THEOREM ConvergedSafe == Spec => []RestConverged
<1>1. OwnerInv /\ RestInv => RestConverged
  BY QuietOwes DEF RestConverged, AtRest, Concerns
<1> QED
  BY <1>1, RestInvariance, PTL

THEOREM SoundSafe == FixedParts => (Spec => []RestSound)
<1> SUFFICES ASSUME FixedParts PROVE Spec => []RestSound
  OBVIOUS
<1>1. OwnerInv /\ RestInv => RestSound
  BY QuietOwes DEF RestSound, Concerns, Sound
<1> QED
  BY <1>1, RestInvariance, PTL

=============================================================================
