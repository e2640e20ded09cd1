------------------------------ MODULE Reconciler ------------------------------
(***************************************************************************)
(* The controller loop of the operator: user edits of DataflowEngine       *)
(* resources, the informer caches, the work queue, the single worker that   *)
(* runs Reconcile, the API server that serialises writes, the garbage       *)
(* collector, and the failures between them.                               *)
(*                                                                         *)
(* Every resource is a log of the versions the API server has stored.  The *)
(* length of the log is the resource's resourceVersion, its last element   *)
(* the current state; the operator's cache is an index into the log, which *)
(* the informer advances one watch event at a time.                        *)
(*                                                                         *)
(* What Reconcile writes for a specification is the constant Plan, the     *)
(* sequence of steps that module Manifests computes.  One pass executes the *)
(* steps one API call at a time, so users, the garbage collector, other    *)
(* clients and failures interleave between any two calls.                  *)
(***************************************************************************)
EXTENDS Naturals, Sequences, FiniteSets

CONSTANTS
    Engines,      \* names of DataflowEngine resources, in one namespace
    NoEngine,     \* the owner of an object without controller reference
    Specs,        \* the specifications a user may give
    Objects,      \* the child objects that the plans name
    Watched,      \* the objects of the kinds that SetupWithManager owns
    Plain,        \* the objects the API server adds no defaults to (ConfigMap)
    Plan,         \* the steps of a pass, for each specification
    Finalizers,   \* finalizers a user or another controller may put on
    pvFinalizer,  \* "kubernetes.io/pv-protection"
    Foreign,      \* content that some other client gave to a child
    MaxUser,      \* bound: user actions in a behaviour
    MaxFault,     \* bound: calls that fail although the server is sound
    MaxCrash,     \* bound: crashes of the operator
    MaxChurn,     \* bound: writes of other clients to children
    MaxSquat,     \* bound: names of children that other clients take
    MaxAhead      \* bound: collections of which the operator cannot know

(* The contents that plans give to children, and what others make of them. *)
StepsOf(s) == {Plan[s][i] : i \in 1 .. Len(Plan[s])}

Planned(o) == UNION {{st.body : st \in {t \in StepsOf(s) : t.obj = o}} : s \in Specs}

ForeignBodies(o) == {[b EXCEPT !.spec = Foreign] : b \in Planned(o)}

Bodies == [immut : UNION {{st.body.immut : st \in StepsOf(s)} : s \in Specs},
           spec  : {Foreign} \cup UNION {{st.body.spec : st \in StepsOf(s)} : s \in Specs}]

(* The form of a step; see module Manifests.                               *)
IsStep(st) ==
    /\ st.obj \in Objects
    /\ st.mode \in {"create", "apply"}
    /\ st.onErr \in {"return", "ignore", "finish"}
    /\ st.build \in {"ok", "panic", "reject"}
    /\ st.body \in Bodies

(* Every pass has a step; handlers apply watched objects and only create   *)
(* the volumes and claims, which nobody watches.                           *)
ASSUME PlanAssumption ==
    \A s \in Specs :
        /\ Len(Plan[s]) \in Nat \ {0}
        /\ \A st \in StepsOf(s) :
            /\ IsStep(st)
            /\ (st.mode = "apply") <=> (st.obj \in Watched)

(* Only errors of the last handler finish a pass as a success.             *)
ASSUME FinishAssumption ==
    \A s \in Specs : \A i, j \in 1 .. Len(Plan[s]) :
        i < j /\ Plan[s][i].onErr = "finish" => Plan[s][j].onErr = "finish"

ASSUME NamesAssumption ==
    /\ NoEngine \notin Engines
    /\ pvFinalizer \in Finalizers
    /\ Watched \subseteq Objects
    /\ Plain \subseteq Watched

ASSUME BoundsAssumption ==
    /\ MaxUser \in Nat /\ MaxFault \in Nat
    /\ MaxCrash \in Nat /\ MaxChurn \in Nat /\ MaxSquat \in Nat
    /\ MaxAhead \in Nat

VARIABLES
    crLog,    \* for each engine, the versions of its resource
    crSeen,   \* the version in the operator's cache, 0 for none yet
    log,      \* for each child object, the versions of the object
    seen,     \* the version in the operator's cache, 0 for none yet
    queue,    \* the engines waiting in the work queue
    pc,       \* the worker: "down", "idle", "step" or "final"
    eng,      \* the engine of the current pass, NoEngine between passes
    snap,     \* the version of its resource that the pass has read
    at,       \* the step of the plan that comes next
    late,     \* child writes whose caller gave up and that may still land
    lateCR,   \* finalizer updates whose caller gave up
    left      \* what remains of the bounds

crVars     == <<crLog, crSeen>>
childVars  == <<log, seen>>
workerVars == <<pc, eng, snap, at>>
lateVars   == <<late, lateCR>>
vars == <<crLog, crSeen, log, seen, queue, pc, eng, snap, at, late, lateCR, left>>

-----------------------------------------------------------------------------
(* Versions of resources and children.                                     *)

(***************************************************************************)
(* A version of a resource: uid tells incarnations of one name apart and   *)
(* gen is the version at which a user last wrote the specification.        *)
(***************************************************************************)
CRVersion == [live : BOOLEAN, uid : Nat, gen : Nat, spec : Specs,
              fins : SUBSET Finalizers, deleting : BOOLEAN]

(***************************************************************************)
(* A version of a child: its controller reference (owner and uid) and its  *)
(* content.  "from" is the version of the owner's resource that the writer *)
(* of this content had read; it exists only in the model.                  *)
(***************************************************************************)
Version == [live : BOOLEAN, owner : Engines \cup {NoEngine}, uid : Nat,
            from : Nat, body : Bodies]

(* A write of a child: base is the resourceVersion it carries, 0 in a Create. *)
Request == [obj : Objects, base : Nat, ver : Version]

Rv(l)     == Len(l)
Latest(l) == l[Len(l)]
Exists(l) == l # <<>> /\ Latest(l).live

CRLive(c) == Exists(crLog[c])
Live(o)   == Exists(log[o])

(* The cache holds version n of a log, or nothing.                         *)
Cached(l, n) == n # 0 /\ l[n].live

(* Mutant of Owner: the test for a missing controller reference is left out. *)
OwnerOrNobody(l, n) == IF Cached(l, n) THEN {l[n].owner} ELSE {}

(* Mutant of Owner: SetupWithManager owns no kind of child.                *)
OwnerUnwatched(l, n) == {}

Owner(l, n) == IF Cached(l, n) THEN {l[n].owner} \ {NoEngine} ELSE {}

(* The engine and uid that a child names is gone.                          *)
Dangling(v) ==
    /\ v.owner # NoEngine
    /\ ~ (CRLive(v.owner) /\ Latest(crLog[v.owner]).uid = v.uid)

Budgets == {"user", "fault", "crash", "churn", "squat", "ahead"}

Spend(budget) == left[budget] > 0 /\ left' = [left EXCEPT ![budget] = @ - 1]

Init ==
    /\ crLog = [c \in Engines |-> <<>>]
    /\ crSeen = [c \in Engines |-> 0]
    /\ log = [o \in Objects |-> <<>>]
    /\ seen = [o \in Objects |-> 0]
    /\ queue = {}
    /\ pc = "idle"
    /\ eng = NoEngine
    /\ snap = 0
    /\ at = 0
    /\ late = {}
    /\ lateCR = {}
    /\ left = [user |-> MaxUser, fault |-> MaxFault, crash |-> MaxCrash,
               churn |-> MaxChurn, squat |-> MaxSquat, ahead |-> MaxAhead]

-----------------------------------------------------------------------------
(* The users of DataflowEngine resources, and controllers with a finalizer *)
(* of their own.  A resource that is being deleted goes when its last      *)
(* finalizer goes.                                                         *)

StoreCR(c, v) == crLog' = [crLog EXCEPT ![c] = Append(@, v)]

Settled(v) == [v EXCEPT !.live = ~ (v.deleting /\ v.fins = {})]

CreateCR(c, s, fins) ==
    /\ ~ CRLive(c)
    /\ Spend("user")
    /\ LET n == Rv(crLog[c]) + 1
       IN StoreCR(c, [live |-> TRUE, uid |-> n, gen |-> n, spec |-> s,
                      fins |-> fins, deleting |-> FALSE])
    /\ UNCHANGED <<crSeen, childVars, queue, workerVars, lateVars>>

EditCR(c, s) ==
    /\ CRLive(c)
    /\ s # Latest(crLog[c]).spec
    /\ Spend("user")
    /\ StoreCR(c, [Latest(crLog[c]) EXCEPT !.spec = s, !.gen = Rv(crLog[c]) + 1])
    /\ UNCHANGED <<crSeen, childVars, queue, workerVars, lateVars>>

DeleteCR(c) ==
    /\ CRLive(c)
    /\ ~ Latest(crLog[c]).deleting
    /\ Spend("user")
    /\ StoreCR(c, Settled([Latest(crLog[c]) EXCEPT !.deleting = TRUE]))
    /\ UNCHANGED <<crSeen, childVars, queue, workerVars, lateVars>>

ReleaseFinalizer(c, f) ==
    /\ CRLive(c)
    /\ f \in Latest(crLog[c]).fins \ {pvFinalizer}
    /\ StoreCR(c, Settled([Latest(crLog[c]) EXCEPT !.fins = @ \ {f}]))
    /\ UNCHANGED <<crSeen, childVars, queue, workerVars, lateVars, left>>

-----------------------------------------------------------------------------
(* The informers.  Each event moves a cache to the next version and queues *)
(* the engine, or the owners that the object had before and has now.       *)

ObserveCR(c) ==
    /\ pc # "down"
    /\ crSeen[c] < Rv(crLog[c])
    /\ crSeen' = [crSeen EXCEPT ![c] = @ + 1]
    /\ queue' = queue \cup {c}
    /\ UNCHANGED <<crLog, childVars, workerVars, lateVars, left>>

(* Mutant of Observe: only the owner that the object has now is queued.    *)
ObserveNewOwner(o) ==
    /\ pc # "down"
    /\ o \in Watched
    /\ seen[o] < Rv(log[o])
    /\ seen' = [seen EXCEPT ![o] = @ + 1]
    /\ queue' = queue \cup Owner(log[o], seen[o] + 1)
    /\ UNCHANGED <<crVars, log, workerVars, lateVars, left>>

Observe(o) ==
    /\ pc # "down"
    /\ o \in Watched
    /\ seen[o] < Rv(log[o])
    /\ seen' = [seen EXCEPT ![o] = @ + 1]
    /\ queue' = queue \cup Owner(log[o], seen[o]) \cup Owner(log[o], seen[o] + 1)
    /\ UNCHANGED <<crVars, log, workerVars, lateVars, left>>

(* The periodic resync of the informers queues what the cache holds.       *)
Resync(c) ==
    /\ pc # "down"
    /\ Cached(crLog[c], crSeen[c])
    /\ c \notin queue
    /\ queue' = queue \cup {c}
    /\ UNCHANGED <<crVars, childVars, workerVars, lateVars, left>>

-----------------------------------------------------------------------------
(* One pass of Reconcile.                                                  *)

Resource == crLog[eng][snap]
Steps    == Plan[Resource.spec]
Step     == Steps[at]

(* Mutant of Begin: the resource is read from a cache that may run back.    *)
BeginAnyVersion(c) ==
    /\ pc = "idle"
    /\ c \in queue
    /\ queue' = queue \ {c}
    /\ \E n \in 1 .. crSeen[c] :
        /\ crLog[c][n].live
        /\ pc' = "step" /\ eng' = c /\ snap' = n /\ at' = 1
    /\ UNCHANGED <<crVars, childVars, lateVars, left>>

(* Get of the resource, from the cache; nothing is done when it is gone.   *)
Begin(c) ==
    /\ pc = "idle"
    /\ c \in queue
    /\ queue' = queue \ {c}
    /\ \/ /\ ~ Cached(crLog[c], crSeen[c])
          /\ UNCHANGED workerVars
       \/ /\ Cached(crLog[c], crSeen[c])
          /\ pc' = "step"
          /\ eng' = c
          /\ snap' = crSeen[c]
          /\ at' = 1
    /\ UNCHANGED <<crVars, childVars, lateVars, left>>

Leave(where) == pc' = where /\ eng' = NoEngine /\ snap' = 0 /\ at' = 0

Goto(where, n) == pc' = where /\ at' = n /\ UNCHANGED <<eng, snap, queue>>

Proceed == IF at < Len(Steps) THEN Goto("step", at + 1) ELSE Goto("final", at)

(* Mutant of Requeue: Reconcile returns nil after an error.                *)
RequeueForgets == Leave("idle") /\ UNCHANGED queue

(* Mutant of Requeue: a retry in place, with the resource read before.     *)
RequeueInPlace == Goto("step", at)

(* Reconcile returns the error, and the engine is queued again.            *)
Requeue == Leave("idle") /\ queue' = queue \cup {eng}

Fail ==
    \/ Step.onErr = "return" /\ Requeue
    \/ Step.onErr = "ignore" /\ Proceed
    \/ Step.onErr = "finish" /\ Goto("final", at)

(***************************************************************************)
(* What the pass knows of the object: CreateOrUpdate reads it from the     *)
(* cache, Create does not read at all.                                     *)
(***************************************************************************)
Known   == Step.mode = "apply" /\ Cached(log[Step.obj], seen[Step.obj])
Read    == log[Step.obj][seen[Step.obj]]
Applied == [live |-> TRUE, owner |-> eng, uid |-> Resource.uid, from |-> snap,
            body |-> Step.body]
Created == [live |-> TRUE, owner |-> NoEngine, uid |-> 0, from |-> 0,
            body |-> Step.body]

Call == [obj  |-> Step.obj,
         base |-> IF Known THEN seen[Step.obj] ELSE 0,
         ver  |-> IF Step.mode = "apply" THEN Applied ELSE Created]

SameContent(v, w) == v.owner = w.owner /\ v.uid = w.uid /\ v.body = w.body

(* Mutant of Taken: the controller reference is overwritten.               *)
TakenNever == FALSE

(* SetControllerReference refuses an object of another engine.             *)
Taken == Known /\ Read.owner \notin {NoEngine, eng}

(* CreateOrUpdate makes no call for an object that is as it should be.     *)
Unchanged == Known /\ Step.obj \in Plain /\ SameContent(Read, Applied)

Calls == Step.build # "panic" /\ ~ Taken /\ ~ Unchanged

(***************************************************************************)
(* The API server: a Create needs the name to be free, an Update the       *)
(* resourceVersion to be current and the immutable fields to stay.  An     *)
(* Update that changes nothing stores no new version.                      *)
(***************************************************************************)
Accepts(q) ==
    IF q.base = 0
    THEN ~ Live(q.obj)
    ELSE /\ Live(q.obj)
         /\ q.base = Rv(log[q.obj])
         /\ q.ver.body.immut = Latest(log[q.obj]).body.immut

StoreChild(o, v) == log' = [log EXCEPT ![o] = Append(@, v)]

Store(q) ==
    IF Live(q.obj) /\ SameContent(Latest(log[q.obj]), q.ver)
    THEN UNCHANGED log
    ELSE StoreChild(q.obj, q.ver)

(* Building the object dereferences a missing field: the process dies.     *)
BuildPanics ==
    /\ pc = "step"
    /\ Step.build = "panic"
    /\ Leave("down")
    /\ queue' = {}
    /\ UNCHANGED <<crVars, childVars, lateVars, left>>

RefuseTaken ==
    /\ pc = "step"
    /\ Step.build # "panic" /\ Taken
    /\ Fail
    /\ UNCHANGED <<crVars, childVars, lateVars, left>>

SkipUnchanged ==
    /\ pc = "step"
    /\ Step.build # "panic" /\ Unchanged
    /\ Proceed
    /\ UNCHANGED <<crVars, childVars, lateVars, left>>

CallSucceeds ==
    /\ pc = "step"
    /\ Calls /\ Step.build = "ok" /\ Accepts(Call)
    /\ Store(Call)
    /\ Proceed
    /\ UNCHANGED <<crVars, seen, lateVars, left>>

(* Create tolerates AlreadyExists; every other refusal is an error.        *)
CallRefused ==
    /\ pc = "step"
    /\ Calls /\ (Step.build = "reject" \/ ~ Accepts(Call))
    /\ IF Step.mode = "create" /\ Step.build = "ok" THEN Proceed ELSE Fail
    /\ UNCHANGED <<crVars, childVars, lateVars, left>>

(* The call fails on its way: the request is lost, or it lands later.      *)
CallFault ==
    /\ pc = "step"
    /\ Calls
    /\ Spend("fault")
    /\ Fail
    /\ \/ UNCHANGED late
       \/ Step.build = "ok" /\ late' = late \cup {Call}
    /\ UNCHANGED <<crVars, childVars, lateCR>>

-----------------------------------------------------------------------------
(* The end of a pass.  PVFinalizer updates the whole resource with the     *)
(* version that the pass had read, one finalizer fewer.                    *)

Finish ==
    /\ pc = "final"
    /\ ~ Resource.deleting
    /\ Leave("idle")
    /\ UNCHANGED <<crVars, childVars, queue, lateVars, left>>

(* Mutant of WithoutPV: removeString returns its argument.                 *)
WithoutPVKept(v) == Settled(v)

WithoutPV(v) == Settled([v EXCEPT !.fins = @ \ {pvFinalizer}])

(* Mutant of UpdateCR: the update carries no resourceVersion.              *)
UpdateCRUnversioned(c, n) == CRLive(c) /\ StoreCR(c, WithoutPV(crLog[c][n]))

(* The API server's part of the update of version n of engine c.           *)
UpdateCR(c, n) ==
    /\ n = Rv(crLog[c])
    /\ IF WithoutPV(crLog[c][n]) = crLog[c][n]
       THEN UNCHANGED crLog
       ELSE StoreCR(c, WithoutPV(crLog[c][n]))

PVFinalizer ==
    /\ pc = "final"
    /\ Resource.deleting
    /\ \/ /\ UpdateCR(eng, snap)
          /\ Leave("idle")
          /\ UNCHANGED queue
       \/ /\ snap # Rv(crLog[eng])
          /\ Requeue
          /\ UNCHANGED crLog
    /\ UNCHANGED <<crSeen, childVars, lateVars, left>>

PVFinalizerFault ==
    /\ pc = "final"
    /\ Resource.deleting
    /\ Spend("fault")
    /\ Requeue
    /\ \/ UNCHANGED lateCR
       \/ lateCR' = lateCR \cup {[eng |-> eng, base |-> snap]}
    /\ UNCHANGED <<crVars, childVars, late>>

-----------------------------------------------------------------------------
(* Requests that land after their caller has given up on them.             *)

LateWrite(q) ==
    /\ late' = late \ {q}
    /\ IF Accepts(q) THEN Store(q) ELSE UNCHANGED log
    /\ UNCHANGED <<crVars, seen, queue, workerVars, lateCR, left>>

LateUpdateCR(r) ==
    /\ lateCR' = lateCR \ {r}
    /\ UpdateCR(r.eng, r.base) \/ (r.base # Rv(crLog[r.eng]) /\ UNCHANGED crLog)
    /\ UNCHANGED <<crSeen, childVars, queue, workerVars, late, left>>

-----------------------------------------------------------------------------
(* The operator's process.  A restart lists everything again and queues    *)
(* what the lists contain.                                                 *)

Crash ==
    /\ pc # "down"
    /\ Spend("crash")
    /\ Leave("down")
    /\ queue' = {}
    /\ UNCHANGED <<crVars, childVars, lateVars>>

(* Mutant of Start: what the first lists contain is not queued.            *)
StartSilent ==
    /\ pc = "down"
    /\ pc' = "idle"
    /\ crSeen' = [c \in Engines |-> Rv(crLog[c])]
    /\ seen' = [o \in Objects |-> IF o \in Watched THEN Rv(log[o]) ELSE 0]
    /\ queue' = {}
    /\ UNCHANGED <<crLog, log, eng, snap, at, lateVars, left>>

Start ==
    /\ pc = "down"
    /\ pc' = "idle"
    /\ crSeen' = [c \in Engines |-> Rv(crLog[c])]
    /\ seen' = [o \in Objects |-> IF o \in Watched THEN Rv(log[o]) ELSE 0]
    /\ queue' = {c \in Engines : CRLive(c)}
                \cup UNION {Owner(log[o], Rv(log[o])) : o \in Watched}
    /\ UNCHANGED <<crLog, log, eng, snap, at, lateVars, left>>

-----------------------------------------------------------------------------
(* Other clients of the API server.                                        *)

Gone(v) == [v EXCEPT !.live = FALSE, !.owner = NoEngine, !.uid = 0, !.from = 0]

(***************************************************************************)
(* The garbage collector deletes the children of resources that are gone.  *)
(* While the operator does not know of the deletion it writes them again,  *)
(* as often as they are collected; MaxAhead bounds how often that happens. *)
(***************************************************************************)
Knows(c) == crSeen[c] = Rv(crLog[c]) /\ eng # c

Collect(o) ==
    /\ Live(o)
    /\ Dangling(Latest(log[o]))
    /\ \/ Knows(Latest(log[o]).owner) /\ UNCHANGED left
       \/ ~ Knows(Latest(log[o]).owner) /\ Spend("ahead")
    /\ StoreChild(o, Gone(Latest(log[o])))
    /\ UNCHANGED <<crVars, seen, queue, workerVars, lateVars>>

(* Another client deletes a child, writes its status or its content.       *)
Disturb(o) ==
    /\ Spend("churn")
    /\ \/ Live(o) /\ StoreChild(o, Gone(Latest(log[o])))
       \/ Live(o) /\ StoreChild(o, Latest(log[o]))
       \/ Live(o) /\ StoreChild(o, [Latest(log[o]) EXCEPT !.body.spec = Foreign])
    /\ UNCHANGED <<crVars, seen, queue, workerVars, lateVars>>

(* Another client creates an object under the name of a child.             *)
Squat(o) ==
    /\ ~ Live(o)
    /\ Spend("squat")
    /\ \E b \in ForeignBodies(o) :
        StoreChild(o, [live |-> TRUE, owner |-> NoEngine, uid |-> 0, from |-> 0,
                       body |-> b])
    /\ UNCHANGED <<crVars, seen, queue, workerVars, lateVars>>

-----------------------------------------------------------------------------
User(c) ==
    \/ \E s \in Specs, fins \in SUBSET Finalizers : CreateCR(c, s, fins)
    \/ \E s \in Specs : EditCR(c, s)
    \/ DeleteCR(c)

Pass ==
    \/ BuildPanics \/ RefuseTaken \/ SkipUnchanged \/ CallSucceeds \/ CallRefused
    \/ Finish \/ PVFinalizer

Fault == CallFault \/ PVFinalizerFault \/ Crash

Next ==
    \/ \E c \in Engines : User(c) \/ ObserveCR(c) \/ Resync(c) \/ Begin(c)
    \/ \E c \in Engines, f \in Finalizers : ReleaseFinalizer(c, f)
    \/ \E o \in Objects : Observe(o) \/ Collect(o) \/ Disturb(o) \/ Squat(o)
    \/ Pass \/ Fault \/ Start
    \/ \E q \in late : LateWrite(q)
    \/ \E r \in lateCR : LateUpdateCR(r)

Spec == Init /\ [][Next]_vars

(***************************************************************************)
(* The controller runtime and the cluster keep going: the worker finishes  *)
(* what it has begun, watch events arrive, the work queue is a FIFO and so *)
(* takes up every engine that stays in it, the kubelet restarts a dead     *)
(* operator, the garbage collector runs, and the other controllers release *)
(* their finalizers.  Nothing is assumed of users, failures and late calls. *)
(***************************************************************************)
Fairness ==
    /\ WF_vars(Pass)
    /\ WF_vars(Start)
    /\ \A c \in Engines :
        /\ WF_vars(ObserveCR(c))
        /\ SF_vars(Begin(c))
        /\ \A f \in Finalizers : WF_vars(ReleaseFinalizer(c, f))
    /\ \A o \in Objects : WF_vars(Observe(o)) /\ WF_vars(Collect(o))

FairSpec == Spec /\ Fairness

-----------------------------------------------------------------------------
(* Properties.                                                             *)

(* Every variable has its type.                                            *)
TypeOK ==
    /\ crLog \in [Engines -> Seq(CRVersion)]
    /\ crSeen \in [Engines -> Nat]
    /\ log \in [Objects -> Seq(Version)]
    /\ seen \in [Objects -> Nat]
    /\ queue \subseteq Engines
    /\ pc \in {"down", "idle", "step", "final"}
    /\ eng \in Engines \cup {NoEngine}
    /\ snap \in Nat
    /\ at \in Nat
    /\ late \subseteq Request
    /\ lateCR \subseteq [eng : Engines, base : Nat]
    /\ left \in [Budgets -> Nat]

(***************************************************************************)
(* The pairs of neighbours in a history: two stored states of one object,  *)
(* one directly after the other.                                           *)
(***************************************************************************)
Successive(l) == {n \in 1 .. Len(l) : n > 1 /\ l[n - 1].live /\ l[n].live}

(***************************************************************************)
(* A child that stays under one engine never goes back to an older version *)
(* of the engine's resource, whatever the caches lag, whatever requests    *)
(* land late and whenever the operator restarts: Reconcile builds objects  *)
(* from a snapshot of the resource that may be old, and what keeps an old  *)
(* pass from undoing a newer one is the order of the informer's events and *)
(* the resourceVersion in the Update of CreateOrUpdate.                    *)
(***************************************************************************)
NoRollback ==
    \A o \in Objects : \A n \in Successive(log[o]) :
        LET before == log[o][n - 1]
            after  == log[o][n]
        IN (before.owner # NoEngine /\ before.owner = after.owner)
               => before.from <= after.from

(***************************************************************************)
(* No engine takes a child away from another one: the check of             *)
(* SetControllerReference reads the cache, and the write that follows must *)
(* not succeed when the object has changed hands in between.               *)
(***************************************************************************)
NoTheft ==
    \A o \in Objects : \A n \in Successive(log[o]) :
        log[o][n - 1].owner # NoEngine => log[o][n].owner = log[o][n - 1].owner

(***************************************************************************)
(* The finalizer update sends back the whole resource that the pass read   *)
(* at its beginning.  It undoes neither an edit of the specification nor a *)
(* deletion nor the work of another controller on the finalizers that      *)
(* happened during the pass.                                               *)
(***************************************************************************)
NoLostEdit ==
    \A c \in Engines : \A n \in Successive(crLog[c]) :
        LET before == crLog[c][n - 1]
            after  == crLog[c][n]
        IN /\ before.uid = after.uid
           /\ before.gen <= after.gen
           /\ before.gen = after.gen => before.spec = after.spec
           /\ before.deleting => after.deleting
           /\ after.fins \subseteq before.fins

(***************************************************************************)
(* The operator implements the store of module OwnedStore: whatever its    *)
(* caches and calls do, each stored version of a child is shaped by one    *)
(* wish of one engine, in the order of the wishes, with ownership and      *)
(* immutable fields respected, and only users change wishes.               *)
(***************************************************************************)
Absent == [live |-> FALSE, owner |-> NoEngine, uid |-> 0, from |-> 0, body |-> Foreign]

Children == [o \in Objects |-> IF log[o] = <<>> THEN Absent ELSE Latest(log[o])]

Wanted == [s \in Specs |->
            [o \in Objects |-> {st.body : st \in {t \in StepsOf(s) : t.obj = o}}]]

Promise == INSTANCE OwnedStore WITH wish <- crLog, child <- Children

ImplementsStore == Promise!Spec

(***************************************************************************)
(* The children of engine c that one step of its plan asks for.            *)
(***************************************************************************)
InPlace(c, st) ==
    /\ Live(st.obj)
    /\ LET v == Latest(log[st.obj])
       IN v.owner = c /\ v.uid = Latest(crLog[c]).uid /\ v.body = st.body

(* The operator has nothing left to do and has seen everything.            *)
Quiet ==
    /\ pc = "idle" /\ queue = {}
    /\ \A c \in Engines : crSeen[c] = Rv(crLog[c])
    /\ \A o \in Watched : seen[o] = Rv(log[o])

PlanSteps(c) == StepsOf(Latest(crLog[c]).spec)

(***************************************************************************)
(* When the operator rests, every watched object whose errors Reconcile    *)
(* returns is what the latest specification asks for.  The comment above   *)
(* Reconcile promises it: "make the cluster state reflect the state        *)
(* specified by the user".                                                 *)
(***************************************************************************)
AtRest(handlings) ==
    Quiet => \A c \in Engines : CRLive(c) =>
        \A st \in PlanSteps(c) :
            st.mode = "apply" /\ st.onErr \in handlings => InPlace(c, st)

RestConverged == AtRest({"return"})

(* Every object of the specification can be built and is accepted.         *)
WellFormed(s) == \A st \in StepsOf(s) : st.build = "ok"

(* The plans agree on the fields of an object that no update can change.   *)
FixedParts ==
    \A s, t \in Specs : \A st \in StepsOf(s), u \in StepsOf(t) :
        st.mode = "apply" /\ st.obj = u.obj => st.body.immut = u.body.immut

NothingFailed == left.fault = MaxFault /\ left.squat = MaxSquat

(* No other engine has ever had an object that c asks for.                 *)
Unshared(c) ==
    \A st \in PlanSteps(c) : \A n \in 1 .. Len(log[st.obj]) :
        log[st.obj][n].owner \in {NoEngine, c}

(* Which steps the operator answers for: an error that Reconcile returns   *)
(* makes it try again, one that it swallows must not have occurred.        *)
Sound(c) == NothingFailed /\ WellFormed(Latest(crLog[c]).spec) /\ Unshared(c)

Concerns(c, st) ==
    st.mode = "apply" /\ (st.onErr = "return" \/ (FixedParts /\ Sound(c)))

(***************************************************************************)
(* What is true of the objects whose errors are swallowed: as long as no   *)
(* call has failed and nobody else took their names, caches that lag,      *)
(* conflicts, edits during a pass, restarts and the writes of other        *)
(* clients to them leave no object behind.  One failed call does, and so   *)
(* does an engine that is deleted: an object that it still has when        *)
(* another engine asks for it stays away when it goes.                     *)
(***************************************************************************)
RestSound ==
    NothingFailed /\ Quiet =>
        \A c \in Engines :
            CRLive(c) /\ WellFormed(Latest(crLog[c]).spec) /\ Unshared(c) =>
                \A st \in PlanSteps(c) : st.mode = "apply" => InPlace(c, st)

(***************************************************************************)
(* When the operator rests, an engine owns no watched object that its      *)
(* latest specification does not ask for.                                  *)
(***************************************************************************)
NoLeftovers ==
    Quiet => \A o \in Watched : Live(o) =>
        LET c == Latest(log[o]).owner
        IN (c # NoEngine /\ CRLive(c)) => \E st \in PlanSteps(c) : st.obj = o

(***************************************************************************)
(* Nothing that a user writes into a resource stops the operator: it is    *)
(* down only after a crash that had another cause.                         *)
(***************************************************************************)
OperatorStaysUp == pc = "down" => left.crash < MaxCrash

(***************************************************************************)
(* Once users and failures leave the system alone, the operator brings the *)
(* children whose errors Reconcile returns into place and leaves them      *)
(* there, for every engine whose specification names no object that cannot *)
(* be built or is refused.  Of the executors and the Deployment of etcd,   *)
(* whose errors it only logs, this is so where no call has ever failed and *)
(* no other engine has had their names.                                    *)
(***************************************************************************)
Converges ==
    <>[](\A c \in Engines : CRLive(c) /\ WellFormed(Latest(crLog[c]).spec) =>
            \A st \in PlanSteps(c) : Concerns(c, st) => InPlace(c, st))

(***************************************************************************)
(* A resource whose deletion was asked for goes: Reconcile reaches         *)
(* PVFinalizer in spite of conflicts, faults and restarts, unless, again,  *)
(* an object cannot be built or is refused: then every pass stops before.  *)
(***************************************************************************)
DeletionCompletes ==
    \A c \in Engines :
        LET asked == /\ CRLive(c)
                     /\ Latest(crLog[c]).deleting
                     /\ WellFormed(Latest(crLog[c]).spec)
        IN asked ~> ~ asked

(***************************************************************************)
(* In the end no watched child refers to a resource that is gone, although *)
(* a pass may write children after the resource was deleted.               *)
(***************************************************************************)
ChildrenFollow ==
    <>[](\A o \in Watched : Live(o) => ~ Dangling(Latest(log[o])))

-----------------------------------------------------------------------------
(***************************************************************************)
(* The inductive invariants behind NoTheft and NoRollback.                 *)
(* OwnerInv is about owners: a write in flight names the owner of the      *)
(* version that it replaces.  It needs nothing of other writers and so     *)
(* also holds of each of two processes.                                    *)
(* IInv is about ages.  A child's content never stems from a version of    *)
(* the resource that the operator's cache has not reached (Horizon), so a  *)
(* pass, which reads that cache when it begins, is at least as new as      *)
(* everything stored; and a write in flight is at least as new as the      *)
(* version it replaces (LateOK).                                           *)
(***************************************************************************)
CacheOK ==
    /\ \A c \in Engines : crSeen[c] <= Len(crLog[c])
    /\ \A o \in Objects : seen[o] <= Len(log[o])

InPass == pc \in {"step", "final"}

PassOK ==
    /\ ~ InPass => eng = NoEngine
    /\ InPass => /\ eng \in Engines
                 /\ snap \in 1 .. crSeen[eng]
                 /\ at \in 1 .. Len(Steps)

(* Version w leaves version v with its owner.                              *)
KeepsOwner(v, w) == v.owner # NoEngine => v.owner = w.owner

LateOwners ==
    /\ \A q \in late : q.base # 0 => /\ q.base <= Len(log[q.obj])
                                    /\ KeepsOwner(log[q.obj][q.base], q.ver)
    /\ \A r \in lateCR : r.base \in 1 .. Len(crLog[r.eng])

OwnerInv == TypeOK /\ CacheOK /\ PassOK /\ LateOwners /\ NoTheft

(* Version v is within what the operator, and its current pass, has seen.  *)
Within(v) ==
    v.owner # NoEngine => /\ v.from <= crSeen[v.owner]
                          /\ eng = v.owner => v.from <= snap

Horizon == \A o \in Objects : \A n \in 1 .. Len(log[o]) : Within(log[o][n])

(* Version w may replace version v.                                        *)
MayFollow(v, w) ==
    v.owner # NoEngine => v.owner = w.owner /\ v.from <= w.from

LateOK ==
    \A q \in late :
        /\ Within(q.ver)
        /\ q.base # 0 => MayFollow(log[q.obj][q.base], q.ver)

IInv == OwnerInv /\ Horizon /\ LateOK /\ NoRollback

-----------------------------------------------------------------------------
(***************************************************************************)
(* The inductive invariant behind RestConverged and RestSound.  An object  *)
(* that is not in place is owed to its engine: either a pass is coming     *)
(* that begins with the latest specification, or one is under way and has  *)
(* not reached the object yet.                                             *)
(***************************************************************************)

(* An event that has not arrived will queue engine c: the operator's cache *)
(* is behind and c owned the object in the cached version or owns it later.*)
Pending(c, o) ==
    /\ seen[o] < Len(log[o])
    /\ \E n \in 1 .. Len(log[o]) : n >= seen[o] /\ log[o][n].live /\ log[o][n].owner = c

(* Another pass for engine c will begin.                                   *)
Coming(c) ==
    \/ pc = "down"
    \/ c \in queue
    \/ crSeen[c] < Len(crLog[c])
    \/ \E o \in Watched : Pending(c, o)

(* The pass under way follows the latest version of c, and will take st.   *)
ToDo(c, st) ==
    /\ pc = "step" /\ eng = c /\ snap = Len(crLog[c])
    /\ \E i \in at .. Len(Steps) : Steps[i] = st

(* A pass that has a version which is no longer the cached one is repeated.*)
Fresh == InPass => snap = crSeen[eng] \/ eng \in queue

Owed ==
    \A c \in Engines : CRLive(c) /\ ~ Coming(c) =>
        \A st \in PlanSteps(c) : Concerns(c, st) => InPlace(c, st) \/ ToDo(c, st)

(* The immutable fields of what is stored or in flight are from a plan.    *)
Immuts == [o \in Objects |-> {b.immut : b \in Planned(o)}]

Contents ==
    /\ \A o \in Objects : \A n \in 1 .. Len(log[o]) : log[o][n].body.immut \in Immuts[o]
    /\ \A q \in late : q.ver.body.immut \in Immuts[q.obj]

(* Without failures the operator alone makes the children.                 *)
Budgeted == left.fault <= MaxFault /\ left.squat <= MaxSquat

Ours ==
    NothingFailed =>
        /\ late = {}
        /\ \A o \in Watched : \A n \in 1 .. Len(log[o]) :
              log[o][n].live => log[o][n].owner # NoEngine

RestInv == Fresh /\ Owed /\ Contents /\ Budgeted /\ Ours
=============================================================================
