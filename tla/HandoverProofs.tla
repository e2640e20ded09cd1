---------------------------- MODULE HandoverProofs ----------------------------
(***************************************************************************)
(* Proofs about module Handover, for every set of engines, objects and     *)
(* specifications, every plan and every bound.  A step of one process is   *)
(* for the other a step of some client of the API server, so what is       *)
(* proved of one process among other clients is true of both.              *)
(***************************************************************************)
EXTENDS Handover, RestProofs

(* All that is proved of one process, about the second one.                *)
R == INSTANCE RestProofs
       WITH crSeen <- crSeen2, seen <- seen2, queue <- queue2, pc <- pc2,
            eng <- eng2, snap <- snap2, at <- at2

-----------------------------------------------------------------------------
(***************************************************************************)
(* New of module Handover is the same process without its lemmas: the two  *)
(* instances agree on what the process reads, on each of its actions and   *)
(* on what is asked of it at rest.                                         *)
(***************************************************************************)

LEMMA NewReads ==
    /\ New!Resource = R!Resource /\ New!Steps = R!Steps /\ New!Step = R!Step
    /\ New!Known = R!Known /\ New!Read = R!Read
    /\ New!Call = R!Call /\ New!Taken = R!Taken /\ New!Unchanged = R!Unchanged
BY DEF New!Resource, New!Steps, New!Step, New!Known, New!Read, New!Call, New!Taken,
       New!Unchanged, New!Applied, New!Created, New!Cached, New!SameContent,
       R!Resource, R!Steps, R!Step, R!Known, R!Read, R!Call, R!Taken,
       R!Unchanged, R!Applied, R!Created, R!Cached, R!SameContent

LEMMA NewMoves ==
    /\ New!Proceed <=> R!Proceed
    /\ New!Requeue <=> R!Requeue
    /\ New!Fail <=> R!Fail
    /\ \A where : New!Leave(where) <=> R!Leave(where)
<1>1. \A where : New!Leave(where) <=> R!Leave(where)
  BY DEF New!Leave, R!Leave
<1>2. \A where, n : New!Goto(where, n) <=> R!Goto(where, n)
  BY DEF New!Goto, R!Goto
<1>3. New!Proceed <=> R!Proceed
  BY <1>2, NewReads DEF New!Proceed, R!Proceed
<1>4. New!Requeue <=> R!Requeue
  BY <1>1 DEF New!Requeue, R!Requeue
<1>5. New!Fail <=> R!Fail
  BY <1>2, <1>3, <1>4, NewReads DEF New!Fail, R!Fail
<1> QED
  BY <1>1, <1>3, <1>4, <1>5

LEMMA NewServer ==
    /\ \A q : New!Accepts(q) <=> R!Accepts(q)
    /\ \A q : New!Store(q) <=> R!Store(q)
    /\ \A c, n : New!UpdateCR(c, n) <=> R!UpdateCR(c, n)
    /\ \A b : New!Spend(b) <=> R!Spend(b)
    /\ \A o, v : New!StoreChild(o, v) <=> R!StoreChild(o, v)
<1>1. \A q : New!Accepts(q) <=> R!Accepts(q)
  BY DEF New!Accepts, New!Live, New!Exists, New!Latest, New!Rv,
         R!Accepts, R!Live, R!Exists, R!Latest, R!Rv
<1>2. \A o, v : New!StoreChild(o, v) <=> R!StoreChild(o, v)
  BY DEF New!StoreChild, R!StoreChild
<1>3. \A q : New!Store(q) <=> R!Store(q)
  BY <1>2 DEF New!Store, New!SameContent, New!Live, New!Exists, New!Latest,
              R!Store, R!SameContent, R!Live, R!Exists, R!Latest
<1>4. \A v : New!WithoutPV(v) = R!WithoutPV(v)
  BY DEF New!WithoutPV, New!Settled, R!WithoutPV, R!Settled
<1>5. \A c, n : New!UpdateCR(c, n) <=> R!UpdateCR(c, n)
  BY <1>4 DEF New!UpdateCR, New!StoreCR, New!Rv, R!UpdateCR, R!StoreCR, R!Rv
<1>6. \A b : New!Spend(b) <=> R!Spend(b)
  BY DEF New!Spend, R!Spend
<1> QED
  BY <1>1, <1>2, <1>3, <1>5, <1>6

LEMMA NewVars ==
    /\ New!crVars = R!crVars /\ New!childVars = R!childVars
    /\ New!workerVars = R!workerVars /\ New!lateVars = R!lateVars
    /\ (UNCHANGED New!crVars <=> UNCHANGED R!crVars)
    /\ (UNCHANGED New!childVars <=> UNCHANGED R!childVars)
    /\ (UNCHANGED New!workerVars <=> UNCHANGED R!workerVars)
    /\ (UNCHANGED New!lateVars <=> UNCHANGED R!lateVars)
BY DEF New!crVars, New!childVars, New!workerVars, New!lateVars,
       R!crVars, R!childVars, R!workerVars, R!lateVars

LEMMA NewPass == New!Pass => R!Pass
<1>1. New!BuildPanics => R!BuildPanics
  BY NewReads, NewMoves, NewVars DEF New!BuildPanics, R!BuildPanics
<1>2. New!RefuseTaken => R!RefuseTaken
  BY NewReads, NewMoves, NewVars DEF New!RefuseTaken, R!RefuseTaken
<1>3. New!SkipUnchanged => R!SkipUnchanged
  BY NewReads, NewMoves, NewVars DEF New!SkipUnchanged, R!SkipUnchanged
<1>4. New!CallSucceeds => R!CallSucceeds
  BY NewReads, NewMoves, NewServer, NewVars
     DEF New!CallSucceeds, New!Calls, R!CallSucceeds, R!Calls
<1>5. New!CallRefused => R!CallRefused
  BY NewReads, NewMoves, NewServer, NewVars
     DEF New!CallRefused, New!Calls, R!CallRefused, R!Calls
<1>6. New!Finish => R!Finish
  BY NewReads, NewMoves, NewVars DEF New!Finish, R!Finish
<1>7. New!PVFinalizer => R!PVFinalizer
  BY NewReads, NewMoves, NewServer, NewVars
     DEF New!PVFinalizer, New!Rv, R!PVFinalizer, R!Rv
<1> QED
  BY <1>1, <1>2, <1>3, <1>4, <1>5, <1>6, <1>7 DEF New!Pass, R!Pass

LEMMA NewFault == New!CallFault \/ New!PVFinalizerFault => R!Fault
<1>1. New!CallFault => R!CallFault
  BY NewReads, NewMoves, NewServer, NewVars
     DEF New!CallFault, New!Calls, R!CallFault, R!Calls
<1>2. New!PVFinalizerFault => R!PVFinalizerFault
  BY NewReads, NewMoves, NewServer, NewVars DEF New!PVFinalizerFault, R!PVFinalizerFault
<1> QED
  BY <1>1, <1>2 DEF R!Fault

LEMMA NewInformers ==
    /\ New!Start => R!Start
    /\ \A c : New!ObserveCR(c) => R!ObserveCR(c)
    /\ \A c : New!Begin(c) => R!Begin(c)
    /\ \A o : New!Observe(o) => R!Observe(o)
    /\ \A o : New!Collect(o) => R!Collect(o)
<1>1. /\ \A l, n : New!Cached(l, n) <=> R!Cached(l, n)
      /\ \A l, n : New!Owner(l, n) = R!Owner(l, n)
      /\ \A l : New!Rv(l) = R!Rv(l)
      /\ \A l : New!Latest(l) = R!Latest(l)
  BY DEF New!Cached, New!Owner, New!Rv, New!Latest, R!Cached, R!Owner, R!Rv, R!Latest
<1>2. /\ \A c : New!CRLive(c) <=> R!CRLive(c)
      /\ \A o : New!Live(o) <=> R!Live(o)
  BY DEF New!CRLive, New!Live, New!Exists, New!Latest, R!CRLive, R!Live, R!Exists, R!Latest
<1>3. New!Start => R!Start
  BY NewVars DEF New!Start, New!CRLive, New!Exists, New!Latest, New!Rv, New!Owner, New!Cached,
                 R!Start, R!CRLive, R!Exists, R!Latest, R!Rv, R!Owner, R!Cached
<1>4. \A c : New!ObserveCR(c) => R!ObserveCR(c)
  BY <1>1, NewVars DEF New!ObserveCR, R!ObserveCR
<1>5. \A c : New!Begin(c) => R!Begin(c)
  BY <1>1, NewVars DEF New!Begin, R!Begin
<1>6. \A o : New!Observe(o) => R!Observe(o)
  BY <1>1, NewVars DEF New!Observe, R!Observe
<1>7. \A v : (New!Dangling(v) <=> R!Dangling(v)) /\ New!Gone(v) = R!Gone(v)
  BY <1>1, <1>2 DEF New!Dangling, New!Gone, R!Dangling, R!Gone
<1>8. \A c : New!Knows(c) <=> R!Knows(c)
  BY <1>1 DEF New!Knows, R!Knows
<1>9. \A o : New!Collect(o) => R!Collect(o)
  BY <1>1, <1>2, <1>7, <1>8, NewServer, NewVars DEF New!Collect, R!Collect
<1> QED
  BY <1>3, <1>4, <1>5, <1>6, <1>9

LEMMA NewRests ==
    /\ New!RestConverged <=> R!RestConverged
    /\ New!RestSound <=> R!RestSound
<1>1. New!Quiet <=> R!Quiet
  BY DEF New!Quiet, New!Rv, R!Quiet, R!Rv
<1>2. \A c : /\ New!CRLive(c) <=> R!CRLive(c)
             /\ New!PlanSteps(c) = R!PlanSteps(c)
             /\ New!Latest(crLog[c]) = R!Latest(crLog[c])
  BY DEF New!CRLive, New!Exists, New!Latest, New!PlanSteps, New!StepsOf,
         R!CRLive, R!Exists, R!Latest, R!PlanSteps, R!StepsOf
<1>3. \A c, st : New!InPlace(c, st) <=> R!InPlace(c, st)
  BY DEF New!InPlace, New!Live, New!Exists, New!Latest,
         R!InPlace, R!Live, R!Exists, R!Latest
<1>4. /\ \A c : New!Unshared(c) <=> R!Unshared(c)
      /\ \A s : New!WellFormed(s) <=> R!WellFormed(s)
      /\ New!NothingFailed <=> R!NothingFailed
  BY <1>2 DEF New!Unshared, New!WellFormed, New!StepsOf, New!NothingFailed,
              R!Unshared, R!WellFormed, R!StepsOf, R!NothingFailed
<1>5. New!RestConverged <=> R!RestConverged
  BY <1>1, <1>2, <1>3 DEF New!RestConverged, New!AtRest, R!RestConverged, R!AtRest
<1>6. New!RestSound <=> R!RestSound
  BY <1>1, <1>2, <1>3, <1>4 DEF New!RestSound, R!RestSound
<1> QED
  BY <1>5, <1>6

-----------------------------------------------------------------------------
(* What the two processes have in common.                                  *)

LEMMA SharedTypes ==
    /\ R!CRVersion = CRVersion /\ R!Version = Version /\ R!Request = Request
    /\ R!Budgets = Budgets
<1>1. R!CRVersion = CRVersion /\ R!Budgets = Budgets
  BY DEF CRVersion, Budgets, R!CRVersion, R!Budgets
<1>2. R!Version = Version
  BY DEF Version, Bodies, Planned, StepsOf, R!Version, R!Bodies, R!Planned, R!StepsOf
<1>3. R!Request = Request
  BY <1>2 DEF Request, R!Request
<1> QED
  BY <1>1, <1>2, <1>3

LEMMA SharedSteps ==
    /\ CRStep <=> R!CRStep
    /\ ChildStep <=> R!ChildStep
    /\ LateStep <=> R!LateStep
    /\ LeftStep <=> R!LeftStep
<1>1. \A c, v : StoreCR(c, v) <=> R!StoreCR(c, v)
  BY DEF StoreCR, R!StoreCR
<1>2. \A o, v : /\ StoreChild(o, v) <=> R!StoreChild(o, v)
                /\ MayStore(o, v) <=> R!MayStore(o, v)
  BY DEF StoreChild, MayStore, KeepsOwner, Live, Exists, Latest,
         R!StoreChild, R!MayStore, R!KeepsOwner, R!Live, R!Exists, R!Latest
<1>3. \A q : GoodRequest(q) <=> R!GoodRequest(q)
  BY DEF GoodRequest, KeepsOwner, R!GoodRequest, R!KeepsOwner
<1>4. CRStep <=> R!CRStep
  BY <1>1, SharedTypes DEF CRStep, R!CRStep
<1>5. ChildStep <=> R!ChildStep
  BY <1>2, SharedTypes DEF ChildStep, R!ChildStep
<1>6. LateStep <=> R!LateStep
  BY <1>3, SharedTypes DEF LateStep, R!LateStep
<1> QED
  BY <1>4, <1>5, <1>6, SharedTypes DEF LeftStep, R!LeftStep

LEMMA SharedContent ==
    /\ ContentStep <=> R!ContentStep
    /\ LeftFalls <=> R!LeftFalls
BY DEF ContentStep, LeftFalls, GoodChild, NothingFailed, Immuts, StoreChild,
       Request, Version, Bodies, Budgets, Planned, StepsOf,
       R!ContentStep, R!LeftFalls, R!GoodChild, R!NothingFailed, R!Immuts, R!StoreChild,
       R!Request, R!Version, R!Bodies, R!Budgets, R!Planned, R!StepsOf

(* The second process meets the assumptions of the first.                  *)
LEMMA SameAssumptions ==
    /\ R!PlanAssumption /\ R!FinishAssumption
    /\ R!NamesAssumption /\ R!BoundsAssumption
<1>1. \A st : R!IsStep(st) <=> IsStep(st)
  <2>1. R!Bodies = Bodies
    BY DEF R!Bodies, R!StepsOf, Bodies, StepsOf
  <2> QED
    BY <2>1 DEF R!IsStep, IsStep
<1>2. \A s : R!StepsOf(s) = StepsOf(s)
  BY DEF R!StepsOf, StepsOf
<1>3. R!PlanAssumption
  BY <1>1, <1>2, PlanAssumption DEF R!PlanAssumption
<1> QED
  BY <1>3, FinishAssumption, NamesAssumption, BoundsAssumption
     DEF R!FinishAssumption, R!NamesAssumption, R!BoundsAssumption

-----------------------------------------------------------------------------
(* A step of either process, as the other one sees it: its own caches, its *)
(* queue and its worker stay.                                              *)

LEMMA OldAside ==
    ASSUME OwnerInv, R!CRStep, R!ChildStep, R!LateStep, R!LeftStep, UNCHANGED oldVars
    PROVE  OwnerInv'
<1>1. UNCHANGED <<crSeen, seen, queue, workerVars>>
  BY DEF oldVars
<1>2. CacheStep /\ WorkerStep
  BY <1>1, KeepCaches, KeepWorker DEF OwnerInv, TypeOK
<1> QED
  BY <1>2, SharedSteps, ShapeInvariant DEF Shape

LEMMA NewAside ==
    ASSUME R!OwnerInv, R!RestInv, CRStep, ChildStep, LateStep, LeftStep,
           LeftFalls, ContentStep, UNCHANGED newVars
    PROVE  R!OwnerInv' /\ R!RestInv'
<1>1. UNCHANGED <<crSeen2, seen2>> /\ UNCHANGED queue2 /\ UNCHANGED R!workerVars
  BY DEF newVars, R!workerVars
<1>2. R!CacheStep /\ R!WorkerStep
  BY <1>1, SameAssumptions, R!KeepCaches, R!KeepWorker DEF R!OwnerInv, R!TypeOK
<1>3. R!Shape
  BY <1>2, SharedSteps DEF R!Shape
<1>4. R!LeftFalls /\ R!ContentStep
  BY SharedContent
<1>5. R!OwnerInv'
  BY <1>3, SameAssumptions, R!ShapeInvariant
<1>6. R!Fresh' /\ R!Owed'
  BY <1>1, <1>3, <1>4, SameAssumptions, R!OutsideRest
<1>7. R!Contents' /\ R!Budgeted' /\ R!Ours'
  BY <1>3, <1>4, SameAssumptions, R!ContentsKept DEF R!RestInv
<1> QED
  BY <1>5, <1>6, <1>7 DEF R!RestInv

LEMMA SameContents ==
    /\ R!Contents <=> Contents
    /\ R!Budgeted <=> Budgeted
    /\ R!Ours <=> Ours
BY DEF R!Contents, R!Immuts, R!Planned, R!StepsOf, R!Budgeted, R!Ours, R!NothingFailed,
       Contents, Immuts, Planned, StepsOf, Budgeted, Ours, NothingFailed

(***************************************************************************)
(* The invariant of the two.  Of the first process only OwnerInv is left   *)
(* when it no longer leads: what the second one stores can be newer than   *)
(* all that the first has seen, and nothing that the first does is owed.   *)
(***************************************************************************)
HandoverInv == OwnerInv /\ R!OwnerInv /\ R!RestInv

LEMMA OldStep ==
    ASSUME HandoverInv, Next, UNCHANGED newVars
    PROVE  HandoverInv'
<1> USE DEF HandoverInv
<1>1. Shape
  BY NextShape
<1>2. LeftFalls
  BY NextSpends, LeftSpent DEF OwnerInv
<1>3. ContentStep
  BY <1>2, NextContent, SameContents DEF R!RestInv
<1>4. OwnerInv'
  BY <1>1, ShapeInvariant
<1> QED
  BY <1>1, <1>2, <1>3, <1>4, NewAside DEF Shape

LEMMA NewStep ==
    ASSUME HandoverInv, R!Next, UNCHANGED oldVars
    PROVE  HandoverInv'
<1> USE DEF HandoverInv
<1>1. R!Shape
  BY SameAssumptions, R!NextShape
<1>2. R!OwnerInv'
  BY <1>1, SameAssumptions, R!ShapeInvariant
<1>3. R!RestInv'
  BY SameAssumptions, R!RestStep
<1> QED
  BY <1>1, <1>2, <1>3, OldAside DEF R!Shape

LEMMA ExitStep ==
    ASSUME HandoverInv, OldExits
    PROVE  HandoverInv'
<1> USE DEF HandoverInv
<1>1. /\ UNCHANGED <<crLog, crSeen, log, seen, late, lateCR, left>>
      /\ UNCHANGED newVars /\ Leave("down") /\ queue' = {}
  BY DEF OldExits, crVars, childVars, lateVars
<1>2. WorkerStep
  BY <1>1, LeaveWorker
<1>3. CRStep /\ ChildStep /\ LateStep /\ LeftStep /\ CacheStep
  BY <1>1, KeepCaches, KeepLate, KeepLeft
     DEF OwnerInv, CRStep, ChildStep, lateVars
<1>4. OwnerInv'
  BY <1>2, <1>3, ShapeInvariant DEF Shape
<1>5. LeftFalls /\ ContentStep
  BY <1>1, LeftSpent DEF OwnerInv, ContentStep
<1> QED
  BY <1>1, <1>3, <1>4, <1>5, NewAside

(* A step is one of either process, or the first one exits.                *)
LEMMA HandoverCases ==
    ASSUME HandoverNext
    PROVE  \/ Next /\ UNCHANGED newVars
           \/ R!Next /\ UNCHANGED oldVars
           \/ OldExits
<1>1. CASE Outside \/ OldWatches \/ OldWorks \/ OldFails
  BY <1>1 DEF Outside, OldWatches, OldWorks, OldFails, Next, Fault
<1>2. ASSUME NEW c \in Engines, OldBegins(c) PROVE Next /\ UNCHANGED newVars
  BY <1>2 DEF OldBegins, Next
<1>3. CASE TakeOver \/ NewWatches \/ NewWorks \/ NewFails
  BY <1>3, NewInformers, NewPass, NewFault
     DEF TakeOver, NewWatches, NewWorks, NewFails, R!Next
<1>4. ASSUME NEW c \in Engines, NewBegins(c) PROVE R!Next /\ UNCHANGED oldVars
  BY <1>4, NewInformers DEF NewBegins, R!Next
<1>5. ASSUME NEW o \in Objects, Collected(o)
      PROVE  (Next /\ UNCHANGED newVars) \/ (R!Next /\ UNCHANGED oldVars)
  BY <1>5, NewInformers DEF Collected, Next, R!Next
<1> QED
  BY <1>1, <1>2, <1>3, <1>4, <1>5 DEF HandoverNext

LEMMA HandoverStep ==
    ASSUME HandoverInv, HandoverNext
    PROVE  HandoverInv'
BY HandoverCases, OldStep, NewStep, ExitStep

LEMMA HandoverStutter ==
    ASSUME HandoverInv, UNCHANGED bothVars
    PROVE  HandoverInv'
<1>1. UNCHANGED vars /\ UNCHANGED R!vars
  BY DEF bothVars, vars, newVars, R!vars
<1>2. OwnerInv'
  BY <1>1, StutterShape, ShapeInvariant DEF HandoverInv
<1>3. R!OwnerInv'
  BY <1>1, SameAssumptions, R!StutterShape, R!ShapeInvariant DEF HandoverInv
<1>4. R!RestInv'
  BY <1>1, SameAssumptions, R!RestStutter DEF HandoverInv
<1> QED
  BY <1>2, <1>3, <1>4 DEF HandoverInv

(* The second process has not started, and there is nothing yet.           *)
LEMMA HandoverBegins ==
    ASSUME HandoverInit
    PROVE  HandoverInv
<1> USE DEF HandoverInit
<1>1. OwnerInv
  BY InitOwners
<1>2. R!OwnerInv
  <2>1. R!TypeOK
    BY <1>1, SharedTypes DEF OwnerInv, TypeOK, R!TypeOK
  <2>2. R!CacheOK /\ R!PassOK /\ R!LateOwners
    BY DEF Init, R!CacheOK, R!PassOK, R!InPass, R!LateOwners
  <2>3. R!NoTheft
    BY DEF Init, R!NoTheft, R!Successive
  <2> QED
    BY <2>1, <2>2, <2>3 DEF R!OwnerInv
<1>3. R!RestInv
  <2>1. R!Fresh /\ R!Owed
    BY DEF Init, R!Fresh, R!InPass, R!Owed, R!CRLive, R!Exists
  <2>2. Contents /\ Budgeted /\ Ours
    BY RestInit DEF RestInv
  <2> QED
    BY <2>1, <2>2, SameContents DEF R!RestInv
<1> QED
  BY <1>1, <1>2, <1>3 DEF HandoverInv

(***************************************************************************)
(* The invariant holds whatever the two processes do, with a pass that     *)
(* goes on and passes that begin after the lease was lost.                 *)
(***************************************************************************)
THEOREM HandoverInvariance == HandoverSpec => []HandoverInv
<1>1. HandoverInit => HandoverInv
  BY HandoverBegins
<1>2. HandoverInv /\ [HandoverNext]_bothVars => HandoverInv'
  BY HandoverStep, HandoverStutter
<1> QED
  BY <1>1, <1>2, PTL DEF HandoverSpec

(***************************************************************************)
(* Two processes at once take no child away from its engine either: what   *)
(* protects it is in the API server, not in the lease.                     *)
(***************************************************************************)
THEOREM HandoverTheftFree == HandoverSpec => []NoTheft
<1>1. HandoverInv => NoTheft
  BY DEF HandoverInv, OwnerInv
<1> QED
  BY <1>1, HandoverInvariance, PTL

(***************************************************************************)
(* When the new leader rests, the children are what the latest             *)
(* specification asks for, whatever the old one still writes.              *)
(***************************************************************************)
THEOREM HandoverRestsSafe == HandoverSpec => []HandoverRests
<1>1. R!FixedParts
  BY PartsAssumption DEF FixedParts, StepsOf, R!FixedParts, R!StepsOf
<1>2. ASSUME HandoverInv PROVE R!RestConverged /\ R!RestSound
  <2>1. R!RestConverged
    BY <1>2, SameAssumptions, R!QuietOwes
       DEF HandoverInv, R!RestConverged, R!AtRest, R!Concerns
  <2>2. R!RestSound
    BY <1>1, <1>2, SameAssumptions, R!QuietOwes
       DEF HandoverInv, R!RestSound, R!Concerns, R!Sound
  <2> QED
    BY <2>1, <2>2
<1>3. HandoverInv => HandoverRests
  BY <1>2, NewRests DEF HandoverRests
<1> QED
  BY <1>3, HandoverInvariance, PTL

-----------------------------------------------------------------------------
(* The histories of resources.                                             *)

LEMMA SharedResources ==
    /\ R!ResourceStep <=> ResourceStep
    /\ R!Dated <=> Dated
<1>1. \A c, v : /\ StoreCR(c, v) <=> R!StoreCR(c, v)
                /\ MayReplace(c, v) <=> R!MayReplace(c, v)
  BY SharedTypes DEF StoreCR, MayReplace, Keeps, CRLive, Exists, Latest,
                     R!StoreCR, R!MayReplace, R!Keeps, R!CRLive, R!Exists, R!Latest
<1>2. R!ResourceStep <=> ResourceStep
  BY <1>1, SharedTypes DEF ResourceStep, R!ResourceStep
<1> QED
  BY <1>2 DEF Dated, R!Dated

LEMMA HandoverReplaces ==
    ASSUME HandoverInv, Dated, [HandoverNext]_bothVars
    PROVE  ResourceStep
<1> USE DEF HandoverInv
<1>1. CASE Next
  BY <1>1, NextReplaces
<1>2. CASE R!Next
  BY <1>2, SameAssumptions, R!NextReplaces, SharedResources
<1>3. CASE OldExits \/ UNCHANGED bothVars
  BY <1>3 DEF OldExits, crVars, bothVars, vars, ResourceStep
<1> QED
  BY <1>1, <1>2, <1>3, HandoverCases

(***************************************************************************)
(* The finalizer updates of two processes at once undo no edit, no         *)
(* deletion and no work of other controllers on the finalizers.            *)
(***************************************************************************)
THEOREM HandoverEdits == HandoverSpec => []NoLostEdit
<1>1. HandoverInit => Dated /\ NoLostEdit
  BY DEF HandoverInit, Init, Dated, NoLostEdit, Successive
<1>2. ASSUME HandoverInv, Dated, NoLostEdit, [HandoverNext]_bothVars
      PROVE  Dated' /\ NoLostEdit'
  BY <1>2, HandoverReplaces, ResourceStepKeeps DEF HandoverInv, OwnerInv
<1> QED
  BY <1>1, <1>2, HandoverInvariance, PTL DEF HandoverSpec
=============================================================================
