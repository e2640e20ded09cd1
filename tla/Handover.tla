------------------------------- MODULE Handover -------------------------------
(***************************************************************************)
(* A change of leader between two processes of the operator.  The first    *)
(* one leads from the start; at some point its lease runs out, unknown to  *)
(* it, and the second one starts to reconcile.  The first goes on with the *)
(* pass that it is in, call by call, and may begin others, until it        *)
(* notices and exits.                                                      *)
(*                                                                         *)
(* Both are the operator of module Reconciler, each with caches, a queue   *)
(* and a worker of its own, against one API server, so that the properties *)
(* of that module about the histories of resources and children can be     *)
(* asked of the two together.  Other clients that change children are left *)
(* to the runs of that module.                                             *)
(***************************************************************************)
EXTENDS ReconcilerMC

CONSTANT MaxStale   \* bound: passes that the first begins without the lease

ASSUME StaleAssumption == MaxStale \in Nat

VARIABLES
    crSeen2, seen2, queue2, pc2, eng2, snap2, at2,   \* of the second process
    stale                                            \* what remains of the bound

New == INSTANCE Reconciler
         WITH crSeen <- crSeen2, seen <- seen2, queue <- queue2, pc <- pc2,
              eng <- eng2, snap <- snap2, at <- at2

oldVars == <<crSeen, seen, queue, workerVars>>
newVars == <<crSeen2, seen2, queue2, pc2, eng2, snap2, at2>>
bothVars == <<vars, newVars, stale>>

HandoverInit ==
    /\ Init
    /\ crSeen2 = [c \in Engines |-> 0]
    /\ seen2 = [o \in Objects |-> 0]
    /\ queue2 = {}
    /\ pc2 = "down" /\ eng2 = NoEngine /\ snap2 = 0 /\ at2 = 0
    /\ stale = MaxStale

Leads == pc2 = "down"   \* the first process, which has the lease

(* Users, other controllers' finalizers and late requests.                 *)
Outside ==
    /\ \/ \E c \in Engines : User(c)
       \/ \E c \in Engines, f \in Finalizers : ReleaseFinalizer(c, f)
       \/ \E q \in late : LateWrite(q)
       \/ \E r \in lateCR : LateUpdateCR(r)
    /\ UNCHANGED <<newVars, stale>>

Collected(o) ==
    \/ Leads /\ Collect(o) /\ UNCHANGED <<newVars, stale>>
    \/ ~ Leads /\ New!Collect(o) /\ UNCHANGED <<oldVars, stale>>

(* Without the lease, a pass that begins before the process notices.       *)
OldBegins(c) ==
    /\ Begin(c)
    /\ IF Leads THEN UNCHANGED stale ELSE stale > 0 /\ stale' = stale - 1
    /\ UNCHANGED newVars

OldWatches ==
    /\ \E c \in Engines : ObserveCR(c) \/ \E o \in Objects : Observe(o)
    /\ UNCHANGED <<newVars, stale>>

OldWorks == Pass /\ UNCHANGED <<newVars, stale>>

OldFails == (CallFault \/ PVFinalizerFault) /\ UNCHANGED <<newVars, stale>>

(* The lease has run out: the second process reads everything and begins.  *)
TakeOver == Leads /\ New!Start /\ UNCHANGED <<oldVars, stale>>

(* mgr.Start returns in the first process, and main exits.                 *)
OldExits ==
    /\ ~ Leads /\ pc # "down"
    /\ Leave("down")
    /\ queue' = {}
    /\ UNCHANGED <<crVars, childVars, lateVars, left, newVars, stale>>

NewBegins(c) == ~ Leads /\ New!Begin(c) /\ UNCHANGED <<oldVars, stale>>

NewWatches ==
    /\ \E c \in Engines : New!ObserveCR(c) \/ \E o \in Objects : New!Observe(o)
    /\ UNCHANGED <<oldVars, stale>>

NewWorks == New!Pass /\ UNCHANGED <<oldVars, stale>>

NewFails == (New!CallFault \/ New!PVFinalizerFault) /\ UNCHANGED <<oldVars, stale>>

HandoverNext ==
    \/ Outside
    \/ \E o \in Objects : Collected(o)
    \/ \E c \in Engines : OldBegins(c) \/ NewBegins(c)
    \/ OldWatches \/ OldWorks \/ OldFails \/ OldExits
    \/ TakeOver
    \/ NewWatches \/ NewWorks \/ NewFails

HandoverSpec == HandoverInit /\ [][HandoverNext]_bothVars

-----------------------------------------------------------------------------
(***************************************************************************)
(* The two processes may well undo each other's writes for a while, but    *)
(* whenever the second rests, the children are what the latest             *)
(* specification asks for, even while the first is in a pass: each write   *)
(* of the first is an event for the second.                                *)
(***************************************************************************)
HandoverRests == New!RestConverged /\ New!RestSound
=============================================================================
