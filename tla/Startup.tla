------------------------------- MODULE Startup -------------------------------
(***************************************************************************)
(* How the pods of one engine come up: the operator writes the objects of  *)
(* its plan one after the other, workloads create pods, and a pod starts   *)
(* its containers once its init containers have resolved the names they    *)
(* wait for.  Objects, names and waits are those of module Manifests.      *)
(*                                                                         *)
(* A name of a headless Service resolves while a pod behind it is ready,   *)
(* that of a pod of a StatefulSet while the pod itself is.  Only mysqld has *)
(* a readiness probe: other pods are ready when their containers run.      *)
(* A container that dies starts again without the init containers, so      *)
(* only the loss of a whole pod is modelled.                               *)
(***************************************************************************)
EXTENDS ManifestEdits

CONSTANTS
    Namespaces,   \* where the user may deploy the engine
    MasterSizes,  \* values of master.size
    Replicas,     \* the size of the other components, as clusters
    MaxLoss       \* bound: pods that are lost

ASSUME StartupAssumption ==
    MasterSizes \subseteq Nat /\ Replicas \in Nat \ {0} /\ MaxLoss \in Nat

VARIABLES
    ns,       \* the namespace of the engine
    written,  \* how many steps of the plan the operator has carried out
    pod,      \* state of each pod: "absent", "init", "running" or "failing"
    passed,   \* the names that the init containers of a pod have resolved
    once,     \* the pods that ever ran their containers
    left      \* what remains of the bound

startVars == <<de, plan, ns, written, pod, passed, once, left>>

(***************************************************************************)
(* The demo with other names and forms of its components: f, u and m are   *)
(* the names of the stores and the masters, n is the number of masters,    *)
(* and fc, uc, mc and ec say which components are clusters.                *)
(***************************************************************************)
Variant(f, u, m, n, fc, uc, mc, ec) ==
    Engine(DemoImage,
           Component(m, {n}, 10240, mc),
           Component("server-executor", {Replicas}, 10241, ec),
           Frame(f, {Replicas}, fc), User(u, {Replicas}, uc))

Variants ==
    {Variant(f, u, m, n, fc, uc, mc, ec) :
      f \in Names \cup {FRAME_STANDALONE}, u \in Names \cup {USER_STANDALONE},
      m \in Names \cup {SERVER_MASTER}, n \in MasterSizes,
      fc \in BOOLEAN, uc \in BOOLEAN, mc \in BOOLEAN, ec \in BOOLEAN}

(* The pods of a workload; a Deployment without replicas has one.          *)
Count(p, w) == IF p[w].body.spec.replicas = {} THEN 1
               ELSE CHOOSE n \in p[w].body.spec.replicas : TRUE

Slots(p) ==
    UNION {{<<w, k>> : k \in 0 .. Count(p, w) - 1} :
              w \in {i \in DOMAIN p : p[i].obj[1] \in {"Deployment", "StatefulSet"}}}

StartInit ==
    /\ de \in Variants
    /\ Unambiguous
    /\ plan = PlanOf(de)
    /\ ns \in Namespaces
    /\ written = 0
    /\ pod = [p \in Slots(plan) |-> "absent"]
    /\ passed = [p \in Slots(plan) |-> {}]
    /\ once = {}
    /\ left = MaxLoss

Pods == DOMAIN pod

-----------------------------------------------------------------------------
(* The names.                                                              *)

(* A container that runs and exits again and again is ready now and then.  *)
Ready(p) == pod[p] \in {"running", "failing"}

Resolves(h) ==
    \/ /\ h.ordinal = {}
       /\ \E s \in Services :
            /\ s <= written /\ Name(s) = h.host
            /\ Fixed(s).headless => \E p \in Pods : Ready(p) /\ Routes(s, p[1])
    \/ \E p \in Pods :
            /\ p[1] \in StatefulSets /\ h.ordinal = {p[2]}
            /\ Name(p[1]) = h.host /\ Fixed(p[1]).service = h.host
            /\ Ready(p)

-----------------------------------------------------------------------------
(* Mutant of WriteNext: one step too many.                                 *)
WriteNextPast ==
    /\ written <= Len(plan)
    /\ written' = written + 1
    /\ UNCHANGED <<de, plan, ns, pod, passed, once, left>>

(* The operator writes in the order of the plan.                           *)
WriteNext ==
    /\ written < Len(plan)
    /\ written' = written + 1
    /\ UNCHANGED <<de, plan, ns, pod, passed, once, left>>

(* Pods of a StatefulSet come one by one, each when those before are ready. *)
CreatePod(p) ==
    /\ p[1] <= written
    /\ pod[p] = "absent"
    /\ p[1] \in StatefulSets => \A k \in 0 .. p[2] - 1 : Ready(<<p[1], k>>)
    /\ pod' = [pod EXCEPT ![p] = "init"]
    /\ passed' = [passed EXCEPT ![p] = {}]
    /\ UNCHANGED <<de, plan, ns, written, once, left>>

(* The init containers run one after the other: MySQL before etcd.         *)
PassWait(p, h) ==
    /\ pod[p] = "init"
    /\ h \notin passed[p]
    /\ h = Host(USER_STANDALONE) => Host(FRAME_STANDALONE) \in passed[p]
    /\ Resolves(h)
    /\ passed' = [passed EXCEPT ![p] = @ \cup {h}]
    /\ UNCHANGED <<de, plan, ns, written, pod, once, left>>

(***************************************************************************)
(* A master of a cluster advertises itself by its Service and namespace    *)
(* and exits unless its peer list has this address; the list that          *)
(* loadInitClusterInfo makes is in the namespace dev.                      *)
(***************************************************************************)
InitClusterNamespace == "dev"

Listed(p) ==
    p[1] \in StatefulSets /\ Name(p[1]) = de.master.name =>
        /\ Pod(de.master.name, p[2]) \in Fields(p[1]).peers
        /\ ns = InitClusterNamespace

StartContainers(p) ==
    /\ pod[p] = "init"
    /\ passed[p] = Fields(p[1]).waits
    /\ pod' = [pod EXCEPT ![p] = IF Listed(p) THEN "running" ELSE "failing"]
    /\ once' = once \cup {p}
    /\ UNCHANGED <<de, plan, ns, written, passed, left>>

(* A pod is lost and will be made anew.                                    *)
LosePod(p) ==
    /\ pod[p] # "absent"
    /\ left > 0
    /\ left' = left - 1
    /\ pod' = [pod EXCEPT ![p] = "absent"]
    /\ UNCHANGED <<de, plan, ns, written, passed, once>>

ComeUp(p) ==
    \/ CreatePod(p)
    \/ \E h \in Fields(p[1]).waits : PassWait(p, h)
    \/ StartContainers(p)

StartNext == WriteNext \/ \E p \in Pods : ComeUp(p) \/ LosePod(p)

StartSpec == StartInit /\ [][StartNext]_startVars

WorkloadNames == Names \cup {FRAME_STANDALONE, "mysql", USER_STANDALONE,
                             SERVER_MASTER, "server-executor"}

Ordinals == UNION {0 .. n - 1 : n \in MasterSizes \cup {Replicas}}

(* The operator goes on, and so do the workload controllers and the        *)
(* containers of each pod.                                                 *)
StartFairness ==
    /\ WF_startVars(WriteNext)
    /\ \A name \in WorkloadNames, k \in Ordinals :
          WF_startVars(\E p \in Pods : Name(p[1]) = name /\ p[2] = k /\ ComeUp(p))

StartFairSpec == StartSpec /\ StartFairness

-----------------------------------------------------------------------------
(***************************************************************************)
(* The variables of the start keep their types.                            *)
(***************************************************************************)
StartTypeOK ==
    /\ plan = PlanOf(de)
    /\ written \in 0 .. Len(plan)
    /\ pod \in [Slots(plan) -> {"absent", "init", "running", "failing"}]
    /\ \A p \in Pods : passed[p] \subseteq Fields(p[1]).waits
    /\ once \subseteq Pods
    /\ left \in 0 .. MaxLoss

AllRunning == written = Len(plan) /\ \A p \in Pods : pod[p] = "running"

(***************************************************************************)
(* What the user must know to get a running engine: the stores and the     *)
(* masters have the names that others hard-code, a cluster of masters is   *)
(* in the namespace dev and not empty, and the executors of a cluster find *)
(* either one master or a cluster of them.                                 *)
(***************************************************************************)
Startable ==
    /\ ~ de.frame.cluster /\ de.frame.name = FRAME_STANDALONE
    /\ de.user.name = USER_STANDALONE
    /\ de.master.name = SERVER_MASTER
    /\ de.master.cluster => de.master.size # {0} /\ ns = "dev"
    /\ de.executor.cluster => de.master.size = {1} \/ de.master.cluster

(***************************************************************************)
(* Every engine of which this is true comes up, and after the last loss of *)
(* a pod for good: no two components wait for each other.                  *)
(***************************************************************************)
EngineRuns == Startable => <>[]AllRunning

(***************************************************************************)
(* No other engine ever runs: each of these conditions is needed.          *)
(***************************************************************************)
RunsOnlyStartable == AllRunning => Startable

PodsOf(name) == {p \in Pods : Name(p[1]) = name}

(***************************************************************************)
(* Masters first run after MySQL and an etcd pod have, and the executors   *)
(* of a cluster, which are told to join every master, after every master   *)
(* has, whatever is lost in between.                                       *)
(***************************************************************************)
StartOrder ==
    /\ \A p \in PodsOf(de.master.name) \cap once :
          PodsOf(de.frame.name) \cap once # {} /\ PodsOf(de.user.name) \cap once # {}
    /\ de.executor.cluster =>
         (PodsOf(de.executor.name) \cap once # {} => PodsOf(de.master.name) \subseteq once)

=============================================================================
