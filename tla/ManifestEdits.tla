----------------------------- MODULE ManifestEdits -----------------------------
(***************************************************************************)
(* One DataflowEngine resource and its user, who starts from a file of     *)
(* config/samples and edits one field at a time.  The properties are about *)
(* the objects that a pass writes for each resource the user can reach,    *)
(* how they fit together, and what an edit makes of objects that exist.    *)
(***************************************************************************)
EXTENDS Samples

CONSTANTS
    Names,       \* names the user may give to a component, besides its own
    Sizes,       \* values of the optional field size
    FramePorts,  \* ports of the framework store
    Images       \* images of masters and executors

(* An optional field of type int32: at most one number.                    *)
ASSUME SizesAssumption ==
    \A s \in Sizes : s \subseteq Int /\ \A m, n \in s : m = n

VARIABLES
    de,      \* the resource
    plan     \* what a pass of Reconcile writes for it

Deployable == {Demo(1, 1), Demo(1, 3), Demo(3, 3), UserStorageSingle, UserStorageCluster}

Init == de \in Deployable /\ plan = PlanOf(de)

EditFrame ==
    \/ \E n \in Names \cup {FRAME_STANDALONE} : de' = [de EXCEPT !.frame.name = n]
    \/ \E p \in FramePorts : de' = [de EXCEPT !.frame.port = p]
    \/ \E b \in BOOLEAN : de' = [de EXCEPT !.frame.cluster = b]

EditUser ==
    \/ \E n \in Names \cup {USER_STANDALONE} : de' = [de EXCEPT !.user.name = n]
    \/ \E size \in Sizes : de' = [de EXCEPT !.user.size = size]
    \/ \E b \in BOOLEAN : de' = [de EXCEPT !.user.cluster = b]

EditMaster ==
    \/ \E n \in Names \cup {SERVER_MASTER} : de' = [de EXCEPT !.master.name = n]
    \/ \E size \in Sizes : de' = [de EXCEPT !.master.size = size]
    \/ \E b \in BOOLEAN : de' = [de EXCEPT !.master.cluster = b]

EditExecutor ==
    \/ \E n \in Names \cup {"server-executor"} : de' = [de EXCEPT !.executor.name = n]
    \/ \E b \in BOOLEAN : de' = [de EXCEPT !.executor.cluster = b]

EditImage == \E i \in Images : de' = [de EXCEPT !.image = i]

Edit == EditFrame \/ EditUser \/ EditMaster \/ EditExecutor \/ EditImage

Next == Edit /\ plan' = PlanOf(de')

Spec == Init /\ [][Next]_<<de, plan>>

-----------------------------------------------------------------------------
OfKind(kinds) == {i \in DOMAIN plan : plan[i].obj[1] \in kinds}

Services     == OfKind({"Service"})
Workloads    == OfKind({"Deployment", "StatefulSet"})
StatefulSets == OfKind({"StatefulSet"})

Name(i)   == plan[i].obj[2]
Fields(i) == plan[i].body.spec
Fixed(i)  == plan[i].body.immut

Routes(s, w) == Fields(s).selector \subseteq Fields(w).pod

(***************************************************************************)
(* Each Service routes to the pods of exactly one workload of its engine,  *)
(* and to ports that these pods open: the labels that the handlers of the  *)
(* four components choose, in either form, keep the components apart.  The *)
(* MySQL cluster always opens CONTAINER_PORT, so its port must be that.    *)
(***************************************************************************)
RoutesToPods ==
    \A s \in Services :
        \E w \in Workloads :
            /\ {x \in Workloads : Routes(s, x)} = {w}
            /\ (~ de.frame.cluster \/ de.frame.port = CONTAINER_PORT)
                   => Fields(s).ports \subseteq Fields(w).ports

(***************************************************************************)
(* What a workload mounts has been written by an earlier step of the pass. *)
(***************************************************************************)
MountsProvided ==
    \A w \in Workloads : \A m \in Fields(w).mounts :
        \E i \in OfKind({"ConfigMap", "PersistentVolumeClaim"}) : i < w /\ Name(i) = m

(***************************************************************************)
(* A StatefulSet has a governing Service, which gives its pods their names:*)
(* headless, written earlier in the pass, and routing to these pods.       *)
(***************************************************************************)
Governed ==
    \A w \in StatefulSets :
        \E s \in Services :
            /\ s < w
            /\ Name(s) = Fixed(w).service
            /\ Fixed(s).headless
            /\ Routes(s, w)

(* Step i makes the network name h resolve.                                *)
Serves(i, h) ==
    \/ h.ordinal = {} /\ i \in Services /\ Name(i) = h.host
    \/ /\ i \in StatefulSets /\ Name(i) = h.host /\ Fixed(i).service = h.host
       /\ \E k \in h.ordinal, n \in Fields(i).replicas : k < n

(* The names that handlers hard-code are the names that the user has given, *)
(* and there is a cluster of masters just when there are several of them.   *)
Conforming ==
    /\ ~ de.frame.cluster
    /\ de.frame.name = FRAME_STANDALONE
    /\ de.user.name = USER_STANDALONE
    /\ de.master.name = SERVER_MASTER
    /\ \E n \in de.master.size : n >= 1 /\ (de.master.cluster <=> n > 1)

(***************************************************************************)
(* With the names of the demos, every name for which an init container     *)
(* waits is served by an earlier step of the pass, so that no two workloads *)
(* wait for each other, and every peer in an address string exists.        *)
(***************************************************************************)
NamesResolve ==
    Conforming =>
        \A w \in Workloads :
            /\ \A h \in Fields(w).waits : \E i \in DOMAIN plan : i < w /\ Serves(i, h)
            /\ \A h \in Fields(w).peers : \E i \in DOMAIN plan : Serves(i, h)

(* No two components have one name, and none has a name that the MySQL      *)
(* cluster gives to its Services.                                          *)
Unambiguous ==
    LET own == IF de.frame.cluster THEN {"mysql", "mysql-read"} ELSE {de.frame.name}
        u == de.user.name
        m == de.master.name
        e == de.executor.name
    IN {u, m, e} \cap own = {} /\ u # m /\ m # e /\ u # e

(***************************************************************************)
(* One pass writes each object once, whatever forms the components have:   *)
(* the fixed names of the handlers' ConfigMaps, claims and Services do not *)
(* clash.                                                                  *)
(***************************************************************************)
DistinctObjects ==
    Unambiguous => \A i, j \in DOMAIN plan : plan[i].obj = plan[j].obj => i = j

(* What an object of the plan keeps for ever; objects in the plan.         *)
Kept(p) == {<<p[i].obj, p[i].body.immut>> : i \in DOMAIN p}

(* The edit renames a MySQL cluster, whose objects do not take its name.   *)
RenamesCluster(d, e) == d.frame.cluster /\ e.frame.cluster /\ d.frame.name # e.frame.name

(* A standalone store named mysql-read takes the name of a Service of the   *)
(* MySQL cluster, and the one store becomes the other.                     *)
TakesReadService(d, e) ==
    \E c, s \in {d, e} : c.frame.cluster /\ ~ s.frame.cluster /\ s.frame.name = "mysql-read"

(***************************************************************************)
(* No edit asks for a change that no update can make: an object that the   *)
(* plans before and after the edit have in common keeps the fields that    *)
(* are immutable.  There are two exceptions, both of MySQL clusters: a new *)
(* name changes the selector of the StatefulSet mysql, and a standalone    *)
(* store named mysql-read needs a Service of that name without an address, *)
(* where that of the cluster has one.                                      *)
(***************************************************************************)
EditsKeepImmutable ==
    [][ (/\ Unambiguous /\ Unambiguous'
         /\ ~ RenamesCluster(de, de') /\ ~ TakesReadService(de, de')) =>
            \A a \in Kept(plan), b \in Kept(plan') : a[1] = b[1] => a = b ]_<<de, plan>>
=============================================================================
