----------------------------- MODULE EtcdCluster -----------------------------
(***************************************************************************)
(* Which etcd clusters the pods of a clustered user store form: the        *)
(* operator that writes userStandalone.size into the replicas and into the *)
(* template of a StatefulSet, the StatefulSet controller that follows, the *)
(* start script and the preStop script of the pods, and their volumes.     *)
(*                                                                         *)
(* INITIAL_CLUSTER_SIZE in a pod's environment is the size that the        *)
(* template had when the pod was created.  A cluster that is bootstrapped  *)
(* is identified by its initial members, which are the first pods, so by   *)
(* their number.  What etcd, kubectl and the StatefulSet controller do is  *)
(* modelled from how the scripts and the StatefulSet use them: OrderedReady *)
(* pods, rolling updates from the highest ordinal, members that only a     *)
(* cluster with a majority adds or removes.                                *)
(***************************************************************************)
EXTENDS Naturals, FiniteSets

CONSTANTS
    Sizes,      \* the sizes that users choose
    HandSizes,  \* the replicas that other clients choose
    MaxPods,    \* the largest of them
    MaxEdit,    \* bound: edits of the size in a behaviour
    MaxHand,    \* bound: changes of the replicas by other clients
    MaxFault,   \* bound: containers that die and pods that are lost
    MaxEvents   \* bound: all of these together

ASSUME ClusterAssumption ==
    /\ MaxPods \in Nat
    /\ Sizes \subseteq 1 .. MaxPods /\ Sizes # {}
    /\ HandSizes \subseteq 1 .. MaxPods
    /\ MaxEdit \in Nat /\ MaxHand \in Nat /\ MaxFault \in Nat
    /\ MaxEvents \in Nat

Pods == 0 .. MaxPods - 1

VARIABLES
    size,      \* userStandalone.size
    tmpl,      \* INITIAL_CLUSTER_SIZE in the template of the StatefulSet
    replicas,  \* spec.replicas of the StatefulSet
    phase,     \* "absent", "script", "added", "etcd", "draining" (the preStop
               \* script runs beside etcd), "stopping" (without), or "leaving"
    env,       \* INITIAL_CLUSTER_SIZE in the pod
    found,     \* how many peers the start script has seen come up
    goal,      \* the cluster that "member add" has answered with, or 0
    disk,      \* the cluster of the data directory, or 0
    removed,   \* pods whose data directory is of a member that was removed
    members,   \* the members of each cluster
    left       \* what remains of the bounds

setVars == <<size, tmpl, replicas>>
podVars == <<phase, env, found, goal>>
vars == <<setVars, podVars, disk, removed, members, left>>

Init ==
    /\ size \in Sizes
    /\ tmpl = size /\ replicas = size
    /\ phase = [i \in Pods |-> "absent"]
    /\ env = [i \in Pods |-> size]
    /\ found = [i \in Pods |-> 0]
    /\ goal = [i \in Pods |-> 0]
    /\ disk = [i \in Pods |-> 0]
    /\ removed = {}
    /\ members = [c \in Sizes |-> 0 .. c - 1]
    /\ left = [edit |-> MaxEdit, hand |-> MaxHand, fault |-> MaxFault]

Spend(budget) ==
    /\ left[budget] > 0
    /\ MaxEdit + MaxHand + MaxFault - MaxEvents < left.edit + left.hand + left.fault
    /\ left' = [left EXCEPT ![budget] = @ - 1]

(* Mutant of Ready: a readiness probe asks for etcd.                       *)
ReadyServing(i) == phase[i] = "etcd"

(* A running container makes its pod ready: there is no probe.             *)
Ready(i) == phase[i] \in {"script", "added", "etcd"}

(* Pod i has the data of a member of the cluster, and not of one that the  *)
(* cluster has removed: a pod that is added again is another member.       *)
Holds(i, c) == disk[i] = c /\ i \notin removed

(* A majority of the cluster's members run: it elects a leader and commits. *)
Majority(m, s) == 2 * Cardinality(m \cap s) > Cardinality(m)
Running(c)     == {i \in Pods : phase[i] \in {"etcd", "draining"} /\ Holds(i, c)}
Commits(c)     == Majority(members[c], Running(c))

(* The cluster has been formed: a majority holds its data.                 *)
Formed(c) == Majority(members[c], {i \in Pods : Holds(i, c)})

-----------------------------------------------------------------------------
(* The user, the operator and other clients.                               *)

EditSize(s) ==
    /\ s # size
    /\ Spend("edit")
    /\ size' = s
    /\ UNCHANGED <<tmpl, replicas, podVars, disk, removed, members>>

(* Mutant of Apply: the template keeps its environment.                    *)
ApplyReplicas ==
    /\ replicas # size
    /\ replicas' = size
    /\ UNCHANGED <<size, tmpl, podVars, disk, removed, members, left>>

(* Mutant of Apply: the environment is the last ordinal, not the size.     *)
ApplyOrdinal ==
    /\ tmpl # size - 1 \/ replicas # size
    /\ tmpl' = size - 1 /\ replicas' = size
    /\ UNCHANGED <<size, podVars, disk, removed, members, left>>

(* CreateOrUpdate writes the replicas and the template in one update.      *)
Apply ==
    /\ tmpl # size \/ replicas # size
    /\ tmpl' = size /\ replicas' = size
    /\ UNCHANGED <<size, podVars, disk, removed, members, left>>

ScaleByHand(r) ==
    /\ r # replicas
    /\ Spend("hand")
    /\ replicas' = r
    /\ UNCHANGED <<size, tmpl, podVars, disk, removed, members>>

-----------------------------------------------------------------------------
(* The StatefulSet controller.                                             *)

AllReady == \A i \in 0 .. replicas - 1 : Ready(i)
NoneAbove(i) == \A j \in Pods : j > i => phase[j] = "absent"

CreatePod(i) ==
    /\ i < replicas
    /\ phase[i] = "absent"
    /\ \A j \in 0 .. i - 1 : Ready(j)
    /\ phase' = [phase EXCEPT ![i] = "script"]
    /\ env' = [env EXCEPT ![i] = tmpl]
    /\ found' = [found EXCEPT ![i] = 0]
    /\ goal' = [goal EXCEPT ![i] = 0]
    /\ UNCHANGED <<setVars, disk, removed, members, left>>

Stop(i) ==
    /\ phase' = [phase EXCEPT ![i] = IF @ = "etcd" THEN "draining" ELSE "stopping"]
    /\ UNCHANGED <<setVars, env, found, goal, disk, removed, members, left>>

(* Pods that are too many go one by one, the highest first.                *)
Condemn(i) ==
    /\ i >= replicas
    /\ Ready(i) /\ NoneAbove(i) /\ AllReady
    /\ Stop(i)

(* Pods of an older template go one by one, the highest first.             *)
Renew(i) ==
    /\ i < replicas
    /\ NoneAbove(replicas - 1) /\ AllReady
    /\ env[i] # tmpl
    /\ \A j \in i + 1 .. replicas - 1 : env[j] = tmpl
    /\ Stop(i)

-----------------------------------------------------------------------------
(* The start script.                                                       *)

Joins(i) == i >= env[i]

(* One more of the initial peers answers to ping.                          *)
Ping(i) ==
    /\ phase[i] = "script" /\ ~ Joins(i)
    /\ found[i] < env[i]
    /\ Ready(found[i])
    /\ found' = [found EXCEPT ![i] = @ + 1]
    /\ UNCHANGED <<setVars, phase, env, goal, disk, removed, members, left>>

(* The container starts its script again.                                  *)
Restart(i) ==
    /\ phase' = [phase EXCEPT ![i] = "script"]
    /\ found' = [found EXCEPT ![i] = 0]
    /\ goal' = [goal EXCEPT ![i] = 0]
    /\ UNCHANGED <<setVars, env, disk, removed, members>>

(***************************************************************************)
(* etcd starts from its data if it has any; without, it takes the cluster  *)
(* that it is told to.  A member is known by an id in its data, which      *)
(* "member add" gives anew: from the data of a removed member etcd exits,  *)
(* although its pod may have been added again.                             *)
(***************************************************************************)
RunEtcd(i, c) ==
    \/ /\ i \notin removed
       /\ phase' = [phase EXCEPT ![i] = "etcd"]
       /\ disk' = [disk EXCEPT ![i] = IF @ = 0 THEN c ELSE @]
       /\ UNCHANGED <<setVars, env, found, goal, removed, members, left>>
    \/ /\ i \in removed
       /\ Restart(i)
       /\ UNCHANGED left

(* Mutant of Bootstrap: the data directory is not kept on the volume.      *)
BootstrapAfresh(i) ==
    /\ phase[i] = "script" /\ ~ Joins(i)
    /\ found[i] = env[i]
    /\ phase' = [phase EXCEPT ![i] = "etcd"]
    /\ disk' = [disk EXCEPT ![i] = env[i]]
    /\ UNCHANGED <<setVars, env, found, goal, removed, members, left>>

(* All peers have answered: --initial-cluster-state new.                   *)
Bootstrap(i) ==
    /\ phase[i] = "script" /\ ~ Joins(i)
    /\ found[i] = env[i]
    /\ disk[i] = 0 => members[env[i]] = 0 .. env[i] - 1
    /\ RunEtcd(i, env[i])

(***************************************************************************)
(* "member add" goes to the first pods.  Their cluster refuses one that is *)
(* a member already, and everyone while one of its members is down.  The   *)
(* script asks for its old hash without endpoints, where nobody answers    *)
(* yet, so it never removes itself before.                                 *)
(***************************************************************************)
Add(i) ==
    /\ phase[i] = "script" /\ Joins(i)
    /\ \E c \in Sizes :
        /\ Running(c) \cap 0 .. env[i] - 1 # {}
        /\ members[c] \subseteq Running(c)
        /\ i \notin members[c]
        /\ members' = [members EXCEPT ![c] = @ \cup {i}]
        /\ goal' = [goal EXCEPT ![i] = c]
    /\ phase' = [phase EXCEPT ![i] = "added"]
    /\ UNCHANGED <<setVars, env, found, disk, removed, left>>

StartJoined(i) ==
    /\ phase[i] = "added"
    /\ RunEtcd(i, goal[i])

-----------------------------------------------------------------------------
(* The preStop script, and the end of a pod.                               *)

(* Its cluster is the one of the first pods, which must be able to commit, *)
(* and still be when the member has gone.                                  *)
MayLeave(i, c) ==
    /\ Joins(i)
    /\ Running(c) \cap 0 .. env[i] - 1 # {}
    /\ Commits(c)
    /\ i \in members[c]
    /\ Majority(members[c] \ {i}, Running(c))

(* Mutant of Leave: the data is removed, the member is not.                *)
LeaveSilently(i) ==
    /\ phase[i] \in {"draining", "stopping"}
    /\ \E c \in Sizes : MayLeave(i, c)
    /\ phase' = [phase EXCEPT ![i] = "leaving"]
    /\ UNCHANGED <<setVars, env, found, goal, disk, removed, members, left>>

(* A joined pod removes itself from its cluster.                           *)
Leave(i) ==
    /\ phase[i] \in {"draining", "stopping"}
    /\ \E c \in Sizes :
        /\ MayLeave(i, c)
        /\ members' = [members EXCEPT ![c] = @ \ {i}]
        /\ removed' = IF disk[i] = c THEN removed \cup {i} ELSE removed
    /\ phase' = [phase EXCEPT ![i] = "leaving"]
    /\ UNCHANGED <<setVars, env, found, goal, disk, left>>

(* rm of the data, so that a later pod can join.                           *)
Wipe(i) ==
    /\ phase[i] = "leaving"
    /\ disk' = [disk EXCEPT ![i] = 0]
    /\ removed' = removed \ {i}
    /\ phase' = [phase EXCEPT ![i] = "absent"]
    /\ UNCHANGED <<setVars, env, found, goal, members, left>>

Gone(i) ==
    /\ phase' = [phase EXCEPT ![i] = "absent"]
    /\ UNCHANGED <<setVars, env, found, goal, disk, removed, members>>

(* There is nothing to leave, or the cluster does not answer.              *)
Terminate(i) ==
    /\ phase[i] \in {"draining", "stopping"}
    /\ \A c \in Sizes : ~ MayLeave(i, c)
    /\ Gone(i)
    /\ UNCHANGED left

(* A container dies.                                                      *)
Die(i) ==
    /\ Ready(i)
    /\ Spend("fault")
    /\ Restart(i)

(* The pod is lost with its node, or killed when the grace period of its   *)
(* preStop script ends; the volume remains.                                *)
Lose(i) ==
    /\ phase[i] # "absent"
    /\ Spend("fault")
    /\ Gone(i)

Controller(i) == CreatePod(i) \/ Condemn(i) \/ Renew(i)
Script(i)     == Ping(i) \/ Bootstrap(i) \/ Add(i) \/ StartJoined(i)
PreStop(i)    == Leave(i) \/ Wipe(i) \/ Terminate(i)

Next ==
    \/ \E s \in Sizes : EditSize(s)
    \/ \E r \in HandSizes : ScaleByHand(r)
    \/ Apply
    \/ \E i \in Pods : Controller(i) \/ Script(i) \/ PreStop(i) \/ Die(i) \/ Lose(i)

Spec == Init /\ [][Next]_vars

(* Operator, controller and scripts go on; nobody is obliged to edit.      *)
Fairness ==
    /\ WF_vars(Apply)
    /\ \A i \in Pods :
        WF_vars(Controller(i)) /\ WF_vars(Script(i)) /\ WF_vars(PreStop(i))

FairSpec == Spec /\ Fairness

-----------------------------------------------------------------------------
(***************************************************************************)
(* Every variable keeps its type.                                          *)
(***************************************************************************)
TypeOK ==
    /\ size \in Sizes /\ tmpl \in Sizes /\ replicas \in Sizes \cup HandSizes
    /\ phase \in [Pods -> {"absent", "script", "added", "etcd",
                        "draining", "stopping", "leaving"}]
    /\ env \in [Pods -> Sizes]
    /\ found \in [Pods -> 0 .. MaxPods]
    /\ goal \in [Pods -> {0} \cup Sizes]
    /\ disk \in [Pods -> {0} \cup Sizes]
    /\ removed \subseteq Pods
    /\ members \in [Sizes -> SUBSET Pods]
    /\ left \in [edit : 0 .. MaxEdit, hand : 0 .. MaxHand, fault : 0 .. MaxFault]

(***************************************************************************)
(* When nothing is left to do for the controller, and no other client has  *)
(* changed the replicas, the pods are the members of one cluster: the      *)
(* script means a pod that an edit adds to join the old members, and one   *)
(* that an edit takes away to leave them.                                  *)
(***************************************************************************)
Alone == left.hand = MaxHand

AtRest ==
    /\ tmpl = size /\ replicas = size
    /\ \A i \in Pods : IF i < size THEN phase[i] = "etcd" /\ env[i] = size
                                   ELSE phase[i] = "absent"

RestWhole ==
    Alone /\ AtRest =>
        \E c \in Sizes : members[c] = 0 .. size - 1 /\ Running(c) = 0 .. size - 1

(***************************************************************************)
(* No pod but one that another client has scaled up takes the branches     *)
(* that add and remove members: edits of the size never reach them.        *)
(***************************************************************************)
JoinBranchDead == Alone => \A i \in Pods : phase[i] # "absent" => ~ Joins(i)

(***************************************************************************)
(* No edit, restart or loss makes a pod give up its data or move to        *)
(* another cluster.                                                        *)
(***************************************************************************)
DataKept == [][Alone => \A i \in Pods : disk[i] # 0 => disk'[i] = disk[i]]_vars

(***************************************************************************)
(* A majority that holds the data of a cluster is not lost by members that *)
(* join, leave or die, or are lost half-way and come back with the data of *)
(* a removed member, while nobody edits the size.  A cluster of one is the *)
(* exception: it has no majority over the member that it has just added.   *)
(***************************************************************************)
Unedited == left.edit = MaxEdit

FormedStays ==
    [][Unedited => \A c \in Sizes : c > 1 /\ Formed(c) => Formed(c)']_vars

(***************************************************************************)
(* While the size stays, the cluster of that size forms and commits for    *)
(* good once failures and other clients have come to an end.  One or two   *)
(* initial members have no majority over as many that have joined, so      *)
(* there other clients must not have added any.                            *)
(***************************************************************************)
ComesUp == <>[](Unedited /\ (size > 2 \/ Alone) => Commits(size))

=============================================================================
