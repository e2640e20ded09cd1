-------------------------- MODULE EtcdClusterProofs --------------------------
(***************************************************************************)
(* Proofs about the etcd cluster for every set of sizes and every number   *)
(* of edits and failures, until another client changes the replicas of the *)
(* StatefulSet: the scripts' branches for members that join and leave are  *)
(* never taken, and so data directories stay as they are.                  *)
(***************************************************************************)
EXTENDS EtcdCluster, FiniteSetTheorems, TLAPS

(***************************************************************************)
(* Replicas and template are written together, so every pod that is made   *)
(* has an ordinal below the size in its environment; a pod that leaves its *)
(* cluster would have one above.                                           *)
(***************************************************************************)
Together == Alone => replicas = tmpl

NoneLeaves == Alone => \A i \in Pods : phase[i] # "leaving"

IInv == TypeOK /\ Together /\ JoinBranchDead /\ NoneLeaves

-----------------------------------------------------------------------------
(* Sizes are positive numbers.                                            *)
LEMMA SizesAreNaturals ==
    /\ Sizes \subseteq Nat /\ Sizes \subseteq 1 .. MaxPods
    /\ MaxPods \in Nat
BY ClusterAssumption

(* The initial state is of the type.                                       *)
LEMMA InitTyped ==
    ASSUME Init
    PROVE  TypeOK
<1>1. members \in [Sizes -> SUBSET Pods]
  <2>1. \A c \in Sizes : 0 .. c - 1 \subseteq Pods
    BY SizesAreNaturals DEF Pods
  <2> QED BY <2>1 DEF Init
<1>2. left \in [edit : 0 .. MaxEdit, hand : 0 .. MaxHand, fault : 0 .. MaxFault]
  BY ClusterAssumption DEF Init
<1>3. found \in [Pods -> 0 .. MaxPods]
  BY ClusterAssumption DEF Init
<1> QED BY <1>1, <1>2, <1>3 DEF Init, TypeOK

(* It has no pods yet.                                                     *)
LEMMA InitEstablishes ==
    ASSUME Init
    PROVE  IInv
BY InitTyped DEF Init, IInv, Together, JoinBranchDead, NoneLeaves

(* Spending a budget keeps its type and leaves the others alone.           *)
LEMMA SpendKeepsType ==
    ASSUME NEW b \in {"edit", "hand", "fault"}, TypeOK, Spend(b)
    PROVE  /\ left' \in [edit : 0 .. MaxEdit, hand : 0 .. MaxHand, fault : 0 .. MaxFault]
           /\ b # "hand" => (Alone' <=> Alone)
           /\ b = "hand" => ~ Alone'
BY ClusterAssumption DEF TypeOK, Spend, Alone

-----------------------------------------------------------------------------
(* Every step keeps the type.                                              *)
LEMMA TypeStep ==
    ASSUME TypeOK, [Next]_vars
    PROVE  TypeOK'
<1> USE DEF TypeOK
<1>1. CASE UNCHANGED vars
  BY <1>1 DEF vars, setVars, podVars
<1>2. ASSUME NEW s \in Sizes, EditSize(s)
      PROVE  TypeOK'
  BY <1>2, SpendKeepsType DEF EditSize, podVars
<1>3. ASSUME NEW r \in HandSizes, ScaleByHand(r)
      PROVE  TypeOK'
  BY <1>3, SpendKeepsType DEF ScaleByHand, podVars
<1>4. CASE Apply
  BY <1>4 DEF Apply, podVars
<1>5. ASSUME NEW i \in Pods, Controller(i)
      PROVE  TypeOK'
  <2>1. CASE CreatePod(i)
    BY <2>1, ClusterAssumption DEF CreatePod, setVars
  <2>2. CASE Condemn(i) \/ Renew(i)
    BY <2>2 DEF Condemn, Renew, Stop, setVars
  <2> QED BY <1>5, <2>1, <2>2 DEF Controller
<1>6. ASSUME NEW i \in Pods, Script(i)
      PROVE  TypeOK'
  <2>1. CASE Ping(i)
    <3>1. env[i] \in 1 .. MaxPods
      BY SizesAreNaturals
    <3>2. found[i] + 1 \in 0 .. MaxPods
      BY <2>1, <3>1, ClusterAssumption DEF Ping
    <3> QED BY <2>1, <3>2 DEF Ping, setVars
  <2>2. ASSUME NEW c \in {0} \cup Sizes, RunEtcd(i, c)
        PROVE  TypeOK'
    BY <2>2, ClusterAssumption DEF RunEtcd, Restart, setVars
  <2>3. CASE Bootstrap(i)
    BY <2>2, <2>3 DEF Bootstrap
  <2>4. CASE Add(i)
    BY <2>4 DEF Add, setVars
  <2>5. CASE StartJoined(i)
    BY <2>2, <2>5 DEF StartJoined
  <2> QED BY <1>6, <2>1, <2>3, <2>4, <2>5 DEF Script
<1>7. ASSUME NEW i \in Pods, PreStop(i)
      PROVE  TypeOK'
  <2>1. CASE Leave(i)
    BY <2>1 DEF Leave, setVars
  <2>2. CASE Wipe(i)
    BY <2>2 DEF Wipe, setVars
  <2>3. CASE Terminate(i)
    BY <2>3 DEF Terminate, Gone, setVars
  <2> QED BY <1>7, <2>1, <2>2, <2>3 DEF PreStop
<1>8. ASSUME NEW i \in Pods, Die(i)
      PROVE  TypeOK'
  BY <1>8, SpendKeepsType, ClusterAssumption DEF Die, Restart, setVars
<1>9. ASSUME NEW i \in Pods, Lose(i)
      PROVE  TypeOK'
  BY <1>9, SpendKeepsType DEF Lose, Gone, setVars
<1> QED BY <1>1, <1>2, <1>3, <1>4, <1>5, <1>6, <1>7, <1>8, <1>9 DEF Next

-----------------------------------------------------------------------------
(* A pod that is no member beyond the initial ones never removes itself.    *)
LEMMA NobodyLeaves ==
    ASSUME IInv, Alone, NEW i \in Pods
    PROVE  ~ Leave(i) /\ ~ Wipe(i)
<1>1. ASSUME Leave(i)
      PROVE  FALSE
  <2>1. Joins(i)
    BY <1>1 DEF Leave, MayLeave
  <2>2. phase[i] # "absent"
    BY <1>1 DEF Leave
  <2> QED BY <2>1, <2>2 DEF IInv, JoinBranchDead
<1>2. ~ Wipe(i)
  BY DEF Wipe, IInv, NoneLeaves
<1> QED BY <1>1, <1>2

(* A step that gives no pod a smaller environment and starts none keeps     *)
(* the ordinals of the pods below it.                                       *)
LEMMA PodsThatStay ==
    ASSUME IInv, Alone, env' = env, replicas' = tmpl',
           \A i \in Pods : /\ phase[i] = "absent" => phase'[i] = "absent"
                           /\ phase'[i] # "leaving"
    PROVE  Together' /\ JoinBranchDead' /\ NoneLeaves'
BY DEF IInv, Together, JoinBranchDead, NoneLeaves, Joins

(* Who is alone after a step was alone before it.                          *)
LEMMA StaysAlone ==
    ASSUME TypeOK, [Next]_vars, Alone'
    PROVE  Alone
<1>1. ASSUME NEW r \in HandSizes, ScaleByHand(r)
      PROVE  FALSE
  BY <1>1, SpendKeepsType DEF ScaleByHand
<1>2. ASSUME NEW s \in Sizes, EditSize(s)
      PROVE  Alone
  BY <1>2, SpendKeepsType DEF EditSize
<1>3. ASSUME NEW i \in Pods, Die(i) \/ Lose(i)
      PROVE  Alone
  BY <1>3, SpendKeepsType DEF Die, Lose
<1>4. CASE \/ UNCHANGED vars \/ Apply
           \/ \E i \in Pods : Controller(i) \/ Script(i) \/ PreStop(i)
  BY <1>4 DEF vars, Apply, Controller, CreatePod, Condemn, Renew, Stop, Script, Ping,
              Bootstrap, Add, StartJoined, RunEtcd, PreStop, Leave, Wipe, Terminate, Alone,
              Restart
<1> QED BY <1>1, <1>2, <1>3, <1>4 DEF Next

(* Every step keeps the rest of the invariant.                             *)
LEMMA RestStep ==
    ASSUME IInv, [Next]_vars
    PROVE  Together' /\ JoinBranchDead' /\ NoneLeaves'
<1> USE DEF IInv
<1>a. SUFFICES ASSUME Alone'
               PROVE  Together' /\ JoinBranchDead' /\ NoneLeaves'
  BY DEF Together, JoinBranchDead, NoneLeaves
<1>b. Alone
  BY <1>a, StaysAlone
<1>0. (\A i \in Pods : phase[i] # "leaving") /\ replicas = tmpl
  BY <1>b DEF NoneLeaves, Together
<1> USE <1>b
<1>1. CASE UNCHANGED vars
  BY <1>0, <1>1, PodsThatStay DEF vars, setVars, podVars, Together
<1>2. ASSUME NEW s \in Sizes, EditSize(s)
      PROVE  Together' /\ JoinBranchDead' /\ NoneLeaves'
  BY <1>0, <1>2, PodsThatStay, SpendKeepsType DEF EditSize, podVars, Together
<1>3. ASSUME NEW r \in HandSizes, ScaleByHand(r)
      PROVE  FALSE
  BY <1>a, <1>3, SpendKeepsType DEF ScaleByHand
<1>4. CASE Apply
  BY <1>0, <1>4, PodsThatStay DEF Apply, podVars, Together
<1>5. ASSUME NEW i \in Pods, Controller(i)
      PROVE  Together' /\ JoinBranchDead' /\ NoneLeaves'
  <2>1. CASE CreatePod(i)
    <3>1. ~ (i >= tmpl)
      BY <2>1, SizesAreNaturals DEF CreatePod, Together, TypeOK, Pods
    <3>2. env'[i] = tmpl /\ \A j \in Pods : j # i => env'[j] = env[j] /\ phase'[j] = phase[j]
      BY <2>1 DEF CreatePod, TypeOK
    <3>3. JoinBranchDead'
      BY <3>1, <3>2 DEF JoinBranchDead, Joins
    <3>4. NoneLeaves'
      BY <1>0, <2>1 DEF CreatePod, TypeOK, NoneLeaves
    <3> QED BY <2>1, <3>3, <3>4 DEF CreatePod, setVars, Together
  <2>2. CASE Condemn(i) \/ Renew(i)
    <3>1. Stop(i) /\ phase[i] # "absent"
      <4>1. ASSUME Renew(i)
            PROVE  Ready(i)
        BY <4>1, ClusterAssumption DEF Renew, AllReady, TypeOK, Pods
      <4> QED BY <2>2, <4>1 DEF Condemn, Renew, Ready
    <3> QED BY <1>0, <3>1, PodsThatStay DEF Stop, setVars, Together, TypeOK
  <2> QED BY <1>5, <2>1, <2>2 DEF Controller
<1>6. ASSUME NEW i \in Pods, Script(i)
      PROVE  Together' /\ JoinBranchDead' /\ NoneLeaves'
  <2>1. /\ UNCHANGED <<setVars, env, left>>
        /\ phase[i] # "absent"
        /\ \/ phase' = phase
           \/ \E p \in {"script", "added", "etcd"} : phase' = [phase EXCEPT ![i] = p]
    BY <1>6 DEF Script, Ping, Bootstrap, Add, StartJoined, RunEtcd, Restart
  <2> QED BY <1>0, <2>1, PodsThatStay DEF setVars, Together, TypeOK
<1>7. ASSUME NEW i \in Pods, PreStop(i)
      PROVE  Together' /\ JoinBranchDead' /\ NoneLeaves'
  <2>1. Terminate(i)
    BY <1>7, NobodyLeaves DEF PreStop
  <2> QED BY <1>0, <2>1, PodsThatStay DEF Terminate, Gone, setVars, Together, TypeOK
<1>8. ASSUME NEW i \in Pods, Die(i)
      PROVE  Together' /\ JoinBranchDead' /\ NoneLeaves'
  <2>1. phase[i] # "absent"
    BY <1>8 DEF Die, Ready
  <2> QED BY <1>0, <1>8, <2>1, PodsThatStay, SpendKeepsType
          DEF Die, Restart, setVars, Together, TypeOK
<1>9. ASSUME NEW i \in Pods, Lose(i)
      PROVE  Together' /\ JoinBranchDead' /\ NoneLeaves'
  BY <1>0, <1>9, PodsThatStay, SpendKeepsType DEF Lose, Gone, setVars, Together, TypeOK
<1> QED BY <1>1, <1>2, <1>3, <1>4, <1>5, <1>6, <1>7, <1>8, <1>9 DEF Next

(* A step that no pod wipes its volume in changes only empty volumes.       *)
LEMMA DataStep ==
    ASSUME IInv, Alone, [Next]_vars, NEW i \in Pods, disk[i] # 0
    PROVE  disk'[i] = disk[i]
<1>1. CASE UNCHANGED vars
  BY <1>1 DEF vars
<1>2. CASE (\E s \in Sizes : EditSize(s)) \/ (\E r \in HandSizes : ScaleByHand(r)) \/ Apply
  BY <1>2 DEF EditSize, ScaleByHand, Apply
<1>3. ASSUME NEW j \in Pods, Controller(j) \/ Die(j) \/ Lose(j)
      PROVE  disk' = disk
  BY <1>3 DEF Controller, CreatePod, Condemn, Renew, Stop, Die, Restart, Lose, Gone
<1>4. ASSUME NEW j \in Pods, Script(j)
      PROVE  disk'[i] = disk[i]
  <2>1. ASSUME NEW c \in {0} \cup Sizes, RunEtcd(j, c)
        PROVE  disk'[i] = disk[i]
    BY <2>1 DEF RunEtcd, Restart, IInv, TypeOK
  <2>2. CASE Ping(j) \/ Add(j)
    BY <2>2 DEF Ping, Add
  <2>3. CASE Bootstrap(j)
    BY <2>1, <2>3 DEF Bootstrap, IInv, TypeOK
  <2>4. CASE StartJoined(j)
    BY <2>1, <2>4 DEF StartJoined, IInv, TypeOK
  <2> QED BY <1>4, <2>2, <2>3, <2>4 DEF Script
<1>5. ASSUME NEW j \in Pods, PreStop(j)
      PROVE  disk' = disk
  BY <1>5, NobodyLeaves DEF PreStop, Terminate, Gone
<1> QED BY <1>1, <1>2, <1>3, <1>4, <1>5 DEF Next

-----------------------------------------------------------------------------
(***************************************************************************)
(* Every variable keeps its type, whatever other clients, failures and the *)
(* preStop scripts do.                                                     *)
(***************************************************************************)
THEOREM Typing == Spec => []TypeOK
<1>1. Init => TypeOK
  BY InitTyped
<1>2. TypeOK /\ [Next]_vars => TypeOK'
  BY TypeStep
<1> QED BY <1>1, <1>2, PTL DEF Spec

(* The invariant holds in every behaviour.                                 *)
LEMMA Invariance == Spec => []IInv
<1>1. Init => IInv
  BY InitEstablishes
<1>2. IInv /\ [Next]_vars => IInv'
  BY TypeStep, RestStep DEF IInv
<1> QED BY <1>1, <1>2, PTL DEF Spec

(***************************************************************************)
(* However users edit the size and whatever fails, no pod is ever one that *)
(* joins: the branches of the scripts that add and remove members are dead *)
(* until another client scales the StatefulSet.                            *)
(***************************************************************************)
THEOREM NeverJoins == Spec => []JoinBranchDead
<1>1. IInv => JoinBranchDead
  BY DEF IInv
<1> QED BY <1>1, Invariance, PTL

(***************************************************************************)
(* So no edit, restart or loss makes a pod give up its data directory or   *)
(* move to another cluster.                                                *)
(***************************************************************************)
THEOREM DataStays == Spec => DataKept
<1>1. IInv /\ [Next]_vars
        => [Alone => \A i \in Pods : disk[i] # 0 => disk'[i] = disk[i]]_vars
  BY DataStep
<1> QED BY <1>1, Invariance, PTL DEF Spec, DataKept

-----------------------------------------------------------------------------
(***************************************************************************)
(* With other clients, but without edits: the members of the one cluster   *)
(* that there is.  Its initial members are never removed.                  *)
(***************************************************************************)
Unmoved ==
    Unedited =>
        /\ tmpl = size
        /\ \A i \in Pods : env[i] = size /\ goal[i] \in {0, size} /\ disk[i] \in {0, size}
        /\ 0 .. size - 1 \subseteq members[size]
        /\ \A i \in removed : i >= size

(* Members are added once all initial ones have data, and one at a time:   *)
(* the next one waits until the last has started, which one that comes     *)
(* back with the data of a removed member never does.                      *)
Grown ==
    Unedited /\ members[size] # 0 .. size - 1 =>
        /\ \A i \in 0 .. size - 1 : Holds(i, size)
        /\ \A i, j \in members[size] : ~ Holds(i, size) /\ ~ Holds(j, size) => i = j

(* Who wipes its volume has left the cluster.                              *)
Departed ==
    Unedited => \A i \in Pods : phase[i] = "leaving" => i >= size /\ i \notin members[size]

Membership == TypeOK /\ Unmoved /\ Grown /\ Departed

LEMMA MembersFinite ==
    ASSUME TypeOK, NEW c \in Sizes
    PROVE  IsFiniteSet(members[c]) /\ members[c] \subseteq Pods
<1>1. members[c] \subseteq Pods
  BY DEF TypeOK
<1>2. IsFiniteSet(Pods)
  BY ClusterAssumption, FS_Interval DEF Pods
<1> QED BY <1>1, <1>2, FS_Subset

(* Two members with data outweigh one without.                             *)
LEMMA AlmostAll ==
    ASSUME NEW M, NEW D, IsFiniteSet(M), 0 \in M \cap D, 1 \in M \cap D,
           \A i, j \in M \ D : i = j
    PROVE  2 * Cardinality(M \cap D) > Cardinality(M)
<1>1. IsFiniteSet(M \cap D)
  BY FS_Subset
<1>2. Cardinality(M \cap D) \in Nat /\ Cardinality(M) \in Nat
  BY <1>1, FS_CardinalityType
<1>3. Cardinality(M \cap D) >= 2
  <2>1. IsFiniteSet({0}) /\ Cardinality({0}) = 1
    BY FS_Singleton
  <2>2. Cardinality({0} \cup {1}) = 2
    <3> DEFINE S == {0}
    <3>1. 1 \notin S
      OBVIOUS
    <3>2. IsFiniteSet(S) /\ Cardinality(S) = 1
      BY <2>1
    <3> HIDE DEF S
    <3>3. Cardinality(S \cup {1}) = Cardinality(S) + 1
      BY <3>1, <3>2, FS_AddElement
    <3>4. Cardinality(S \cup {1}) = 2
      BY <3>2, <3>3
    <3> QED BY <3>4 DEF S
  <2>3. {0} \cup {1} \in SUBSET (M \cap D)
    OBVIOUS
  <2>4. Cardinality({0} \cup {1}) <= Cardinality(M \cap D)
    BY <1>1, <2>3, FS_Subset
  <2> QED BY <1>2, <2>2, <2>4
<1>4. CASE M \subseteq D
  <2>1. M \cap D = M
    BY <1>4
  <2> QED BY <1>2, <1>3, <2>1
<1>5. CASE ~ (M \subseteq D)
  <2>1. PICK x \in M : x \notin D
    BY <1>5
  <2>2. M = (M \cap D) \cup {x} /\ x \notin M \cap D
    BY <2>1
  <2>3. Cardinality((M \cap D) \cup {x}) = Cardinality(M \cap D) + 1
    BY <1>1, <2>2, FS_AddElement
  <2>4. Cardinality(M) = Cardinality(M \cap D) + 1
    BY <2>2, <2>3
  <2> QED BY <1>2, <1>3, <2>4
<1> QED BY <1>4, <1>5

(* Only the cluster of the size is ever formed.                            *)
LEMMA OneCluster ==
    ASSUME TypeOK, Unmoved, Unedited, NEW c \in Sizes, Formed(c) \/ Running(c) # {}
    PROVE  c = size
<1> SUFFICES ASSUME c # size PROVE FALSE
  OBVIOUS
<1>1. {i \in Pods : Holds(i, c)} = {}
  BY SizesAreNaturals DEF Unmoved, Holds
<1>2. Running(c) = {}
  BY <1>1 DEF Running
<1>3. members[c] \cap {} = {} /\ Cardinality({}) = 0
  BY FS_EmptySet
<1>4. Cardinality(members[c]) \in Nat
  BY MembersFinite, FS_CardinalityType
<1>5. ~ Formed(c)
  BY <1>1, <1>3, <1>4 DEF Formed, Majority
<1> QED BY <1>2, <1>5

(* A majority stays if no member of it loses its data.                     *)
LEMMA FormedKept ==
    ASSUME TypeOK, NEW c \in Sizes, Formed(c), members'[c] = members[c],
           \A i \in members[c] : Holds(i, c) => Holds(i, c)'
    PROVE  Formed(c)'
<1> DEFINE M == members[c]
           D == {i \in Pods : Holds(i, c)}
           E == {i \in Pods : Holds(i, c)'}
<1>1. IsFiniteSet(M) /\ M \subseteq Pods
  BY MembersFinite
<1>2. M \cap D \in SUBSET (M \cap E)
  BY <1>1
<1>3. IsFiniteSet(M \cap E)
  BY <1>1, FS_Subset
<1>4. IsFiniteSet(M \cap D) /\ Cardinality(M \cap D) <= Cardinality(M \cap E)
  BY <1>2, <1>3, FS_Subset
<1>5. /\ Cardinality(M \cap D) \in Nat /\ Cardinality(M \cap E) \in Nat
      /\ Cardinality(M) \in Nat
  BY <1>1, <1>3, <1>4, FS_CardinalityType
<1>6. 2 * Cardinality(M \cap D) > Cardinality(M)
  BY DEF Formed, Majority
<1>7. 2 * Cardinality(M \cap E) > Cardinality(M)
  BY <1>4, <1>5, <1>6
<1> QED BY <1>7 DEF Formed, Majority

(* Spending any other budget edits nothing.                                *)
LEMMA SpendEdits ==
    ASSUME NEW b \in {"edit", "hand", "fault"}, TypeOK, Spend(b)
    PROVE  /\ b # "edit" => (Unedited' <=> Unedited)
           /\ b = "edit" => ~ Unedited'
BY ClusterAssumption DEF TypeOK, Spend, Unedited

LEMMA StaysUnedited ==
    ASSUME TypeOK, [Next]_vars, Unedited'
    PROVE  Unedited /\ size' = size
<1>1. ASSUME NEW s \in Sizes, EditSize(s)
      PROVE  FALSE
  BY <1>1, SpendEdits DEF EditSize
<1>2. ASSUME NEW r \in HandSizes, ScaleByHand(r)
      PROVE  Unedited /\ size' = size
  BY <1>2, SpendEdits DEF ScaleByHand
<1>3. ASSUME NEW i \in Pods, Die(i) \/ Lose(i)
      PROVE  Unedited /\ size' = size
  BY <1>3, SpendEdits DEF Die, Restart, Lose, Gone, setVars
<1>4. CASE \/ UNCHANGED vars \/ Apply
           \/ \E i \in Pods : Controller(i) \/ Script(i) \/ PreStop(i)
  BY <1>4 DEF vars, setVars, Apply, Controller, CreatePod, Condemn, Renew, Stop, Script,
              Ping, Bootstrap, Add, StartJoined, RunEtcd, Restart, PreStop, Leave, Wipe,
              Terminate, Gone, Unedited
<1> QED BY <1>1, <1>2, <1>3, <1>4 DEF Next

(* A step that leaves members and data alone.                              *)
LEMMA MembersThatStay ==
    ASSUME Membership, Unedited, size' = size, tmpl' = size,
           disk' = disk, removed' = removed, members' = members,
           \A i \in Pods : /\ env'[i] = size /\ goal'[i] \in {0, size}
                           /\ phase'[i] = "leaving" => phase[i] = "leaving"
    PROVE  Unmoved' /\ Grown' /\ Departed'
BY DEF Membership, Unmoved, Grown, Departed, Holds

(* A pod that starts etcd may gain the data of the cluster.                *)
LEMMA MemberStarts ==
    ASSUME Membership, Unedited, size' = size, NEW i \in Pods, NEW c \in {0, size},
           RunEtcd(i, c)
    PROVE  Unmoved' /\ Grown' /\ Departed'
<1>1. /\ tmpl' = tmpl /\ env' = env /\ removed' = removed /\ members' = members
      /\ \A j \in Pods : goal'[j] = goal[j] \/ goal'[j] = 0
      /\ \A j \in Pods : disk'[j] = disk[j] \/ (disk[j] = 0 /\ disk'[j] = c)
      /\ \A j \in Pods : phase'[j] = "leaving" => phase[j] = "leaving"
  BY DEF RunEtcd, Restart, setVars, Membership, TypeOK
<1>2. Unmoved' /\ Departed'
  BY <1>1 DEF Membership, Unmoved, Departed
<1>3. size \in Nat /\ size # 0 /\ 0 .. size - 1 \subseteq Pods /\ members[size] \subseteq Pods
  BY SizesAreNaturals DEF Membership, TypeOK, Pods
<1>4. \A j \in Pods : Holds(j, size) => Holds(j, size)'
  BY <1>1, <1>3 DEF Holds
<1>5. Grown'
  BY <1>1, <1>3, <1>4 DEF Membership, Grown
<1> QED BY <1>2, <1>5

(* All members have data when one is added.                                *)
LEMMA MemberJoins ==
    ASSUME Membership, Unedited, size' = size, NEW i \in Pods, Add(i)
    PROVE  /\ Unmoved' /\ Grown' /\ Departed'
           /\ members'[size] = members[size] \cup {i}
           /\ \A j \in members[size] : Holds(j, size)
<1>1. PICK c \in Sizes : /\ Running(c) \cap 0 .. env[i] - 1 # {}
                         /\ members[c] \subseteq Running(c)
                         /\ members' = [members EXCEPT ![c] = @ \cup {i}]
                         /\ goal' = [goal EXCEPT ![i] = c]
  BY DEF Add
<1>2. c = size
  <2>1. Running(c) # {}
    BY <1>1
  <2> QED BY <2>1, OneCluster DEF Membership
<1>3. /\ tmpl' = tmpl /\ env' = env /\ disk' = disk /\ removed' = removed
      /\ \A j \in Pods : phase'[j] = "leaving" => phase[j] = "leaving" /\ j # i
  BY DEF Add, setVars, Membership, TypeOK
<1>4. members'[size] = members[size] \cup {i}
  BY <1>1, <1>2 DEF Membership, TypeOK
<1>5. \A j \in members[size] : Holds(j, size)
  BY <1>1, <1>2 DEF Running
<1>6. \A j \in Pods : goal'[j] \in {0, size}
  BY <1>1, <1>2 DEF Membership, Unmoved, TypeOK
<1>7. Unmoved'
  BY <1>3, <1>4, <1>6 DEF Membership, Unmoved
<1>8. size # 0 /\ 0 .. size - 1 \subseteq members[size]
  BY SizesAreNaturals DEF Membership, TypeOK, Unmoved
<1>9. Grown'
  BY <1>3, <1>4, <1>5, <1>8 DEF Grown, Holds
<1>10. Departed'
  BY <1>3, <1>4 DEF Membership, Departed
<1> QED BY <1>4, <1>5, <1>7, <1>9, <1>10

(* Only members beyond the initial ones leave.                             *)
LEMMA MemberLeaves ==
    ASSUME Membership, Unedited, size' = size, NEW i \in Pods, Leave(i)
    PROVE  /\ Unmoved' /\ Grown' /\ Departed'
           /\ members'[size] = members[size] \ {i}
           /\ i >= size /\ i \in members[size]
<1>1. PICK c \in Sizes : /\ MayLeave(i, c)
                         /\ members' = [members EXCEPT ![c] = @ \ {i}]
                         /\ removed' = IF disk[i] = c THEN removed \cup {i} ELSE removed
  BY DEF Leave
<1>2. c = size
  <2>1. Running(c) # {}
    BY <1>1 DEF MayLeave
  <2> QED BY <2>1, OneCluster DEF Membership
<1>3. /\ tmpl' = tmpl /\ env' = env /\ disk' = disk /\ goal' = goal
      /\ \A j \in Pods : phase'[j] = "leaving" => phase[j] = "leaving" \/ j = i
  BY DEF Leave, setVars, Membership, TypeOK
<1>4. members'[size] = members[size] \ {i}
  BY <1>1, <1>2 DEF Membership, TypeOK
<1>5. i >= size /\ i \in members[size]
  BY <1>1, <1>2 DEF MayLeave, Joins, Membership, Unmoved
<1>6. size \in Nat /\ i \in Nat /\ i \notin 0 .. size - 1
  BY <1>5, SizesAreNaturals DEF Membership, TypeOK, Pods
<1>7. Unmoved'
  BY <1>1, <1>3, <1>4, <1>5, <1>6 DEF Membership, Unmoved
<1>8. Grown'
  <2>1. \A j \in Pods : j # i => (Holds(j, size)' <=> Holds(j, size))
    BY <1>1, <1>3 DEF Holds
  <2>2. members[size] \subseteq Pods /\ 0 .. size - 1 \subseteq members[size]
    BY DEF Membership, TypeOK, Unmoved
  <2> QED BY <1>4, <1>5, <1>6, <2>1, <2>2 DEF Membership, Grown
<1>9. Departed'
  BY <1>3, <1>4, <1>5 DEF Membership, Departed
<1> QED BY <1>4, <1>5, <1>7, <1>8, <1>9

(* Every step keeps what is said of the members.                           *)
LEMMA MembershipStep ==
    ASSUME Membership, [Next]_vars
    PROVE  Unmoved' /\ Grown' /\ Departed'
<1>a. SUFFICES ASSUME Unedited'
               PROVE  Unmoved' /\ Grown' /\ Departed'
  BY DEF Unmoved, Grown, Departed
<1>b. Unedited /\ size' = size
  BY <1>a, StaysUnedited DEF Membership
<1> USE <1>b
<1>c. /\ tmpl = size
      /\ \A i \in Pods : env[i] = size /\ goal[i] \in {0, size}
  BY DEF Membership, Unmoved
<1>1. CASE UNCHANGED vars
  BY <1>1, <1>c, MembersThatStay DEF vars, setVars, podVars
<1>2. ASSUME NEW s \in Sizes, EditSize(s)
      PROVE  FALSE
  BY <1>a, <1>2, SpendEdits DEF EditSize, Membership
<1>3. ASSUME NEW r \in HandSizes, ScaleByHand(r)
      PROVE  Unmoved' /\ Grown' /\ Departed'
  BY <1>3, <1>c, MembersThatStay DEF ScaleByHand, podVars
<1>4. CASE Apply
  BY <1>4, <1>c, MembersThatStay DEF Apply, podVars
<1>5. ASSUME NEW i \in Pods, Controller(i)
      PROVE  Unmoved' /\ Grown' /\ Departed'
  <2>1. CASE CreatePod(i)
    <3>1. \A j \in Pods : env'[j] = size /\ goal'[j] \in {0, size}
      BY <1>c, <2>1 DEF CreatePod, Membership, TypeOK
    <3>2. \A j \in Pods : phase'[j] = "leaving" => phase[j] = "leaving"
      BY <2>1 DEF CreatePod, Membership, TypeOK
    <3> QED BY <1>c, <2>1, <3>1, <3>2, MembersThatStay DEF CreatePod, setVars
  <2>2. CASE Condemn(i) \/ Renew(i)
    <3>1. Stop(i)
      BY <2>2 DEF Condemn, Renew
    <3>2. \A j \in Pods : phase'[j] = "leaving" => phase[j] = "leaving"
      BY <3>1 DEF Stop, Membership, TypeOK
    <3> QED BY <1>c, <3>1, <3>2, MembersThatStay DEF Stop, setVars
  <2> QED BY <1>5, <2>1, <2>2 DEF Controller
<1>6. ASSUME NEW i \in Pods, Script(i)
      PROVE  Unmoved' /\ Grown' /\ Departed'
  <2>1. CASE Ping(i)
    BY <1>c, <2>1, MembersThatStay DEF Ping, setVars
  <2>2. CASE Bootstrap(i)
    BY <1>c, <2>2, MemberStarts DEF Bootstrap
  <2>3. CASE Add(i)
    BY <2>3, MemberJoins
  <2>4. CASE StartJoined(i)
    BY <1>c, <2>4, MemberStarts DEF StartJoined
  <2> QED BY <1>6, <2>1, <2>2, <2>3, <2>4 DEF Script
<1>7. ASSUME NEW i \in Pods, PreStop(i)
      PROVE  Unmoved' /\ Grown' /\ Departed'
  <2>1. CASE Leave(i)
    BY <2>1, MemberLeaves
  <2>2. CASE Wipe(i)
    <3>1. i >= size /\ i \notin members[size]
      BY <2>2 DEF Wipe, Membership, Departed
    <3>2. /\ tmpl' = tmpl /\ env' = env /\ goal' = goal /\ members' = members
          /\ disk' = [disk EXCEPT ![i] = 0] /\ removed' = removed \ {i}
          /\ \A j \in Pods : phase'[j] = "leaving" => phase[j] = "leaving"
      BY <2>2 DEF Wipe, setVars, Membership, TypeOK
    <3>3. /\ size \in Nat /\ i \in Nat /\ i \notin 0 .. size - 1
          /\ 0 .. size - 1 \subseteq Pods /\ members[size] \subseteq Pods
      BY <3>1, SizesAreNaturals DEF Membership, TypeOK, Pods
    <3>4. \A j \in Pods : disk'[j] = IF j = i THEN 0 ELSE disk[j]
      BY <3>2 DEF Membership, TypeOK
    <3>5. Unmoved' /\ Departed'
      BY <3>2, <3>4 DEF Membership, Unmoved, Departed
    <3>6. Grown'
      BY <3>1, <3>2, <3>3, <3>4 DEF Membership, Grown, Holds
    <3> QED BY <3>5, <3>6
  <2>3. CASE Terminate(i)
    <3>1. \A j \in Pods : phase'[j] = "leaving" => phase[j] = "leaving"
      BY <2>3 DEF Terminate, Gone, Membership, TypeOK
    <3> QED BY <1>c, <2>3, <3>1, MembersThatStay DEF Terminate, Gone, setVars
  <2> QED BY <1>7, <2>1, <2>2, <2>3 DEF PreStop
<1>8. ASSUME NEW i \in Pods, Die(i)
      PROVE  Unmoved' /\ Grown' /\ Departed'
  <2>1. \A j \in Pods : /\ phase'[j] = "leaving" => phase[j] = "leaving"
                        /\ goal'[j] \in {0, size}
    BY <1>8, <1>c DEF Die, Restart, Membership, TypeOK
  <2> QED BY <1>8, <1>c, <2>1, MembersThatStay DEF Die, Restart, setVars
<1>9. ASSUME NEW i \in Pods, Lose(i)
      PROVE  Unmoved' /\ Grown' /\ Departed'
  <2>1. \A j \in Pods : phase'[j] = "leaving" => phase[j] = "leaving"
    BY <1>9 DEF Lose, Gone, Membership, TypeOK
  <2> QED BY <1>9, <1>c, <2>1, MembersThatStay DEF Lose, Gone, setVars
<1> QED BY <1>1, <1>2, <1>3, <1>4, <1>5, <1>6, <1>7, <1>8, <1>9 DEF Next

(* A majority with data survives the step.                                 *)
LEMMA FormedStep ==
    ASSUME Membership, Unedited, [Next]_vars, NEW c \in Sizes, c > 1, Formed(c)
    PROVE  Formed(c)'
<1>1. TypeOK /\ c = size
  BY OneCluster DEF Membership
<1>2. CASE UNCHANGED <<disk, removed, members>>
  BY <1>1, <1>2, FormedKept DEF Holds
<1>3. CASE \/ UNCHANGED vars \/ Apply
           \/ \E s \in Sizes : EditSize(s)
           \/ \E r \in HandSizes : ScaleByHand(r)
           \/ \E i \in Pods : Controller(i) \/ Ping(i) \/ Terminate(i) \/ Die(i) \/ Lose(i)
  BY <1>2, <1>3 DEF vars, Apply, EditSize, ScaleByHand, Controller, CreatePod, Condemn,
                    Renew, Stop, Ping, Terminate, Die, Restart, Lose, Gone
<1> DEFINE M == members[size]
           D == {i \in Pods : Holds(i, size)}
<1>4. IsFiniteSet(M) /\ M \subseteq Pods /\ 0 \in M /\ 1 \in M
  <2>1. 0 .. size - 1 \subseteq M /\ size \in Nat /\ size > 1
    BY <1>1, SizesAreNaturals DEF Membership, Unmoved, TypeOK
  <2> QED BY <1>1, <2>1, MembersFinite
<1>5. ASSUME NEW i \in Pods, Bootstrap(i) \/ StartJoined(i)
      PROVE  Formed(c)'
  <2>1. /\ members' = members /\ removed' = removed
        /\ \A j \in Pods : disk[j] # 0 => disk'[j] = disk[j]
    BY <1>1, <1>5 DEF Bootstrap, StartJoined, RunEtcd, Restart, TypeOK
  <2>2. c # 0
    BY SizesAreNaturals
  <2> QED BY <1>1, <1>4, <2>1, <2>2, FormedKept DEF Holds
<1>6. ASSUME NEW i \in Pods, Add(i)
      PROVE  Formed(c)'
  <2>1. size' = size
    BY <1>6 DEF Add, setVars
  <2>2. /\ members'[size] = M \cup {i} /\ disk' = disk /\ removed' = removed
        /\ \A j \in M : Holds(j, size)
    BY <1>6, <2>1, MemberJoins DEF Add
  <2>3. IsFiniteSet(M \cup {i}) /\ \A j, k \in (M \cup {i}) \ D : j = k
    BY <1>4, <2>2, FS_AddElement
  <2>4. 0 \in (M \cup {i}) \cap D /\ 1 \in (M \cup {i}) \cap D
    BY <1>4, <2>2
  <2>5. 2 * Cardinality((M \cup {i}) \cap D) > Cardinality(M \cup {i})
    BY <2>3, <2>4, AlmostAll
  <2> QED BY <1>1, <2>2, <2>5 DEF Formed, Majority, Holds
<1>7. ASSUME NEW i \in Pods, Leave(i)
      PROVE  Formed(c)'
  <2>1. size' = size
    BY <1>7 DEF Leave, setVars
  <2>2. /\ members'[size] = M \ {i} /\ disk' = disk
        /\ removed' = removed \/ removed' = removed \cup {i}
        /\ i >= size /\ i \in M
    BY <1>7, <2>1, MemberLeaves DEF Leave
  <2>3. size \in Nat /\ i \in Nat /\ M # 0 .. size - 1
    <3>1. size \in Nat
      BY <1>1, SizesAreNaturals DEF TypeOK
    <3>2. i \in Nat
      BY ClusterAssumption DEF Pods
    <3>3. i \notin 0 .. size - 1
      BY <2>2, <3>1, <3>2
    <3> QED BY <2>2, <3>1, <3>2, <3>3
  <2>4. /\ \A j \in 0 .. size - 1 : Holds(j, size)
        /\ \A j, k \in M : ~ Holds(j, size) /\ ~ Holds(k, size) => j = k
    BY <2>3 DEF Membership, Grown
  <2>5. 0 \in (M \ {i}) \cap D /\ 1 \in (M \ {i}) \cap D
    BY <1>1, <1>4, <2>2, <2>3, <2>4
  <2>6. \A j, k \in (M \ {i}) \ D : j = k
    BY <1>4, <2>4
  <2>7. IsFiniteSet(M \ {i})
    BY <1>4, FS_RemoveElement
  <2>8. 2 * Cardinality((M \ {i}) \cap D) > Cardinality(M \ {i})
    BY <2>5, <2>6, <2>7, AlmostAll
  <2> DEFINE E == {j \in Pods : Holds(j, size)'}
  <2>9. (M \ {i}) \cap E = (M \ {i}) \cap D
    BY <2>1, <2>2 DEF Holds
  <2>10. 2 * Cardinality((M \ {i}) \cap E) > Cardinality(M \ {i})
    BY <2>8, <2>9
  <2> QED BY <1>1, <2>1, <2>2, <2>10 DEF Formed, Majority
<1>8. ASSUME NEW i \in Pods, Wipe(i)
      PROVE  Formed(c)'
  <2>1. i \notin M
    BY <1>8 DEF Wipe, Membership, Departed
  <2>2. /\ members' = members /\ removed' = removed \ {i}
        /\ \A j \in Pods : j # i => disk'[j] = disk[j]
    BY <1>1, <1>8 DEF Wipe, TypeOK
  <2> QED BY <1>1, <1>4, <2>1, <2>2, FormedKept DEF Holds
<1> QED BY <1>3, <1>5, <1>6, <1>7, <1>8 DEF Next, Script, PreStop

LEMMA MembershipInit ==
    ASSUME Init
    PROVE  Membership
<1>1. TypeOK
  BY InitTyped
<1>2. size \in Sizes /\ members[size] = 0 .. size - 1
  BY DEF Init
<1> QED BY <1>1, <1>2 DEF Init, Membership, Unmoved, Grown, Departed

(* The members of the cluster of an unchanged size, in every behaviour.    *)
LEMMA MembershipInvariance == Spec => []Membership
<1>1. Init => Membership
  BY MembershipInit
<1>2. Membership /\ [Next]_vars => Membership'
  BY TypeStep, MembershipStep DEF Membership
<1> QED BY <1>1, <1>2, PTL DEF Spec

(***************************************************************************)
(* Whatever the size and whatever other clients and failures do: while     *)
(* nobody edits the size, a majority with data is not lost by the scripts  *)
(* that add and remove members.                                            *)
(***************************************************************************)
THEOREM MajorityStays == Spec => FormedStays
<1>1. Membership /\ [Next]_vars
        => [Unedited => \A c \in Sizes : c > 1 /\ Formed(c) => Formed(c)']_vars
  BY FormedStep
<1> QED BY <1>1, MembershipInvariance, PTL DEF Spec, FormedStays

=============================================================================
