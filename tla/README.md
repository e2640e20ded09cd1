# A TLA+ model of the dataflow operator

The dataflow operator is a Kubernetes operator in Go (controller-runtime
v0.11). It watches `DataflowEngine` resources and writes, for each one, the
objects that make up a dataflow engine: a MySQL store for the framework, an
etcd store for users, masters and executors. This directory holds TLA+ models
of the operator, the configurations with which TLC checks them, and proofs
that TLAPS checks.

    tlc -workers 2 -config ReconcilerEdits.cfg ReconcilerMC   # one run
    tlapm ReconcilerProofs.tla                                # proofs of a module

The first half of the models is about the operator: what it writes and when.
The second half is about what comes of it: the pods that the written objects
create, which run the scripts that the operator puts into their templates.

## 1. The system

| Component | Source | State | Operations |
|---|---|---|---|
| Controller loop | `controllers/dataflowengine_controller.go` | the manager's caches, the work queue, the pass in progress | `Reconcile`, `PVFinalizer`, `SetupWithManager` |
| Framework store handlers | `frame_standalone.go`, `frame_standalone_cluster.go`, `pv_util.go` | none of their own; ConfigMaps, volumes, Services, workloads in the API server | `ReconcileFrameStandalone`, `ReconcileMysqlCluster` |
| User store handlers | `user_standalone.go`, `user_standalone_cluster.go` | the same | `ReconcileUserStandalone`, `ReconcileEtcdCluster` |
| Master handlers | `master.go`, `master_cluster.go` | the same | `ReconcileMaster`, `ReconcileMasterCluster` |
| Executor handlers | `executor.go`, `executor_cluster.go` | the same | `ReconcileExecutor`, `ReconcileExecutorCluster` |
| API type | `api/v1/dataflowengine_types.go` | the resource's specification, finalizers, deletion | edits by users |
| Process | `main.go` | everything the process remembers | start, death, leader election |
| Pods' scripts | in the cluster handlers | files and members of etcd and MySQL | join, leave, clone, replicate |
| Start-up order | init containers of masters and executors | names that resolve | waiting with `nslookup` |

How they interact. Users write resources; the API server stores them and sends
watch events; the informers put them into caches and queue the engine's name.
One worker takes names from the queue and runs `Reconcile`: it reads the
resource from the cache, chooses one of two handlers for each of the four
components by its `clusterTag`, and each handler writes its objects one API
call after the other, with `r.Create` (volumes and claims, which have no
owner) or with `ctrl.CreateOrUpdate` and a controller reference (everything
else). Events about owned Deployments, StatefulSets, Services and ConfigMaps
queue their owner. At the end of a pass over a resource that is being deleted,
`PVFinalizer` updates the whole resource without its `pv-protection` finalizer.

What is hard about it:

- **Stale reads.** A pass works on one cached snapshot of the resource and on
  cached copies of the children, while users, the garbage collector, the
  Deployment controllers and the pass itself change the originals.
- **Half a pass.** Every call may fail, be lost, or land after its caller gave
  up, and the process may die between two calls. Some errors end the pass with
  a retry, two are only logged.
- **Fixed names.** ConfigMaps, volumes, the MySQL cluster and the dependencies
  in address strings have constant names: two engines in a namespace, or a
  component with another name, meet there.
- **Forms of a component.** Changing `clusterTag` or a name changes which
  objects are written; the old ones stay.
- **Malformed resources.** The CRD accepts resources on which a handler
  panics or whose objects the API server refuses.
- **Half a script.** The scripts of the MySQL and etcd pods keep their state in
  files on a volume that outlives them, and may die between any two commands.
- **Two sizes at once.** During a rolling update the pods of an etcd cluster
  have different ideas of its initial members.
- **Mutual waiting.** Pods wait in init containers for names that other pods
  serve once they are ready, for ever if need be.
- **Change of leader.** A process of the operator that has lost its lease goes
  on with its pass while another one reconciles.

What makes the components correct: no pass undoes a newer one; no engine takes
an object from another; no write of the operator undoes a user's; when the
operator rests the objects are what the latest specification asks for, and it
gets there; deletions complete and leave nothing behind; the objects of one
pass fit together, and no edit asks for an update that the server must refuse;
a MySQL pod that answers readers follows the primary from the right position;
the etcd pods of one Service form one cluster that keeps its data and its
quorum; every engine whose resource is sound comes up, and stays up.

## 2. The modules

| Module | What it is |
|---|---|
| `Manifests` | Pure operators: one per handler, giving the steps the handler takes for a resource, and `PlanOf`, all steps of a pass. |
| `Samples` | The resources of `config/samples`, decoded as the operator decodes them. |
| `ManifestEdits` | A state machine: one resource, edited field by field; properties of the objects of a pass. |
| `OwnedStore` | The abstract specification: a store of children shaped by the wishes of their engines. |
| `Reconciler` | The core: users, caches, queue, worker, API server, garbage collector, failures. Refines `OwnedStore`. |
| `ReconcilerMC` | Instances of `Reconciler` for TLC, with the plans that `Manifests` computes. |
| `ReconcilerProofs` | The inductive invariants of `Reconciler`, their consequences, and the refinement of `OwnedStore`, proved. |
| `RestProofs` | What a resting operator has in place, and the invariant behind it, proved. |
| `ManifestParts`, `ManifestProofs` | What the steps of a plan are, handler by handler, and the properties of `ManifestEdits`, proved. |
| `Handover` | Two operators of `Reconciler` on one API server, during a change of leader. |
| `HandoverProofs` | What neither of the two does to children and resources, and what the new leader has in place, proved. |
| `Startup` | Pods of the workloads in a plan of `Manifests`, waiting for each other's names. |
| `StartupProofs` | Which pods have run before others, and of which engines all run, proved. |
| `MysqlReplica` | The pods of a MySQL cluster: clone script, mysqld, sidecar script, volume. |
| `MysqlReplicaProofs` | What holds of them for every size and every failure, and after they all serve, proved. |
| `EtcdCluster` | The pods of an etcd cluster: start and preStop script, members, volumes. |
| `EtcdClusterProofs` | What edits of the size can never do to them, proved. |

`Reconciler` does not depend on `Manifests`: its constant `Plan` maps a
specification to the steps of its pass, and the only things it assumes of the
steps are their form, that watched objects are applied and the others created
(`PlanAssumption`), and that only the last handler's errors end a pass as a
success (`FinishAssumption`). `ReconcilerMC` gives it the plans of `Manifests`,
restricted to the objects a run focuses on (a focus keeps the order and the
error handling of the steps), so the proofs hold for every plan and the runs
use the real ones.

### How `Reconciler` corresponds to the code

- `crLog`, `log`: for each resource and child, the versions the API server has
  stored. The length is the `resourceVersion`. `crSeen`, `seen`: the version in
  the operator's cache. A watch event (`ObserveCR`, `Observe`) moves a cache by
  one version and queues the engine, or the owners before and after (`Owner`
  is the `Owns` of `SetupWithManager`, which handles the old and the new
  object of an event).
- `queue`, `pc`, `eng`, `snap`, `at`: the work queue (a set: it deduplicates),
  the worker, its engine, the version of the resource it has read
  (`Begin`, the `Get` in `Reconcile`) and the step that comes next.
- `Call` is the request of a step: `CreateOrUpdate` reads the cached child,
  refuses one with another controller (`Taken`, by name, as
  `SetControllerReference` does), makes no call for an equal one
  (`Unchanged`; only ConfigMaps stay equal, the server adds defaults to
  everything else, which the mutate functions overwrite), and sends a Create or an Update with the cached
  `resourceVersion`. `Create` does not read.
- `Accepts`, `Store`: the API server. `CallSucceeds`, `CallRefused`,
  `CallFault`: the answers. `Fail` handles an error as the step's handler and
  `Reconcile` do: return it and requeue, log it and go on, or log it and end
  the pass as a success.
- `PVFinalizer`, `UpdateCR`, `WithoutPV`: the end of a pass over a resource
  that is being deleted.
- `CallFault` and `PVFinalizerFault` may leave the request in `late`, `lateCR`;
  `LateWrite` and `LateUpdateCR` carry it out at any later time.
- `Crash`, `BuildPanics`, `Start`: the process. A restart lists everything and
  queues what it finds.
- `Collect`: the garbage collector, by uid. `Disturb`, `Squat`: other clients
  that delete, touch, change or create objects under the names of children.
  `ReleaseFinalizer`: controllers with a finalizer of their own.

A step reads its child in the cache and calls the server in one action. That
loses no behaviour: the cache may be arbitrarily old in any case, and every
other actor can act between two steps.

The field `from` of a child is in the model only: the version of the resource
that the writer of the content had read. A write that changes nothing stores
no version and so leaves `from` alone.

### How `Manifests` corresponds to the code

A step names the object, how it is written, what an error does, whether
building it panics or is rejected, and its content as far as other components
depend on it: selectors, labels of the pods, ports, mounts, replicas, the
names its init containers wait for (`waits`) and the names in its address
strings (`peers`). The immutable part is what the API server lets no update
change: selector and service name of workloads, headlessness of Services,
class of volumes. Texts of configuration files, commands, probes, resources
and environment are left out, as no other object depends on them.

### How `Handover` corresponds to the code

`main` starts a manager with leader election; the flag `--leader-elect` is set
in `config/manager/manager.yaml`. Two processes are two copies of the
variables that a process of `Reconciler` has (caches, queue, worker), made with
`INSTANCE ... WITH`; the API server's variables are shared. `TakeOver` is the
second process's `Start`. The first one does not know: it finishes its pass,
may begin `MaxStale` more, and leaves with `OldExits`, when `mgr.Start` returns
an error. The histories of resources and children are the same as in
`Reconciler`, and so are the properties. `NoRollback` is not among them: an
old pass does write old content over new for a while, and what the run checks
instead is that the new leader sees it as an event and rests only when it is
repaired, even while the old one is still in its pass. Other clients are left to the runs of `Reconciler`.

### How `Startup` corresponds to the code

`written` counts the steps of the plan that the operator has carried out; a
pod exists once its workload is written. `PassWait` is one `nslookup` of an
init container that has come back with an address, `StartContainers` the end
of the init containers. `Resolves` takes names, selectors and headlessness from
the steps of `Manifests`. `Listed` is the one thing that decides whether a
master of a cluster runs: the address it advertises, with its own namespace,
must be in the list of `loadInitClusterInfo`, which has `dev` in it.

### How `MysqlReplica` corresponds to the code

Each command of the sidecar's script that changes a file or the server is an
action, in the order of `pc`; a redirection is two (the shell empties the file,
the command fills it), and so is `rm` of two files. `disk` holds the files,
by what later commands tell apart: a coordinate is the one that the copied
data reaches in the primary's log (`copy`) or one of the peer's own (`peer`).
The script that runs is `spec.frameStandalone.backupCommand`, which the samples
give; `loadBackupCommand` in `frame_standalone_cluster.go`, with the same
commands and with comments, is called by nobody (and would not parse:
`[[ echo $(...)`). `SlaveInfo` and `BinlogInfo` say what xtrabackup puts
into a backup of the peer; `PeerBinlog` leaves open whether a replica has a
binary log, which depends on the version of the image. `early` is a history
variable: a failure struck before all pods served. Once one has, a replica can
be wrong for good, in each of these ways, and so most properties say "unless
`early`":

- a clone that dies half-way leaves its directory, and the next start takes it
  for a complete copy;
- a sidecar that dies between the two files of one `rm`, when both were there,
  takes the second branch at its next start, overwrites the statement that it
  had, and follows from the coordinate of the wrong server's log;
- one that dies between `START SLAVE` and `mv` sends `CHANGE MASTER` again,
  which mysqld refuses, and it restarts for ever;
- one that dies between `rm` of `xtrabackup_binlog_info` and `echo` loses the
  coordinate (the run `MysqlLost`).

`relayed` and `cut` are history variables as well: the slave info that a copy
came with, and the pods to which the second of these has happened. `RelayKept`
has no condition on `early`: whatever fails and whenever, a pod whose complete
copy came with slave info serves only while it follows, and it follows from
just that coordinate unless it is in `cut`.

### How `EtcdCluster` corresponds to the code

`Apply` is the operator: replicas and `INITIAL_CLUSTER_SIZE` of the template
in one update. `CreatePod`, `Condemn` and `Renew` are the StatefulSet
controller. `Ping`, `Bootstrap`, `Add` and `StartJoined` are the two branches
of the start script, `Leave`, `Wipe` and `Terminate` the preStop script, which
runs beside etcd. A cluster that was bootstrapped is named by its number of
initial members, so two of different sizes are two clusters. `Add` and
`MayLeave` say what etcd asks of a change of membership: members that run and
a majority, before the change and, for one that leaves, also after it. A member
is known by an id in its data directory, which `member add` gives anew, not by
the name of its pod. So a pod that is killed between `member remove` and `rm`
(`Leave`, then `Lose` instead of `Wipe`) is in `removed`: it may be created and
added again, but from its old data etcd exits, and it starts for ever
(`RunEtcd`; the script's comment says "otherwise the cluster will no longer
scale-up"). Its data counts neither as running nor as data of the cluster
(`Holds`). A joined pod whose container restarts stays in `Add` for ever:
`member_hash` has no endpoints, so the script does not find its old membership,
and `member add` refuses it. `Alone` says that no other client has changed the
replicas, `Unedited` that no user has changed the size.

## 3. The runs

All runs have `CHECK_DEADLOCK FALSE`: an operator whose users are content and
whose bounds are used up rests, and that is no error.

| Run | Question |
|---|---|
| `ReconcilerEdits` | One engine, created, edited, deleted, with a second finalizer and a call or a finalizer update that fails or lands late: does the operator implement `OwnedStore`, never roll a child back, lose no edit, and rest only converged? |
| `ReconcilerDisturbed` | Two engines that want the same objects, a crash, another client's write and a taken name, on a step whose error is returned and one whose error is logged: what is in place at rest? Do the two invariants of the proofs hold? |
| `ReconcilerLive` | Convergence, of what is reported always and of what is only logged while no call fails, completion of deletions, collection of children, under fairness, with a resource on which the operator panics until the user corrects it. |
| `Handover` | Two engines that want one object, and two processes, one in a stale pass: does the new leader rest only converged (`RestConverged`, `RestSound`), and does anybody take the object away? |
| `ManifestEdits` | All resources that single edits of the samples reach: Services route to exactly their pods, mounts are provided, StatefulSets governed, names resolve in order, objects are distinct, edits keep immutable fields. |
| `Startup` | Which engines ever run completely, over all names, forms and namespaces, in what order do their pods first run, and do all that can run come up for good although a pod is lost? |
| `MysqlReplica` | Four pods, failures between any two commands: is slave info ever lost or exchanged (but where `RelayKept` says so), does a replica ever make a database of its own? And unless something failed before all served: does nobody serve without following, from the right position, with one `CHANGE MASTER`, and do all serve again? |
| `EtcdCluster` | An edit of the size, two changes of the replicas by another client, two losses or restarts, so that a pod comes back with the data of a removed member: do edits reach the branch for new members, or make a pod give up its data? Does a majority keep its data, and does the cluster come up for good? |

Four runs end with a counterexample, each for a disagreement between the code
and what its documentation says:

| Run | What it shows |
|---|---|
| `ReconcilerToggle` | Switching the executors to a cluster leaves the old Deployment running. |
| `ReconcilerPanic` | `dataflow_v1_single_frame_storage.yaml`, which the README of the repository applies in step 4, has no `userStandalone`; reading `Ports[1]` panics. |
| `MysqlLost` | A sidecar that dies between `rm` of `xtrabackup_binlog_info` and `echo` loses the coordinate: the replica answers reads without a master. |
| `EtcdRest` | From three pods to one: the members that go are not removed, and the quorum is lost. |

Some properties of the passing runs have a condition that is itself a remark
on the code:

- `RestSound`, about objects whose errors are swallowed, asks that no call
  failed, nobody took a name and no other engine ever had the object: one
  failing call for the executors or the etcd Deployment is logged, the pass
  ends as a success, and the operator rests without the object. Two
  engines that share a name need no failure for it: an engine that is made
  while the executors it names still belong to one that was deleted is refused,
  the refusal is logged, and their deletion queues the old engine only. With
  `MaxUser` = 3 TLC finds that, when the condition is left out.
- `EditsKeepImmutable` has two exceptions: renaming the MySQL cluster changes the
  selector of the StatefulSet `mysql`, which is immutable, and every later pass
  stops there. And a standalone store that is named `mysql-read` has a headless
  Service of that name, where the cluster's must have an address.
- `Converges` is stated, for the same reason, for steps whose errors are returned,
  and for the others under the conditions of `RestSound` (`Concerns`); without
  them TLC finds that a failed call for the executors is never repeated.
- `Converges` and `DeletionCompletes` ask that every object of the specification
  can be built and is accepted: otherwise every pass ends before its end, which
  is where `PVFinalizer` is, and a resource that is deleted stays until its user
  corrects it.
- `FormedStays` and `ComesUp` ask that no user changed the size: from one pod
  to three, the two new pods form a cluster of their own. `FormedStays` leaves
  out clusters of one: the script adds the second member before its pod has
  started, and until then one of two is no majority.

### Bounds

`MaxUser`, `MaxFault`, `MaxCrash`, `MaxChurn`, `MaxSquat` bound how often
users, failures, crashes and other clients act; everything the operator itself
does is unbounded. Three user actions (`ReconcilerEdits`) allow create, edit,
delete and create, delete, create again; one fault of each kind is enough for a
request to be overtaken by a complete newer pass. Each run has two objects or
three, so that a fault falls before, between and after steps.
`ReconcilerEdits`: a Service and a claim, which is created without an owner and
never updated; the resource has two finalizers. `ReconcilerDisturbed`: a
ConfigMap, which may stay unchanged, and the executors' Deployment, whose errors
are logged. `ReconcilerLive`: the user store's Service, whose errors are
returned, this Deployment, and the Service without a name or ports that the
storage samples ask for, so that the operator panics. `ReconcilerDisturbed` and `Handover` have two engines that want the
same objects; nothing in the model tells them apart, so the runs, which check
invariants only, take them as symmetric (`Alike`). `MaxAhead` bounds one thing that would otherwise go on for ever:
while the operator does not know of a deletion, it may rewrite a child as often
as the collector removes it; collections after it knows are not bounded.

In `ManifestEdits` every name has two values (the sample's, and `mysql-read`,
which clashes with the MySQL cluster), sizes are 1 and 3, or absent as in the storage samples, and both forms of
all components occur in all combinations. `EditsKeepImmutable` compares the
plans of one edit; an object that was left behind by an earlier form of the
component (as in `ReconcilerToggle`) is compared only when its form comes back.

`Handover` has two engines whose plans name the same Service, so that either
may find it taken, and `MaxStale` = 1: the old process finishes its pass and
makes one more.

`Startup` has two names for each component that others hard-code (the right
one and another), both forms of all four, two namespaces, and no, one or two
masters; two is where "the last master" and "every master" differ. One lost pod
is enough, as a pod that comes back finds the names of all others.

`MysqlReplica` has four pods, so that there is one that copies from the
primary, one from that copy, and one from the copy of a copy, with and without
a binary log of their own; `MaxFault` is three: failures hit the recovery from
earlier ones, on the same pod and on its peer. In `MysqlLost` two pods and one
failure are enough.

`EtcdCluster` has two or three initial members, one edit, which gives a rolling
update that every failure can meet, two changes by hand and two failures, at
most four of these events together (`MaxEvents`), which keeps the run small.
Other clients choose four replicas; the operator takes them back. Three events
bring data of a removed member back: four pods by hand, the preStop script of
one that goes is killed between its two commands, and four pods by hand again;
a fourth is one more failure, of any pod at any time, or the edit. Fewer replicas
by hand are left to the proofs of the safety properties, which cover any: they
stop pods and make them again, as losses do. With three initial pods and one that joins, the
initial ones are a majority by themselves, and `ComesUp` holds. With two and
two it does not: if one initial pod restarts while the joined ones are scaled
down, their preStop scripts find no quorum that would remove them, and two
members of four are left for good; for two initial members `ComesUp` is
therefore about a cluster that nobody changes by hand. One initial member is
left to `EtcdRest`: adding a second one takes away the majority of the first
until the new pod has started.

### Fairness

`Pass`, `ObserveCR`, `Observe`, `Start`, `Collect` and `ReleaseFinalizer` are
weakly fair: the worker does not stop in the middle of a pass, the watches
deliver, the kubelet restarts the operator, collector and other controllers
run. `Begin(c)` is strongly fair: the work queue hands out names in order, so
an engine that is queued again and again gets its turn even if crashes empty
the queue in between. Users, faults, late requests, resyncs, other clients and
crashes are not fair: liveness never depends on them, and
in particular not on the resync, which is ten hours away by default.

`Handover` is checked for safety only: what its second process does once the
first is gone is what `ReconcilerLive` checks. `Startup`, `MysqlReplica` and `EtcdCluster`
have weak fairness of the operator's writes and, for each pod, of everything
that its controller and its containers do, since the kubelet restarts what
dies and the scripts loop until they get on. Failures, users and other clients
are not fair.

## 4. What is proved

`ReconcilerProofs` proves, for every set of engines, objects, specifications
and finalizers, every plan and every bound:

- `Invariance`: `Spec => []IInv`, the inductive invariant;
- `TypeCorrectness`: `Spec => []TypeOK`;
- `RollbackFreedom`: `Spec => []NoRollback`, no child goes back to an older
  version of its engine's resource;
- `TheftFreedom`: `Spec => []NoTheft`, no engine takes a child from another;
- `EditSafety`: `Spec => []NoLostEdit`, no finalizer update undoes what users
  or other controllers have written.

The assumptions are those of `Reconciler`: the form of plans
(`PlanAssumption`, `FinishAssumption`), distinct names (`NamesAssumption`) and
natural bounds.

*The argument.* `NoRollback` and `NoTheft` speak about neighbours in a
history and are not inductive: a new version may come from a pass with an old
snapshot or from a request that was in flight. `OwnerInv` adds what `NoTheft`
needs: `PassOK` and `CacheOK` tie snapshot, step and caches to the histories,
and `LateOwners` says that a request in flight leaves the version whose
`resourceVersion` it carries with its owner; histories never change in their
past, so this stays true until the server compares the `resourceVersion`.
`IInv` adds ages for `NoRollback`. `Horizon`: no stored version stems from a
version of the resource that the operator's cache has not reached, and, for the
engine of the current pass, none is newer than its snapshot. So what the pass
writes is at least as new as everything stored. `LateOK`: a request in flight
is at least as new as the version it replaces. The two are kept apart because
`OwnerInv` needs no assumption about who else writes, and so holds of each of
the two processes of `Handover`, where `Horizon` does not.

*The layout.* All actions change the variables in one of a few ways: a log
gains at most one version that its owner may store, caches move forward,
requests in flight keep owners, the worker keeps, drops or takes a snapshot.
`Shape` says so, `ShapeInvariant` proves that a step of this shape preserves
`OwnerInv`, and one lemma per action (or group of actions that only move the
worker) proves that it has this shape (`NextShape`). For ages, `AgeStep` says
what a step stores or sends and `NextAge` that each does. `EditSafety` adds one
fact about resources (`Dated`: a specification was written no later than the
version that holds it was stored, so a new edit is newer than all before) and
proves that every step that stores a version keeps what it must of the one
before.

The module also proves `Implementation`: `Spec => ImplementsStore`, the
operator with its caches, queue, late requests and failures implements the
abstract store. *The argument.* `IInv` says in which order writes come; the
store asks besides that each stems from a wish that a user had. `Origin` adds
that: the version which a pass follows was live, and a request in flight
carries what some step of the plan of its version asks for (`Genuine`). Each
action of `Reconciler` is then a step of the store (a wish, a write for a wish,
a removal, another client's write) or leaves it as it is.

`RestProofs` proves, as generally:

- `RestInvariance`: `Spec => [](OwnerInv /\ RestInv)`;
- `ConvergedSafe`: `Spec => []RestConverged`, a resting operator has in place
  what it reports errors about;
- `SoundSafe`: `FixedParts => (Spec => []RestSound)`, and without failures and
  other owners also what it does not.

*The argument.* `RestConverged` is about quiet states only, and what makes a
state quiet is a long history of passes, events and errors. `RestInv` says what
is true in between: an object that is not in place is owed to its engine
(`Owed`). Either a pass with the latest specification is coming (`Coming`): the
operator is down, the engine is queued, its cached version is old, or an event
of a child that was the engine's has not arrived (`Pending`); or such a pass is
under way and has the step before it (`ToDo`). In a quiet state nothing is
coming or under way, so nothing is owed. Another client can disturb an object
that is in place only by storing a version, whose event is then pending,
because the version before it named the engine (`PlaceKept`). A pass discharges
a step by writing the object, by finding it right in a cache that is current
(`CacheCurrent`), or by an error that queues the engine again. An error that is
swallowed discharges nothing, so for those steps the proof has to exclude
errors (`NoFailure`): the cache is current, every version belongs to the engine
(`Ours`, `Unshared`), and its immutable fields are what some plan asks for
(`Contents`) and so what all plans ask for (`FixedParts`). `OwedStep` reduces
each action to what it does with passes that are coming or under way. The proof
attempt is what showed that `RestSound` needs `Unshared`: with its two user
actions `ReconcilerDisturbed` has no deletion beside two creations. `FixedParts` is a condition on the plans that
`ReconcilerMC` checks for every run (`PartsAssumption`); `EditsImmutableSafe`
says which edits keep it.

`HandoverProofs` proves of `Handover`, for any number of stale passes, and
otherwise as generally:

- `HandoverInvariance`: `HandoverSpec => []HandoverInv`, the invariant of both;
- `HandoverTheftFree`: `HandoverSpec => []NoTheft`;
- `HandoverRestsSafe`: `HandoverSpec => []HandoverRests`;
- `HandoverEdits`: `HandoverSpec => []NoLostEdit`.

*The argument.* `R`, an instance of `RestProofs` with the second process's
variables, makes every lemma about one process a lemma about the second.
`HandoverInv` is `OwnerInv` of both processes and `RestInv` of the second. A
step of the first has the `Shape` of a step of `Reconciler`, and its part about
the API server is what the second process sees of it (`SharedSteps`,
`SharedContent`); caches, queue and worker of the second do not change, so for
it this is a step of some other client (`NewAside`), whose writes it owes to
nobody but is told of. The same holds the other way round (`OldAside`). No lease
is used anywhere: `resourceVersion`, the owner check and the events are what
protects the children. `RestInv` of the *first* process is not claimed: when it
exits, it leaves what is owed to the second. Model checking showed that
`HandoverRests` needs no condition on the first process, and so it is stated
without one.

`EtcdClusterProofs` proves, for every set of sizes and every bound:

- `Typing`: `Spec => []TypeOK`;
- `NeverJoins`: `Spec => []JoinBranchDead`: until another client changes the
  replicas, edits of the size never reach the branches that add and remove
  members;
- `DataStays`: under the same condition, `Spec => DataKept`;
- `MajorityStays`: `Spec => FormedStays`, while nobody edits the size the
  scripts lose no majority that has the data.

*The argument.* Replicas and template change together (`Together`), so every pod
that is made has an ordinal below the size in its environment, which it keeps.
So none runs the part of the preStop script that wipes a volume (`NoneLeaves`),
and etcd writes a data directory only where there is none. `MajorityStays` has no
condition on the replicas, so there the branches for new members do run. Its
invariant is `Membership`: all pods have the environment of the one size
(`Unmoved`), a member is added when all others have data, and one at a
time (`Grown`), and a pod that wipes its volume has left the cluster
(`Departed`). Data of a removed member is not data of the cluster (`Holds`), so a
pod that is added again with it is the one member without. So at most one member has no data, and from two members with data
on the rest is a majority whether one comes or goes (`AlmostAll`). TLC refuted
the property for a cluster of one, which is why `FormedStays` leaves it out.

`MysqlReplicaProofs` proves, for every size, every version of the backup tool
and every sequence of failures, `Typing`, `NoOwnData` (`[]NeverOwnData`) and
`SlaveInfoSurvives` (`[]RelayKept`). *The argument.* `Carried` says where the
coordinate is at each command: in the file of the copy until the statement has
been written, and in the statement until replication is on; the first branch
never holds it in the shell alone. `Origin` says that it is the one that came
with the copy, and that once the file with it is gone there is none from the
peer either, but between the two removals: a sidecar that dies just there puts
its pod into `cut`, and any other starts again where the second branch finds
nothing. `Begun` says that a replica whose clone has
ended has a directory.

It also proves `[]LateHarmless` (unless `early`,
`ServingFollows`), `[]SoundPosition` and `[]AtMostOnce`, for every size and
every number of failures. *The argument.* Until the first failure every pod is
at a known stage of its script (`Staged`), which fixes its files, and a pod
that is being copied serves and so does nothing else. When all serve, every
volume is `Finished`: there is no file left to take, and nothing that a
container does on its way up touches it. `MysqlLost` shows that `early` is
needed.

The assumptions are `ClusterAssumption` and `ReplicaAssumption`, on the types of
the constants.

`ManifestProofs` proves of `ManifestEdits`, for all names, sizes, ports and
images and any sequence of edits:

- `RoutesSafe`, `MountsSafe`, `GovernedSafe`, `DistinctSafe`, `ResolveSafe`:
  the five invariants of the run;
- `EditsImmutableSafe`: `Spec => EditsKeepImmutable`.

*The argument.* A plan is four parts, one for each component (`Part`,
`PlanFacts`), and `ManifestParts` says of each of the eight handlers which
steps it takes (`PartForms`): the names of its objects (`OwnNames`, which the
user chose, or `FixedNames`), the label that its Services select (`Label`) and
that its workload stamps on pods, what it mounts, and that the workload comes
last. Labels and fixed names differ between components (`LabelFacts`,
`FixedNamesApart`), so no Service selects the pods of another part. An edit
changes one component, so all parts but one stay, and in that one only the form
or the name decides about immutable fields. The attempt to prove
`EditsKeepImmutable` for all names is what showed its second exception: with
the name `mysql-read`, a standalone store and the cluster share a Service.
The one assumption is `SizesAssumption`, the type of an optional size.

`StartupProofs` proves of `Startup`, for every number of pods and of losses:

- `StartTypeSafe`: `StartSpec => []StartTypeOK`;
- `StartOrderSafe`: `NamesFree => (StartSpec => []StartOrder)`;
- `RunsOnlySafe`: `NamesFree => (StartSpec => []RunsOnlyStartable)`.

*The argument.* Whether a name resolves changes from moment to moment, as pods
are lost. What stays is that it once did: `Served` is `Resolves` with "a pod
that has run" for "a pod that is ready". `LifeInv` says that a ready pod has
run, that a pod has been served all names that it has passed or, if it has run,
all that it waits for, and that the pods of a StatefulSet first run in order.
A pod that has run so leads to those before it: from an executor to the last
master and all masters, from a master to both stores. `NamesFree`, that the names a user
may choose are not those hard-coded for *another* component, is needed: with
the names of the two standalone stores exchanged all pods run, although each
waits for the wrong one, and a user store named `server-master` lets executors
run before masters; TLC finds both when it is given these names.

*Only model-checked:* liveness (the prover has no rules for it under fairness)
and that the plans of the instances agree on immutable fields
(`PartsAssumption`).

## 5. What is not modelled

- Texts of configuration, commands, probes, resources; status (no code writes
  it); RBAC; `test/main.go`; the generated code; `suite_test.go`, which
  contains no test of the controller.
- The lease of the leader election itself, which is client-go's.
- What etcd and mysqld do inside: elections, logs, the rows that clients write.
- Liveness probes; a slow readiness of mysqld; images that cannot be pulled.
- A stale list after a restart: `Start` reads the current state, as a single
  API server gives it.
- Deletion of the namespace, and volumes, which are cluster-wide, shared
  between namespaces.
- The defaults that the API server adds; their only effect in the model is
  that objects other than ConfigMaps are updated in every pass.

## 6. Plan

1. An abstract store for two processes: each write still stems from a wish,
   but not in the order of the wishes.
2. Namespaces: deletion in progress, and volumes shared between engines.
