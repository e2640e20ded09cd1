------------------------------ MODULE Manifests ------------------------------
(***************************************************************************)
(* The Kubernetes objects that the operator writes for one DataflowEngine. *)
(*                                                                         *)
(* A DataflowEngine resource describes four components: the framework      *)
(* store (MySQL), the user store (etcd), the masters and the executors.    *)
(* For each one Reconcile calls one of two handlers, chosen by the         *)
(* component's ClusterTag, and each handler writes a fixed list of objects.*)
(* PlanOf(de) is the sequence of those writes, in the order of the code.   *)
(*                                                                         *)
(* A step of a plan is a record                                            *)
(*    obj    the object written, a pair <<kind, name>> (one namespace);    *)
(*    mode   "create": r.Create, an existing object counts as success;     *)
(*           "apply":  ctrl.CreateOrUpdate with a controller reference;    *)
(*    onErr  what an error of this step does: "return" ends the pass with  *)
(*           the error, "ignore" goes on with the next step, "finish" skips *)
(*           the rest of the handler and ends the pass as a success;       *)
(*    build  "ok", or "panic" when building the object dereferences a field *)
(*           that the resource does not have, or "reject" when the API     *)
(*           server refuses to create the object that was built;           *)
(*    body   the object's content: [immut, spec], where immut holds the    *)
(*           fields that the API server lets no update change.             *)
(*                                                                         *)
(* The module is purely functional.  Optional fields (Go pointers) are     *)
(* sets with at most one element.                                          *)
(***************************************************************************)
EXTENDS Naturals, Integers, Sequences, FiniteSets

(* Constants of the controllers package.                                   *)
FRAME_STANDALONE == "frame-mysql-standalone"
USER_STANDALONE  == "user-etcd-standalone"
CONTAINER_PORT   == 3306

(* The name that the address strings of masters and executors hard-code.   *)
SERVER_MASTER == "server-master"

(***************************************************************************)
(* What the API server refuses to create: an object without a name, a port *)
(* that is zero, a container without a name or an image.                   *)
(***************************************************************************)
Rejected(name, ports, containers) ==
    \/ name = ""
    \/ 0 \in ports
    \/ \E c \in containers : c.name = "" \/ c.image = ""

BuildOf(panics, rejected) ==
    IF panics THEN "panic" ELSE IF rejected THEN "reject" ELSE "ok"

Nothing == [x \in {} |-> x]

Host(name)       == [host |-> name, ordinal |-> {}]
Pod(name, ordinal) == [host |-> name, ordinal |-> {ordinal}]

(***************************************************************************)
(* Objects by kind.  A Service routes to the pods that carry all labels of *)
(* its selector.  A workload (Deployment or StatefulSet) stamps pods with  *)
(* the labels "pod"; its containers start when every name in "waits"       *)
(* resolves.                                                               *)
(***************************************************************************)
(* Mutant of ConfigMapStep: one name for the ConfigMaps of all components.  *)
ConfigMapStepShared(name, data) ==
    [obj |-> <<"ConfigMap", "dataflowcfm">>, mode |-> "apply", onErr |-> "return",
     build |-> "ok",
     body |-> [immut |-> Nothing, spec |-> [data |-> data]]]

ConfigMapStep(name, data) ==
    [obj |-> <<"ConfigMap", name>>, mode |-> "apply", onErr |-> "return",
     build |-> "ok",
     body |-> [immut |-> Nothing, spec |-> [data |-> data]]]

(* Mutant of CreateStep: a claim is created as a volume.                   *)
CreateStepVolume(kind, name, class) ==
    [obj |-> <<"PersistentVolume", name>>, mode |-> "create", onErr |-> "return",
     build |-> "ok",
     body |-> [immut |-> [class |-> class], spec |-> Nothing]]

CreateStep(kind, name, class) ==
    [obj |-> <<kind, name>>, mode |-> "create", onErr |-> "return",
     build |-> "ok",
     body |-> [immut |-> [class |-> class], spec |-> Nothing]]

(* Mutant of ServiceStep: ClusterIP is never set to None.                  *)
ServiceStepWithIP(name, headless, selector, ports, panics) ==
    [obj |-> <<"Service", name>>, mode |-> "apply", onErr |-> "return",
     build |-> BuildOf(panics, Rejected(name, ports, {})),
     body |-> [immut |-> [headless |-> FALSE],
               spec  |-> [selector |-> selector, ports |-> ports]]]

ServiceStep(name, headless, selector, ports, panics) ==
    [obj |-> <<"Service", name>>, mode |-> "apply", onErr |-> "return",
     build |-> BuildOf(panics, Rejected(name, ports, {})),
     body |-> [immut |-> [headless |-> headless],
               spec  |-> [selector |-> selector, ports |-> ports]]]

(* Mutant of WorkloadStep: the selector names the version of the image.    *)
WorkloadStepVersioned(kind, name, service, selector, template, panics) ==
    [obj |-> <<kind, name>>, mode |-> "apply", onErr |-> "return",
     build |-> BuildOf(panics, Rejected(name, template.ports, template.containers)),
     body |-> [immut |-> [selector |-> selector \cup
                              {<<"version", c.image>> : c \in template.containers},
                          service |-> service],
               spec  |-> template]]

WorkloadStep(kind, name, service, selector, template, panics) ==
    [obj |-> <<kind, name>>, mode |-> "apply", onErr |-> "return",
     build |-> BuildOf(panics, Rejected(name, template.ports, template.containers)),
     body |-> [immut |-> [selector |-> selector, service |-> service],
               spec  |-> template]]

Template(pod, replicas, containers, ports, mounts, waits, peers) ==
    [pod |-> pod, replicas |-> replicas, containers |-> containers,
     ports |-> ports, mounts |-> mounts, waits |-> waits, peers |-> peers]

OnError(handling, step) == [step EXCEPT !.onErr = handling]

-----------------------------------------------------------------------------
(* The framework store.                                                    *)

ReconcileFrameStandalone(de) ==
    LET f   == de.frame
        app == {<<"app", FRAME_STANDALONE>>}
    IN << CreateStep("PersistentVolume", "mysql-pv-volume", "mysql"),
          ConfigMapStep("mysqlcfm", "my.cnf"),
          CreateStep("PersistentVolumeClaim", "mysql-pv-claim", "mysql"),
          ServiceStep(f.name, TRUE, app, {f.port}, FALSE),
          WorkloadStep("Deployment", f.name, "", app,
              Template(app, {1}, {[name |-> f.name, image |-> f.image]}, {f.port},
                       {"mysql-pv-claim", "mysqlcfm"}, {}, {}),
              FALSE) >>

ReconcileMysqlCluster(de) ==
    LET f        == de.frame
        selector == {<<"mysql-app", f.name>>}
        pod      == selector \cup {<<"mysql-cluster", "mysql">>}
    IN << ConfigMapStep("mysql", "primary.cnf, replica.cnf"),
          ServiceStep("mysql", TRUE, selector, {f.port}, FALSE),
          ServiceStep("mysql-read", FALSE, selector, {f.port}, FALSE),
          WorkloadStep("StatefulSet", "mysql", "mysql", selector,
              Template(pod, f.size, {[name |-> "mysql", image |-> f.image]},
                       {CONTAINER_PORT, 3307}, {"mysql"}, {}, {}),
              FALSE) >>

-----------------------------------------------------------------------------
(* The user store.  The standalone handler reads Ports[1] and Ports[0]; the *)
(* cluster handler dereferences Size.  An error of the standalone          *)
(* Deployment is logged, and the handler returns nil all the same.         *)

ReconcileUserStandalone(de) ==
    LET u   == de.user
        app == {<<"app", USER_STANDALONE>>}
        missing == Len(u.ports) < 2
        ports   == IF missing THEN {} ELSE {u.ports[1], u.ports[2]}
    IN << ConfigMapStep("etcdcfm", "etcd.yml"),
          ServiceStep(u.name, TRUE, app, ports, missing),
          OnError("ignore",
            WorkloadStep("Deployment", u.name, "", app,
              Template(app, u.size, {[name |-> u.name, image |-> u.image]}, ports,
                       {"etcdcfm"}, {}, {}),
              missing)) >>

ReconcileEtcdCluster(de) ==
    LET u        == de.user
        selector == {<<"etcd-standalone", u.name>>}
        pod      == selector \cup {<<"etcd-cluster", "etcd">>}
        peers    == {Pod(u.name, i) : i \in UNION {0 .. (n - 1) : n \in u.size}}
    IN << ServiceStep(u.name, TRUE, selector, {2380, 2379}, FALSE),
          WorkloadStep("StatefulSet", u.name, u.name, selector,
              Template(pod, u.size, {[name |-> "etcd", image |-> u.image]},
                       {2380, 2379}, {}, {}, peers),
              u.size = {}) >>

-----------------------------------------------------------------------------
(* The masters.  Both forms wait for the two stores under fixed names, and *)
(* the cluster form lists its peers under the fixed name server-master.    *)

(* Mutant of MasterWaits: the masters wait for MySQL only.                 *)
MasterWaitsFrame == {Host(FRAME_STANDALONE)}

MasterWaits == {Host(FRAME_STANDALONE), Host(USER_STANDALONE)}

MasterPods(de) ==
    {Pod(SERVER_MASTER, i) : i \in UNION {0 .. (n - 1) : n \in de.master.size}}

(* Mutant of MasterLabels: the label that masters and executors share.     *)
SharedLabels == {<<"de", "engine">>}

(* The label that tells the pods of a master cluster from the executors'.  *)
MasterLabels == {<<"de-m", "master">>}

ReconcileMaster(de) ==
    LET m   == de.master
        app == {<<"app", "master">>}
    IN << CreateStep("PersistentVolume", "master-pv-volume", "master"),
          ConfigMapStep("mastercfm", "master.toml"),
          CreateStep("PersistentVolumeClaim", "master-pv-claim", "master"),
          ServiceStep(m.name, TRUE, app, {m.ports, 8291}, FALSE),
          WorkloadStep("Deployment", m.name, "", app,
              Template(app, {1}, {[name |-> m.name, image |-> de.image]},
                       {m.ports, 8291}, {"master-pv-claim", "mastercfm"},
                       MasterWaits, {Host(SERVER_MASTER)}),
              FALSE) >>

ReconcileMasterCluster(de) ==
    LET m        == de.master
        selector == MasterLabels
        pod      == selector \cup {<<"de", "engine">>}
    IN << ConfigMapStep("mastercfm", "master.toml"),
          ServiceStep(m.name, TRUE, selector, {m.ports, 8291}, FALSE),
          WorkloadStep("StatefulSet", m.name, m.name, selector,
              Template(pod, m.size, {[name |-> m.name, image |-> de.image]},
                       {m.ports, 8291}, {"mastercfm"}, MasterWaits, MasterPods(de)),
              m.size = {}) >>

-----------------------------------------------------------------------------
(* The executors.  The cluster form dereferences the size of the MASTERS:  *)
(* with one master it uses the service name, with any other number it waits *)
(* for the pod with the last ordinal and joins every master pod.           *)

ReconcileExecutor(de) ==
    LET e   == de.executor
        app == {<<"app", "executor">>}
    IN << CreateStep("PersistentVolume", "executor-pv-volume", "executor"),
          ConfigMapStep("executorcfm", "config.toml"),
          CreateStep("PersistentVolumeClaim", "executor-pv-claim", "executor"),
          ServiceStep(e.name, TRUE, app, {e.ports}, FALSE),
          WorkloadStep("Deployment", e.name, "", app,
              Template(app, {1}, {[name |-> e.name, image |-> de.image]}, {e.ports},
                       {"executor-pv-claim", "executorcfm"},
                       {Host(SERVER_MASTER)}, {Host(SERVER_MASTER)}),
              FALSE) >>

(* Mutant of loadExecutorInitContainerCommand: ordinals begin at zero.     *)
waitForPodAfterLast(de) ==
    {IF n = 1 THEN Host(SERVER_MASTER) ELSE Pod(SERVER_MASTER, n) :
        n \in de.master.size}

(* Mutant of loadExecutorInitContainerCommand: the first pod is enough.    *)
waitForFirstPod(de) ==
    {IF n = 1 THEN Host(SERVER_MASTER) ELSE Pod(SERVER_MASTER, 0) :
        n \in de.master.size}

loadExecutorInitContainerCommand(de) ==
    {IF n = 1 THEN Host(SERVER_MASTER) ELSE Pod(SERVER_MASTER, n - 1) :
        n \in de.master.size}

loadExecutorContainerCommand(de) ==
    IF de.master.size = {1} THEN {Host(SERVER_MASTER)} ELSE MasterPods(de)

ReconcileExecutorCluster(de) ==
    LET e        == de.executor
        selector == {<<"de-e", "executor">>}
        pod      == selector \cup {<<"de", "engine">>}
    IN << ConfigMapStep("executorcfm", "config.toml"),
          ServiceStep(e.name, TRUE, selector, {e.ports}, FALSE),
          WorkloadStep("StatefulSet", e.name, e.name, selector,
              Template(pod, e.size, {[name |-> e.name, image |-> de.image]}, {e.ports},
                       {"executorcfm"}, loadExecutorInitContainerCommand(de),
                       loadExecutorContainerCommand(de)),
              de.master.size = {}) >>

-----------------------------------------------------------------------------
(***************************************************************************)
(* The writes of one pass of Reconcile.  Errors of the first three handlers *)
(* end the pass; an error of the executor handler is only logged.          *)
(***************************************************************************)
FinishOnError(steps) == [i \in DOMAIN steps |-> OnError("finish", steps[i])]

PlanOf(de) ==
    (IF de.frame.cluster THEN ReconcileMysqlCluster(de)
                         ELSE ReconcileFrameStandalone(de))
    \o (IF de.user.cluster THEN ReconcileEtcdCluster(de)
                           ELSE ReconcileUserStandalone(de))
    \o (IF de.master.cluster THEN ReconcileMasterCluster(de)
                             ELSE ReconcileMaster(de))
    \o FinishOnError(IF de.executor.cluster THEN ReconcileExecutorCluster(de)
                                            ELSE ReconcileExecutor(de))

(* The object kinds that SetupWithManager watches, and so keeps in caches. *)
OwnedKinds == {"StatefulSet", "Service", "Deployment", "ConfigMap"}
=============================================================================
