----------------------------- MODULE ManifestParts ----------------------------
(***************************************************************************)
(* What the handlers of module Manifests write, as facts for proofs.       *)
(*                                                                         *)
(* The plan of a resource is made of four parts, one for each component.   *)
(* XForm says what the handler X writes, XSteps that it does; PartForm is  *)
(* what the two handlers of a component have in common, and PlanFacts puts *)
(* the four parts together.                                                *)
(***************************************************************************)
EXTENDS ManifestEdits, TLAPS

-----------------------------------------------------------------------------
(* Short sequences, and sequences put together.                            *)

LEMMA Tuple2 ==
    ASSUME NEW P, NEW a, NEW b, P = <<a, b>>
    PROVE  (\E S : P \in Seq(S)) /\ Len(P) = 2
<1>1. P \in Seq({a, b}) /\ Len(P) = 2
  OBVIOUS
<1> QED
  BY <1>1

LEMMA Tuple3 ==
    ASSUME NEW P, NEW a, NEW b, NEW c, P = <<a, b, c>>
    PROVE  (\E S : P \in Seq(S)) /\ Len(P) = 3
<1>1. P \in Seq({a, b, c}) /\ Len(P) = 3
  OBVIOUS
<1> QED
  BY <1>1

LEMMA Tuple4 ==
    ASSUME NEW P, NEW a, NEW b, NEW c, NEW d, P = <<a, b, c, d>>
    PROVE  (\E S : P \in Seq(S)) /\ Len(P) = 4
<1>1. P \in Seq({a, b, c, d}) /\ Len(P) = 4
  OBVIOUS
<1> QED
  BY <1>1

LEMMA Tuple5 ==
    ASSUME NEW P, NEW a, NEW b, NEW c, NEW d, NEW e, P = <<a, b, c, d, e>>
    PROVE  (\E S : P \in Seq(S)) /\ Len(P) = 5
<1>1. P \in Seq({a, b, c, d, e}) /\ Len(P) = 5
  OBVIOUS
<1> QED
  BY <1>1

LEMMA ConcatFacts ==
    ASSUME NEW S, NEW T, NEW a \in Seq(S), NEW b \in Seq(T)
    PROVE  /\ a \o b \in Seq(S \cup T)
           /\ Len(a \o b) = Len(a) + Len(b)
           /\ \A i \in 1 .. Len(a) : (a \o b)[i] = a[i]
           /\ \A i \in 1 .. Len(b) : (a \o b)[Len(a) + i] = b[i]
OBVIOUS

LEMMA FinishFacts ==
    ASSUME NEW S, NEW a \in Seq(S)
    PROVE  /\ \E T : FinishOnError(a) \in Seq(T)
           /\ Len(FinishOnError(a)) = Len(a)
           /\ \A i \in 1 .. Len(a) : FinishOnError(a)[i] = OnError("finish", a[i])
<1>1. FinishOnError(a) \in Seq({OnError("finish", x) : x \in S})
  BY DEF FinishOnError
<1> QED
  BY <1>1 DEF FinishOnError

-----------------------------------------------------------------------------
(* What the steps of a handler look like.                                  *)

IsConfig(st, name) ==
    st.obj[1] = "ConfigMap" /\ st.obj[2] = name /\ st.body.immut = Nothing

IsStore(st, kind, name, class) ==
    st.obj[1] = kind /\ st.obj[2] = name /\ st.body.immut = [class |-> class]

IsService(st, name, headless, label, ports) ==
    /\ st.obj[1] = "Service" /\ st.obj[2] = name
    /\ st.body.immut = [headless |-> headless] /\ st.body.immut.headless = headless
    /\ st.body.spec.selector = {label} /\ st.body.spec.ports = ports

IsWorkload(st, kind, name, service, label) ==
    /\ st.obj[1] = kind /\ st.obj[2] = name
    /\ st.body.immut = [selector |-> {label}, service |-> service]
    /\ st.body.immut.service = service

Stamps(st, pod, replicas, ports, mounts, waits, peers) ==
    /\ st.body.spec.pod = pod /\ st.body.spec.replicas = replicas
    /\ st.body.spec.ports = ports /\ st.body.spec.mounts = mounts
    /\ st.body.spec.waits = waits /\ st.body.spec.peers = peers

(* The way in which errors are handled is no part of the object.           *)
Keeps(st) ==
    LET fin == OnError("finish", st) IN fin.obj = st.obj /\ fin.body = st.body

(* The pods of an etcd cluster, as its address list names them.            *)
EtcdPods(d) == {Pod(d.user.name, i) : i \in UNION {0 .. (n - 1) : n \in d.user.size}}

(* Every step of a handler is made by one of four constructors.            *)
LEMMA StoreForm ==
    ASSUME NEW kind, NEW name, NEW class
    PROVE  IsStore(CreateStep(kind, name, class), kind, name, class)
BY DEF IsStore, CreateStep

LEMMA ConfigForm ==
    ASSUME NEW name, NEW data
    PROVE  IsConfig(ConfigMapStep(name, data), name)
BY DEF IsConfig, ConfigMapStep

LEMMA ServiceForm ==
    ASSUME NEW name, NEW headless, NEW label, NEW ports, NEW panics
    PROVE  IsService(ServiceStep(name, headless, {label}, ports, panics),
                     name, headless, label, ports)
BY DEF IsService, ServiceStep

LEMMA WorkloadForm ==
    ASSUME NEW kind, NEW name, NEW service, NEW label, NEW t, NEW panics
    PROVE  LET st == WorkloadStep(kind, name, service, {label}, t, panics)
           IN  /\ IsWorkload(st, kind, name, service, label)
               /\ IsWorkload(OnError("ignore", st), kind, name, service, label)
<1> DEFINE st == WorkloadStep(kind, name, service, {label}, t, panics)
<1>1. IsWorkload(st, kind, name, service, label)
  BY DEF IsWorkload, WorkloadStep
<1>2. IsWorkload(OnError("ignore", st), kind, name, service, label)
  BY DEF IsWorkload, WorkloadStep, OnError
<1> QED
  BY <1>1, <1>2

LEMMA TemplateForm ==
    ASSUME NEW kind, NEW name, NEW service, NEW label, NEW panics,
           NEW pod, NEW replicas, NEW containers, NEW ports, NEW mounts, NEW waits, NEW peers
    PROVE  LET st == WorkloadStep(kind, name, service, {label},
                         Template(pod, replicas, containers, ports, mounts, waits, peers),
                         panics)
           IN  /\ Stamps(st, pod, replicas, ports, mounts, waits, peers)
               /\ Stamps(OnError("ignore", st), pod, replicas, ports, mounts, waits, peers)
<1> DEFINE t == Template(pod, replicas, containers, ports, mounts, waits, peers)
           st == WorkloadStep(kind, name, service, {label}, t, panics)
<1>1. Stamps(st, pod, replicas, ports, mounts, waits, peers)
  BY DEF Stamps, WorkloadStep, Template
<1>2. Stamps(OnError("ignore", st), pod, replicas, ports, mounts, waits, peers)
  BY DEF Stamps, WorkloadStep, Template, OnError
<1> QED
  BY <1>1, <1>2

LEMMA KeepForm ==
    /\ \A kind, name, class : Keeps(CreateStep(kind, name, class))
    /\ \A name, data : Keeps(ConfigMapStep(name, data))
    /\ \A name, headless, selector, ports, panics :
          Keeps(ServiceStep(name, headless, selector, ports, panics))
    /\ \A kind, name, service, selector, t, panics :
          Keeps(WorkloadStep(kind, name, service, selector, t, panics))
<1>1. \A kind, name, class : Keeps(CreateStep(kind, name, class))
  BY DEF Keeps, CreateStep, OnError
<1>2. \A name, data : Keeps(ConfigMapStep(name, data))
  BY DEF Keeps, ConfigMapStep, OnError
<1>3. \A name, headless, selector, ports, panics :
         Keeps(ServiceStep(name, headless, selector, ports, panics))
  BY DEF Keeps, ServiceStep, OnError
<1>4. \A kind, name, service, selector, t, panics :
         Keeps(WorkloadStep(kind, name, service, selector, t, panics))
  BY DEF Keeps, WorkloadStep, OnError
<1> QED
  BY <1>1, <1>2, <1>3, <1>4

-----------------------------------------------------------------------------
(* The handlers of the framework store, the user store, the masters and the *)
(* executors: each form and that the handler's list of writes has it.      *)

FrameStandaloneForm(d, P) ==
    LET label == <<"app", FRAME_STANDALONE>>
    IN  /\ \E S : P \in Seq(S)
        /\ Len(P) = 5
        /\ IsStore(P[1], "PersistentVolume", "mysql-pv-volume", "mysql")
        /\ IsConfig(P[2], "mysqlcfm")
        /\ IsStore(P[3], "PersistentVolumeClaim", "mysql-pv-claim", "mysql")
        /\ IsWorkload(P[5], "Deployment", d.frame.name, "", label)
        /\ \E ports :
             /\ IsService(P[4], d.frame.name, TRUE, label, ports)
             /\ Stamps(P[5], {label}, {1}, ports,
                          {"mysql-pv-claim", "mysqlcfm"}, {}, {})

LEMMA FrameStandaloneSteps ==
    ASSUME NEW d
    PROVE  FrameStandaloneForm(d, ReconcileFrameStandalone(d))
<1> DEFINE P == ReconcileFrameStandalone(d)
           label == <<"app", FRAME_STANDALONE>>
           ports == {d.frame.port}
           pod == {label}
           containers == {[name |-> d.frame.name, image |-> d.frame.image]}
           mounts == {"mysql-pv-claim", "mysqlcfm"}
           replicas == {1}
           waits == {}
           peers == {}
           panics == FALSE
           headless == TRUE
<1>1. P = <<P[1], P[2], P[3], P[4], P[5]>>
  BY DEF ReconcileFrameStandalone
<1>2. P[1] = CreateStep("PersistentVolume", "mysql-pv-volume", "mysql")
  BY DEF ReconcileFrameStandalone
<1>3. P[2] = ConfigMapStep("mysqlcfm", "my.cnf")
  BY DEF ReconcileFrameStandalone
<1>4. P[3] = CreateStep("PersistentVolumeClaim", "mysql-pv-claim", "mysql")
  BY DEF ReconcileFrameStandalone
<1>5. P[4] = ServiceStep(d.frame.name, headless, {label}, ports, panics)
  BY DEF ReconcileFrameStandalone
<1>6. P[5] = WorkloadStep("Deployment", d.frame.name, "", {label},
               Template(pod, replicas, containers, ports, mounts,
                        waits, peers),
               panics)
  BY DEF ReconcileFrameStandalone
<1> HIDE DEF P, label, ports, pod, containers, mounts, replicas, waits, peers, panics, headless
<1>7. (\E S : P \in Seq(S)) /\ Len(P) = 5
  BY <1>1, Tuple5
<1>8. IsStore(P[1], "PersistentVolume", "mysql-pv-volume", "mysql")
  BY <1>2, StoreForm
<1>9. IsConfig(P[2], "mysqlcfm")
  BY <1>3, ConfigForm
<1>10. IsStore(P[3], "PersistentVolumeClaim", "mysql-pv-claim", "mysql")
  BY <1>4, StoreForm
<1>11. IsService(P[4], d.frame.name, headless, label, ports)
  BY <1>5, ServiceForm
<1>12. IsWorkload(P[5], "Deployment", d.frame.name, "", label)
  BY <1>6, WorkloadForm
<1>13. Stamps(P[5], pod, replicas, ports, mounts, waits, peers)
  BY <1>6, TemplateForm
<1> QED
  BY <1>7, <1>8, <1>9, <1>10, <1>11, <1>12, <1>13
     DEF FrameStandaloneForm, P, label, pod, mounts, replicas, waits, peers, headless

MysqlClusterForm(d, P) ==
    LET label == <<"mysql-app", d.frame.name>>
    IN  /\ \E S : P \in Seq(S)
        /\ Len(P) = 4
        /\ IsConfig(P[1], "mysql")
        /\ IsWorkload(P[4], "StatefulSet", "mysql", "mysql", label)
        /\ \E ports :
             /\ IsService(P[2], "mysql", TRUE, label, {d.frame.port})
             /\ IsService(P[3], "mysql-read", FALSE, label, {d.frame.port})
             /\ Stamps(P[4], {label} \cup {<<"mysql-cluster", "mysql">>}, d.frame.size, ports,
                          {"mysql"}, {}, {})
             /\ CONTAINER_PORT \in ports

LEMMA MysqlClusterSteps ==
    ASSUME NEW d
    PROVE  MysqlClusterForm(d, ReconcileMysqlCluster(d))
<1> DEFINE P == ReconcileMysqlCluster(d)
           label == <<"mysql-app", d.frame.name>>
           sold == {d.frame.port}
           ports == {CONTAINER_PORT, 3307}
           pod == {label} \cup {<<"mysql-cluster", "mysql">>}
           containers == {[name |-> "mysql", image |-> d.frame.image]}
           mounts == {"mysql"}
           waits == {}
           peers == {}
           panics == FALSE
           headless == TRUE
           balanced == FALSE
<1>1. P = <<P[1], P[2], P[3], P[4]>>
  BY DEF ReconcileMysqlCluster
<1>2. P[1] = ConfigMapStep("mysql", "primary.cnf, replica.cnf")
  BY DEF ReconcileMysqlCluster
<1>3. P[2] = ServiceStep("mysql", headless, {label}, sold, panics)
  BY DEF ReconcileMysqlCluster
<1>4. P[3] = ServiceStep("mysql-read", balanced, {label}, sold, panics)
  BY DEF ReconcileMysqlCluster
<1>5. P[4] = WorkloadStep("StatefulSet", "mysql", "mysql", {label},
               Template(pod, d.frame.size, containers, ports, mounts,
                        waits, peers),
               panics)
  BY DEF ReconcileMysqlCluster
<1>6. CONTAINER_PORT \in ports
  OBVIOUS
<1> HIDE DEF P, label, sold, ports, pod, containers, mounts, waits, peers, panics, headless, balanced
<1>7. (\E S : P \in Seq(S)) /\ Len(P) = 4
  BY <1>1, Tuple4
<1>8. IsConfig(P[1], "mysql")
  BY <1>2, ConfigForm
<1>9. IsService(P[2], "mysql", headless, label, sold)
  BY <1>3, ServiceForm
<1>10. IsService(P[3], "mysql-read", balanced, label, sold)
  BY <1>4, ServiceForm
<1>11. IsWorkload(P[4], "StatefulSet", "mysql", "mysql", label)
  BY <1>5, WorkloadForm
<1>12. Stamps(P[4], pod, d.frame.size, ports, mounts, waits, peers)
  BY <1>5, TemplateForm
<1> QED
  BY <1>6, <1>7, <1>8, <1>9, <1>10, <1>11, <1>12
     DEF MysqlClusterForm, P, label, sold, pod, mounts, waits, peers, headless, balanced

UserStandaloneForm(d, P) ==
    LET label == <<"app", USER_STANDALONE>>
    IN  /\ \E S : P \in Seq(S)
        /\ Len(P) = 3
        /\ IsConfig(P[1], "etcdcfm")
        /\ IsWorkload(P[3], "Deployment", d.user.name, "", label)
        /\ \E ports :
             /\ IsService(P[2], d.user.name, TRUE, label, ports)
             /\ Stamps(P[3], {label}, d.user.size, ports,
                          {"etcdcfm"}, {}, {})

LEMMA UserStandaloneSteps ==
    ASSUME NEW d
    PROVE  UserStandaloneForm(d, ReconcileUserStandalone(d))
<1> DEFINE P == ReconcileUserStandalone(d)
           label == <<"app", USER_STANDALONE>>
           ports == IF Len(d.user.ports) < 2 THEN {} ELSE {d.user.ports[1], d.user.ports[2]}
           pod == {label}
           containers == {[name |-> d.user.name, image |-> d.user.image]}
           mounts == {"etcdcfm"}
           waits == {}
           peers == {}
           panics == Len(d.user.ports) < 2
           headless == TRUE
<1>1. P = <<P[1], P[2], P[3]>>
  BY DEF ReconcileUserStandalone
<1>2. P[1] = ConfigMapStep("etcdcfm", "etcd.yml")
  BY DEF ReconcileUserStandalone
<1>3. P[2] = ServiceStep(d.user.name, headless, {label}, ports, panics)
  BY DEF ReconcileUserStandalone
<1>4. P[3] = OnError("ignore",
             WorkloadStep("Deployment", d.user.name, "", {label},
                 Template(pod, d.user.size, containers, ports, mounts,
                          waits, peers),
                 panics))
  BY DEF ReconcileUserStandalone
<1> HIDE DEF P, label, ports, pod, containers, mounts, waits, peers, panics, headless
<1>5. (\E S : P \in Seq(S)) /\ Len(P) = 3
  BY <1>1, Tuple3
<1>6. IsConfig(P[1], "etcdcfm")
  BY <1>2, ConfigForm
<1>7. IsService(P[2], d.user.name, headless, label, ports)
  BY <1>3, ServiceForm
<1>8. IsWorkload(P[3], "Deployment", d.user.name, "", label)
  BY <1>4, WorkloadForm
<1>9. Stamps(P[3], pod, d.user.size, ports, mounts, waits, peers)
  BY <1>4, TemplateForm
<1> QED
  BY <1>5, <1>6, <1>7, <1>8, <1>9
     DEF UserStandaloneForm, P, label, pod, mounts, waits, peers, headless

EtcdClusterForm(d, P) ==
    LET label == <<"etcd-standalone", d.user.name>>
    IN  /\ \E S : P \in Seq(S)
        /\ Len(P) = 2
        /\ IsWorkload(P[2], "StatefulSet", d.user.name, d.user.name, label)
        /\ \E ports :
             /\ IsService(P[1], d.user.name, TRUE, label, ports)
             /\ Stamps(P[2], {label} \cup {<<"etcd-cluster", "etcd">>}, d.user.size, ports,
                          {}, {}, EtcdPods(d))

LEMMA EtcdClusterSteps ==
    ASSUME NEW d
    PROVE  EtcdClusterForm(d, ReconcileEtcdCluster(d))
<1> DEFINE P == ReconcileEtcdCluster(d)
           label == <<"etcd-standalone", d.user.name>>
           ports == {2380, 2379}
           pod == {label} \cup {<<"etcd-cluster", "etcd">>}
           containers == {[name |-> "etcd", image |-> d.user.image]}
           mounts == {}
           waits == {}
           panics == d.user.size = {}
           headless == TRUE
           never == FALSE
<1>1. P = <<P[1], P[2]>>
  BY DEF ReconcileEtcdCluster
<1>2. P[1] = ServiceStep(d.user.name, headless, {label}, ports, never)
  BY DEF ReconcileEtcdCluster
<1>3. P[2] = WorkloadStep("StatefulSet", d.user.name, d.user.name, {label},
               Template(pod, d.user.size, containers, ports, mounts,
                        waits, EtcdPods(d)),
               panics)
  BY DEF ReconcileEtcdCluster, EtcdPods
<1> HIDE DEF P, label, ports, pod, containers, mounts, waits, panics, headless, never
<1>4. (\E S : P \in Seq(S)) /\ Len(P) = 2
  BY <1>1, Tuple2
<1>5. IsService(P[1], d.user.name, headless, label, ports)
  BY <1>2, ServiceForm
<1>6. IsWorkload(P[2], "StatefulSet", d.user.name, d.user.name, label)
  BY <1>3, WorkloadForm
<1>7. Stamps(P[2], pod, d.user.size, ports, mounts, waits, EtcdPods(d))
  BY <1>3, TemplateForm
<1> QED
  BY <1>4, <1>5, <1>6, <1>7
     DEF EtcdClusterForm, P, label, pod, mounts, waits, headless

MasterForm(d, P) ==
    LET label == <<"app", "master">>
    IN  /\ \E S : P \in Seq(S)
        /\ Len(P) = 5
        /\ IsStore(P[1], "PersistentVolume", "master-pv-volume", "master")
        /\ IsConfig(P[2], "mastercfm")
        /\ IsStore(P[3], "PersistentVolumeClaim", "master-pv-claim", "master")
        /\ IsWorkload(P[5], "Deployment", d.master.name, "", label)
        /\ \E ports :
             /\ IsService(P[4], d.master.name, TRUE, label, ports)
             /\ Stamps(P[5], {label}, {1}, ports,
                          {"master-pv-claim", "mastercfm"}, MasterWaits, {Host(SERVER_MASTER)})

LEMMA MasterSteps ==
    ASSUME NEW d
    PROVE  MasterForm(d, ReconcileMaster(d))
<1> DEFINE P == ReconcileMaster(d)
           label == <<"app", "master">>
           ports == {d.master.ports, 8291}
           pod == {label}
           containers == {[name |-> d.master.name, image |-> d.image]}
           mounts == {"master-pv-claim", "mastercfm"}
           replicas == {1}
           peers == {Host(SERVER_MASTER)}
           panics == FALSE
           headless == TRUE
<1>1. P = <<P[1], P[2], P[3], P[4], P[5]>>
  BY DEF ReconcileMaster
<1>2. P[1] = CreateStep("PersistentVolume", "master-pv-volume", "master")
  BY DEF ReconcileMaster
<1>3. P[2] = ConfigMapStep("mastercfm", "master.toml")
  BY DEF ReconcileMaster
<1>4. P[3] = CreateStep("PersistentVolumeClaim", "master-pv-claim", "master")
  BY DEF ReconcileMaster
<1>5. P[4] = ServiceStep(d.master.name, headless, {label}, ports, panics)
  BY DEF ReconcileMaster
<1>6. P[5] = WorkloadStep("Deployment", d.master.name, "", {label},
               Template(pod, replicas, containers, ports, mounts,
                        MasterWaits, peers),
               panics)
  BY DEF ReconcileMaster
<1> HIDE DEF P, label, ports, pod, containers, mounts, replicas, peers, panics, headless
<1>7. (\E S : P \in Seq(S)) /\ Len(P) = 5
  BY <1>1, Tuple5
<1>8. IsStore(P[1], "PersistentVolume", "master-pv-volume", "master")
  BY <1>2, StoreForm
<1>9. IsConfig(P[2], "mastercfm")
  BY <1>3, ConfigForm
<1>10. IsStore(P[3], "PersistentVolumeClaim", "master-pv-claim", "master")
  BY <1>4, StoreForm
<1>11. IsService(P[4], d.master.name, headless, label, ports)
  BY <1>5, ServiceForm
<1>12. IsWorkload(P[5], "Deployment", d.master.name, "", label)
  BY <1>6, WorkloadForm
<1>13. Stamps(P[5], pod, replicas, ports, mounts, MasterWaits, peers)
  BY <1>6, TemplateForm
<1> QED
  BY <1>7, <1>8, <1>9, <1>10, <1>11, <1>12, <1>13
     DEF MasterForm, P, label, pod, mounts, replicas, peers, headless

MasterClusterForm(d, P) ==
    LET label == <<"de-m", "master">>
    IN  /\ \E S : P \in Seq(S)
        /\ Len(P) = 3
        /\ IsConfig(P[1], "mastercfm")
        /\ IsWorkload(P[3], "StatefulSet", d.master.name, d.master.name, label)
        /\ \E ports :
             /\ IsService(P[2], d.master.name, TRUE, label, ports)
             /\ Stamps(P[3], {label} \cup {<<"de", "engine">>}, d.master.size, ports,
                          {"mastercfm"}, MasterWaits, MasterPods(d))

LEMMA MasterClusterSteps ==
    ASSUME NEW d
    PROVE  MasterClusterForm(d, ReconcileMasterCluster(d))
<1> DEFINE P == ReconcileMasterCluster(d)
           label == <<"de-m", "master">>
           ports == {d.master.ports, 8291}
           pod == {label} \cup {<<"de", "engine">>}
           containers == {[name |-> d.master.name, image |-> d.image]}
           mounts == {"mastercfm"}
           panics == d.master.size = {}
           headless == TRUE
           never == FALSE
<1>1. P = <<P[1], P[2], P[3]>>
  BY DEF ReconcileMasterCluster
<1>2. P[1] = ConfigMapStep("mastercfm", "master.toml")
  BY DEF ReconcileMasterCluster
<1>3. P[2] = ServiceStep(d.master.name, headless, {label}, ports, never)
  BY DEF ReconcileMasterCluster, MasterLabels
<1>4. P[3] = WorkloadStep("StatefulSet", d.master.name, d.master.name, {label},
               Template(pod, d.master.size, containers, ports, mounts,
                        MasterWaits, MasterPods(d)),
               panics)
  BY DEF ReconcileMasterCluster, MasterLabels
<1> HIDE DEF P, label, ports, pod, containers, mounts, panics, headless, never
<1>5. (\E S : P \in Seq(S)) /\ Len(P) = 3
  BY <1>1, Tuple3
<1>6. IsConfig(P[1], "mastercfm")
  BY <1>2, ConfigForm
<1>7. IsService(P[2], d.master.name, headless, label, ports)
  BY <1>3, ServiceForm
<1>8. IsWorkload(P[3], "StatefulSet", d.master.name, d.master.name, label)
  BY <1>4, WorkloadForm
<1>9. Stamps(P[3], pod, d.master.size, ports, mounts, MasterWaits, MasterPods(d))
  BY <1>4, TemplateForm
<1> QED
  BY <1>5, <1>6, <1>7, <1>8, <1>9
     DEF MasterClusterForm, P, label, pod, mounts, headless

ExecutorForm(d, P) ==
    LET label == <<"app", "executor">>
    IN  /\ \E S : P \in Seq(S)
        /\ Len(P) = 5
        /\ \A i \in 1 .. 5 : Keeps(P[i])
        /\ IsStore(P[1], "PersistentVolume", "executor-pv-volume", "executor")
        /\ IsConfig(P[2], "executorcfm")
        /\ IsStore(P[3], "PersistentVolumeClaim", "executor-pv-claim", "executor")
        /\ IsWorkload(P[5], "Deployment", d.executor.name, "", label)
        /\ \E ports :
             /\ IsService(P[4], d.executor.name, TRUE, label, ports)
             /\ Stamps(P[5], {label}, {1}, ports,
                          {"executor-pv-claim", "executorcfm"}, {Host(SERVER_MASTER)},
                          {Host(SERVER_MASTER)})

LEMMA ExecutorSteps ==
    ASSUME NEW d
    PROVE  ExecutorForm(d, ReconcileExecutor(d))
<1> DEFINE P == ReconcileExecutor(d)
           label == <<"app", "executor">>
           ports == {d.executor.ports}
           pod == {label}
           containers == {[name |-> d.executor.name, image |-> d.image]}
           mounts == {"executor-pv-claim", "executorcfm"}
           replicas == {1}
           waits == {Host(SERVER_MASTER)}
           peers == {Host(SERVER_MASTER)}
           panics == FALSE
           headless == TRUE
<1>1. P = <<P[1], P[2], P[3], P[4], P[5]>>
  BY DEF ReconcileExecutor
<1>2. P[1] = CreateStep("PersistentVolume", "executor-pv-volume", "executor")
  BY DEF ReconcileExecutor
<1>3. P[2] = ConfigMapStep("executorcfm", "config.toml")
  BY DEF ReconcileExecutor
<1>4. P[3] = CreateStep("PersistentVolumeClaim", "executor-pv-claim", "executor")
  BY DEF ReconcileExecutor
<1>5. P[4] = ServiceStep(d.executor.name, headless, {label}, ports, panics)
  BY DEF ReconcileExecutor
<1>6. P[5] = WorkloadStep("Deployment", d.executor.name, "", {label},
               Template(pod, replicas, containers, ports, mounts,
                        waits, peers),
               panics)
  BY DEF ReconcileExecutor
<1> HIDE DEF P, label, ports, pod, containers, mounts, replicas, waits, peers, panics, headless
<1>7. (\E S : P \in Seq(S)) /\ Len(P) = 5
  BY <1>1, Tuple5
<1>8. IsStore(P[1], "PersistentVolume", "executor-pv-volume", "executor")
  BY <1>2, StoreForm
<1>9. IsConfig(P[2], "executorcfm")
  BY <1>3, ConfigForm
<1>10. IsStore(P[3], "PersistentVolumeClaim", "executor-pv-claim", "executor")
  BY <1>4, StoreForm
<1>11. IsService(P[4], d.executor.name, headless, label, ports)
  BY <1>5, ServiceForm
<1>12. IsWorkload(P[5], "Deployment", d.executor.name, "", label)
  BY <1>6, WorkloadForm
<1>13. Stamps(P[5], pod, replicas, ports, mounts, waits, peers)
  BY <1>6, TemplateForm
<1>14. \A i \in 1 .. 5 : i = 1 \/ i = 2 \/ i = 3 \/ i = 4 \/ i = 5
  OBVIOUS
<1>15. \A i \in 1 .. 5 : Keeps(P[i])
  BY <1>2, <1>3, <1>4, <1>5, <1>6, <1>14, KeepForm
<1> QED
  BY <1>15, <1>7, <1>8, <1>9, <1>10, <1>11, <1>12, <1>13
     DEF ExecutorForm, P, label, pod, mounts, replicas, waits, peers, headless

ExecutorClusterForm(d, P) ==
    LET label == <<"de-e", "executor">>
    IN  /\ \E S : P \in Seq(S)
        /\ Len(P) = 3
        /\ \A i \in 1 .. 3 : Keeps(P[i])
        /\ IsConfig(P[1], "executorcfm")
        /\ IsWorkload(P[3], "StatefulSet", d.executor.name, d.executor.name, label)
        /\ \E ports :
             /\ IsService(P[2], d.executor.name, TRUE, label, ports)
             /\ Stamps(P[3], {label} \cup {<<"de", "engine">>}, d.executor.size, ports,
                          {"executorcfm"}, loadExecutorInitContainerCommand(d),
                          loadExecutorContainerCommand(d))

LEMMA ExecutorClusterSteps ==
    ASSUME NEW d
    PROVE  ExecutorClusterForm(d, ReconcileExecutorCluster(d))
<1> DEFINE P == ReconcileExecutorCluster(d)
           label == <<"de-e", "executor">>
           ports == {d.executor.ports}
           pod == {label} \cup {<<"de", "engine">>}
           containers == {[name |-> d.executor.name, image |-> d.image]}
           mounts == {"executorcfm"}
           panics == d.master.size = {}
           headless == TRUE
           never == FALSE
<1>1. P = <<P[1], P[2], P[3]>>
  BY DEF ReconcileExecutorCluster
<1>2. P[1] = ConfigMapStep("executorcfm", "config.toml")
  BY DEF ReconcileExecutorCluster
<1>3. P[2] = ServiceStep(d.executor.name, headless, {label}, ports, never)
  BY DEF ReconcileExecutorCluster
<1>4. P[3] = WorkloadStep("StatefulSet", d.executor.name, d.executor.name, {label},
               Template(pod, d.executor.size, containers, ports, mounts,
                        loadExecutorInitContainerCommand(d), loadExecutorContainerCommand(d)),
               panics)
  BY DEF ReconcileExecutorCluster
<1> HIDE DEF P, label, ports, pod, containers, mounts, panics, headless, never
<1>5. (\E S : P \in Seq(S)) /\ Len(P) = 3
  BY <1>1, Tuple3
<1>6. IsConfig(P[1], "executorcfm")
  BY <1>2, ConfigForm
<1>7. IsService(P[2], d.executor.name, headless, label, ports)
  BY <1>3, ServiceForm
<1>8. IsWorkload(P[3], "StatefulSet", d.executor.name, d.executor.name, label)
  BY <1>4, WorkloadForm
<1>9. Stamps(P[3], pod, d.executor.size, ports, mounts,
             loadExecutorInitContainerCommand(d), loadExecutorContainerCommand(d))
  BY <1>4, TemplateForm
<1>10. \A i \in 1 .. 3 : i = 1 \/ i = 2 \/ i = 3
  OBVIOUS
<1>11. \A i \in 1 .. 3 : Keeps(P[i])
  BY <1>2, <1>3, <1>4, <1>10, KeepForm
<1> QED
  BY <1>11, <1>5, <1>6, <1>7, <1>8, <1>9
     DEF ExecutorClusterForm, P, label, pod, mounts, headless

-----------------------------------------------------------------------------
(* The four parts of a plan: 1 and 2 are the stores of the framework and of *)
(* the user, 3 the masters, 4 the executors.                               *)

Clustered(k, d) ==
    CASE k = 1 -> d.frame.cluster [] k = 2 -> d.user.cluster
      [] k = 3 -> d.master.cluster [] k = 4 -> d.executor.cluster

Handled(k, d) ==
    CASE k = 1 -> IF d.frame.cluster THEN ReconcileMysqlCluster(d)
                                     ELSE ReconcileFrameStandalone(d)
      [] k = 2 -> IF d.user.cluster THEN ReconcileEtcdCluster(d)
                                    ELSE ReconcileUserStandalone(d)
      [] k = 3 -> IF d.master.cluster THEN ReconcileMasterCluster(d)
                                      ELSE ReconcileMaster(d)
      [] k = 4 -> IF d.executor.cluster THEN ReconcileExecutorCluster(d)
                                        ELSE ReconcileExecutor(d)

Part(k, d) == IF k = 4 THEN FinishOnError(Handled(4, d)) ELSE Handled(k, d)

(* The label by which Services and workloads of a part select their pods,  *)
(* and the labels that pods of several parts may carry besides.            *)
Label(k, d) ==
    CASE k = 1 -> IF d.frame.cluster THEN <<"mysql-app", d.frame.name>>
                                     ELSE <<"app", FRAME_STANDALONE>>
      [] k = 2 -> IF d.user.cluster THEN <<"etcd-standalone", d.user.name>>
                                    ELSE <<"app", USER_STANDALONE>>
      [] k = 3 -> IF d.master.cluster THEN <<"de-m", "master">> ELSE <<"app", "master">>
      [] k = 4 -> IF d.executor.cluster THEN <<"de-e", "executor">> ELSE <<"app", "executor">>

Shared == {<<"mysql-cluster", "mysql">>, <<"etcd-cluster", "etcd">>, <<"de", "engine">>}

(* The names of the Services and workloads of a part, and of its ConfigMap *)
(* and volumes.                                                            *)
OwnNames(k, d) ==
    CASE k = 1 -> IF d.frame.cluster THEN {"mysql", "mysql-read"} ELSE {d.frame.name}
      [] k = 2 -> {d.user.name} [] k = 3 -> {d.master.name} [] k = 4 -> {d.executor.name}

FixedNames(k) ==
    CASE k = 1 -> {"mysql", "mysqlcfm", "mysql-pv-volume", "mysql-pv-claim"}
      [] k = 2 -> {"etcdcfm"}
      [] k = 3 -> {"mastercfm", "master-pv-volume", "master-pv-claim"}
      [] k = 4 -> {"executorcfm", "executor-pv-volume", "executor-pv-claim"}

Class(k) == CASE k = 1 -> "mysql" [] k = 2 -> "" [] k = 3 -> "master" [] k = 4 -> "executor"

(* Only the Service mysql-read of a MySQL cluster has an address.          *)
Addressed(k, d, name) == k = 1 /\ d.frame.cluster /\ name = "mysql-read"

Named(k, d, st) ==
    IF st.obj[1] \in {"Service", "Deployment", "StatefulSet"}
        THEN st.obj[2] \in OwnNames(k, d) ELSE st.obj[2] \in FixedNames(k)

Immutable(k, d, st) ==
    /\ st.obj[1] = "ConfigMap" => st.body.immut = Nothing
    /\ st.obj[1] \in {"PersistentVolume", "PersistentVolumeClaim"} =>
          st.body.immut = [class |-> Class(k)]
    /\ st.obj[1] = "Service" =>
          /\ Addressed(k, d, st.obj[2]) => st.body.immut = [headless |-> FALSE]
          /\ ~ Addressed(k, d, st.obj[2]) => st.body.immut = [headless |-> TRUE]
    /\ st.obj[1] = "Deployment" =>
          ~ Clustered(k, d) /\ st.body.immut = [selector |-> {Label(k, d)}, service |-> ""]
    /\ st.obj[1] = "StatefulSet" =>
          Clustered(k, d) /\ st.body.immut = [selector |-> {Label(k, d)}, service |-> st.obj[2]]

(* A step of part k: what is true of it alone.                             *)
StepForm(k, d, st) ==
    /\ st.obj[1] \in {"PersistentVolume", "PersistentVolumeClaim", "ConfigMap", "Service",
                      "Deployment", "StatefulSet"}
    /\ Named(k, d, st)
    /\ Immutable(k, d, st)
    /\ st.obj[1] = "Service" => st.body.spec.selector = {Label(k, d)}

(* A step made for part k is a step of part k.                             *)
LEMMA ConfigStep ==
    ASSUME NEW k, NEW d, NEW st, NEW name \in FixedNames(k), IsConfig(st, name)
    PROVE  StepForm(k, d, st) /\ st.obj[1] = "ConfigMap"
BY DEF IsConfig, StepForm, Named, Immutable

LEMMA StoreStep ==
    ASSUME NEW k, NEW d, NEW st, NEW name \in FixedNames(k),
           NEW kind \in {"PersistentVolume", "PersistentVolumeClaim"},
           IsStore(st, kind, name, Class(k))
    PROVE  StepForm(k, d, st) /\ st.obj[1] = kind
BY DEF IsStore, StepForm, Named, Immutable

LEMMA ServiceStepForm ==
    ASSUME NEW k, NEW d, NEW st, NEW name \in OwnNames(k, d), NEW ports,
           ~ Addressed(k, d, name), IsService(st, name, TRUE, Label(k, d), ports)
    PROVE  StepForm(k, d, st) /\ st.obj[1] = "Service"
BY DEF IsService, StepForm, Named, Immutable

LEMMA ReadServiceStep ==
    ASSUME NEW k, NEW d, NEW st, NEW name \in OwnNames(k, d), NEW ports,
           Addressed(k, d, name), IsService(st, name, FALSE, Label(k, d), ports)
    PROVE  StepForm(k, d, st) /\ st.obj[1] = "Service"
BY DEF IsService, StepForm, Named, Immutable

LEMMA DeploymentStep ==
    ASSUME NEW k, NEW d, NEW st, NEW name \in OwnNames(k, d), ~ Clustered(k, d),
           IsWorkload(st, "Deployment", name, "", Label(k, d))
    PROVE  StepForm(k, d, st) /\ st.obj[1] = "Deployment"
BY DEF IsWorkload, StepForm, Named, Immutable

LEMMA StatefulSetStep ==
    ASSUME NEW k, NEW d, NEW st, NEW name \in OwnNames(k, d), Clustered(k, d),
           IsWorkload(st, "StatefulSet", name, name, Label(k, d))
    PROVE  StepForm(k, d, st) /\ st.obj[1] = "StatefulSet"
BY DEF IsWorkload, StepForm, Named, Immutable

(* The last step of a part is its only workload.                           *)
Ends(P) ==
    \A i \in 1 .. Len(P) : P[i].obj[1] \in {"Deployment", "StatefulSet"} <=> i = Len(P)

(* No object is written twice.                                             *)
Apart(P) ==
    \A i, j \in 1 .. Len(P) :
        P[i].obj[1] = P[j].obj[1] /\ P[i].obj[2] = P[j].obj[2] => i = j

(* The workload's pods carry the part's label, and none of another part.   *)
Labelled(k, d, w) ==
    Label(k, d) \in w.body.spec.pod /\ w.body.spec.pod \subseteq {Label(k, d)} \cup Shared

(* They open the ports of the Services.                                    *)
Opens(k, d, P) ==
    (k = 1 /\ d.frame.cluster => d.frame.port = CONTAINER_PORT) =>
        \A i \in 1 .. Len(P) : P[i].obj[1] = "Service" =>
            P[i].body.spec.ports \subseteq P[Len(P)].body.spec.ports

(* What they mount is there.                                               *)
Mounts(P) ==
    \A m \in P[Len(P)].body.spec.mounts :
        \E i \in 1 .. Len(P) : /\ i < Len(P) /\ P[i].obj[2] = m
                               /\ P[i].obj[1] \in {"ConfigMap", "PersistentVolumeClaim"}

(* A Service stands before the workload and gives its pods names.          *)
Governs(k, d, P) ==
    \E i \in 1 .. Len(P) :
        /\ i < Len(P) /\ P[i].obj[1] = "Service" /\ P[i].body.immut.headless = TRUE
        /\ Clustered(k, d) => P[i].obj[2] = P[Len(P)].body.immut.service
        /\ (k = 1 /\ Clustered(k, d)) \/ P[i].obj[2] \in OwnNames(k, d)

PartForm(k, d, P) ==
    /\ \E S : P \in Seq(S)
    /\ Len(P) \in 2 .. 5
    /\ \A i \in 1 .. Len(P) : StepForm(k, d, P[i])
    /\ Ends(P)
    /\ Apart(P)
    /\ Labelled(k, d, P[Len(P)])
    /\ Opens(k, d, P)
    /\ Mounts(P)
    /\ Governs(k, d, P)

(* What each handler writes is a part of its component.                    *)
LEMMA FrameStandalonePart ==
    ASSUME NEW d, ~ d.frame.cluster
    PROVE  PartForm(1, d, ReconcileFrameStandalone(d))
<1> DEFINE P == ReconcileFrameStandalone(d)
           label == <<"app", FRAME_STANDALONE>>
           pod == {label}
           mounts == {"mysql-pv-claim", "mysqlcfm"}
           replicas == {1}
           waits == {}
           peers == {}
<1>1. FrameStandaloneForm(d, P)
  BY FrameStandaloneSteps
<1>2. (\E S : P \in Seq(S)) /\ Len(P) = 5
  BY <1>1 DEF FrameStandaloneForm
<1>3. /\ IsStore(P[1], "PersistentVolume", "mysql-pv-volume", "mysql")
      /\ IsConfig(P[2], "mysqlcfm")
      /\ IsStore(P[3], "PersistentVolumeClaim", "mysql-pv-claim", "mysql")
  BY <1>1 DEF FrameStandaloneForm
<1>4. IsWorkload(P[5], "Deployment", d.frame.name, "", label)
  BY <1>1 DEF FrameStandaloneForm
<1>5. PICK ports : /\ IsService(P[4], d.frame.name, TRUE, label, ports)
                   /\ Stamps(P[5], pod, replicas, ports, mounts, waits, peers)
  BY <1>1 DEF FrameStandaloneForm
<1>6. label = Label(1, d) /\ ~ Clustered(1, d)
  BY DEF Label, Clustered
<1>7. label \in pod /\ pod \subseteq {label} \cup Shared
  BY DEF Shared
<1>9. \A m \in mounts : m = "mysql-pv-claim" \/ m = "mysqlcfm"
  OBVIOUS
<1> HIDE DEF P, label, pod, mounts, replicas, waits, peers
<1>10. d.frame.name \in OwnNames(1, d)
  BY DEF OwnNames
<1>11. "mysql-pv-volume" \in FixedNames(1) /\ "mysqlcfm" \in FixedNames(1)
        /\ "mysql-pv-claim" \in FixedNames(1) /\ Class(1) = "mysql"
  BY DEF FixedNames, Class
<1>12. ~ Addressed(1, d, d.frame.name)
  BY DEF Addressed
<1>13. StepForm(1, d, P[1]) /\ P[1].obj[1] = "PersistentVolume"
  BY <1>3, <1>11, StoreStep
<1>14. StepForm(1, d, P[2]) /\ P[2].obj[1] = "ConfigMap"
  BY <1>3, <1>11, ConfigStep
<1>15. StepForm(1, d, P[3]) /\ P[3].obj[1] = "PersistentVolumeClaim"
  BY <1>3, <1>11, StoreStep
<1>16. StepForm(1, d, P[4]) /\ P[4].obj[1] = "Service"
  BY <1>5, <1>6, <1>10, <1>12, ServiceStepForm
<1>17. StepForm(1, d, P[5]) /\ P[5].obj[1] = "Deployment"
  BY <1>4, <1>6, <1>10, DeploymentStep
<1>18. \A i \in 1 .. 5 : i = 1 \/ i = 2 \/ i = 3 \/ i = 4 \/ i = 5
  OBVIOUS
<1>19. \A i \in 1 .. Len(P) : StepForm(1, d, P[i])
  BY <1>13, <1>14, <1>15, <1>16, <1>17, <1>2, <1>18
<1>20. Ends(P)
  BY <1>13, <1>14, <1>15, <1>16, <1>17, <1>2, <1>18 DEF Ends
<1>21. Apart(P)
  BY <1>13, <1>14, <1>15, <1>16, <1>17, <1>2, <1>18 DEF Apart
<1>22. Labelled(1, d, P[Len(P)])
  BY <1>2, <1>5, <1>6, <1>7 DEF Labelled, Stamps
<1>23. Opens(1, d, P)
  BY <1>5, <1>13, <1>14, <1>15, <1>16, <1>17, <1>2, <1>18 DEF Opens, IsService, Stamps
<1>24. Mounts(P)
  BY <1>3, <1>5, <1>9, <1>13, <1>14, <1>15, <1>16, <1>17, <1>2, <1>18
     DEF Mounts, Stamps, IsConfig, IsStore
<1>25. P[4].obj[2] = d.frame.name /\ P[4].body.immut.headless = TRUE
  BY <1>5 DEF IsService
<1>26. Governs(1, d, P)
  BY <1>2, <1>6, <1>10, <1>16, <1>25 DEF Governs
<1>27. PartForm(1, d, P)
  BY <1>2, <1>19, <1>20, <1>21, <1>22, <1>23, <1>24, <1>26 DEF PartForm
<1> QED
  BY <1>27 DEF P

LEMMA MysqlClusterPart ==
    ASSUME NEW d, d.frame.cluster
    PROVE  PartForm(1, d, ReconcileMysqlCluster(d))
<1> DEFINE P == ReconcileMysqlCluster(d)
           label == <<"mysql-app", d.frame.name>>
           pod == {label} \cup {<<"mysql-cluster", "mysql">>}
           mounts == {"mysql"}
           replicas == d.frame.size
           waits == {}
           peers == {}
           sold == {d.frame.port}
<1>1. MysqlClusterForm(d, P)
  BY MysqlClusterSteps
<1>2. (\E S : P \in Seq(S)) /\ Len(P) = 4
  BY <1>1 DEF MysqlClusterForm
<1>3. IsConfig(P[1], "mysql")
  BY <1>1 DEF MysqlClusterForm
<1>4. IsWorkload(P[4], "StatefulSet", "mysql", "mysql", label)
  BY <1>1 DEF MysqlClusterForm
<1>5. PICK ports : /\ IsService(P[2], "mysql", TRUE, label, sold)
                   /\ IsService(P[3], "mysql-read", FALSE, label, sold)
                   /\ CONTAINER_PORT \in ports
                   /\ Stamps(P[4], pod, replicas, ports, mounts, waits, peers)
  BY <1>1 DEF MysqlClusterForm
<1>6. label = Label(1, d) /\ Clustered(1, d)
  BY DEF Label, Clustered
<1>7. label \in pod /\ pod \subseteq {label} \cup Shared
  BY DEF Shared
<1>8. d.frame.port = CONTAINER_PORT => sold \subseteq {CONTAINER_PORT}
  OBVIOUS
<1>9. \A m \in mounts : m = "mysql"
  OBVIOUS
<1> HIDE DEF P, label, pod, mounts, replicas, waits, peers, sold
<1>10. "mysql" \in OwnNames(1, d) /\ "mysql-read" \in OwnNames(1, d)
  BY DEF OwnNames
<1>11. "mysql" \in FixedNames(1) /\ Class(1) = "mysql"
  BY DEF FixedNames, Class
<1>12. Addressed(1, d, "mysql-read") /\ ~ Addressed(1, d, "mysql")
  BY DEF Addressed
<1>13. StepForm(1, d, P[1]) /\ P[1].obj[1] = "ConfigMap"
  BY <1>3, <1>11, ConfigStep
<1>14. StepForm(1, d, P[2]) /\ P[2].obj[1] = "Service"
  BY <1>5, <1>6, <1>10, <1>12, ServiceStepForm
<1>15. StepForm(1, d, P[3]) /\ P[3].obj[1] = "Service"
  BY <1>5, <1>6, <1>10, <1>12, ReadServiceStep
<1>16. StepForm(1, d, P[4]) /\ P[4].obj[1] = "StatefulSet"
  BY <1>4, <1>6, <1>10, StatefulSetStep
<1>17. \A i \in 1 .. 4 : i = 1 \/ i = 2 \/ i = 3 \/ i = 4
  OBVIOUS
<1>18. \A i \in 1 .. Len(P) : StepForm(1, d, P[i])
  BY <1>13, <1>14, <1>15, <1>16, <1>2, <1>17
<1>19. Ends(P)
  BY <1>13, <1>14, <1>15, <1>16, <1>2, <1>17 DEF Ends
<1>20. P[2].obj[2] = "mysql" /\ P[3].obj[2] = "mysql-read"
  BY <1>5 DEF IsService
<1>21. Apart(P)
  BY <1>13, <1>14, <1>15, <1>16, <1>20, <1>2, <1>17 DEF Apart
<1>22. Labelled(1, d, P[Len(P)])
  BY <1>2, <1>5, <1>6, <1>7 DEF Labelled, Stamps
<1>23. Opens(1, d, P)
  BY <1>5, <1>8, <1>13, <1>14, <1>15, <1>16, <1>2, <1>17 DEF Opens, IsService, Stamps
<1>24. Mounts(P)
  BY <1>3, <1>5, <1>9, <1>13, <1>14, <1>15, <1>16, <1>2, <1>17
     DEF Mounts, Stamps, IsConfig, IsStore
<1>25. Governs(1, d, P)
  BY <1>2, <1>4, <1>5, <1>6, <1>10, <1>14 DEF Governs, IsService, IsWorkload
<1>26. PartForm(1, d, P)
  BY <1>2, <1>18, <1>19, <1>21, <1>22, <1>23, <1>24, <1>25 DEF PartForm
<1> QED
  BY <1>26 DEF P

LEMMA UserStandalonePart ==
    ASSUME NEW d, ~ d.user.cluster
    PROVE  PartForm(2, d, ReconcileUserStandalone(d))
<1> DEFINE P == ReconcileUserStandalone(d)
           label == <<"app", USER_STANDALONE>>
           pod == {label}
           mounts == {"etcdcfm"}
           replicas == d.user.size
           waits == {}
           peers == {}
<1>1. UserStandaloneForm(d, P)
  BY UserStandaloneSteps
<1>2. (\E S : P \in Seq(S)) /\ Len(P) = 3
  BY <1>1 DEF UserStandaloneForm
<1>3. IsConfig(P[1], "etcdcfm")
  BY <1>1 DEF UserStandaloneForm
<1>4. IsWorkload(P[3], "Deployment", d.user.name, "", label)
  BY <1>1 DEF UserStandaloneForm
<1>5. PICK ports : /\ IsService(P[2], d.user.name, TRUE, label, ports)
                   /\ Stamps(P[3], pod, replicas, ports, mounts, waits, peers)
  BY <1>1 DEF UserStandaloneForm
<1>6. label = Label(2, d) /\ ~ Clustered(2, d)
  BY DEF Label, Clustered
<1>7. label \in pod /\ pod \subseteq {label} \cup Shared
  BY DEF Shared
<1>9. \A m \in mounts : m = "etcdcfm"
  OBVIOUS
<1> HIDE DEF P, label, pod, mounts, replicas, waits, peers
<1>10. d.user.name \in OwnNames(2, d)
  BY DEF OwnNames
<1>11. "etcdcfm" \in FixedNames(2) /\ Class(2) = ""
  BY DEF FixedNames, Class
<1>12. ~ Addressed(2, d, d.user.name)
  BY DEF Addressed
<1>13. StepForm(2, d, P[1]) /\ P[1].obj[1] = "ConfigMap"
  BY <1>3, <1>11, ConfigStep
<1>14. StepForm(2, d, P[2]) /\ P[2].obj[1] = "Service"
  BY <1>5, <1>6, <1>10, <1>12, ServiceStepForm
<1>15. StepForm(2, d, P[3]) /\ P[3].obj[1] = "Deployment"
  BY <1>4, <1>6, <1>10, DeploymentStep
<1>16. \A i \in 1 .. 3 : i = 1 \/ i = 2 \/ i = 3
  OBVIOUS
<1>17. \A i \in 1 .. Len(P) : StepForm(2, d, P[i])
  BY <1>13, <1>14, <1>15, <1>2, <1>16
<1>18. Ends(P)
  BY <1>13, <1>14, <1>15, <1>2, <1>16 DEF Ends
<1>19. Apart(P)
  BY <1>13, <1>14, <1>15, <1>2, <1>16 DEF Apart
<1>20. Labelled(2, d, P[Len(P)])
  BY <1>2, <1>5, <1>6, <1>7 DEF Labelled, Stamps
<1>21. Opens(2, d, P)
  BY <1>5, <1>13, <1>14, <1>15, <1>2, <1>16 DEF Opens, IsService, Stamps
<1>22. Mounts(P)
  BY <1>3, <1>5, <1>9, <1>13, <1>14, <1>15, <1>2, <1>16
     DEF Mounts, Stamps, IsConfig, IsStore
<1>23. P[2].obj[2] = d.user.name /\ P[2].body.immut.headless = TRUE
  BY <1>5 DEF IsService
<1>24. Governs(2, d, P)
  BY <1>2, <1>6, <1>10, <1>14, <1>23 DEF Governs
<1>25. PartForm(2, d, P)
  BY <1>2, <1>17, <1>18, <1>19, <1>20, <1>21, <1>22, <1>24 DEF PartForm
<1> QED
  BY <1>25 DEF P

LEMMA EtcdClusterPart ==
    ASSUME NEW d, d.user.cluster
    PROVE  PartForm(2, d, ReconcileEtcdCluster(d))
<1> DEFINE P == ReconcileEtcdCluster(d)
           label == <<"etcd-standalone", d.user.name>>
           pod == {label} \cup {<<"etcd-cluster", "etcd">>}
           mounts == {}
           replicas == d.user.size
           waits == {}
           peers == EtcdPods(d)
<1>1. EtcdClusterForm(d, P)
  BY EtcdClusterSteps
<1>2. (\E S : P \in Seq(S)) /\ Len(P) = 2
  BY <1>1 DEF EtcdClusterForm
<1>4. IsWorkload(P[2], "StatefulSet", d.user.name, d.user.name, label)
  BY <1>1 DEF EtcdClusterForm
<1>5. PICK ports : /\ IsService(P[1], d.user.name, TRUE, label, ports)
                   /\ Stamps(P[2], pod, replicas, ports, mounts, waits, peers)
  BY <1>1 DEF EtcdClusterForm
<1>6. label = Label(2, d) /\ Clustered(2, d)
  BY DEF Label, Clustered
<1>7. label \in pod /\ pod \subseteq {label} \cup Shared
  BY DEF Shared
<1>9. \A m \in mounts : FALSE
  OBVIOUS
<1> HIDE DEF P, label, pod, mounts, replicas, waits, peers
<1>10. d.user.name \in OwnNames(2, d)
  BY DEF OwnNames
<1>12. ~ Addressed(2, d, d.user.name)
  BY DEF Addressed
<1>13. StepForm(2, d, P[1]) /\ P[1].obj[1] = "Service"
  BY <1>5, <1>6, <1>10, <1>12, ServiceStepForm
<1>14. StepForm(2, d, P[2]) /\ P[2].obj[1] = "StatefulSet"
  BY <1>4, <1>6, <1>10, StatefulSetStep
<1>15. \A i \in 1 .. 2 : i = 1 \/ i = 2
  OBVIOUS
<1>16. \A i \in 1 .. Len(P) : StepForm(2, d, P[i])
  BY <1>13, <1>14, <1>2, <1>15
<1>17. Ends(P)
  BY <1>13, <1>14, <1>2, <1>15 DEF Ends
<1>18. Apart(P)
  BY <1>13, <1>14, <1>2, <1>15 DEF Apart
<1>19. Labelled(2, d, P[Len(P)])
  BY <1>2, <1>5, <1>6, <1>7 DEF Labelled, Stamps
<1>20. Opens(2, d, P)
  BY <1>5, <1>13, <1>14, <1>2, <1>15 DEF Opens, IsService, Stamps
<1>21. Mounts(P)
  BY <1>2, <1>5, <1>9 DEF Mounts, Stamps
<1>22. Governs(2, d, P)
  BY <1>2, <1>4, <1>5, <1>6, <1>10, <1>13 DEF Governs, IsService, IsWorkload
<1>23. PartForm(2, d, P)
  BY <1>2, <1>16, <1>17, <1>18, <1>19, <1>20, <1>21, <1>22 DEF PartForm
<1> QED
  BY <1>23 DEF P

LEMMA MasterPart ==
    ASSUME NEW d, ~ d.master.cluster
    PROVE  PartForm(3, d, ReconcileMaster(d))
<1> DEFINE P == ReconcileMaster(d)
           label == <<"app", "master">>
           pod == {label}
           mounts == {"master-pv-claim", "mastercfm"}
           replicas == {1}
           waits == MasterWaits
           peers == {Host(SERVER_MASTER)}
<1>1. MasterForm(d, P)
  BY MasterSteps
<1>2. (\E S : P \in Seq(S)) /\ Len(P) = 5
  BY <1>1 DEF MasterForm
<1>3. /\ IsStore(P[1], "PersistentVolume", "master-pv-volume", "master")
      /\ IsConfig(P[2], "mastercfm")
      /\ IsStore(P[3], "PersistentVolumeClaim", "master-pv-claim", "master")
  BY <1>1 DEF MasterForm
<1>4. IsWorkload(P[5], "Deployment", d.master.name, "", label)
  BY <1>1 DEF MasterForm
<1>5. PICK ports : /\ IsService(P[4], d.master.name, TRUE, label, ports)
                   /\ Stamps(P[5], pod, replicas, ports, mounts, waits, peers)
  BY <1>1 DEF MasterForm
<1>6. label = Label(3, d) /\ ~ Clustered(3, d)
  BY DEF Label, Clustered
<1>7. label \in pod /\ pod \subseteq {label} \cup Shared
  BY DEF Shared
<1>9. \A m \in mounts : m = "master-pv-claim" \/ m = "mastercfm"
  OBVIOUS
<1> HIDE DEF P, label, pod, mounts, replicas, waits, peers
<1>10. d.master.name \in OwnNames(3, d)
  BY DEF OwnNames
<1>11. "master-pv-volume" \in FixedNames(3) /\ "mastercfm" \in FixedNames(3)
        /\ "master-pv-claim" \in FixedNames(3) /\ Class(3) = "master"
  BY DEF FixedNames, Class
<1>12. ~ Addressed(3, d, d.master.name)
  BY DEF Addressed
<1>13. StepForm(3, d, P[1]) /\ P[1].obj[1] = "PersistentVolume"
  BY <1>3, <1>11, StoreStep
<1>14. StepForm(3, d, P[2]) /\ P[2].obj[1] = "ConfigMap"
  BY <1>3, <1>11, ConfigStep
<1>15. StepForm(3, d, P[3]) /\ P[3].obj[1] = "PersistentVolumeClaim"
  BY <1>3, <1>11, StoreStep
<1>16. StepForm(3, d, P[4]) /\ P[4].obj[1] = "Service"
  BY <1>5, <1>6, <1>10, <1>12, ServiceStepForm
<1>17. StepForm(3, d, P[5]) /\ P[5].obj[1] = "Deployment"
  BY <1>4, <1>6, <1>10, DeploymentStep
<1>18. \A i \in 1 .. 5 : i = 1 \/ i = 2 \/ i = 3 \/ i = 4 \/ i = 5
  OBVIOUS
<1>19. \A i \in 1 .. Len(P) : StepForm(3, d, P[i])
  BY <1>13, <1>14, <1>15, <1>16, <1>17, <1>2, <1>18
<1>20. Ends(P)
  BY <1>13, <1>14, <1>15, <1>16, <1>17, <1>2, <1>18 DEF Ends
<1>21. Apart(P)
  BY <1>13, <1>14, <1>15, <1>16, <1>17, <1>2, <1>18 DEF Apart
<1>22. Labelled(3, d, P[Len(P)])
  BY <1>2, <1>5, <1>6, <1>7 DEF Labelled, Stamps
<1>23. Opens(3, d, P)
  BY <1>5, <1>13, <1>14, <1>15, <1>16, <1>17, <1>2, <1>18 DEF Opens, IsService, Stamps
<1>24. Mounts(P)
  BY <1>3, <1>5, <1>9, <1>13, <1>14, <1>15, <1>16, <1>17, <1>2, <1>18
     DEF Mounts, Stamps, IsConfig, IsStore
<1>25. P[4].obj[2] = d.master.name /\ P[4].body.immut.headless = TRUE
  BY <1>5 DEF IsService
<1>26. Governs(3, d, P)
  BY <1>2, <1>6, <1>10, <1>16, <1>25 DEF Governs
<1>27. PartForm(3, d, P)
  BY <1>2, <1>19, <1>20, <1>21, <1>22, <1>23, <1>24, <1>26 DEF PartForm
<1> QED
  BY <1>27 DEF P

LEMMA MasterClusterPart ==
    ASSUME NEW d, d.master.cluster
    PROVE  PartForm(3, d, ReconcileMasterCluster(d))
<1> DEFINE P == ReconcileMasterCluster(d)
           label == <<"de-m", "master">>
           pod == {label} \cup {<<"de", "engine">>}
           mounts == {"mastercfm"}
           replicas == d.master.size
           waits == MasterWaits
           peers == MasterPods(d)
<1>1. MasterClusterForm(d, P)
  BY MasterClusterSteps
<1>2. (\E S : P \in Seq(S)) /\ Len(P) = 3
  BY <1>1 DEF MasterClusterForm
<1>3. IsConfig(P[1], "mastercfm")
  BY <1>1 DEF MasterClusterForm
<1>4. IsWorkload(P[3], "StatefulSet", d.master.name, d.master.name, label)
  BY <1>1 DEF MasterClusterForm
<1>5. PICK ports : /\ IsService(P[2], d.master.name, TRUE, label, ports)
                   /\ Stamps(P[3], pod, replicas, ports, mounts, waits, peers)
  BY <1>1 DEF MasterClusterForm
<1>6. label = Label(3, d) /\ Clustered(3, d)
  BY DEF Label, Clustered
<1>7. label \in pod /\ pod \subseteq {label} \cup Shared
  BY DEF Shared
<1>9. \A m \in mounts : m = "mastercfm"
  OBVIOUS
<1> HIDE DEF P, label, pod, mounts, replicas, waits, peers
<1>10. d.master.name \in OwnNames(3, d)
  BY DEF OwnNames
<1>11. "mastercfm" \in FixedNames(3) /\ Class(3) = "master"
  BY DEF FixedNames, Class
<1>12. ~ Addressed(3, d, d.master.name)
  BY DEF Addressed
<1>13. StepForm(3, d, P[1]) /\ P[1].obj[1] = "ConfigMap"
  BY <1>3, <1>11, ConfigStep
<1>14. StepForm(3, d, P[2]) /\ P[2].obj[1] = "Service"
  BY <1>5, <1>6, <1>10, <1>12, ServiceStepForm
<1>15. StepForm(3, d, P[3]) /\ P[3].obj[1] = "StatefulSet"
  BY <1>4, <1>6, <1>10, StatefulSetStep
<1>16. \A i \in 1 .. 3 : i = 1 \/ i = 2 \/ i = 3
  OBVIOUS
<1>17. \A i \in 1 .. Len(P) : StepForm(3, d, P[i])
  BY <1>13, <1>14, <1>15, <1>2, <1>16
<1>18. Ends(P)
  BY <1>13, <1>14, <1>15, <1>2, <1>16 DEF Ends
<1>19. Apart(P)
  BY <1>13, <1>14, <1>15, <1>2, <1>16 DEF Apart
<1>20. Labelled(3, d, P[Len(P)])
  BY <1>2, <1>5, <1>6, <1>7 DEF Labelled, Stamps
<1>21. Opens(3, d, P)
  BY <1>5, <1>13, <1>14, <1>15, <1>2, <1>16 DEF Opens, IsService, Stamps
<1>22. Mounts(P)
  BY <1>3, <1>5, <1>9, <1>13, <1>14, <1>15, <1>2, <1>16
     DEF Mounts, Stamps, IsConfig, IsStore
<1>23. Governs(3, d, P)
  BY <1>2, <1>4, <1>5, <1>6, <1>10, <1>14 DEF Governs, IsService, IsWorkload
<1>24. PartForm(3, d, P)
  BY <1>2, <1>17, <1>18, <1>19, <1>20, <1>21, <1>22, <1>23 DEF PartForm
<1> QED
  BY <1>24 DEF P

LEMMA ExecutorPart ==
    ASSUME NEW d, ~ d.executor.cluster
    PROVE  PartForm(4, d, ReconcileExecutor(d))
<1> DEFINE P == ReconcileExecutor(d)
           label == <<"app", "executor">>
           pod == {label}
           mounts == {"executor-pv-claim", "executorcfm"}
           replicas == {1}
           waits == {Host(SERVER_MASTER)}
           peers == {Host(SERVER_MASTER)}
<1>1. ExecutorForm(d, P)
  BY ExecutorSteps
<1>2. (\E S : P \in Seq(S)) /\ Len(P) = 5
  BY <1>1 DEF ExecutorForm
<1>3. /\ IsStore(P[1], "PersistentVolume", "executor-pv-volume", "executor")
      /\ IsConfig(P[2], "executorcfm")
      /\ IsStore(P[3], "PersistentVolumeClaim", "executor-pv-claim", "executor")
  BY <1>1 DEF ExecutorForm
<1>4. IsWorkload(P[5], "Deployment", d.executor.name, "", label)
  BY <1>1 DEF ExecutorForm
<1>5. PICK ports : /\ IsService(P[4], d.executor.name, TRUE, label, ports)
                   /\ Stamps(P[5], pod, replicas, ports, mounts, waits, peers)
  BY <1>1 DEF ExecutorForm
<1>6. label = Label(4, d) /\ ~ Clustered(4, d)
  BY DEF Label, Clustered
<1>7. label \in pod /\ pod \subseteq {label} \cup Shared
  BY DEF Shared
<1>9. \A m \in mounts : m = "executor-pv-claim" \/ m = "executorcfm"
  OBVIOUS
<1> HIDE DEF P, label, pod, mounts, replicas, waits, peers
<1>10. d.executor.name \in OwnNames(4, d)
  BY DEF OwnNames
<1>11. "executor-pv-volume" \in FixedNames(4) /\ "executorcfm" \in FixedNames(4)
        /\ "executor-pv-claim" \in FixedNames(4) /\ Class(4) = "executor"
  BY DEF FixedNames, Class
<1>12. ~ Addressed(4, d, d.executor.name)
  BY DEF Addressed
<1>13. StepForm(4, d, P[1]) /\ P[1].obj[1] = "PersistentVolume"
  BY <1>3, <1>11, StoreStep
<1>14. StepForm(4, d, P[2]) /\ P[2].obj[1] = "ConfigMap"
  BY <1>3, <1>11, ConfigStep
<1>15. StepForm(4, d, P[3]) /\ P[3].obj[1] = "PersistentVolumeClaim"
  BY <1>3, <1>11, StoreStep
<1>16. StepForm(4, d, P[4]) /\ P[4].obj[1] = "Service"
  BY <1>5, <1>6, <1>10, <1>12, ServiceStepForm
<1>17. StepForm(4, d, P[5]) /\ P[5].obj[1] = "Deployment"
  BY <1>4, <1>6, <1>10, DeploymentStep
<1>18. \A i \in 1 .. 5 : i = 1 \/ i = 2 \/ i = 3 \/ i = 4 \/ i = 5
  OBVIOUS
<1>19. \A i \in 1 .. Len(P) : StepForm(4, d, P[i])
  BY <1>13, <1>14, <1>15, <1>16, <1>17, <1>2, <1>18
<1>20. Ends(P)
  BY <1>13, <1>14, <1>15, <1>16, <1>17, <1>2, <1>18 DEF Ends
<1>21. Apart(P)
  BY <1>13, <1>14, <1>15, <1>16, <1>17, <1>2, <1>18 DEF Apart
<1>22. Labelled(4, d, P[Len(P)])
  BY <1>2, <1>5, <1>6, <1>7 DEF Labelled, Stamps
<1>23. Opens(4, d, P)
  BY <1>5, <1>13, <1>14, <1>15, <1>16, <1>17, <1>2, <1>18 DEF Opens, IsService, Stamps
<1>24. Mounts(P)
  BY <1>3, <1>5, <1>9, <1>13, <1>14, <1>15, <1>16, <1>17, <1>2, <1>18
     DEF Mounts, Stamps, IsConfig, IsStore
<1>25. P[4].obj[2] = d.executor.name /\ P[4].body.immut.headless = TRUE
  BY <1>5 DEF IsService
<1>26. Governs(4, d, P)
  BY <1>2, <1>6, <1>10, <1>16, <1>25 DEF Governs
<1>27. PartForm(4, d, P)
  BY <1>2, <1>19, <1>20, <1>21, <1>22, <1>23, <1>24, <1>26 DEF PartForm
<1> QED
  BY <1>27 DEF P

LEMMA ExecutorClusterPart ==
    ASSUME NEW d, d.executor.cluster
    PROVE  PartForm(4, d, ReconcileExecutorCluster(d))
<1> DEFINE P == ReconcileExecutorCluster(d)
           label == <<"de-e", "executor">>
           pod == {label} \cup {<<"de", "engine">>}
           mounts == {"executorcfm"}
           replicas == d.executor.size
           waits == loadExecutorInitContainerCommand(d)
           peers == loadExecutorContainerCommand(d)
<1>1. ExecutorClusterForm(d, P)
  BY ExecutorClusterSteps
<1>2. (\E S : P \in Seq(S)) /\ Len(P) = 3
  BY <1>1 DEF ExecutorClusterForm
<1>3. IsConfig(P[1], "executorcfm")
  BY <1>1 DEF ExecutorClusterForm
<1>4. IsWorkload(P[3], "StatefulSet", d.executor.name, d.executor.name, label)
  BY <1>1 DEF ExecutorClusterForm
<1>5. PICK ports : /\ IsService(P[2], d.executor.name, TRUE, label, ports)
                   /\ Stamps(P[3], pod, replicas, ports, mounts, waits, peers)
  BY <1>1 DEF ExecutorClusterForm
<1>6. label = Label(4, d) /\ Clustered(4, d)
  BY DEF Label, Clustered
<1>7. label \in pod /\ pod \subseteq {label} \cup Shared
  BY DEF Shared
<1>9. \A m \in mounts : m = "executorcfm"
  OBVIOUS
<1> HIDE DEF P, label, pod, mounts, replicas, waits, peers
<1>10. d.executor.name \in OwnNames(4, d)
  BY DEF OwnNames
<1>11. "executorcfm" \in FixedNames(4) /\ Class(4) = "executor"
  BY DEF FixedNames, Class
<1>12. ~ Addressed(4, d, d.executor.name)
  BY DEF Addressed
<1>13. StepForm(4, d, P[1]) /\ P[1].obj[1] = "ConfigMap"
  BY <1>3, <1>11, ConfigStep
<1>14. StepForm(4, d, P[2]) /\ P[2].obj[1] = "Service"
  BY <1>5, <1>6, <1>10, <1>12, ServiceStepForm
<1>15. StepForm(4, d, P[3]) /\ P[3].obj[1] = "StatefulSet"
  BY <1>4, <1>6, <1>10, StatefulSetStep
<1>16. \A i \in 1 .. 3 : i = 1 \/ i = 2 \/ i = 3
  OBVIOUS
<1>17. \A i \in 1 .. Len(P) : StepForm(4, d, P[i])
  BY <1>13, <1>14, <1>15, <1>2, <1>16
<1>18. Ends(P)
  BY <1>13, <1>14, <1>15, <1>2, <1>16 DEF Ends
<1>19. Apart(P)
  BY <1>13, <1>14, <1>15, <1>2, <1>16 DEF Apart
<1>20. Labelled(4, d, P[Len(P)])
  BY <1>2, <1>5, <1>6, <1>7 DEF Labelled, Stamps
<1>21. Opens(4, d, P)
  BY <1>5, <1>13, <1>14, <1>15, <1>2, <1>16 DEF Opens, IsService, Stamps
<1>22. Mounts(P)
  BY <1>3, <1>5, <1>9, <1>13, <1>14, <1>15, <1>2, <1>16
     DEF Mounts, Stamps, IsConfig, IsStore
<1>23. Governs(4, d, P)
  BY <1>2, <1>4, <1>5, <1>6, <1>10, <1>14 DEF Governs, IsService, IsWorkload
<1>24. PartForm(4, d, P)
  BY <1>2, <1>17, <1>18, <1>19, <1>20, <1>21, <1>22, <1>23 DEF PartForm
<1> QED
  BY <1>24 DEF P

(* Each part of the plan is as its handler makes it.                       *)
LEMMA Finished ==
    ASSUME NEW d, NEW S, NEW P \in Seq(S), PartForm(4, d, P),
           \A i \in 1 .. Len(P) : Keeps(P[i])
    PROVE  PartForm(4, d, FinishOnError(P))
<1> DEFINE F == FinishOnError(P)
<1>1. (\E T : F \in Seq(T)) /\ Len(F) = Len(P)
  BY FinishFacts
<1>2. \A i \in 1 .. Len(P) : F[i].obj = P[i].obj /\ F[i].body = P[i].body
  BY FinishFacts DEF Keeps
<1>3. Len(P) \in 2 .. 5
  BY DEF PartForm
<1>4. Len(P) \in 1 .. Len(P)
  BY <1>3
<1> HIDE DEF F
<1>5. \A i \in 1 .. Len(F) : StepForm(4, d, F[i])
  BY <1>1, <1>2 DEF PartForm, StepForm, Named, Immutable
<1>6. Ends(F) /\ Apart(F)
  BY <1>1, <1>2 DEF PartForm, Ends, Apart
<1>7. Labelled(4, d, F[Len(F)])
  BY <1>1, <1>2, <1>4 DEF PartForm, Labelled
<1>8. Opens(4, d, F)
  BY <1>1, <1>2, <1>4 DEF PartForm, Opens
<1>9. Mounts(F)
  BY <1>1, <1>2, <1>4 DEF PartForm, Mounts
<1>10. Governs(4, d, F)
  BY <1>1, <1>2, <1>4 DEF PartForm, Governs
<1>11. PartForm(4, d, F)
  BY <1>1, <1>3, <1>5, <1>6, <1>7, <1>8, <1>9, <1>10 DEF PartForm
<1> QED
  BY <1>11 DEF F

LEMMA PartForms ==
    ASSUME NEW d, NEW k \in 1 .. 4
    PROVE  PartForm(k, d, Part(k, d))
<1>1. CASE k = 1
  BY <1>1, FrameStandalonePart, MysqlClusterPart DEF Part, Handled
<1>2. CASE k = 2
  BY <1>2, UserStandalonePart, EtcdClusterPart DEF Part, Handled
<1>3. CASE k = 3
  BY <1>3, MasterPart, MasterClusterPart DEF Part, Handled
<1>4. CASE k = 4
  <2>1. PartForm(4, d, Handled(4, d))
    BY ExecutorPart, ExecutorClusterPart DEF Handled
  <2>2. \A i \in 1 .. Len(Handled(4, d)) : Keeps(Handled(4, d)[i])
    <3> DEFINE H == Handled(4, d)
    <3>1. CASE d.executor.cluster
      <4>1. ExecutorClusterForm(d, H)
        BY <3>1, ExecutorClusterSteps DEF Handled
      <4> HIDE DEF H
      <4>2. Len(H) = 3 /\ \A i \in 1 .. 3 : Keeps(H[i])
        BY <4>1 DEF ExecutorClusterForm
      <4> QED
        BY <4>2 DEF H
    <3>2. CASE ~ d.executor.cluster
      <4>1. ExecutorForm(d, H)
        BY <3>2, ExecutorSteps DEF Handled
      <4> HIDE DEF H
      <4>2. Len(H) = 5 /\ \A i \in 1 .. 5 : Keeps(H[i])
        BY <4>1 DEF ExecutorForm
      <4> QED
        BY <4>2 DEF H
    <3> QED
      BY <3>1, <3>2
  <2>3. PICK S : Handled(4, d) \in Seq(S)
    BY <2>1 DEF PartForm
  <2>4. PartForm(4, d, FinishOnError(Handled(4, d)))
    BY <2>1, <2>2, <2>3, Finished
  <2> QED
    BY <1>4, <2>4 DEF Part
<1> QED
  BY <1>1, <1>2, <1>3, <1>4

(* Where the parts are.                                                    *)
Before(k, d) ==
    CASE k = 1 -> 0
      [] k = 2 -> Len(Part(1, d))
      [] k = 3 -> Len(Part(1, d)) + Len(Part(2, d))
      [] k = 4 -> Len(Part(1, d)) + Len(Part(2, d)) + Len(Part(3, d))

Last(k, d) == Before(k, d) + Len(Part(k, d))

LEMMA PlanFacts ==
    ASSUME NEW d
    PROVE  /\ DOMAIN PlanOf(d) = 1 .. Last(4, d) /\ Len(PlanOf(d)) = Last(4, d)
           /\ \A k \in 1 .. 4 : /\ Before(k, d) \in Nat /\ Len(Part(k, d)) \in 2 .. 5
                                /\ Last(k, d) <= Last(4, d)
           /\ \A k, l \in 1 .. 4 : k < l => Last(k, d) <= Before(l, d)
           /\ \A k \in 1 .. 4 : \A j \in 1 .. Len(Part(k, d)) :
                 PlanOf(d)[Before(k, d) + j] = Part(k, d)[j]
           /\ \A i \in DOMAIN PlanOf(d) : \E k \in 1 .. 4 : \E j \in 1 .. Len(Part(k, d)) :
                 i = Before(k, d) + j
<1> DEFINE A == Part(1, d)  B == Part(2, d)  C == Part(3, d)  E == Part(4, d)
<1>1. PlanOf(d) = ((A \o B) \o C) \o E
  <2>1. A = (IF d.frame.cluster THEN ReconcileMysqlCluster(d)
                               ELSE ReconcileFrameStandalone(d))
    BY DEF Part, Handled
  <2>2. B = (IF d.user.cluster THEN ReconcileEtcdCluster(d)
                               ELSE ReconcileUserStandalone(d))
    BY DEF Part, Handled
  <2>3. C = (IF d.master.cluster THEN ReconcileMasterCluster(d)
                                 ELSE ReconcileMaster(d))
    BY DEF Part, Handled
  <2>4. E = FinishOnError(IF d.executor.cluster THEN ReconcileExecutorCluster(d)
                                                ELSE ReconcileExecutor(d))
    BY DEF Part, Handled
  <2> HIDE DEF A, B, C, E
  <2>5. PlanOf(d) = A \o B \o C \o E
    BY <2>1, <2>2, <2>3, <2>4 DEF PlanOf
  <2> QED
    BY <2>5
<1>2. \A k \in 1 .. 4 : (\E S : Part(k, d) \in Seq(S)) /\ Len(Part(k, d)) \in 2 .. 5
  BY PartForms DEF PartForm
<1>3. PICK SA, SB, SC, SE : A \in Seq(SA) /\ B \in Seq(SB) /\ C \in Seq(SC) /\ E \in Seq(SE)
  BY <1>2
<1>4. Len(A) \in 2 .. 5 /\ Len(B) \in 2 .. 5 /\ Len(C) \in 2 .. 5 /\ Len(E) \in 2 .. 5
  BY <1>2
<1>5. /\ Before(1, d) = 0 /\ Before(2, d) = Len(A) /\ Before(3, d) = Len(A) + Len(B)
      /\ Before(4, d) = Len(A) + Len(B) + Len(C)
  BY DEF Before
<1>6. \A k \in 1 .. 4 : k = 1 \/ k = 2 \/ k = 3 \/ k = 4
  OBVIOUS
<1>7. /\ Last(1, d) = Len(A) /\ Last(2, d) = Len(A) + Len(B)
      /\ Last(3, d) = Len(A) + Len(B) + Len(C)
      /\ Last(4, d) = Len(A) + Len(B) + Len(C) + Len(E)
  BY <1>4, <1>5 DEF Last
<1> HIDE DEF A, B, C, E
<1>8. /\ A \o B \in Seq(SA \cup SB) /\ Len(A \o B) = Len(A) + Len(B)
      /\ \A i \in 1 .. Len(A) : (A \o B)[i] = A[i]
      /\ \A i \in 1 .. Len(B) : (A \o B)[Len(A) + i] = B[i]
  BY <1>3, ConcatFacts
<1> DEFINE AB == A \o B  SAB == SA \cup SB
<1>9. /\ AB \in Seq(SAB) /\ Len(AB) = Len(A) + Len(B)
      /\ \A i \in 1 .. Len(A) : AB[i] = A[i]
      /\ \A i \in 1 .. Len(B) : AB[Len(A) + i] = B[i]
  BY <1>8
<1> HIDE DEF AB, SAB
<1> DEFINE ABC == AB \o C  SABC == SAB \cup SC
<1>10. /\ ABC \in Seq(SABC) /\ Len(ABC) = Len(AB) + Len(C)
       /\ \A i \in 1 .. Len(AB) : ABC[i] = AB[i]
       /\ \A i \in 1 .. Len(C) : ABC[Len(AB) + i] = C[i]
  <2>1. AB \in Seq(SAB) /\ C \in Seq(SC)
    BY <1>3, <1>9
  <2> QED
    BY <2>1, ConcatFacts
<1> HIDE DEF ABC, SABC
<1> DEFINE p == ABC \o E
<1>11. /\ p \in Seq(SABC \cup SE) /\ Len(p) = Len(ABC) + Len(E)
       /\ \A i \in 1 .. Len(ABC) : p[i] = ABC[i]
       /\ \A i \in 1 .. Len(E) : p[Len(ABC) + i] = E[i]
  <2>1. ABC \in Seq(SABC) /\ E \in Seq(SE)
    BY <1>3, <1>10
  <2> QED
    BY <2>1, ConcatFacts
<1>12. PlanOf(d) = p
  BY <1>1 DEF A, B, C, E, AB, ABC
<1> HIDE DEF p
<1>13. DOMAIN p = 1 .. Last(4, d) /\ Len(p) = Last(4, d)
  BY <1>4, <1>7, <1>9, <1>10, <1>11
<1>14. \A j \in 1 .. Len(A) : p[Before(1, d) + j] = A[j]
  <2> TAKE j \in 1 .. Len(A)
  <2>1. j \in 1 .. Len(AB) /\ j \in 1 .. Len(ABC) /\ Before(1, d) + j = j
    BY <1>4, <1>5, <1>9, <1>10
  <2> QED
    BY <2>1, <1>9, <1>10, <1>11
<1>15. \A j \in 1 .. Len(B) : p[Before(2, d) + j] = B[j]
  <2> TAKE j \in 1 .. Len(B)
  <2>1. Len(A) + j \in 1 .. Len(AB) /\ Len(A) + j \in 1 .. Len(ABC)
    BY <1>4, <1>9, <1>10
  <2>2. Before(2, d) + j = Len(A) + j
    BY <1>5
  <2> QED
    BY <2>1, <2>2, <1>9, <1>10, <1>11
<1>16. \A j \in 1 .. Len(C) : p[Before(3, d) + j] = C[j]
  <2> TAKE j \in 1 .. Len(C)
  <2>1. Len(AB) + j \in 1 .. Len(ABC)
    BY <1>4, <1>9, <1>10
  <2>2. Before(3, d) + j = Len(AB) + j
    BY <1>5, <1>9
  <2> QED
    BY <2>1, <2>2, <1>10, <1>11
<1>17. \A j \in 1 .. Len(E) : p[Before(4, d) + j] = E[j]
  <2> TAKE j \in 1 .. Len(E)
  <2>1. Before(4, d) + j = Len(ABC) + j
    BY <1>5, <1>9, <1>10
  <2> QED
    BY <2>1, <1>11
<1>18. \A k \in 1 .. 4 : \A j \in 1 .. Len(Part(k, d)) : p[Before(k, d) + j] = Part(k, d)[j]
  BY <1>6, <1>14, <1>15, <1>16, <1>17 DEF A, B, C, E
<1>19. \A i \in 1 .. Last(4, d) : \E k \in 1 .. 4 : \E j \in 1 .. Len(Part(k, d)) :
          i = Before(k, d) + j
  <2> SUFFICES ASSUME NEW i \in 1 .. Last(4, d)
               PROVE  \E k \in 1 .. 4 : \E j \in 1 .. Len(Part(k, d)) : i = Before(k, d) + j
    OBVIOUS
  <2>1. CASE i <= Len(A)
    <3>1. i \in 1 .. Len(Part(1, d)) /\ i = Before(1, d) + i
      BY <1>4, <1>5, <1>7, <2>1 DEF A
    <3> QED
      BY <3>1
  <2>2. CASE Len(A) < i /\ i <= Len(A) + Len(B)
    <3>1. i - Len(A) \in 1 .. Len(Part(2, d)) /\ i = Before(2, d) + (i - Len(A))
      BY <1>4, <1>5, <1>7, <2>2 DEF B
    <3> QED
      BY <3>1
  <2>3. CASE Len(A) + Len(B) < i /\ i <= Len(A) + Len(B) + Len(C)
    <3> DEFINE j == i - (Len(A) + Len(B))
    <3>1. j \in 1 .. Len(Part(3, d)) /\ i = Before(3, d) + j
      BY <1>4, <1>5, <1>7, <2>3 DEF C
    <3> QED
      BY <3>1
  <2>4. CASE Len(A) + Len(B) + Len(C) < i
    <3> DEFINE j == i - (Len(A) + Len(B) + Len(C))
    <3>1. j \in 1 .. Len(Part(4, d)) /\ i = Before(4, d) + j
      BY <1>4, <1>5, <1>7, <2>4 DEF E
    <3> QED
      BY <3>1
  <2> QED
    BY <1>4, <1>7, <2>1, <2>2, <2>3, <2>4
<1>20. \A k \in 1 .. 4 : /\ Before(k, d) \in Nat /\ Len(Part(k, d)) \in 2 .. 5
                         /\ Last(k, d) <= Last(4, d)
  <2> TAKE k \in 1 .. 4
  <2>1. Len(Part(k, d)) \in 2 .. 5
    BY <1>2
  <2>2. Before(k, d) \in Nat
    BY <1>4, <1>5, <1>6
  <2>3. Last(k, d) <= Last(4, d)
    BY <1>4, <1>6, <1>7
  <2> QED
    BY <2>1, <2>2, <2>3
<1>21. \A k, l \in 1 .. 4 : k < l => Last(k, d) <= Before(l, d)
  BY <1>4, <1>5, <1>6, <1>7
<1> QED
  BY <1>12, <1>13, <1>18, <1>19, <1>20, <1>21

(* Labels tell the parts apart.                                            *)
LEMMA LabelFacts ==
    ASSUME NEW d, NEW k \in 1 .. 4, NEW l \in 1 .. 4
    PROVE  Label(k, d) \notin Shared /\ (Label(k, d) = Label(l, d) => k = l)
<1>1. \A i \in 1 .. 4 : i = 1 \/ i = 2 \/ i = 3 \/ i = 4
  OBVIOUS
<1>2. \/ Label(1, d)[1] = "mysql-app"
      \/ (Label(1, d)[1] = "app" /\ Label(1, d)[2] = "frame-mysql-standalone")
  BY DEF Label, FRAME_STANDALONE
<1>3. \/ Label(2, d)[1] = "etcd-standalone"
      \/ (Label(2, d)[1] = "app" /\ Label(2, d)[2] = "user-etcd-standalone")
  BY DEF Label, USER_STANDALONE
<1>4. \/ Label(3, d)[1] = "de-m" \/ (Label(3, d)[1] = "app" /\ Label(3, d)[2] = "master")
  BY DEF Label
<1>5. \/ Label(4, d)[1] = "de-e" \/ (Label(4, d)[1] = "app" /\ Label(4, d)[2] = "executor")
  BY DEF Label
<1>6. \A x \in Shared : x[1] \in {"mysql-cluster", "etcd-cluster", "de"}
  BY DEF Shared
<1>7. Label(k, d) \notin Shared
  BY <1>1, <1>2, <1>3, <1>4, <1>5, <1>6
<1>8. Label(k, d) = Label(l, d) => k = l
  BY <1>1, <1>2, <1>3, <1>4, <1>5
<1> QED
  BY <1>7, <1>8

(* So do the fixed names of their objects.                                 *)
LEMMA FixedNamesApart ==
    ASSUME NEW k \in 1 .. 4, NEW l \in 1 .. 4, k # l
    PROVE  FixedNames(k) \cap FixedNames(l) = {}
<1>1. \A i \in 1 .. 4 : i = 1 \/ i = 2 \/ i = 3 \/ i = 4
  OBVIOUS
<1> QED
  BY <1>1 DEF FixedNames

-----------------------------------------------------------------------------
(* The workload that ends a part: its form, how many pods it has, and the  *)
(* names that they wait for or list as peers.                              *)

Waits(k, d) ==
    CASE k = 1 -> {} [] k = 2 -> {} [] k = 3 -> MasterWaits
      [] k = 4 -> IF d.executor.cluster THEN loadExecutorInitContainerCommand(d)
                                        ELSE {Host(SERVER_MASTER)}

Peers(k, d) ==
    CASE k = 1 -> {}
      [] k = 2 -> IF d.user.cluster THEN EtcdPods(d) ELSE {}
      [] k = 3 -> IF d.master.cluster THEN MasterPods(d) ELSE {Host(SERVER_MASTER)}
      [] k = 4 -> IF d.executor.cluster THEN loadExecutorContainerCommand(d)
                                        ELSE {Host(SERVER_MASTER)}

Copies(k, d) ==
    CASE k = 1 -> IF d.frame.cluster THEN d.frame.size ELSE {1}
      [] k = 2 -> d.user.size
      [] k = 3 -> IF d.master.cluster THEN d.master.size ELSE {1}
      [] k = 4 -> IF d.executor.cluster THEN d.executor.size ELSE {1}

EndForm(k, d, st) ==
    /\ st.obj[1] = IF Clustered(k, d) THEN "StatefulSet" ELSE "Deployment"
    /\ st.body.spec.waits = Waits(k, d)
    /\ st.body.spec.peers = Peers(k, d)
    /\ st.body.spec.replicas = Copies(k, d)

LEMMA EndForms ==
    ASSUME NEW d, NEW k \in 1 .. 4
    PROVE  EndForm(k, d, Part(k, d)[Len(Part(k, d))])
<1> DEFINE P == Part(k, d)
<1>1. CASE k = 1 /\ ~ d.frame.cluster
  <2>1. FrameStandaloneForm(d, P)
    BY <1>1, FrameStandaloneSteps DEF Part, Handled
  <2>2. /\ Waits(1, d) = {}
        /\ Peers(1, d) = {}
        /\ Copies(1, d) = {1}
        /\ (IF Clustered(1, d) THEN "StatefulSet" ELSE "Deployment") = "Deployment"
    BY <1>1 DEF Waits, Peers, Copies, Clustered
  <2> HIDE DEF P
  <2>4. Len(P) = 5 /\ P[5].obj[1] = "Deployment"
    BY <2>1 DEF FrameStandaloneForm, IsWorkload
  <2>5. /\ P[5].body.spec.waits = Waits(1, d)
        /\ P[5].body.spec.peers = Peers(1, d)
        /\ P[5].body.spec.replicas = Copies(1, d)
    BY <2>1, <2>2 DEF FrameStandaloneForm, Stamps
  <2> QED
    BY <1>1, <2>2, <2>4, <2>5 DEF EndForm, P
<1>2. CASE k = 1 /\ d.frame.cluster
  <2>1. MysqlClusterForm(d, P)
    BY <1>2, MysqlClusterSteps DEF Part, Handled
  <2>2. /\ Waits(1, d) = {}
        /\ Peers(1, d) = {}
        /\ Copies(1, d) = d.frame.size
        /\ (IF Clustered(1, d) THEN "StatefulSet" ELSE "Deployment") = "StatefulSet"
    BY <1>2 DEF Waits, Peers, Copies, Clustered
  <2> HIDE DEF P
  <2>4. Len(P) = 4 /\ P[4].obj[1] = "StatefulSet"
    BY <2>1 DEF MysqlClusterForm, IsWorkload
  <2>5. /\ P[4].body.spec.waits = Waits(1, d)
        /\ P[4].body.spec.peers = Peers(1, d)
        /\ P[4].body.spec.replicas = Copies(1, d)
    BY <2>1, <2>2 DEF MysqlClusterForm, Stamps
  <2> QED
    BY <1>2, <2>2, <2>4, <2>5 DEF EndForm, P
<1>3. CASE k = 2 /\ ~ d.user.cluster
  <2>1. UserStandaloneForm(d, P)
    BY <1>3, UserStandaloneSteps DEF Part, Handled
  <2>2. /\ Waits(2, d) = {}
        /\ Peers(2, d) = {}
        /\ Copies(2, d) = d.user.size
        /\ (IF Clustered(2, d) THEN "StatefulSet" ELSE "Deployment") = "Deployment"
    BY <1>3 DEF Waits, Peers, Copies, Clustered
  <2> HIDE DEF P
  <2>4. Len(P) = 3 /\ P[3].obj[1] = "Deployment"
    BY <2>1 DEF UserStandaloneForm, IsWorkload
  <2>5. /\ P[3].body.spec.waits = Waits(2, d)
        /\ P[3].body.spec.peers = Peers(2, d)
        /\ P[3].body.spec.replicas = Copies(2, d)
    BY <2>1, <2>2 DEF UserStandaloneForm, Stamps
  <2> QED
    BY <1>3, <2>2, <2>4, <2>5 DEF EndForm, P
<1>4. CASE k = 2 /\ d.user.cluster
  <2>1. EtcdClusterForm(d, P)
    BY <1>4, EtcdClusterSteps DEF Part, Handled
  <2>2. /\ Waits(2, d) = {}
        /\ Peers(2, d) = EtcdPods(d)
        /\ Copies(2, d) = d.user.size
        /\ (IF Clustered(2, d) THEN "StatefulSet" ELSE "Deployment") = "StatefulSet"
    BY <1>4 DEF Waits, Peers, Copies, Clustered
  <2> HIDE DEF P
  <2>4. Len(P) = 2 /\ P[2].obj[1] = "StatefulSet"
    BY <2>1 DEF EtcdClusterForm, IsWorkload
  <2>5. /\ P[2].body.spec.waits = Waits(2, d)
        /\ P[2].body.spec.peers = Peers(2, d)
        /\ P[2].body.spec.replicas = Copies(2, d)
    BY <2>1, <2>2 DEF EtcdClusterForm, Stamps
  <2> QED
    BY <1>4, <2>2, <2>4, <2>5 DEF EndForm, P
<1>5. CASE k = 3 /\ ~ d.master.cluster
  <2>1. MasterForm(d, P)
    BY <1>5, MasterSteps DEF Part, Handled
  <2>2. /\ Waits(3, d) = MasterWaits
        /\ Peers(3, d) = {Host(SERVER_MASTER)}
        /\ Copies(3, d) = {1}
        /\ (IF Clustered(3, d) THEN "StatefulSet" ELSE "Deployment") = "Deployment"
    BY <1>5 DEF Waits, Peers, Copies, Clustered
  <2> HIDE DEF P
  <2>4. Len(P) = 5 /\ P[5].obj[1] = "Deployment"
    BY <2>1 DEF MasterForm, IsWorkload
  <2>5. /\ P[5].body.spec.waits = Waits(3, d)
        /\ P[5].body.spec.peers = Peers(3, d)
        /\ P[5].body.spec.replicas = Copies(3, d)
    BY <2>1, <2>2 DEF MasterForm, Stamps
  <2> QED
    BY <1>5, <2>2, <2>4, <2>5 DEF EndForm, P
<1>6. CASE k = 3 /\ d.master.cluster
  <2>1. MasterClusterForm(d, P)
    BY <1>6, MasterClusterSteps DEF Part, Handled
  <2>2. /\ Waits(3, d) = MasterWaits
        /\ Peers(3, d) = MasterPods(d)
        /\ Copies(3, d) = d.master.size
        /\ (IF Clustered(3, d) THEN "StatefulSet" ELSE "Deployment") = "StatefulSet"
    BY <1>6 DEF Waits, Peers, Copies, Clustered
  <2> HIDE DEF P
  <2>4. Len(P) = 3 /\ P[3].obj[1] = "StatefulSet"
    BY <2>1 DEF MasterClusterForm, IsWorkload
  <2>5. /\ P[3].body.spec.waits = Waits(3, d)
        /\ P[3].body.spec.peers = Peers(3, d)
        /\ P[3].body.spec.replicas = Copies(3, d)
    BY <2>1, <2>2 DEF MasterClusterForm, Stamps
  <2> QED
    BY <1>6, <2>2, <2>4, <2>5 DEF EndForm, P
<1>7. CASE k = 4 /\ ~ d.executor.cluster
  <2> DEFINE H == Handled(4, d)
  <2>1. ExecutorForm(d, H)
    BY <1>7, ExecutorSteps DEF Handled
  <2>2. /\ Waits(4, d) = {Host(SERVER_MASTER)}
        /\ Peers(4, d) = {Host(SERVER_MASTER)}
        /\ Copies(4, d) = {1}
        /\ (IF Clustered(4, d) THEN "StatefulSet" ELSE "Deployment") = "Deployment"
    BY <1>7 DEF Waits, Peers, Copies, Clustered
  <2>3. P = FinishOnError(H)
    BY <1>7 DEF Part
  <2> HIDE DEF P, H
  <2>4. Len(H) = 5 /\ H[5].obj[1] = "Deployment"
    BY <2>1 DEF ExecutorForm, IsWorkload
  <2>5. /\ H[5].body.spec.waits = Waits(4, d)
        /\ H[5].body.spec.peers = Peers(4, d)
        /\ H[5].body.spec.replicas = Copies(4, d)
    BY <2>1, <2>2 DEF ExecutorForm, Stamps
  <2>6. (\E S : H \in Seq(S)) /\ \A i \in 1 .. 5 : Keeps(H[i])
    BY <2>1 DEF ExecutorForm
  <2>7. Keeps(H[5]) /\ 5 \in 1 .. Len(H)
    BY <2>4, <2>6
  <2>8. Len(P) = 5 /\ P[5].body = H[5].body /\ P[5].obj = H[5].obj
    <3>1. PICK S : H \in Seq(S)
      BY <2>6
    <3>2. Len(P) = Len(H) /\ P[5] = OnError("finish", H[5])
      BY <2>3, <2>7, <3>1, FinishFacts
    <3> QED
      BY <2>4, <2>7, <3>2 DEF Keeps
  <2> QED
    BY <1>7, <2>2, <2>4, <2>5, <2>8 DEF EndForm, P
<1>8. CASE k = 4 /\ d.executor.cluster
  <2> DEFINE H == Handled(4, d)
  <2>1. ExecutorClusterForm(d, H)
    BY <1>8, ExecutorClusterSteps DEF Handled
  <2>2. /\ Waits(4, d) = loadExecutorInitContainerCommand(d)
        /\ Peers(4, d) = loadExecutorContainerCommand(d)
        /\ Copies(4, d) = d.executor.size
        /\ (IF Clustered(4, d) THEN "StatefulSet" ELSE "Deployment") = "StatefulSet"
    BY <1>8 DEF Waits, Peers, Copies, Clustered
  <2>3. P = FinishOnError(H)
    BY <1>8 DEF Part
  <2> HIDE DEF P, H
  <2>4. Len(H) = 3 /\ H[3].obj[1] = "StatefulSet"
    BY <2>1 DEF ExecutorClusterForm, IsWorkload
  <2>5. /\ H[3].body.spec.waits = Waits(4, d)
        /\ H[3].body.spec.peers = Peers(4, d)
        /\ H[3].body.spec.replicas = Copies(4, d)
    BY <2>1, <2>2 DEF ExecutorClusterForm, Stamps
  <2>6. (\E S : H \in Seq(S)) /\ \A i \in 1 .. 3 : Keeps(H[i])
    BY <2>1 DEF ExecutorClusterForm
  <2>7. Keeps(H[3]) /\ 3 \in 1 .. Len(H)
    BY <2>4, <2>6
  <2>8. Len(P) = 3 /\ P[3].body = H[3].body /\ P[3].obj = H[3].obj
    <3>1. PICK S : H \in Seq(S)
      BY <2>6
    <3>2. Len(P) = Len(H) /\ P[3] = OnError("finish", H[3])
      BY <2>3, <2>7, <3>1, FinishFacts
    <3> QED
      BY <2>4, <2>7, <3>2 DEF Keeps
  <2> QED
    BY <1>8, <2>2, <2>4, <2>5, <2>8 DEF EndForm, P
<1> QED
  BY <1>1, <1>2, <1>3, <1>4, <1>5, <1>6, <1>7, <1>8

=============================================================================
