------------------------------- MODULE Samples -------------------------------
(***************************************************************************)
(* The DataflowEngine resources of config/samples, as the operator decodes *)
(* them: a component that a file omits has the zero value of its Go type.  *)
(***************************************************************************)
EXTENDS Manifests

Component(name, size, ports, cluster) ==
    [name |-> name, size |-> size, ports |-> ports, cluster |-> cluster]

NoComponent == Component("", {}, 0, FALSE)

Frame(name, size, cluster) ==
    [name |-> name, image |-> "mysql:5.7", size |-> size, port |-> 3306,
     cluster |-> cluster]

User(name, size, cluster) ==
    [name |-> name, image |-> "quay.io/coreos/etcd", size |-> size,
     ports |-> <<2379, 2380>>, cluster |-> cluster]

NoUser == [name |-> "", image |-> "", size |-> {}, ports |-> <<>>, cluster |-> FALSE]

Engine(image, master, executor, frame, user) ==
    [image |-> image, master |-> master, executor |-> executor,
     frame |-> frame, user |-> user]

DemoImage == "hub.pingcap.net/ticdc/dataflow:20220531-2"

SingleFrame == Frame(FRAME_STANDALONE, {}, FALSE)
SingleUser  == User(USER_STANDALONE, {1}, FALSE)

(* The three demos; the masters and executors they deploy name them.       *)
Demo(masters, executors) ==
    Engine(DemoImage,
           Component("server-master", {masters}, 10240, masters > 1),
           Component("server-executor", {executors}, 10241, executors > 1),
           SingleFrame, SingleUser)

(* The files that set up storage only.                                     *)
SingleFrameStorage == Engine("", NoComponent, NoComponent, SingleFrame, NoUser)
UserStorageSingle  == Engine("", NoComponent, NoComponent, SingleFrame, SingleUser)
UserStorageCluster == Engine("", NoComponent, NoComponent,
                             Frame("mysql", {3}, TRUE), User("etcd-demo", {3}, TRUE))
=============================================================================
