----------------------------- MODULE ReconcilerMC -----------------------------
(***************************************************************************)
(* Instances of Reconciler for TLC.  The plans are those of module         *)
(* Manifests for the demos of config/samples and edits of them, restricted *)
(* to the objects that a configuration puts in Objects.                    *)
(***************************************************************************)
EXTENDS Reconciler, TLC

M == INSTANCE Samples

Demo == M!Demo(1, 1)

(* The specifications that configurations choose from.                     *)
SpecOf(s) ==
    CASE s = "1m1e"    -> Demo
      [] s = "1m3e"    -> M!Demo(1, 3)
      [] s = "ports"   -> [Demo EXCEPT !.executor.ports = 10242, !.user.ports = <<2379, 2390>>]
      [] s = "storage" -> M!SingleFrameStorage

Relevant(st) == st.obj \in Objects

FullPlan == [s \in Specs |-> SelectSeq(M!PlanOf(SpecOf(s)), Relevant)]

(* Only the identity of contents matters here: the content of an object is *)
(* named after one of the specifications that ask for it.                  *)
Naming(st, steps) ==
    [st EXCEPT !.body =
        [immut |-> CHOOSE s \in Specs : \E t \in steps[s] :
                     t.obj = st.obj /\ t.body.immut = st.body.immut,
         spec  |-> CHOOSE s \in Specs : \E t \in steps[s] :
                     t.obj = st.obj /\ t.body.spec = st.body.spec]]

Named(full, steps) == [s \in Specs |-> [i \in DOMAIN full[s] |-> Naming(full[s][i], steps)]]

MCPlan == LET full == FullPlan
          IN  Named(full, [s \in Specs |-> {full[s][i] : i \in DOMAIN full[s]}])
MCWatched == {o \in Objects : o[1] \in M!OwnedKinds}
MCPlain == {o \in Objects : o[1] = "ConfigMap"}

(* What RestSound depends on.                                              *)
ASSUME PartsAssumption == FixedParts

(* Nothing depends on which engine is which.                              *)
Alike == Permutations(Engines)

UserService        == <<"Service", "user-etcd-standalone">>
MasterClaim        == <<"PersistentVolumeClaim", "master-pv-claim">>
MasterConfig       == <<"ConfigMap", "mastercfm">>
ExecutorService    == <<"Service", "server-executor">>
ExecutorDeployment == <<"Deployment", "server-executor">>
ExecutorSet        == <<"StatefulSet", "server-executor">>
FrameService       == <<"Service", "frame-mysql-standalone">>

FocusOne     == {UserService}
FocusEdits   == {UserService, MasterClaim}
FocusLive    == {UserService, ExecutorDeployment, <<"Service", "">>}
FocusSwallow == {MasterConfig, ExecutorDeployment}
FocusToggle  == {ExecutorService, ExecutorDeployment, ExecutorSet}
FocusPanic   == {FrameService, <<"Service", "">>}
=============================================================================
