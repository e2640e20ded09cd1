---------------------------- MODULE MysqlReplica ----------------------------
(***************************************************************************)
(* How the pods of a clustered framework store come to replicate: the      *)
(* StatefulSet "mysql", the init container clone-mysql, mysqld, and the    *)
(* sidecar xtrabackup with the files the three keep on the pod's volume.   *)
(*                                                                         *)
(* Pod 0 is the primary.  Every other pod copies the data of the pod       *)
(* before it, reads from files in the copy the coordinate in the primary's *)
(* binary log that the copy reaches, starts to replicate from there, and   *)
(* then serves its own data to the next pod.  The sidecar runs the text of *)
(* spec.frameStandalone.backupCommand, which the samples give.  Volumes    *)
(* outlive containers and pods; everything else starts over.               *)
(*                                                                         *)
(* Not in the model: init-mysql, which only writes configuration; pings of *)
(* mysqld before it is up; whatever clients write to the primary.          *)
(***************************************************************************)
EXTENDS Naturals, FiniteSets

CONSTANTS
    Size,         \* spec.frameStandalone.size
    PeerBinlog,   \* whether backups of replicas hold xtrabackup_binlog_info
    Faults,       \* the kinds of failures that happen
    MaxFault      \* bound: failures in a behaviour

ASSUME ReplicaAssumption ==
    /\ Size \in Nat \ {0}
    /\ PeerBinlog \subseteq BOOLEAN /\ PeerBinlog # {}
    /\ Faults \subseteq {"side", "sql", "clone", "pod"}
    /\ MaxFault \in Nat

Pods == 0 .. Size - 1

VARIABLES
    phase,   \* of the pod: "absent", "init", "stream", "prepare" or "run"
    sql,     \* mysqld in the pod: "up" or "down"
    pc,      \* the next command of the sidecar's script
    mem,     \* the coordinate that the sidecar's shell remembers
    disk,    \* the volume of the pod
    tries,   \* how often the sidecar sent CHANGE MASTER, up to 2
    early,   \* something failed before all pods served; only in the model
    cut,     \* pods whose sidecar died between the removals of two files that
             \* were both there; only in the model
    left     \* what remains of the bound

vars == <<phase, sql, pc, mem, disk, tries, early, cut, left>>

(***************************************************************************)
(* A coordinate is the one that the copied data reaches in the primary's   *)
(* log, or one in the log of the peer, which says nothing about the        *)
(* primary's.  A file is missing, empty ("torn"), or holds a coordinate.   *)
(***************************************************************************)
Coordinates == {"copy", "peer"}

(***************************************************************************)
(* The volume.  data: no database, a part of a copy, a copy that is not    *)
(* prepared, a complete copy, or a database that mysqld made itself.       *)
(* slave, binlog, sqlIn: the files xtrabackup_slave_info,                  *)
(* xtrabackup_binlog_info and change_master_to.sql.in.  repl, pos: whether *)
(* mysqld has a master set and follows it, and from which coordinate.      *)
(* relayed: what slave info the copy came with; kept only in the model.    *)
(***************************************************************************)
Volume == [data : {"none", "part", "raw", "ready", "own"},
           slave : {"none"} \cup Coordinates,
           binlog : {"none"} \cup Coordinates,
           sqlIn : {"none", "torn"} \cup Coordinates,
           repl : {"off", "set", "on"},
           pos : {"none"} \cup Coordinates,
           relayed : {"none"} \cup Coordinates]

Empty == [data |-> "none", slave |-> "none", binlog |-> "none", sqlIn |-> "none",
          repl |-> "off", pos |-> "none", relayed |-> "none"]

Init ==
    /\ phase = [i \in Pods |-> "absent"]
    /\ sql = [i \in Pods |-> "down"]
    /\ pc = [i \in Pods |-> "check"]
    /\ mem = [i \in Pods |-> "none"]
    /\ disk = [i \in Pods |-> Empty]
    /\ tries = [i \in Pods |-> 0]
    /\ early = FALSE
    /\ cut = {}
    /\ left = MaxFault

Ready(i)   == phase[i] = "run" /\ sql[i] = "up"
Serving(i) == Ready(i) /\ pc[i] = "serve"
Settled    == \A i \in Pods : Serving(i)

-----------------------------------------------------------------------------
(* The StatefulSet and the init container.                                 *)

(* Pods are created in order, each when all before it are ready.           *)
CreatePod(i) ==
    /\ phase[i] = "absent"
    /\ \A j \in 0 .. i - 1 : Ready(j)
    /\ phase' = [phase EXCEPT ![i] = "init"]
    /\ UNCHANGED <<sql, pc, mem, disk, tries, early, cut, left>>

(* Mutant of CloneSkip: only the ordinal is looked at.                     *)
CloneSkipPrimary(i) ==
    /\ phase[i] = "init"
    /\ i = 0
    /\ phase' = [phase EXCEPT ![i] = "run"]
    /\ UNCHANGED <<sql, pc, mem, disk, tries, early, cut, left>>

(* There is a directory of the database already, or this is the primary.   *)
CloneSkip(i) ==
    /\ phase[i] = "init"
    /\ disk[i].data # "none" \/ i = 0
    /\ phase' = [phase EXCEPT ![i] = "run"]
    /\ UNCHANGED <<sql, pc, mem, disk, tries, early, cut, left>>

(* The first files arrive, the directory of the database among them.       *)
CloneBegin(i) ==
    /\ phase[i] = "init"
    /\ disk[i].data = "none" /\ i > 0
    /\ Serving(i - 1)
    /\ phase' = [phase EXCEPT ![i] = "stream"]
    /\ disk' = [disk EXCEPT ![i].data = "part"]
    /\ UNCHANGED <<sql, pc, mem, tries, early, cut, left>>

(* The peer refuses the connection or sends nothing: what fails is not the *)
(* pipeline, whose last command has read an empty stream, but the command  *)
(* after it.                                                               *)
CloneNothing(i) ==
    /\ phase[i] = "init"
    /\ disk[i].data = "none" /\ i > 0
    /\ ~ Serving(i - 1)
    /\ phase' = [phase EXCEPT ![i] = "prepare"]
    /\ UNCHANGED <<sql, pc, mem, disk, tries, early, cut, left>>

(* Mutant of SlaveInfo: xtrabackup runs without --slave-info.              *)
SlaveInfoNever(p) == "none"

(* What xtrabackup --slave-info finds on pod p: where p follows, if it does. *)
SlaveInfo(p) == IF disk[p].repl = "off" THEN "none" ELSE disk[p].pos

(* Only the configuration of the primary turns the binary log on; some     *)
(* versions of the image do so by default.                                 *)
BinlogInfo(p) ==
    IF p = 0 THEN {"copy"} ELSE {IF b THEN "peer" ELSE "none" : b \in PeerBinlog}

(* The files with the coordinates come last.                               *)
CloneEnd(i) ==
    /\ phase[i] = "stream"
    /\ phase' = [phase EXCEPT ![i] = "prepare"]
    /\ \E b \in BinlogInfo(i - 1) :
          disk' = [disk EXCEPT ![i] =
              [Empty EXCEPT !.data = "raw", !.slave = SlaveInfo(i - 1), !.binlog = b,
                            !.relayed = SlaveInfo(i - 1)]]
    /\ UNCHANGED <<sql, pc, mem, tries, early, cut, left>>

(* Mutant of Prepare: its failure is ignored.                              *)
PrepareAnything(i) ==
    /\ phase[i] = "prepare"
    /\ phase' = [phase EXCEPT ![i] = "run"]
    /\ disk' = [disk EXCEPT ![i].data = IF @ = "raw" THEN "ready" ELSE @]
    /\ UNCHANGED <<sql, pc, mem, tries, early, cut, left>>

(* xtrabackup --prepare; the container starts again when there is nothing  *)
(* complete to prepare.                                                    *)
Prepare(i) ==
    /\ phase[i] = "prepare"
    /\ IF disk[i].data = "raw"
       THEN /\ disk' = [disk EXCEPT ![i].data = "ready"]
            /\ phase' = [phase EXCEPT ![i] = "run"]
       ELSE /\ phase' = [phase EXCEPT ![i] = "init"]
            /\ UNCHANGED disk
    /\ UNCHANGED <<sql, pc, mem, tries, early, cut, left>>

(* mysqld makes a database where there is none, and goes on replicating    *)
(* when a master is set.                                                   *)
MysqldStart(i) ==
    /\ phase[i] = "run" /\ sql[i] = "down"
    /\ sql' = [sql EXCEPT ![i] = "up"]
    /\ disk' = [disk EXCEPT ![i].data = IF @ = "none" THEN "own" ELSE @,
                            ![i].repl = IF @ = "set" THEN "on" ELSE @]
    /\ UNCHANGED <<phase, pc, mem, tries, early, cut, left>>

-----------------------------------------------------------------------------
(* The sidecar's script, one command at a time.                            *)

At(i, here) == phase[i] = "run" /\ pc[i] = here

Step(i, here, next, volume) ==
    /\ At(i, here)
    /\ pc' = [pc EXCEPT ![i] = next]
    /\ disk' = [disk EXCEPT ![i] = volume]
    /\ UNCHANGED <<phase, sql, early, cut, left>>

(* Mutant of OpenFromSlave: the info is removed before it is written.      *)
OpenAfterRemoval(i) ==
    /\ disk[i].slave # "none"
    /\ Step(i, "check", "write", [disk[i] EXCEPT !.slave = "none"])
    /\ mem' = [mem EXCEPT ![i] = disk[i].slave]
    /\ UNCHANGED tries

(* Branch 1: the copy came from a replica.  The shell empties the file     *)
(* that it redirects to before the commands write it.                      *)
OpenFromSlave(i) ==
    /\ disk[i].slave # "none"
    /\ Step(i, "check", "fill", [disk[i] EXCEPT !.sqlIn = "torn"])
    /\ UNCHANGED <<mem, tries>>

FillFromSlave(i) ==
    /\ Step(i, "fill", "drop", [disk[i] EXCEPT !.sqlIn = disk[i].slave])
    /\ UNCHANGED <<mem, tries>>

(* rm removes one file after the other.                                    *)
DropSlaveInfo(i) ==
    /\ Step(i, "drop", "dropBinlog", [disk[i] EXCEPT !.slave = "none"])
    /\ UNCHANGED <<mem, tries>>

DropBinlogInfo(i) ==
    /\ Step(i, "dropBinlog", "apply", [disk[i] EXCEPT !.binlog = "none"])
    /\ UNCHANGED <<mem, tries>>

(* Mutant of TakeBinlogInfo: the binary log is looked at first.            *)
TakeBinlogFirst(i) ==
    /\ disk[i].binlog # "none"
    /\ Step(i, "check", "open", [disk[i] EXCEPT !.binlog = "none", !.slave = "none"])
    /\ mem' = [mem EXCEPT ![i] = disk[i].binlog]
    /\ UNCHANGED tries

(* Mutant of TakeBinlogInfo: the line is not split into its two parts.     *)
TakeUnparsed(i) ==
    /\ disk[i].slave = "none" /\ disk[i].binlog # "none"
    /\ Step(i, "check", "open", [disk[i] EXCEPT !.binlog = "none"])
    /\ mem' = [mem EXCEPT ![i] = "unparsed"]
    /\ UNCHANGED tries

(* Branch 2: the copy came from the primary.  The coordinate is only in    *)
(* the memory of the shell once the file is removed.                       *)
TakeBinlogInfo(i) ==
    /\ disk[i].slave = "none" /\ disk[i].binlog # "none"
    /\ Step(i, "check", "open", [disk[i] EXCEPT !.binlog = "none"])
    /\ mem' = [mem EXCEPT ![i] = disk[i].binlog]
    /\ UNCHANGED tries

OpenFromMemory(i) ==
    /\ Step(i, "open", "write", [disk[i] EXCEPT !.sqlIn = "torn"])
    /\ UNCHANGED <<mem, tries>>

FillFromMemory(i) ==
    /\ Step(i, "write", "apply", [disk[i] EXCEPT !.sqlIn = mem[i]])
    /\ mem' = [mem EXCEPT ![i] = "none"]
    /\ UNCHANGED tries

(* Neither: the primary, or a container that has been here before.         *)
NothingToTake(i) ==
    /\ disk[i].slave = "none" /\ disk[i].binlog = "none"
    /\ Step(i, "check", "apply", disk[i])
    /\ UNCHANGED <<mem, tries>>

(***************************************************************************)
(* CHANGE MASTER, once mysqld answers.  It fails on an incomplete          *)
(* statement and on a server that replicates; the container starts again.  *)
(***************************************************************************)
ChangeMaster(i) ==
    /\ disk[i].sqlIn # "none"
    /\ sql[i] = "up"
    /\ tries' = [tries EXCEPT ![i] = IF @ < 2 THEN @ + 1 ELSE @]
    /\ IF disk[i].sqlIn = "torn" \/ disk[i].repl = "on"
       THEN Step(i, "apply", "check", disk[i])
       ELSE Step(i, "apply", "start",
                 [disk[i] EXCEPT !.repl = "set", !.pos = disk[i].sqlIn])
    /\ UNCHANGED mem

StartSlave(i) ==
    /\ Step(i, "start", "move", [disk[i] EXCEPT !.repl = "on"])
    /\ UNCHANGED <<mem, tries>>

(* Mutant of MoveAside: the file stays where it is.                        *)
MoveNothing(i) ==
    /\ Step(i, "move", "serve", disk[i])
    /\ UNCHANGED <<mem, tries>>

(* mv of change_master_to.sql.in, which no later start will find.          *)
MoveAside(i) ==
    /\ Step(i, "move", "serve", [disk[i] EXCEPT !.sqlIn = "none"])
    /\ UNCHANGED <<mem, tries>>

NothingToApply(i) ==
    /\ disk[i].sqlIn = "none"
    /\ Step(i, "apply", "serve", disk[i])
    /\ UNCHANGED <<mem, tries>>

Sidecar(i) ==
    \/ OpenFromSlave(i) \/ FillFromSlave(i) \/ DropSlaveInfo(i) \/ DropBinlogInfo(i)
    \/ TakeBinlogInfo(i) \/ OpenFromMemory(i) \/ FillFromMemory(i) \/ NothingToTake(i)
    \/ ChangeMaster(i) \/ StartSlave(i) \/ MoveAside(i) \/ NothingToApply(i)

-----------------------------------------------------------------------------
(* Failures.  A pod that was streaming from the failed one is cut off.     *)

Strike(kind, sidecars) ==
    /\ kind \in Faults
    /\ left > 0
    /\ left' = left - 1
    /\ early' = (early \/ (left = MaxFault /\ ~ Settled))
    /\ cut' = cut \cup
          {i \in sidecars : pc[i] = "dropBinlog" /\ disk[i].binlog # "none"}

CutOff(i) ==
    [j \in Pods |-> IF j = i + 1 /\ phase[j] = "stream" THEN "prepare" ELSE phase[j]]

SidecarDies(i) ==
    /\ phase[i] = "run"
    /\ Strike("side", {i})
    /\ pc' = [pc EXCEPT ![i] = "check"]
    /\ mem' = [mem EXCEPT ![i] = "none"]
    /\ phase' = CutOff(i)
    /\ UNCHANGED <<sql, disk, tries>>

(* The client in the sidecar that was sending statements fails with mysqld. *)
MysqldDies(i) ==
    /\ phase[i] = "run" /\ sql[i] = "up"
    /\ Strike("sql", {})
    /\ sql' = [sql EXCEPT ![i] = "down"]
    /\ pc' = [pc EXCEPT ![i] = IF @ = "start" THEN "check" ELSE @]
    /\ phase' = CutOff(i)
    /\ UNCHANGED <<mem, disk, tries>>

CloneDies(i) ==
    /\ phase[i] \in {"stream", "prepare"}
    /\ Strike("clone", {})
    /\ phase' = [phase EXCEPT ![i] = "init"]
    /\ UNCHANGED <<sql, pc, mem, disk, tries>>

(* The pod is deleted or its node lost; the volume remains.                *)
PodDies(i) ==
    /\ phase[i] # "absent"
    /\ Strike("pod", {i})
    /\ phase' = [CutOff(i) EXCEPT ![i] = "absent"]
    /\ sql' = [sql EXCEPT ![i] = "down"]
    /\ pc' = [pc EXCEPT ![i] = "check"]
    /\ mem' = [mem EXCEPT ![i] = "none"]
    /\ UNCHANGED <<disk, tries>>

Progress(i) ==
    \/ CreatePod(i) \/ CloneSkip(i) \/ CloneNothing(i) \/ CloneBegin(i) \/ CloneEnd(i)
    \/ Prepare(i) \/ MysqldStart(i) \/ Sidecar(i)

Failure(i) == SidecarDies(i) \/ MysqldDies(i) \/ CloneDies(i) \/ PodDies(i)

Next == \E i \in Pods : Progress(i) \/ Failure(i)

Spec == Init /\ [][Next]_vars

(* Containers run and are restarted; nothing obliges one to fail.          *)
Fairness == \A i \in Pods : WF_vars(Progress(i))

FairSpec == Spec /\ Fairness

-----------------------------------------------------------------------------
(***************************************************************************)
(* Every variable keeps its type.                                          *)
(***************************************************************************)
TypeOK ==
    /\ phase \in [Pods -> {"absent", "init", "stream", "prepare", "run"}]
    /\ sql \in [Pods -> {"up", "down"}]
    /\ pc \in [Pods -> {"check", "fill", "drop", "dropBinlog", "open", "write",
                        "apply", "start", "move", "serve"}]
    /\ mem \in [Pods -> {"none"} \cup Coordinates]
    /\ disk \in [Pods -> Volume]
    /\ tries \in [Pods -> 0 .. 2]
    /\ early \in BOOLEAN
    /\ cut \subseteq Pods
    /\ left \in 0 .. MaxFault

(***************************************************************************)
(* A pod that serves backups, and so has passed its whole script, holds a  *)
(* complete copy and follows the primary: mysql-read routes to it.         *)
(***************************************************************************)
ServingFollows ==
    \A i \in Pods \ {0} : Serving(i) => disk[i].data = "ready" /\ disk[i].repl = "on"

(***************************************************************************)
(* This is so, however many containers and pods die, unless one has died   *)
(* before all of them served.                                              *)
(***************************************************************************)
LateHarmless == early \/ ServingFollows

(***************************************************************************)
(* Under that condition replication starts from a coordinate of the        *)
(* primary's log, never from one of a replica's own log, although a pod    *)
(* copies the files of both kinds from the replica before it.              *)
(***************************************************************************)
SoundPosition == early \/ \A i \in Pods : disk[i].repl # "off" => disk[i].pos = "copy"

(***************************************************************************)
(* And CHANGE MASTER is sent at most once, however often containers        *)
(* restart.                                                                *)
(***************************************************************************)
AtMostOnce == early \/ \A i \in Pods : tries[i] <= 1

(***************************************************************************)
(* No replica starts on an empty directory with a database of its own,     *)
(* although the pipeline hides that the peer sent nothing.                 *)
(***************************************************************************)
NeverOwnData == \A i \in Pods \ {0} : disk[i].data # "own"

(***************************************************************************)
(* The slave info of a complete copy survives a sidecar that dies anywhere *)
(* in the first branch but one place: a pod that serves from such a copy   *)
(* follows, from the very coordinate that came with the copy.  The place   *)
(* is between the removals of the two files, when the copy brought both:   *)
(* then the next start takes the second branch, overwrites the statement   *)
(* and the pod may follow from the coordinate of its peer's own log.       *)
(***************************************************************************)
RelayKept ==
    \A i \in Pods :
        Serving(i) /\ disk[i].relayed # "none" /\ disk[i].data = "ready" =>
            disk[i].repl = "on" /\ (i \in cut \/ disk[i].pos = disk[i].relayed)

(***************************************************************************)
(* All pods come to serve, and after the last failure for good, again      *)
(* unless one failed before.                                               *)
(***************************************************************************)
AllServe == <>[](early \/ Settled)

=============================================================================
