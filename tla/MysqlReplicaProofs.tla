-------------------------- MODULE MysqlReplicaProofs --------------------------
(***************************************************************************)
(* Proofs about the replicas of the framework store for every size, every  *)
(* version of the backup tool and every number of failures.                *)
(***************************************************************************)
EXTENDS MysqlReplica, TLAPS

(***************************************************************************)
(* A clone always has a peer; a replica that runs has at least a part of a *)
(* copy; the sidecar starts from its first command.                        *)
(***************************************************************************)
Begun ==
    \A i \in Pods :
        /\ phase[i] = "stream" => i > 0
        /\ i > 0 /\ phase[i] = "run" => disk[i].data # "none"
        /\ phase[i] # "run" => pc[i] = "check"

(***************************************************************************)
(* Where the coordinate of a copy with slave info is: in the file of the   *)
(* copy until it has been written to the statement, and there until        *)
(* replication has been started.                                           *)
(***************************************************************************)
Carried ==
    \A i \in Pods :
        /\ disk[i].relayed # "none" =>
              disk[i].slave # "none" \/ disk[i].sqlIn # "none" \/ disk[i].repl = "on"
        /\ pc[i] = "fill" => disk[i].slave # "none"
        /\ pc[i] = "drop" => disk[i].sqlIn # "none"
        /\ pc[i] \in {"open", "write"} => mem[i] # "none"
        /\ pc[i] = "move" => disk[i].repl = "on"
        /\ pc[i] \notin {"check", "fill", "drop"} => disk[i].slave = "none"
        /\ pc[i] = "serve" => disk[i].sqlIn = "none"

(***************************************************************************)
(* It is the coordinate that came with the copy, and the second branch     *)
(* finds no other, unless the sidecar died between the two removals.       *)
(***************************************************************************)
Origin(i) ==
    /\ disk[i].slave \in {"none", disk[i].relayed}
    /\ disk[i].repl # "off" => disk[i].pos = disk[i].relayed
    /\ disk[i].slave = "none" =>
          /\ \/ disk[i].sqlIn = disk[i].relayed
             \/ disk[i].sqlIn = "none" /\ disk[i].repl = "on"
          /\ pc[i] # "dropBinlog" => disk[i].binlog = "none"
    /\ pc[i] \notin {"open", "write"}
    /\ pc[i] = "drop" => disk[i].sqlIn = disk[i].relayed
    /\ pc[i] = "start" => disk[i].repl # "off"

Traced == \A i \in Pods : i \in cut \/ disk[i].relayed = "none" \/ Origin(i)

Carriage == TypeOK /\ Begun /\ NeverOwnData /\ Carried

IInv == Carriage /\ Traced

-----------------------------------------------------------------------------
(* The initial state has no pods.                                          *)
LEMMA InitEstablishes ==
    ASSUME Init
    PROVE  IInv
<1>1. Empty \in Volume
  BY DEF Empty, Volume, Coordinates
<1>2. early \in BOOLEAN
  BY Zenon DEF Init
<1>3. TypeOK
  BY <1>1, <1>2, ReplicaAssumption DEF Init, TypeOK
<1> QED BY <1>3 DEF Init, IInv, Traced, Carriage, Begun, NeverOwnData, Carried, Empty

-----------------------------------------------------------------------------
(* The sidecar keeps the invariant.                                        *)
LEMMA SidecarStep ==
    ASSUME Carriage, NEW i \in Pods, Sidecar(i)
    PROVE  Carriage'
<1> USE DEF Carriage
<1>0. disk[i] \in Volume
  BY DEF TypeOK
<1>1. ASSUME NEW here, NEW next, NEW d \in Volume,
             Step(i, here, next, d),
             next \in {"check", "fill", "drop", "dropBinlog", "open", "write",
                       "apply", "start", "move", "serve"},
             mem' \in [Pods -> {"none"} \cup Coordinates],
             \A j \in Pods \ {i} : mem'[j] = mem[j],
             tries' \in [Pods -> 0 .. 2],
             d.data = disk[i].data,
             d.relayed = disk[i].relayed,
             d.relayed # "none" => d.slave # "none" \/ d.sqlIn # "none" \/ d.repl = "on",
             next = "fill" => d.slave # "none",
             next = "drop" => d.sqlIn # "none",
             next \in {"open", "write"} => mem'[i] # "none",
             next = "move" => d.repl = "on",
             next \notin {"check", "fill", "drop"} => d.slave = "none",
             next = "serve" => d.sqlIn = "none"
      PROVE  Carriage'
  <2>1. /\ phase' = phase /\ sql' = sql /\ left' = left /\ early' = early /\ cut' = cut
        /\ pc' = [pc EXCEPT ![i] = next]
        /\ disk' = [disk EXCEPT ![i] = d]
        /\ phase[i] = "run"
    BY <1>1 DEF Step, At
  <2>2. /\ pc'[i] = next /\ disk'[i] = d
        /\ \A j \in Pods \ {i} : pc'[j] = pc[j] /\ disk'[j] = disk[j]
    BY <2>1 DEF TypeOK
  <2>3. TypeOK'
    BY <1>1, <2>1 DEF TypeOK
  <2>4. Begun'
    BY <1>1, <2>1, <2>2 DEF Begun
  <2>5. NeverOwnData'
    BY <1>1, <2>2 DEF NeverOwnData
  <2>6. Carried'
    BY <1>1, <2>2 DEF Carried
  <2> QED BY <2>3, <2>4, <2>5, <2>6
<1>2. CASE OpenFromSlave(i)
  <2>1. [disk[i] EXCEPT !.sqlIn = "torn"] \in Volume
    BY <1>0 DEF Volume
  <2> QED BY <1>0, <1>1, <1>2, <2>1 DEF OpenFromSlave, TypeOK, Carried, Volume
<1>3. CASE FillFromSlave(i)
  <2>1. [disk[i] EXCEPT !.sqlIn = disk[i].slave] \in Volume
    BY <1>0 DEF Volume
  <2>2. disk[i].slave # "none"
    BY <1>3 DEF FillFromSlave, Step, At, Carried
  <2> QED BY <1>0, <1>1, <1>3, <2>1, <2>2 DEF FillFromSlave, TypeOK, Volume
<1>4. CASE DropSlaveInfo(i)
  <2>1. [disk[i] EXCEPT !.slave = "none"] \in Volume
    BY <1>0 DEF Volume
  <2>2. disk[i].sqlIn # "none"
    BY <1>4 DEF DropSlaveInfo, Step, At, Carried
  <2> QED BY <1>0, <1>1, <1>4, <2>1, <2>2 DEF DropSlaveInfo, TypeOK, Volume
<1>5. CASE DropBinlogInfo(i)
  <2>1. [disk[i] EXCEPT !.binlog = "none"] \in Volume
    BY <1>0 DEF Volume
  <2>2. disk[i].slave = "none"
    BY <1>5 DEF DropBinlogInfo, Step, At, Carried
  <2> QED BY <1>0, <1>1, <1>5, <2>1, <2>2 DEF DropBinlogInfo, TypeOK, Carried, Volume
<1>6. CASE TakeBinlogInfo(i)
  <2>1. [disk[i] EXCEPT !.binlog = "none"] \in Volume
    BY <1>0 DEF Volume
  <2>2. /\ mem' \in [Pods -> {"none"} \cup Coordinates]
        /\ mem'[i] = disk[i].binlog
        /\ \A j \in Pods \ {i} : mem'[j] = mem[j]
    BY <1>0, <1>6 DEF TakeBinlogInfo, TypeOK, Volume
  <2> QED BY <1>0, <1>1, <1>6, <2>1, <2>2 DEF TakeBinlogInfo, TypeOK, Carried, Volume
<1>7. CASE OpenFromMemory(i)
  <2>1. [disk[i] EXCEPT !.sqlIn = "torn"] \in Volume
    BY <1>0 DEF Volume
  <2>2. disk[i].slave = "none" /\ mem[i] # "none"
    BY <1>7 DEF OpenFromMemory, Step, At, Carried
  <2> QED BY <1>0, <1>1, <1>7, <2>1, <2>2 DEF OpenFromMemory, TypeOK, Volume
<1>8. CASE FillFromMemory(i)
  <2>1. [disk[i] EXCEPT !.sqlIn = mem[i]] \in Volume
    BY <1>0 DEF Volume, TypeOK
  <2>2. disk[i].slave = "none" /\ mem[i] # "none"
    BY <1>8 DEF FillFromMemory, Step, At, Carried
  <2>3. /\ mem' \in [Pods -> {"none"} \cup Coordinates]
        /\ \A j \in Pods \ {i} : mem'[j] = mem[j]
    BY <1>8 DEF FillFromMemory, TypeOK
  <2> QED BY <1>0, <1>1, <1>8, <2>1, <2>2, <2>3 DEF FillFromMemory, TypeOK, Volume
<1>9. CASE NothingToTake(i)
  BY <1>0, <1>1, <1>9 DEF NothingToTake, TypeOK, Carried
<1>10. CASE ChangeMaster(i)
  <2>1. disk[i].slave = "none"
    BY <1>10 DEF ChangeMaster, Step, At, Carried
  <2>2. /\ tries' \in [Pods -> 0 .. 2]
        /\ mem' = mem
    BY <1>10 DEF ChangeMaster, TypeOK
  <2>3. CASE disk[i].sqlIn = "torn" \/ disk[i].repl = "on"
    BY <1>0, <1>1, <1>10, <2>1, <2>2, <2>3 DEF ChangeMaster, TypeOK, Carried
  <2>4. CASE ~ (disk[i].sqlIn = "torn" \/ disk[i].repl = "on")
    <3>1. [disk[i] EXCEPT !.repl = "set", !.pos = disk[i].sqlIn] \in Volume
      BY <1>0, <1>10, <2>4 DEF ChangeMaster, Volume
    <3>2. Step(i, "apply", "start",
               [disk[i] EXCEPT !.repl = "set", !.pos = disk[i].sqlIn])
      BY <1>10, <2>4 DEF ChangeMaster
    <3> DEFINE d == [disk[i] EXCEPT !.repl = "set", !.pos = disk[i].sqlIn]
    <3>3. d.data = disk[i].data /\ d.relayed = disk[i].relayed
          /\ d.slave = "none" /\ d.sqlIn # "none"
      BY <1>0, <1>10, <2>1 DEF ChangeMaster, Volume
    <3> HIDE DEF d
    <3>4. d \in Volume /\ Step(i, "apply", "start", d)
      BY <3>1, <3>2 DEF d
    <3>5. mem' \in [Pods -> {"none"} \cup Coordinates]
      BY <2>2 DEF TypeOK
    <3> QED BY <1>1, <2>2, <3>3, <3>4, <3>5
  <2> QED BY <2>3, <2>4
<1>11. CASE StartSlave(i)
  <2>1. [disk[i] EXCEPT !.repl = "on"] \in Volume
    BY <1>0 DEF Volume
  <2>2. disk[i].slave = "none"
    BY <1>11 DEF StartSlave, Step, At, Carried
  <2> QED BY <1>0, <1>1, <1>11, <2>1, <2>2 DEF StartSlave, TypeOK, Volume
<1>12. CASE MoveAside(i)
  <2>1. [disk[i] EXCEPT !.sqlIn = "none"] \in Volume
    BY <1>0 DEF Volume
  <2>2. disk[i].slave = "none" /\ disk[i].repl = "on"
    BY <1>12 DEF MoveAside, Step, At, Carried
  <2> QED BY <1>0, <1>1, <1>12, <2>1, <2>2 DEF MoveAside, TypeOK, Volume
<1>13. CASE NothingToApply(i)
  <2>1. disk[i].slave = "none"
    BY <1>13 DEF NothingToApply, Step, At, Carried
  <2> QED BY <1>0, <1>1, <1>13, <2>1 DEF NothingToApply, TypeOK, Carried
<1> QED BY <1>2, <1>3, <1>4, <1>5, <1>6, <1>7, <1>8, <1>9, <1>10, <1>11, <1>12, <1>13
        DEF Sidecar

-----------------------------------------------------------------------------
(* Creation and cloning keep the invariant.                                *)
LEMMA CloneStep ==
    ASSUME Carriage, NEW i \in Pods,
           CreatePod(i) \/ CloneSkip(i) \/ CloneNothing(i) \/ CloneBegin(i)
             \/ CloneEnd(i) \/ Prepare(i) \/ MysqldStart(i)
    PROVE  Carriage'
<1> USE DEF Carriage
<1>0. disk[i] \in Volume /\ i \in Nat
  BY ReplicaAssumption DEF TypeOK, Pods
<1> DEFINE Moved(p, d) ==
        /\ p \in {"absent", "init", "stream", "prepare", "run"} /\ d \in Volume
        /\ phase' = [phase EXCEPT ![i] = p]
        /\ disk' = [disk EXCEPT ![i] = d]
        /\ sql' \in [Pods -> {"up", "down"}]
        /\ UNCHANGED <<pc, mem, tries, early, cut, left>>
        /\ p # "run" => phase[i] # "run"
        /\ p = "stream" => i > 0
        /\ i > 0 => d.data # "own"
        /\ i > 0 /\ p = "run" => d.data # "none"
        /\ d.relayed # "none" => d.slave # "none" \/ d.sqlIn # "none" \/ d.repl = "on"
        /\ pc[i] # "check" => d.slave = disk[i].slave /\ d.sqlIn = disk[i].sqlIn
                                /\ (disk[i].repl = "on" => d.repl = "on")
<1>1. ASSUME NEW p, NEW d, Moved(p, d)
      PROVE  Carriage'
  <2>1. /\ phase'[i] = p /\ disk'[i] = d /\ pc' = pc /\ mem' = mem
        /\ \A j \in Pods \ {i} : phase'[j] = phase[j] /\ disk'[j] = disk[j]
    BY <1>1 DEF TypeOK
  <2>2. TypeOK'
    BY <1>1 DEF TypeOK
  <2>3. Begun'
    BY <1>1, <2>1 DEF Begun
  <2>4. NeverOwnData'
    BY <1>0, <1>1, <2>1 DEF NeverOwnData
  <2>5. Carried'
    BY <1>1, <2>1 DEF Carried
  <2> QED BY <2>2, <2>3, <2>4, <2>5
<1> HIDE DEF Moved
<1>2. disk = [disk EXCEPT ![i] = disk[i]] /\ phase = [phase EXCEPT ![i] = phase[i]]
  BY DEF TypeOK
<1>3. /\ i > 0 => disk[i].data # "own"
      /\ disk[i].relayed # "none" =>
            disk[i].slave # "none" \/ disk[i].sqlIn # "none" \/ disk[i].repl = "on"
      /\ phase[i] # "run" => pc[i] = "check"
      /\ i > 0 /\ phase[i] = "run" => disk[i].data # "none"
  BY <1>0 DEF NeverOwnData, Carried, Begun
<1>4. CASE CreatePod(i)
  <2>1. Moved("init", disk[i])
    BY <1>0, <1>2, <1>3, <1>4 DEF CreatePod, TypeOK, Moved
  <2> QED BY <1>1, <2>1
<1>5. CASE CloneSkip(i)
  <2>1. Moved("run", disk[i])
    BY <1>0, <1>2, <1>3, <1>5 DEF CloneSkip, TypeOK, Moved
  <2> QED BY <1>1, <2>1
<1>6. CASE CloneNothing(i)
  <2>1. Moved("prepare", disk[i])
    BY <1>0, <1>2, <1>3, <1>6 DEF CloneNothing, TypeOK, Moved
  <2> QED BY <1>1, <2>1
<1>7. CASE CloneBegin(i)
  <2>1. [disk[i] EXCEPT !.data = "part"] \in Volume
    BY <1>0 DEF Volume
  <2>2. disk' = [disk EXCEPT ![i] = [disk[i] EXCEPT !.data = "part"]]
    BY <1>7 DEF CloneBegin
  <2>3. Moved("stream", [disk[i] EXCEPT !.data = "part"])
    BY <1>0, <1>3, <1>7, <2>1, <2>2 DEF CloneBegin, TypeOK, Volume, Moved
  <2> QED BY <1>1, <2>3
<1>8. CASE CloneEnd(i)
  <2>1. i - 1 \in Pods
    <3>1. i > 0
      BY <1>8 DEF CloneEnd, Begun
    <3> QED BY <1>0, <3>1, ReplicaAssumption DEF Pods
  <2>2. SlaveInfo(i - 1) \in {"none"} \cup Coordinates
    BY <2>1 DEF SlaveInfo, TypeOK, Volume
  <2>3. BinlogInfo(i - 1) \subseteq {"none"} \cup Coordinates
    BY DEF BinlogInfo, Coordinates
  <2>4. PICK b \in {"none"} \cup Coordinates : disk' = [disk EXCEPT ![i] =
              [Empty EXCEPT !.data = "raw", !.slave = SlaveInfo(i - 1), !.binlog = b,
                            !.relayed = SlaveInfo(i - 1)]]
    BY <1>8, <2>3 DEF CloneEnd
  <2> DEFINE d == [Empty EXCEPT !.data = "raw", !.slave = SlaveInfo(i - 1), !.binlog = b,
                                !.relayed = SlaveInfo(i - 1)]
  <2>5. d \in Volume
    BY <2>2 DEF Empty, Volume
  <2>6. d.data = "raw" /\ d.slave = SlaveInfo(i - 1) /\ d.relayed = d.slave
    BY DEF Empty
  <2>7. phase[i] = "stream" /\ phase' = [phase EXCEPT ![i] = "prepare"]
    BY <1>8 DEF CloneEnd
  <2>8. sql' \in [Pods -> {"up", "down"}] /\ UNCHANGED <<pc, mem, tries, early, cut, left>>
    BY <1>8 DEF CloneEnd, TypeOK
  <2>9. disk' = [disk EXCEPT ![i] = d]
    BY <2>4
  <2> HIDE DEF d
  <2>10. pc[i] = "check"
    BY <1>3, <2>7
  <2>11. Moved("prepare", d)
    BY <2>5, <2>6, <2>7, <2>8, <2>9, <2>10 DEF Moved
  <2> QED BY <1>1, <2>11
<1>9. CASE Prepare(i)
  <2>1. CASE disk[i].data = "raw"
    <3>1. [disk[i] EXCEPT !.data = "ready"] \in Volume
      BY <1>0 DEF Volume
    <3>2. disk' = [disk EXCEPT ![i] = [disk[i] EXCEPT !.data = "ready"]]
      BY <1>9, <2>1 DEF Prepare
    <3>3. Moved("run", [disk[i] EXCEPT !.data = "ready"])
      BY <1>0, <1>3, <1>9, <2>1, <3>1, <3>2 DEF Prepare, TypeOK, Volume, Moved
    <3> QED BY <1>1, <3>3
  <2>2. CASE disk[i].data # "raw"
    <3>1. phase[i] = "prepare" /\ phase' = [phase EXCEPT ![i] = "init"] /\ disk' = disk
      BY <1>9, <2>2 DEF Prepare
    <3>2. UNCHANGED <<pc, mem, tries, early, cut, left>> /\ sql' \in [Pods -> {"up", "down"}]
      BY <1>9 DEF Prepare, TypeOK
    <3>3. disk' = [disk EXCEPT ![i] = disk[i]]
      BY <1>2, <3>1
    <3>4. Moved("init", disk[i])
      BY <1>0, <1>3, <3>1, <3>2, <3>3 DEF Moved
    <3> QED BY <1>1, <3>4
  <2> QED BY <2>1, <2>2
<1>10. CASE MysqldStart(i)
  <2> DEFINE d == [disk[i] EXCEPT !.data = IF @ = "none" THEN "own" ELSE @,
                                  !.repl = IF @ = "set" THEN "on" ELSE @]
  <2>1. disk' = [disk EXCEPT ![i] = d]
    BY <1>10 DEF MysqldStart, TypeOK, Volume
  <2>2. d \in Volume
    BY <1>0 DEF Volume
  <2>3. /\ d.data = IF disk[i].data = "none" THEN "own" ELSE disk[i].data
        /\ d.slave = disk[i].slave /\ d.sqlIn = disk[i].sqlIn
        /\ d.relayed = disk[i].relayed
        /\ disk[i].repl = "on" => d.repl = "on"
    BY <1>0 DEF Volume
  <2>4. /\ phase[i] = "run" /\ phase' = phase
        /\ sql' \in [Pods -> {"up", "down"}] /\ UNCHANGED <<pc, mem, tries, early, cut, left>>
    BY <1>10 DEF MysqldStart, TypeOK
  <2> HIDE DEF d
  <2>5. phase' = [phase EXCEPT ![i] = "run"]
    BY <1>2, <2>4
  <2>6. Moved("run", d)
    BY <1>3, <2>1, <2>2, <2>3, <2>4, <2>5 DEF Moved
  <2> QED BY <1>1, <2>6
<1> QED BY <1>4, <1>5, <1>6, <1>7, <1>8, <1>9, <1>10

-----------------------------------------------------------------------------
(* Failures keep the invariant: they lose what is not on the volume.       *)
LEMMA FailureStep ==
    ASSUME Carriage, NEW i \in Pods, Failure(i)
    PROVE  Carriage'
<1> USE DEF Carriage
<1>0. early' \in BOOLEAN
  BY Zenon DEF Failure, SidecarDies, MysqldDies, CloneDies, PodDies, Strike
<1>1. left' \in 0 .. MaxFault /\ UNCHANGED <<disk, tries>>
  BY ReplicaAssumption
     DEF Failure, SidecarDies, MysqldDies, CloneDies, PodDies, Strike, TypeOK
<1>2. /\ CutOff(i) \in [Pods -> {"absent", "init", "stream", "prepare", "run"}]
      /\ \A j \in Pods : CutOff(i)[j] # phase[j] => phase[j] = "stream" /\ CutOff(i)[j] = "prepare"
  BY DEF CutOff, TypeOK
<1>3. SUFFICES ASSUME phase' \in [Pods -> {"absent", "init", "stream", "prepare", "run"}],
                      sql' \in [Pods -> {"up", "down"}],
                      pc' \in [Pods -> {"check", "fill", "drop", "dropBinlog", "open",
                                        "write", "apply", "start", "move", "serve"}],
                      mem' \in [Pods -> {"none"} \cup Coordinates],
                      \A j \in Pods : /\ phase'[j] \in {"stream", "run"} => phase'[j] = phase[j]
                                      /\ phase'[j] # "run" => pc'[j] = "check"
                                      /\ pc'[j] \in {"check", pc[j]}
                                      /\ pc'[j] # "check" => mem'[j] = mem[j]
               PROVE  Carriage'
  <2>1. CASE SidecarDies(i)
    BY <1>2, <2>1 DEF SidecarDies, TypeOK, Begun
  <2>2. CASE MysqldDies(i)
    BY <1>2, <2>2 DEF MysqldDies, TypeOK, Begun
  <2>3. CASE CloneDies(i)
    BY <2>3 DEF CloneDies, TypeOK, Begun
  <2>4. CASE PodDies(i)
    BY <1>2, <2>4 DEF PodDies, TypeOK, Begun
  <2> QED BY <2>1, <2>2, <2>3, <2>4 DEF Failure
<1>4. TypeOK'
  <2>1. cut' \subseteq Pods
    BY DEF Failure, SidecarDies, MysqldDies, CloneDies, PodDies, Strike, TypeOK
  <2> QED BY <1>0, <1>1, <1>3, <2>1 DEF TypeOK
<1>5. Begun'
  BY <1>1, <1>3 DEF Begun
<1>6. NeverOwnData'
  BY <1>1 DEF NeverOwnData
<1>7. Carried'
  BY <1>1, <1>3 DEF Carried
<1> QED BY <1>4, <1>5, <1>6, <1>7

(* A step of one pod leaves the others alone.                              *)
LEMMA OthersStay ==
    ASSUME TypeOK, NEW i \in Pods, Progress(i)
    PROVE  /\ left' = left /\ early' = early /\ cut' = cut
           /\ \A j \in Pods \ {i} :
                 /\ phase'[j] = phase[j] /\ sql'[j] = sql[j] /\ pc'[j] = pc[j]
                 /\ mem'[j] = mem[j] /\ disk'[j] = disk[j] /\ tries'[j] = tries[j]
<1>1. CASE Sidecar(i)
  BY <1>1 DEF Sidecar, OpenFromSlave, FillFromSlave, DropSlaveInfo, DropBinlogInfo,
         TakeBinlogInfo, OpenFromMemory, FillFromMemory, NothingToTake, ChangeMaster,
         StartSlave, MoveAside, NothingToApply, Step, TypeOK
<1>2. CASE ~ Sidecar(i)
  BY <1>2 DEF Progress, CreatePod, CloneSkip, CloneNothing, CloneBegin, CloneEnd,
              Prepare, MysqldStart, TypeOK
<1> QED BY <1>1, <1>2

(* One command of the sidecar keeps the origin of its pod's coordinate.    *)
LEMMA SidecarTraces ==
    ASSUME Carriage, NEW i \in Pods, Sidecar(i), disk[i].relayed # "none", Origin(i)
    PROVE  Origin(i)'
<1>0. disk[i] \in Volume
  BY DEF Carriage, TypeOK
<1> USE DEF Carriage
<1>1. CASE OpenFromSlave(i) \/ FillFromSlave(i) \/ DropSlaveInfo(i) \/ DropBinlogInfo(i)
  BY <1>0, <1>1 DEF OpenFromSlave, FillFromSlave, DropSlaveInfo, DropBinlogInfo,
         Step, At, TypeOK, Volume, Origin, Carried
<1>2. CASE TakeBinlogInfo(i) \/ OpenFromMemory(i) \/ FillFromMemory(i) \/ NothingToTake(i)
  BY <1>0, <1>2 DEF TakeBinlogInfo, OpenFromMemory, FillFromMemory, NothingToTake,
         Step, At, TypeOK, Volume, Origin
<1>3. CASE ChangeMaster(i)
  <2>1. disk[i].slave = "none" /\ disk[i].sqlIn = disk[i].relayed
    BY <1>3 DEF ChangeMaster, Step, At, Carried, Origin
  <2>2. CASE disk[i].sqlIn = "torn" \/ disk[i].repl = "on"
    BY <1>0, <1>3, <2>1, <2>2 DEF ChangeMaster, Step, At, TypeOK, Origin
  <2>3. CASE ~ (disk[i].sqlIn = "torn" \/ disk[i].repl = "on")
    <3>1. Step(i, "apply", "start",
               [disk[i] EXCEPT !.repl = "set", !.pos = disk[i].sqlIn])
      BY <1>3, <2>3 DEF ChangeMaster
    <3> QED BY <1>0, <2>1, <3>1 DEF Step, At, TypeOK, Volume, Origin
  <2> QED BY <2>2, <2>3
<1>4. CASE StartSlave(i) \/ NothingToApply(i)
  <2>1. CASE StartSlave(i)
    <3>1. disk[i].slave = "none" /\ disk[i].repl # "off"
      BY <2>1 DEF StartSlave, Step, At, Carried, Origin
    <3> QED BY <1>0, <2>1, <3>1 DEF StartSlave, Step, At, TypeOK, Volume, Origin
  <2>2. CASE NothingToApply(i)
    BY <1>0, <2>2 DEF NothingToApply, Step, At, TypeOK, Origin
  <2> QED BY <1>4, <2>1, <2>2
<1>5. CASE MoveAside(i)
  <2>1. disk[i].repl = "on" /\ disk[i].slave = "none"
    BY <1>5 DEF MoveAside, Step, At, Carried
  <2> QED BY <1>0, <1>5, <2>1 DEF MoveAside, Step, At, TypeOK, Volume, Origin
<1> QED BY <1>1, <1>2, <1>3, <1>4, <1>5 DEF Sidecar

(* The others only touch the files of a copy that arrives.                 *)
LEMMA CloneTraces ==
    ASSUME Carriage, NEW i \in Pods, Progress(i), ~ Sidecar(i),
           disk[i].relayed = "none" \/ Origin(i)
    PROVE  disk'[i].relayed = "none" \/ Origin(i)'
<1>0. disk[i] \in Volume
  BY DEF Carriage, TypeOK
<1>1. CASE CloneEnd(i)
  <2>1. pc[i] = "check"
    BY <1>1 DEF CloneEnd, Carriage, Begun
  <2>2. PICK b \in BinlogInfo(i - 1) : disk'[i] =
              [Empty EXCEPT !.data = "raw", !.slave = SlaveInfo(i - 1), !.binlog = b,
                            !.relayed = SlaveInfo(i - 1)]
    BY <1>1 DEF CloneEnd, Carriage, TypeOK
  <2>3. /\ disk'[i].slave = SlaveInfo(i - 1) /\ disk'[i].relayed = SlaveInfo(i - 1)
        /\ disk'[i].repl = "off" /\ pc'[i] = "check"
    BY <1>1, <2>1, <2>2 DEF CloneEnd, Empty
  <2> QED BY <2>3 DEF Origin
<1>2. CASE ~ CloneEnd(i)
  <2>1. /\ pc' = pc
        /\ disk'[i].slave = disk[i].slave /\ disk'[i].binlog = disk[i].binlog
        /\ disk'[i].sqlIn = disk[i].sqlIn /\ disk'[i].pos = disk[i].pos
        /\ disk'[i].relayed = disk[i].relayed
        /\ \/ disk'[i].repl = disk[i].repl
           \/ disk[i].repl = "set" /\ disk'[i].repl = "on"
    BY <1>0, <1>2 DEF Progress, CreatePod, CloneSkip, CloneNothing, CloneBegin, Prepare,
                      MysqldStart, Carriage, TypeOK, Volume
  <2> QED BY <2>1 DEF Origin
<1> QED BY <1>1, <1>2

(* A failure notes the sidecar that it finds between the two removals.     *)
LEMMA FailureTraces ==
    ASSUME Carriage, Traced, NEW i \in Pods, Failure(i)
    PROVE  Traced'
<1>1. disk' = disk
  BY DEF Failure, SidecarDies, MysqldDies, CloneDies, PodDies
<1>2. ASSUME NEW j \in Pods
      PROVE  /\ j \in cut => j \in cut'
             /\ \/ pc'[j] = pc[j]
                \/ pc'[j] = "check" /\ pc[j] # "dropBinlog"
                \/ pc'[j] = "check" /\ (disk[j].binlog = "none" \/ j \in cut')
  BY DEF Failure, SidecarDies, MysqldDies, CloneDies, PodDies, Strike, Carriage, TypeOK
<1> QED BY <1>1, <1>2 DEF Traced, Origin

(* Every step keeps the origin of all coordinates.                         *)
LEMMA TracedStep ==
    ASSUME IInv, NEW i \in Pods, Progress(i) \/ Failure(i)
    PROVE  Traced'
<1>1. CASE Failure(i)
  BY <1>1, FailureTraces DEF IInv
<1>2. CASE Progress(i)
  <2>1. /\ cut' = cut
        /\ \A j \in Pods \ {i} : pc'[j] = pc[j] /\ disk'[j] = disk[j]
    BY <1>2, OthersStay DEF IInv, Carriage
  <2>2. ASSUME Sidecar(i)
        PROVE  disk'[i].relayed = disk[i].relayed
    <3>1. disk[i] \in Volume
      BY DEF IInv, Carriage, TypeOK
    <3>2. ASSUME NEW here, NEW next, NEW d, d.relayed = disk[i].relayed,
                 Step(i, here, next, d)
          PROVE  disk'[i].relayed = disk[i].relayed
      BY <3>2 DEF Step, IInv, Carriage, TypeOK
    <3>3. CASE \/ OpenFromSlave(i) \/ FillFromSlave(i) \/ DropSlaveInfo(i)
               \/ DropBinlogInfo(i) \/ TakeBinlogInfo(i) \/ OpenFromMemory(i)
               \/ FillFromMemory(i) \/ NothingToTake(i)
      BY <3>1, <3>2, <3>3 DEF OpenFromSlave, FillFromSlave, DropSlaveInfo, DropBinlogInfo,
            TakeBinlogInfo, OpenFromMemory, FillFromMemory, NothingToTake, Volume
    <3>4. CASE ChangeMaster(i)
      <4>1. [disk[i] EXCEPT !.repl = "set", !.pos = disk[i].sqlIn].relayed = disk[i].relayed
        BY <3>1 DEF Volume
      <4> QED BY <3>2, <3>4, <4>1 DEF ChangeMaster
    <3>5. CASE StartSlave(i) \/ MoveAside(i) \/ NothingToApply(i)
      BY <3>1, <3>2, <3>5 DEF StartSlave, MoveAside, NothingToApply, Volume
    <3> QED BY <2>2, <3>3, <3>4, <3>5 DEF Sidecar
  <2>3. i \in cut \/ disk'[i].relayed = "none" \/ Origin(i)'
    BY <1>2, <2>2, SidecarTraces, CloneTraces DEF IInv, Traced
  <2>4. ASSUME NEW j \in Pods \ {i}
        PROVE  j \in cut \/ disk'[j].relayed = "none" \/ Origin(j)'
    BY <2>1 DEF IInv, Traced, Origin
  <2> QED BY <2>1, <2>3, <2>4 DEF Traced
<1> QED BY <1>1, <1>2

(* The invariant holds in every behaviour.                                 *)
LEMMA Invariance == Spec => []IInv
<1>1. Init => IInv
  BY InitEstablishes
<1>2. IInv /\ [Next]_vars => IInv'
  <2> SUFFICES ASSUME IInv, [Next]_vars PROVE IInv' OBVIOUS
  <2>1. CASE UNCHANGED vars
    BY <2>1 DEF vars, IInv, Carriage, TypeOK, Begun, NeverOwnData, Carried, Traced, Origin
  <2>2. CASE \E i \in Pods : Progress(i) \/ Failure(i)
    BY <2>2, SidecarStep, CloneStep, FailureStep, TracedStep DEF Progress, IInv
  <2> QED BY <2>1, <2>2 DEF Next
<1> QED BY <1>1, <1>2, PTL DEF Spec

(***************************************************************************)
(* Every variable keeps its type.                                          *)
(***************************************************************************)
THEOREM Typing == Spec => []TypeOK
<1>1. IInv => TypeOK
  BY DEF IInv, Carriage
<1> QED BY <1>1, Invariance, PTL

(***************************************************************************)
(* No replica, however its clone fails, starts on an empty directory.      *)
(***************************************************************************)
THEOREM NoOwnData == Spec => []NeverOwnData
<1>1. IInv => NeverOwnData
  BY DEF IInv, Carriage
<1> QED BY <1>1, Invariance, PTL

(***************************************************************************)
(* Whenever containers and pods die, the coordinate that came as slave     *)
(* info is not lost: the pod that has it serves only once it follows, and  *)
(* follows from there, but for a sidecar that died between the removals of *)
(* two files.                                                              *)
(***************************************************************************)
THEOREM SlaveInfoSurvives == Spec => []RelayKept
<1>1. IInv => RelayKept
  BY DEF IInv, Carriage, Carried, Traced, Origin, RelayKept, Serving
<1> QED BY <1>1, Invariance, PTL

-----------------------------------------------------------------------------
(***************************************************************************)
(* Replicas that fail only once they all serve.  Until then every pod is   *)
(* at a known stage between an empty volume and replication; afterwards    *)
(* nothing that a container does on its way up again touches the volume.   *)
(***************************************************************************)

(* A volume from which the script takes nothing.                           *)
Taken(i) == disk[i].slave = "none" /\ disk[i].binlog = "none" /\ disk[i].sqlIn = "none"

(* The primary finds nothing in any of its runs.                           *)
Primary(i) ==
    /\ Taken(i) /\ disk[i].repl = "off"
    /\ pc[i] \in {"check", "apply", "serve"}
    /\ tries[i] = 0

(* A replica whose script has not sent CHANGE MASTER: where the coordinate *)
(* of the copy is.                                                         *)
Before(i) ==
    /\ tries[i] = 0 /\ disk[i].repl = "off"
    /\ pc[i] \in {"check", "fill", "drop", "dropBinlog", "open", "write", "apply"}
    /\ pc[i] = "check" =>
          /\ disk[i].sqlIn = "none"
          /\ \/ disk[i].slave = "copy"
             \/ disk[i].slave = "none" /\ disk[i].binlog = "copy"
    /\ pc[i] = "fill" => disk[i].slave = "copy"
    /\ pc[i] \in {"drop", "dropBinlog", "apply"} => disk[i].sqlIn = "copy"
    /\ pc[i] \in {"dropBinlog", "open", "write", "apply"} => disk[i].slave = "none"
    /\ pc[i] \in {"open", "write"} => mem[i] = "copy"
    /\ pc[i] \in {"open", "write", "apply"} => disk[i].binlog = "none"

(* A replica whose script has sent it, for the first time.                 *)
After(i) ==
    /\ tries[i] = 1 /\ disk[i].repl # "off" /\ disk[i].pos = "copy"
    /\ disk[i].slave = "none" /\ disk[i].binlog = "none"
    /\ pc[i] \in {"start", "move", "serve"}
    /\ pc[i] \in {"move", "serve"} => disk[i].repl = "on"
    /\ pc[i] = "serve" => disk[i].sqlIn = "none"

(* The stages of a pod before the first failure.                           *)
Staged(i) ==
    /\ phase[i] \in {"absent", "init"} => disk[i] = Empty
    /\ phase[i] \in {"stream", "prepare"} => i > 0
    /\ phase[i] = "stream" => Serving(i - 1) /\ disk[i].repl = "off"
    /\ phase[i] = "prepare" => disk[i] = Empty \/ (disk[i].data = "raw" /\ Before(i))
    /\ phase[i] # "run" => pc[i] = "check" /\ tries[i] = 0
    /\ phase[i] = "run" =>
          IF i = 0 THEN Primary(i) ELSE disk[i].data = "ready" /\ (Before(i) \/ After(i))

(* A pod that has served once, whatever has failed since.                  *)
Finished(i) ==
    /\ phase[i] \notin {"stream", "prepare"}
    /\ pc[i] \in {"check", "apply", "serve"}
    /\ IF i = 0
       THEN Primary(i)
       ELSE /\ Taken(i) /\ disk[i].data = "ready" /\ disk[i].repl = "on"
            /\ disk[i].pos = "copy" /\ tries[i] <= 1

RebootInv ==
    /\ TypeOK
    /\ \/ early
       \/ left = MaxFault /\ \A i \in Pods : Staged(i)
       \/ \A i \in Pods : Finished(i)

-----------------------------------------------------------------------------
(* Pods are numbered from 0.                                               *)
LEMMA Ordinals ==
    ASSUME NEW i \in Pods
    PROVE  i \in Nat /\ (i > 0 => i - 1 \in Pods) /\ i - 1 # i
BY ReplicaAssumption DEF Pods

(* The whole set of pods serves only after the last command of each.       *)
LEMMA SettledFinished ==
    ASSUME TypeOK, \A i \in Pods : Staged(i), Settled
    PROVE  \A i \in Pods : Finished(i)
BY DEF Settled, Serving, Ready, Staged, Finished, Primary, Before, After, Taken, TypeOK

(* A pod that serves does nothing until something fails.                   *)
LEMMA ServingRests ==
    ASSUME NEW i \in Pods, Serving(i), Progress(i)
    PROVE  FALSE
<1>1. ~ Sidecar(i)
  BY DEF Serving, Sidecar, OpenFromSlave, FillFromSlave, DropSlaveInfo, DropBinlogInfo,
         TakeBinlogInfo, OpenFromMemory, FillFromMemory, NothingToTake, ChangeMaster,
         StartSlave, MoveAside, NothingToApply, Step, At
<1> QED BY <1>1 DEF Progress, Serving, Ready, CreatePod, CloneSkip, CloneNothing,
                    CloneBegin, CloneEnd, Prepare, MysqldStart

(* The sidecar takes a pod from one stage to the next.                     *)
LEMMA SidecarStages ==
    ASSUME TypeOK, NEW i \in Pods, Staged(i), Sidecar(i)
    PROVE  Staged(i)'
<1>0. disk[i] \in Volume /\ i \in Nat
  BY Ordinals DEF TypeOK
<1>1. /\ phase[i] = "run" /\ phase' = phase
      /\ IF i = 0 THEN Primary(i) ELSE disk[i].data = "ready" /\ (Before(i) \/ After(i))
  BY DEF Staged, Sidecar, OpenFromSlave, FillFromSlave, DropSlaveInfo, DropBinlogInfo,
         TakeBinlogInfo, OpenFromMemory, FillFromMemory, NothingToTake, ChangeMaster,
         StartSlave, MoveAside, NothingToApply, Step, At
<1>2. SUFFICES IF i = 0 THEN Primary(i)'
                        ELSE disk'[i].data = "ready" /\ (Before(i)' \/ After(i)')
  BY <1>1 DEF Staged
<1>3. CASE OpenFromSlave(i) \/ FillFromSlave(i) \/ DropSlaveInfo(i) \/ DropBinlogInfo(i)
  BY <1>0, <1>1, <1>3 DEF OpenFromSlave, FillFromSlave, DropSlaveInfo, DropBinlogInfo,
         Step, At, TypeOK, Volume, Primary, Before, After, Taken
<1>4. CASE TakeBinlogInfo(i) \/ OpenFromMemory(i) \/ FillFromMemory(i) \/ NothingToTake(i)
  BY <1>0, <1>1, <1>4 DEF TakeBinlogInfo, OpenFromMemory, FillFromMemory, NothingToTake,
         Step, At, TypeOK, Volume, Primary, Before, After, Taken
<1>5. CASE ChangeMaster(i)
  <2>1. pc[i] = "apply" /\ disk[i].sqlIn # "none"
    BY <1>5 DEF ChangeMaster, Step, At
  <2>2. i # 0 /\ disk[i].data = "ready" /\ Before(i)
    BY <1>1, <2>1 DEF Primary, After, Taken
  <2>3. disk[i].sqlIn = "copy" /\ disk[i].repl = "off" /\ tries[i] = 0
        /\ disk[i].slave = "none" /\ disk[i].binlog = "none"
    BY <2>1, <2>2 DEF Before
  <2>4. /\ Step(i, "apply", "start", [disk[i] EXCEPT !.repl = "set", !.pos = "copy"])
        /\ tries'[i] = 1
    BY <1>5, <2>3 DEF ChangeMaster, TypeOK
  <2>5. pc'[i] = "start" /\ disk'[i] = [disk[i] EXCEPT !.repl = "set", !.pos = "copy"]
    BY <2>4 DEF Step, TypeOK
  <2>6. After(i)' /\ disk'[i].data = "ready"
    BY <1>0, <2>2, <2>3, <2>4, <2>5 DEF After, Volume
  <2> QED BY <2>2, <2>6
<1>6. CASE StartSlave(i) \/ MoveAside(i) \/ NothingToApply(i)
  BY <1>0, <1>1, <1>6 DEF StartSlave, MoveAside, NothingToApply,
         Step, At, TypeOK, Volume, Primary, Before, After, Taken
<1> QED BY <1>3, <1>4, <1>5, <1>6 DEF Sidecar

(* So do the StatefulSet, the init container and mysqld.                   *)
LEMMA CloneStages ==
    ASSUME TypeOK, \A j \in Pods : Staged(j), NEW i \in Pods, Progress(i), ~ Sidecar(i)
    PROVE  Staged(i)'
<1>0. disk[i] \in Volume /\ i \in Nat /\ Staged(i)
  BY Ordinals DEF TypeOK
<1>1. CASE CreatePod(i)
  BY <1>0, <1>1 DEF CreatePod, Staged, Before, TypeOK
<1>2. CASE CloneSkip(i)
  <2>1. i = 0
    BY <1>0, <1>2 DEF CloneSkip, Staged, Empty
  <2> QED BY <1>0, <1>2, <2>1 DEF CloneSkip, Staged, Primary, Taken, Empty, TypeOK
<1>3. CASE CloneNothing(i)
  BY <1>0, <1>3 DEF CloneNothing, Staged, TypeOK
<1>4. CASE CloneBegin(i)
  <2>1. Serving(i - 1)'
    BY <1>4, OthersStay, Ordinals DEF CloneBegin, Serving, Ready
  <2>2. disk'[i].repl = "off"
    BY <1>0, <1>4 DEF CloneBegin, Staged, Empty, TypeOK
  <2> QED BY <1>0, <1>4, <2>1, <2>2 DEF CloneBegin, Staged, TypeOK
<1>5. CASE CloneEnd(i)
  <2>1. i > 0 /\ Serving(i - 1) /\ i - 1 \in Pods /\ pc[i] = "check" /\ tries[i] = 0
    BY <1>0, <1>5, Ordinals DEF CloneEnd, Staged
  <2>2. Finished(i - 1)
    <3>1. phase[i - 1] = "run" /\ pc[i - 1] = "serve" /\ Staged(i - 1)
      BY <2>1 DEF Serving, Ready
    <3> QED BY <3>1 DEF Staged, Finished, Primary, Before, After, Taken
  <2>3. PICK b \in BinlogInfo(i - 1) : disk'[i] =
              [Empty EXCEPT !.data = "raw", !.slave = SlaveInfo(i - 1), !.binlog = b,
                            !.relayed = SlaveInfo(i - 1)]
    BY <1>5 DEF CloneEnd, TypeOK
  <2>4. SlaveInfo(i - 1) = "copy" \/ (SlaveInfo(i - 1) = "none" /\ b = "copy")
    BY <2>2, <2>3 DEF SlaveInfo, BinlogInfo, Finished, Primary
  <2>5. phase'[i] = "prepare" /\ pc'[i] = "check" /\ tries'[i] = 0
    BY <1>5, <2>1 DEF CloneEnd, TypeOK
  <2>6. disk'[i].data = "raw" /\ Before(i)'
    BY <2>3, <2>4, <2>5 DEF Before, Empty
  <2> QED BY <2>1, <2>5, <2>6 DEF Staged
<1>6. CASE Prepare(i)
  <2>1. pc'[i] = "check" /\ tries'[i] = 0 /\ mem' = mem /\ i > 0
    BY <1>0, <1>6 DEF Prepare, Staged
  <2>2. CASE disk[i].data = "raw"
    <3>1. Before(i)
      BY <1>0, <1>6, <2>2 DEF Prepare, Staged, Empty
    <3>2. phase'[i] = "run" /\ disk'[i] = [disk[i] EXCEPT !.data = "ready"]
      BY <1>6, <2>2 DEF Prepare, TypeOK
    <3>3. pc[i] = "check"
      BY <1>0, <1>6 DEF Prepare, Staged
    <3>4. Before(i)' /\ disk'[i].data = "ready"
      BY <1>0, <2>1, <3>1, <3>2, <3>3 DEF Before, Volume
    <3> QED BY <2>1, <3>2, <3>4 DEF Staged
  <2>3. CASE disk[i].data # "raw"
    BY <1>0, <1>6, <2>1, <2>3 DEF Prepare, Staged, TypeOK
  <2> QED BY <2>2, <2>3
<1>7. CASE MysqldStart(i)
  <2>1. /\ disk'[i].data = IF disk[i].data = "none" THEN "own" ELSE disk[i].data
        /\ disk'[i].repl = IF disk[i].repl = "set" THEN "on" ELSE disk[i].repl
        /\ disk'[i].slave = disk[i].slave /\ disk'[i].binlog = disk[i].binlog
        /\ disk'[i].sqlIn = disk[i].sqlIn /\ disk'[i].pos = disk[i].pos
    BY <1>0, <1>7 DEF MysqldStart, TypeOK, Volume
  <2>2. phase[i] = "run" /\ phase' = phase /\ pc' = pc /\ mem' = mem /\ tries' = tries
    BY <1>7 DEF MysqldStart
  <2>3. CASE i = 0
    BY <1>0, <2>1, <2>2, <2>3 DEF Staged, Primary, Taken
  <2>4. CASE i # 0
    <3>1. disk'[i].data = "ready"
      BY <1>0, <2>1, <2>2, <2>4 DEF Staged
    <3>2. Before(i) => Before(i)'
      BY <2>1, <2>2 DEF Before
    <3>3. After(i) => After(i)'
      BY <2>1, <2>2 DEF After
    <3> QED BY <1>0, <2>2, <2>4, <3>1, <3>2, <3>3 DEF Staged
  <2> QED BY <2>3, <2>4
<1> QED BY <1>1, <1>2, <1>3, <1>4, <1>5, <1>6, <1>7 DEF Progress

(* Before the first failure every pod goes from stage to stage.            *)
LEMMA StagesGoOn ==
    ASSUME TypeOK, \A j \in Pods : Staged(j), NEW i \in Pods, Progress(i)
    PROVE  \A j \in Pods : Staged(j)'
<1>1. Staged(i)'
  BY SidecarStages, CloneStages
<1>2. ASSUME NEW j \in Pods \ {i}
      PROVE  Staged(j)'
  <2>1. ASSUME phase[j] = "stream"
        PROVE  Serving(j - 1)'
    <3>1. j - 1 \in Pods /\ Serving(j - 1)
      BY <2>1, Ordinals DEF Staged
    <3>2. j - 1 # i
      BY <3>1, ServingRests
    <3> QED BY <3>1, <3>2, OthersStay DEF Serving, Ready
  <2>2. /\ phase'[j] = phase[j] /\ pc'[j] = pc[j] /\ mem'[j] = mem[j]
        /\ disk'[j] = disk[j] /\ tries'[j] = tries[j] /\ Staged(j)
    BY OthersStay
  <2> QED BY <2>1, <2>2 DEF Staged, Primary, Before, After, Taken
<1> QED BY <1>1, <1>2

(* Nothing touches the volume of a pod that has served, but mysqld, which  *)
(* changes nothing of a replica's.                                         *)
LEMMA FinishedStays ==
    ASSUME TypeOK, \A j \in Pods : Finished(j), NEW i \in Pods, Progress(i) \/ Failure(i)
    PROVE  \A j \in Pods : Finished(j)'
<1>0. disk[i] \in Volume /\ i \in Nat /\ Finished(i)
  BY Ordinals DEF TypeOK
<1>1. CASE Progress(i)
  <2>1. SUFFICES Finished(i)'
    <3>1. ASSUME NEW j \in Pods \ {i}
          PROVE  Finished(j)'
      BY <1>1, OthersStay DEF Finished, Primary, Taken
    <3> QED BY <3>1
  <2>2. CASE CreatePod(i) \/ CloneSkip(i)
    BY <1>0, <2>2 DEF CreatePod, CloneSkip, Finished, Primary, Taken, TypeOK
  <2>3. CASE CloneNothing(i) \/ CloneBegin(i) \/ CloneEnd(i) \/ Prepare(i)
    <3>1. i > 0 => disk[i].data = "ready"
      BY <1>0 DEF Finished
    <3> QED BY <1>0, <2>3, <3>1 DEF CloneNothing, CloneBegin, CloneEnd, Prepare, Finished
  <2>4. CASE MysqldStart(i)
    <3>1. /\ disk'[i].data = IF disk[i].data = "none" THEN "own" ELSE disk[i].data
          /\ disk'[i].repl = IF disk[i].repl = "set" THEN "on" ELSE disk[i].repl
          /\ disk'[i].slave = disk[i].slave /\ disk'[i].binlog = disk[i].binlog
          /\ disk'[i].sqlIn = disk[i].sqlIn /\ disk'[i].pos = disk[i].pos
      BY <1>0, <2>4 DEF MysqldStart, TypeOK, Volume
    <3>2. phase' = phase /\ pc' = pc /\ tries' = tries
      BY <2>4 DEF MysqldStart
    <3> QED BY <1>0, <3>1, <3>2 DEF Finished, Primary, Taken
  <2>5. CASE Sidecar(i)
    <3>1. NothingToTake(i) \/ NothingToApply(i)
      BY <1>0, <2>5 DEF Sidecar, OpenFromSlave, FillFromSlave, DropSlaveInfo,
         DropBinlogInfo, TakeBinlogInfo, OpenFromMemory, FillFromMemory, ChangeMaster,
         StartSlave, MoveAside, Step, At, Finished, Primary, Taken
    <3> QED BY <1>0, <3>1 DEF NothingToTake, NothingToApply, Step, Finished, Primary,
                              Taken, TypeOK
  <2> QED BY <1>1, <2>2, <2>3, <2>4, <2>5 DEF Progress
<1>2. CASE Failure(i)
  <2>1. UNCHANGED <<disk, tries>>
    BY <1>2 DEF Failure, SidecarDies, MysqldDies, CloneDies, PodDies
  <2>2. \A j \in Pods : CutOff(i)[j] = phase[j]
    BY DEF CutOff, Finished
  <2>3. ASSUME NEW j \in Pods
        PROVE  phase'[j] \notin {"stream", "prepare"} /\ pc'[j] \in {"check", "apply", "serve"}
    <3>1. phase[j] \notin {"stream", "prepare"} /\ pc[j] \in {"check", "apply", "serve"}
      BY DEF Finished
    <3>2. CutOff(i) \in [Pods -> {"absent", "init", "stream", "prepare", "run"}]
      BY DEF CutOff, TypeOK
    <3> QED BY <1>2, <2>2, <3>1, <3>2
            DEF Failure, SidecarDies, MysqldDies, CloneDies, PodDies, TypeOK
  <2> QED BY <2>1, <2>3 DEF Finished, Primary, Taken
<1> QED BY <1>1, <1>2

(* A first failure that is not early finds all pods serving; what has      *)
(* failed early stays so.                                                  *)
LEMMA FirstFailure ==
    ASSUME TypeOK, NEW i \in Pods, Failure(i)
    PROVE  /\ left = MaxFault => early' \/ Settled
           /\ early => early'
BY ReplicaAssumption DEF Failure, SidecarDies, MysqldDies, CloneDies, PodDies, Strike

(* The stages hold in every behaviour.                                     *)
LEMMA RebootInvariance == Spec => []RebootInv
<1>1. Init => RebootInv
  <2>1. Init => TypeOK
    BY InitEstablishes DEF IInv, Carriage
  <2>2. Init => left = MaxFault /\ \A i \in Pods : Staged(i)
    BY DEF Init, Staged
  <2> QED BY <2>1, <2>2 DEF RebootInv
<1>2. TypeOK' /\ RebootInv /\ [Next]_vars => RebootInv'
  <2> SUFFICES ASSUME TypeOK', RebootInv, [Next]_vars PROVE RebootInv' OBVIOUS
  <2>1. CASE UNCHANGED vars
    BY <2>1 DEF vars, RebootInv, Staged, Finished, Primary, Before, After, Taken,
                Serving, Ready
  <2>0. ASSUME NEW i \in Pods, Progress(i) \/ Failure(i), early
        PROVE  RebootInv'
    BY <2>0, OthersStay, FirstFailure DEF RebootInv
  <2>2. ASSUME NEW i \in Pods, Progress(i) \/ Failure(i), \A j \in Pods : Finished(j)
        PROVE  RebootInv'
    BY <2>2, FinishedStays DEF RebootInv
  <2>3. ASSUME NEW i \in Pods, Progress(i), left = MaxFault, \A j \in Pods : Staged(j)
        PROVE  RebootInv'
    BY <2>3, StagesGoOn, OthersStay DEF RebootInv
  <2>4. ASSUME NEW i \in Pods, Failure(i), left = MaxFault, \A j \in Pods : Staged(j)
        PROVE  RebootInv'
    BY <2>2, <2>4, FirstFailure, SettledFinished DEF RebootInv
  <2> QED BY <2>0, <2>1, <2>2, <2>3, <2>4 DEF RebootInv, Next
<1> QED BY <1>1, <1>2, Typing, PTL DEF Spec

-----------------------------------------------------------------------------
(***************************************************************************)
(* Unless something fails before all pods serve, a pod serves only with a  *)
(* complete copy and while it follows, however many containers and pods    *)
(* die afterwards, for every size of the cluster.                          *)
(***************************************************************************)
THEOREM RebootsFollow == Spec => []LateHarmless
<1>1. RebootInv => LateHarmless
  BY DEF RebootInv, LateHarmless, ServingFollows, Serving, Ready, Staged, Finished,
         Before, After
<1> QED BY <1>1, RebootInvariance, PTL

(***************************************************************************)
(* Under the same condition every replica in the chain starts from a       *)
(* coordinate of the primary's log, though it copies a replica's files.    *)
(***************************************************************************)
THEOREM RebootsPosition == Spec => []SoundPosition
<1>1. RebootInv => SoundPosition
  <2> SUFFICES ASSUME RebootInv, ~ early, NEW i \in Pods, disk[i].repl # "off"
               PROVE  disk[i].pos = "copy"
    BY DEF SoundPosition
  <2>1. CASE Finished(i)
    BY <2>1 DEF Finished, Primary
  <2>2. CASE Staged(i)
    BY <2>2 DEF Staged, Primary, Before, After, Empty, RebootInv, TypeOK
  <2> QED BY <2>1, <2>2 DEF RebootInv
<1> QED BY <1>1, RebootInvariance, PTL

(***************************************************************************)
(* And none sends CHANGE MASTER twice.                                     *)
(***************************************************************************)
THEOREM RebootsOnce == Spec => []AtMostOnce
<1>1. RebootInv => AtMostOnce
  BY DEF RebootInv, AtMostOnce, TypeOK, Staged, Finished, Primary, Before, After
<1> QED BY <1>1, RebootInvariance, PTL

=============================================================================
