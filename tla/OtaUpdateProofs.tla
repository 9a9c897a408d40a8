-------------------------- MODULE OtaUpdateProofs --------------------------
(***************************************************************************)
(* Proofs about OtaUpdate for every number of updaters, releases, reboots, *)
(* killed scripts and failed commands.  The script takes no lock: that two *)
(* runs never overlap is a hypothesis of the theorems (Serialized), which  *)
(* the device meets when one source starts all runs or each of them takes  *)
(* a lock.                                                                 *)
(***************************************************************************)
EXTENDS OtaUpdate, FiniteSetTheorems, TLAPS

(* No two runs of the script are in progress at once                       *)
Serialized == \A u, v \in Updaters : pc[u] # "idle" /\ pc[v] # "idle" => u = v
Alone(u) == \A v \in Updaters : v # u => pc[v] = "idle"

(* The commands that follow the one that makes each part                   *)
Switching == {"rmsens", "lnedc"}
AfterSensver == {"validate", "rmedc", "lnsens"} \cup Switching
AfterSens == {"sensver"} \cup AfterSensver
AfterSensdir == {"sens"} \cup AfterSens
AfterVer == {"sensdir"} \cup AfterSensdir
AfterLib == {"ver"} \cup AfterVer
AfterBin == {"lib"} \cup AfterLib
AfterTree == {"bin"} \cup AfterBin
Building == ({"rmdir", "mkdir"} \cup AfterTree) \ ({"lnsens"} \cup Switching)
Downloaded == {"dlsens", "check", "detect", "lnsens"} \cup Building \cup Switching

(* What the script has put into the target when it reaches a command       *)
Progress(u) ==
  LET d == dir[target[u]] IN
  /\ pc[u] \in AfterTree => d["tree"] # Absent
  /\ pc[u] \in AfterBin => d["bin"] = pkg[u].core
  /\ pc[u] \in AfterLib => d["lib"] = pkg[u].core
  /\ pc[u] \in AfterVer => d["ver"] = pkg[u].core
  /\ pc[u] \in AfterSensdir => d["sensdir"] = pkg[u].sens
  /\ pc[u] \in AfterSens => d["sens"] = pkg[u].sens
  /\ pc[u] \in AfterSensver => d["sensver"] = pkg[u].sens

(* Which links exist at a command, and that the target is not the active   *)
(* deployment; with no link the target is edcA                             *)
LinkState(u) ==
  /\ pc[u] \in Building => target[u] = TargetOf(edc)
  /\ pc[u] \in Switching => edc = None
  /\ pc[u] \in {"lnedc", "lnsens"} => senscord = None
  /\ pc[u] = "lnsens" => edc = target[u]

(* No directory is newer than the package the script works with            *)
NoneNewer ==
  /\ \A d \in Dir : dir[d]["ver"] <= latest.core
  /\ \A u \in Updaters : pc[u] \in Downloaded =>
       /\ pkg[u].core <= latest.core
       /\ \A d \in Dir : dir[d]["ver"] <= pkg[u].core

IInv ==
  /\ TypeOK
  /\ ActiveComplete
  /\ LinksAgree
  /\ \A u \in Updaters : Progress(u) /\ LinkState(u)
  /\ NoneNewer

(* A rollback target: the link, or a complete edcB, which the fallback of  *)
(* get_target_deployment to edcA leaves alone                              *)
Keep == edc # None \/ Complete(DirB)

-----------------------------------------------------------------------------
(* Types                                                                   *)

(* A part of one directory is replaced and the rest of the disk stays      *)
LEMMA InstallType ==
  ASSUME TypeOK, NEW d \in Dir, NEW p \in Part, NEW v \in Version \cup {Absent},
         Install(d, p, v)
  PROVE  dir' \in [Dir -> [Part -> Version \cup {Absent}]]
BY DEF TypeOK, Install

(* A copied file keeps the types                                           *)
LEMMA PutFileType ==
  ASSUME TypeOK, NEW u \in Updaters, NEW p \in Part, NEW q \in Part,
         NEW v \in Version, NEW n \in PC, PutFile(u, p, q, v, n)
  PROVE  TypeOK'
<1>1. CASE Has(target[u], q)
  <2>1. dir' \in [Dir -> [Part -> Version \cup {Absent}]]
    BY <1>1, InstallType DEF PutFile, TypeOK
  <2>. QED
    BY <1>1, <2>1 DEF PutFile, TypeOK, Goto
<1>2. CASE ~Has(target[u], q)
  BY <1>2 DEF PutFile, TypeOK, Exit, Goto, PC
<1>. QED
  BY <1>1, <1>2

(* Every step of the script, of systemd and of the environment keeps every *)
(* variable in its type                                                    *)
LEMMA TypeStep == TypeOK /\ [Next]_vars => TypeOK'
<1>. USE OtaAssumption
<1>. SUFFICES ASSUME TypeOK, [Next]_vars
              PROVE  TypeOK'
  OBVIOUS
<1>1. ASSUME NEW u \in Updaters, Start(u)
      PROVE  TypeOK'
  BY <1>1 DEF TypeOK, Start, Goto, PC, disk
<1>2. ASSUME NEW u \in Updaters, StartByHand(u)
      PROVE  TypeOK'
  BY <1>2 DEF TypeOK, StartByHand, Event, Goto, PC, disk
<1>3. ASSUME NEW u \in Updaters, Step(u)
      PROVE  TypeOK'
  <2>. pkg[u] \in [core : Version, sens : Version] /\ target[u] \in Dir
    BY DEF TypeOK
  <2>1. CASE DownloadCore(u)
    BY <2>1 DEF TypeOK, DownloadCore, Goto, PC, disk
  <2>2. CASE DownloadSensor(u)
    BY <2>2 DEF TypeOK, DownloadSensor, Goto, PC, disk
  <2>3. CASE VersionCheck(u)
    BY <2>3 DEF TypeOK, VersionCheck, Goto, PC, disk
  <2>4. CASE DetectDeployment(u)
    BY <2>4 DEF TypeOK, DetectDeployment, TargetOf, Dir, Goto, PC, disk
  <2>5. CASE RemoveOne(u)
    BY <2>5, InstallType DEF TypeOK, RemoveOne, script
  <2>6. CASE RemoveDone(u)
    BY <2>6 DEF TypeOK, RemoveDone, Goto, PC, disk
  <2>7. CASE MakeTree(u)
    <3>1. dir' \in [Dir -> [Part -> Version \cup {Absent}]]
      BY <2>7, InstallType DEF MakeTree, Part
    <3>. QED
      BY <2>7, <3>1 DEF TypeOK, MakeTree, Goto, PC
  <2>8. CASE InstallCore(u)
    BY <2>8, PutFileType DEF InstallCore, Part, CorePart, PC
  <2>9. CASE InstallSensor(u)
    <3>1. CASE ExtractSensor(u)
      BY <3>1 DEF TypeOK, ExtractSensor, Goto, PC, Part, SensPart
    <3>. QED
      BY <2>9, <3>1, PutFileType DEF InstallSensor, Part, SensPart, PC
  <2>10. CASE Validate(u)
    BY <2>10 DEF TypeOK, Validate, Goto, PC, disk
  <2>11. CASE RemoveEdcLink(u)
    BY <2>11 DEF TypeOK, RemoveEdcLink, Goto, PC
  <2>12. CASE RemoveSenscordLink(u)
    BY <2>12 DEF TypeOK, RemoveSenscordLink, Goto, PC
  <2>13. CASE MakeEdcLink(u)
    BY <2>13 DEF TypeOK, MakeEdcLink, Goto, PC
  <2>14. CASE MakeSenscordLink(u)
    BY <2>14 DEF TypeOK, MakeSenscordLink, Exit, Goto, PC
  <2>. QED
    BY <1>3, <2>1, <2>2, <2>3, <2>4, <2>5, <2>6, <2>7, <2>8, <2>9, <2>10,
       <2>11, <2>12, <2>13, <2>14 DEF Step
<1>4. ASSUME NEW u \in Updaters, ErrorExit(u)
      PROVE  TypeOK'
  BY <1>4 DEF TypeOK, ErrorExit, Event, PC, disk
<1>5. CASE ServiceStart
  BY <1>5 DEF TypeOK, ServiceStart, disk, script
<1>6. CASE DaemonFails
  BY <1>6 DEF TypeOK, DaemonFails, Event, disk, script
<1>7. CASE Reboot
  BY <1>7 DEF TypeOK, Reboot, Event, PC, disk
<1>8. CASE Release
  BY <1>8 DEF TypeOK, Release, Version, disk, script
<1>9. CASE UNCHANGED vars
  BY <1>9 DEF TypeOK, vars, disk, script
<1>. QED
  BY <1>1, <1>2, <1>3, <1>4, <1>5, <1>6, <1>7, <1>8, <1>9 DEF Next

(* The type invariant holds in every reachable state                       *)
THEOREM TypeCorrect == Spec => []TypeOK
<1>1. Init => TypeOK
  BY OtaAssumption DEF Init, TypeOK, Dir, PC, Version
<1>. QED
  BY <1>1, TypeStep, PTL DEF Spec

-----------------------------------------------------------------------------
(* Safety                                                                  *)

(* While a target is built the link names the other directory, or nothing  *)
(* and then the target is edcA                                             *)
LEMMA TargetNotActive ==
  ASSUME IInv, NEW u \in Updaters, pc[u] \in Building
  PROVE  /\ target[u] \in Dir /\ target[u] # edc
         /\ edc = None => target[u] # DirB
BY DEF IInv, TypeOK, LinkState, TargetOf, Dir, DirA, DirB, None

(* A step that writes only to the target of a script that builds it keeps  *)
(* the active deployment complete and the rollback target in place         *)
LEMMA TargetWrite ==
  ASSUME IInv, NEW u \in Updaters, pc[u] \in Building, edc' = edc,
         \A d \in Dir : d # target[u] => dir'[d] = dir[d]
  PROVE  ActiveComplete' /\ (Keep => Keep')
<1>1. /\ target[u] \in Dir /\ target[u] # edc
      /\ edc = None => target[u] # DirB
  BY TargetNotActive
<1>2. ActiveComplete'
  <2>. SUFFICES ASSUME edc # None
                PROVE  Complete(edc)'
    BY DEF ActiveComplete
  <2>1. edc \in Dir /\ dir'[edc] = dir[edc] /\ Complete(edc)
    BY <1>1 DEF IInv, TypeOK, ActiveComplete
  <2>. QED
    BY <2>1 DEF Complete, Has
<1>3. Keep => Keep'
  BY <1>1 DEF Keep, Complete, Has, Dir
<1>. QED
  BY <1>2, <1>3

(* A step that leaves the directories and /opt/edc alone                   *)
LEMMA DiskKept ==
  ASSUME IInv, UNCHANGED <<dir, edc>>
  PROVE  ActiveComplete' /\ (Keep => Keep')
BY DEF IInv, ActiveComplete, Keep, Complete, Has

(* Versions are numbers                                                    *)
LEMMA VersionNat ==
  ASSUME TypeOK
  PROVE  /\ \A d \in Dir, p \in Part : dir[d][p] \in Nat
         /\ latest.core \in Nat
         /\ \A u \in Updaters : pkg[u].core \in Nat
BY OtaAssumption DEF TypeOK, Version, Absent

(* Nothing is said of a script that does not run                           *)
LEMMA OthersIdle ==
  ASSUME NEW v \in Updaters
  PROVE  /\ pc[v] = "idle" => Progress(v) /\ LinkState(v) /\ pc[v] \notin Downloaded
         /\ pc'[v] = "idle" => Progress(v)' /\ LinkState(v)' /\ pc'[v] \notin Downloaded
BY DEF Progress, LinkState, Downloaded, Building, Switching,
       AfterTree, AfterBin, AfterLib, AfterVer, AfterSensdir, AfterSens, AfterSensver

(* A command of one run leaves the program counters of the others alone    *)
LEMMA StepAlone ==
  ASSUME TypeOK, Serialized, NEW u \in Updaters, Step(u)
  PROVE  /\ pc[u] # "idle" /\ Alone(u) /\ Alone(u)'
         /\ pc' = [pc EXCEPT ![u] = pc'[u]]
<1>1. pc[u] # "idle" /\ pc' = [pc EXCEPT ![u] = pc'[u]]
  BY DEF TypeOK, Step, DownloadCore, DownloadSensor, VersionCheck, DetectDeployment,
       RemoveOne, RemoveDone, MakeTree, InstallCore, InstallSensor, ExtractSensor, PutFile,
       Validate, RemoveEdcLink, RemoveSenscordLink, MakeEdcLink, MakeSenscordLink,
       Goto, Exit, script
<1>. QED
  BY <1>1 DEF Serialized, Alone, TypeOK

(* A step after which every version file is at most the one it was, or the *)
(* package's, keeps NoneNewer                                              *)
LEMMA NoneNewerKept ==
  ASSUME IInv, TypeOK', NEW u \in Updaters, Alone(u)', UNCHANGED <<latest, pkg>>,
         pc[u] \in Downloaded,
         \A d \in Dir : dir'[d]["ver"] \in {dir[d]["ver"], pkg[u].core, Absent}
  PROVE  NoneNewer'
<1>1. /\ pkg[u].core \in Nat /\ latest.core \in Nat
      /\ \A d \in Dir : dir[d]["ver"] \in Nat
  BY VersionNat DEF IInv, Part, CorePart
<1>2. \A d \in Dir : dir[d]["ver"] <= pkg[u].core /\ pkg[u].core <= latest.core
  BY DEF IInv, NoneNewer
<1>3. \A d \in Dir : dir'[d]["ver"] <= pkg[u].core
  BY <1>1, <1>2 DEF Absent
<1>4. \A d \in Dir : dir'[d]["ver"] <= latest.core
  BY <1>1, <1>2 DEF Absent
<1>. QED
  BY <1>2, <1>3, <1>4, OthersIdle DEF NoneNewer, IInv, Alone

(* Starting or stopping the script keeps the invariant                     *)
LEMMA StartSafe ==
  ASSUME IInv, TypeOK', Serialized, Serialized',
         \/ \E u \in Updaters : Start(u) \/ StartByHand(u) \/ ErrorExit(u)
         \/ Reboot
  PROVE  IInv' /\ (Keep => Keep')
<1>1. UNCHANGED <<dir, edc, senscord, pkg, target, latest>>
  BY DEF Start, StartByHand, ErrorExit, Reboot, disk
<1>2. \A v \in Updaters : pc'[v] \in {"idle", "dlcore"}
  BY DEF Start, StartByHand, ErrorExit, Reboot, Goto, Serialized, IInv, TypeOK
<1>3. LinksAgree' /\ NoneNewer'
  BY <1>1, <1>2 DEF IInv, LinksAgree, NoneNewer, Downloaded, Building, Switching,
       AfterTree, AfterBin, AfterLib, AfterVer, AfterSensdir, AfterSens, AfterSensver
<1>4. ASSUME NEW v \in Updaters
      PROVE  Progress(v)' /\ LinkState(v)'
  BY <1>2 DEF Progress, LinkState, Building, Switching,
       AfterTree, AfterBin, AfterLib, AfterVer, AfterSensdir, AfterSens, AfterSensver
<1>. QED
  BY <1>1, <1>3, <1>4, DiskKept DEF IInv

(* The steps before the target is chosen                                   *)
LEMMA DownloadSafe ==
  ASSUME IInv, TypeOK', NEW u \in Updaters, Alone(u)',
         \/ DownloadCore(u) \/ DownloadSensor(u)
         \/ VersionCheck(u) \/ DetectDeployment(u)
  PROVE  IInv' /\ (Keep => Keep')
<1>1. UNCHANGED <<dir, edc, senscord, latest>>
  BY DEF DownloadCore, DownloadSensor, VersionCheck, DetectDeployment, disk
<1>2. LinksAgree'
  BY <1>1 DEF IInv, LinksAgree
<1>3. NoneNewer'
  <2>1. CASE DownloadCore(u)
    <3>1. pkg'[u].core = latest.core
      BY <2>1 DEF DownloadCore, IInv, TypeOK
    <3>2. latest.core \in Nat /\ \A d \in Dir : dir[d]["ver"] <= latest.core
      BY VersionNat DEF IInv, NoneNewer
    <3>. QED
      BY <1>1, <3>1, <3>2, OthersIdle DEF NoneNewer, Alone
  <2>2. CASE DownloadSensor(u) \/ VersionCheck(u) \/ DetectDeployment(u)
    <3>1. pkg'[u].core = pkg[u].core /\ pc[u] \in Downloaded
      BY <2>2 DEF DownloadSensor, VersionCheck, DetectDeployment, Goto, Downloaded, IInv, TypeOK
    <3>2. pkg[u].core <= latest.core /\ \A d \in Dir : dir[d]["ver"] <= pkg[u].core
      BY <3>1 DEF IInv, NoneNewer
    <3>. QED
      BY <1>1, <3>1, <3>2, OthersIdle DEF IInv, NoneNewer, Alone
  <2>. QED
    BY <2>1, <2>2
<1>4. Progress(u)' /\ LinkState(u)'
  BY <1>1 DEF IInv, TypeOK, Progress, LinkState, DownloadCore, DownloadSensor,
       VersionCheck, DetectDeployment, Goto, Building, Switching,
       AfterTree, AfterBin, AfterLib, AfterVer, AfterSensdir, AfterSens, AfterSensver
<1>. QED
  BY <1>1, <1>2, <1>3, <1>4, DiskKept, OthersIdle DEF IInv, Alone

(* rm -rf and mkdir of the target                                          *)
LEMMA ClearSafe ==
  ASSUME IInv, TypeOK', NEW u \in Updaters, Alone(u)',
         RemoveOne(u) \/ RemoveDone(u) \/ MakeTree(u)
  PROVE  IInv' /\ (Keep => Keep')
<1>1. /\ UNCHANGED <<edc, senscord, latest, pkg, target>>
      /\ pc[u] \in {"rmdir", "mkdir"} /\ pc'[u] \in {"rmdir", "mkdir", "bin"}
      /\ pc[u] \in Building
  BY DEF RemoveOne, RemoveDone, MakeTree, disk, script, Goto, IInv, TypeOK,
       Building, Switching,
       AfterTree, AfterBin, AfterLib, AfterVer, AfterSensdir, AfterSens, AfterSensver
<1>2. \A d \in Dir : d # target[u] => dir'[d] = dir[d]
  BY DEF RemoveOne, RemoveDone, MakeTree, Install, disk, IInv, TypeOK
<1>3. ActiveComplete' /\ (Keep => Keep')
  BY <1>1, <1>2, TargetWrite
<1>4. NoneNewer'
  <2>1. CASE RemoveOne(u)
    BY <2>1, <1>1, NoneNewerKept DEF RemoveOne, Install, IInv, TypeOK, Downloaded
  <2>2. CASE RemoveDone(u)
    BY <2>2, <1>1, NoneNewerKept DEF RemoveDone, disk, IInv, TypeOK, Downloaded
  <2>3. CASE MakeTree(u)
    <3>1. \A d \in Dir : dir'[d]["ver"] = dir[d]["ver"]
      BY <2>3 DEF MakeTree, Install, IInv, TypeOK, Part, CorePart
    <3>. QED
      BY <1>1, <3>1, NoneNewerKept DEF Downloaded
  <2>. QED
    BY <2>1, <2>2, <2>3
<1>5. Progress(u)'
  <2>1. CASE pc'[u] # "bin"
    BY <1>1, <2>1 DEF Progress, Building, Switching,
       AfterTree, AfterBin, AfterLib, AfterVer, AfterSensdir, AfterSens, AfterSensver
  <2>2. CASE MakeTree(u)
    <3>1. dir'[target[u]]["tree"] = pkg[u].core /\ pc'[u] = "bin" /\ pkg[u].core # Absent
      BY <2>2, OtaAssumption DEF MakeTree, Install, Goto, IInv, TypeOK, Part, Version, Absent
    <3>. QED
      BY <1>1, <3>1 DEF Progress, Building, Switching,
       AfterTree, AfterBin, AfterLib, AfterVer, AfterSensdir, AfterSens, AfterSensver
  <2>. QED
    BY <2>1, <2>2 DEF RemoveOne, RemoveDone, Goto, script, IInv, TypeOK
<1>6. LinkState(u)' /\ LinksAgree'
  BY <1>1 DEF IInv, LinkState, LinksAgree, Building, Switching,
       AfterTree, AfterBin, AfterLib, AfterVer, AfterSensdir, AfterSens, AfterSensver
<1>. QED
  BY <1>1, <1>3, <1>4, <1>5, <1>6, OthersIdle DEF IInv, Alone

(* One file of a package copied into the target                            *)
LEMMA InstallSafe ==
  ASSUME IInv, TypeOK', NEW u \in Updaters, Alone(u)',
         InstallCore(u) \/ InstallSensor(u)
  PROVE  IInv' /\ (Keep => Keep')
<1>1. /\ UNCHANGED <<edc, senscord, latest, pkg, target>>
      /\ pc[u] \in Building
      /\ pc'[u] \in Building \cup {"idle"}
  BY DEF InstallCore, InstallSensor, ExtractSensor, PutFile, Goto, Exit,
       IInv, TypeOK, Building, Switching,
       AfterTree, AfterBin, AfterLib, AfterVer, AfterSensdir, AfterSens, AfterSensver
<1>2. \A d \in Dir : d # target[u] => dir'[d] = dir[d]
  BY DEF InstallCore, InstallSensor, ExtractSensor, PutFile, Install, IInv, TypeOK
<1>3. ActiveComplete' /\ (Keep => Keep')
  BY <1>1, <1>2, TargetWrite
<1>4. NoneNewer'
  <2>1. dir'[target[u]]["ver"] \in {dir[target[u]]["ver"], pkg[u].core}
    BY DEF InstallCore, InstallSensor, ExtractSensor, PutFile, Install, IInv, TypeOK,
       Part, CorePart, SensPart
  <2>2. \A d \in Dir : dir'[d]["ver"] \in {dir[d]["ver"], pkg[u].core}
    BY <1>2, <2>1
  <2>. QED
    BY <1>1, <2>2, NoneNewerKept DEF Downloaded
<1>5. Progress(u)'
  BY <1>1 DEF IInv, TypeOK, Progress, InstallCore, InstallSensor, ExtractSensor, PutFile,
       Install, Goto, Exit, Version, Absent, Part, CorePart, SensPart, Building, Switching,
       AfterTree, AfterBin, AfterLib, AfterVer, AfterSensdir, AfterSens, AfterSensver
<1>6. LinkState(u)' /\ LinksAgree'
  BY <1>1 DEF IInv, LinkState, LinksAgree, Building, Switching,
       AfterTree, AfterBin, AfterLib, AfterVer, AfterSensdir, AfterSens, AfterSensver
<1>. QED
  BY <1>1, <1>3, <1>4, <1>5, <1>6, OthersIdle DEF IInv, Alone

(* Validation and the four link commands                                   *)
LEMMA TargetComplete ==
  ASSUME IInv, NEW u \in Updaters, pc[u] \in AfterSensver
  PROVE  Complete(target[u])
BY DEF IInv, TypeOK, Progress, Complete, Has, Version, Absent, Part, CorePart, SensPart,
       Building, Switching,
       AfterTree, AfterBin, AfterLib, AfterVer, AfterSensdir, AfterSens, AfterSensver

(* The validation and the four link commands keep the invariant            *)
LEMMA SwitchSafe ==
  ASSUME IInv, TypeOK', NEW u \in Updaters, Alone(u)',
         \/ Validate(u) \/ RemoveEdcLink(u) \/ RemoveSenscordLink(u)
         \/ MakeEdcLink(u) \/ MakeSenscordLink(u)
  PROVE  IInv' /\ (Keep => Keep')
<1>1. UNCHANGED <<dir, latest, pkg, target>>
  BY DEF Validate, RemoveEdcLink, RemoveSenscordLink, MakeEdcLink, MakeSenscordLink,
       disk
<1>2. /\ pc[u] \in AfterSensver \cup {"lnsens"}
      /\ pc'[u] \in {"rmedc", "rmsens", "lnedc", "lnsens", "idle"}
  BY DEF Validate, RemoveEdcLink, RemoveSenscordLink, MakeEdcLink, MakeSenscordLink,
       Goto, Exit, IInv, TypeOK, AfterSensver, Switching
<1>3. NoneNewer'
  <2>1. pc[u] \in Downloaded
    BY <1>2 DEF Downloaded, Building, Switching,
       AfterTree, AfterBin, AfterLib, AfterVer, AfterSensdir, AfterSens, AfterSensver
  <2>. QED
    BY <1>1, <2>1, NoneNewerKept
<1>4. Progress(u)'
  BY <1>1 DEF IInv, TypeOK, Progress, Validate, RemoveEdcLink, RemoveSenscordLink,
       MakeEdcLink, MakeSenscordLink, Goto, Exit, Building, Switching,
       AfterTree, AfterBin, AfterLib, AfterVer, AfterSensdir, AfterSens, AfterSensver
<1>5. LinkState(u)' /\ LinksAgree'
  <2>. USE DEF IInv, TypeOK, LinkState, LinksAgree, Goto, Exit, Building, Switching,
       AfterTree, AfterBin, AfterLib, AfterVer, AfterSensdir, AfterSens, AfterSensver
  <2>1. CASE Validate(u)
    BY <1>1, <2>1 DEF Validate, disk
  <2>2. CASE RemoveEdcLink(u)
    BY <1>1, <2>2 DEF RemoveEdcLink
  <2>3. CASE RemoveSenscordLink(u)
    BY <1>1, <2>3 DEF RemoveSenscordLink
  <2>4. CASE MakeEdcLink(u)
    BY <1>1, <2>4 DEF MakeEdcLink
  <2>5. CASE MakeSenscordLink(u)
    BY <1>1, <2>5 DEF MakeSenscordLink
  <2>. QED
    BY <2>1, <2>2, <2>3, <2>4, <2>5
<1>6. ActiveComplete' /\ (Keep => Keep')
  <2>1. CASE UNCHANGED edc
    BY <1>1, <2>1, DiskKept
  <2>2. CASE RemoveEdcLink(u)
    <3>1. /\ pc[u] = "rmedc" /\ edc' = None
          /\ Complete(target[u]) /\ target[u] = TargetOf(edc)
      BY <2>2, TargetComplete DEF RemoveEdcLink, Goto, IInv, LinkState, Building, Switching,
       AfterTree, AfterBin, AfterLib, AfterVer, AfterSensdir, AfterSens, AfterSensver
    <3>2. Keep => Complete(DirB)
      BY <3>1 DEF IInv, TypeOK, Keep, ActiveComplete, TargetOf, Dir
    <3>. QED
      BY <1>1, <3>1, <3>2 DEF Keep, Complete, Has, ActiveComplete
  <2>3. CASE MakeEdcLink(u)
    <3>1. pc[u] = "lnedc" /\ edc = None /\ edc' = target[u] /\ Complete(target[u])
      BY <2>3, TargetComplete DEF MakeEdcLink, Goto, IInv, LinkState, Building, Switching,
       AfterTree, AfterBin, AfterLib, AfterVer, AfterSensdir, AfterSens, AfterSensver
    <3>. QED
      BY <1>1, <3>1 DEF Keep, Complete, Has, ActiveComplete, IInv, TypeOK, Dir, None, DirA, DirB
  <2>. QED
    BY <2>1, <2>2, <2>3 DEF Validate, RemoveSenscordLink, MakeSenscordLink, disk
<1>. QED
  BY <1>1, <1>3, <1>4, <1>5, <1>6, OthersIdle DEF IInv, Alone

(* The service, the releases, and stuttering                               *)
LEMMA OutsideSafe ==
  ASSUME IInv, TypeOK', ServiceStart \/ DaemonFails \/ Release \/ UNCHANGED vars
  PROVE  IInv' /\ (Keep => Keep')
<1>1. UNCHANGED <<dir, edc, senscord, pc, pkg, target>>
  BY DEF ServiceStart, DaemonFails, Release, vars, disk, script
<1>2. latest'.core >= latest.core
  <2>1. latest.core \in Nat
    BY VersionNat DEF IInv
  <2>2. CASE UNCHANGED latest
    BY <2>1, <2>2
  <2>3. CASE Release
    <3>1. latest' = [latest EXCEPT !.core = @ + 1] \/ latest' = [latest EXCEPT !.sens = @ + 1]
      BY <2>3 DEF Release
    <3>2. latest \in [core : Version, sens : Version]
      BY DEF IInv, TypeOK
    <3>3. latest'.core \in {latest.core + 1, latest.core}
      BY <3>1, <3>2
    <3>. QED
      BY <2>1, <3>3
  <2>. QED
    BY <2>2, <2>3 DEF ServiceStart, DaemonFails, vars
<1>3. NoneNewer'
  <2>1. /\ \A d \in Dir : dir[d]["ver"] \in Nat
        /\ \A v \in Updaters : pkg[v].core \in Nat
        /\ latest.core \in Nat
    BY VersionNat DEF IInv, Part, CorePart
  <2>. latest'.core \in Nat
    BY OtaAssumption DEF TypeOK, Version
  <2>2. \A d \in Dir : dir[d]["ver"] <= latest'.core
    BY <1>2, <2>1 DEF IInv, NoneNewer
  <2>3. \A v \in Updaters : pc[v] \in Downloaded => pkg[v].core <= latest'.core
    BY <1>2, <2>1 DEF IInv, NoneNewer
  <2>. QED
    BY <1>1, <2>2, <2>3 DEF IInv, NoneNewer
<1>4. ASSUME NEW v \in Updaters
      PROVE  Progress(v)' /\ LinkState(v)'
  BY <1>1 DEF IInv, Progress, LinkState
<1>. QED
  BY <1>1, <1>3, <1>4, DiskKept DEF IInv, LinksAgree

(* One step of one script keeps the inductive invariant and the rollback   *)
(* target                                                                  *)
LEMMA SafetyStep ==
  Serialized /\ Serialized' /\ IInv /\ [Next]_vars => IInv' /\ (Keep => Keep')
<1>. SUFFICES ASSUME Serialized, Serialized', IInv, [Next]_vars
              PROVE  IInv' /\ (Keep => Keep')
  OBVIOUS
<1>1. TypeOK'
  BY TypeStep DEF IInv
<1>2. ASSUME NEW u \in Updaters, Step(u)
      PROVE  IInv' /\ (Keep => Keep')
  <2>1. Alone(u)'
    BY <1>2, StepAlone DEF IInv
  <2>. QED
    BY <1>1, <1>2, <2>1, DownloadSafe, ClearSafe, InstallSafe, SwitchSafe DEF Step
<1>3. CASE \/ \E u \in Updaters : Start(u) \/ StartByHand(u) \/ ErrorExit(u)
           \/ Reboot
  BY <1>1, <1>3, StartSafe
<1>4. CASE ServiceStart \/ DaemonFails \/ Release \/ UNCHANGED vars
  BY <1>1, <1>4, OutsideSafe
<1>. QED
  BY <1>2, <1>3, <1>4 DEF Next

(* The initial state satisfies the inductive invariant                     *)
LEMMA InitSafe == Init => IInv
<1>. SUFFICES ASSUME Init
              PROVE  IInv
  OBVIOUS
<1>1. TypeOK
  BY OtaAssumption DEF Init, TypeOK, Dir, PC, Version
<1>2. NoneNewer
  BY DEF Init, NoneNewer, Downloaded, Absent, Part, CorePart, Building, Switching,
       AfterTree, AfterBin, AfterLib, AfterVer, AfterSensdir, AfterSens, AfterSensver
<1>. QED
  BY <1>1, <1>2 DEF Init, IInv, ActiveComplete, LinksAgree, Progress, LinkState, Building, Switching,
       AfterTree, AfterBin, AfterLib, AfterVer, AfterSensdir, AfterSens, AfterSensver

(* Whatever command a run of the script is stopped at and whatever happens *)
(* between runs, /opt/edc only ever names a complete deployment of one     *)
(* release                                                                 *)
THEOREM LinksSafe ==
  Spec /\ []Serialized => []ActiveComplete
<1>1. Serialized /\ Serialized' /\ IInv /\ [Next]_vars => IInv'
  BY SafetyStep
<1>2. IInv => ActiveComplete
  BY DEF IInv
<1>. QED
  BY <1>1, <1>2, InitSafe, PTL DEF Spec

(* The four commands of the switch never leave /opt/edc and /opt/senscord  *)
(* on different deployments                                                *)
THEOREM LinksStayTogether ==
  Spec /\ []Serialized => []LinksAgree
<1>1. Serialized /\ Serialized' /\ IInv /\ [Next]_vars => IInv'
  BY SafetyStep
<1>2. IInv => LinksAgree
  BY DEF IInv
<1>. QED
  BY <1>1, <1>2, InitSafe, PTL DEF Spec

(* After the first switch a complete deployment stays on the disk for ever *)
THEOREM RollbackAlwaysKept ==
  Spec /\ []Serialized => RollbackKept
<1>1. Serialized /\ Serialized' /\ IInv /\ [Next]_vars => IInv'
  BY SafetyStep
<1>2. Serialized /\ Serialized' /\ IInv /\ Keep /\ [Next]_vars => Keep'
  BY SafetyStep
<1>3. edc # None => Keep
  BY DEF Keep
<1>4. IInv /\ Keep => \E d \in Dir : Complete(d)
  BY DEF Keep, IInv, TypeOK, ActiveComplete, Dir
<1>. QED
  BY <1>1, <1>2, <1>3, <1>4, InitSafe, PTL DEF Spec, RollbackKept

(* No step of the script writes to the deployment /opt/edc names           *)
THEOREM ActiveNeverWritten ==
  Spec /\ []Serialized => ActiveUntouched
<1>1. Serialized /\ Serialized' /\ IInv /\ [Next]_vars => IInv'
  BY SafetyStep
<1>2. IInv /\ [Next]_vars => [edc # None => dir'[edc] = dir[edc]]_vars
  <2>. SUFFICES ASSUME IInv, Next, edc # None
                PROVE  dir'[edc] = dir[edc]
    OBVIOUS
  <2>. edc \in Dir
    BY DEF IInv, TypeOK
  <2>1. ASSUME NEW u \in Updaters, pc[u] \in Building, NEW d \in Dir, d # target[u],
               RemoveOne(u) \/ MakeTree(u) \/ InstallCore(u) \/ InstallSensor(u)
        PROVE  dir'[d] = dir[d]
    BY <2>1 DEF RemoveOne, MakeTree, InstallCore, InstallSensor, ExtractSensor,
         PutFile, Install, IInv, TypeOK
  <2>2. ASSUME NEW u \in Updaters,
               RemoveOne(u) \/ MakeTree(u) \/ InstallCore(u) \/ InstallSensor(u)
        PROVE  pc[u] \in Building
    BY <2>2 DEF RemoveOne, MakeTree, InstallCore, InstallSensor, ExtractSensor,
         PutFile, Goto, Building, Switching,
       AfterTree, AfterBin, AfterLib, AfterVer, AfterSensdir, AfterSens, AfterSensver
  <2>3. ASSUME NEW u \in Updaters,
               RemoveOne(u) \/ MakeTree(u) \/ InstallCore(u) \/ InstallSensor(u)
        PROVE  dir'[edc] = dir[edc]
    BY <2>1, <2>2, <2>3, TargetNotActive
  <2>4. CASE ServiceStart \/ DaemonFails \/ Reboot \/ Release
    BY <2>4 DEF ServiceStart, DaemonFails, Reboot, Release, disk
  <2>5. ASSUME NEW u \in Updaters, Start(u) \/ StartByHand(u) \/ ErrorExit(u)
        PROVE  dir' = dir
    BY <2>5 DEF Start, StartByHand, ErrorExit, disk
  <2>6. ASSUME NEW u \in Updaters, Step(u),
               ~(RemoveOne(u) \/ MakeTree(u) \/ InstallCore(u) \/ InstallSensor(u))
        PROVE  dir' = dir
    BY <2>6 DEF Step, DownloadCore, DownloadSensor, VersionCheck, DetectDeployment,
         RemoveDone, Validate, RemoveEdcLink, RemoveSenscordLink, MakeEdcLink,
         MakeSenscordLink, disk
  <2>. QED
    BY <2>3, <2>4, <2>5, <2>6 DEF Next
<1>. QED
  BY <1>1, <1>2, InitSafe, PTL DEF Spec, ActiveUntouched

(* /opt/edc is only ever made to name a deployment at least as new as      *)
(* every complete one on the disk                                          *)
THEOREM NoSwitchBack ==
  Spec /\ []Serialized => NeverSwitchedBack
<1>1. Serialized /\ Serialized' /\ IInv /\ [Next]_vars => IInv'
  BY SafetyStep
<1>2. IInv /\ [Next]_vars =>
        [edc = None /\ edc' # None =>
           \A d \in Dir : Complete(d) => dir[d]["ver"] <= dir'[edc']["ver"]]_vars
  <2>. SUFFICES ASSUME IInv, Next, edc = None, edc' # None, NEW d \in Dir
                PROVE  dir[d]["ver"] <= dir'[edc']["ver"]
    OBVIOUS
  <2>1. PICK u \in Updaters : MakeEdcLink(u)
    BY DEF Next, Start, StartByHand, Step, ErrorExit, DownloadCore, DownloadSensor,
         VersionCheck, DetectDeployment, RemoveOne, RemoveDone, MakeTree, InstallCore,
         InstallSensor, ExtractSensor, PutFile, Validate, RemoveEdcLink,
         RemoveSenscordLink, MakeSenscordLink, ServiceStart, DaemonFails, Reboot,
         Release, disk
  <2>2. pc[u] = "lnedc" /\ edc' = target[u] /\ dir' = dir
    BY <2>1 DEF MakeEdcLink, Goto
  <2>3. dir[target[u]]["ver"] = pkg[u].core /\ dir[d]["ver"] <= pkg[u].core
    BY <2>2 DEF IInv, Progress, NoneNewer, Downloaded, Building, Switching,
       AfterTree, AfterBin, AfterLib, AfterVer, AfterSensdir, AfterSens, AfterSensver
  <2>. QED
    BY <2>2, <2>3
<1>. QED
  BY <1>1, <1>2, InitSafe, PTL DEF Spec, NeverSwitchedBack

-----------------------------------------------------------------------------
(* What a run achieves                                                     *)

(* With every fault counted in events, only a command of its own ends a run *)
LEMMA EndedByStep ==
  ASSUME IInv, Serialized, Next, NEW u \in Updaters,
         pc[u] # "idle", pc'[u] = "idle", events' = events
  PROVE  Step(u)
<1>. events \in Nat
  BY OtaAssumption DEF IInv, TypeOK
<1>1. ~Event
  BY DEF Event
<1>2. ASSUME NEW v \in Updaters, Start(v) \/ StartByHand(v) \/ ErrorExit(v)
      PROVE  FALSE
  BY <1>1, <1>2 DEF Start, StartByHand, ErrorExit, Goto, IInv, TypeOK
<1>3. CASE ServiceStart \/ DaemonFails \/ Reboot \/ Release
  BY <1>1, <1>3 DEF ServiceStart, DaemonFails, Reboot, Release, script
<1>4. ASSUME NEW v \in Updaters, Step(v)
      PROVE  v = u
  BY <1>4, StepAlone DEF IInv, Alone
<1>. QED
  BY <1>2, <1>3, <1>4 DEF Next

(* Nothing of what a copy or the validation looks for is missing           *)
LEMMA NoCommandFails ==
  ASSUME IInv, NEW u \in Updaters
  PROVE  /\ pc[u] \in {"bin", "lib", "ver"} => Has(target[u], "tree")
         /\ pc[u] \in {"sens", "sensver"} => Has(target[u], "sensdir")
         /\ pc[u] = "validate" => ValidFiles(target[u])
         /\ pc[u] = "lnedc" => edc = None
<1>1. pkg[u].core # Absent /\ pkg[u].sens # Absent
  BY OtaAssumption DEF IInv, TypeOK, Version, Absent
<1>2. Progress(u) /\ LinkState(u)
  BY DEF IInv
<1>. QED
  BY <1>1, <1>2 DEF Progress, LinkState, Has, ValidFiles, Switching,
       AfterTree, AfterBin, AfterLib, AfterVer, AfterSensdir, AfterSens, AfterSensver

(* A run ends by itself at the version check, where the active deployment  *)
(* has the release it downloaded, or after its last command                *)
LEMMA EndsAtCheckOrLink ==
  ASSUME IInv, NEW u \in Updaters, Step(u), pc'[u] = "idle"
  PROVE  (VersionCheck(u) /\ AlreadyLatest(u)) \/ MakeSenscordLink(u)
<1>. pc \in [Updaters -> PC]
  BY DEF IInv, TypeOK
<1>1. ASSUME \/ DownloadCore(u) \/ DownloadSensor(u) \/ DetectDeployment(u)
             \/ RemoveOne(u) \/ RemoveDone(u) \/ MakeTree(u)
             \/ RemoveEdcLink(u) \/ RemoveSenscordLink(u)
      PROVE  FALSE
  BY <1>1 DEF DownloadCore, DownloadSensor, DetectDeployment, RemoveOne, RemoveDone, MakeTree,
       RemoveEdcLink, RemoveSenscordLink, Goto, script
<1>2. ASSUME InstallCore(u) \/ InstallSensor(u)
      PROVE  FALSE
  BY <1>2, NoCommandFails DEF InstallCore, InstallSensor, ExtractSensor, PutFile, Goto, Exit
<1>3. ASSUME Validate(u) \/ MakeEdcLink(u)
      PROVE  FALSE
  BY <1>3, NoCommandFails DEF Validate, MakeEdcLink, Goto
<1>4. CASE VersionCheck(u)
  BY <1>4 DEF VersionCheck, Goto
<1>. QED
  BY <1>1, <1>2, <1>3, <1>4 DEF Step

(* A run that no fault interrupts ends with the core release it downloaded *)
(* complete behind /opt/edc, and behind both links when it installed,      *)
(* whatever earlier runs left behind                                       *)
THEOREM RunsDeliver ==
  Spec /\ []Serialized => RunDelivers
<1>. DEFINE Delivered(u) ==
       /\ edc' # None
       /\ Complete(edc)'
       /\ dir'[edc']["ver"] = pkg[u].core
       /\ pc[u] = "lnsens" => /\ senscord' = edc'
                              /\ dir'[edc']["sensver"] = pkg[u].sens
<1>1. Serialized /\ Serialized' /\ IInv /\ [Next]_vars => IInv'
  BY SafetyStep
<1>2. Serialized /\ IInv /\ IInv' /\ [Next]_vars =>
        [\A u \in Updaters :
           pc[u] # "idle" /\ pc'[u] = "idle" /\ events' = events => Delivered(u)]_vars
  <2>. SUFFICES ASSUME Serialized, IInv, IInv', Next, NEW u \in Updaters,
                       pc[u] # "idle", pc'[u] = "idle", events' = events
                PROVE  Delivered(u)
    OBVIOUS
  <2>1. Step(u)
    BY EndedByStep
  <2>2. edc' # None => Complete(edc)'
    BY DEF IInv, ActiveComplete
  <2>3. CASE VersionCheck(u) /\ AlreadyLatest(u)
    BY <2>2, <2>3 DEF VersionCheck, AlreadyLatest, Goto, disk
  <2>4. CASE MakeSenscordLink(u)
    <3>1. pc[u] = "lnsens" /\ UNCHANGED <<dir, edc>>
      BY <2>4 DEF MakeSenscordLink, Exit, Goto
    <3>2. edc = target[u] /\ senscord = None /\ target[u] \in Dir
      BY <3>1 DEF IInv, TypeOK, LinkState
    <3>3. /\ dir[target[u]]["ver"] = pkg[u].core
          /\ dir[target[u]]["sensver"] = pkg[u].sens
          /\ dir[target[u]]["sensdir"] = pkg[u].sens
      BY <3>1 DEF IInv, Progress,
       AfterTree, AfterBin, AfterLib, AfterVer, AfterSensdir, AfterSens, AfterSensver
    <3>4. pkg[u].sens # Absent
      BY OtaAssumption DEF IInv, TypeOK, Version, Absent
    <3>5. senscord' = target[u]
      BY <2>4, <3>2, <3>3, <3>4 DEF MakeSenscordLink, Has
    <3>6. edc' # None
      BY <3>1, <3>2 DEF Dir, DirA, DirB, None
    <3>. QED
      BY <2>2, <3>1, <3>2, <3>3, <3>5, <3>6
  <2>. QED
    BY <2>1, <2>3, <2>4, EndsAtCheckOrLink
<1>. QED
  BY <1>1, <1>2, InitSafe, PTL DEF Spec, RunDelivers

(* A directory has at most seven entries                                   *)
LEMMA PartBound ==
  ASSUME NEW S \in SUBSET Part
  PROVE  IsFiniteSet(S) /\ Cardinality(S) \in 0 .. 7
<1>. DEFINE number ==
       [p \in S |->
          CASE p = "tree" -> 1 [] p = "bin" -> 2  [] p = "lib" -> 3 [] p = "ver" -> 4
            [] p = "sensdir" -> 5 [] p = "sens" -> 6 [] OTHER -> 7]
<1>1. PICK n \in Nat : n = 7
  OBVIOUS
<1>2. number \in Injection(S, 1 .. n)
  <2>1. number \in [S -> 1 .. n]
    BY <1>1
  <2>2. \A p, q \in S : number[p] = number[q] => p = q
    BY DEF Part, CorePart, SensPart
  <2>. HIDE DEF number
  <2>. QED
    BY <2>1, <2>2 DEF Injection, IsInjective
<1>. HIDE DEF number
<1>3. IsFiniteSet(1 .. n) /\ Cardinality(1 .. n) = n
  <2>1. n >= 1
    BY <1>1
  <2>. QED
    BY <2>1, FS_Interval
<1>4. IsFiniteSet(S) /\ Cardinality(S) <= Cardinality(1 .. n)
  BY <1>2, <1>3, FS_Injection
<1>5. Cardinality(S) \in Nat
  BY <1>4, FS_CardinalityType
<1>. QED
  BY <1>1, <1>3, <1>4, <1>5

(* What is left of an interrupted run, before and after a step             *)
LEMMA LeftoverBound ==
  ASSUME NEW u \in Updaters
  PROVE  /\ IsFiniteSet(Leftover(u))
         /\ Cardinality(Leftover(u)) \in 0 .. 7
         /\ Cardinality(Leftover(u))' \in 0 .. 7
<1>1. Leftover(u) \in SUBSET Part /\ Leftover(u)' \in SUBSET Part
  BY DEF Leftover
<1>. QED
  BY <1>1, PartBound

(* No run has more than 24 commands left                                   *)
LEMMA RemainingBound ==
  ASSUME TypeOK, TypeOK', NEW u \in Updaters
  PROVE  Remaining(u) \in 0 .. 24 /\ Remaining(u)' \in 0 .. 24
<1>1. pc[u] \in PC /\ pc'[u] \in PC
  BY DEF TypeOK
<1>2. /\ Commands[pc[u]] \in 0 .. 24 /\ Commands[pc'[u]] \in 0 .. 24
      /\ pc[u] = "rmdir" => Commands[pc[u]] = 13
      /\ pc'[u] = "rmdir" => Commands[pc'[u]] = 13
  BY <1>1 DEF Commands, PC
<1>. QED
  BY <1>2, LeftoverBound DEF Remaining

(* "rm -rf" has one entry less to remove                                   *)
LEMMA OneEntryLess ==
  ASSUME IInv, NEW u \in Updaters, RemoveOne(u)
  PROVE  /\ pc[u] = "rmdir" /\ pc' = pc
         /\ Cardinality(Leftover(u))' < Cardinality(Leftover(u))
<1>1. PICK p \in Part : Has(target[u], p) /\ Install(target[u], p, Absent)
  BY DEF RemoveOne
<1>2. pc[u] = "rmdir" /\ UNCHANGED <<pc, target>>
  BY DEF RemoveOne, script
<1>3. \A q \in Part : dir'[target[u]][q] = IF q = p THEN Absent ELSE dir[target[u]][q]
  BY <1>1 DEF Install, IInv, TypeOK
<1>4. Leftover(u)' = Leftover(u) \ {p} /\ p \in Leftover(u)
  BY <1>1, <1>2, <1>3 DEF Leftover, Has
<1>5. IsFiniteSet(Leftover(u)) /\ Cardinality(Leftover(u)) \in Nat
  BY LeftoverBound
<1>6. Cardinality(Leftover(u) \ {p}) = Cardinality(Leftover(u)) - 1
  BY <1>4, <1>5, FS_RemoveElement
<1>. QED
  BY <1>2, <1>4, <1>5, <1>6

(* Every command brings its run nearer to its end                          *)
LEMMA CommandDone ==
  ASSUME IInv, TypeOK', NEW u \in Updaters, Step(u)
  PROVE  Remaining(u)' < Remaining(u)
<1>. DEFINE card == Cardinality(Leftover(u))
<1>1. card \in 0 .. 7
  BY LeftoverBound
<1>2. card' \in 0 .. 7
  BY LeftoverBound
<1>3. pc[u] \in PC /\ pc'[u] \in PC /\ pc \in [Updaters -> PC]
  BY DEF IInv, TypeOK
<1>4. CASE RemoveOne(u)
  BY <1>1, <1>2, <1>4, OneEntryLess DEF Remaining, Commands, PC
<1>. HIDE DEF card
<1>5. CASE DetectDeployment(u)
  <2>1. pc[u] = "detect" /\ pc'[u] = "rmdir"
    BY <1>3, <1>5 DEF DetectDeployment, Goto
  <2>. QED
    BY <1>2, <2>1 DEF Remaining, Commands, PC, card
<1>6. CASE ~RemoveOne(u) /\ ~DetectDeployment(u)
  <2>1. pc'[u] # "rmdir"
    BY <1>3, <1>6 DEF Step, DownloadCore, DownloadSensor, VersionCheck,
       RemoveDone, MakeTree, InstallCore, InstallSensor, ExtractSensor, PutFile,
       Validate, RemoveEdcLink, RemoveSenscordLink, MakeEdcLink, MakeSenscordLink, Goto, Exit
  <2>2. Commands[pc'[u]] < Commands[pc[u]]
    BY <1>3, <1>6 DEF Step, DownloadCore, DownloadSensor, VersionCheck,
       RemoveDone, MakeTree, InstallCore, InstallSensor, ExtractSensor, PutFile,
       Validate, RemoveEdcLink, RemoveSenscordLink, MakeEdcLink, MakeSenscordLink, Goto, Exit,
       Commands, PC
  <2>3. Commands[pc'[u]] \in Nat /\ Commands[pc[u]] \in Nat
    BY <1>3 DEF Commands, PC
  <2>. QED
    BY <1>1, <2>1, <2>2, <2>3 DEF Remaining, card
<1>. QED
  BY <1>4, <1>5, <1>6

(* A run of the script is finite: at most 24 commands, and whatever else   *)
(* happens meanwhile does not lengthen it                                  *)
THEOREM RunsEnd ==
  Spec /\ []Serialized => RunsBounded
<1>1. Serialized /\ Serialized' /\ IInv /\ [Next]_vars => IInv'
  BY SafetyStep
<1>2. Serialized /\ Serialized' /\ IInv /\ IInv' /\ [Next]_vars =>
        [\A u \in Updaters : pc[u] # "idle" =>
           /\ Remaining(u)' <= Remaining(u)
           /\ Step(u) => Remaining(u)' < Remaining(u)]_vars
  <2>. SUFFICES ASSUME Serialized, Serialized', IInv, IInv', Next,
                       NEW u \in Updaters, pc[u] # "idle"
                PROVE  /\ Remaining(u)' <= Remaining(u)
                       /\ Step(u) => Remaining(u)' < Remaining(u)
    OBVIOUS
  <2>1. Remaining(u) \in Nat /\ Remaining(u)' \in Nat
    BY RemainingBound DEF IInv
  <2>2. CASE Step(u)
    BY <2>1, <2>2, CommandDone DEF IInv
  <2>3. CASE pc'[u] = "idle"
    <3>1. Remaining(u)' = 0
      BY <2>3 DEF Remaining, Commands, PC
    <3>. QED
      BY <2>1, <2>2, <3>1
  <2>4. CASE UNCHANGED <<dir, pc, target>>
    <3>1. Remaining(u)' = Remaining(u)
      BY <2>4 DEF Remaining, Leftover, Has
    <3>. QED
      BY <2>1, <2>2, <3>1
  <2>5. CASE ServiceStart \/ DaemonFails \/ Reboot \/ Release
    BY <2>3, <2>4, <2>5 DEF ServiceStart, DaemonFails, Reboot, Release, disk, script
  <2>6. ASSUME NEW v \in Updaters, Start(v) \/ StartByHand(v)
        PROVE  FALSE
    BY <2>6 DEF Start, StartByHand, Goto, Serialized, IInv, TypeOK
  <2>7. ASSUME NEW v \in Updaters, ErrorExit(v)
        PROVE  UNCHANGED <<dir, target>> /\ (pc'[u] = "idle" \/ pc'[u] = pc[u])
    BY <2>7 DEF ErrorExit, disk, IInv, TypeOK
  <2>8. ASSUME NEW v \in Updaters, Step(v)
        PROVE  v = u
    BY <2>8, StepAlone DEF IInv, Alone
  <2>9. ASSUME NEW v \in Updaters, ErrorExit(v)
        PROVE  Remaining(u)' <= Remaining(u) /\ (Step(u) => Remaining(u)' < Remaining(u))
    <3>1. CASE pc'[u] = "idle"
      BY <2>3, <3>1
    <3>2. CASE pc'[u] = pc[u]
      <4>1. Remaining(u)' = Remaining(u)
        BY <2>7, <2>9, <3>2 DEF Remaining, Leftover, Has
      <4>. QED
        BY <2>1, <2>2, <4>1
    <3>. QED
      BY <2>7, <2>9, <3>1, <3>2
  <2>. QED
    BY <2>2, <2>5, <2>6, <2>8, <2>9 DEF Next
<1>. QED
  BY <1>1, <1>2, InitSafe, PTL DEF Spec, RunsBounded

-----------------------------------------------------------------------------
(* The refinement of BlueGreen                                             *)

(* From the end of rm -rf to the last file the target has no sensor version *)
Unfinished == {"mkdir", "bin", "lib", "ver", "sensdir", "sens", "sensver"}
Missing == \A u \in Updaters : pc[u] \in Unfinished => ~Has(target[u], "sensver")

Writes(u) == RemoveOne(u) \/ MakeTree(u) \/ InstallCore(u) \/ InstallSensor(u)

(* A command that does not write to a directory                            *)
LEMMA OtherCommands ==
  ASSUME NEW u \in Updaters, Step(u), ~Writes(u)
  PROVE  dir' = dir
BY DEF Step, Writes, DownloadCore, DownloadSensor, VersionCheck, DetectDeployment,
       RemoveDone, Validate, RemoveEdcLink, RemoveSenscordLink, MakeEdcLink,
       MakeSenscordLink, disk

(* A command that writes does so in its target, beside the active          *)
(* deployment, and the target lacks a part before or after it              *)
LEMMA WriteStep ==
  ASSUME IInv, Missing, NEW u \in Updaters, Writes(u)
  PROVE  /\ edc' = edc /\ target' = target
         /\ target[u] \in Dir /\ target[u] # edc
         /\ \A d \in Dir : d # target[u] => dir'[d] = dir[d]
         /\ ~Complete(target[u]) \/ ~Complete(target[u])'
<1>1. pc[u] \in Building
  BY DEF Writes, RemoveOne, MakeTree, InstallCore, InstallSensor, ExtractSensor,
       PutFile, Goto, Building, Switching,
       AfterTree, AfterBin, AfterLib, AfterVer, AfterSensdir, AfterSens, AfterSensver
<1>2. target[u] \in Dir /\ target[u] # edc
  BY <1>1, TargetNotActive
<1>3. edc' = edc /\ target' = target
  BY DEF Writes, RemoveOne, MakeTree, InstallCore, InstallSensor, ExtractSensor, PutFile, script
<1>4. ASSUME NEW d \in Dir, d # target[u] PROVE dir'[d] = dir[d]
  BY <1>4 DEF Writes, RemoveOne, MakeTree, InstallCore, InstallSensor, ExtractSensor,
       PutFile, Install, IInv, TypeOK
<1>5. CASE RemoveOne(u)
  <2>1. PICK p \in Part : Install(target[u], p, Absent)
    BY <1>5 DEF RemoveOne
  <2>2. dir'[target[u]][p] = Absent
    BY <1>2, <2>1 DEF Install, IInv, TypeOK
  <2>3. ~Complete(target[u])'
    BY <1>3, <2>2 DEF Complete, Has
  <2>. QED
    BY <1>2, <1>3, <1>4, <2>3
<1>6. CASE ~RemoveOne(u)
  <2>1. pc[u] \in Unfinished
    BY <1>6 DEF Writes, MakeTree, InstallCore, InstallSensor, ExtractSensor, PutFile, Goto,
         Unfinished
  <2>2. ~Complete(target[u])
    BY <2>1 DEF Missing, Complete, Part, SensPart
  <2>. QED
    BY <1>2, <1>3, <1>4, <2>2
<1>. QED
  BY <1>5, <1>6

(* A script reaches the first unfinished command only with an empty target *)
LEMMA MissingStep ==
  Serialized /\ Serialized' /\ IInv /\ Missing /\ [Next]_vars => Missing'
<1>. SUFFICES ASSUME Serialized, Serialized', IInv, Missing, [Next]_vars, NEW u \in Updaters,
                     pc'[u] \in Unfinished
              PROVE  ~Has(target[u], "sensver")'
  BY DEF Missing
<1>. USE DEF Unfinished, Has
<1>1. ASSUME NEW v \in Updaters, Step(v) PROVE ~Has(target[u], "sensver")'
  <2>1. v = u
    BY <1>1, StepAlone DEF IInv, Alone, Unfinished
  <2>2. CASE RemoveDone(u)
    BY <2>2 DEF RemoveDone, disk, Part, SensPart
  <2>3. CASE MakeTree(u) \/ InstallCore(u) \/ ExtractSensor(u)
    <3>1. pc[u] \in Unfinished /\ target' = target
      BY <2>3 DEF MakeTree, InstallCore, ExtractSensor, PutFile, Goto
    <3>2. dir'[target[u]]["sensver"] = dir[target[u]]["sensver"]
      BY <2>3 DEF MakeTree, InstallCore, ExtractSensor, PutFile, Install, IInv, TypeOK,
           Part, SensPart, CorePart
    <3>. QED
      BY <3>1, <3>2 DEF Missing
  <2>4. CASE PutFile(u, "sens", "sensdir", pkg[u].sens, "sensver")
    <3>1. pc[u] = "sens" /\ target' = target
      BY <2>4 DEF PutFile
    <3>2. dir'[target[u]]["sensver"] = dir[target[u]]["sensver"]
      <4>1. dir' = dir \/ dir' = [dir EXCEPT ![target[u]]["sens"] = pkg[u].sens]
        BY <2>4 DEF PutFile, Install
      <4>. QED
        BY <4>1 DEF IInv, TypeOK, Part, SensPart
    <3>. QED
      BY <3>1, <3>2 DEF Missing
  <2>5. CASE \/ PutFile(u, "sensver", "sensdir", pkg[u].sens, "validate")
             \/ RemoveOne(u) \/ DownloadCore(u) \/ DownloadSensor(u) \/ VersionCheck(u)
             \/ DetectDeployment(u) \/ Validate(u) \/ RemoveEdcLink(u)
             \/ RemoveSenscordLink(u) \/ MakeEdcLink(u) \/ MakeSenscordLink(u)
    <3>1. pc'[u] \notin Unfinished
      BY <2>5 DEF PutFile, RemoveOne, DownloadCore, DownloadSensor, VersionCheck,
           DetectDeployment, Validate, RemoveEdcLink, RemoveSenscordLink, MakeEdcLink,
           MakeSenscordLink, Goto, Exit, script, IInv, TypeOK
    <3>. QED
      BY <3>1
  <2>. QED
    BY <1>1, <2>1, <2>2, <2>3, <2>4, <2>5 DEF Step, InstallSensor
<1>2. ASSUME NEW v \in Updaters, Start(v) \/ StartByHand(v) \/ ErrorExit(v)
      PROVE  ~Has(target[u], "sensver")'
  <2>1. pc'[u] \in {"idle", "dlcore"}
    BY <1>2 DEF Start, StartByHand, ErrorExit, Goto, IInv, TypeOK, Serialized
  <2>2. pc'[u] \notin Unfinished
    BY <2>1
  <2>. QED
    BY <2>2
<1>3. CASE Reboot
  BY <1>3 DEF Reboot
<1>4. CASE ServiceStart \/ DaemonFails \/ Release \/ UNCHANGED vars
  <2>1. UNCHANGED <<pc, target, dir>>
    BY <1>4 DEF ServiceStart, DaemonFails, Release, vars, script, disk
  <2>. QED
    BY <2>1 DEF Missing
<1>. QED
  BY <1>1, <1>2, <1>3, <1>4 DEF Next

(* The same as functions of the content of the disk                        *)
Whole(f) ==
  /\ \A p \in Part : f[p] # Absent
  /\ \A p \in CorePart : f[p] = f["ver"]
  /\ \A p \in SensPart : f[p] = f["sensver"]
Rel(f) == [core |-> f["ver"], sens |-> f["sensver"]]
KeptOf(content) == {Rel(content[d]) : d \in {x \in Dir : Whole(content[x])}}

(* The refinement mapping in these terms, now and after a step             *)
LEMMA Mapping ==
  /\ Kept = KeptOf(dir) /\ Kept' = KeptOf(dir')
  /\ Active = {Rel(dir[d]) : d \in Dir \cap {edc}}
  /\ Active' = {Rel(dir'[d]) : d \in Dir \cap {edc'}}
  /\ \A d \in Dir : Complete(d) <=> Whole(dir[d])
  /\ \A d \in Dir : Complete(d)' <=> Whole(dir'[d])
BY DEF Kept, KeptOf, Active, ReleaseOf, Rel, Complete, Has, Whole

(* A complete directory holds a release                                    *)
LEMMA WholeRelease ==
  ASSUME NEW content \in [Dir -> [Part -> Version \cup {Absent}]], NEW d \in Dir,
         Whole(content[d])
  PROVE  Rel(content[d]) \in [core : Version, sens : Version]
BY DEF Whole, Rel, Part, CorePart, SensPart

(* Changing one directory finishes or discards at most one release         *)
LEMMA KeptChange ==
  ASSUME NEW f, NEW g, NEW t \in Dir, \A d \in Dir : d # t => g[d] = f[d]
  PROVE  /\ ~Whole(f[t]) /\ ~Whole(g[t]) => KeptOf(g) = KeptOf(f)
         /\ ~Whole(f[t]) /\ Whole(g[t]) => KeptOf(g) = KeptOf(f) \cup {Rel(g[t])}
         /\ Whole(f[t]) /\ ~Whole(g[t]) =>
              KeptOf(g) = KeptOf(f) \/ KeptOf(g) = KeptOf(f) \ {Rel(f[t])}
<1>1. PICK o \in Dir : o # t /\ Dir = {o, t} /\ g[o] = f[o]
  BY DEF Dir, DirA, DirB
<1>2. KeptOf(f) = (IF Whole(f[o]) THEN {Rel(f[o])} ELSE {})
                  \cup (IF Whole(f[t]) THEN {Rel(f[t])} ELSE {})
  BY <1>1 DEF KeptOf
<1>3. KeptOf(g) = (IF Whole(f[o]) THEN {Rel(f[o])} ELSE {})
                  \cup (IF Whole(g[t]) THEN {Rel(g[t])} ELSE {})
  BY <1>1 DEF KeptOf
<1>4. CASE Whole(f[o])
  BY <1>2, <1>3, <1>4
<1>5. CASE ~Whole(f[o])
  BY <1>2, <1>3, <1>5
<1>. QED
  BY <1>4, <1>5

(* Writing to one directory that is not active finishes or discards one    *)
(* release                                                                 *)
LEMMA OneDirectory ==
  ASSUME TypeOK, TypeOK', ActiveComplete, edc' = edc, NEW t \in Dir, t # edc,
         \A d \in Dir : d # t => dir'[d] = dir[d],
         ~Complete(t) \/ ~Complete(t)',
         ~UNCHANGED <<Active, Kept>>
  PROVE  BG!Next
<1>1. Active' = Active
  BY Mapping
<1>2. Kept' # Kept
  BY <1>1
<1>3. Complete(t) <=> Whole(dir[t])
  BY Mapping
<1>4. Complete(t)' <=> Whole(dir'[t])
  BY Mapping
<1>5. CASE Whole(dir'[t])
  <2>1. Rel(dir'[t]) \in [core : Version, sens : Version]
    BY <1>5, WholeRelease DEF TypeOK
  <2>2. Kept' = Kept \cup {Rel(dir'[t])}
    BY <1>3, <1>4, <1>5, KeptChange, Mapping
  <2>. QED
    BY <1>1, <2>1, <2>2 DEF BG!Next, BG!Finish
<1>6. CASE ~Whole(dir'[t])
  <2>1. Whole(dir[t])
    BY <1>2, <1>6, KeptChange, Mapping
  <2>2. Kept' = Kept \ {Rel(dir[t])}
    BY <1>2, <1>6, <2>1, KeptChange, Mapping
  <2>3. Rel(dir[t]) \in [core : Version, sens : Version]
    BY <2>1, WholeRelease DEF TypeOK
  <2>4. Active \subseteq Kept'
    <3>. SUFFICES ASSUME NEW r \in Active PROVE r \in Kept'
      OBVIOUS
    <3>1. edc \in Dir /\ r = Rel(dir[edc])
      BY Mapping
    <3>2. Complete(edc) /\ dir'[edc] = dir[edc]
      BY <3>1 DEF ActiveComplete, Dir, None, DirA, DirB
    <3>3. Whole(dir'[edc])
      BY <3>1, <3>2, Mapping
    <3>. QED
      BY <3>1, <3>2, <3>3, Mapping DEF KeptOf
  <2>5. Rel(dir[t]) \notin Active
    BY <2>2, <2>4
  <2>. QED
    BY <1>1, <2>2, <2>3, <2>5 DEF BG!Next, BG!Discard
<1>. QED
  BY <1>5, <1>6

(* Changing the link withdraws a release or activates the newest one       *)
LEMMA LinkStep ==
  ASSUME IInv, IInv', Next, dir' = dir, ~UNCHANGED <<Active, Kept>>
  PROVE  BG!Next
<1>1. Kept' = Kept /\ \A d \in Dir : ReleaseOf(d)' = ReleaseOf(d)
  BY DEF Kept, ReleaseOf, Complete, Has
<1>2. edc' # edc
  BY <1>1 DEF Active
<1>3. CASE edc' = None
  <2>1. Active' = {}
    BY <1>3 DEF Active, Dir, None, DirA, DirB
  <2>. QED
    BY <1>1, <2>1 DEF BG!Next, BG!Withdraw
<1>4. CASE edc' # None
  <2>1. PICK u \in Updaters : MakeEdcLink(u)
    BY <1>2, <1>4 DEF Next, Start, StartByHand, Step, ErrorExit, DownloadCore, DownloadSensor,
         VersionCheck, DetectDeployment, RemoveOne, RemoveDone, MakeTree, InstallCore,
         InstallSensor, ExtractSensor, PutFile, Validate, RemoveEdcLink,
         RemoveSenscordLink, MakeSenscordLink, ServiceStart, DaemonFails, Reboot,
         Release, disk
  <2>2. pc[u] = "lnedc" /\ edc = None /\ edc' = target[u] /\ target[u] \in Dir
    BY <1>2, <2>1 DEF MakeEdcLink, Goto, IInv, TypeOK
  <2>. DEFINE r == ReleaseOf(target[u])
  <2>3. Active = {} /\ Active' = {r}
    BY <1>1, <2>2 DEF Active, Dir, None, DirA, DirB
  <2>4. Complete(target[u])
    <3>1. Complete(edc)'
      BY <1>4 DEF IInv, ActiveComplete
    <3>. QED
      BY <2>2, <3>1 DEF Complete, Has
  <2>5. r \in Kept
    BY <2>2, <2>4 DEF Kept
  <2>6. r \in [core : Version, sens : Version]
    BY <2>2, <2>4, WholeRelease, Mapping DEF IInv, TypeOK, ReleaseOf, Rel
  <2>7. \A d \in Dir : dir[d]["ver"] <= dir[target[u]]["ver"]
    BY <2>2 DEF IInv, Progress, NoneNewer, Downloaded, Building, Switching,
         AfterTree, AfterBin, AfterLib, AfterVer, AfterSensdir, AfterSens, AfterSensver
  <2>8. \A q \in Kept : q.core <= r.core
    BY <2>7 DEF Kept, ReleaseOf
  <2>9. BG!Switch(r)
    BY <1>1, <2>3, <2>5, <2>8 DEF BG!Switch
  <2>. QED
    BY <2>6, <2>9 DEF BG!Next
<1>. QED
  BY <1>3, <1>4

(* When its runs do not overlap the script implements the abstract           *)
(* blue-green update, for any number of releases, faults and runs          *)
THEOREM BlueGreenRefined ==
  Spec /\ []Serialized => BlueGreenImplemented
<1>1. Init => BG!Init /\ Missing
  BY DEF Init, BG!Init, Active, Kept, Missing, Unfinished, Complete, Has, Part, Dir, None,
       DirA, DirB, Absent
<1>2. Serialized /\ Serialized' /\ IInv /\ [Next]_vars => IInv'
  BY SafetyStep
<1>3. Serialized /\ Serialized' /\ IInv /\ Missing /\ [Next]_vars => Missing'
  BY MissingStep
<1>4. IInv /\ IInv' /\ Missing /\ [Next]_vars => [BG!Next]_(<<Active, Kept>>)
  <2>. SUFFICES ASSUME IInv, IInv', Missing, [Next]_vars, ~UNCHANGED <<Active, Kept>>
                PROVE  BG!Next
    OBVIOUS
  <2>1. ASSUME NEW u \in Updaters, Writes(u) PROVE BG!Next
    BY <2>1, WriteStep, OneDirectory DEF IInv
  <2>2. CASE dir' = dir /\ Next
    BY <2>2, LinkStep
  <2>3. ASSUME NEW u \in Updaters, Start(u) \/ StartByHand(u) \/ ErrorExit(u)
        PROVE  dir' = dir
    BY <2>3 DEF Start, StartByHand, ErrorExit, disk
  <2>4. CASE ServiceStart \/ DaemonFails \/ Reboot \/ Release \/ UNCHANGED vars
    <3>1. UNCHANGED <<dir, edc>>
      BY <2>4 DEF ServiceStart, DaemonFails, Reboot, Release, vars, disk
    <3>. QED
      BY <3>1 DEF Active, Kept, ReleaseOf, Complete, Has
  <2>. QED
    BY <2>1, <2>2, <2>3, <2>4, OtherCommands DEF Next
<1>. QED
  BY <1>1, <1>2, <1>3, <1>4, InitSafe, PTL DEF Spec, BlueGreenImplemented, BG!Spec

=============================================================================
