----------------------------- MODULE OtaUpdate -----------------------------
(***************************************************************************)
(* The blue-green update of samples/ota/edc_system_update.sh, the service  *)
(* unit that runs the daemon through /opt/edc, and the failures a device   *)
(* meets between two commands of the script: power loss, a killed script,  *)
(* a command that fails under "set -e", a daemon that dies.                *)
(*                                                                         *)
(* One action per command of the script that changes a file, a link or a   *)
(* decision.  Nothing in the script takes a lock, so several updaters (a   *)
(* cron job, an OTA request) may run at once: Updaters is a parameter.     *)
(***************************************************************************)
EXTENDS Naturals, FiniteSets

CONSTANTS
  Updaters,     \* runs of the script that may be in progress at once
  Cron,         \* TRUE: the cron job of the OTA README starts the script;
                \* FALSE: only a running daemon does (PRIVATE_deploy_firmware)
  MaxVersion,   \* bound on the releases published
  MaxEvents     \* bound on reboots, killed scripts, failed commands, dead
                \* daemons and runs by hand

ASSUME OtaAssumption ==
  /\ Cron \in BOOLEAN
  /\ MaxVersion \in Nat \ {0}
  /\ MaxEvents \in Nat

DirA == "edcA"
DirB == "edcB"
Dir == {DirA, DirB}
None == "none"

Version == 1 .. MaxVersion
Absent == 0

(* What a deployment directory holds.  "tree" is the directory itself with *)
(* bin/ and lib/; opt/senscord exists ("sensdir") before it is filled.     *)
CorePart == {"bin", "lib", "ver"}
SensPart == {"sensdir", "sens", "sensver"}
Part == {"tree"} \cup CorePart \cup SensPart

PC == {"idle", "dlcore", "dlsens", "check", "detect", "rmdir", "mkdir",
       "bin", "lib", "ver", "sensdir", "sens", "sensver", "validate",
       "rmedc", "rmsens", "lnedc", "lnsens"}

VARIABLES
  dir,       \* dir[d][p]: version of part p in directory d, or Absent
  edc,       \* target of the link /opt/edc, or None
  senscord,  \* deployment the link /opt/senscord points into, or None
  latest,    \* latest release of the core and of the sensor repository
  running,   \* deployment the daemon was started from, or None
  pc,        \* next command of each updater
  force,     \* --force was given
  pkg,       \* versions of the packages an updater has downloaded
  target,    \* target_deployment of an updater
  events     \* events, of those MaxEvents bounds, still to happen

disk == <<dir, edc, senscord>>
script == <<pc, force, pkg, target>>
vars == <<disk, script, latest, running, events>>

TypeOK ==
  /\ dir \in [Dir -> [Part -> Version \cup {Absent}]]
  /\ edc \in Dir \cup {None}
  /\ senscord \in Dir \cup {None}
  /\ latest \in [core : Version, sens : Version]
  /\ running \in Dir \cup {None}
  /\ pc \in [Updaters -> PC]
  /\ force \in [Updaters -> BOOLEAN]
  /\ pkg \in [Updaters -> [core : Version, sens : Version]]
  /\ target \in [Updaters -> Dir]
  /\ events \in 0 .. MaxEvents

(* A fresh device: no deployment, no link, no script running.              *)
Init ==
  /\ dir = [d \in Dir |-> [p \in Part |-> Absent]]
  /\ edc = None
  /\ senscord = None
  /\ latest = [core |-> 1, sens |-> 1]
  /\ running = None
  /\ pc = [u \in Updaters |-> "idle"]
  /\ force = [u \in Updaters |-> FALSE]
  /\ pkg = [u \in Updaters |-> [core |-> 1, sens |-> 1]]
  /\ target = [u \in Updaters |-> DirA]
  /\ events = MaxEvents

Has(d, p) == dir[d][p] # Absent

(* Every file of the deployment is there and each package is of one release *)
Complete(d) ==
  /\ \A p \in Part : Has(d, p)
  /\ \A p \in CorePart : dir[d][p] = dir[d]["ver"]
  /\ \A p \in SensPart : dir[d][p] = dir[d]["sensver"]

Goto(u, from, to) == pc[u] = from /\ pc' = [pc EXCEPT ![u] = to]
Exit(u, from) == Goto(u, from, "idle")
Event == events > 0 /\ events' = events - 1

-----------------------------------------------------------------------------
(* The script                                                              *)

(* main: options, check_root, check_requirements and the OS update, none of *)
(* which touches a deployment.  Cron and the daemon's OTA handling start the *)
(* script without options.                                                 *)
Start(u) ==
  /\ Cron \/ running # None
  /\ Goto(u, "idle", "dlcore")
  /\ force' = [force EXCEPT ![u] = FALSE]
  /\ UNCHANGED <<disk, pkg, target, latest, running, events>>

(* The first installation, and any later run, by hand                      *)
StartByHand(u) ==
  /\ Event
  /\ Goto(u, "idle", "dlcore")
  /\ \E f \in BOOLEAN : force' = [force EXCEPT ![u] = f]
  /\ UNCHANGED <<disk, pkg, target, latest, running>>

(* Mutant: release information that was cached earlier                     *)
DownloadCoreCached(u) ==
  /\ Goto(u, "dlcore", "dlsens")
  /\ \E v \in 1 .. latest.core : pkg' = [pkg EXCEPT ![u].core = v]
  /\ UNCHANGED <<disk, force, target, latest, running, events>>

(* download_core_packages, and the version read from the package (528)     *)
DownloadCore(u) ==
  /\ Goto(u, "dlcore", "dlsens")
  /\ pkg' = [pkg EXCEPT ![u].core = latest.core]
  /\ UNCHANGED <<disk, force, target, latest, running, events>>

(* Mutant: a release published meanwhile sends the script back             *)
DownloadSensorAgain(u) ==
  /\ Goto(u, "dlsens", IF pkg[u].core = latest.core THEN "check" ELSE "dlcore")
  /\ pkg' = [pkg EXCEPT ![u].sens = latest.sens]
  /\ UNCHANGED <<disk, force, target, latest, running, events>>

(* download_sensor_package: a second request, to another repository        *)
DownloadSensor(u) ==
  /\ Goto(u, "dlsens", "check")
  /\ pkg' = [pkg EXCEPT ![u].sens = latest.sens]
  /\ UNCHANGED <<disk, force, target, latest, running, events>>

(* Mutants: a version file of any release counts as the latest; a missing  *)
(* /opt/edc does                                                           *)
AlreadyLatestIfAny(u) == ~force[u] /\ edc # None
AlreadyLatestIfNone(u) == ~force[u] /\ (edc # None => dir[edc]["ver"] = pkg[u].core)

(* The version check compares the core package with /opt/edc/version_edc.txt *)
AlreadyLatest(u) ==
  /\ ~force[u]
  /\ edc # None
  /\ dir[edc]["ver"] = pkg[u].core

VersionCheck(u) ==
  /\ Goto(u, "check", IF AlreadyLatest(u) THEN "idle" ELSE "detect")
  /\ UNCHANGED <<disk, force, pkg, target, latest, running, events>>

(* Mutants: no default for a device without a deployment; no alternation   *)
TargetWithoutDefault(current) ==
  IF current = DirA THEN DirB ELSE IF current = DirB THEN DirA ELSE current
TargetAlwaysA(current) == DirA

(* get_target_deployment(detect_current_deployment())                      *)
TargetOf(current) == IF current = DirA THEN DirB ELSE DirA

(* Mutant: the current deployment is read from the other link              *)
DetectBySenscord(u) ==
  /\ Goto(u, "detect", "rmdir")
  /\ target' = [target EXCEPT ![u] = TargetOf(senscord)]
  /\ UNCHANGED <<disk, force, pkg, latest, running, events>>

DetectDeployment(u) ==
  /\ Goto(u, "detect", "rmdir")
  /\ target' = [target EXCEPT ![u] = TargetOf(edc)]
  /\ UNCHANGED <<disk, force, pkg, latest, running, events>>

Install(d, p, v) == dir' = [dir EXCEPT ![d][p] = v]

(* rm -rf removes one entry after the other, the directory itself last     *)
RemoveOne(u) ==
  /\ pc[u] = "rmdir"
  /\ \E p \in Part :
       /\ Has(target[u], p)
       /\ p = "tree" => \A q \in Part \ {p} : ~Has(target[u], q)
       /\ Install(target[u], p, Absent)
  /\ UNCHANGED <<edc, senscord, script, latest, running, events>>

RemoveDone(u) ==
  /\ \A p \in Part : ~Has(target[u], p)
  /\ Goto(u, "rmdir", "mkdir")
  /\ UNCHANGED <<disk, force, pkg, target, latest, running, events>>

MakeTree(u) ==
  /\ Goto(u, "mkdir", "bin")
  /\ Install(target[u], "tree", pkg[u].core)
  /\ UNCHANGED <<edc, senscord, force, pkg, target, latest, running, events>>

(* One file of a package arrives under the target; a missing parent        *)
(* directory fails the command, and "set -e" ends the script.              *)
PutFile(u, p, parent, v, next) ==
  /\ pc[u] = p
  /\ IF Has(target[u], parent)
     THEN /\ Install(target[u], p, v)
          /\ Goto(u, p, next)
     ELSE /\ UNCHANGED dir
          /\ Exit(u, p)
  /\ UNCHANGED <<edc, senscord, force, pkg, target, latest, running, events>>

InstallCore(u) ==
  \/ PutFile(u, "bin", "tree", pkg[u].core, "lib")
  \/ PutFile(u, "lib", "tree", pkg[u].core, "ver")
  \/ PutFile(u, "ver", "tree", pkg[u].core, "sensdir")

(* dpkg-deb -x creates what it needs, so its first step has no parent      *)
ExtractSensor(u) ==
  /\ Goto(u, "sensdir", "sens")
  /\ dir' = [dir EXCEPT ![target[u]] =
               [p \in Part |-> IF p = "sensdir" \/ (p = "tree" /\ @[p] = Absent)
                              THEN pkg[u].sens ELSE @[p]]]
  /\ UNCHANGED <<edc, senscord, force, pkg, target, latest, running, events>>

InstallSensor(u) ==
  \/ ExtractSensor(u)
  \/ PutFile(u, "sens", "sensdir", pkg[u].sens, "sensver")
  \/ PutFile(u, "sensver", "sensdir", pkg[u].sens, "validate")

(* The files validate_installation looks for                               *)
ValidFiles(d) == \A p \in {"bin", "lib", "sensdir"} : Has(d, p)

Validate(u) ==
  /\ Goto(u, "validate", IF ValidFiles(target[u]) THEN "rmedc" ELSE "idle")
  /\ UNCHANGED <<disk, force, pkg, target, latest, running, events>>

RemoveEdcLink(u) ==
  /\ Goto(u, "rmedc", "rmsens")
  /\ edc' = None
  /\ UNCHANGED <<dir, senscord, force, pkg, target, latest, running, events>>

(* Mutant: the old /opt/senscord stays                                     *)
KeepSenscordLink(u) ==
  /\ Goto(u, "rmsens", "lnedc")
  /\ UNCHANGED <<disk, force, pkg, target, latest, running, events>>

RemoveSenscordLink(u) ==
  /\ Goto(u, "rmsens", "lnedc")
  /\ senscord' = None
  /\ UNCHANGED <<dir, edc, force, pkg, target, latest, running, events>>

(* ln -s onto a link that another updater has made meanwhile: when the link *)
(* leads to a directory the new link is created inside it and ln succeeds, *)
(* when it dangles ln fails.                                               *)
MakeEdcLink(u) ==
  /\ Goto(u, "lnedc",
          IF edc # None /\ ~Has(edc, "tree") THEN "idle" ELSE "lnsens")
  /\ edc' = IF edc = None THEN target[u] ELSE edc
  /\ UNCHANGED <<dir, senscord, force, pkg, target, latest, running, events>>

MakeSenscordLink(u) ==
  /\ Exit(u, "lnsens")
  /\ senscord' = IF Has(target[u], "sensdir") /\ senscord = None
                 THEN target[u] ELSE senscord
  /\ UNCHANGED <<dir, edc, force, pkg, target, latest, running, events>>

Step(u) ==
  \/ DownloadCore(u) \/ DownloadSensor(u) \/ VersionCheck(u)
  \/ DetectDeployment(u) \/ RemoveOne(u) \/ RemoveDone(u) \/ MakeTree(u)
  \/ InstallCore(u) \/ InstallSensor(u) \/ Validate(u)
  \/ RemoveEdcLink(u) \/ RemoveSenscordLink(u)
  \/ MakeEdcLink(u) \/ MakeSenscordLink(u)

-----------------------------------------------------------------------------
(* The script's environment                                                *)

(* error_exit, "set -e" or a signal: the script ends before its next       *)
(* command; cleanup only removes its directory under /tmp.                 *)
ErrorExit(u) ==
  /\ Event
  /\ pc[u] # "idle"
  /\ pc' = [pc EXCEPT ![u] = "idle"]
  /\ UNCHANGED <<disk, force, pkg, target, latest, running>>

(* edge-device-core.service: ExecStart and Restart=on-failure resolve      *)
(* /opt/edc at every start                                                 *)
ServiceStart ==
  /\ running = None
  /\ edc # None
  /\ Has(edc, "bin")
  /\ running' = edc
  /\ UNCHANGED <<disk, script, latest, events>>

DaemonFails ==
  /\ Event
  /\ running # None
  /\ running' = None
  /\ UNCHANGED <<disk, script, latest>>

Reboot ==
  /\ Event
  /\ running' = None
  /\ pc' = [u \in Updaters |-> "idle"]
  /\ UNCHANGED <<disk, force, pkg, target, latest>>

Release ==
  /\ \/ /\ latest.core < MaxVersion
        /\ latest' = [latest EXCEPT !.core = @ + 1]
     \/ /\ latest.sens < MaxVersion
        /\ latest' = [latest EXCEPT !.sens = @ + 1]
  /\ UNCHANGED <<disk, script, running, events>>

Next ==
  \/ \E u \in Updaters : Start(u) \/ StartByHand(u) \/ Step(u) \/ ErrorExit(u)
  \/ ServiceStart \/ DaemonFails \/ Reboot \/ Release

Spec == Init /\ [][Next]_vars

(* A script that runs goes on, cron (or the daemon's OTA request) starts it *)
(* again, and systemd keeps trying to start the service (RestartSec=5 stays *)
(* below the start limit).  Faults and releases are not promised.          *)
Fairness ==
  /\ \A u \in Updaters : WF_vars(Start(u)) /\ WF_vars(Step(u))
  /\ WF_vars(ServiceStart)

FairSpec == Spec /\ Fairness

-----------------------------------------------------------------------------
(* Properties                                                              *)

(* Whatever command the script was stopped at, /opt/edc never leads to a   *)
(* deployment that lacks a file or mixes two releases: create_deployment_  *)
(* structure, the installs and validate_installation all work on the       *)
(* directory the link does not name.                                       *)
ActiveComplete == edc # None => Complete(edc)

(* When both links exist they name the same deployment, although           *)
(* update_symbolic_link replaces them with four separate commands.         *)
LinksAgree == edc # None /\ senscord # None => senscord = edc

(* Once an update has been switched on, some complete deployment is on the *)
(* disk ever after, in particular when a crash has removed /opt/edc and    *)
(* get_target_deployment falls back to edcA.                               *)
RollbackKept == [](edc # None => [](\E d \in Dir : Complete(d)))

(* /opt/edc is never made to name a deployment older than one that is      *)
(* complete on the disk: no sequence of crashed runs switches back.        *)
NeverSwitchedBack ==
  [][edc = None /\ edc' # None =>
       \A d \in Dir : Complete(d) => dir[d]["ver"] <= dir'[edc']["ver"]]_vars

(* A step leaves the files of the deployment /opt/edc names as they are    *)
(* (samples/ota/README.md: "Installation to alternate directory ensures    *)
(* current deployment remains intact").                                    *)
ActiveUntouched == [][edc # None => dir'[edc] = dir[edc]]_vars

ReleaseOf(d) == [core |-> dir[d]["ver"], sens |-> dir[d]["sensver"]]
Active == {ReleaseOf(d) : d \in Dir \cap {edc}}
Kept == {ReleaseOf(d) : d \in {x \in Dir : Complete(x)}}

BG == INSTANCE BlueGreen WITH
        Releases <- [core : Version, sens : Version], active <- Active, kept <- Kept

(* The commands of the script, stopped anywhere and run again, implement   *)
(* the abstract blue-green update: each of them makes one whole release    *)
(* available, discards one that is not active, withdraws the active one,   *)
(* activates the newest one, or changes nothing a user of /opt/edc sees.   *)
BlueGreenImplemented == BG!Spec

(* A run that no fault interrupts ends with the core release it downloaded *)
(* complete behind /opt/edc, and a run that installed leaves /opt/senscord *)
(* on the same deployment, with the sensor release it downloaded: no       *)
(* command fails for what the commands before it, or the faults of earlier *)
(* runs, left on the disk.                                                 *)
RunDelivers ==
  [][\A u \in Updaters :
       pc[u] # "idle" /\ pc'[u] = "idle" /\ events' = events =>
         /\ edc' # None
         /\ Complete(edc)'
         /\ dir'[edc']["ver"] = pkg[u].core
         /\ pc[u] = "lnsens" => /\ senscord' = edc'
                                /\ dir'[edc']["sensver"] = pkg[u].sens]_vars

(* Commands a run still has to execute, at most                            *)
Commands ==
  [c \in PC |->
     CASE c = "idle" -> 0     [] c = "lnsens" -> 1  [] c = "lnedc" -> 2
       [] c = "rmsens" -> 3   [] c = "rmedc" -> 4   [] c = "validate" -> 5
       [] c = "sensver" -> 6  [] c = "sens" -> 7    [] c = "sensdir" -> 8
       [] c = "ver" -> 9      [] c = "lib" -> 10    [] c = "bin" -> 11
       [] c = "mkdir" -> 12   [] c = "rmdir" -> 13  [] c = "detect" -> 21
       [] c = "check" -> 22   [] c = "dlsens" -> 23 [] OTHER -> 24]

Leftover(u) == {p \in Part : Has(target[u], p)}

Remaining(u) ==
  Commands[pc[u]] + IF pc[u] = "rmdir" THEN Cardinality(Leftover(u)) ELSE 0

(* Every command brings its run nearer to its end, and nothing that        *)
(* happens meanwhile (a release, a daemon that dies or starts) sends it    *)
(* back: "rm -rf" of whatever an interrupted run left ends, and the script *)
(* has no other loop.                                                      *)
RunsBounded ==
  [][\A u \in Updaters :
       pc[u] # "idle" =>
         /\ Remaining(u)' <= Remaining(u)
         /\ Step(u) => Remaining(u)' < Remaining(u)]_vars

(* After the last fault, repeated runs bring /opt/edc to the latest core   *)
(* release, whatever state the faults left the directories and links in.   *)
EventuallyLatest == <>[](edc # None /\ dir[edc]["ver"] = latest.core)

(* Once /opt/edc has existed the daemon always comes back: systemd restarts *)
(* it through /opt/edc, and a run of the script repairs a missing /opt/edc *)
(* (samples/ota/README.md: "On failure, current deployment continues to    *)
(* work").                                                                 *)
ServiceRecovers == [](edc # None => []<>(running # None))

(* "When the current EDC is running from edcA ..., the OTA script will     *)
(* install the new version of EDC to edcB": the files the running daemon   *)
(* was started from stay as they are.                                      *)
RunningUntouched == [][running # None => dir'[running] = dir[running]]_vars

(* The /opt/senscord link that applications (and evp_agent_startup's       *)
(* libsenscord_wamr.so) use is there again after the last fault.           *)
SenscordRecovers == []<>(senscord # None)

=============================================================================
