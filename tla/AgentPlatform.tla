---------------------------- MODULE AgentPlatform ----------------------------
(***************************************************************************)
(* The platform the EVP library runs on: the device's settings, the        *)
(* configuration readers, the status handler and the debug log, composed.  *)
(* The library's thread makes one call at a time; the settings may change  *)
(* between any two statements of a call; the process may end at any        *)
(* moment, and is stopped before the package scripts run.                  *)
(***************************************************************************)
EXTENDS AgentStatus, DLog

CONSTANT Scenarios   \* bound: what is explored together in one behaviour

Call == {"connect", "config", "status", "dlog"}

ASSUME PlatformAssumption == Scenarios \subseteq SUBSET (Call \cup Setting)

VARIABLE scenario    \* the calls the library makes, the settings that change

process == <<config, led, handler, dlog>>
vars == <<settings, process, scenario>>

PC == {"idle", "gate", "calloc", "lookup", "scan", "open", "read", "wrap", "take",
       "hostTest", "projectId", "getProjectId", "token", "getToken", "tls", "leds", "done"}

TypeOK ==
  /\ SettingsTypeOK
  /\ pc \in PC
  /\ ConfigTypeOK
  /\ StatusTypeOK
  /\ DLogTypeOK
  /\ scenario \in Scenarios

ProcessInit == ConfigInit /\ StatusInit /\ DLogInit

Init == SettingsInit /\ ProcessInit /\ scenario \in Scenarios

-----------------------------------------------------------------------------
(* Settings                                                                *)

\* A setting changes under a running agent: the histories record it.
Change ==
  /\ \E name \in Setting \cap scenario : UserStep(name)
  /\ met' = IF met = {} THEN {} ELSE met \cup {Meaning(row'.tls)}
  /\ Remember
  /\ UNCHANGED <<phase, proxy, pc, reader, heap, got, led, status, idSet, want, i, ret, dlog, scenario>>

\* prerm has stopped the service before the package is replaced or purged.
PackageStep ==
  /\ phase = "off"
  /\ Unpack \/ Postinst \/ Purge
  /\ UNCHANGED <<process, scenario>>

-----------------------------------------------------------------------------
(* The process                                                             *)

\* The service is started once the package is configured; the thread has
\* registered the platform and comes to agent_status_handler.
StartAgent ==
  /\ phase = "off"
  /\ package = "installed"
  /\ phase' = "status"
  /\ UNCHANGED <<proxy, pc, reader, heap, attempt, led, handler, dlog, settings, scenario>>

\* The process ends, by itself, by systemctl stop or by a fault.
ProcessEnds ==
  /\ phase # "off"
  /\ phase' = "off" /\ pc' = "idle"
  /\ cache' = {} /\ prm' = {} /\ failed' = FALSE
  /\ back' = "idle" /\ key' = "OTHER" /\ path' = Placeholder /\ cfg' = Null
  /\ heap' = {}
  /\ got' = [k \in TlsKey |-> Unread] /\ met' = {}
  /\ led' = {}
  /\ status' = "none" /\ idSet' = FALSE /\ want' = 1 /\ i' = 1 /\ ret' = "none"
  /\ stable' = TRUE /\ old' = {}
  /\ FreeBuffer /\ DlogReturn
  /\ UNCHANGED <<settings, scenario>>

ThreadStep ==
  /\ lpc = "idle"
  /\ \/ InitProxyCache /\ UNCHANGED <<led, handler>>
     \/ DeinitProxyCache /\ UNCHANGED <<led, handler>>
     \/ InitialStatus
  /\ UNCHANGED <<dlog, settings, scenario>>

-----------------------------------------------------------------------------
(* Calls of the library                                                    *)

CallConnect ==
  /\ "connect" \in scenario
  /\ lpc = "idle"
  /\ Connect \/ \E k \in TlsKey : GetConfig(k)
  /\ UNCHANGED <<led, handler, dlog, settings, scenario>>

CallConfig ==
  /\ "config" \in scenario
  /\ lpc = "idle"
  /\ \E k \in Key \ TlsKey : GetConfig(k)
  /\ UNCHANGED <<led, handler, dlog, settings, scenario>>

CallStatus ==
  /\ "status" \in scenario
  /\ lpc = "idle"
  /\ Notify
  /\ UNCHANGED <<dlog, settings, scenario>>

\* The library logs through the platform as long as the process runs.
CallDlog ==
  /\ "dlog" \in scenario
  /\ phase = "up"
  /\ pc = "idle"
  /\ DlogCall
  /\ UNCHANGED <<config, led, handler, settings, scenario>>

CallStep ==
  \/ (ReadStep \/ TakeConfig) /\ UNCHANGED <<led, handler, dlog, settings, scenario>>
  \/ HandlerStep /\ UNCHANGED <<dlog, settings, scenario>>
  \/ DlogStep /\ UNCHANGED <<config, led, handler, settings, scenario>>

Next ==
  \/ Change \/ PackageStep
  \/ StartAgent \/ ProcessEnds \/ ThreadStep
  \/ CallConnect \/ CallConfig \/ CallStatus \/ CallDlog
  \/ CallStep

Spec == Init /\ [][Next]_vars

\* A call that has begun goes on: its thread runs and what it calls returns.
FairSpec == Spec /\ WF_vars(CallStep)

-----------------------------------------------------------------------------
(* Properties                                                              *)

\* Statements that a call of the reader or the handler, and a call of the log
\* (16 lines of 256 bytes fill its buffer), has left, at most
ReadLeft ==
  CASE pc = "idle" -> 0 [] pc \in {"take", "done"} -> 1 [] pc = "leds" -> 6 - i
    [] pc = "tls" -> 6 [] pc = "getToken" -> 7 [] pc = "token" -> 8
    [] pc = "getProjectId" -> 9 [] pc = "projectId" -> 10 [] pc = "hostTest" -> 11
    [] pc = "wrap" -> 12 [] pc = "read" -> 13 [] pc = "open" -> 14 [] pc = "scan" -> 15
    [] pc = "lookup" -> 16 [] pc = "calloc" -> 17 [] OTHER -> 18
LogLeft ==
  CASE lpc = "idle" -> 0 [] lpc = "done" -> 1 [] lpc = "notice" -> 2
    [] lpc = "chunk" -> 19 - Len(lines) [] lpc = "format" -> 20 [] OTHER -> 21
Left == ReadLeft + LogLeft

\* Every statement brings its call nearer to its return, and no setting that
\* changes meanwhile sends the call back: "connected" goes from one reader to
\* the next, the loops write each LED and each part of a message once.
CallsBounded ==
  [][pc # "idle" \/ lpc # "idle" =>
       /\ Left' <= Left
       /\ CallStep => Left' < Left]_vars

\* Nothing stays allocated: the parts of the platform give back what they
\* took, and a message that is over has freed its buffer.
NoLeak == ConfigNoLeak /\ (lpc = "idle" => size = 0)

\* Every call returns, whichever of its steps fail.
CallsReturn == (pc # "idle" \/ lpc # "idle") ~> (pc = "idle" /\ lpc = "idle")

=============================================================================
