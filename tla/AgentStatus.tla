---------------------------- MODULE AgentStatus ----------------------------
(***************************************************************************)
(* agent_status_handler of notifications.c: the service LED shows whether  *)
(* the agent is connected and whether it uses TLS.  The agent thread calls *)
(* the handler once before anything else, the EVP library at every change  *)
(* of the connection.  The handler decides from settings it reads one      *)
(* after the other, and then writes the four LED statuses in a fixed       *)
(* order; the first write that fails ends it.                              *)
(***************************************************************************)
EXTENDS AgentConfig, Integers, Sequences

Led == <<"ConnectedWithTLS", "ConnectedWithoutTLS",
         "DisconnectedConnectingWithTLS", "DisconnectedConnectingWithoutTLS">>
LedStatus == {Led[i] : i \in 1 .. 4}

VARIABLES
  led,      \* LED statuses that are enabled
  status,   \* the status the handler was called with, "none" between calls
  idSet,    \* the project id that was read is not empty
  want,     \* index of the status to enable
  i,        \* next LED status to write
  ret,      \* what the handler did: "failed" is -1, the others are 0
  stable,   \* history: since the handler was called no read has failed and
            \* the settings have had two values at most
  old       \* history: the other one of the two, {} if there is none

history == <<stable, old>>
handler == <<status, idSet, want, i, ret, history>>

StatusTypeOK ==
  /\ led \in SUBSET LedStatus
  /\ status \in {"none", "connected", "disconnected"}
  /\ idSet \in BOOLEAN
  /\ want \in 1 .. 4
  /\ i \in 1 .. 5
  /\ ret \in {"none", "shown", "skipped", "failed"}
  /\ stable \in BOOLEAN
  /\ old \in SUBSET Rows

StatusInit ==
  /\ led = {}
  /\ status = "none"
  /\ idSet = FALSE
  /\ want = 1
  /\ i = 1
  /\ ret = "none"
  /\ stable = TRUE
  /\ old = {}

-----------------------------------------------------------------------------
(* The handler                                                             *)

\* The histories record whether a read has succeeded
Note(success) ==
  IF success THEN UNCHANGED history ELSE stable' = FALSE /\ old' = {}

\* A NULL or unknown argument is refused before anything is read, so only
\* the two statuses are calls here.  "connected" first reads the host.
Begin(s) ==
  /\ status' = s
  /\ UNCHANGED <<led, idSet, want, i, ret, history>>
  /\ UNCHANGED <<phase, proxy, heap, attempt>>
  /\ \/ s = "connected" /\ Pass("idle", "calloc") /\ ReadConfig("MQTT_HOST", "hostTest")
     \/ s = "disconnected" /\ Pass("idle", "tls") /\ UNCHANGED reader

\* The thread's own call, before the library runs
InitialStatus ==
  /\ phase = "status"
  /\ Begin("disconnected")

Notify ==
  /\ phase = "up"
  /\ \E s \in {"connected", "disconnected"} : Begin(s)

\* check_provisioning_service_mqtt_host: a host that cannot be read is not
\* the provisioning service
HostTest ==
  /\ Pass("hostTest", IF cfg = "provisioning" THEN "done" ELSE "projectId")
  /\ ret' = IF cfg = "provisioning" THEN "skipped" ELSE ret
  /\ heap' = heap \ {"buf", "config"}
  /\ Note(cfg # Null)
  /\ back' = "idle" /\ key' = "OTHER" /\ path' = Placeholder /\ cfg' = Null
  /\ UNCHANGED <<phase, proxy, attempt, led, status, idSet, want, i>>

\* check_project_id_and_register_token_valid: any failure means "not valid".
\* Its end frees what there is of the two strings.
FreeStrings == heap \ {"project_id", "register_token"}

Malloc(from, string, to) ==
  /\ \/ Pass(from, to) /\ heap' = heap \cup {string} /\ Note(TRUE)
     \/ Pass(from, "tls") /\ heap' = FreeStrings /\ Note(FALSE)
  /\ UNCHANGED <<phase, proxy, reader, attempt, led, status, idSet, want, i, ret>>

AllocProjectId == Malloc("projectId", "project_id", "getProjectId")

GetProjectId ==
  /\ \/ /\ Pass("getProjectId", "token")
        /\ idSet' = row.projectId
        /\ Note(TRUE)
        /\ UNCHANGED heap
     \/ /\ Pass("getProjectId", "tls")
        /\ heap' = FreeStrings
        /\ Note(FALSE)
        /\ UNCHANGED idSet
  /\ UNCHANGED <<phase, proxy, reader, attempt, led, status, want, i, ret>>

AllocToken == Malloc("token", "register_token", "getToken")

\* Mutant: one of the two is enough
EnrolledByEither(id, token) == id \/ token

BothSet(id, token) == id /\ token

GetToken ==
  /\ \/ LET enrolled == BothSet(idSet, row.token)
        IN  /\ Pass("getToken", IF enrolled THEN "done" ELSE "tls")
            /\ ret' = IF enrolled THEN "skipped" ELSE ret
            /\ Note(TRUE)
     \/ /\ Pass("getToken", "tls")
        /\ Note(FALSE)
        /\ UNCHANGED ret
  /\ heap' = FreeStrings
  /\ UNCHANGED <<phase, proxy, reader, attempt, led, status, idSet, want, i>>

\* Mutant: the indexes are one too high
LedIndexAbove(s, tls) ==
  (IF s = "connected" THEN 2 ELSE 4) + (IF tls THEN 0 ELSE 1)

LedIndex(s, tls) ==
  (IF s = "connected" THEN 1 ELSE 3) + (IF tls THEN 0 ELSE 1)

ReadTls ==
  /\ Pass("tls", "leds")
  /\ \E read \in TlsReads :
       /\ want' = LedIndex(status, IsTlsEnabled(read))
       /\ Note(read # "unreadable")
  /\ UNCHANGED <<phase, proxy, reader, heap, attempt, led, status, idSet, i, ret>>

\* Mutant: only the new status is written
SetStatusNoClear(on, n) == IF n = want THEN on \cup {Led[n]} ELSE on

\* EsfLedManagerSetStatus (external) enables or disables one status
SetStatus(on, n) == IF n = want THEN on \cup {Led[n]} ELSE on \ {Led[n]}

\* Mutant: a write that fails starts the loop again
WriteLedRestarts ==
  /\ \/ /\ Pass("leds", IF i = 4 THEN "done" ELSE "leds")
        /\ led' = SetStatus(led, i)
        /\ i' = i + 1
        /\ ret' = IF i = 4 THEN "shown" ELSE ret
     \/ /\ Pass("leds", "leds")
        /\ i' = 1
        /\ UNCHANGED <<led, ret>>
  /\ UNCHANGED <<phase, proxy, reader, heap, attempt, status, idSet, want, history>>

WriteLed ==
  /\ \/ /\ Pass("leds", IF i = 4 THEN "done" ELSE "leds")
        /\ led' = SetStatus(led, i)
        /\ i' = i + 1
        /\ ret' = IF i = 4 THEN "shown" ELSE ret
     \/ /\ Pass("leds", "done")
        /\ ret' = "failed"
        /\ UNCHANGED <<led, i>>
  /\ UNCHANGED <<phase, proxy, reader, heap, attempt, status, idSet, want, history>>

\* The handler returns.  The thread ends when its own call has failed; the
\* library ignores the result.
Finish ==
  /\ Pass("done", "idle")
  /\ phase' = IF phase # "status" THEN phase ELSE IF ret = "failed" THEN "ended" ELSE "allocProxy"
  /\ status' = "none" /\ idSet' = FALSE /\ want' = 1 /\ i' = 1 /\ ret' = "none"
  /\ stable' = TRUE /\ old' = {}
  /\ UNCHANGED <<proxy, reader, heap, attempt, led>>

HandlerStep ==
  \/ HostTest \/ AllocProjectId \/ GetProjectId \/ AllocToken \/ GetToken
  \/ ReadTls \/ WriteLed \/ Finish

-----------------------------------------------------------------------------
(* Properties                                                              *)

\* The settings change from row to row'.  During a handler the histories take
\* it down: with a third value there is no telling any more what was read.
Remember ==
  LET rows == old \cup {row, row'}
      two == \E v \in rows : rows = {v, row'}
  IN  IF status = "none" THEN UNCHANGED history
      ELSE /\ stable' = (stable /\ two)
           /\ old' = IF stable' THEN rows \ {row'} ELSE {}

\* The values of the settings during the handler
Seen == {row} \cup old

\* connecting to the provisioning service, or project id and token are set
Enrolled(v) == v.url = "provisioning" \/ (v.projectId /\ v.token)

\* What the LED is to show of a connection with or without TLS
LedFor(s, tls) ==
  IF s = "connected"
  THEN IF tls THEN "ConnectedWithTLS" ELSE "ConnectedWithoutTLS"
  ELSE IF tls THEN "DisconnectedConnectingWithTLS" ELSE "DisconnectedConnectingWithoutTLS"

\* A handler that returns 0 and was not skipped leaves exactly one LED
\* status enabled, whatever earlier handlers that failed half way had left.
OneStatusShown == pc = "done" /\ ret = "shown" => led = {Led[want]}

\* A handler whose reads succeed gives a result that is right of the settings
\* as they were at one moment of the call, though each is read at another and
\* one of them may change at any statement, to and fro: "connected" is not
\* shown in enrolment mode ("Do nothing "connected" in enrollment mode") and
\* only then, and otherwise the LED shows the status and the TLS setting.
LedTruthful ==
  pc = "done" /\ stable /\ ret # "failed" =>
    \E v \in Seen :
      IF status = "connected" /\ Enrolled(v) THEN ret = "skipped"
      ELSE ret = "shown" /\ led = {LedFor(status, v.tls = "on")}

=============================================================================
