-------------------------------- MODULE ELog --------------------------------
(***************************************************************************)
(* The event log ("ELog") of the EVP agent: the status byte log.c keeps    *)
(* per component and the handlers of notifications.c that maintain it.     *)
(*                                                                         *)
(* The EVP library (external) delivers notifications to the handlers from  *)
(* its own threads.  A handler reads a stored code (SystemGetELog, under   *)
(* the elog mutex), computes a new one, and stores it (SystemSetELog,      *)
(* under the mutex again); the two are separate steps here, and so are the *)
(* accesses to the global counter and flags, which no lock protects.  A    *)
(* code is a record of the bit fields of the "ELog Code Specification"     *)
(* comment; Encode gives the byte.  The component 0xf2 (Wasm) is           *)
(* registered and never set, so it has no state here.                      *)
(***************************************************************************)
EXTENDS Integers, Sequences, FiniteSets

CONSTANTS Threads,    \* library threads that deliver notifications
          Statuses,   \* HTTP statuses a blob operation may fail with
          Errnos,     \* errno values a blob operation may fail with
          MaxFails    \* bound: MQTT errors per outage

ASSUME ELogAssumption ==
  /\ Threads # {}
  /\ MaxFails \in Nat

MQTT_RECONNECT_CNT_MAX == 15
ELOG_ERR == 255

\* The status values and errnos with a code of their own; others share the
\* next code.
HttpTable == <<200, 400, 401, 403, 404, 500, 502, 503>>
ErrnoTable == <<"EPERM", "EIO", "E2BIG", "ENOMEM", "EINVAL", "EPROTO", "ELOOP",
                "ECONNABORTED", "EHOSTUNREACH", "ENOTSUP">>
Field(table, x) ==
  IF \E i \in 1..Len(table) : table[i] = x
  THEN CHOOSE i \in 1..Len(table) : table[i] = x
  ELSE Len(table) + 1

Success == 1
HttpFail == 2
OtherFail == 3

BlobCode == [kind: 1..3, detail: 0..15, tcp: BOOLEAN, ssl: BOOLEAN]
MqttCode == [count: 0..15, recv: BOOLEAN, send: BOOLEAN, time: BOOLEAN, forced: BOOLEAN]

Bit(b, weight) == IF b THEN weight ELSE 0
EncodeBlob(c) == 64 * c.kind + 4 * c.detail + Bit(c.tcp, 2) + Bit(c.ssl, 1)
EncodeMqtt(c) == 16 * c.count + Bit(c.recv, 8) + Bit(c.send, 4) + Bit(c.time, 2) + Bit(c.forced, 1)

InitBlob == [kind |-> Success, detail |-> 0, tcp |-> FALSE, ssl |-> FALSE]
InitMqtt == [count |-> 0, recv |-> FALSE, send |-> FALSE, time |-> FALSE, forced |-> FALSE]

Errors == {"recv", "send", "time"}
\* The MQTT errors the handlers tell apart; "other" stands for several.
Reasons == {"recv", "send", "other"}

PC == {"idle", "blobSet", "netSet", "okBlob", "okTest", "okClear", "okSetMqtt", "okSetBlob",
       "failFlags", "failStore", "failCount"}

VARIABLES
  blob, mqtt,   \* elog_array: the stored code of 0xf0 and of 0xf1
  sent,         \* what became of the last event of each code (see Written)
  cnt,          \* g_mqtt_reconnect_cnt
  flags,        \* which of the g_mqtt_sync_error_* globals are true
  tcpTimeout,   \* g_tcp_timer_error_timeout
  pc, rBlob, rMqtt, reason,  \* per thread: position in a handler, its local
                             \* codes and the error it was called with
  status,       \* external: the MQTT status the library last notified
  fails, errs   \* history: MQTT errors, and their kinds, since the last recovery

globals == <<cnt, flags, tcpTimeout>>
store == <<blob, mqtt, sent>>
local == <<pc, rBlob, rMqtt, reason>>
history == <<fails, errs>>
vars == <<blob, mqtt, sent, cnt, flags, tcpTimeout, pc, rBlob, rMqtt, reason, status, fails, errs>>

TypeOK ==
  /\ blob \in BlobCode
  /\ mqtt \in MqttCode
  /\ sent \in [{"blob", "mqtt"} -> {"sent", "failed", "old"}]
  /\ cnt \in 0..MQTT_RECONNECT_CNT_MAX
  /\ flags \in SUBSET Errors
  /\ tcpTimeout \in BOOLEAN
  /\ pc \in [Threads -> PC]
  /\ rBlob \in [Threads -> BlobCode]
  /\ rMqtt \in [Threads -> MqttCode]
  /\ reason \in [Threads -> Reasons]
  /\ status \in {"none", "ok"} \cup Reasons
  /\ fails \in Nat
  /\ errs \in SUBSET Errors

\* evp_agent_notifications_register has registered the codes and subscribed.
Init ==
  /\ blob = InitBlob
  /\ mqtt = InitMqtt
  /\ sent = [c \in {"blob", "mqtt"} |-> "sent"]
  /\ cnt = 0
  /\ flags = {}
  /\ tcpTimeout = FALSE
  /\ pc = [t \in Threads |-> "idle"]
  /\ rBlob = [t \in Threads |-> InitBlob]
  /\ rMqtt = [t \in Threads |-> InitMqtt]
  /\ reason = [t \in Threads |-> "other"]
  /\ status = "none"
  /\ fails = 0
  /\ errs = {}

-----------------------------------------------------------------------------
(* log.c *)

\* SystemSetELog writes an event only when the code changes, and forgets an
\* event UtilityLogWriteELog (external) could not write.
Written(c, changed) ==
  \/ /\ changed
     /\ \E outcome \in {"sent", "failed"} : sent' = [sent EXCEPT ![c] = outcome]
  \/ /\ ~changed
     /\ UNCHANGED sent

SetBlob(code) == blob' = code /\ Written("blob", code # blob) /\ UNCHANGED mqtt
SetMqtt(code) == mqtt' = code /\ Written("mqtt", code # mqtt) /\ UNCHANGED blob

-----------------------------------------------------------------------------
(* notifications.c *)

Goto(t, label) == pc' = [pc EXCEPT ![t] = label]

\* A handler returns: its locals die.
Return(t) ==
  /\ Goto(t, "idle")
  /\ rBlob' = [rBlob EXCEPT ![t] = InitBlob]
  /\ rMqtt' = [rMqtt EXCEPT ![t] = InitMqtt]
  /\ reason' = [reason EXCEPT ![t] = "other"]
  /\ UNCHANGED status

\* A notification is delivered: an event that was lost before is now old.
Deliver(t, label) ==
  /\ pc[t] = "idle"
  /\ Goto(t, label)
  /\ sent' = [c \in DOMAIN sent |-> IF sent[c] = "failed" THEN "old" ELSE sent[c]]
  /\ UNCHANGED <<blob, mqtt, globals>>

\* Mutant: the mask keeps one low bit instead of two.
AfterHttpErrorOneBit(code, http) ==
  [kind |-> HttpFail, detail |-> Field(HttpTable, http), tcp |-> FALSE, ssl |-> code.ssl]

\* The new code of a blob result: success clears the ssl bit, an error keeps
\* both low bits.
AfterSuccess(code) ==
  [kind |-> Success, detail |-> 0, tcp |-> code.tcp, ssl |-> FALSE]
AfterHttpError(code, http) ==
  [kind |-> HttpFail, detail |-> Field(HttpTable, http), tcp |-> code.tcp, ssl |-> code.ssl]
AfterOtherError(code, error) ==
  [kind |-> OtherFail, detail |-> Field(ErrnoTable, error), tcp |-> code.tcp, ssl |-> code.ssl]

\* A handler gives up when the stored code reads as ELOG_ERR.
Unless(failed, label) == IF failed THEN "idle" ELSE label

BlobSuccess(t) ==
  /\ Deliver(t, "blobSet")
  /\ rBlob' = [rBlob EXCEPT ![t] = AfterSuccess(blob)]
  /\ UNCHANGED <<rMqtt, reason, status, history>>

BlobHttpError(t) ==
  /\ Deliver(t, Unless(EncodeBlob(blob) = ELOG_ERR, "blobSet"))
  /\ \E http \in Statuses :
       rBlob' = [rBlob EXCEPT ![t] = AfterHttpError(blob, http)]
  /\ UNCHANGED <<rMqtt, reason, status, history>>

BlobOtherError(t) ==
  /\ Deliver(t, Unless(EncodeBlob(blob) = ELOG_ERR, "blobSet"))
  /\ \E error \in Errnos :
       rBlob' = [rBlob EXCEPT ![t] = AfterOtherError(blob, error)]
  /\ UNCHANGED <<rMqtt, reason, status, history>>

BlobSet(t) ==
  /\ pc[t] = "blobSet"
  /\ SetBlob(rBlob[t])
  /\ Return(t)
  /\ UNCHANGED <<globals, history>>

\* elog_handler_network_error: only "ssl_timeout" changes the code.
NetworkError(t) ==
  /\ Deliver(t, Unless(EncodeBlob(blob) = ELOG_ERR, "netSet"))
  /\ \E timeout \in BOOLEAN :
       rBlob' = [rBlob EXCEPT ![t] = [blob EXCEPT !.ssl = timeout \/ @]]
  /\ UNCHANGED <<rMqtt, reason, status, history>>

NetworkSet(t) ==
  /\ pc[t] = "netSet"
  /\ SetBlob(rBlob[t])
  /\ Return(t)
  /\ UNCHANGED <<globals, history>>

\* The library notifies changes of the MQTT status only.
\* elog_handler_mqtt_sync_success reads both codes ...
MqttOk(t) ==
  /\ status # "ok"
  /\ Deliver(t, Unless(EncodeMqtt(mqtt) = ELOG_ERR, "okBlob"))
  /\ status' = "ok"
  /\ rMqtt' = [rMqtt EXCEPT ![t] = mqtt]
  /\ UNCHANGED <<rBlob, reason, history>>

OkGetBlob(t) ==
  /\ pc[t] = "okBlob"
  /\ Goto(t, Unless(EncodeBlob(blob) = ELOG_ERR, "okTest"))
  /\ rBlob' = [rBlob EXCEPT ![t] = blob]
  /\ UNCHANGED <<store, globals, rMqtt, reason, status, history>>

\* Mutant: the mask of the time bit is one bit too wide.
RecoveredWideMask(code) ==
  [count |-> cnt % 16,
   recv |-> code.recv \/ "recv" \in flags,
   send |-> code.send \/ "send" \in flags,
   time |-> "time" \in flags,
   forced |-> "time" \in flags]

\* ... merges the counter and the flags of the outage into them: an error bit
\* is only ever set, the time and TCP bits follow their flags ...
Recovered(code) ==
  [count |-> cnt % 16,
   recv |-> code.recv \/ "recv" \in flags,
   send |-> code.send \/ "send" \in flags,
   time |-> "time" \in flags,
   forced |-> code.forced]

OkTest(t) ==
  /\ pc[t] = "okTest"
  /\ Goto(t, "okClear")
  /\ rMqtt' = [rMqtt EXCEPT ![t] = Recovered(@)]
  /\ rBlob' = [rBlob EXCEPT ![t].tcp = tcpTimeout]
  /\ UNCHANGED <<store, globals, reason, status, history>>

\* ... clears them ...
OkClear(t) ==
  /\ pc[t] = "okClear"
  /\ Goto(t, "okSetMqtt")
  /\ cnt' = 0
  /\ flags' = {}
  /\ tcpTimeout' = FALSE
  /\ UNCHANGED <<store, rBlob, rMqtt, reason, status, history>>

\* ... and stores both codes, ignoring what SystemSetELog returns.
OkSetMqtt(t) ==
  /\ pc[t] = "okSetMqtt"
  /\ Goto(t, "okSetBlob")
  /\ SetMqtt(rMqtt[t])
  /\ fails' = 0
  /\ errs' = {}
  /\ UNCHANGED <<globals, rBlob, rMqtt, reason, status>>

OkSetBlob(t) ==
  /\ pc[t] = "okSetBlob"
  /\ SetBlob(rBlob[t])
  /\ Return(t)
  /\ UNCHANGED <<globals, history>>

\* elog_handler_mqtt_sync_fail.
MqttError(t) ==
  /\ fails < MaxFails
  /\ Deliver(t, Unless(EncodeMqtt(mqtt) = ELOG_ERR, "failFlags"))
  /\ \E error \in Reasons :
       /\ error = status => error = "other"
       /\ status' = error
       /\ reason' = [reason EXCEPT ![t] = error]
  /\ rMqtt' = [rMqtt EXCEPT ![t] = mqtt]
  /\ UNCHANGED <<rBlob, history>>

\* Mutant: the count of the last outage stays.
NewOutageKeepsCount(code, flagged) ==
  [count |-> code.count,
   recv |-> code.recv /\ "recv" \notin flagged,
   send |-> code.send /\ "send" \notin flagged,
   time |-> code.time,
   forced |-> code.forced]

\* The code of a new outage: without the count of the last one, and without
\* the error bits whose flag is set.
NewOutage(code, flagged) ==
  [count |-> 0,
   recv |-> code.recv /\ "recv" \notin flagged,
   send |-> code.send /\ "send" \notin flagged,
   time |-> code.time,
   forced |-> code.forced]

\* check_sys_time flags the time, or not: the clock is external.
CheckSysTime == SUBSET {"time"}

\* The clock and the reason of the error set flags.
FailFlags(t) ==
  /\ pc[t] = "failFlags"
  /\ \E invalidTime \in CheckSysTime :
       LET new == invalidTime \cup ({reason[t]} \cap Errors)
       IN  /\ flags' = flags \cup new
           /\ errs' = errs \cup new
  /\ \/ /\ cnt = 0
        /\ rMqtt' = [rMqtt EXCEPT ![t] = NewOutage(@, flags')]
        /\ Goto(t, "failStore")
     \/ /\ cnt # 0
        /\ Goto(t, "failCount")
        /\ UNCHANGED rMqtt
  /\ UNCHANGED <<store, cnt, tcpTimeout, rBlob, reason, status, fails>>

FailStore(t) ==
  /\ pc[t] = "failStore"
  /\ SetMqtt(rMqtt[t])
  /\ Goto(t, "failCount")
  /\ UNCHANGED <<globals, rBlob, rMqtt, reason, status, history>>

\* Mutants: no saturation; a counter that wraps in its four bits.
IncrementUnbounded(n) == n + 1
IncrementWraps(n) == (n + 1) % 16

Increment(n) == IF n < MQTT_RECONNECT_CNT_MAX THEN n + 1 ELSE n

FailCount(t) ==
  /\ pc[t] = "failCount"
  /\ cnt' = Increment(cnt)
  /\ fails' = fails + 1
  /\ Return(t)
  /\ UNCHANGED <<store, flags, tcpTimeout, errs>>

\* External: the network stack reports a TCP close timeout, at any moment.
TcpTimeout ==
  /\ tcpTimeout' = TRUE
  /\ UNCHANGED <<store, cnt, flags, local, status, history>>

Handler(t) ==
  \/ BlobSuccess(t) \/ BlobHttpError(t) \/ BlobOtherError(t) \/ BlobSet(t)
  \/ NetworkError(t) \/ NetworkSet(t)
  \/ MqttOk(t) \/ OkGetBlob(t) \/ OkTest(t) \/ OkClear(t) \/ OkSetMqtt(t) \/ OkSetBlob(t)
  \/ MqttError(t) \/ FailFlags(t) \/ FailStore(t) \/ FailCount(t)

Next == TcpTimeout \/ \E t \in Threads : Handler(t)

Spec == Init /\ [][Next]_vars

-----------------------------------------------------------------------------
(* Properties *)

\* No code a handler stores reads back as ELOG_ERR: SystemGetELog returns
\* that value for "no such entry", and every handler that met it would give
\* up from then on.
NoSentinel == EncodeBlob(blob) # ELOG_ERR /\ EncodeMqtt(mqtt) # ELOG_ERR

\* While an outage lasts, the stored MQTT code never shows the reconnection
\* count of an earlier outage.
OutageCountClear == cnt > 0 => mqtt.count = 0

\* The code the recovery stores reports the outage that ends: its number of
\* errors, saturated at 15, every buffer error met in it, and an invalid
\* time exactly when one was met.
OutageReported ==
  [][\A t \in Threads : pc[t] = "okSetMqtt" /\ pc'[t] = "okSetBlob" =>
       /\ mqtt'.count = IF fails > 15 THEN 15 ELSE fails
       /\ "recv" \in errs => mqtt'.recv
       /\ "send" \in errs => mqtt'.send
       /\ mqtt'.time = ("time" \in errs)]_vars

\* The two low bits of the blob code belong to other handlers: the TCP bit
\* changes only when MQTT recovers, and the ssl bit falls only by a success.
LowBitsKept ==
  [][/\ blob'.tcp # blob.tcp => \E t \in Threads : pc[t] = "okSetBlob"
     /\ blob.ssl /\ ~blob'.ssl => blob'.kind = Success]_vars

\* The code the recovery stores reports no buffer error that did not happen
\* in the outage that ends.
NoStaleError ==
  [][\A t \in Threads : pc[t] = "okSetMqtt" /\ pc'[t] = "okSetBlob" =>
       /\ mqtt'.recv => "recv" \in errs
       /\ mqtt'.send => "send" \in errs]_vars

\* The recovery sends every code whose event was lost by an earlier handler.
LostEventResent ==
  [][\A t \in Threads : pc[t] = "okSetBlob" /\ pc'[t] = "idle" =>
       \A c \in DOMAIN sent' : sent'[c] # "old"]_vars
=============================================================================
