----------------------------- MODULE ELogProofs -----------------------------
(***************************************************************************)
(* Proofs about ELog.  Type correctness and the absence of the sentinel    *)
(* code hold for any set of notification threads.  What the codes report   *)
(* about an outage, and the ownership of the low bits of the blob code,    *)
(* hold for any set of threads whose handlers do not overlap: the read     *)
(* and the write of a handler are two critical sections.                   *)
(***************************************************************************)
EXTENDS ELog, TLAPS

\* What a status or errno is coded as fits the field, with room to spare:
\* at most one more than the entries of its table.
LEMMA HttpFieldBound ==
  ASSUME NEW x
  PROVE  Field(HttpTable, x) \in 0..11
<1>1. Len(HttpTable) = 8
  BY DEF HttpTable
<1> QED
  BY <1>1 DEF Field

\* The same bound for errno values.
LEMMA ErrnoFieldBound ==
  ASSUME NEW x
  PROVE  Field(ErrnoTable, x) \in 0..11
<1>1. Len(ErrnoTable) = 10
  BY DEF ErrnoTable
<1> QED
  BY <1>1 DEF Field

\* The codes the handlers compute have the fields of a code.
LEMMA BlobCodes ==
  ASSUME NEW code \in BlobCode
  PROVE  /\ AfterSuccess(code) \in BlobCode
         /\ \A x : AfterHttpError(code, x) \in BlobCode
         /\ \A x : AfterOtherError(code, x) \in BlobCode
         /\ \A b \in BOOLEAN : [code EXCEPT !.tcp = b] \in BlobCode
         /\ \A b \in BOOLEAN : [code EXCEPT !.ssl = b \/ @] \in BlobCode
<1>1. AfterSuccess(code) \in BlobCode
  BY DEF AfterSuccess, BlobCode, Success
<1>2. ASSUME NEW x PROVE AfterHttpError(code, x) \in BlobCode
  BY HttpFieldBound DEF AfterHttpError, BlobCode, HttpFail
<1>3. ASSUME NEW x PROVE AfterOtherError(code, x) \in BlobCode
  BY ErrnoFieldBound DEF AfterOtherError, BlobCode, OtherFail
<1>4. ASSUME NEW b \in BOOLEAN PROVE [code EXCEPT !.tcp = b] \in BlobCode
  BY DEF BlobCode
<1>5. ASSUME NEW b \in BOOLEAN PROVE [code EXCEPT !.ssl = b \/ @] \in BlobCode
  <2>1. (b \/ code.ssl) \in BOOLEAN
    OBVIOUS
  <2> QED
    BY <2>1 DEF BlobCode
<1> QED
  BY <1>1, <1>2, <1>3, <1>4, <1>5

\* The MQTT codes the handlers compute have the fields of a code.
LEMMA MqttCodes ==
  ASSUME TypeOK, NEW code \in MqttCode
  PROVE  /\ Recovered(code) \in MqttCode
         /\ \A f : NewOutage(code, f) \in MqttCode
<1>1. Recovered(code) \in MqttCode
  <2>1. /\ (code.recv \/ "recv" \in flags) \in BOOLEAN
        /\ (code.send \/ "send" \in flags) \in BOOLEAN
        /\ ("time" \in flags) \in BOOLEAN
        /\ code.forced \in BOOLEAN
    BY DEF MqttCode
  <2>2. cnt % 16 \in 0..15
    BY DEF TypeOK, MQTT_RECONNECT_CNT_MAX
  <2> QED
    BY <2>1, <2>2 DEF Recovered, MqttCode
<1>2. ASSUME NEW f PROVE NewOutage(code, f) \in MqttCode
  <2>1. /\ (code.recv /\ "recv" \notin f) \in BOOLEAN
        /\ (code.send /\ "send" \notin f) \in BOOLEAN
    OBVIOUS
  <2> QED
    BY <2>1 DEF NewOutage, MqttCode
<1> QED
  BY <1>1, <1>2

\* The codes SystemRegElog is given are codes.
LEMMA InitCodes == InitBlob \in BlobCode /\ InitMqtt \in MqttCode
  BY DEF InitBlob, InitMqtt, BlobCode, MqttCode, Success

\* Every variable keeps its type.
THEOREM TypeCorrect == Spec => []TypeOK
<1>1. Init => TypeOK
  <2> SUFFICES ASSUME Init PROVE TypeOK
    OBVIOUS
  <2>1. cnt \in 0..MQTT_RECONNECT_CNT_MAX /\ fails \in Nat
    BY DEF Init, MQTT_RECONNECT_CNT_MAX
  <2>2. flags \in SUBSET Errors /\ errs \in SUBSET Errors
    BY DEF Init
  <2>3. tcpTimeout \in BOOLEAN
    BY DEF Init
  <2>4. /\ pc \in [Threads -> PC]
        /\ reason \in [Threads -> Reasons]
        /\ status \in {"none", "ok"} \cup Reasons
        /\ sent \in [{"blob", "mqtt"} -> {"sent", "failed", "old"}]
    BY DEF Init, PC, Reasons
  <2> QED
    BY <2>1, <2>2, <2>3, <2>4, InitCodes DEF Init, TypeOK
<1>2. TypeOK /\ [Next]_vars => TypeOK'
  <2> SUFFICES ASSUME TypeOK, [Next]_vars PROVE TypeOK'
    OBVIOUS
  <2>1. ASSUME NEW t \in Threads, BlobSuccess(t) PROVE TypeOK'
    BY <2>1, BlobCodes DEF BlobSuccess, Deliver, Goto, TypeOK, PC, globals, history
  <2>2. ASSUME NEW t \in Threads, BlobHttpError(t) PROVE TypeOK'
    BY <2>2, BlobCodes DEF BlobHttpError, Deliver, Goto, Unless, TypeOK, PC, globals, history
  <2>3. ASSUME NEW t \in Threads, BlobOtherError(t) PROVE TypeOK'
    BY <2>3, BlobCodes DEF BlobOtherError, Deliver, Goto, Unless, TypeOK, PC, globals, history
  <2>4. ASSUME NEW t \in Threads, BlobSet(t) PROVE TypeOK'
    BY <2>4, InitCodes DEF BlobSet, SetBlob, Written, Return, Goto, TypeOK, PC, Reasons,
       globals, history
  <2>5. ASSUME NEW t \in Threads, NetworkError(t) PROVE TypeOK'
    BY <2>5, BlobCodes DEF NetworkError, Deliver, Goto, Unless, TypeOK, PC, globals, history
  <2>6. ASSUME NEW t \in Threads, NetworkSet(t) PROVE TypeOK'
    BY <2>6, InitCodes DEF NetworkSet, SetBlob, Written, Return, Goto, TypeOK, PC, Reasons,
       globals, history
  <2>7. ASSUME NEW t \in Threads, MqttOk(t) PROVE TypeOK'
    BY <2>7 DEF MqttOk, Deliver, Goto, Unless, TypeOK, PC, globals, history
  <2>8. ASSUME NEW t \in Threads, OkGetBlob(t) PROVE TypeOK'
    BY <2>8 DEF OkGetBlob, Goto, Unless, TypeOK, PC, store, globals, history
  <2>9. ASSUME NEW t \in Threads, OkTest(t) PROVE TypeOK'
    BY <2>9, BlobCodes, MqttCodes DEF OkTest, Goto, TypeOK, PC, store, globals, history
  <2>10. ASSUME NEW t \in Threads, OkClear(t) PROVE TypeOK'
    <3>1. cnt' \in 0..MQTT_RECONNECT_CNT_MAX /\ flags' \in SUBSET Errors
      BY <2>10 DEF OkClear, MQTT_RECONNECT_CNT_MAX
    <3>2. tcpTimeout' \in BOOLEAN
      BY <2>10 DEF OkClear
    <3>3. pc' \in [Threads -> PC]
      BY <2>10 DEF OkClear, Goto, TypeOK, PC
    <3> QED
      BY <2>10, <3>1, <3>2, <3>3 DEF OkClear, TypeOK, store, history
  <2>11. ASSUME NEW t \in Threads, OkSetMqtt(t) PROVE TypeOK'
    BY <2>11 DEF OkSetMqtt, SetMqtt, Written, Goto, TypeOK, PC, Errors, globals
  <2>12. ASSUME NEW t \in Threads, OkSetBlob(t) PROVE TypeOK'
    BY <2>12, InitCodes DEF OkSetBlob, SetBlob, Written, Return, Goto, TypeOK, PC, Reasons,
       globals, history
  <2>13. ASSUME NEW t \in Threads, MqttError(t) PROVE TypeOK'
    BY <2>13 DEF MqttError, Deliver, Goto, Unless, TypeOK, PC, globals, history
  <2>14. ASSUME NEW t \in Threads, FailFlags(t) PROVE TypeOK'
    BY <2>14, MqttCodes DEF FailFlags, CheckSysTime, Goto, TypeOK, PC, Errors, store
  <2>15. ASSUME NEW t \in Threads, FailStore(t) PROVE TypeOK'
    BY <2>15 DEF FailStore, SetMqtt, Written, Goto, TypeOK, PC, globals, history
  <2>16. ASSUME NEW t \in Threads, FailCount(t) PROVE TypeOK'
    BY <2>16, InitCodes DEF FailCount, Increment, Return, Goto, TypeOK, PC, Reasons, store,
       MQTT_RECONNECT_CNT_MAX
  <2>17. CASE TcpTimeout
    BY <2>17 DEF TcpTimeout, TypeOK, store, local, history
  <2>18. CASE UNCHANGED vars
    BY <2>18 DEF vars, TypeOK
  <2> QED
    BY <2>1, <2>2, <2>3, <2>4, <2>5, <2>6, <2>7, <2>8, <2>9, <2>10, <2>11, <2>12, <2>13,
       <2>14, <2>15, <2>16, <2>17, <2>18 DEF Next, Handler
<1> QED
  BY <1>1, <1>2, PTL DEF Spec

-----------------------------------------------------------------------------
(* The sentinel *)

\* The bit of MQTT codes no handler sets, and the details no table reaches,
\* keep every code away from 0xFF.
Tidy ==
  /\ mqtt.forced = FALSE
  /\ blob.detail <= 11
  /\ \A t \in Threads : rMqtt[t].forced = FALSE /\ rBlob[t].detail <= 11

\* Tidy codes are not the sentinel.
LEMMA TidyEncodes ==
  ASSUME TypeOK, Tidy
  PROVE  NoSentinel
<1>1. EncodeBlob(blob) <= 239
  BY DEF EncodeBlob, Bit, BlobCode, TypeOK, Tidy
<1>2. EncodeMqtt(mqtt) <= 254
  BY DEF EncodeMqtt, Bit, MqttCode, TypeOK, Tidy
<1>3. EncodeBlob(blob) \in Int /\ EncodeMqtt(mqtt) \in Int
  BY DEF EncodeBlob, EncodeMqtt, Bit, BlobCode, MqttCode, TypeOK
<1> QED
  BY <1>1, <1>2, <1>3 DEF NoSentinel, ELOG_ERR

\* No stored code reads as ELOG_ERR, so the handlers never give up.
THEOREM SentinelNeverStored == Spec => []NoSentinel
<1>1. Init => Tidy
  BY DEF Init, Tidy, InitBlob, InitMqtt
<1>2. TypeOK /\ Tidy /\ [Next]_vars => Tidy'
  <2> SUFFICES ASSUME TypeOK, Tidy, [Next]_vars PROVE Tidy'
    OBVIOUS
  <2>1. ASSUME NEW t \in Threads, BlobSuccess(t) PROVE Tidy'
    BY <2>1 DEF BlobSuccess, AfterSuccess, Deliver, Goto, globals, history, TypeOK, Tidy,
       BlobCode, MqttCode
  <2>2. ASSUME NEW t \in Threads, BlobHttpError(t) PROVE Tidy'
    <3>1. PICK http \in Statuses : rBlob' = [rBlob EXCEPT ![t] = AfterHttpError(blob, http)]
      BY <2>2 DEF BlobHttpError
    <3>2. AfterHttpError(blob, http).detail <= 11
      BY HttpFieldBound DEF AfterHttpError
    <3>3. UNCHANGED <<blob, mqtt, rMqtt>>
      BY <2>2 DEF BlobHttpError, Deliver
    <3>4. \A s \in Threads : rBlob'[s].detail <= 11
      BY <3>1, <3>2 DEF TypeOK, Tidy
    <3> QED
      BY <3>3, <3>4 DEF Tidy
  <2>3. ASSUME NEW t \in Threads, BlobOtherError(t) PROVE Tidy'
    <3>1. PICK error \in Errnos : rBlob' = [rBlob EXCEPT ![t] = AfterOtherError(blob, error)]
      BY <2>3 DEF BlobOtherError
    <3>2. AfterOtherError(blob, error).detail <= 11
      BY ErrnoFieldBound DEF AfterOtherError
    <3>3. UNCHANGED <<blob, mqtt, rMqtt>>
      BY <2>3 DEF BlobOtherError, Deliver
    <3>4. \A s \in Threads : rBlob'[s].detail <= 11
      BY <3>1, <3>2 DEF TypeOK, Tidy
    <3> QED
      BY <3>3, <3>4 DEF Tidy
  <2>4. ASSUME NEW t \in Threads, BlobSet(t) PROVE Tidy'
    BY <2>4 DEF BlobSet, SetBlob, Return, InitBlob, InitMqtt, Goto, globals, history, TypeOK,
       Tidy, BlobCode, MqttCode
  <2>5. ASSUME NEW t \in Threads, NetworkError(t) PROVE Tidy'
    BY <2>5 DEF NetworkError, Deliver, Goto, Unless, globals, history, TypeOK, Tidy, BlobCode,
       MqttCode
  <2>6. ASSUME NEW t \in Threads, NetworkSet(t) PROVE Tidy'
    BY <2>6 DEF NetworkSet, SetBlob, Return, InitBlob, InitMqtt, Goto, globals, history, TypeOK,
       Tidy, BlobCode, MqttCode
  <2>7. ASSUME NEW t \in Threads, MqttOk(t) PROVE Tidy'
    BY <2>7 DEF MqttOk, Deliver, Goto, Unless, globals, history, TypeOK, Tidy, BlobCode,
       MqttCode
  <2>8. ASSUME NEW t \in Threads, OkGetBlob(t) PROVE Tidy'
    BY <2>8 DEF OkGetBlob, Goto, Unless, store, globals, history, TypeOK, Tidy, BlobCode,
       MqttCode
  <2>9. ASSUME NEW t \in Threads, OkTest(t) PROVE Tidy'
    BY <2>9 DEF OkTest, Recovered, Goto, store, globals, history, TypeOK, Tidy, BlobCode,
       MqttCode
  <2>10. ASSUME NEW t \in Threads, OkClear(t) PROVE Tidy'
    BY <2>10 DEF OkClear, Goto, store, history, TypeOK, Tidy, BlobCode, MqttCode
  <2>11. ASSUME NEW t \in Threads, OkSetMqtt(t) PROVE Tidy'
    BY <2>11 DEF OkSetMqtt, SetMqtt, Goto, globals, TypeOK, Tidy, BlobCode, MqttCode
  <2>12. ASSUME NEW t \in Threads, OkSetBlob(t) PROVE Tidy'
    BY <2>12 DEF OkSetBlob, SetBlob, Return, InitBlob, InitMqtt, Goto, globals, history, TypeOK,
       Tidy, BlobCode, MqttCode
  <2>13. ASSUME NEW t \in Threads, MqttError(t) PROVE Tidy'
    BY <2>13 DEF MqttError, Deliver, Goto, Unless, globals, history, TypeOK, Tidy, BlobCode,
       MqttCode
  <2>14. ASSUME NEW t \in Threads, FailFlags(t) PROVE Tidy'
    BY <2>14 DEF FailFlags, NewOutage, Goto, store, TypeOK, Tidy, BlobCode, MqttCode
  <2>15. ASSUME NEW t \in Threads, FailStore(t) PROVE Tidy'
    BY <2>15 DEF FailStore, SetMqtt, Goto, globals, history, TypeOK, Tidy, BlobCode, MqttCode
  <2>16. ASSUME NEW t \in Threads, FailCount(t) PROVE Tidy'
    BY <2>16 DEF FailCount, Return, InitBlob, InitMqtt, Goto, store, TypeOK, Tidy, BlobCode,
       MqttCode
  <2>17. CASE TcpTimeout
    BY <2>17 DEF TcpTimeout, Tidy, BlobCode, MqttCode, store, local, history
  <2>18. CASE UNCHANGED vars
    BY <2>18 DEF vars, Tidy, BlobCode, MqttCode
  <2> QED
    BY <2>1, <2>2, <2>3, <2>4, <2>5, <2>6, <2>7, <2>8, <2>9, <2>10, <2>11, <2>12, <2>13,
       <2>14, <2>15, <2>16, <2>17, <2>18 DEF Next, Handler
<1> QED
  BY <1>1, <1>2, TypeCorrect, TidyEncodes, PTL DEF Spec

-----------------------------------------------------------------------------
(* Handlers that do not overlap *)

\* At most one thread is inside a handler: the library delivers from any
\* number of threads, one notification at a time.
Serialized == \A s, t \in Threads : pc[s] # "idle" /\ pc[t] # "idle" => s = t

Sat(n) == IF n > 15 THEN 15 ELSE n

\* A code reports the outage the history variables record.
Reports(code) ==
  /\ code.count = Sat(fails)
  /\ "recv" \in errs => code.recv
  /\ "send" \in errs => code.send
  /\ code.time = ("time" \in errs)

\* The counter and the flags record the outage until the recovery, which has
\* merged them into its local code, clears them.
Outage ==
  /\ OutageCountClear
  /\ (\A t \in Threads : pc[t] # "okSetMqtt") => cnt = Sat(fails) /\ flags = errs
  /\ \A t \in Threads :
       /\ pc[t] = "okSetMqtt" => cnt = 0 /\ flags = {}
       /\ pc[t] \in {"okClear", "okSetMqtt"} => Reports(rMqtt[t])
       /\ pc[t] = "failStore" => rMqtt[t].count = 0
       /\ pc[t] = "failCount" => mqtt.count = 0

\* The outage invariant holds initially ...
LEMMA OutageInit == Init => Outage
  BY DEF Init, Outage, OutageCountClear, Sat, InitMqtt

\* ... and is kept by every step.
LEMMA OutageStep ==
  ASSUME Serialized, Serialized', TypeOK, Outage, [Next]_vars
  PROVE  Outage'
<1>1. ASSUME NEW t \in Threads, BlobSuccess(t) PROVE Outage'
  BY <1>1 DEF Serialized, TypeOK, Outage, OutageCountClear, Reports, Sat,
     MQTT_RECONNECT_CNT_MAX, BlobSuccess, Deliver, Goto, globals, history
<1>2. ASSUME NEW t \in Threads, BlobHttpError(t) PROVE Outage'
  BY <1>2 DEF Serialized, TypeOK, Outage, OutageCountClear, Reports, Sat,
     MQTT_RECONNECT_CNT_MAX, BlobHttpError, Deliver, Goto, Unless, globals, history
<1>3. ASSUME NEW t \in Threads, BlobOtherError(t) PROVE Outage'
  BY <1>3 DEF Serialized, TypeOK, Outage, OutageCountClear, Reports, Sat,
     MQTT_RECONNECT_CNT_MAX, BlobOtherError, Deliver, Goto, Unless, globals, history
<1>4. ASSUME NEW t \in Threads, BlobSet(t) PROVE Outage'
  BY <1>4 DEF Serialized, TypeOK, Outage, OutageCountClear, Reports, Sat,
     MQTT_RECONNECT_CNT_MAX, BlobSet, SetBlob, Return, Goto, globals, history
<1>5. ASSUME NEW t \in Threads, NetworkError(t) PROVE Outage'
  BY <1>5 DEF Serialized, TypeOK, Outage, OutageCountClear, Reports, Sat,
     MQTT_RECONNECT_CNT_MAX, NetworkError, Deliver, Goto, Unless, globals, history
<1>6. ASSUME NEW t \in Threads, NetworkSet(t) PROVE Outage'
  BY <1>6 DEF Serialized, TypeOK, Outage, OutageCountClear, Reports, Sat,
     MQTT_RECONNECT_CNT_MAX, NetworkSet, SetBlob, Return, Goto, globals, history
<1>7. ASSUME NEW t \in Threads, MqttOk(t) PROVE Outage'
  BY <1>7 DEF Serialized, TypeOK, Outage, OutageCountClear, Reports, Sat,
     MQTT_RECONNECT_CNT_MAX, MqttOk, Deliver, Goto, Unless, globals, history
<1>8. ASSUME NEW t \in Threads, OkGetBlob(t) PROVE Outage'
  BY <1>8 DEF Serialized, TypeOK, Outage, OutageCountClear, Reports, Sat,
     MQTT_RECONNECT_CNT_MAX, OkGetBlob, Goto, Unless, store, globals, history
<1>9. ASSUME NEW t \in Threads, OkTest(t) PROVE Outage'
  <2>1. rMqtt'[t] = Recovered(rMqtt[t])
    BY <1>9 DEF OkTest, TypeOK
  <2>2. pc[t] = "okTest" /\ \A s \in Threads \ {t} : pc[s] = "idle"
    BY <1>9 DEF OkTest, Serialized
  <2>3. cnt = Sat(fails) /\ flags = errs
    BY <1>9, <2>2 DEF Outage, OkTest
  <2>4. cnt % 16 = cnt
    BY DEF TypeOK, MQTT_RECONNECT_CNT_MAX
  <2>5. /\ Recovered(rMqtt[t]).count = Sat(fails)
        /\ "recv" \in errs => Recovered(rMqtt[t]).recv
        /\ "send" \in errs => Recovered(rMqtt[t]).send
    BY <2>3, <2>4 DEF Recovered
  <2>6. Recovered(rMqtt[t]).time = ("time" \in errs)
    BY <2>3 DEF Recovered
  <2>7. UNCHANGED <<fails, errs, cnt, flags, mqtt>> /\ pc' = [pc EXCEPT ![t] = "okClear"]
    BY <1>9 DEF OkTest, Goto, store, globals, history
  <2>8. Reports(rMqtt[t])'
    BY <2>1, <2>5, <2>6, <2>7 DEF Reports, Sat
  <2>9. pc'[t] = "okClear"
    BY <2>7 DEF TypeOK
  <2> QED
    BY <2>3, <2>7, <2>2, <2>8, <2>9 DEF Outage, OutageCountClear, Sat
<1>10. ASSUME NEW t \in Threads, OkClear(t) PROVE Outage'
  BY <1>10 DEF Serialized, TypeOK, Outage, OutageCountClear, Reports, Sat,
     MQTT_RECONNECT_CNT_MAX, OkClear, Goto, store, history
<1>11. ASSUME NEW t \in Threads, OkSetMqtt(t) PROVE Outage'
  BY <1>11 DEF Serialized, TypeOK, Outage, OutageCountClear, Reports, Sat,
     MQTT_RECONNECT_CNT_MAX, OkSetMqtt, SetMqtt, Goto, globals
<1>12. ASSUME NEW t \in Threads, OkSetBlob(t) PROVE Outage'
  BY <1>12 DEF Serialized, TypeOK, Outage, OutageCountClear, Reports, Sat,
     MQTT_RECONNECT_CNT_MAX, OkSetBlob, SetBlob, Return, Goto, globals, history
<1>13. ASSUME NEW t \in Threads, MqttError(t) PROVE Outage'
  BY <1>13 DEF Serialized, TypeOK, Outage, OutageCountClear, Reports, Sat,
     MQTT_RECONNECT_CNT_MAX, MqttError, Deliver, Goto, Unless, globals, history
<1>14. ASSUME NEW t \in Threads, FailFlags(t) PROVE Outage'
  BY <1>14 DEF Serialized, TypeOK, Outage, OutageCountClear, Reports, Sat,
     MQTT_RECONNECT_CNT_MAX, FailFlags, NewOutage, Goto, store
<1>15. ASSUME NEW t \in Threads, FailStore(t) PROVE Outage'
  BY <1>15 DEF Serialized, TypeOK, Outage, OutageCountClear, Reports, Sat,
     MQTT_RECONNECT_CNT_MAX, FailStore, SetMqtt, Goto, globals, history
<1>16. ASSUME NEW t \in Threads, FailCount(t) PROVE Outage'
  BY <1>16 DEF Serialized, TypeOK, Outage, OutageCountClear, Reports, Sat,
     MQTT_RECONNECT_CNT_MAX, FailCount, Increment, Return, Goto, store
<1>17. CASE TcpTimeout
  BY <1>17 DEF TcpTimeout, Outage, OutageCountClear, Reports, Sat, MQTT_RECONNECT_CNT_MAX,
     store, local, history
<1>18. CASE UNCHANGED vars
  BY <1>18 DEF vars, Outage, OutageCountClear, Reports, Sat, MQTT_RECONNECT_CNT_MAX
<1> QED
  BY <1>1, <1>2, <1>3, <1>4, <1>5, <1>6, <1>7, <1>8, <1>9, <1>10, <1>11, <1>12, <1>13,
     <1>14, <1>15, <1>16, <1>17, <1>18 DEF Next, Handler

\* While an outage lasts, the stored MQTT code shows no reconnection count.
THEOREM OutageCountAlwaysClear ==
  Spec /\ []Serialized => []OutageCountClear
<1>1. Outage => OutageCountClear
  BY DEF Outage
<1> QED
  BY <1>1, OutageInit, OutageStep, TypeCorrect, PTL DEF Spec

\* A recovery reports the outage it ends: the saturated count, every buffer
\* error, and exactly the invalid times.
THEOREM OutageAlwaysReported ==
  Spec /\ []Serialized => OutageReported
<1> DEFINE Report ==
      \A t \in Threads : pc[t] = "okSetMqtt" /\ pc'[t] = "okSetBlob" =>
        /\ mqtt'.count = IF fails > 15 THEN 15 ELSE fails
        /\ "recv" \in errs => mqtt'.recv
        /\ "send" \in errs => mqtt'.send
        /\ mqtt'.time = ("time" \in errs)
<1>1. Serialized /\ Serialized' /\ TypeOK /\ Outage /\ [Next]_vars => [Report]_vars
  <2> SUFFICES ASSUME Serialized, TypeOK, Outage, Next,
                      NEW t \in Threads, pc[t] = "okSetMqtt", pc'[t] = "okSetBlob"
               PROVE  /\ mqtt'.count = IF fails > 15 THEN 15 ELSE fails
                      /\ "recv" \in errs => mqtt'.recv
                      /\ "send" \in errs => mqtt'.send
                      /\ mqtt'.time = ("time" \in errs)
    BY DEF vars
  <2>1. OkSetMqtt(t)
    <3>1. PICK s \in Threads : Handler(s)
      BY DEF Next, TcpTimeout, local
    <3>2. CASE s # t
      <4>1. pc[s] = "idle"
        BY <3>2 DEF Serialized
      <4>2. \E label : Deliver(s, label)
        BY <3>1, <4>1 DEF Handler, BlobSuccess, BlobHttpError, BlobOtherError, BlobSet,
           NetworkError, NetworkSet, MqttOk, OkGetBlob, OkTest, OkClear, OkSetMqtt, OkSetBlob,
           MqttError, FailFlags, FailStore, FailCount
      <4> QED
        BY <3>2, <4>2 DEF Deliver, Goto, TypeOK
    <3>3. CASE s = t
      BY <3>1, <3>3 DEF Handler, BlobSuccess, BlobHttpError, BlobOtherError, BlobSet,
         NetworkError, NetworkSet, MqttOk, OkGetBlob, OkTest, OkClear, OkSetMqtt, OkSetBlob,
         MqttError, FailFlags, FailStore, FailCount, Deliver
    <3> QED
      BY <3>2, <3>3
  <2>2. mqtt' = rMqtt[t]
    BY <2>1 DEF OkSetMqtt, SetMqtt
  <2>3. Reports(rMqtt[t])
    BY DEF Outage
  <2> QED
    BY <2>2, <2>3 DEF Reports, Sat
<1> QED
  BY <1>1, OutageInit, OutageStep, TypeCorrect, PTL DEF Spec, OutageReported

\* What the code a handler is about to store has kept of the stored one.
LowBits ==
  \A t \in Threads :
    /\ pc[t] \in {"blobSet", "netSet"} => rBlob[t].tcp = blob.tcp
    /\ pc[t] \in {"netSet", "okTest", "okClear", "okSetMqtt", "okSetBlob"} /\ blob.ssl =>
         rBlob[t].ssl
    /\ pc[t] = "blobSet" /\ blob.ssl => rBlob[t].ssl \/ rBlob[t].kind = Success

\* The low-bits invariant holds initially ...
LEMMA LowBitsInit == Init => LowBits
  BY DEF Init, LowBits

\* ... and is kept by every step.
LEMMA LowBitsStep ==
  ASSUME Serialized, Serialized', TypeOK, LowBits, [Next]_vars
  PROVE  LowBits'
<1>1. ASSUME NEW t \in Threads, BlobSuccess(t) PROVE LowBits'
  BY <1>1 DEF Serialized, TypeOK, BlobCode, LowBits, BlobSuccess, AfterSuccess, Deliver,
     Goto, globals, history
<1>2. ASSUME NEW t \in Threads, BlobHttpError(t) PROVE LowBits'
  BY <1>2 DEF Serialized, TypeOK, BlobCode, LowBits, BlobHttpError, AfterHttpError, Deliver,
     Goto, Unless, globals, history
<1>3. ASSUME NEW t \in Threads, BlobOtherError(t) PROVE LowBits'
  BY <1>3 DEF Serialized, TypeOK, BlobCode, LowBits, BlobOtherError, AfterOtherError,
     Deliver, Goto, Unless, globals, history
<1>4. ASSUME NEW t \in Threads, BlobSet(t) PROVE LowBits'
  BY <1>4 DEF Serialized, TypeOK, BlobCode, LowBits, BlobSet, SetBlob, Return, Goto, globals,
     history
<1>5. ASSUME NEW t \in Threads, NetworkError(t) PROVE LowBits'
  BY <1>5 DEF Serialized, TypeOK, BlobCode, LowBits, NetworkError, Deliver, Goto, Unless,
     globals, history
<1>6. ASSUME NEW t \in Threads, NetworkSet(t) PROVE LowBits'
  BY <1>6 DEF Serialized, TypeOK, BlobCode, LowBits, NetworkSet, SetBlob, Return, Goto,
     globals, history
<1>7. ASSUME NEW t \in Threads, MqttOk(t) PROVE LowBits'
  BY <1>7 DEF Serialized, TypeOK, BlobCode, LowBits, MqttOk, Deliver, Goto, Unless, globals,
     history
<1>8. ASSUME NEW t \in Threads, OkGetBlob(t) PROVE LowBits'
  BY <1>8 DEF Serialized, TypeOK, BlobCode, LowBits, OkGetBlob, Goto, Unless, store, globals,
     history
<1>9. ASSUME NEW t \in Threads, OkTest(t) PROVE LowBits'
  BY <1>9 DEF Serialized, TypeOK, BlobCode, LowBits, OkTest, Goto, store, globals, history
<1>10. ASSUME NEW t \in Threads, OkClear(t) PROVE LowBits'
  BY <1>10 DEF Serialized, TypeOK, BlobCode, LowBits, OkClear, Goto, store, history
<1>11. ASSUME NEW t \in Threads, OkSetMqtt(t) PROVE LowBits'
  BY <1>11 DEF Serialized, TypeOK, BlobCode, LowBits, OkSetMqtt, SetMqtt, Goto, globals
<1>12. ASSUME NEW t \in Threads, OkSetBlob(t) PROVE LowBits'
  BY <1>12 DEF Serialized, TypeOK, BlobCode, LowBits, OkSetBlob, SetBlob, Return, Goto,
     globals, history
<1>13. ASSUME NEW t \in Threads, MqttError(t) PROVE LowBits'
  BY <1>13 DEF Serialized, TypeOK, BlobCode, LowBits, MqttError, Deliver, Goto, Unless,
     globals, history
<1>14. ASSUME NEW t \in Threads, FailFlags(t) PROVE LowBits'
  BY <1>14 DEF Serialized, TypeOK, BlobCode, LowBits, FailFlags, Goto, store
<1>15. ASSUME NEW t \in Threads, FailStore(t) PROVE LowBits'
  BY <1>15 DEF Serialized, TypeOK, BlobCode, LowBits, FailStore, SetMqtt, Goto, globals,
     history
<1>16. ASSUME NEW t \in Threads, FailCount(t) PROVE LowBits'
  BY <1>16 DEF Serialized, TypeOK, BlobCode, LowBits, FailCount, Increment, Return, Goto,
     store
<1>17. CASE TcpTimeout
  BY <1>17 DEF TcpTimeout, LowBits, store, local, history
<1>18. CASE UNCHANGED vars
  BY <1>18 DEF vars, LowBits
<1> QED
  BY <1>1, <1>2, <1>3, <1>4, <1>5, <1>6, <1>7, <1>8, <1>9, <1>10, <1>11, <1>12, <1>13,
     <1>14, <1>15, <1>16, <1>17, <1>18 DEF Next, Handler

\* A blob result or a network error never changes the TCP bit, and only a
\* successful blob operation clears the ssl bit.
THEOREM LowBitsAlwaysKept ==
  Spec /\ []Serialized => LowBitsKept
<1> DEFINE Kept ==
      /\ blob'.tcp # blob.tcp => \E t \in Threads : pc[t] = "okSetBlob"
      /\ blob.ssl /\ ~blob'.ssl => blob'.kind = Success
<1>1. TypeOK /\ LowBits /\ [Next]_vars => [Kept]_vars
  <2> SUFFICES ASSUME TypeOK, LowBits, Next PROVE Kept
    BY DEF vars
  <2>1. ASSUME NEW t \in Threads, pc[t] \in {"blobSet", "netSet", "okSetBlob"},
               blob' = rBlob[t]
        PROVE  Kept
    BY <2>1 DEF LowBits
  <2>2. \/ UNCHANGED blob
        \/ \E t \in Threads : /\ pc[t] \in {"blobSet", "netSet", "okSetBlob"}
                              /\ blob' = rBlob[t]
    BY DEF Next, Handler, TcpTimeout, store, BlobSuccess, BlobHttpError, BlobOtherError,
       BlobSet, NetworkError, NetworkSet, MqttOk, OkGetBlob, OkTest, OkClear, OkSetMqtt,
       OkSetBlob, MqttError, FailFlags, FailStore, FailCount, Deliver, SetBlob, SetMqtt
  <2> QED
    BY <2>1, <2>2
<1> QED
  BY <1>1, LowBitsInit, LowBitsStep, TypeCorrect, PTL DEF Spec, LowBitsKept

-----------------------------------------------------------------------------
(* Codes and bytes *)

\* The two flag bits below the detail of a blob code, and the four below the
\* count of an MQTT code, are a number from which each flag can be read.
LEMMA TwoBits ==
  ASSUME NEW a \in BOOLEAN, NEW b \in BOOLEAN, NEW c \in BOOLEAN, NEW d \in BOOLEAN
  PROVE  /\ Bit(a, 2) + Bit(b, 1) \in 0..3
         /\ Bit(a, 2) + Bit(b, 1) = Bit(c, 2) + Bit(d, 1) => a = c /\ b = d
<1>1. Bit(a, 2) \in {0, 2} /\ Bit(b, 1) \in {0, 1} /\ Bit(c, 2) \in {0, 2} /\ Bit(d, 1) \in {0, 1}
  BY DEF Bit
<1>2. /\ Bit(a, 2) = Bit(c, 2) => a = c
      /\ Bit(b, 1) = Bit(d, 1) => b = d
  BY DEF Bit
<1>3. \A i, k \in {0, 2} : \A j, l \in {0, 1} :
        i + j \in 0..3 /\ (i + j = k + l => i = k /\ j = l)
  OBVIOUS
<1> QED
  BY <1>1, <1>2, <1>3

\* The same for the four bits of an MQTT code.
LEMMA FourBits ==
  ASSUME NEW c \in MqttCode, NEW d \in MqttCode
  PROVE  /\ Bit(c.recv, 8) + Bit(c.send, 4) + Bit(c.time, 2) + Bit(c.forced, 1) \in 0..15
         /\ Bit(c.recv, 8) + Bit(c.send, 4) + Bit(c.time, 2) + Bit(c.forced, 1)
              = Bit(d.recv, 8) + Bit(d.send, 4) + Bit(d.time, 2) + Bit(d.forced, 1)
            => c.recv = d.recv /\ c.send = d.send /\ c.time = d.time /\ c.forced = d.forced
<1>1. \A x \in MqttCode : /\ Bit(x.recv, 8) \in {0, 8} /\ Bit(x.send, 4) \in {0, 4}
                          /\ Bit(x.time, 2) \in {0, 2} /\ Bit(x.forced, 1) \in {0, 1}
  BY DEF Bit, MqttCode
<1>2. /\ Bit(c.recv, 8) = Bit(d.recv, 8) => c.recv = d.recv
      /\ Bit(c.send, 4) = Bit(d.send, 4) => c.send = d.send
      /\ Bit(c.time, 2) = Bit(d.time, 2) => c.time = d.time
      /\ Bit(c.forced, 1) = Bit(d.forced, 1) => c.forced = d.forced
  BY DEF Bit, MqttCode
<1>3. \A h, p \in {0, 8} : \A i, q \in {0, 4} : \A j, r \in {0, 2} : \A k, t \in {0, 1} :
        /\ h + i + j + k \in 0..15
        /\ h + i + j + k = p + q + r + t => h = p /\ i = q /\ j = r /\ k = t
  OBVIOUS
<1> QED
  BY <1>1, <1>2, <1>3

\* The byte log.c stores tells the codes of the model apart, so comparing
\* records is what SystemSetELog does when it compares bytes: a code fits in
\* eight bits and no two codes share a byte.
THEOREM BytesFaithful ==
  /\ \A c \in BlobCode : EncodeBlob(c) \in 64..255
  /\ \A c, d \in BlobCode : EncodeBlob(c) = EncodeBlob(d) => c = d
  /\ \A c \in MqttCode : EncodeMqtt(c) \in 0..255
  /\ \A c, d \in MqttCode : EncodeMqtt(c) = EncodeMqtt(d) => c = d
<1>1. ASSUME NEW c \in BlobCode, NEW d \in BlobCode
      PROVE  EncodeBlob(c) \in 64..255 /\ (EncodeBlob(c) = EncodeBlob(d) => c = d)
  <2> DEFINE X == Bit(c.tcp, 2) + Bit(c.ssl, 1)
             Y == Bit(d.tcp, 2) + Bit(d.ssl, 1)
  <2>1. /\ c.kind \in 1..3 /\ d.kind \in 1..3 /\ c.detail \in 0..15 /\ d.detail \in 0..15
        /\ c.tcp \in BOOLEAN /\ d.tcp \in BOOLEAN /\ c.ssl \in BOOLEAN /\ d.ssl \in BOOLEAN
    BY DEF BlobCode
  <2>2. X \in 0..3 /\ Y \in 0..3 /\ (X = Y => c.tcp = d.tcp /\ c.ssl = d.ssl)
    BY <2>1, TwoBits
  <2>3. EncodeBlob(c) = 64 * c.kind + 4 * c.detail + X
    BY <2>1 DEF EncodeBlob, Bit
  <2>4. EncodeBlob(d) = 64 * d.kind + 4 * d.detail + Y
    BY <2>1 DEF EncodeBlob, Bit
  <2>5. ASSUME c.kind = d.kind, c.detail = d.detail, c.tcp = d.tcp, c.ssl = d.ssl
        PROVE  c = d
    <3>1. \A x \in BlobCode :
            x = [kind |-> x.kind, detail |-> x.detail, tcp |-> x.tcp, ssl |-> x.ssl]
      BY DEF BlobCode
    <3> QED
      BY <2>5, <3>1
  <2> HIDE DEF X, Y
  <2>6. PICK k \in 1..3, m \in 0..15, x \in 0..3 :
          k = c.kind /\ m = c.detail /\ x = X /\ EncodeBlob(c) = 64 * k + 4 * m + x
    BY <2>1, <2>2, <2>3
  <2>7. PICK l \in 1..3, n \in 0..15, y \in 0..3 :
          l = d.kind /\ n = d.detail /\ y = Y /\ EncodeBlob(d) = 64 * l + 4 * n + y
    BY <2>1, <2>2, <2>4
  <2>8. EncodeBlob(c) \in 64..255
    BY <2>6
  <2>9. 64 * k + 4 * m + x = 64 * l + 4 * n + y => k = l /\ m = n /\ x = y
    OBVIOUS
  <2> QED
    BY <2>2, <2>5, <2>6, <2>7, <2>8, <2>9, Zenon
<1>2. ASSUME NEW c \in MqttCode, NEW d \in MqttCode
      PROVE  EncodeMqtt(c) \in 0..255 /\ (EncodeMqtt(c) = EncodeMqtt(d) => c = d)
  <2> DEFINE X == Bit(c.recv, 8) + Bit(c.send, 4) + Bit(c.time, 2) + Bit(c.forced, 1)
             Y == Bit(d.recv, 8) + Bit(d.send, 4) + Bit(d.time, 2) + Bit(d.forced, 1)
  <2>1. c.count \in 0..15 /\ d.count \in 0..15
    BY DEF MqttCode
  <2>2. /\ X \in 0..15 /\ Y \in 0..15
        /\ X = Y => c.recv = d.recv /\ c.send = d.send /\ c.time = d.time /\ c.forced = d.forced
    BY FourBits
  <2>3. EncodeMqtt(c) = 16 * c.count + X
    BY <2>1 DEF EncodeMqtt, Bit
  <2>4. EncodeMqtt(d) = 16 * d.count + Y
    BY <2>1 DEF EncodeMqtt, Bit
  <2>5. ASSUME c.count = d.count, c.recv = d.recv, c.send = d.send, c.time = d.time,
               c.forced = d.forced
        PROVE  c = d
    <3>1. \A x \in MqttCode :
            x = [count |-> x.count, recv |-> x.recv, send |-> x.send, time |-> x.time,
                 forced |-> x.forced]
      BY DEF MqttCode
    <3> QED
      BY <2>5, <3>1
  <2> HIDE DEF X, Y
  <2>6. PICK m \in 0..15, x \in 0..15 :
          m = c.count /\ x = X /\ EncodeMqtt(c) = 16 * m + x
    BY <2>1, <2>2, <2>3
  <2>7. PICK n \in 0..15, y \in 0..15 :
          n = d.count /\ y = Y /\ EncodeMqtt(d) = 16 * n + y
    BY <2>1, <2>2, <2>4
  <2>8. EncodeMqtt(c) \in 0..255
    BY <2>6
  <2>9. 16 * m + x = 16 * n + y => m = n /\ x = y
    OBVIOUS
  <2> QED
    BY <2>2, <2>5, <2>6, <2>7, <2>8, <2>9, Zenon
<1> QED
  BY <1>1, <1>2

\* A status or errno with an entry in its table has a code that no other
\* value shares: only values without an entry share one.
LEMMA FieldFaithful ==
  ASSUME NEW table, Len(table) \in Nat, NEW x, NEW y,
         \E i \in 1..Len(table) : table[i] = x,
         Field(table, x) = Field(table, y)
  PROVE  x = y
<1>1. PICK n \in Nat : n = Len(table)
  OBVIOUS
<1>2. Field(table, x) \in 1..n /\ table[Field(table, x)] = x
  BY <1>1 DEF Field
<1>3. CASE \E i \in 1..Len(table) : table[i] = y
  <2>1. table[Field(table, y)] = y
    BY <1>3 DEF Field
  <2> QED
    BY <1>2, <2>1
<1>4. CASE ~ \E i \in 1..Len(table) : table[i] = y
  <2>1. Field(table, y) = n + 1
    BY <1>1, <1>4 DEF Field
  <2> QED
    BY <1>2, <2>1
<1> QED
  BY <1>3, <1>4

\* The detail a failed blob operation stores names the HTTP status or the
\* errno it failed with, for every value its handler has a case for in its
\* switch: another outcome is stored as another byte.
THEOREM FailuresToldApart ==
  ASSUME NEW code \in BlobCode
  PROVE  /\ \A i \in 1..Len(HttpTable) : \A x :
              EncodeBlob(AfterHttpError(code, HttpTable[i])) = EncodeBlob(AfterHttpError(code, x))
              => x = HttpTable[i]
         /\ \A i \in 1..Len(ErrnoTable) : \A x :
              EncodeBlob(AfterOtherError(code, ErrnoTable[i])) = EncodeBlob(AfterOtherError(code, x))
              => x = ErrnoTable[i]
         /\ \A x, y : EncodeBlob(AfterHttpError(code, x)) # EncodeBlob(AfterOtherError(code, y))
<1>1. \A x, y : EncodeBlob(AfterHttpError(code, x)) # EncodeBlob(AfterOtherError(code, y))
  <2> SUFFICES ASSUME NEW x, NEW y,
                      EncodeBlob(AfterHttpError(code, x)) = EncodeBlob(AfterOtherError(code, y))
               PROVE  FALSE
    OBVIOUS
  <2>1. AfterHttpError(code, x) = AfterOtherError(code, y)
    BY BlobCodes, BytesFaithful
  <2> QED
    BY <2>1 DEF AfterHttpError, AfterOtherError, HttpFail, OtherFail
<1>2. ASSUME NEW i \in 1..Len(HttpTable), NEW x,
             EncodeBlob(AfterHttpError(code, HttpTable[i])) = EncodeBlob(AfterHttpError(code, x))
      PROVE  x = HttpTable[i]
  <2>1. AfterHttpError(code, HttpTable[i]) = AfterHttpError(code, x)
    BY <1>2, BlobCodes, BytesFaithful
  <2>2. Field(HttpTable, HttpTable[i]) = Field(HttpTable, x)
    BY <2>1 DEF AfterHttpError
  <2>3. Len(HttpTable) \in Nat
    BY DEF HttpTable
  <2> QED
    BY <2>2, <2>3, FieldFaithful
<1>3. ASSUME NEW i \in 1..Len(ErrnoTable), NEW x,
             EncodeBlob(AfterOtherError(code, ErrnoTable[i])) = EncodeBlob(AfterOtherError(code, x))
      PROVE  x = ErrnoTable[i]
  <2>1. AfterOtherError(code, ErrnoTable[i]) = AfterOtherError(code, x)
    BY <1>3, BlobCodes, BytesFaithful
  <2>2. Field(ErrnoTable, ErrnoTable[i]) = Field(ErrnoTable, x)
    BY <2>1 DEF AfterOtherError
  <2>3. Len(ErrnoTable) \in Nat
    BY DEF ErrnoTable
  <2> QED
    BY <2>2, <2>3, FieldFaithful
<1> QED
  BY <1>1, <1>2, <1>3
=============================================================================
