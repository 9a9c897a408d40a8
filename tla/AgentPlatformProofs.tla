------------------------- MODULE AgentPlatformProofs -------------------------
(***************************************************************************)
(* The safety properties of AgentPlatform for every set of certificate     *)
(* pairs, proxy settings, message lengths and scenarios: one inductive     *)
(* invariant in four parts (types, the reader, the handler, the debug      *)
(* log), each of them preserved by every action.                           *)
(***************************************************************************)
EXTENDS AgentPlatform, DLogProofs

\* Two tuples that no step needs to keep together
USE DEF proxy, history

\* i counts the statuses written by the loop the handler is in.
LoopIndex ==
  /\ pc \notin {"leds", "done"} => i = 1
  /\ pc = "leds" => i <= 4

Types ==
  /\ SettingsTypeOK
  /\ pc \in PC
  /\ ConfigTypeOK
  /\ StatusTypeOK
  /\ LoopIndex
  /\ scenario \in Scenarios

-----------------------------------------------------------------------------
(* Types                                                                   *)

\* The device is purged, no process runs.
LEMMA TypesInit == Init => Types
<1> SUFFICES ASSUME Init PROVE Types
  OBVIOUS
<1>1. SettingsTypeOK
  BY DEF Init, SettingsInit, SettingsTypeOK, Rows, NoRows, File
<1>2. got \in [TlsKey -> Value]
  BY DEF Init, ProcessInit, ConfigInit, Value
<1>3. ConfigTypeOK /\ pc \in PC
  <2>1. failed \in BOOLEAN
    BY Zenon DEF Init, ProcessInit, ConfigInit
  <2> QED
    BY <1>2, <2>1 DEF Init, ProcessInit, ConfigInit, ConfigTypeOK, PC, Key, Value
<1>4. StatusTypeOK
  <2>1. idSet \in BOOLEAN /\ stable \in BOOLEAN
    BY Zenon DEF Init, ProcessInit, StatusInit
  <2> QED
    BY <2>1 DEF Init, ProcessInit, StatusInit, StatusTypeOK
<1> QED
  BY <1>1, <1>3, <1>4 DEF Init, ProcessInit, ConfigInit, StatusInit, Types, LoopIndex

\* Every action keeps the types.
LEMMA TypesStep == Types /\ [Next]_vars => Types'
<1> SUFFICES ASSUME Types, [Next]_vars PROVE Types'
  OBVIOUS
<1> USE DEF Types, LoopIndex
<1>1. CASE Change
  <2>1. SettingsTypeOK'
    BY <1>1 DEF Change, UserStep, UpdatePsmDb, ChangeFile, SettingsTypeOK, Rows, File, Url, Tls
  <2>2. ConfigTypeOK'
    BY <1>1 DEF Change, ConfigTypeOK, Meaning, reader
  <2>3. StatusTypeOK'
    <3>1. stable' \in BOOLEAN /\ old' \in SUBSET Rows
      BY <1>1, <2>1 DEF Change, Remember, SettingsTypeOK, StatusTypeOK
    <3> QED
      BY <1>1, <3>1 DEF Change, StatusTypeOK
  <2> QED
    BY <1>1, <2>1, <2>2, <2>3 DEF Change, PC
<1>2. CASE PackageStep
  <2>1. ASSUME Unpack \/ TouchCert \/ TouchKey PROVE SettingsTypeOK'
    BY <2>1 DEF Unpack, TouchCert, TouchKey, Touch, SettingsTypeOK, File, Kind
  <2>2. ASSUME SetDefaultUrl PROVE SettingsTypeOK'
    BY <2>2 DEF SetDefaultUrl, SettingsTypeOK, Rows, Url
  <2>3. ASSUME SetDefaultTls PROVE SettingsTypeOK'
    BY <2>3 DEF SetDefaultTls, SettingsTypeOK, Rows, Tls
  <2>4. ASSUME Purge PROVE SettingsTypeOK'
    <3>1. NoRows \in Rows
      BY DEF NoRows, Rows
    <3>2. row' \in Rows /\ files' \in SUBSET File /\ package' \in {"purging", "purged"}
      BY <2>4, <3>1 DEF Purge, PurgeRows, PurgeFiles, SettingsTypeOK
    <3> QED
      BY <3>2 DEF SettingsTypeOK
  <2>5. SettingsTypeOK'
    BY <1>2, <2>1, <2>2, <2>3, <2>4 DEF PackageStep, Postinst
  <2> QED
    BY <1>2, <2>5 DEF PackageStep, process, config, reader, attempt, handler, ConfigTypeOK,
                      StatusTypeOK, PC
<1>3. CASE StartAgent
  BY <1>3 DEF StartAgent, settings, reader, attempt, handler, SettingsTypeOK, ConfigTypeOK,
              StatusTypeOK, PC
<1>4. CASE ProcessEnds
  <2>1. SettingsTypeOK'
    BY <1>4 DEF ProcessEnds, settings, SettingsTypeOK
  <2>2. got' \in [TlsKey -> Value]
    BY <1>4 DEF ProcessEnds, Value
  <2>3. ConfigTypeOK'
    <3>1. failed' \in BOOLEAN
      BY <1>4, Zenon DEF ProcessEnds
    <3> QED
      BY <1>4, <2>2, <3>1 DEF ProcessEnds, ConfigTypeOK, Key, Value
  <2>4. StatusTypeOK'
    <3>1. idSet' \in BOOLEAN /\ stable' \in BOOLEAN
      BY <1>4, Zenon DEF ProcessEnds
    <3> QED
      BY <1>4, <3>1 DEF ProcessEnds, StatusTypeOK
  <2> QED
    BY <1>4, <2>1, <2>3, <2>4 DEF ProcessEnds, PC
<1>5. CASE ThreadStep
  <2>1. CASE InitProxyCache /\ UNCHANGED <<led, handler, dlog, settings, scenario>>
    <3>1. SettingsTypeOK' /\ StatusTypeOK' /\ scenario' \in Scenarios /\ i' = i
      BY <2>1 DEF handler, settings, SettingsTypeOK, StatusTypeOK
    <3>2. /\ phase' \in ProxyPhase \cup {"up", "ended"} /\ UNCHANGED <<pc, reader, attempt>>
          /\ heap' \in SUBSET ({"prm"} \cup heap)
          /\ cache' \in SUBSET ({"host", "port", "username", "password"} \cup cache)
      BY <2>1 DEF InitProxyCache, AllocProxy, LoadProxy, SaveField, SaveHost, SavePort,
                  SaveUsername, SavePassword, EndProxy, GotoEnd, Deinit, ProxyPhase
    <3>3. prm' \in SUBSET ProxyField
      BY <2>1, ConfigAssumption
         DEF InitProxyCache, AllocProxy, LoadProxy, SaveField, SaveHost, SavePort, SaveUsername,
             SavePassword, EndProxy, ConfigTypeOK
    <3>4. failed' \in BOOLEAN
      BY <2>1 DEF InitProxyCache, AllocProxy, LoadProxy, SaveField, SaveHost, SavePort,
                  SaveUsername, SavePassword, EndProxy, GotoEnd, ConfigTypeOK
    <3> QED
      BY <3>1, <3>2, <3>3, <3>4 DEF reader, attempt, ConfigTypeOK, ProxyKey, PC
  <2>2. CASE DeinitProxyCache /\ UNCHANGED <<led, handler, dlog, settings, scenario>>
    BY <2>2 DEF DeinitProxyCache, Deinit, ProxyKey, reader, attempt, handler,
                settings, SettingsTypeOK, ConfigTypeOK, StatusTypeOK, PC
  <2>3. CASE InitialStatus /\ UNCHANGED <<dlog, settings, scenario>>
    BY <2>3 DEF InitialStatus, Begin, Pass, ReadConfig, Key, Value, reader, attempt, handler,
                settings, SettingsTypeOK, ConfigTypeOK, StatusTypeOK, PC
  <2> QED
    BY <1>5, <2>1, <2>2, <2>3 DEF ThreadStep
<1>6. CASE CallConnect
  <2>1. SettingsTypeOK' /\ StatusTypeOK' /\ scenario' \in Scenarios /\ i' = i
    BY <1>6 DEF CallConnect, settings, handler, SettingsTypeOK, StatusTypeOK
  <2>2. CASE Connect
    <3>1. got' \in [TlsKey -> Value]
      BY <2>2 DEF Connect, Value
    <3> QED
      BY <2>1, <2>2, <3>1 DEF Connect, Meaning, reader, ConfigTypeOK, PC
  <2>3. CASE \E k \in TlsKey : GetConfig(k)
    BY <2>1, <2>3 DEF GetConfig, Pass, ReadConfig, Key, Value, attempt, ConfigTypeOK, PC
  <2> QED
    BY <1>6, <2>2, <2>3 DEF CallConnect
<1>7. CASE CallConfig
  BY <1>7 DEF CallConfig, GetConfig, Pass, ReadConfig, Key, Value, reader,
              attempt, handler, settings, SettingsTypeOK, ConfigTypeOK, StatusTypeOK, PC
<1>8. CASE CallStatus
  BY <1>8 DEF CallStatus, Notify, Begin, Pass, ReadConfig, Key, Value, reader, attempt, handler,
              settings, SettingsTypeOK, ConfigTypeOK, StatusTypeOK, PC
<1>9. CASE CallDlog
  BY <1>9 DEF CallDlog, config, reader, attempt, handler, settings, SettingsTypeOK,
              ConfigTypeOK, StatusTypeOK, PC
<1>10. CASE (ReadStep \/ TakeConfig) /\ UNCHANGED <<led, handler, dlog, settings, scenario>>
  <2>0. SettingsTypeOK' /\ StatusTypeOK' /\ scenario' \in Scenarios /\ i' = i
    BY <1>10 DEF settings, handler, SettingsTypeOK, StatusTypeOK
  <2> USE DEF Pass, reader, attempt, ConfigTypeOK, PC
  <2>1. CASE Gate
    BY <2>0, <2>1 DEF Gate, Meaning, Value
  <2>2. CASE Calloc
    BY <2>0, <2>2 DEF Calloc
  <2>3. CASE Lookup
    BY <2>0, <2>3 DEF Lookup, Answers, Value, SettingsTypeOK, Rows
  <2>4. CASE OpenDir \/ FindFile
    BY <2>0, <2>4 DEF OpenDir, FindFile, FreeRead, SettingsTypeOK, File
  <2>5. CASE OpenFile
    BY <2>0, <2>5 DEF OpenFile, FreeRead
  <2>6. CASE ReadFile
    BY <2>0, <2>6 DEF ReadFile, FreeRead, Content, Value
  <2>7. CASE Wrap
    BY <2>0, <2>7 DEF Wrap, Value
  <2>8. CASE TakeConfig
    BY <2>0, <2>8 DEF TakeConfig, Value, Key, TlsKey
  <2> QED
    BY <1>10, <2>1, <2>2, <2>3, <2>4, <2>5, <2>6, <2>7, <2>8 DEF ReadStep
<1>11. CASE HandlerStep /\ UNCHANGED <<dlog, settings, scenario>>
  <2>0. SettingsTypeOK' /\ scenario' \in Scenarios
    BY <1>11 DEF settings, SettingsTypeOK
  <2> USE DEF Pass, reader, attempt, ConfigTypeOK, PC
  <2>00. ASSUME NEW success, Note(success) PROVE stable' \in BOOLEAN /\ old' \in SUBSET Rows
    BY <2>00 DEF Note, StatusTypeOK
  <2>1. CASE HostTest
    <3>1. stable' \in BOOLEAN /\ old' \in SUBSET Rows
      BY <2>00, <2>1 DEF HostTest
    <3> QED
      BY <2>0, <2>1, <3>1 DEF HostTest, Key, Value, StatusTypeOK
  <2>2. CASE AllocProjectId \/ AllocToken
    <3>1. stable' \in BOOLEAN /\ old' \in SUBSET Rows
      BY <2>00, <2>2 DEF AllocProjectId, AllocToken, Malloc
    <3> QED
      BY <2>0, <2>2, <3>1 DEF AllocProjectId, AllocToken, Malloc, FreeStrings, StatusTypeOK
  <2>3. CASE GetProjectId \/ GetToken
    <3>1. stable' \in BOOLEAN /\ old' \in SUBSET Rows
      BY <2>00, <2>3 DEF GetProjectId, GetToken
    <3>2. idSet' \in BOOLEAN
      BY <2>3 DEF GetProjectId, GetToken, StatusTypeOK, SettingsTypeOK, Rows
    <3>3. /\ pc' \in {"token", "done", "tls"} /\ ret' \in {"skipped", ret}
          /\ heap' \in SUBSET heap /\ UNCHANGED <<phase, proxy, reader, attempt, led, status, want, i>>
          /\ pc # "leds"
      BY <2>3 DEF GetProjectId, GetToken, FreeStrings
    <3>4. pc' = "done" \/ i' = 1
      BY <2>3, <3>3 DEF GetProjectId, GetToken
    <3>5. ConfigTypeOK' /\ pc' \in PC
      BY <3>3
    <3> QED
      BY <2>0, <3>1, <3>2, <3>3, <3>4, <3>5 DEF StatusTypeOK
  <2>4. CASE ReadTls
    <3>1. stable' \in BOOLEAN /\ old' \in SUBSET Rows
      BY <2>00, <2>4 DEF ReadTls
    <3> QED
      BY <2>0, <2>4, <3>1 DEF ReadTls, StatusTypeOK, LedIndex
  <2>5. CASE WriteLed
    <3>1. ConfigTypeOK' /\ pc' \in PC
      BY <2>5 DEF WriteLed
    <3>2. led' \in SUBSET LedStatus
      BY <2>5 DEF WriteLed, StatusTypeOK, SetStatus, LedStatus
    <3>3. i' \in 1 .. 5 /\ ret' \in {"none", "shown", "skipped", "failed"}
      BY <2>5 DEF WriteLed, StatusTypeOK
    <3> QED
      BY <2>0, <2>5, <3>1, <3>2, <3>3 DEF WriteLed, StatusTypeOK
  <2>6. CASE Finish
    <3>1. ConfigTypeOK' /\ pc' \in PC
      <4>1. phase' \in {phase, "ended", "allocProxy"} /\ pc' = "idle"
        BY <2>6 DEF Finish
      <4>2. UNCHANGED <<proxy, reader, heap, attempt>>
        BY <2>6 DEF Finish
      <4> QED
        BY <4>1, <4>2 DEF ProxyPhase
    <3>2. StatusTypeOK'
      <4>1. idSet' \in BOOLEAN /\ stable' \in BOOLEAN
        BY <2>6, Zenon DEF Finish
      <4> QED
        BY <2>6, <4>1 DEF Finish, StatusTypeOK
    <3>3. LoopIndex'
      BY <2>6 DEF Finish
    <3> QED
      BY <2>0, <3>1, <3>2, <3>3
  <2> QED
    BY <1>11, <2>1, <2>2, <2>3, <2>4, <2>5, <2>6 DEF HandlerStep
<1>12. CASE DlogStep /\ UNCHANGED <<config, led, handler, settings, scenario>>
  BY <1>12 DEF config, reader, attempt, handler, settings, SettingsTypeOK,
              ConfigTypeOK, StatusTypeOK, PC
<1>13. CASE UNCHANGED vars
  BY <1>13 DEF vars, process, config, reader, attempt, handler, settings, SettingsTypeOK,
              ConfigTypeOK, StatusTypeOK, PC
<1> QED
  BY <1>1, <1>2, <1>3, <1>4, <1>5, <1>6, <1>7, <1>8, <1>9, <1>10, <1>11, <1>12, <1>13
     DEF Next, CallStep

-----------------------------------------------------------------------------
(* The reader: what a call holds, what it may return, what the cache holds *)

Reading == {"calloc", "lookup", "scan", "open", "read", "wrap"}
ClientKey == {"TLS_CLIENT_CERT", "TLS_CLIENT_KEY"}

CallHeap ==
  /\ pc # "idle" => phase \in {"status", "up"}
  /\ pc \in Reading \cup {"gate"} => back \in {"take", "hostTest"}
  /\ pc = "idle" /\ phase \notin ProxyPhase => heap = {}
  /\ phase \in ProxyPhase => heap \subseteq {"prm"}
  /\ pc \in {"gate", "calloc", "projectId", "tls", "leds", "done"} => heap = {}
  /\ pc \in {"lookup", "wrap"} => heap \subseteq {"buf"}
  /\ pc = "scan" => heap \subseteq {"buf", "dir"}
  /\ pc \in {"open", "read"} => heap \subseteq {"buf", "path", "fd"}
  /\ pc \in {"take", "hostTest"} => heap \subseteq {"buf", "config"}
  /\ pc \in {"getProjectId", "token"} => heap \subseteq {"project_id"}
  /\ pc = "getToken" => heap \subseteq {"project_id", "register_token"}

\* Before each copy the cache holds what the copies before it have given; a
\* failure is only to be seen at the end.
CacheInv ==
  /\ phase \in {"off", "status", "allocProxy", "loadProxy", "saveHost"} => cache = {}
  /\ phase \in {"off", "status"} \cup (ProxyPhase \ {"endProxy"}) => ~failed
  /\ phase = "savePort" => "url" \in prm /\ cache = {"host"}
  /\ phase = "saveUsername" => cache = Cached(prm) \cap {"host", "port"}
  /\ phase = "savePassword" => cache = Cached(prm) \cap {"host", "port", "username"}
  /\ phase = "endProxy" /\ ~failed => cache = Cached(prm)
  /\ phase = "up" => cache = Cached(prm)
  /\ phase = "ended" => cache \subseteq {"port"}

\* Past the gate the setting has been met as "use"; at the gate, as "off".
Attempt ==
  /\ TlsFollowsSetting
  /\ key \in TlsKey /\ pc \in Reading => "use" \in met /\ cfg # Ignored
  /\ key \in TlsKey /\ pc = "take" =>
       /\ cfg = Ignored => "off" \in met
       /\ cfg \notin {Null, Ignored} => "use" \in met

Credentials ==
  /\ CredentialsReal
  /\ key \in ClientKey => cfg \in Pairs \cup {Null, Ignored}

Reader == CallHeap /\ CacheInv /\ Attempt /\ Credentials

\* No call is in progress and nothing is cached.
LEMMA ReaderInit == Init => Reader
BY DEF Init, ProcessInit, ConfigInit, ProxyPhase, Reader, CallHeap, CacheInv, Attempt, Credentials,
       Reading, ClientKey, TlsKey, TlsFollowsSetting, CredentialsReal, Ignored, Null, Unread

\* A step that leaves the reader's variables alone keeps the invariant.
LEMMA ReaderFrame ==
  ASSUME Reader, UNCHANGED <<phase, proxy, pc, reader, heap, attempt>>
  PROVE  Reader'
BY DEF Reader, CallHeap, CacheInv, Attempt, Credentials, reader, attempt,
       TlsFollowsSetting, CredentialsReal, Cached

\* Every action keeps what is known of the reader.
LEMMA ReaderStep == Types /\ Reader /\ [Next]_vars => Reader'
<1> SUFFICES ASSUME Types, Reader, [Next]_vars PROVE Reader'
  OBVIOUS
<1> USE DEF Reader, ProxyPhase
<1>1. CASE Change
  <2>1. met \subseteq met' /\ UNCHANGED <<phase, proxy, pc, reader, heap, got>>
    BY <1>1 DEF Change
  <2> QED
    BY <2>1 DEF CallHeap, CacheInv, Attempt, Credentials, reader, TlsFollowsSetting,
                CredentialsReal, Cached
<1>2. CASE PackageStep
  BY <1>2, ReaderFrame DEF PackageStep, process, config
<1>3. CASE StartAgent
  <2>1. phase = "off" /\ phase' = "status" /\ UNCHANGED <<proxy, pc, reader, heap, attempt>>
    BY <1>3 DEF StartAgent
  <2> QED
    BY <2>1 DEF CallHeap, CacheInv, Attempt, Credentials, reader, attempt,
                TlsFollowsSetting, CredentialsReal
<1>4. CASE ProcessEnds
  BY <1>4 DEF ProcessEnds, CallHeap, CacheInv, Attempt, Credentials, Reading, ClientKey, TlsKey,
              TlsFollowsSetting, CredentialsReal, Ignored, Null, Unread
<1>5. CASE ThreadStep
  <2>1. CASE InitProxyCache
    <3> USE DEF GotoEnd, CacheInv, Cached, Reading, reader
    <3>0. UNCHANGED <<pc, reader, attempt>> /\ prm \in SUBSET ProxyField /\ pc = "idle"
      BY <2>1 DEF InitProxyCache, AllocProxy, LoadProxy, SaveHost, SavePort, SaveUsername,
                  SavePassword, SaveField, EndProxy, CallHeap, Types, ConfigTypeOK
    <3>1. ASSUME AllocProxy PROVE CallHeap' /\ CacheInv'
      BY <3>0, <3>1 DEF AllocProxy, CallHeap
    <3>2. ASSUME LoadProxy PROVE CallHeap' /\ CacheInv'
      BY <3>0, <3>2 DEF LoadProxy, CallHeap
    <3>3. ASSUME SaveHost PROVE CallHeap' /\ CacheInv'
      BY <3>0, <3>3 DEF SaveHost, SaveField, CallHeap, ProxyField
    <3>4. ASSUME SavePort PROVE CallHeap' /\ CacheInv'
      BY <3>0, <3>4 DEF SavePort, CallHeap, ProxyField
    <3>5. ASSUME SaveUsername PROVE CallHeap' /\ CacheInv'
      BY <3>0, <3>5 DEF SaveUsername, SaveField, CallHeap, ProxyField
    <3>6. ASSUME SavePassword PROVE CallHeap' /\ CacheInv'
      BY <3>0, <3>6 DEF SavePassword, SaveField, CallHeap, ProxyField
    <3>7. ASSUME EndProxy PROVE CallHeap' /\ CacheInv'
      BY <3>0, <3>7 DEF EndProxy, CallHeap, Deinit
    <3>8. CallHeap' /\ CacheInv'
      BY <2>1, <3>1, <3>2, <3>3, <3>4, <3>5, <3>6, <3>7 DEF InitProxyCache
    <3> QED
      BY <3>0, <3>8 DEF Attempt, Credentials, Reading, reader, attempt,
                        TlsFollowsSetting, CredentialsReal
  <2>2. CASE DeinitProxyCache
    <3>1. /\ pc = "idle" /\ phase = "up" /\ phase' = "ended"
          /\ UNCHANGED <<pc, reader, heap, attempt>>
      BY <2>2 DEF DeinitProxyCache
    <3>2. CacheInv'
      BY <2>2 DEF DeinitProxyCache, CacheInv, Deinit
    <3> QED
      BY <3>1, <3>2 DEF CallHeap, Attempt, Credentials, Reading, reader, attempt,
                        TlsFollowsSetting, CredentialsReal
  <2>3. CASE InitialStatus
    <3>1. /\ phase = "status" /\ pc = "idle" /\ pc' = "tls"
          /\ UNCHANGED <<phase, proxy, heap, attempt, reader>>
      BY <2>3 DEF InitialStatus, Begin, Pass
    <3> QED
      BY <3>1 DEF CallHeap, CacheInv, Attempt, Credentials, Reading, reader, attempt,
                  TlsFollowsSetting, CredentialsReal, Cached
  <2> QED
    BY <1>5, <2>1, <2>2, <2>3 DEF ThreadStep
<1>6. ASSUME NEW k \in Key, GetConfig(k) PROVE Reader'
  <2>1. /\ phase = "up" /\ pc = "idle" /\ UNCHANGED <<phase, proxy, heap, attempt>>
        /\ pc' = IF k \in TlsKey THEN "gate" ELSE "calloc"
        /\ key' = k /\ cfg' = Null /\ back' = "take"
    BY <1>6 DEF GetConfig, Pass, ReadConfig
  <2>2. CallHeap' /\ CacheInv'
    BY <2>1 DEF CallHeap, CacheInv, Reading, Cached
  <2>3. Attempt'
    BY <2>1 DEF Attempt, Reading, attempt, TlsFollowsSetting
  <2>4. Credentials'
    BY <2>1 DEF Credentials, attempt, CredentialsReal
  <2> QED
    BY <2>2, <2>3, <2>4
<1>7. CASE Connect
  <2>1. /\ pc = "idle" /\ UNCHANGED <<phase, proxy, pc, reader, heap>>
        /\ got' = [k \in TlsKey |-> Unread]
    BY <1>7 DEF Connect
  <2>2. CallHeap' /\ CacheInv'
    BY <2>1 DEF CallHeap, CacheInv, Reading, Cached, reader
  <2> QED
    BY <2>1, <2>2 DEF Attempt, Credentials, Reading, reader, TlsKey, ClientKey, TlsFollowsSetting,
                      CredentialsReal, Ignored, Null, Unread
<1>8. CASE CallStatus
  <2>1. /\ phase = "up" /\ pc = "idle" /\ UNCHANGED <<phase, proxy, heap, attempt>>
        /\ \/ pc' = "calloc" /\ key' = "MQTT_HOST" /\ cfg' = Null /\ back' = "hostTest"
           \/ pc' = "tls" /\ UNCHANGED reader
    BY <1>8 DEF CallStatus, Notify, Begin, Pass, ReadConfig
  <2>2. CallHeap' /\ CacheInv'
    BY <2>1 DEF CallHeap, CacheInv, Reading, Cached, reader
  <2> QED
    BY <2>1, <2>2 DEF Attempt, Credentials, Reading, ClientKey, TlsKey, reader, attempt,
                      TlsFollowsSetting, CredentialsReal
<1>9. CASE CallDlog
  BY <1>9, ReaderFrame DEF CallDlog, config
<1>10. CASE ReadStep \/ TakeConfig
  <2> USE DEF Pass
  <2>1. CASE Gate
    <3>1. CallHeap' /\ CacheInv'
      BY <2>1 DEF Gate, CallHeap, CacheInv, Reading, Cached
    <3>2. PICK read \in TlsReads :
            /\ pc = "gate" /\ pc' = IF read # "off" THEN "calloc" ELSE back
            /\ cfg' = IF read # "off" THEN Null ELSE Ignored
            /\ met' = met \cup {IF read = "off" THEN "off" ELSE "use"}
      BY <2>1 DEF Gate, IsTlsEnabled, Meaning
    <3>3. UNCHANGED <<key, got>> /\ back \in {"take", "hostTest"}
      BY <2>1 DEF Gate, CallHeap
    <3>4. Attempt'
      BY <3>2, <3>3 DEF Attempt, Reading, TlsFollowsSetting, Null, Ignored
    <3>5. Credentials'
      BY <3>2, <3>3 DEF Credentials, CredentialsReal
    <3> QED
      BY <3>1, <3>4, <3>5
  <2>2. CASE Calloc
    <3>1. CallHeap' /\ CacheInv'
      BY <2>2 DEF Calloc, CallHeap, CacheInv, Reading, Cached, reader
    <3> QED
      BY <2>2, <3>1 DEF Calloc, Attempt, Credentials, CallHeap, Reading, reader, attempt,
                        TlsFollowsSetting, CredentialsReal
  <2>3. CASE Lookup
    <3>1. CallHeap' /\ CacheInv'
      BY <2>3 DEF Lookup, CallHeap, CacheInv, Reading, Cached
    <3>2. /\ pc = "lookup" /\ key \notin ClientKey /\ UNCHANGED <<key, got, met>>
          /\ pc' \in {back, "wrap"}
      BY <2>3 DEF Lookup, ClientKey, attempt
    <3>3. key \in TlsKey => cfg' \in {Null, "text"}
      BY <2>3 DEF Lookup, Answers, TlsKey, ProxyKey
    <3>4. Attempt'
      BY <3>2, <3>3 DEF Attempt, CallHeap, Reading, TlsFollowsSetting, Null, Ignored
    <3> QED
      BY <3>1, <3>2, <3>4 DEF Credentials, CredentialsReal
  <2>4. CASE OpenDir \/ FindFile
    <3>1. CallHeap' /\ CacheInv'
      BY <2>4 DEF OpenDir, FindFile, FreeRead, CallHeap, CacheInv, Reading, Cached, reader
    <3>2. /\ pc \in {"lookup", "scan"} /\ pc' \in {back, "scan", "open"}
          /\ UNCHANGED <<key, cfg, got, met>>
      BY <2>4 DEF OpenDir, FindFile, attempt, reader
    <3> QED
      BY <3>1, <3>2 DEF Attempt, Credentials, CallHeap, Reading, TlsFollowsSetting, CredentialsReal
  <2>5. CASE OpenFile
    <3>1. CallHeap' /\ CacheInv'
      BY <2>5 DEF OpenFile, FreeRead, CallHeap, CacheInv, Reading, Cached, reader
    <3>2. pc = "open" /\ UNCHANGED <<key, cfg, got, met>> /\ pc' \in {back, "read"}
      BY <2>5 DEF OpenFile, attempt, reader
    <3> QED
      BY <3>1, <3>2 DEF Attempt, Credentials, CallHeap, Reading, TlsFollowsSetting, CredentialsReal
  <2>6. CASE ReadFile
    <3>1. CallHeap' /\ CacheInv'
      BY <2>6 DEF ReadFile, FreeRead, CallHeap, CacheInv, Reading, Cached
    <3>2. pc = "read" /\ UNCHANGED <<key, got, met>> /\ pc' \in {back, "wrap"}
      BY <2>6 DEF ReadFile, attempt
    <3>3. cfg' \in Pairs \cup {cfg}
      BY <2>6 DEF ReadFile, Content, Types, ConfigTypeOK
    <3>4. Attempt'
      BY <3>2, <3>3, ConfigAssumption DEF Attempt, CallHeap, Reading, TlsFollowsSetting
    <3> QED
      BY <3>1, <3>2, <3>3, <3>4 DEF Credentials, CredentialsReal
  <2>7. CASE Wrap
    <3>1. CallHeap' /\ CacheInv'
      BY <2>7 DEF Wrap, CallHeap, CacheInv, Reading, Cached
    <3>2. pc = "wrap" /\ UNCHANGED <<key, got, met>> /\ pc' = back /\ cfg' \in {cfg, Null}
      BY <2>7 DEF Wrap, attempt
    <3> QED
      BY <3>1, <3>2 DEF Attempt, Credentials, CallHeap, Reading, TlsFollowsSetting,
                        CredentialsReal, Null, Ignored
  <2>8. CASE TakeConfig
    <3>1. CallHeap' /\ CacheInv'
      BY <2>8 DEF TakeConfig, CallHeap, CacheInv, Reading, Cached
    <3>2. pc = "take" /\ pc' = "idle" /\ key' = "OTHER" /\ UNCHANGED met
      BY <2>8 DEF TakeConfig
    <3>3. ASSUME NEW k \in TlsKey
          PROVE  got'[k] = got[k] \/ (k = key /\ got'[k] = cfg)
      BY <2>8 DEF TakeConfig, Types, ConfigTypeOK
    <3>4. Attempt'
      BY <3>2, <3>3 DEF Attempt, Reading, TlsFollowsSetting, TlsKey
    <3>5. Credentials'
      BY <3>2, <3>3 DEF Credentials, CredentialsReal, ClientKey, TlsKey
    <3> QED
      BY <3>1, <3>4, <3>5
  <2> QED
    BY <1>10, <2>1, <2>2, <2>3, <2>4, <2>5, <2>6, <2>7, <2>8 DEF ReadStep
<1>11. CASE HandlerStep
  <2> USE DEF Pass
  <2>1. CASE HostTest
    <3>1. /\ pc = "hostTest" /\ pc' \in {"done", "projectId"} /\ heap' = heap \ {"buf", "config"}
          /\ key' = "OTHER" /\ UNCHANGED <<phase, proxy, attempt>>
      BY <2>1 DEF HostTest
    <3>2. CallHeap' /\ CacheInv'
      BY <3>1 DEF CallHeap, CacheInv, Reading, Cached
    <3> QED
      BY <3>1, <3>2 DEF Attempt, Credentials, Reading, ClientKey, TlsKey, attempt,
                        TlsFollowsSetting, CredentialsReal
  <2>2. CASE AllocProjectId \/ GetProjectId \/ AllocToken \/ GetToken
    <3>1. /\ pc # "idle" /\ pc' \in {"getProjectId", "token", "getToken", "tls", "done"}
          /\ pc' \in {"getProjectId", "token"} => heap' \subseteq {"project_id"}
          /\ pc' = "getToken" => heap' \subseteq {"project_id", "register_token"}
          /\ pc' \in {"tls", "done"} => heap' = {}
          /\ UNCHANGED <<phase, proxy, reader, attempt>>
      BY <2>2 DEF AllocProjectId, GetProjectId, AllocToken, GetToken, Malloc, FreeStrings, CallHeap
    <3>2. CallHeap' /\ CacheInv'
      BY <3>1 DEF CallHeap, CacheInv, Reading, Cached
    <3> QED
      BY <3>1, <3>2 DEF Attempt, Credentials, Reading, reader, attempt,
                        TlsFollowsSetting, CredentialsReal
  <2>3. CASE ReadTls \/ WriteLed
    <3>1. /\ pc \in {"tls", "leds"} /\ pc' \in {"leds", "done"}
          /\ UNCHANGED <<phase, proxy, reader, heap, attempt>>
      BY <2>3 DEF ReadTls, WriteLed
    <3>2. CallHeap' /\ CacheInv'
      BY <3>1 DEF CallHeap, CacheInv, Reading, Cached
    <3> QED
      BY <3>1, <3>2 DEF Attempt, Credentials, Reading, reader, attempt,
                        TlsFollowsSetting, CredentialsReal
  <2>4. CASE Finish
    <3>1. /\ pc = "done" /\ pc' = "idle"
          /\ phase' = phase \/ (phase = "status" /\ phase' \in {"ended", "allocProxy"})
          /\ UNCHANGED <<proxy, reader, heap, attempt>>
      BY <2>4 DEF Finish
    <3>2. CallHeap' /\ CacheInv'
      BY <3>1 DEF CallHeap, CacheInv, Reading, Cached
    <3> QED
      BY <3>1, <3>2 DEF Attempt, Credentials, Reading, reader, attempt,
                        TlsFollowsSetting, CredentialsReal
  <2> QED
    BY <1>11, <2>1, <2>2, <2>3, <2>4 DEF HandlerStep
<1>12. CASE UNCHANGED <<config, led, handler, settings, scenario>>
  BY <1>12, ReaderFrame DEF config
<1>13. CASE UNCHANGED vars
  BY <1>13, ReaderFrame DEF vars, process, config
<1> QED
  BY <1>1, <1>2, <1>3, <1>4, <1>5, <1>6, <1>7, <1>8, <1>9, <1>10, <1>11, <1>12, <1>13
     DEF Next, CallStep, CallConnect, CallConfig, Key

-----------------------------------------------------------------------------
(* The handler: what has been written, and why the result is true          *)

\* The statuses before i are as the handler wants them.
Written ==
  /\ pc # "done" => ret = "none"
  /\ pc = "done" /\ ret = "shown" => i = 5
  /\ \A n \in 1 .. 4 : n < i => (Led[n] \in led <=> n = want)

InHost == pc = "hostTest" \/ (pc \in Reading \cup {"gate"} /\ back = "hostTest")
Outside == pc \in {"idle", "take"} \/ (pc \in Reading \cup {"gate"} /\ back = "take")
InIds == pc \in {"projectId", "getProjectId", "token", "getToken"}
Chosen == pc = "leds" \/ (pc = "done" /\ ret = "shown")

\* Which statement belongs to which call
Position ==
  /\ Outside => status = "none"
  /\ status = "none" => old = {}
  /\ pc = "gate" => key \in TlsKey
  /\ pc \in {"scan", "open", "read"} => key \in ClientKey
  /\ InHost => status = "connected" /\ key = "MQTT_HOST"
  /\ InIds => status = "connected"
  /\ pc \in {"tls", "leds", "done"} => status \in {"connected", "disconnected"}
  /\ pc = "done" => ret # "none"

\* The two values the settings have had differ in one setting at most.
Near(v, w) ==
  \/ v.tls = w.tls /\ v.projectId = w.projectId /\ v.token = w.token
  \/ v.url = w.url /\ v.projectId = w.projectId /\ v.token = w.token
  \/ v.url = w.url /\ v.tls = w.tls /\ v.token = w.token
  \/ v.url = w.url /\ v.tls = w.tls /\ v.projectId = w.projectId

Pair == \A v \in old : old = {v} /\ Near(v, row)

\* What the handler has read was one of the values, of each setting by itself
Known ==
  /\ InHost => cfg = Null \/ \E v \in Seen : cfg = v.url
  /\ InIds => \E v \in Seen : v.url # "provisioning"
  /\ pc \in {"token", "getToken"} => \E v \in Seen : idSet = v.projectId
  /\ (pc = "tls" \/ Chosen) /\ status = "connected" =>
       /\ \E v \in Seen : v.url # "provisioning"
       /\ \E v \in Seen : ~v.projectId \/ ~v.token
  /\ Chosen => \E v \in Seen : want = LedIndex(status, v.tls = "on")
  /\ pc = "done" /\ ret = "skipped" =>
       /\ status = "connected"
       /\ \/ \E v \in Seen : v.url = "provisioning"
          \/ (\E v \in Seen : v.projectId) /\ (\E v \in Seen : v.token)

Handler == Written /\ Position /\ (stable => Pair /\ Known)

\* The four LED statuses are different.
LEMMA LedsDiffer == \A m, n \in 1 .. 4 : Led[m] = Led[n] => m = n
BY DEF Led

\* The index picks the status that is to be shown.
LEMMA LedNames ==
  ASSUME NEW s \in {"connected", "disconnected"}, NEW tls \in BOOLEAN
  PROVE  Led[LedIndex(s, tls)] = LedFor(s, tls)
BY DEF Led, LedIndex, LedFor

\* Settings that were read at different moments were all there at one: of two
\* values that differ in one setting, one has what was read of it.
LEMMA OneMoment ==
  ASSUME Pair, NEW v1 \in Seen, NEW v2 \in Seen, NEW v3 \in Seen, NEW v4 \in Seen
  PROVE  \E v \in Seen : /\ v.url = v1.url /\ v.projectId = v2.projectId
                         /\ v.token = v3.token /\ v.tls = v4.tls
<1>1. CASE old = {}
  BY <1>1 DEF Seen
<1>2. ASSUME NEW w \in old
      PROVE  \E v \in Seen : /\ v.url = v1.url /\ v.projectId = v2.projectId
                             /\ v.token = v3.token /\ v.tls = v4.tls
  <2>1. Seen = {w, row} /\ Near(w, row)
    BY <1>2 DEF Pair, Seen
  <2>2. CASE w.tls = row.tls /\ w.projectId = row.projectId /\ w.token = row.token
    BY <2>1, <2>2
  <2>3. CASE w.url = row.url /\ w.projectId = row.projectId /\ w.token = row.token
    BY <2>1, <2>3
  <2>4. CASE w.url = row.url /\ w.tls = row.tls /\ w.token = row.token
    BY <2>1, <2>4
  <2>5. CASE w.url = row.url /\ w.tls = row.tls /\ w.projectId = row.projectId
    BY <2>1, <2>5
  <2> QED
    BY <2>1, <2>2, <2>3, <2>4, <2>5 DEF Near
<1> QED
  BY <1>1, <1>2

\* No handler is in progress.
LEMMA HandlerInit == Init => Handler
BY DEF Init, ProcessInit, ConfigInit, StatusInit, Handler, Written, Position, Pair, Known, InHost,
       Outside, InIds, Chosen, Reading

\* A step that leaves the handler's variables and the rows alone keeps it.
LEMMA HandlerFrame ==
  ASSUME Handler, UNCHANGED <<row, pc, back, key, cfg, led, handler>>
  PROVE  Handler'
<1>1. Written' /\ Position'
  BY DEF Handler, Written, Position, InHost, Outside, InIds, handler
<1>2. stable' = stable /\ (Pair => Pair')
  BY DEF Pair, Near, handler
<1>3. Known => Known'
  BY DEF Known, InHost, Outside, InIds, Chosen, Seen, LedIndex, handler
<1> QED
  BY <1>1, <1>2, <1>3 DEF Handler

\* A step of a configuration call leaves the LEDs and the handler alone.
LEMMA WrittenFrame ==
  ASSUME Written, UNCHANGED <<led, handler>>, pc # "done", pc' # "done"
  PROVE  Written'
BY DEF Written, handler

\* One change is of one setting.
LEMMA ChangeNear ==
  ASSUME Types, Change
  PROVE  Near(row, row')
<1>1. row \in Rows
  BY DEF Types, SettingsTypeOK
<1> QED
  BY <1>1 DEF Change, UserStep, UpdatePsmDb, ChangeFile, Near, Rows

\* A change adds to the values the handler may have read: with a third one it
\* is not stable any more, and outside a handler it is not seen.
LEMMA HandlerChange ==
  ASSUME Types, Handler, Change
  PROVE  Handler'
<1>1. /\ UNCHANGED <<pc, back, key, cfg, led, status, idSet, want, i, ret>>
      /\ Remember
  BY DEF Change, reader
<1>2. Written' /\ Position'
  BY <1>1 DEF Handler, Written, Position, InHost, Outside, InIds, Remember
<1>3. CASE status = "none"
  <2>1. ~InHost /\ ~InIds /\ pc \notin {"tls", "leds", "done"} /\ old' = {}
    BY <1>1, <1>3 DEF Handler, Position, Remember
  <2>2. Pair' /\ Known'
    BY <1>1, <2>1 DEF Pair, Known, InHost, Outside, InIds, Chosen
  <2> QED
    BY <1>2, <2>2 DEF Handler
<1>4. ASSUME status # "none", stable' PROVE Pair' /\ Known'
  <2>1. /\ stable /\ \E v \in old \cup {row, row'} : old \cup {row, row'} = {v, row'}
        /\ old' = (old \cup {row, row'}) \ {row'}
    BY <1>1, <1>4 DEF Remember
  <2>2. Pair /\ Known
    BY <2>1 DEF Handler
  <2>3. Pair'
    <3>1. CASE row' = row
      <4>1. old' \subseteq old
        BY <2>1, <3>1
      <4> QED
        BY <2>2, <3>1, <4>1 DEF Pair, Near
    <3>2. CASE row' # row
      <4>1. old' = {row}
        BY <2>1, <3>2
      <4> QED
        BY <4>1, ChangeNear DEF Pair
    <3> QED
      BY <3>1, <3>2
  <2>4. Seen \subseteq Seen'
    BY <2>1 DEF Seen
  <2>5. Known'
    BY <1>1, <2>2, <2>4 DEF Known, InHost, Outside, InIds, Chosen, LedIndex
  <2> QED
    BY <2>3, <2>5
<1> QED
  BY <1>2, <1>3, <1>4 DEF Handler

\* The statements of a configuration call, alone or as the handler's host read
LEMMA HandlerRead ==
  ASSUME Types, Reader, Handler, ReadStep \/ TakeConfig,
         UNCHANGED <<led, handler, settings>>
  PROVE  Handler'
<1> USE DEF Pass, handler
<1>0. /\ UNCHANGED <<row, status, idSet, want, i, ret, stable, old>> /\ Seen' = Seen
      /\ Written /\ (Pair => Pair')
  BY DEF Handler, settings, Seen, Pair, Near
<1>1. CASE Gate
  <2>1. pc = "gate" /\ pc' \in {"calloc", back} /\ UNCHANGED <<back, key>>
    BY <1>1 DEF Gate
  <2>2. back = "take"
    BY <2>1 DEF Handler, Position, InHost, Reader, CallHeap, Reading, TlsKey
  <2>3. Written'
    BY <1>0, <2>1, <2>2, WrittenFrame
  <2>4. Position' /\ Known'
    BY <1>0, <2>1, <2>2 DEF Handler, Position, Known, InHost, Outside, InIds, Chosen, Reading
  <2> QED
    BY <1>0, <2>3, <2>4 DEF Handler
<1>2. CASE Calloc
  <2>1. /\ pc = "calloc" /\ pc' \in {"lookup", back} /\ UNCHANGED <<back, key, cfg>>
        /\ back \in {"take", "hostTest"}
    BY <1>2 DEF Calloc, reader, Reader, CallHeap, Reading
  <2>2. Written'
    BY <1>0, <2>1, WrittenFrame
  <2>3. Position'
    BY <1>0, <2>1 DEF Handler, Position, InHost, Outside, InIds, Reading
  <2>4. Known => Known'
    BY <1>0, <2>1 DEF Known, InHost, Outside, InIds, Chosen, Reading
  <2> QED
    BY <1>0, <2>2, <2>3, <2>4 DEF Handler
<1>3. CASE Lookup
  <2>1. /\ pc = "lookup" /\ pc' \in {"wrap", back} /\ UNCHANGED <<back, key>>
        /\ back \in {"take", "hostTest"}
    BY <1>3 DEF Lookup, Reader, CallHeap, Reading
  <2>2. key = "MQTT_HOST" => cfg' \in {Null, row.url}
    BY <1>3 DEF Lookup, Answers, ProxyKey
  <2>3. Written'
    BY <1>0, <2>1, WrittenFrame
  <2>4. Position'
    BY <1>0, <2>1 DEF Handler, Position, InHost, Outside, InIds, Reading
  <2>5. InHost' => cfg' = Null \/ \E v \in Seen : cfg' = v.url
    BY <2>1, <2>2, <2>4 DEF Position, Seen
  <2>6. Known'
    BY <1>0, <2>1, <2>5 DEF Known, InHost, Outside, InIds, Chosen, Reading
  <2> QED
    BY <1>0, <2>3, <2>4, <2>6 DEF Handler
<1>4. CASE OpenDir \/ FindFile \/ OpenFile \/ ReadFile
  <2>1. /\ key \in ClientKey /\ UNCHANGED <<back, key>>
        /\ pc \in {"lookup", "scan", "open", "read"}
        /\ pc' \in {"scan", "open", "read", "wrap", back}
    BY <1>4 DEF OpenDir, FindFile, OpenFile, ReadFile, reader, Handler, Position, ClientKey
  <2>2. back = "take"
    BY <2>1 DEF Handler, Position, InHost, Reader, CallHeap, Reading, ClientKey
  <2>3. Written'
    BY <1>0, <2>1, <2>2, WrittenFrame
  <2>4. Position' /\ Known'
    BY <1>0, <2>1, <2>2 DEF Handler, Position, Known, InHost, Outside, InIds, Chosen, Reading
  <2> QED
    BY <1>0, <2>3, <2>4 DEF Handler
<1>5. CASE Wrap
  <2>1. /\ pc = "wrap" /\ pc' = back /\ UNCHANGED <<back, key>> /\ cfg' \in {cfg, Null}
        /\ back \in {"take", "hostTest"}
    BY <1>5 DEF Wrap, Reader, CallHeap, Reading
  <2>2. Written'
    BY <1>0, <2>1, WrittenFrame
  <2>3. Position'
    BY <1>0, <2>1 DEF Handler, Position, InHost, Outside, InIds, Reading
  <2>4. Known => Known'
    BY <1>0, <2>1 DEF Known, InHost, Outside, InIds, Chosen, Reading
  <2> QED
    BY <1>0, <2>2, <2>3, <2>4 DEF Handler
<1>6. CASE TakeConfig
  <2>1. pc = "take" /\ pc' = "idle"
    BY <1>6 DEF TakeConfig
  <2>2. ret' = "none" /\ i' = 1
    BY <1>0, <2>1 DEF Types, LoopIndex, Written
  <2> QED
    BY <1>0, <2>1, <2>2 DEF Handler, Written, Position, Known, InHost, Outside, InIds, Chosen, Reading
<1> QED
  BY <1>1, <1>2, <1>3, <1>4, <1>5, <1>6 DEF ReadStep

\* A read that has failed makes the call unstable; the others keep what is
\* known of the values.
LEMMA Noted ==
  ASSUME NEW success \in BOOLEAN, Note(success), UNCHANGED <<row, status>>, Position
  PROVE  /\ stable' => stable /\ success /\ Seen' = Seen /\ (Pair => Pair')
         /\ status' = "none" => old' = {}
BY DEF Note, Seen, Pair, Near, Position

\* The statements of the handler itself
LEMMA HandlerOwn ==
  ASSUME Types, Reader, Handler, HandlerStep, UNCHANGED settings
  PROVE  Handler'
<1> USE DEF Pass
<1>0. UNCHANGED row /\ Position
  BY DEF settings, Handler
<1>1. CASE HostTest
  <2>1. /\ pc = "hostTest" /\ UNCHANGED <<led, status, idSet, want, i>>
        /\ pc' = IF cfg = "provisioning" THEN "done" ELSE "projectId"
        /\ ret' = IF cfg = "provisioning" THEN "skipped" ELSE ret
        /\ status = "connected" /\ ret = "none" /\ i = 1
    BY <1>1 DEF HostTest, Handler, Position, InHost, Written, Types, LoopIndex
  <2>2. /\ stable' => stable /\ cfg # Null /\ Seen' = Seen /\ (Pair => Pair')
        /\ status' = "none" => old' = {}
    <3>1. Note(cfg # Null) /\ (cfg # Null) \in BOOLEAN
      BY <1>1 DEF HostTest
    <3> QED
      BY <1>0, <2>1, <3>1, Noted
  <2>3. Written' /\ Position'
    BY <2>1, <2>2 DEF Written, Position, InHost, Outside, InIds, Reading
  <2>4. ASSUME stable' PROVE Pair' /\ Known'
    <3>1. \E v \in Seen' : cfg = v.url
      BY <2>1, <2>2, <2>4 DEF Handler, Known, InHost
    <3> QED
      BY <2>1, <2>2, <2>4, <3>1 DEF Handler, Known, InHost, Outside, InIds, Chosen, Reading
  <2> QED
    BY <2>3, <2>4 DEF Handler
<1>2. CASE AllocProjectId \/ GetProjectId \/ AllocToken
  <2>1. /\ InIds /\ pc' \in {"getProjectId", "token", "getToken", "tls"}
        /\ UNCHANGED <<led, status, want, i, ret>>
        /\ status = "connected" /\ ret = "none" /\ i = 1 /\ pc # "leds"
    BY <1>2 DEF AllocProjectId, GetProjectId, AllocToken, Malloc, Handler, Position, Outside, InIds, Written,
                Types, LoopIndex
  <2>2. PICK success \in BOOLEAN :
          /\ Note(success)
          /\ success => /\ pc' # "tls"
                        /\ pc' = "token" => idSet' = row.projectId
                        /\ pc' = "getToken" => pc = "token" /\ idSet' = idSet
    BY <1>2 DEF AllocProjectId, GetProjectId, AllocToken, Malloc
  <2>3. /\ stable' => stable /\ success /\ Seen' = Seen /\ (Pair => Pair')
        /\ status' = "none" => old' = {}
    BY <1>0, <2>1, <2>2, Noted
  <2>4. Written' /\ Position'
    BY <2>1, <2>3 DEF Written, Position, InHost, Outside, InIds, Reading
  <2>5. ASSUME stable' PROVE Pair' /\ Known'
    <3>1. /\ \E v \in Seen' : v.url # "provisioning"
          /\ pc = "token" => \E v \in Seen' : idSet = v.projectId
          /\ row \in Seen'
      BY <2>1, <2>3, <2>5 DEF Handler, Known, Seen
    <3> QED
      BY <2>1, <2>2, <2>3, <2>5, <3>1 DEF Handler, Known, InHost, Outside, InIds, Chosen, Reading
  <2> QED
    BY <2>4, <2>5 DEF Handler
<1>3. CASE GetToken
  <2>1. /\ pc = "getToken" /\ pc' \in {"done", "tls"}
        /\ UNCHANGED <<led, status, idSet, want, i>>
        /\ status = "connected" /\ ret = "none" /\ i = 1
        /\ ret' = IF pc' = "done" THEN "skipped" ELSE "none"
    BY <1>3 DEF GetToken, Handler, Position, Outside, InIds, Written, Types, LoopIndex
  <2>2. PICK success \in BOOLEAN :
          /\ Note(success)
          /\ success => (pc' = "done" <=> (idSet /\ row.token))
    BY <1>3 DEF GetToken, BothSet
  <2>3. /\ stable' => stable /\ success /\ Seen' = Seen /\ (Pair => Pair')
        /\ status' = "none" => old' = {}
    BY <1>0, <2>1, <2>2, Noted
  <2>4. Written' /\ Position'
    BY <2>1, <2>3 DEF Written, Position, InHost, Outside, InIds, Reading
  <2>5. ASSUME stable' PROVE Pair' /\ Known'
    <3>1. /\ \E v \in Seen' : v.url # "provisioning"
          /\ \E v \in Seen' : idSet = v.projectId
          /\ row \in Seen'
      BY <2>1, <2>3, <2>5 DEF Handler, Known, Outside, InIds, Seen
    <3>2. IF pc' = "done" THEN (\E v \in Seen' : v.projectId) /\ (\E v \in Seen' : v.token)
          ELSE \E v \in Seen' : ~v.projectId \/ ~v.token
      BY <2>2, <2>3, <2>5, <3>1
    <3> QED
      BY <2>1, <2>3, <2>5, <3>1, <3>2 DEF Handler, Known, InHost, Outside, InIds, Chosen, Reading
  <2> QED
    BY <2>4, <2>5 DEF Handler
<1>4. CASE ReadTls
  <2>1. /\ pc = "tls" /\ pc' = "leds"
        /\ UNCHANGED <<led, status, i, ret>> /\ ret = "none" /\ i = 1
    BY <1>4 DEF ReadTls, Handler, Position, Written, Types, LoopIndex
  <2>2. PICK read \in TlsReads : /\ want' = LedIndex(status, IsTlsEnabled(read))
                                 /\ Note(read # "unreadable")
    BY <1>4 DEF ReadTls
  <2>3. /\ stable' => stable /\ read # "unreadable" /\ Seen' = Seen /\ (Pair => Pair')
        /\ status' = "none" => old' = {}
    <3>1. (read # "unreadable") \in BOOLEAN
      OBVIOUS
    <3> QED
      BY <1>0, <2>1, <2>2, <3>1, Noted
  <2>4. Written' /\ Position'
    BY <1>0, <2>1, <2>3 DEF Handler, Written, Position, InHost, Outside, InIds, Reading
  <2>5. ASSUME stable' PROVE Pair' /\ Known'
    <3>1. stable /\ read # "unreadable"
      BY <2>3, <2>5
    <3>2. read = row.tls /\ read \in {"on", "off"}
      BY <2>2, <3>1 DEF TlsReads, Types, SettingsTypeOK, Rows, Tls
    <3>3. IsTlsEnabled(read) <=> row.tls = "on"
      BY <3>2 DEF IsTlsEnabled
    <3>4. want' = LedIndex(status, row.tls = "on") /\ row \in Seen'
      BY <2>2, <2>3, <2>5, <3>3 DEF LedIndex, Seen
    <3>5. \E v \in Seen' : want' = LedIndex(status', v.tls = "on")
      BY <2>1, <3>4 DEF LedIndex
    <3> QED
      BY <2>1, <2>3, <2>5, <3>1, <3>5 DEF Handler, Known, InHost, Outside, InIds, Chosen, Reading
  <2> QED
    BY <2>4, <2>5 DEF Handler
<1>5. CASE WriteLed
  <2>1. /\ pc = "leds" /\ UNCHANGED <<status, want, stable, old>> /\ ret = "none" /\ i \in 1 .. 4
        /\ status \in {"connected", "disconnected"}
    BY <1>5 DEF WriteLed, Handler, Position, Written, Types, LoopIndex, StatusTypeOK
  <2>2. Seen' = Seen /\ (Pair => Pair')
    BY <1>0, <2>1 DEF Seen, Pair, Near
  <2>3. CASE /\ pc' = (IF i = 4 THEN "done" ELSE "leds")
             /\ led' = SetStatus(led, i)
             /\ i' = i + 1
             /\ ret' = IF i = 4 THEN "shown" ELSE ret
    <3>1. ASSUME NEW n \in 1 .. 4, n < i' PROVE Led[n] \in led' <=> n = want
      <4>1. CASE n = i
        BY <2>3, <4>1 DEF SetStatus
      <4>2. CASE n # i
        <5>1. n < i /\ Led[n] # Led[i]
          BY <2>1, <2>3, <3>1, <4>2, LedsDiffer
        <5>2. Led[n] \in led' <=> Led[n] \in led
          BY <2>3, <5>1 DEF SetStatus
        <5> QED
          BY <5>1, <5>2 DEF Handler, Written
      <4> QED
        BY <4>1, <4>2
    <3>2. Written'
      BY <2>1, <2>3, <3>1 DEF Written
    <3>3. Position'
      BY <1>0, <2>1, <2>3 DEF Position, InHost, Outside, InIds, Reading
    <3>4. Chosen /\ Chosen'
      BY <2>1, <2>3 DEF Chosen
    <3>5. Known => Known'
      BY <2>1, <2>2, <2>3, <3>4 DEF Known, InHost, Outside, InIds, Reading, LedIndex
    <3> QED
      BY <2>1, <2>2, <3>2, <3>3, <3>5 DEF Handler
  <2>4. CASE pc' = "done" /\ ret' = "failed" /\ UNCHANGED <<led, i>>
    <3>1. Written' /\ Position'
      BY <1>0, <2>1, <2>4 DEF Handler, Written, Position, InHost, Outside, InIds, Reading
    <3>2. Known'
      BY <2>4 DEF Known, InHost, Outside, InIds, Chosen, Reading
    <3> QED
      BY <2>1, <2>2, <3>1, <3>2 DEF Handler
  <2> QED
    BY <1>5, <2>3, <2>4 DEF WriteLed
<1>6. CASE Finish
  <2>1. pc' = "idle" /\ ret' = "none" /\ i' = 1 /\ old' = {} /\ status' = "none"
    BY <1>6 DEF Finish
  <2> QED
    BY <2>1 DEF Handler, Written, Position, Pair, Known, InHost, Outside, InIds, Chosen, Reading
<1> QED
  BY <1>1, <1>2, <1>3, <1>4, <1>5, <1>6 DEF HandlerStep

\* Every action keeps what is known of the handler.
LEMMA HandlerInvStep == Types /\ Reader /\ Handler /\ [Next]_vars => Handler'
<1> SUFFICES ASSUME Types, Reader, Handler, [Next]_vars PROVE Handler'
  OBVIOUS
<1>1. CASE Change
  BY <1>1, HandlerChange
<1>2. ASSUME pc' = "idle", ret' = "none", i' = 1, old' = {}, status' = "none" PROVE Handler'
  BY <1>2 DEF Handler, Written, Position, Pair, Known, InHost, Outside, InIds, Chosen, Reading
<1>3. ASSUME pc = "idle" PROVE ret = "none" /\ i = 1 /\ old = {} /\ status = "none"
  BY <1>3 DEF Handler, Written, Position, Outside, Types, LoopIndex
<1>4. CASE PackageStep
  <2>1. pc = "idle" /\ UNCHANGED <<pc, ret, i, old, status>>
    BY <1>4 DEF PackageStep, process, config, handler, Reader, CallHeap
  <2> QED
    BY <1>2, <1>3, <2>1
<1>5. CASE StartAgent
  BY <1>5, HandlerFrame DEF StartAgent, reader, settings
<1>6. CASE ProcessEnds
  BY <1>2, <1>6 DEF ProcessEnds
<1>7. CASE InitProxyCache /\ UNCHANGED <<led, handler, dlog, settings, scenario>>
  <2>1. UNCHANGED <<pc, reader>>
    BY <1>7 DEF InitProxyCache, AllocProxy, LoadProxy, SaveHost, SavePort, SaveUsername,
                SavePassword, SaveField, EndProxy
  <2> QED
    BY <1>7, <2>1, HandlerFrame DEF reader, settings
<1>8. CASE DeinitProxyCache /\ UNCHANGED <<led, handler, dlog, settings, scenario>>
  BY <1>8, HandlerFrame DEF DeinitProxyCache, reader, settings
<1>9. CASE InitialStatus \/ Notify
  <2>1. /\ pc = "idle" /\ UNCHANGED <<ret, i, old>>
        /\ \/ /\ pc' = "calloc" /\ key' = "MQTT_HOST" /\ cfg' = Null /\ back' = "hostTest"
              /\ status' = "connected"
           \/ pc' = "tls" /\ status' = "disconnected"
    BY <1>9 DEF InitialStatus, Notify, Begin, Pass, ReadConfig
  <2> QED
    BY <1>3, <2>1 DEF Handler, Written, Position, Pair, Known, InHost, Outside, InIds, Chosen, Reading, Null
<1>10. CASE Connect /\ UNCHANGED <<led, handler, dlog, settings, scenario>>
  BY <1>10, HandlerFrame DEF Connect, reader, settings
<1>11. ASSUME NEW k \in Key, GetConfig(k), UNCHANGED <<led, handler, dlog, settings, scenario>>
       PROVE  Handler'
  <2>1. /\ pc = "idle" /\ UNCHANGED <<ret, i, old, status>> /\ back' = "take" /\ key' = k
        /\ pc' = IF k \in TlsKey THEN "gate" ELSE "calloc"
    BY <1>11 DEF GetConfig, Pass, ReadConfig, handler
  <2> QED
    BY <1>3, <2>1 DEF Handler, Written, Position, Pair, Known, InHost, Outside, InIds, Chosen, Reading
<1>12. CASE (ReadStep \/ TakeConfig) /\ UNCHANGED <<led, handler, dlog, settings, scenario>>
  BY <1>12, HandlerRead
<1>13. CASE HandlerStep /\ UNCHANGED <<dlog, settings, scenario>>
  BY <1>13, HandlerOwn
<1>14. CASE UNCHANGED <<config, led, handler, settings, scenario>>
  BY <1>14, HandlerFrame DEF config, reader, settings
<1>15. CASE UNCHANGED vars
  BY <1>15, HandlerFrame DEF vars, process, config, reader, settings
<1> QED
  BY <1>1, <1>4, <1>5, <1>6, <1>7, <1>8, <1>9, <1>10, <1>11, <1>12, <1>13, <1>14, <1>15
     DEF Next, CallStep, CallConnect, CallConfig, CallStatus, CallDlog, ThreadStep, Key

-----------------------------------------------------------------------------
(* The theorems                                                            *)

\* Only the log's own steps and the end of the process touch its locals.
LEMMA DlogInvStep == DlogInv /\ [Next]_vars => DlogInv'
<1> SUFFICES ASSUME DlogInv, [Next]_vars PROVE DlogInv'
  OBVIOUS
<1>1. CASE UNCHANGED dlog
  BY <1>1, DlogStutterInv
<1>2. CASE ProcessEnds
  BY <1>2, DlogReturnInv DEF ProcessEnds, FreeBuffer
<1>3. CASE CallDlog
  BY <1>3, DlogCallInv DEF CallDlog
<1>4. CASE DlogStep
  BY <1>4, DlogStepInv
<1> QED
  BY <1>1, <1>2, <1>3, <1>4
     DEF Next, Change, PackageStep, StartAgent, ThreadStep, CallConnect, CallConfig, CallStatus,
         CallStep, vars, process

IInv == Types /\ Reader /\ Handler /\ DlogInv

\* The four parts hold initially and every step of the platform keeps them.
THEOREM Inductive == Spec => []IInv
<1>1. Init => IInv
  BY TypesInit, ReaderInit, HandlerInit, DlogInitInv DEF Init, ProcessInit, IInv
<1>2. IInv /\ [Next]_vars => IInv'
  BY TypesStep, ReaderStep, HandlerInvStep, DlogInvStep DEF IInv
<1> QED
  BY <1>1, <1>2, PTL DEF Spec

\* Every variable of the composed platform keeps its type.
THEOREM TypeCorrect == Spec => []TypeOK
<1>1. IInv => TypeOK
  BY DEF IInv, Types, DlogInv, TypeOK
<1> QED
  BY <1>1, Inductive, PTL

\* No connection attempt is told to do without TLS unless the setting was
\* "off" while it lasted, and none is given credentials when it always was.
THEOREM TlsKept == Spec => []TlsFollowsSetting
<1>1. IInv => TlsFollowsSetting
  BY DEF IInv, Reader, Attempt
<1> QED
  BY <1>1, Inductive, PTL

\* No order of directory entries, and no change between the search and the
\* read, makes the agent present an empty file of the package.
THEOREM CredentialsKept == Spec => []CredentialsReal
<1>1. IInv => CredentialsReal
  BY DEF IInv, Reader, Credentials
<1> QED
  BY <1>1, Inductive, PTL

\* Whichever copy fails, the proxy setting is used as a whole or the agent
\* does not start: before each copy the cache holds what the ones before gave.
THEOREM ProxyKept == Spec => []ProxyWhole
<1>1. IInv => ProxyWhole
  BY DEF IInv, Reader, CacheInv, ProxyWhole
<1> QED
  BY <1>1, Inductive, PTL

\* Whichever statement fails, a call gives back what it has allocated.
THEOREM NothingLeaks == Spec => []NoLeak
<1>1. IInv => NoLeak
  BY DEF IInv, Reader, CallHeap, CacheInv, DlogInv, DlogLocals, NoLeak, ConfigNoLeak
<1> QED
  BY <1>1, Inductive, PTL

\* When the loop has come to its end, the wanted status is the only one.
LEMMA StatusWritten == IInv => OneStatusShown
<1> SUFFICES ASSUME IInv, pc = "done", ret = "shown" PROVE led = {Led[want]}
  BY DEF OneStatusShown
<1>1. \A n \in 1 .. 4 : Led[n] \in led <=> n = want
  BY DEF IInv, Handler, Written
<1>2. led \in SUBSET LedStatus /\ want \in 1 .. 4
  BY DEF IInv, Types, StatusTypeOK
<1> QED
  BY <1>1, <1>2 DEF LedStatus

\* A handler that succeeds repairs what failed ones have left on the LED.
THEOREM OneStatus == Spec => []OneStatusShown
BY StatusWritten, Inductive, PTL

\* Each setting is read at another moment, and one of them may change at any:
\* the result is right of the settings as they were at one moment.
THEOREM TruthfulLed == Spec => []LedTruthful
<1>1. IInv => LedTruthful
  <2> SUFFICES ASSUME IInv, pc = "done", stable, ret # "failed"
               PROVE  \E v \in Seen :
                        IF status = "connected" /\ Enrolled(v) THEN ret = "skipped"
                        ELSE ret = "shown" /\ led = {LedFor(status, v.tls = "on")}
    BY DEF LedTruthful
  <2>1. /\ Pair /\ Known /\ ret \in {"shown", "skipped"}
        /\ status \in {"connected", "disconnected"}
    BY DEF IInv, Handler, Position, Types, StatusTypeOK
  <2>2. CASE ret = "skipped"
    <3>1. PICK v1 \in Seen, v2 \in Seen : v1.url = "provisioning" \/ (v1.projectId /\ v2.token)
      BY <2>1, <2>2 DEF Known, Seen
    <3>2. \E v \in Seen : v.url = v1.url /\ v.projectId = v1.projectId /\ v.token = v2.token
      BY <2>1, OneMoment
    <3>3. \E v \in Seen : Enrolled(v)
      BY <3>1, <3>2 DEF Enrolled
    <3> QED
      BY <2>1, <2>2, <3>3 DEF Known
  <2>3. CASE ret = "shown"
    <3>1. PICK v4 \in Seen : want = LedIndex(status, v4.tls = "on")
      BY <2>1, <2>3 DEF Known, Chosen
    <3>2. led = {LedFor(status, v4.tls = "on")}
      BY <2>1, <2>3, <3>1, StatusWritten, LedNames DEF OneStatusShown
    <3>3. CASE status = "connected"
      <4>1. PICK v1 \in Seen, v2 \in Seen :
              v1.url # "provisioning" /\ (~v2.projectId \/ ~v2.token)
        BY <2>1, <2>3, <3>3 DEF Known, Chosen
      <4>2. PICK v \in Seen : /\ v.url = v1.url /\ v.projectId = v2.projectId
                              /\ v.token = v2.token /\ v.tls = v4.tls
        BY <2>1, OneMoment
      <4>3. ~Enrolled(v)
        BY <4>1, <4>2 DEF Enrolled
      <4> QED
        BY <2>3, <3>2, <4>2, <4>3
    <3>4. CASE status # "connected"
      BY <2>3, <3>2, <3>4
    <3> QED
      BY <3>3, <3>4
  <2> QED
    BY <2>1, <2>2, <2>3
<1> QED
  BY <1>1, Inductive, PTL

\* The lines of the debug log put together are the beginning of the message,
\* for every length of prefix and message.
THEOREM LogWhole == Spec => []ChunksWhole
<1>1. IInv => ChunksWhole
  BY DlogChunksWhole DEF IInv
<1> QED
  BY <1>1, Inductive, PTL

\* The debug log never drops a byte in silence.
THEOREM LogLoss == Spec => []LossAnnounced
<1>1. IInv => LossAnnounced
  BY DlogLossAnnounced DEF IInv
<1> QED
  BY <1>1, Inductive, PTL

-----------------------------------------------------------------------------
(* Calls are finite                                                        *)

\* The reader's and the handler's statements come in one order.
LEMMA ReadLess ==
  ASSUME IInv, \/ (ReadStep \/ TakeConfig) /\ UNCHANGED handler
               \/ HandlerStep
  PROVE  ReadLeft' < ReadLeft
<1>1. i \in 1 .. 5 /\ (pc = "leds" => i <= 4)
  BY DEF IInv, Types, StatusTypeOK, LoopIndex
<1>2. pc \in Reading \cup {"gate"} => back \in {"take", "hostTest"}
  BY DEF IInv, Reader, CallHeap
<1> USE DEF ReadLeft, Pass
<1>3. CASE Gate
  BY <1>2, <1>3 DEF Gate
<1>4. CASE Calloc
  BY <1>2, <1>4 DEF Calloc, Reading
<1>5. CASE Lookup \/ OpenDir \/ FindFile
  BY <1>2, <1>5 DEF Lookup, OpenDir, FindFile, Reading
<1>6. CASE OpenFile
  BY <1>2, <1>6 DEF OpenFile, Reading
<1>7. CASE ReadFile
  BY <1>2, <1>7 DEF ReadFile, Reading
<1>8. CASE Wrap
  BY <1>2, <1>8 DEF Wrap, Reading
<1>9. CASE TakeConfig
  BY <1>9 DEF TakeConfig
<1>10. CASE HostTest \/ AllocProjectId \/ GetProjectId \/ AllocToken \/ GetToken
  <2>1. \/ pc = "hostTest" /\ pc' \in {"done", "projectId"}
        \/ pc = "projectId" /\ pc' \in {"getProjectId", "tls"}
        \/ pc = "getProjectId" /\ pc' \in {"token", "tls"}
        \/ pc = "token" /\ pc' \in {"getToken", "tls"}
        \/ pc = "getToken" /\ pc' \in {"done", "tls"}
    BY <1>10 DEF HostTest, AllocProjectId, GetProjectId, AllocToken, GetToken, Malloc
  <2> QED
    BY <2>1
<1>11. CASE ReadTls
  <2>1. i = 1
    BY <1>11 DEF ReadTls, IInv, Types, LoopIndex
  <2> QED
    BY <1>11, <2>1 DEF ReadTls
<1>12. CASE WriteLed
  BY <1>1, <1>12 DEF WriteLed
<1>13. CASE Finish
  BY <1>13 DEF Finish
<1> QED
  BY <1>3, <1>4, <1>5, <1>6, <1>7, <1>8, <1>9, <1>10, <1>11, <1>12, <1>13
     DEF ReadStep, HandlerStep

\* A full buffer of 4096 bytes is written with 16 lines.
LEMMA SixteenLines ==
  ASSUME DlogInv
  PROVE  Len(lines) \in 0 .. 16
<1> USE DEF DlogInv
<1>1. Len(lines) \in Nat
  BY DEF DLogTypeOK
<1>2. CASE lines = <<>>
  BY <1>2
<1>3. CASE lines # <<>>
  <2>1. size = BufferSize
    BY <1>3 DEF DlogLocals, DLogTypeOK
  <2>2. BufLen \in Nat /\ BufLen <= 4095
    <3>1. size \in 1 .. LOG_BUFFER_SIZE /\ BufLen \in Nat
      BY <2>1, BufferLengths
    <3> QED
      BY <3>1 DEF BufLen, Formatted, Minimum, LOG_BUFFER_SIZE, DLogTypeOK
  <2>3. Len(lines) >= 1
    BY <1>3 DEF DLogTypeOK
  <2>4. LOG_CHUNK_SIZE * (Len(lines) - 1) < BufLen
    BY <1>1, <2>3 DEF ChunkLines
  <2>5. \A n, b \in Nat : b <= 4095 /\ 256 * (n - 1) < b => n \in 0 .. 16
    OBVIOUS
  <2>6. PICK n \in Nat : n = Len(lines)
    BY <1>1
  <2>7. PICK b \in Nat : b = BufLen /\ b <= 4095
    BY <2>2
  <2>8. 256 * (n - 1) < b
    BY <2>4, <2>6, <2>7 DEF LOG_CHUNK_SIZE
  <2>9. n \in 0 .. 16
    BY <2>5, <2>7, <2>8
  <2> QED
    BY <2>6, <2>9
<1> QED
  BY <1>2, <1>3

\* Neither malloc nor the loop nor the notice is repeated.
LEMMA LogLess ==
  ASSUME DlogInv, DlogStep
  PROVE  LogLeft' < LogLeft
<1>1. Len(lines) \in 0 .. 16 /\ lines \in Seq(Line)
  BY SixteenLines DEF DlogInv, DLogTypeOK
<1> USE DEF LogLeft
<1>2. CASE DlogMalloc \/ DlogFormat
  <2>1. CASE lpc' = "chunk"
    <3>1. lines' = lines
      BY <1>2, <2>1 DEF DlogMalloc, DlogFormat, DlogReturn
    <3>2. LogLeft = 20 /\ LogLeft' = 19 - Len(lines)
      BY <1>2, <2>1, <3>1 DEF DlogMalloc, DlogFormat, DlogReturn
    <3>3. \A n \in 0 .. 16 : 19 - n < 20
      OBVIOUS
    <3> QED
      BY <1>1, <3>2, <3>3
  <2>2. CASE lpc' # "chunk"
    BY <1>2, <2>2 DEF DlogMalloc, DlogFormat, DlogReturn
  <2> QED
    BY <2>1, <2>2
<1>3. CASE DlogChunk /\ lpc' = "chunk"
  <2>1. PICK x : lines' = Append(lines, x)
    BY <1>3 DEF DlogChunk
  <2>2. Len(lines') = Len(lines) + 1
    BY <1>1, <2>1
  <2> QED
    BY <1>1, <1>3, <2>2 DEF DlogChunk
<1>4. CASE DlogChunk /\ lpc' = "notice"
  <2>1. LogLeft = 19 - Len(lines) /\ LogLeft' = 2
    BY <1>4 DEF DlogChunk
  <2>2. \A n \in 0 .. 16 : 2 < 19 - n
    OBVIOUS
  <2> QED
    BY <1>1, <2>1, <2>2
<1>5. CASE DlogNotice
  BY <1>5 DEF DlogNotice
<1>6. CASE DlogDone
  BY <1>6 DEF DlogDone, DlogReturn
<1> QED
  BY <1>2, <1>3, <1>4, <1>5, <1>6 DEF DlogStep, DlogChunk

\* What is left of a call is a number of statements.
LEMMA LeftNat == IInv => ReadLeft \in Nat /\ LogLeft \in Nat
<1> SUFFICES ASSUME IInv PROVE ReadLeft \in Nat /\ LogLeft \in Nat
  OBVIOUS
<1>1. i \in 1 .. 5 /\ pc \in PC
  BY DEF IInv, Types, StatusTypeOK
<1>2. Len(lines) \in 0 .. 16 /\ lpc \in {"idle", "malloc", "format", "chunk", "notice", "done"}
  BY SixteenLines DEF IInv, DlogInv, DLogTypeOK
<1>3. ReadLeft \in Nat
  BY <1>1 DEF ReadLeft, PC
<1>4. LogLeft \in Nat
  <2>1. LogLeft \in {0, 1, 2, 20, 21} \/ LogLeft = 19 - Len(lines)
    BY <1>2 DEF LogLeft
  <2>2. \A n \in 0 .. 16 : 19 - n \in Nat
    OBVIOUS
  <2>3. 19 - Len(lines) \in Nat
    BY <1>2, <2>2
  <2> QED
    BY <2>1, <2>3
<1> QED
  BY <1>3, <1>4

\* One of the two numbers is smaller and the other is the same.
LEMMA Sums ==
  \A a, b, c \in Nat :
    /\ a < b => a + c < b + c /\ a + c <= b + c
    /\ a < b => c + a < c + b /\ c + a <= c + b
    /\ a + b <= a + b /\ 0 <= a + b
OBVIOUS

\* Every call of the platform ends after a bounded number of its statements,
\* for every message, whatever fails in it and whatever changes meanwhile.
THEOREM CallsEnd == Spec => CallsBounded
<1>0. IInv' => (ReadLeft \in Nat /\ LogLeft \in Nat)'
  BY LeftNat, PTL
<1>1. IInv /\ IInv' /\ [Next]_vars =>
        [pc # "idle" \/ lpc # "idle" =>
           /\ Left' <= Left
           /\ CallStep => Left' < Left]_vars
  <2> SUFFICES ASSUME IInv, IInv', Next, pc # "idle" \/ lpc # "idle"
               PROVE  /\ Left' <= Left
                      /\ CallStep => Left' < Left
    OBVIOUS
  <2>1. ReadLeft \in Nat /\ LogLeft \in Nat
    BY LeftNat
  <2>2. ReadLeft' \in Nat /\ LogLeft' \in Nat
    BY <1>0
  <2>3. CASE CallStep
    <3>1. CASE DlogStep /\ UNCHANGED <<config, led, handler, settings, scenario>>
      <4>1. LogLeft' < LogLeft
        BY <3>1, LogLess DEF IInv
      <4>2. ReadLeft' = ReadLeft
        BY <3>1 DEF ReadLeft, config, handler
      <4> QED
        BY <2>1, <2>2, <4>1, <4>2, Sums DEF Left
    <3>2. CASE \/ (ReadStep \/ TakeConfig) /\ UNCHANGED <<led, handler, dlog, settings, scenario>>
               \/ HandlerStep /\ UNCHANGED <<dlog, settings, scenario>>
      <4>1. ReadLeft' < ReadLeft
        BY <3>2, ReadLess
      <4>2. LogLeft' = LogLeft
        BY <3>2 DEF LogLeft, dlog
      <4> QED
        BY <2>1, <2>2, <4>1, <4>2, Sums DEF Left
    <3> QED
      BY <2>3, <3>1, <3>2 DEF CallStep
  <2>4. CASE UNCHANGED <<pc, i, lpc, lines>>
    <3>1. Left' = Left
      BY <2>4 DEF Left, ReadLeft, LogLeft
    <3> QED
      BY <2>1, <2>3, <3>1, Sums DEF Left
  <2>5. CASE ProcessEnds
    <3>1. Left' = 0
      BY <2>5 DEF ProcessEnds, DlogReturn, Left, ReadLeft, LogLeft
    <3>2. ~CallStep \/ Left' < Left
      BY <2>3
    <3>3. 0 <= Left
      BY <2>1, Sums DEF Left
    <3> QED
      BY <3>1, <3>2, <3>3
  <2>6. CASE Change \/ PackageStep \/ StartAgent
    BY <2>4, <2>6 DEF Change, PackageStep, StartAgent, process, config, handler, dlog
  <2>7. CASE ThreadStep
    <3>1. lpc = "idle" /\ pc # "idle"
      BY <2>7 DEF ThreadStep
    <3> QED
      BY <2>4, <2>7, <3>1 DEF ThreadStep, InitProxyCache, AllocProxy, LoadProxy, SaveHost, SavePort,
                              SaveUsername, SavePassword, SaveField, EndProxy, DeinitProxyCache,
                              InitialStatus, Begin, Pass, handler, dlog
  <2>8. ASSUME CallConnect \/ CallConfig \/ CallStatus \/ CallDlog
        PROVE  FALSE
    BY <2>8 DEF CallConnect, CallConfig, CallStatus, CallDlog, Connect, GetConfig, Notify, Begin,
                Pass, DlogCall
  <2> QED
    BY <2>3, <2>5, <2>6, <2>7, <2>8 DEF Next
<1> QED
  BY <1>1, Inductive, PTL DEF Spec, CallsBounded

=============================================================================
