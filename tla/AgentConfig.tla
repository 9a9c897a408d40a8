----------------------------- MODULE AgentConfig -----------------------------
(***************************************************************************)
(* config.c and esf.c: how the agent reads its configuration.  The proxy   *)
(* parameters are cached once at the start; every other key is read from   *)
(* the parameter storage or from /etc/evp at each call, and the TLS        *)
(* setting once more for every TLS key.                                    *)
(*                                                                         *)
(* One thread of the EVP library (external) calls in; pc is the next       *)
(* statement of its call and back the label it returns to.  Any allocation *)
(* and any read may fail.  heap is what the call holds and must give back. *)
(***************************************************************************)
EXTENDS DeviceSettings

CONSTANT Proxies   \* proxy parameters that may be stored: the fields not empty

ProxyField == {"url", "username", "password"}

TlsKey == {"TLS_CLIENT_CERT", "TLS_CLIENT_KEY", "TLS_CA_CERT"}
ProxyKey == {"host", "port", "username", "password"}
\* "HTTPS_CA_CERT" stands for the parameters nothing gates, "OTHER" for the
\* keys read_config has no case or no size for.
Key == TlsKey \cup ProxyKey \cup {"MQTT_HOST", "HTTPS_CA_CERT", "OTHER"}

KindOf(k) == IF k = "TLS_CLIENT_CERT" THEN "cert" ELSE "key"

\* Both are NULL to the caller; Ignored is the NULL of Insecure Mode.
Null == "NULL"
Ignored == "ignored"
Unread == "unread"
Value == {Null, Ignored, Unread, "text"} \cup Url \cup Pairs \cup {Placeholder}

ASSUME ConfigAssumption ==
  /\ Proxies \subseteq SUBSET ProxyField
  /\ Pairs \cap {Null, Ignored, Unread} = {}

VARIABLES
  phase,   \* agent thread: "off", "status", a statement of InitProxyCache,
           \* "up" or "ended"
  cache,   \* g_proxy_cache: the fields that are set
  prm,     \* the parameters that were loaded for it: the fields not empty;
           \* kept, once they are freed, for ProxyWhole
  failed,  \* ret # 0 in evp_agent_esf_init_proxy_cache
  pc,      \* next statement of the current call, "idle" between calls
  back,    \* where evp_agent_esf_read_config returns to
  key,     \* its argument
  path,    \* cert_key_path: the pair of the file that was found
  cfg,     \* the configuration it returns
  heap,    \* allocations and descriptors the call holds
  got,     \* per TLS key, what the current connection attempt was given
  met      \* history: what was to be read of the TLS setting since the attempt
           \* began, "off" or "use"; {} without an attempt

proxy == <<cache, prm, failed>>
reader == <<back, key, path, cfg>>
attempt == <<got, met>>
config == <<phase, proxy, pc, reader, heap, attempt>>

\* The statements of evp_agent_esf_init_proxy_cache
ProxyPhase == {"allocProxy", "loadProxy", "saveHost", "savePort", "saveUsername",
               "savePassword", "endProxy"}

ConfigTypeOK ==
  /\ phase \in {"off", "status", "up", "ended"} \cup ProxyPhase
  /\ cache \in SUBSET ProxyKey
  /\ prm \in SUBSET ProxyField
  /\ failed \in BOOLEAN
  /\ back \in {"idle", "take", "hostTest"}
  /\ key \in Key
  /\ path \in Pairs \cup {Placeholder}
  /\ cfg \in Value
  /\ heap \in SUBSET {"prm", "buf", "config", "dir", "path", "fd", "project_id", "register_token"}
  /\ got \in [TlsKey -> Value]
  /\ met \in SUBSET {"off", "use"}

ConfigInit ==
  /\ phase = "off"
  /\ cache = {} /\ prm = {} /\ failed = FALSE
  /\ pc = "idle"
  /\ back = "idle" /\ key = "OTHER" /\ path = Placeholder /\ cfg = Null
  /\ heap = {}
  /\ got = [k \in TlsKey |-> Unread]
  /\ met = {}

Pass(from, to) == pc = from /\ pc' = to

-----------------------------------------------------------------------------
(* The proxy cache                                                         *)

\* The failure of a statement: ret is set, goto end
GotoEnd == phase' = "endProxy" /\ failed' = TRUE

AllocProxy ==
  /\ phase = "allocProxy"
  /\ \/ phase' = "loadProxy" /\ heap' = heap \cup {"prm"} /\ UNCHANGED failed
     \/ GotoEnd /\ UNCHANGED heap
  /\ UNCHANGED <<cache, prm, pc, reader, attempt>>

\* EsfNetworkManagerLoadParameter (external)
LoadProxy ==
  /\ phase = "loadProxy"
  /\ \/ phase' = "saveHost" /\ prm' \in Proxies /\ UNCHANGED failed
     \/ GotoEnd /\ UNCHANGED prm
  /\ UNCHANGED <<cache, pc, reader, heap, attempt>>

\* A field that is not empty is copied with strdup
SaveField(from, field, to, saved, skip) ==
  /\ phase = from
  /\ \/ field \in prm /\ phase' = to /\ cache' = cache \cup {saved} /\ UNCHANGED failed
     \/ field \in prm /\ GotoEnd /\ UNCHANGED cache
     \/ field \notin prm /\ phase' = skip /\ UNCHANGED <<cache, failed>>
  /\ UNCHANGED <<prm, pc, reader, heap, attempt>>

SaveHost == SaveField("saveHost", "url", "savePort", "host", "saveUsername")

\* snprintf may have written something when it fails
SavePort ==
  /\ phase = "savePort"
  /\ \/ phase' = "saveUsername" /\ cache' = cache \cup {"port"} /\ UNCHANGED failed
     \/ GotoEnd /\ cache' \in {cache, cache \cup {"port"}}
  /\ UNCHANGED <<prm, pc, reader, heap, attempt>>

\* Mutant: the failed copy goes to the end and leaves ret at 0
SaveUsernameRetKept ==
  /\ phase = "saveUsername"
  /\ \/ phase' = "savePassword"
        /\ cache' = cache \cup (prm \cap {"username"})
     \/ phase' = "endProxy" /\ "username" \in prm /\ UNCHANGED cache
  /\ UNCHANGED <<prm, failed, pc, reader, heap, attempt>>

SaveUsername == SaveField("saveUsername", "username", "savePassword", "username", "savePassword")

SavePassword == SaveField("savePassword", "password", "endProxy", "password", "endProxy")

\* evp_agent_esf_deinit_proxy_cache frees the strings; the port is an array
\* and keeps its content
Deinit(fields) == fields \cap {"port"}

\* The thread goes on with the cache, or ends without it
EndProxy ==
  /\ phase = "endProxy"
  /\ heap' = heap \ {"prm"}
  /\ cache' = IF failed THEN Deinit(cache) ELSE cache
  /\ phase' = IF failed THEN "ended" ELSE "up"
  /\ UNCHANGED <<prm, failed, pc, reader, attempt>>

InitProxyCache ==
  \/ AllocProxy \/ LoadProxy
  \/ SaveHost \/ SavePort \/ SaveUsername \/ SavePassword
  \/ EndProxy

\* The end of the thread, after evp_agent_stop: no call is in progress
DeinitProxyCache ==
  /\ phase = "up"
  /\ pc = "idle"
  /\ phase' = "ended"
  /\ cache' = Deinit(cache)
  /\ UNCHANGED <<prm, failed, pc, reader, heap, attempt>>

-----------------------------------------------------------------------------
(* The TLS setting                                                         *)

\* EsfSystemManagerGetEvpTls (external) may fail, and does without a row
TlsReads == ({row.tls} \ {Absent}) \cup {"unreadable"}

\* Mutant: a setting that cannot be read counts as disabled
IsTlsEnabledIfRead(read) == read = "on"

\* evp_agent_esf_is_tls_enabled: "attempt to use TLS" when it cannot be read
IsTlsEnabled(read) == read # "off"

Meaning(read) == IF read = "off" THEN "off" ELSE "use"

-----------------------------------------------------------------------------
(* get_config_impl and evp_agent_esf_read_config                           *)

\* The library begins to connect and will read the TLS keys.
Connect ==
  /\ phase = "up"
  /\ pc = "idle"
  /\ got' = [k \in TlsKey |-> Unread]
  /\ met' = {Meaning(row.tls)}
  /\ UNCHANGED <<phase, proxy, pc, reader, heap>>

ReadConfig(k, label) ==
  /\ back' = label
  /\ key' = k
  /\ cfg' = Null
  /\ UNCHANGED path

GetConfig(k) ==
  /\ phase = "up"
  /\ k \in TlsKey => met # {}
  /\ Pass("idle", IF k \in TlsKey THEN "gate" ELSE "calloc")
  /\ ReadConfig(k, "take")
  /\ UNCHANGED <<phase, proxy, heap, attempt>>

\* "When the user set Insecure Mode, ignore TLS configurations"
Gate ==
  /\ \E read \in TlsReads :
       /\ Pass("gate", IF IsTlsEnabled(read) THEN "calloc" ELSE back)
       /\ cfg' = IF IsTlsEnabled(read) THEN Null ELSE Ignored
       /\ met' = met \cup {Meaning(read)}
  /\ UNCHANGED <<phase, proxy, back, key, path, heap, got>>

\* evp_agent_esf_read_config returns NULL, or goes on
Calloc ==
  /\ \/ Pass("calloc", back) /\ UNCHANGED heap
     \/ Pass("calloc", "lookup") /\ heap' = heap \cup {"buf"}
  /\ UNCHANGED <<phase, proxy, reader, attempt>>

\* What the case of the key may answer; Null is a failure
Answers(k) ==
  CASE k \in ProxyKey        -> {IF k \in cache THEN "text" ELSE Null}
    [] k = "MQTT_HOST"       -> {Null} \cup ({row.url} \ {Absent})
    [] k \in {"TLS_CA_CERT", "HTTPS_CA_CERT"} -> {Null, "text"}
    [] OTHER                 -> {Null}

Lookup ==
  /\ key \notin {"TLS_CLIENT_CERT", "TLS_CLIENT_KEY"}
  /\ \E v \in Answers(key) :
       /\ Pass("lookup", IF v = Null THEN back ELSE "wrap")
       /\ cfg' = v
       /\ heap' = IF v = Null THEN heap \ {"buf"} ELSE heap
  /\ UNCHANGED <<phase, proxy, back, key, path, attempt>>

\* Mutant: the path of a file that cannot be opened is not freed
FreeReadCertKeepsPath == heap \ {"fd", "buf"}

\* The common end of read_cert_key, and the free(buf) of its caller
FreeRead == heap \ {"fd", "path", "buf"}

\* get_cert_key_path: opendir ...
OpenDir ==
  /\ key \in {"TLS_CLIENT_CERT", "TLS_CLIENT_KEY"}
  /\ \/ Pass("lookup", "scan") /\ heap' = heap \cup {"dir"}
     \/ Pass("lookup", back) /\ heap' = FreeRead
  /\ UNCHANGED <<phase, proxy, reader, attempt>>

\* ... the first entry that matches, in any order, and closedir; the search
\* or asprintf may fail
FindFile ==
  /\ \/ /\ \E f \in files : f[2] = KindOf(key) /\ path' = f[1]
        /\ Pass("scan", "open")
        /\ heap' = (heap \ {"dir"}) \cup {"path"}
     \/ /\ Pass("scan", back)
        /\ heap' = FreeRead \ {"dir"}
        /\ UNCHANGED path
  /\ UNCHANGED <<phase, proxy, back, key, cfg, attempt>>

\* The file may have gone since the directory was read
OpenFile ==
  /\ \/ /\ <<path, KindOf(key)>> \in files
        /\ Pass("open", "read")
        /\ heap' = heap \cup {"fd"}
     \/ /\ Pass("open", back)
        /\ heap' = FreeRead
  /\ UNCHANGED <<phase, proxy, reader, attempt>>

\* Mutant: only a negative result of read() is an error
ContentUnlessError(p) == {p}

\* read() returns what the file holds, nothing for an empty file; "nread <= 0"
\* is an error
Content(p) == {p} \ {Placeholder}

ReadFile ==
  /\ \/ /\ cfg' \in Content(path)
        /\ Pass("read", "wrap")
        /\ heap' = heap \ {"fd", "path"}
     \/ /\ Pass("read", back)
        /\ heap' = FreeRead
        /\ UNCHANGED cfg
  /\ UNCHANGED <<phase, proxy, back, key, path, attempt>>

\* The config struct is allocated last
Wrap ==
  /\ \/ /\ Pass("wrap", back)
        /\ heap' = heap \cup {"config"}
        /\ UNCHANGED cfg
     \/ /\ Pass("wrap", back)
        /\ heap' = heap \ {"buf"}
        /\ cfg' = Null
  /\ UNCHANGED <<phase, proxy, back, key, path, attempt>>

\* The library takes the value (load_config_impl), wipes it
\* (unload_config_impl) and frees both.
TakeConfig ==
  /\ Pass("take", "idle")
  /\ got' = IF key \in TlsKey THEN [got EXCEPT ![key] = cfg] ELSE got
  /\ heap' = heap \ {"buf", "config"}
  /\ back' = "idle" /\ key' = "OTHER" /\ path' = Placeholder /\ cfg' = Null
  /\ UNCHANGED <<phase, proxy, met>>

ReadStep == Gate \/ Calloc \/ Lookup \/ OpenDir \/ FindFile \/ OpenFile \/ ReadFile \/ Wrap

-----------------------------------------------------------------------------
(* Properties                                                              *)

\* In one connection attempt a TLS key is ignored only if the setting was
\* "off" during the attempt, and given only if it was not: with a setting
\* that does not change and can be read the three keys are treated alike,
\* and a setting that cannot be read never switches TLS off.
TlsFollowsSetting ==
  \A k \in TlsKey :
    /\ got[k] = Ignored => "off" \in met
    /\ got[k] \notin {Null, Ignored, Unread} => "use" \in met

\* The certificate and the key that are handed out are files of the user:
\* the empty files each installation of the package puts next to them may be
\* found first, and are never served.
CredentialsReal ==
  \A k \in {"TLS_CLIENT_CERT", "TLS_CLIENT_KEY"} :
    got[k] \in Pairs \cup {Null, Ignored, Unread}

\* What the stored parameters give when they are cached as a whole
Cached(stored) ==
  (IF "url" \in stored THEN {"host", "port"} ELSE {}) \cup (stored \cap {"username", "password"})

\* While the library runs, the cache holds the whole of the parameters that
\* were loaded: whichever copy failed, no host is used without its port or
\* its user, and an agent that could not copy a field does not run.
ProxyWhole == phase = "up" => cache = Cached(prm)

\* Nothing stays allocated by a call that is over, whichever step of it
\* failed, nor by the filling of the proxy cache, nor by the cache after the
\* thread.
ConfigNoLeak ==
  /\ pc = "idle" /\ phase \notin ProxyPhase => heap = {}
  /\ phase = "ended" => cache \subseteq {"port"}

=============================================================================
