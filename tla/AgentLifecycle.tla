--------------------------- MODULE AgentLifecycle ---------------------------
(***************************************************************************)
(* evp-agent.c: the EVP agent thread from pthread_create to pthread_exit,  *)
(* evp_agent_startup and evp_agent_shutdown in the main thread, the        *)
(* backdoor functions other threads call (sdk_backdoor.h) and the queue of *)
(* WASM native symbols that is filled before and flushed by the thread.    *)
(*                                                                         *)
(* The EVP library, WAMR and the watchdog are external: a call of theirs   *)
(* succeeds or fails.  apc, mpc and cpc name the next statement of the     *)
(* agent thread, the main thread and each caller.                          *)
(***************************************************************************)
EXTENDS Naturals, Sequences, FiniteSets

CONSTANTS
  Callers,      \* threads that use the agent context through the backdoor
  Registrars,   \* threads that register native symbols, one module each
  NoEntry       \* the end of the native symbol queue

ASSUME AgentAssumption ==
  /\ NoEntry \notin Registrars
  /\ Callers \cap Registrars = {}
  /\ IsFiniteSet(Registrars)

VARIABLES
  apc,        \* agent thread
  mpc,        \* main thread
  cpc,        \* callers and registrars
  err,        \* ret # 0 in evp_agent_thread, stored in g_evp_agent.ret at exit
  held,       \* what the agent thread has set up and not yet torn down
  ctxt,       \* g_evp_agent.ctxt is set
  freed,      \* evp_agent_free has been called on the context
  started,    \* g_evp_agent.started
  signalled,  \* g_evp_agent.signalled
  seen,       \* seen[c]: the context pointer caller c has read is not NULL
  queue,      \* g_wasm_native_symbols.queue
  natlock,    \* holder of g_wasm_native_symbols.lock, or NoEntry
  tail,       \* tail[r]: last entry of the queue when registrar r links its own
  entry, tmp, \* iteration of evp_agent_flush_wasm_native_symbols
  native,     \* modules registered with the WASM runtime
  accepted,   \* registrars that were answered true
  early       \* those answered true before the thread set started

thread == <<apc, err, held, ctxt, freed, started>>
backdoor == <<cpc, seen>>
natives == <<queue, natlock, tail, native, accepted, early>>
iter == <<entry, tmp>>
main == <<mpc, signalled>>
vars == <<thread, backdoor, natives, iter, main>>

Clients == Callers \cup Registrars
Resource == {"context", "proxy", "agent", "connection", "watchdog"}

SetupPC == {"none", "begin", "setname", "setup", "platform", "status", "proxy",
            "notify", "start", "flush", "flushing", "connect", "wdtstart",
            "publish", "loop", "signal"}
TeardownPC == {"wdtstop", "disconnect", "stop", "deinit", "free", "exit", "exited"}

TypeOK ==
  /\ apc \in SetupPC \cup TeardownPC
  /\ mpc \in {"boot", "failed", "addlib", "up", "join", "down"}
  /\ cpc \in [Clients -> {"idle", "use", "ustatus", "uget", "uall", "udone",
                          "lock", "read", "link", "answered"}]
  /\ err \in BOOLEAN /\ ctxt \in BOOLEAN /\ freed \in BOOLEAN
  /\ started \in BOOLEAN /\ signalled \in BOOLEAN
  /\ held \in SUBSET Resource
  /\ seen \in [Callers -> BOOLEAN]
  /\ queue \in Seq(Registrars)
  /\ natlock \in Registrars \cup {NoEntry}
  /\ tail \in [Registrars -> Registrars \cup {NoEntry}]
  /\ entry \in Registrars \cup {NoEntry} /\ tmp \in Registrars \cup {NoEntry}
  /\ native \in SUBSET Registrars
  /\ accepted \in SUBSET Registrars /\ early \in SUBSET Registrars

Init ==
  /\ apc = "none" /\ mpc = "boot" /\ cpc = [c \in Clients |-> "idle"]
  /\ err = FALSE /\ ctxt = FALSE /\ freed = FALSE
  /\ started = FALSE /\ signalled = FALSE
  /\ held = {}
  /\ seen = [c \in Callers |-> FALSE]
  /\ queue = <<>> /\ natlock = NoEntry
  /\ tail = [r \in Registrars |-> NoEntry]
  /\ entry = NoEntry /\ tmp = NoEntry
  /\ native = {} /\ accepted = {} /\ early = {}

-----------------------------------------------------------------------------
(* The agent thread                                                        *)

Go(from, to) == apc = from /\ apc' = to

(* A call whose failure takes a goto; ret records it                       *)
Try(from, ok, bad) ==
  /\ \/ Go(from, ok) /\ err' = FALSE
     \/ Go(from, bad) /\ err' = TRUE
  /\ UNCHANGED <<held, ctxt, freed, started>>

(* A call that sets something up when it succeeds                          *)
TrySetup(from, ok, bad, r) ==
  /\ \/ Go(from, ok) /\ err' = FALSE /\ held' = held \cup {r}
     \/ Go(from, bad) /\ err' = TRUE /\ UNCHANGED held
  /\ UNCHANGED <<ctxt, freed, started>>

Teardown(from, to, r) ==
  /\ Go(from, to)
  /\ held' = held \ {r}
  /\ UNCHANGED <<err, ctxt, started>>

Begin ==
  /\ Go("begin", "setname")
  /\ started' = TRUE
  /\ UNCHANGED <<err, held, ctxt, freed>>

(* pthread_setname_np; a failure leaves before anything is set up          *)
SetName == Try("setname", "setup", "exited")

(* evp_agent_setup returns a context or ends the process                   *)
Setup ==
  /\ Go("setup", "platform")
  /\ held' = held \cup {"context"}
  /\ UNCHANGED <<err, ctxt, freed, started>>

(* Mutants: a failed evp_agent_start leaves the proxy cache; the context is *)
(* published as soon as the agent is started                               *)
AgentStartLeaks == TrySetup("start", "flush", "free", "agent")
AgentStartPublishes ==
  /\ Go("start", "flush")
  /\ held' = held \cup {"agent"}
  /\ ctxt' = TRUE
  /\ UNCHANGED <<err, freed, started>>

(* Mutant: a failed registration of the handlers takes the label of the    *)
(* next call                                                               *)
NotificationsRegisterStops == Try("notify", "start", "stop")

PlatformRegister == Try("platform", "status", "free")
InitialStatus == Try("status", "proxy", "free")
InitProxyCache == TrySetup("proxy", "notify", "free", "proxy")
NotificationsRegister == Try("notify", "start", "deinit")
AgentStart == TrySetup("start", "flush", "deinit", "agent")
Connect == TrySetup("connect", "wdtstart", "stop", "connection")

(* EsfPwrMgrSwWdtStart: its failure leaves ret at 0                        *)
WdtStart ==
  /\ \/ Go("wdtstart", "publish") /\ held' = held \cup {"watchdog"}
     \/ Go("wdtstart", "disconnect") /\ UNCHANGED held
  /\ UNCHANGED <<err, ctxt, freed, started>>

(* set_backdoor_context                                                    *)
Publish ==
  /\ Go("publish", "loop")
  /\ ctxt' = TRUE
  /\ UNCHANGED <<err, held, freed, started>>

(* Keepalive, whose failure is only logged, and evp_agent_loop             *)
Loop == Try("loop", "signal", "signal")

(* Mutant: the loop ends on an error only                                  *)
CheckErrorOnly ==
  /\ Go("signal", IF err THEN "wdtstop" ELSE "loop")
  /\ UNCHANGED <<err, held, ctxt, freed, started>>

CheckSignal ==
  /\ Go("signal", IF signalled \/ err THEN "wdtstop" ELSE "loop")
  /\ UNCHANGED <<err, held, ctxt, freed, started>>

(* Mutant: the context is reset when it is freed                           *)
FreeAndReset ==
  /\ Go("free", "exit")
  /\ held' = held \ {"context"}
  /\ ctxt' = FALSE
  /\ freed' = TRUE
  /\ UNCHANGED <<err, started>>

(* A failure of EsfPwrMgrSwWdtStop is only logged                          *)
WdtStop == Teardown("wdtstop", "disconnect", "watchdog") /\ UNCHANGED freed
Disconnect == Teardown("disconnect", "stop", "connection") /\ UNCHANGED freed
Stop == Teardown("stop", "deinit", "agent") /\ UNCHANGED freed
DeinitProxyCache == Teardown("deinit", "free", "proxy") /\ UNCHANGED freed
Free == Teardown("free", "exit", "context") /\ freed' = TRUE

(* Mutant: the result of the teardown overwrites the result of the loop    *)
ThreadExitForgets ==
  /\ Go("exit", "exited")
  /\ err' = FALSE
  /\ UNCHANGED <<held, ctxt, freed, started>>

ThreadExit ==
  /\ Go("exit", "exited")
  /\ UNCHANGED <<err, held, ctxt, freed, started>>

AgentOnly ==
  /\ \/ Begin \/ SetName \/ Setup \/ PlatformRegister \/ InitialStatus
     \/ InitProxyCache \/ NotificationsRegister \/ AgentStart \/ Connect
     \/ WdtStart \/ Publish \/ Loop \/ CheckSignal \/ WdtStop \/ Disconnect
     \/ Stop \/ DeinitProxyCache \/ Free \/ ThreadExit
  /\ UNCHANGED <<backdoor, natives, iter, main>>

Queued == {queue[i] : i \in 1 .. Len(queue)}
Nth(i) == IF i <= Len(queue) THEN queue[i] ELSE NoEntry

(* evp_agent_flush_wasm_native_symbols takes no lock.  TAILQ_FOREACH_SAFE  *)
(* reads the entry after the current one before the body runs.             *)
FlushBegin ==
  /\ Go("flush", "flushing")
  /\ entry' = Nth(1)
  /\ tmp' = Nth(2)
  /\ UNCHANGED <<err, held, ctxt, freed, started, backdoor, natives, main>>

(* Mutant: the entry after the current one is registered                   *)
FlushNextEntry ==
  /\ apc = "flushing"
  /\ entry # NoEntry
  /\ native' = native \cup {tmp}
  /\ queue' = Tail(queue)
  /\ entry' = tmp
  /\ tmp' = IF tmp = NoEntry THEN NoEntry ELSE Nth(3)
  /\ UNCHANGED <<apc, err, held, ctxt, freed, started, backdoor, natlock, tail,
                 accepted, early, main>>

(* Mutant: the entry after the next one is looked up once the current one  *)
(* is gone                                                                 *)
FlushEntryUnsafe ==
  /\ apc = "flushing"
  /\ entry # NoEntry
  /\ native' = native \cup {entry}
  /\ queue' = Tail(queue)
  /\ entry' = tmp
  /\ tmp' = IF tmp = NoEntry THEN NoEntry ELSE Nth(2)
  /\ UNCHANGED <<apc, err, held, ctxt, freed, started, backdoor, natlock, tail,
                 accepted, early, main>>

(* The current entry is the first one: those before it are gone.           *)
(* After the first failure the other entries are freed unregistered        *)
FlushEntry ==
  /\ apc = "flushing"
  /\ entry # NoEntry
  /\ \/ /\ ~err
        /\ native' = native \cup {entry}
        /\ UNCHANGED err
     \/ /\ err' = TRUE
        /\ UNCHANGED native
  /\ queue' = Tail(queue)
  /\ entry' = tmp
  /\ tmp' = IF tmp = NoEntry THEN NoEntry ELSE Nth(3)
  /\ UNCHANGED <<apc, held, ctxt, freed, started, backdoor, natlock, tail,
                 accepted, early, main>>

(* Mutant: the result of the flush is ignored                              *)
FlushEndIgnoresError ==
  /\ entry = NoEntry
  /\ Go("flushing", "connect")
  /\ UNCHANGED <<err, held, ctxt, freed, started, backdoor, natives, iter, main>>

FlushEnd ==
  /\ entry = NoEntry
  /\ Go("flushing", IF err THEN "stop" ELSE "connect")
  /\ UNCHANGED <<err, held, ctxt, freed, started, backdoor, natives, iter, main>>

AgentStep == AgentOnly \/ FlushBegin \/ FlushEntry \/ FlushEnd

-----------------------------------------------------------------------------
(* The main thread                                                         *)

MainGo(from, to) == mpc = from /\ mpc' = to

(* pthread_create                                                          *)
Startup ==
  /\ \/ MainGo("boot", "addlib") /\ apc' = "begin"
     \/ MainGo("boot", "failed") /\ UNCHANGED apc
  /\ UNCHANGED <<err, held, ctxt, freed, started, signalled, backdoor, natives, iter>>

(* evp_add_wasm_native_library, while the agent thread already runs        *)
AddNativeLibrary ==
  /\ MainGo("addlib", "up")
  /\ UNCHANGED <<thread, signalled, backdoor, natives, iter>>

Shutdown ==
  /\ MainGo("up", "join")
  /\ signalled' = TRUE
  /\ UNCHANGED <<thread, backdoor, natives, iter>>

Join ==
  /\ apc = "exited"
  /\ MainGo("join", "down")
  /\ UNCHANGED <<thread, signalled, backdoor, natives, iter>>

MainStep == Startup \/ AddNativeLibrary \/ Shutdown \/ Join

-----------------------------------------------------------------------------
(* Callers of the backdoor functions                                       *)

CallerGo(c, from, to) == cpc[c] = from /\ cpc' = [cpc EXCEPT ![c] = to]

(* get_backdoor_context; NULL is answered without a call of the library    *)
GetContext(c, from, to) ==
  /\ CallerGo(c, from, IF ctxt THEN to ELSE "idle")
  /\ seen' = [seen EXCEPT ![c] = ctxt]
  /\ UNCHANGED <<thread, natives, iter, main>>

(* EVP_getAgentStatus, EVP_Agent_register_sys_client and _unregister_      *)
OneCall(c) == GetContext(c, "idle", "use")

(* EVP_undeployModules: the status call reads the context, the rest reads  *)
(* it again and no longer looks whether it is NULL                         *)
UndeployModules(c) == GetContext(c, "idle", "ustatus")

UndeployGet(c) ==
  /\ CallerGo(c, "uget", "uall")
  /\ seen' = [seen EXCEPT ![c] = ctxt]
  /\ UNCHANGED <<thread, natives, iter, main>>

(* A call of the library with the context that was read                    *)
LibraryCall(c) ==
  /\ \/ CallerGo(c, "use", "idle")
     \/ \E next \in {"uget", "idle"} : CallerGo(c, "ustatus", next)
     \/ CallerGo(c, "uall", "udone")
     \/ CallerGo(c, "udone", "idle")
  /\ UNCHANGED <<seen, thread, natives, iter, main>>

CallerStep(c) ==
  OneCall(c) \/ UndeployModules(c) \/ UndeployGet(c) \/ LibraryCall(c)

InLibrary(c) == cpc[c] \in {"use", "ustatus", "uall", "udone"}

-----------------------------------------------------------------------------
(* Registrars: EVP_wasm_runtime_register_natives, once each                *)

CheckStarted(r) ==
  /\ CallerGo(r, "idle", IF started THEN "answered" ELSE "lock")
  /\ UNCHANGED <<seen, thread, natives, iter, main>>

(* evp_agent_wasm_native_symbol_add fails on its arguments or on malloc    *)
AddFails(r) ==
  /\ CallerGo(r, "lock", "answered")
  /\ UNCHANGED <<seen, thread, natives, iter, main>>

LockQueue(r) ==
  /\ natlock = NoEntry
  /\ natlock' = r
  /\ CallerGo(r, "lock", "read")
  /\ UNCHANGED <<seen, queue, tail, native, accepted, early, thread, iter, main>>

(* TAILQ_INSERT_TAIL reads the tail pointer ...                            *)
ReadTail(r) ==
  /\ CallerGo(r, "read", "link")
  /\ tail' = [tail EXCEPT ![r] = IF queue = <<>> THEN NoEntry ELSE Nth(Len(queue))]
  /\ UNCHANGED <<seen, queue, natlock, native, accepted, early, thread, iter, main>>

(* ... and writes through it; when the flush has meanwhile freed the last  *)
(* entry the new one is linked to freed memory and not to the queue.       *)
LinkEntry(r) ==
  /\ CallerGo(r, "link", "answered")
  /\ queue' = IF tail[r] \in Queued \cup {NoEntry}
              THEN Append(queue, r) ELSE queue
  /\ natlock' = NoEntry
  /\ accepted' = accepted \cup {r}
  /\ early' = IF started THEN early ELSE early \cup {r}
  /\ UNCHANGED <<seen, tail, native, thread, iter, main>>

RegistrarStep(r) ==
  CheckStarted(r) \/ AddFails(r) \/ LockQueue(r) \/ ReadTail(r) \/ LinkEntry(r)

-----------------------------------------------------------------------------
Next ==
  \/ AgentStep
  \/ MainStep
  \/ \E c \in Callers : CallerStep(c)
  \/ \E r \in Registrars : RegistrarStep(r)

Spec == Init /\ [][Next]_vars

(* The agent thread runs and evp_agent_loop returns; pthread_join returns  *)
(* once the thread is over.  Nothing forces a startup or a shutdown.       *)
Fairness == WF_vars(AgentStep) /\ WF_vars(Join)

FairSpec == Spec /\ Fairness

-----------------------------------------------------------------------------
(* Properties                                                              *)

(* The goto ladder of evp_agent_thread implements ResourceLadder: on every *)
(* path through it what was set up is torn down once, in reverse order,    *)
(* before the thread is over.                                              *)
Order == <<"context", "proxy", "agent", "connection", "watchdog">>
Ladder == INSTANCE ResourceLadder WITH
  Depth <- 5,
  level <- {i \in 1 .. 5 : Order[i] \in held},
  phase <- IF apc \in SetupPC THEN "up" ELSE IF apc = "exited" THEN "off" ELSE "down"
LadderImplemented == Ladder!Spec

(* Whichever of the calls failed and whichever label it jumped to, what the *)
(* thread comes to tear down was set up and has not been torn down yet: no *)
(* agent is stopped that was not started, no context is freed twice.       *)
TearsDownHeld ==
  /\ apc = "wdtstop" => "watchdog" \in held
  /\ apc = "disconnect" => "connection" \in held
  /\ apc = "stop" => "agent" \in held
  /\ apc = "deinit" => "proxy" \in held
  /\ apc = "free" => "context" \in held

(* EVP_undeployModules never hands NULL to the library although it reads   *)
(* the context twice and checks only the first: the context is never reset *)
UndeployHasContext == \A c \in Callers : InLibrary(c) => seen[c]

(* Until the thread begins its teardown, a context that a backdoor function *)
(* works with belongs to an agent that is started, connected and watched.  *)
ServedContextReady ==
  \A c \in Callers :
    InLibrary(c) /\ apc \in SetupPC => {"agent", "connection", "watchdog"} \subseteq held

(* A module whose registration was answered true before the thread set     *)
(* started is known to the WASM runtime when the agent connects, and an    *)
(* agent that could not register one of them never connects.               *)
EarlyRegistered ==
  apc \in {"connect", "wdtstart", "publish", "loop", "signal"} => early \subseteq native

(* The flush, which takes no lock, works with entries of the queue only:   *)
(* whatever registrars link meanwhile, the current entry is the first and  *)
(* the one it has saved to go on with is the second, never a freed one.    *)
FlushIntact ==
  apc = "flushing" =>
    /\ entry # NoEntry => queue # <<>> /\ entry = queue[1]
    /\ tmp # NoEntry => entry # NoEntry /\ Len(queue) >= 2 /\ tmp = queue[2]

(* ret = 0 at the end means that a shutdown ended the loop, or that the    *)
(* watchdog could not be started, which is the one failure ret forgets.    *)
RetFaithful == apc = "exited" /\ ~err => signalled \/ ~ctxt

(* evp_agent_shutdown returns, whatever statement the thread has reached.  *)
ShutdownReturns == mpc = "join" ~> mpc = "down"

(* What the thread has left to do once it is told to stop: statements, and *)
(* entries of the queue, with those that registrars may still add while it *)
(* is being flushed.                                                       *)
StatementsLeft ==
  [none |-> 22, begin |-> 21, setname |-> 20, setup |-> 19, platform |-> 18, status |-> 17,
   proxy |-> 16, notify |-> 15, start |-> 14, flush |-> 13, flushing |-> 12, connect |-> 11,
   wdtstart |-> 10, publish |-> 9, loop |-> 8, signal |-> 7, wdtstop |-> 6, disconnect |-> 5,
   stop |-> 4, deinit |-> 3, free |-> 2, exit |-> 1, exited |-> 0]
Unanswered == {r \in Registrars : cpc[r] # "answered"}
ThreadLeft == StatementsLeft[apc] + Len(queue) + Cardinality(Unanswered)

(* A shutdown waits for a bounded number of steps of the thread, wherever  *)
(* it finds it: every step of the thread leaves it less to do, and nothing *)
(* another thread does, registering modules included, leaves it more.      *)
ShutdownBounded ==
  [][signalled =>
       /\ ThreadLeft <= 22 + Cardinality(Registrars)
       /\ ThreadLeft' <= ThreadLeft
       /\ AgentStep => ThreadLeft' < ThreadLeft]_vars

(* "EVP_undeployModules() may be called from a separate NuttX task from    *)
(* evp_agent_loop()": no backdoor function works with a freed context.     *)
NoFreedContext == \A c \in Callers : ~(InLibrary(c) /\ freed)

(* A wrapper for wasm_runtime_register_natives that answers true has the   *)
(* module registered by the time the agent is connected.                   *)
AcceptedRegistered ==
  apc \in {"publish", "loop", "signal"} => accepted \subseteq native

=============================================================================
