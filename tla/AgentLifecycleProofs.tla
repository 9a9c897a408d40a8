------------------------ MODULE AgentLifecycleProofs ------------------------
(***************************************************************************)
(* Proofs about AgentLifecycle, for every set of callers and registrars.   *)
(***************************************************************************)
EXTENDS AgentLifecycle, FiniteSetTheorems, TLAPS

(* What the thread holds at each of its statements                         *)
Setups == {"none", "begin", "setname", "setup", "exit", "exited"}
HeldAt(a, h) ==
  /\ a \in Setups => h = {}
  /\ a \in {"platform", "status", "proxy", "free"} => h = {"context"}
  /\ a \in {"notify", "start", "deinit"} => h = {"context", "proxy"}
  /\ a \in {"flush", "flushing", "connect", "stop"} => h = {"context", "proxy", "agent"}
  /\ a \in {"wdtstart", "disconnect"} => h = {"context", "proxy", "agent", "connection"}
  /\ a \in {"publish", "loop", "signal", "wdtstop"} => h = Resource
HeldInv == HeldAt(apc, held)

(* The context is published in the loop at the earliest and stays so       *)
PublishInv ==
  /\ apc \in SetupPC /\ ctxt => apc \in {"loop", "signal"}
  /\ \A c \in Callers : seen[c] => ctxt
  /\ \A c \in Callers : cpc[c] = "uget" => seen[c]

(* Where the status of the thread can be 0 although it did not connect     *)
RetInv ==
  /\ apc \in {"free", "deinit", "stop", "disconnect", "exit", "exited"} /\ ~err
       => signalled \/ ~ctxt
  /\ apc = "wdtstop" /\ ~err => signalled

(* Where the early modules are: in the queue until the flush; then in the  *)
(* queue, whose first entry is the current one and whose second is the     *)
(* next, or registered; then registered                                    *)
Unstarted == {"none", "begin"}
Unflushed == Unstarted \cup {"setname", "setup", "platform", "status", "proxy",
                             "notify", "start", "flush"}
Flushed == {"connect", "wdtstart", "publish", "loop", "signal"}
EarlyInv ==
  /\ started <=> apc \notin Unstarted
  /\ apc = "flush" => ~err
  /\ apc \in Unflushed => early \subseteq Queued
  /\ apc \in Unstarted => \A r \in Registrars :
       cpc[r] = "link" => tail[r] \in Queued \cup {NoEntry}
  /\ apc = "flushing" =>
       /\ entry # NoEntry => queue # <<>> /\ entry = queue[1]
       /\ tmp # NoEntry => entry # NoEntry /\ Len(queue) >= 2 /\ tmp = queue[2]
       /\ ~err => early \subseteq native \cup Queued
       /\ ~err /\ tmp = NoEntry => early \subseteq native \cup {entry}
  /\ apc \in Flushed => early \subseteq native

(* The thread does not exist before pthread_create                         *)
BootInv == mpc = "boot" => apc = "none"

IInv ==
  /\ TypeOK
  /\ BootInv
  /\ HeldInv
  /\ PublishInv
  /\ UndeployHasContext
  /\ RetInv
  /\ EarlyInv

-----------------------------------------------------------------------------
(* Agent thread                                                            *)

(* Facts about the steps of the thread outside the flush                   *)
LEMMA AgentOnlyFrame ==
  ASSUME AgentOnly
  PROVE  UNCHANGED <<cpc, seen, queue, natlock, tail, native, accepted, early,
                     entry, tmp, mpc, signalled>>
BY DEF AgentOnly, backdoor, natives, iter, main

(* The steps outside the flush keep every variable in its type             *)
LEMMA AgentOnlyType ==
  ASSUME TypeOK, AgentOnly
  PROVE  TypeOK'
<1>1. /\ apc' \in SetupPC \cup TeardownPC
      /\ err' \in BOOLEAN /\ ctxt' \in BOOLEAN /\ freed' \in BOOLEAN /\ started' \in BOOLEAN
      /\ held' \in SUBSET Resource
  <2>. USE DEF TypeOK, SetupPC, TeardownPC, Resource, Go, Try, TrySetup, Teardown
  <2>1. CASE Begin \/ SetName \/ Setup \/ PlatformRegister \/ InitialStatus \/ InitProxyCache
    BY <2>1 DEF Begin, SetName, Setup, PlatformRegister, InitialStatus, InitProxyCache
  <2>2. CASE NotificationsRegister \/ AgentStart \/ Connect \/ WdtStart \/ Publish \/ Loop
    BY <2>2 DEF NotificationsRegister, AgentStart, Connect, WdtStart, Publish, Loop
  <2>3. CASE \/ CheckSignal \/ WdtStop \/ Disconnect \/ Stop
             \/ DeinitProxyCache \/ Free \/ ThreadExit
    BY <2>3 DEF CheckSignal, WdtStop, Disconnect, Stop, DeinitProxyCache, Free, ThreadExit
  <2>. QED
    BY <2>1, <2>2, <2>3 DEF AgentOnly
<1>. QED
  BY <1>1, AgentOnlyFrame DEF TypeOK

(* What the thread holds after such a step is what its statement implies   *)
LEMMA AgentOnlyHeld ==
  ASSUME TypeOK, HeldInv, AgentOnly
  PROVE  HeldInv'
<1>. USE DEF HeldInv, HeldAt, Setups, Resource, Go, Try, TrySetup, Teardown
<1>1. CASE Begin \/ SetName \/ Setup \/ PlatformRegister \/ InitialStatus
  BY <1>1 DEF Begin, SetName, Setup, PlatformRegister, InitialStatus
<1>2. CASE InitProxyCache \/ NotificationsRegister \/ AgentStart
  BY <1>2 DEF InitProxyCache, NotificationsRegister, AgentStart
<1>3. CASE Connect \/ WdtStart
  BY <1>3 DEF Connect, WdtStart
<1>4. CASE Publish \/ Loop \/ CheckSignal \/ ThreadExit
  BY <1>4 DEF Publish, Loop, CheckSignal, ThreadExit
<1>5. CASE WdtStop \/ Disconnect
  BY <1>5 DEF WdtStop, Disconnect
<1>6. CASE Stop \/ DeinitProxyCache \/ Free
  BY <1>6 DEF Stop, DeinitProxyCache, Free
<1>. QED
  BY <1>1, <1>2, <1>3, <1>4, <1>5, <1>6 DEF AgentOnly

(* The thread's own steps keep the published context, the return value and *)
(* the whereabouts of the early modules                                    *)
LEMMA AgentOnlyRest ==
  ASSUME IInv, AgentOnly
  PROVE  PublishInv' /\ UndeployHasContext' /\ RetInv' /\ EarlyInv'
<1>. USE DEF SetupPC, Unstarted, Unflushed, Flushed, Go, Try, TrySetup, Teardown
<1>1. UNCHANGED <<cpc, seen, queue, tail, native, early, entry, tmp, signalled>>
  BY AgentOnlyFrame
<1>2. Queued' = Queued
  BY <1>1 DEF Queued
<1>3. \/ ctxt' = ctxt /\ ~Publish
      \/ Publish /\ ctxt'
  BY DEF AgentOnly, Begin, SetName, Setup, PlatformRegister, InitialStatus,
       InitProxyCache, NotificationsRegister, AgentStart, Connect, WdtStart,
       Publish, Loop, CheckSignal, WdtStop, Disconnect, Stop, DeinitProxyCache,
       Free, ThreadExit
<1>4. PublishInv' /\ UndeployHasContext'
  <2>1. \A c \in Callers : (seen[c] => ctxt)' /\ (cpc[c] = "uget" => seen[c])'
    BY <1>1, <1>3 DEF IInv, PublishInv
  <2>2. (apc \in SetupPC /\ ctxt => apc \in {"loop", "signal"})'
    BY <1>3 DEF IInv, PublishInv, AgentOnly, Begin, SetName, Setup, PlatformRegister,
       InitialStatus, InitProxyCache, NotificationsRegister, AgentStart, Connect,
       WdtStart, Publish, Loop, CheckSignal, WdtStop, Disconnect, Stop,
       DeinitProxyCache, Free, ThreadExit
  <2>. QED
    BY <1>1, <2>1, <2>2 DEF IInv, PublishInv, UndeployHasContext, InLibrary
<1>5. RetInv'
  BY <1>1, <1>3 DEF IInv, RetInv, PublishInv, AgentOnly, Begin, SetName, Setup,
       PlatformRegister, InitialStatus, InitProxyCache, NotificationsRegister,
       AgentStart, Connect, WdtStart, Publish, Loop, CheckSignal, WdtStop,
       Disconnect, Stop, DeinitProxyCache, Free, ThreadExit
<1>6. EarlyInv'
  <2>. /\ apc' # "flushing"
       /\ apc' = "flush" => ~err'
       /\ started' <=> apc' \notin Unstarted
       /\ apc' \in Unstarted => apc \in Unstarted
       /\ apc' \in Unflushed => apc \in Unflushed
       /\ apc' \in Flushed => apc \in Flushed
    BY DEF IInv, EarlyInv, AgentOnly, Begin, SetName, Setup, PlatformRegister,
       InitialStatus, InitProxyCache, NotificationsRegister, AgentStart, Connect,
       WdtStart, Publish, Loop, CheckSignal, WdtStop, Disconnect, Stop,
       DeinitProxyCache, Free, ThreadExit
  <2>. HIDE DEF Unstarted, Unflushed, Flushed
  <2>. QED
    BY <1>1, <1>2 DEF IInv, EarlyInv
<1>. QED
  BY <1>4, <1>5, <1>6

(* The flush                                                               *)

(* Removing the first entry of the queue                                   *)
LEMMA TailFacts ==
  ASSUME queue \in Seq(Registrars), queue # <<>>, queue' = Tail(queue)
  PROVE  /\ queue' \in Seq(Registrars) /\ Len(queue') = Len(queue) - 1
         /\ \A i \in 1 .. Len(queue') : queue'[i] = queue[i + 1]
         /\ Queued \subseteq Queued' \cup {queue[1]}
<1>1. /\ queue' \in Seq(Registrars) /\ Len(queue') = Len(queue) - 1
      /\ \A i \in 1 .. Len(queue') : queue'[i] = queue[i + 1]
  OBVIOUS
<1>2. ASSUME NEW i \in 1 .. Len(queue), i # 1
      PROVE  queue[i] \in Queued'
  <2>1. i - 1 \in 1 .. Len(queue') /\ queue'[i - 1] = queue[i]
    BY <1>1, <1>2
  <2>. QED
    BY <2>1 DEF Queued
<1>. QED
  BY <1>1, <1>2 DEF Queued

(* Arithmetic: a number above one and not above two                        *)
LEMMA IsTwo ==
  ASSUME NEW n \in Nat, n >= 2, 3 > n
  PROVE  n = 2
OBVIOUS

(* An entry of the queue is a registrar, or there is none                  *)
LEMMA NthType ==
  ASSUME queue \in Seq(Registrars), NEW i \in Nat \ {0}
  PROVE  /\ Nth(i) \in Registrars \cup {NoEntry}
         /\ Nth(i) # NoEntry => i <= Len(queue) /\ Nth(i) = queue[i]
         /\ Nth(i) = NoEntry => i > Len(queue)
BY AgentAssumption DEF Nth

(* The flush starts with the first two entries of the queue                *)
LEMMA FlushBeginSafe ==
  ASSUME IInv, FlushBegin
  PROVE  IInv'
<1>1. /\ apc = "flush" /\ apc' = "flushing" /\ entry' = Nth(1) /\ tmp' = Nth(2)
      /\ UNCHANGED <<err, held, ctxt, freed, started, cpc, seen, queue, natlock, tail,
                     native, accepted, early, mpc, signalled>>
  BY DEF FlushBegin, Go, backdoor, natives, main
<1>2. queue \in Seq(Registrars) /\ early \subseteq Queued /\ ~err /\ started
  BY <1>1 DEF IInv, TypeOK, EarlyInv, Unflushed, Unstarted
<1>3. TypeOK'
  BY <1>1, <1>2, NthType DEF IInv, TypeOK, SetupPC
<1>4. HeldInv' /\ PublishInv' /\ UndeployHasContext' /\ RetInv' /\ BootInv'
  BY <1>1 DEF IInv, BootInv, HeldInv, HeldAt, Setups, PublishInv, UndeployHasContext, InLibrary, RetInv, SetupPC
<1>5. EarlyInv'
  <2>1. Queued' = Queued
    BY <1>1 DEF Queued
  <2>2. tmp' = NoEntry => Queued \subseteq {entry'}
    BY <1>1, <1>2, NthType DEF Queued, Nth
  <2>3. entry' # NoEntry => queue' # <<>> /\ entry' = queue'[1]
    BY <1>1, <1>2, NthType
  <2>4. tmp' # NoEntry => entry' # NoEntry /\ Len(queue') >= 2 /\ tmp' = queue'[2]
    BY <1>1, <1>2, NthType
  <2>. QED
    BY <1>1, <1>2, <2>1, <2>2, <2>3, <2>4 DEF EarlyInv, Unstarted, Unflushed, Flushed
<1>. QED
  BY <1>3, <1>4, <1>5 DEF IInv

(* One iteration of the flush frees the first entry                        *)
LEMMA FlushEntrySafe ==
  ASSUME IInv, FlushEntry
  PROVE  IInv'
<1>1. /\ apc = "flushing" /\ apc' = "flushing" /\ entry # NoEntry
      /\ queue' = Tail(queue) /\ entry' = tmp
      /\ tmp' = IF tmp = NoEntry THEN NoEntry ELSE Nth(3)
      /\ \/ ~err /\ native' = native \cup {entry} /\ err' = err
         \/ err' = TRUE /\ native' = native
      /\ UNCHANGED <<held, ctxt, freed, started, cpc, seen, natlock, tail,
                     accepted, early, mpc, signalled>>
  BY DEF FlushEntry, backdoor, main
<1>2. /\ queue \in Seq(Registrars) /\ queue # <<>> /\ entry = queue[1] /\ started
      /\ tmp # NoEntry => Len(queue) >= 2 /\ tmp = queue[2]
      /\ ~err => early \subseteq native \cup Queued
      /\ ~err /\ tmp = NoEntry => early \subseteq native \cup {entry}
  BY <1>1 DEF IInv, TypeOK, EarlyInv, Unstarted
<1>3. /\ queue' \in Seq(Registrars) /\ Len(queue') = Len(queue) - 1
      /\ \A i \in 1 .. Len(queue') : queue'[i] = queue[i + 1]
      /\ Queued \subseteq Queued' \cup {entry}
  BY <1>1, <1>2, TailFacts
<1>4. TypeOK'
  <2>1. tmp' \in Registrars \cup {NoEntry}
    <3>1. Nth(3) \in Registrars \cup {NoEntry}
      BY <1>2, NthType
    <3>. QED
      BY <1>1, <3>1
  <2>2. native' \in SUBSET Registrars /\ entry' \in Registrars \cup {NoEntry}
    BY <1>1 DEF IInv, TypeOK
  <2>3. err' \in BOOLEAN
    BY <1>1 DEF IInv, TypeOK
  <2>. QED
    BY <1>1, <1>3, <2>1, <2>2, <2>3 DEF IInv, TypeOK
<1>5. HeldInv' /\ PublishInv' /\ UndeployHasContext' /\ RetInv' /\ BootInv'
  BY <1>1 DEF IInv, BootInv, HeldInv, HeldAt, Setups, PublishInv, UndeployHasContext, InLibrary, RetInv, SetupPC
<1>6. EarlyInv'
  <2>1. entry' # NoEntry => queue' # <<>> /\ entry' = queue'[1]
    <3>. SUFFICES ASSUME tmp # NoEntry
                  PROVE  queue' # <<>> /\ tmp = queue'[1]
      BY <1>1
    <3>1. 1 \in 1 .. Len(queue') /\ tmp = queue[1 + 1]
      BY <1>2, <1>3
    <3>. QED
      BY <1>3, <3>1
  <2>2. tmp' # NoEntry => entry' # NoEntry /\ Len(queue') >= 2 /\ tmp' = queue'[2]
    <3>. SUFFICES ASSUME tmp # NoEntry, Nth(3) # NoEntry
                  PROVE  Len(queue') >= 2 /\ Nth(3) = queue'[2]
      BY <1>1
    <3>1. 3 <= Len(queue) /\ Nth(3) = queue[3]
      BY <1>2, NthType
    <3>2. 2 \in 1 .. Len(queue') /\ queue[2 + 1] = queue[3]
      BY <1>2, <1>3, <3>1
    <3>. QED
      BY <1>3, <3>1, <3>2
  <2>3. ~err' => early' \subseteq native' \cup Queued'
    BY <1>1, <1>2, <1>3
  <2>4. ~err' /\ tmp' = NoEntry => early' \subseteq native' \cup {entry'}
    <3>1. CASE tmp = NoEntry
      BY <1>1, <1>2, <3>1
    <3>2. CASE tmp # NoEntry /\ tmp' = NoEntry
      <4>1. Len(queue) = 2
        <5>1. 3 > Len(queue)
          BY <1>1, <1>2, <3>2, NthType
        <5>. QED
          <6>1. Len(queue) \in Nat /\ Len(queue) >= 2
            BY <1>2, <3>2
          <6>. QED
            BY <5>1, <6>1, IsTwo
      <4>2. Queued \subseteq {entry, tmp}
        BY <1>2, <3>2, <4>1 DEF Queued
      <4>. QED
        BY <1>1, <1>2, <4>2
    <3>. QED
      BY <3>1, <3>2
  <2>. QED
    BY <1>1, <1>2, <2>1, <2>2, <2>3, <2>4 DEF EarlyInv, Unstarted, Unflushed, Flushed
<1>. QED
  BY <1>4, <1>5, <1>6 DEF IInv

(* The flush ends with every early module registered, or with ret set      *)
LEMMA FlushEndSafe ==
  ASSUME IInv, FlushEnd
  PROVE  IInv'
<1>1. /\ apc = "flushing" /\ entry = NoEntry
      /\ apc' = IF err THEN "stop" ELSE "connect"
      /\ UNCHANGED <<err, held, ctxt, freed, started, cpc, seen, queue, natlock, tail,
                     native, accepted, early, entry, tmp, mpc, signalled>>
  BY DEF FlushEnd, Go, backdoor, natives, iter, main
<1>2. ~err => early \subseteq native
  <2>1. tmp = NoEntry /\ early \subseteq Registrars
    BY <1>1 DEF IInv, TypeOK, EarlyInv
  <2>. QED
    BY <1>1, <2>1, AgentAssumption DEF IInv, EarlyInv
<1>3. TypeOK'
  BY <1>1 DEF IInv, TypeOK, SetupPC, TeardownPC
<1>4. HeldInv' /\ PublishInv' /\ UndeployHasContext' /\ RetInv' /\ BootInv'
  BY <1>1 DEF IInv, BootInv, HeldInv, HeldAt, Setups, PublishInv, UndeployHasContext, InLibrary, RetInv, SetupPC
<1>5. EarlyInv'
  BY <1>1, <1>2 DEF IInv, EarlyInv, Unstarted, Unflushed, Flushed
<1>. QED
  BY <1>3, <1>4, <1>5 DEF IInv

-----------------------------------------------------------------------------
(* The other threads                                                       *)

(* The main thread touches only its own state and signalled                *)
LEMMA MainSafe ==
  ASSUME IInv, MainStep
  PROVE  IInv'
<1>1. /\ UNCHANGED <<err, held, ctxt, freed, started, cpc, seen, queue, natlock, tail,
                     native, accepted, early, entry, tmp>>
      /\ apc' = apc \/ (apc' = "begin" /\ mpc = "boot")
      /\ signalled' \in {signalled, TRUE}
      /\ mpc' \in {"failed", "addlib", "up", "join", "down"}
  <2>. USE DEF MainGo, thread, backdoor, natives, iter
  <2>1. CASE Startup
    BY <2>1 DEF Startup
  <2>2. CASE AddNativeLibrary
    BY <2>2 DEF AddNativeLibrary
  <2>3. CASE Shutdown
    BY <2>3 DEF Shutdown
  <2>4. CASE Join
    BY <2>4 DEF Join
  <2>. QED
    BY <2>1, <2>2, <2>3, <2>4 DEF MainStep
<1>2. mpc = "boot" => apc = "none"
  BY DEF IInv, BootInv
<1>3. (signalled => signalled') /\ signalled' \in BOOLEAN
  <2>. signalled \in BOOLEAN
    BY DEF IInv, TypeOK
  <2>. signalled' = signalled \/ signalled' = TRUE
    BY <1>1
  <2>. QED
    BY Zenon
<1>4. TypeOK'
  BY <1>1, <1>3 DEF IInv, TypeOK, SetupPC
<1>. HeldInv' /\ PublishInv' /\ UndeployHasContext'
  BY <1>1, <1>2 DEF IInv, HeldInv, HeldAt, Setups, PublishInv, UndeployHasContext, InLibrary, SetupPC
<1>. RetInv'
  BY <1>1, <1>2, <1>3 DEF IInv, RetInv
<1>5. EarlyInv'
  <2>. Queued' = Queued
    BY <1>1 DEF Queued
  <2>. QED
    BY <1>1, <1>2 DEF IInv, EarlyInv, Unstarted, Unflushed, Flushed
<1>6. BootInv'
  BY <1>1 DEF IInv, BootInv
<1>. QED
  BY <1>4, <1>5, <1>6 DEF IInv

(* A caller reads the context: what it has seen is what is published       *)
LEMMA CallerSafe ==
  ASSUME IInv, NEW c \in Callers, CallerStep(c)
  PROVE  IInv'
<1>1. /\ UNCHANGED <<apc, err, held, ctxt, freed, started, queue, natlock, tail,
                     native, accepted, early, entry, tmp, mpc, signalled>>
      /\ \E to : cpc' = [cpc EXCEPT ![c] = to]
      /\ c \in Clients /\ c \notin Registrars
  BY AgentAssumption DEF CallerStep, OneCall, UndeployModules, UndeployGet, LibraryCall,
       GetContext, CallerGo, thread, natives, iter, main, Clients
<1>2. /\ cpc' \in [Clients -> {"idle", "use", "ustatus", "uget", "uall", "udone",
                               "lock", "read", "link", "answered"}]
      /\ seen' \in [Callers -> BOOLEAN]
  BY <1>1 DEF IInv, TypeOK, CallerStep, OneCall, UndeployModules, UndeployGet,
       LibraryCall, GetContext, CallerGo
<1>3. TypeOK'
  BY <1>1, <1>2 DEF IInv, TypeOK
<1>4. PublishInv' /\ UndeployHasContext'
  <2>. USE DEF IInv, TypeOK, PublishInv, UndeployHasContext, InLibrary, CallerGo, Clients
  <2>1. CASE OneCall(c) \/ UndeployModules(c)
    BY <1>1, <2>1 DEF OneCall, UndeployModules, GetContext
  <2>2. CASE UndeployGet(c)
    BY <1>1, <2>2 DEF UndeployGet
  <2>3. CASE LibraryCall(c)
    BY <1>1, <2>3 DEF LibraryCall
  <2>. QED
    BY <2>1, <2>2, <2>3 DEF CallerStep
<1>5. HeldInv' /\ RetInv' /\ BootInv'
  BY <1>1 DEF IInv, HeldInv, RetInv, BootInv
<1>6. EarlyInv'
  <2>. Queued' = Queued /\ \A r \in Registrars : cpc'[r] = cpc[r]
    BY <1>1 DEF Queued, IInv, TypeOK, Clients
  <2>. QED
    BY <1>1 DEF IInv, EarlyInv
<1>. QED
  BY <1>3, <1>4, <1>5, <1>6 DEF IInv

(* A registrar: while the thread has not set started the flush has not     *)
(* begun, so the entry it reads as the last one is still there when it     *)
(* links its own                                                           *)
LEMMA AppendFacts ==
  ASSUME queue \in Seq(Registrars), NEW r \in Registrars, queue' = Append(queue, r)
  PROVE  /\ queue' \in Seq(Registrars) /\ Len(queue') = Len(queue) + 1
         /\ \A i \in 1 .. Len(queue) : queue'[i] = queue[i]
         /\ Queued' = Queued \cup {r}
<1>1. /\ queue' \in Seq(Registrars) /\ Len(queue') = Len(queue) + 1
      /\ \A i \in 1 .. Len(queue) : queue'[i] = queue[i]
      /\ queue'[Len(queue) + 1] = r
  OBVIOUS
<1>2. Queued' \subseteq Queued \cup {r}
  BY <1>1 DEF Queued
<1>3. Queued \subseteq Queued'
  BY <1>1 DEF Queued
<1>4. r \in Queued'
  BY <1>1 DEF Queued
<1>. QED
  BY <1>1, <1>2, <1>3, <1>4

(* A registrar leaves the agent thread and the iteration alone             *)
LEMMA RegistrarFrame ==
  ASSUME IInv, NEW r \in Registrars, RegistrarStep(r)
  PROVE  /\ UNCHANGED <<apc, err, held, ctxt, freed, started, seen, native, entry, tmp,
                        mpc, signalled>>
         /\ \A c \in Callers : cpc'[c] = cpc[c]
         /\ HeldInv' /\ RetInv' /\ BootInv' /\ PublishInv' /\ UndeployHasContext'
<1>1. /\ UNCHANGED <<apc, err, held, ctxt, freed, started, seen, native, entry, tmp,
                     mpc, signalled>>
      /\ \E to : cpc' = [cpc EXCEPT ![r] = to]
  BY DEF RegistrarStep, CheckStarted, AddFails, LockQueue, ReadTail, LinkEntry, CallerGo,
       thread, natives, iter, main
<1>2. \A c \in Callers : cpc'[c] = cpc[c]
  BY <1>1, AgentAssumption DEF IInv, TypeOK, Clients
<1>. QED
  BY <1>1, <1>2 DEF IInv, HeldInv, RetInv, BootInv, PublishInv, UndeployHasContext, InLibrary

(* A registrar keeps every variable in its type                            *)
LEMMA RegistrarType ==
  ASSUME IInv, NEW r \in Registrars, RegistrarStep(r)
  PROVE  TypeOK'
<1>1. /\ cpc' \in [Clients -> {"idle", "use", "ustatus", "uget", "uall", "udone",
                               "lock", "read", "link", "answered"}]
      /\ natlock' \in Registrars \cup {NoEntry}
      /\ accepted' \in SUBSET Registrars /\ early' \in SUBSET Registrars
  BY DEF RegistrarStep, CheckStarted, AddFails, LockQueue, ReadTail, LinkEntry, CallerGo,
       natives, IInv, TypeOK
<1>2. queue' \in Seq(Registrars)
  BY AppendFacts DEF RegistrarStep, CheckStarted, AddFails, LockQueue, ReadTail, LinkEntry,
       natives, IInv, TypeOK
<1>3. tail' \in [Registrars -> Registrars \cup {NoEntry}]
  <2>1. CASE ReadTail(r)
    <3>1. queue # <<>> => Nth(Len(queue)) \in Registrars \cup {NoEntry}
      BY NthType DEF IInv, TypeOK
    <3>. QED
      BY <2>1, <3>1 DEF ReadTail, IInv, TypeOK
  <2>. QED
    BY <2>1 DEF RegistrarStep, CheckStarted, AddFails, LockQueue, LinkEntry, natives,
         IInv, TypeOK
<1>. QED
  BY <1>1, <1>2, <1>3, RegistrarFrame DEF IInv, TypeOK

(* A registrar that is answered before the flush is in the queue           *)
LEMMA RegistrarEarly ==
  ASSUME IInv, NEW r \in Registrars, RegistrarStep(r)
  PROVE  EarlyInv'
<1>1. UNCHANGED <<apc, err, started, native, entry, tmp>>
  BY RegistrarFrame
<1>2. queue \in Seq(Registrars) /\ r \in Clients
  BY DEF IInv, TypeOK, Clients
<1>3. CASE CheckStarted(r) \/ AddFails(r) \/ LockQueue(r)
  <2>1. UNCHANGED <<queue, tail, early>> /\ Queued' = Queued
    BY <1>3 DEF CheckStarted, AddFails, LockQueue, natives, Queued
  <2>2. \A q \in Registrars : cpc'[q] = "link" => cpc[q] = "link"
    <3>1. \E to \in {"answered", "lock", "read"} : cpc' = [cpc EXCEPT ![r] = to]
      BY <1>3 DEF CheckStarted, AddFails, LockQueue, CallerGo
    <3>2. r \in DOMAIN cpc /\ Registrars \subseteq DOMAIN cpc
      BY <1>2 DEF IInv, TypeOK, Clients
    <3>. QED
      BY <3>1, <3>2
  <2>. QED
    BY <1>1, <2>1, <2>2 DEF IInv, EarlyInv
<1>4. CASE ReadTail(r)
  <2>1. UNCHANGED <<queue, early>> /\ Queued' = Queued
    BY <1>4 DEF ReadTail, Queued
  <2>2. \A q \in Registrars : q # r => cpc'[q] = cpc[q] /\ tail'[q] = tail[q]
    BY <1>4 DEF ReadTail, CallerGo, IInv, TypeOK
  <2>3. tail'[r] \in Queued \cup {NoEntry}
    <3>1. queue # <<>> => Len(queue) \in 1 .. Len(queue) /\ Nth(Len(queue)) = queue[Len(queue)]
      BY <1>2 DEF Nth
    <3>. QED
      BY <1>4, <3>1 DEF ReadTail, Queued, IInv, TypeOK
  <2>. QED
    BY <1>1, <2>1, <2>2, <2>3 DEF IInv, EarlyInv
<1>5. CASE LinkEntry(r)
  <2>1. /\ tail' = tail /\ cpc[r] = "link" /\ cpc'[r] = "answered"
        /\ \A q \in Registrars : q # r => cpc'[q] = cpc[q]
        /\ early' = IF started THEN early ELSE early \cup {r}
        /\ \/ queue' = Append(queue, r)
           \/ queue' = queue /\ tail[r] \notin Queued \cup {NoEntry}
    BY <1>5, <1>2 DEF LinkEntry, CallerGo, IInv, TypeOK
  <2>2. Queued \subseteq Queued'
    BY <1>2, <2>1, AppendFacts DEF Queued
  <2>3. ~started => r \in Queued'
    BY <1>2, <2>1, AppendFacts DEF IInv, EarlyInv
  <2>4. Len(queue') >= Len(queue) /\ \A i \in 1 .. Len(queue) : queue'[i] = queue[i]
    BY <1>2, <2>1, AppendFacts
  <2>5. ASSUME apc = "flushing"
        PROVE  /\ entry # NoEntry => queue' # <<>> /\ entry = queue'[1]
               /\ tmp # NoEntry => entry # NoEntry /\ Len(queue') >= 2 /\ tmp = queue'[2]
    <3>1. queue' \in Seq(Registrars)
      BY RegistrarType DEF TypeOK
    <3>2. entry # NoEntry => 1 \in 1 .. Len(queue) /\ entry = queue[1]
      BY <1>2, <2>5 DEF IInv, EarlyInv
    <3>3. tmp # NoEntry => entry # NoEntry /\ 2 \in 1 .. Len(queue) /\ tmp = queue[2]
      BY <1>2, <2>5 DEF IInv, EarlyInv
    <3>. QED
      BY <1>2, <2>4, <3>1, <3>2, <3>3
  <2>. QED
    BY <1>1, <2>1, <2>2, <2>3, <2>5 DEF IInv, EarlyInv, Unstarted, Unflushed, Flushed
<1>. QED
  BY <1>3, <1>4, <1>5 DEF RegistrarStep

-----------------------------------------------------------------------------
(* Theorems                                                                *)

(* The initial state satisfies the inductive invariant                     *)
LEMMA InitSafe == Init => IInv
<1>. SUFFICES ASSUME Init
              PROVE  IInv
  OBVIOUS
<1>1. TypeOK
  <2>1. err \in BOOLEAN /\ ctxt \in BOOLEAN /\ freed \in BOOLEAN /\ started \in BOOLEAN
    BY DEF Init
  <2>2. signalled \in BOOLEAN /\ seen \in [Callers -> BOOLEAN]
    BY DEF Init
  <2>3. /\ cpc \in [Clients -> {"idle", "use", "ustatus", "uget", "uall", "udone",
                                "lock", "read", "link", "answered"}]
        /\ tail \in [Registrars -> Registrars \cup {NoEntry}]
    BY DEF Init
  <2>4. queue \in Seq(Registrars)
    BY DEF Init
  <2>. QED
    BY <2>1, <2>2, <2>3, <2>4 DEF Init, TypeOK, SetupPC
<1>2. EarlyInv
  BY DEF Init, EarlyInv, Unstarted, Unflushed, Flushed, Queued
<1>. QED
  BY <1>1, <1>2 DEF Init, IInv, BootInv, HeldInv, HeldAt, Setups, PublishInv, UndeployHasContext,
       InLibrary, RetInv, Clients

(* Every step keeps the inductive invariant                                *)
LEMMA SafetyStep == IInv /\ [Next]_vars => IInv'
<1>. SUFFICES ASSUME IInv, [Next]_vars
              PROVE  IInv'
  OBVIOUS
<1>1. CASE AgentOnly
  <2>. TypeOK' /\ HeldInv'
    BY <1>1, AgentOnlyType, AgentOnlyHeld DEF IInv
  <2>. BootInv'
    <3>. UNCHANGED mpc /\ apc # "none"
      BY <1>1, AgentOnlyFrame DEF AgentOnly, Go, Try, TrySetup, Teardown, Begin, SetName,
           Setup, PlatformRegister, InitialStatus, InitProxyCache, NotificationsRegister,
           AgentStart, Connect, WdtStart, Publish, Loop, CheckSignal, WdtStop,
           Disconnect, Stop, DeinitProxyCache, Free, ThreadExit
    <3>. QED
      BY DEF IInv, BootInv
  <2>. QED
    BY <1>1, AgentOnlyRest DEF IInv
<1>2. CASE FlushBegin \/ FlushEntry \/ FlushEnd
  BY <1>2, FlushBeginSafe, FlushEntrySafe, FlushEndSafe
<1>3. CASE MainStep
  BY <1>3, MainSafe
<1>4. ASSUME NEW c \in Callers, CallerStep(c)
      PROVE  IInv'
  BY <1>4, CallerSafe
<1>5. ASSUME NEW r \in Registrars, RegistrarStep(r)
      PROVE  IInv'
  BY <1>5, RegistrarType, RegistrarEarly, RegistrarFrame DEF IInv
<1>6. CASE UNCHANGED vars
  <2>. UNCHANGED <<apc, mpc, cpc, err, held, ctxt, freed, started, signalled, seen, queue,
                   natlock, tail, entry, tmp, native, accepted, early>>
    BY <1>6 DEF vars, thread, backdoor, natives, iter, main
  <2>. TypeOK' /\ BootInv' /\ HeldInv' /\ PublishInv' /\ UndeployHasContext' /\ RetInv'
    BY DEF IInv, TypeOK, BootInv, HeldInv, PublishInv, UndeployHasContext, InLibrary, RetInv
  <2>. EarlyInv'
    BY DEF IInv, EarlyInv, Queued
  <2>. QED
    BY DEF IInv
<1>. QED
  BY <1>1, <1>2, <1>3, <1>4, <1>5, <1>6 DEF Next, AgentStep

(* The inductive invariant holds in every reachable state                  *)
LEMMA InvHolds == Spec => []IInv
BY InitSafe, SafetyStep, PTL DEF Spec

(* The type invariant holds in every reachable state                       *)
THEOREM TypeCorrect == Spec => []TypeOK
<1>1. IInv => TypeOK
  BY DEF IInv
<1>. QED
  BY <1>1, InvHolds, PTL

(* EVP_undeployModules never calls the library with NULL, for any number   *)
(* of concurrent callers and any interleaving with startup and shutdown    *)
THEOREM UndeployNeverNull == Spec => []UndeployHasContext
<1>1. IInv => UndeployHasContext
  BY DEF IInv
<1>. QED
  BY <1>1, InvHolds, PTL

(* Before the teardown a backdoor function only works with the context of  *)
(* an agent that is started, connected and watched                         *)
THEOREM ContextReady == Spec => []ServedContextReady
<1>1. IInv => ServedContextReady
  <2>. SUFFICES ASSUME IInv, NEW c \in Callers, InLibrary(c), apc \in SetupPC
                PROVE  {"agent", "connection", "watchdog"} \subseteq held
    BY DEF ServedContextReady
  <2>1. ctxt
    BY DEF IInv, UndeployHasContext, PublishInv
  <2>2. apc \in {"loop", "signal"}
    BY <2>1 DEF IInv, PublishInv
  <2>. QED
    BY <2>2 DEF IInv, HeldInv, HeldAt, Resource
<1>. QED
  BY <1>1, InvHolds, PTL

(* On every path into the teardown each of its statements finds what it    *)
(* tears down set up, whatever the other threads do                        *)
THEOREM TeardownHeld == Spec => []TearsDownHeld
<1>1. IInv => TearsDownHeld
  BY DEF IInv, HeldInv, HeldAt, Resource, TearsDownHeld
<1>. QED
  BY <1>1, InvHolds, PTL

(* Modules accepted before the thread started are registered when the      *)
(* agent connects, although the flush takes no lock and any number of      *)
(* registrars still insert                                                 *)
THEOREM EarlyAlwaysRegistered == Spec => []EarlyRegistered
<1>1. IInv => EarlyRegistered
  BY DEF IInv, EarlyInv, EarlyRegistered, Flushed
<1>. QED
  BY <1>1, InvHolds, PTL

(* The flush never works with an entry that is not in the queue, for any   *)
(* number of registrars that link theirs without the flush taking the lock *)
THEOREM FlushAlwaysIntact == Spec => []FlushIntact
<1>1. IInv => FlushIntact
  BY DEF IInv, EarlyInv, FlushIntact
<1>. QED
  BY <1>1, InvHolds, PTL

(* The stored return value is 0 only after a shutdown or without a watchdog *)
THEOREM RetAlwaysFaithful == Spec => []RetFaithful
<1>1. IInv => RetFaithful
  BY DEF IInv, RetInv, RetFaithful
<1>. QED
  BY <1>1, InvHolds, PTL

-----------------------------------------------------------------------------
(* Refinement                                                              *)

LevelOf(h) == {i \in 1 .. 5 : Order[i] \in h}
PhaseOf(a) == IF a \in SetupPC THEN "up" ELSE IF a = "exited" THEN "off" ELSE "down"

(* The number of resources held at a statement                             *)
Rung(a) ==
  IF a \in Setups THEN 0
  ELSE IF a \in {"platform", "status", "proxy", "free"} THEN 1
  ELSE IF a \in {"notify", "start", "deinit"} THEN 2
  ELSE IF a \in {"flush", "flushing", "connect", "stop"} THEN 3
  ELSE IF a \in {"wdtstart", "disconnect"} THEN 4
  ELSE 5

(* At every statement the resources held are the first ones of the order   *)
LEMMA LevelIsPrefix ==
  ASSUME NEW a \in SetupPC \cup TeardownPC, NEW h \in SUBSET Resource, HeldAt(a, h)
  PROVE  LevelOf(h) = 1 .. Rung(a)
<1>1. /\ Order[1] = "context" /\ Order[2] = "proxy" /\ Order[3] = "agent"
      /\ Order[4] = "connection" /\ Order[5] = "watchdog"
  BY DEF Order
<1>2. /\ LevelOf({}) = 1 .. 0
      /\ LevelOf({"context"}) = 1 .. 1
      /\ LevelOf({"context", "proxy"}) = 1 .. 2
      /\ LevelOf({"context", "proxy", "agent"}) = 1 .. 3
      /\ LevelOf({"context", "proxy", "agent", "connection"}) = 1 .. 4
      /\ LevelOf(Resource) = 1 .. 5
  BY <1>1 DEF LevelOf, Resource
<1>3. CASE a \in Setups
  BY <1>2, <1>3 DEF HeldAt, Rung
<1>4. CASE a \in {"platform", "status", "proxy", "free"}
  BY <1>2, <1>4 DEF HeldAt, Rung, Setups
<1>5. CASE a \in {"notify", "start", "deinit"}
  BY <1>2, <1>5 DEF HeldAt, Rung, Setups
<1>6. CASE a \in {"flush", "flushing", "connect", "stop"}
  BY <1>2, <1>6 DEF HeldAt, Rung, Setups
<1>7. CASE a \in {"wdtstart", "disconnect"}
  BY <1>2, <1>7 DEF HeldAt, Rung, Setups
<1>8. CASE a \in {"publish", "loop", "signal", "wdtstop"}
  BY <1>2, <1>8 DEF HeldAt, Rung, Setups
<1>. QED
  BY <1>3, <1>4, <1>5, <1>6, <1>7, <1>8 DEF SetupPC, TeardownPC, Setups

(* How a statement may be followed by another: one rung up while taking,   *)
(* one down while giving back, or on the same rung                         *)
Climb(a, b) ==
  \/ Rung(b) = Rung(a) + 1 /\ PhaseOf(a) = "up" /\ PhaseOf(b) = "up"
  \/ Rung(a) = Rung(b) + 1 /\ PhaseOf(a) = "down" /\ PhaseOf(b) = "down"
  \/ Rung(b) = Rung(a) /\ PhaseOf(b) = PhaseOf(a)
  \/ Rung(b) = Rung(a) /\ PhaseOf(a) = "up" /\ PhaseOf(b) = "down"
  \/ Rung(b) = 0 /\ Rung(a) = 0 /\ PhaseOf(a) # "off" /\ PhaseOf(b) = "off"

(* Every step takes one rung, gives one back, turns, ends, or stutters     *)
LEMMA EveryStepClimbs ==
  ASSUME IInv, [Next]_vars
  PROVE  Climb(apc, apc')
<1>. USE DEF Climb, Rung, PhaseOf, Setups, SetupPC
<1>1. CASE UNCHANGED apc
  BY <1>1
<1>2. CASE Begin \/ SetName \/ Setup \/ PlatformRegister \/ InitialStatus \/ InitProxyCache
  BY <1>2 DEF Begin, SetName, Setup, PlatformRegister, InitialStatus, InitProxyCache,
       Go, Try, TrySetup
<1>3. CASE NotificationsRegister \/ AgentStart \/ Connect \/ WdtStart \/ Publish \/ Loop
  BY <1>3 DEF NotificationsRegister, AgentStart, Connect, WdtStart, Publish, Loop,
       Go, Try, TrySetup
<1>4. CASE \/ CheckSignal \/ WdtStop \/ Disconnect \/ Stop
           \/ DeinitProxyCache \/ Free \/ ThreadExit
  BY <1>4 DEF CheckSignal, WdtStop, Disconnect, Stop, DeinitProxyCache, Free, ThreadExit,
       Go, Teardown
<1>5. CASE FlushBegin \/ FlushEnd
  BY <1>5 DEF FlushBegin, FlushEnd, Go
<1>6. CASE Startup
  BY <1>6 DEF Startup, MainGo, IInv, BootInv
<1>7. \A c \in Callers : CallerStep(c) => UNCHANGED apc
  BY DEF CallerStep, OneCall, UndeployModules, UndeployGet, LibraryCall, GetContext, thread
<1>8. \A r \in Registrars : RegistrarStep(r) => UNCHANGED apc
  BY DEF RegistrarStep, CheckStarted, AddFails, LockQueue, ReadTail, LinkEntry, thread
<1>. QED
  BY <1>1, <1>2, <1>3, <1>4, <1>5, <1>6, <1>7, <1>8 DEF Next, AgentStep, AgentOnly,
     FlushEntry, MainStep, AddNativeLibrary, Shutdown, Join, vars, thread

(* The goto ladder implements ResourceLadder: initial states map to        *)
(* initial states, and every step of the program to an acquire, a release, *)
(* a turn, the end, or a stuttering step                                   *)
THEOREM LadderRefined == Spec => LadderImplemented
<1>1. Init => Ladder!Init
  BY DEF Init, Ladder!Init, SetupPC
<1>2. IInv /\ IInv' /\ [Next]_vars => [Ladder!Next]_(<<LevelOf(held), PhaseOf(apc)>>)
  <2>. SUFFICES ASSUME IInv, IInv', [Next]_vars,
                       ~UNCHANGED <<LevelOf(held), PhaseOf(apc)>>
                PROVE  Ladder!Next
    OBVIOUS
  <2>1. LevelOf(held) = 1 .. Rung(apc) /\ LevelOf(held') = 1 .. Rung(apc')
    BY LevelIsPrefix DEF IInv, TypeOK, HeldInv
  <2>2. Rung(apc) \in 0 .. 5 /\ Rung(apc') \in 0 .. 5
    BY DEF Rung
  <2>. DEFINE l == LevelOf(held)
              m == LevelOf(held')
              n == Rung(apc)
              k == Rung(apc')
              f == PhaseOf(apc)
              g == PhaseOf(apc')
  <2>3. CASE k = n + 1 /\ f = "up" /\ g = "up"
    <3>1. PICK i \in 1 .. 5 : l = 1 .. (i - 1) /\ m = 1 .. i
      BY <2>1, <2>2, <2>3
    <3>2. Ladder!Acquire(i)
      BY <2>3, <3>1 DEF Ladder!Acquire, LevelOf, PhaseOf
    <3>. QED
      BY <3>2 DEF Ladder!Next
  <2>4. CASE n = k + 1 /\ f = "down" /\ g = "down"
    <3>1. PICK i \in 1 .. 5 : l = 1 .. i /\ m = 1 .. (i - 1)
      BY <2>1, <2>2, <2>4
    <3>2. Ladder!Release(i)
      BY <2>4, <3>1 DEF Ladder!Release, LevelOf, PhaseOf
    <3>. QED
      BY <3>2 DEF Ladder!Next
  <2>5. CASE k = n /\ f = "up" /\ g = "down"
    BY <2>1, <2>5 DEF Ladder!Next, Ladder!TurnBack, LevelOf, PhaseOf
  <2>6. CASE k = 0 /\ n = 0 /\ f # "off" /\ g = "off"
    <3>1. l = {} /\ m = {}
      BY <2>1, <2>6
    <3>. QED
      BY <2>6, <3>1 DEF Ladder!Next, Ladder!Finish, LevelOf, PhaseOf
  <2>. QED
    BY <2>1, <2>3, <2>4, <2>5, <2>6, EveryStepClimbs DEF Climb
<1>. QED
  BY <1>1, <1>2, InvHolds, PTL DEF Spec, LadderImplemented, Ladder!Spec, LevelOf, PhaseOf

-----------------------------------------------------------------------------
(* A shutdown waits for a bounded number of steps                          *)

(* The statements left to the thread, statement by statement               *)
LEMMA Ranks ==
  /\ StatementsLeft["none"] = 22 /\ StatementsLeft["begin"] = 21
  /\ StatementsLeft["setname"] = 20 /\ StatementsLeft["setup"] = 19
  /\ StatementsLeft["platform"] = 18 /\ StatementsLeft["status"] = 17
  /\ StatementsLeft["proxy"] = 16 /\ StatementsLeft["notify"] = 15
  /\ StatementsLeft["start"] = 14 /\ StatementsLeft["flush"] = 13
  /\ StatementsLeft["flushing"] = 12 /\ StatementsLeft["connect"] = 11
  /\ StatementsLeft["wdtstart"] = 10 /\ StatementsLeft["publish"] = 9
  /\ StatementsLeft["loop"] = 8 /\ StatementsLeft["signal"] = 7
  /\ StatementsLeft["wdtstop"] = 6 /\ StatementsLeft["disconnect"] = 5
  /\ StatementsLeft["stop"] = 4 /\ StatementsLeft["deinit"] = 3
  /\ StatementsLeft["free"] = 2 /\ StatementsLeft["exit"] = 1
  /\ StatementsLeft["exited"] = 0
BY DEF StatementsLeft

(* There are at most 22                                                    *)
LEMMA RankType ==
  ASSUME NEW a \in SetupPC \cup TeardownPC
  PROVE  StatementsLeft[a] \in 0 .. 22
BY Ranks DEF SetupPC, TeardownPC

(* A step of the thread outside the flush goes on to a statement with less *)
(* left, except from the check back to the loop before a shutdown          *)
LEMMA AgentOnlyDescends ==
  ASSUME AgentOnly
  PROVE  \/ StatementsLeft[apc'] < StatementsLeft[apc]
         \/ apc = "signal" /\ apc' = "loop" /\ ~signalled
<1>. USE Ranks DEF Go, Try, TrySetup, Teardown
<1>1. CASE Begin \/ SetName \/ Setup \/ PlatformRegister \/ InitialStatus
  BY <1>1 DEF Begin, SetName, Setup, PlatformRegister, InitialStatus
<1>2. CASE InitProxyCache \/ NotificationsRegister \/ AgentStart \/ Connect \/ WdtStart
  BY <1>2 DEF InitProxyCache, NotificationsRegister, AgentStart, Connect, WdtStart
<1>3. CASE Publish \/ Loop \/ CheckSignal \/ WdtStop \/ Disconnect
  BY <1>3 DEF Publish, Loop, CheckSignal, WdtStop, Disconnect
<1>4. CASE Stop \/ DeinitProxyCache \/ Free \/ ThreadExit
  BY <1>4 DEF Stop, DeinitProxyCache, Free, ThreadExit
<1>. QED
  BY <1>1, <1>2, <1>3, <1>4 DEF AgentOnly

(* The three parts of what is left are numbers, before and after a step    *)
LEMMA UnansweredFinite ==
  ASSUME NEW f
  PROVE  LET U == {r \in Registrars : f[r] # "answered"}
         IN  /\ IsFiniteSet(U)
             /\ Cardinality(U) \in Nat
             /\ Cardinality(U) <= Cardinality(Registrars)
<1>. DEFINE U == {r \in Registrars : f[r] # "answered"}
<1>1. U \subseteq Registrars /\ IsFiniteSet(Registrars)
  BY AgentAssumption
<1>2. IsFiniteSet(U) /\ Cardinality(U) <= Cardinality(Registrars)
  BY <1>1, FS_Subset
<1>. QED
  BY <1>2, FS_CardinalityType

(* What is left is smaller when one part is and the others are not larger  *)
LEMMA ThreeParts ==
  ASSUME NEW a \in Nat, NEW b \in Nat, NEW c \in Nat,
         NEW x \in Nat, NEW y \in Nat, NEW z \in Nat
  PROVE  /\ x < a /\ y = b /\ z = c => x + y + z < a + b + c
         /\ x = a /\ y < b /\ z = c => x + y + z < a + b + c
         /\ x <= a /\ y + z <= b + c => x + y + z <= a + b + c
OBVIOUS

(* A registrar that is answered leaves one fewer                           *)
LEMMA OneFewer ==
  ASSUME TypeOK, NEW r \in Registrars, cpc[r] # "answered",
         cpc' = [cpc EXCEPT ![r] = "answered"]
  PROVE  Cardinality(Unanswered') = Cardinality(Unanswered) - 1
<1>1. Unanswered' = Unanswered \ {r}
  BY DEF Unanswered, TypeOK, Clients
<1>2. r \in Unanswered /\ IsFiniteSet(Unanswered)
  BY UnansweredFinite DEF Unanswered
<1>. QED
  BY <1>1, <1>2, FS_RemoveElement

(* Registrars, callers and the main thread never leave the thread more to  *)
(* do: an entry is added by a registrar that is thereby answered           *)
LEMMA OthersKeep ==
  ASSUME IInv, NEW r \in Registrars, RegistrarStep(r)
  PROVE  Len(queue') + Cardinality(Unanswered') <= Len(queue) + Cardinality(Unanswered)
<1>. DEFINE u == Cardinality(Unanswered)  v == Cardinality(Unanswered')
<1>1. u \in Nat /\ v \in Nat
  BY UnansweredFinite DEF Unanswered
<1>2. PICK n \in Nat : n = Len(queue)
  BY DEF IInv, TypeOK
<1>3. CASE LinkEntry(r)
  <2>1. v = u - 1
    BY <1>3, OneFewer DEF IInv, LinkEntry, CallerGo
  <2>2. queue' = queue \/ queue' = Append(queue, r)
    BY <1>3 DEF LinkEntry
  <2>3. Len(queue') = n \/ Len(queue') = n + 1
    BY <1>2, <2>2, AppendFacts DEF IInv, TypeOK
  <2>. HIDE DEF u, v
  <2>4. PICK m \in Nat : m = Len(queue') /\ (m = n \/ m = n + 1)
    BY <2>3
  <2>5. m + v <= n + u
    BY <1>1, <2>1, <2>4
  <2>. QED
    BY <1>2, <2>4, <2>5 DEF u, v
<1>4. CASE CheckStarted(r) \/ AddFails(r)
  <2>1. queue' = queue
    BY <1>4 DEF CheckStarted, AddFails, natives
  <2>2. v = u \/ v = u - 1
    <3>1. CASE cpc' = [cpc EXCEPT ![r] = "answered"] /\ cpc[r] # "answered"
      BY <3>1, OneFewer DEF IInv
    <3>2. CASE cpc' = [cpc EXCEPT ![r] = "lock"] /\ cpc[r] = "idle"
      <4>1. Unanswered' = Unanswered
        BY <3>2 DEF Unanswered, IInv, TypeOK, Clients
      <4>. QED
        BY <4>1
    <3>. QED
      BY <1>4, <3>1, <3>2 DEF CheckStarted, AddFails, CallerGo
  <2>. HIDE DEF u, v
  <2>3. n + v <= n + u
    BY <1>1, <2>2
  <2>. QED
    BY <1>2, <2>1, <2>3 DEF u, v
<1>5. CASE LockQueue(r) \/ ReadTail(r)
  <2>1. queue' = queue
    BY <1>5 DEF LockQueue, ReadTail
  <2>2. Unanswered' = Unanswered
    BY <1>5 DEF LockQueue, ReadTail, CallerGo, Unanswered, IInv, TypeOK, Clients
  <2>. HIDE DEF u, v
  <2>3. n + u <= n + u
    BY <1>1
  <2>. QED
    BY <1>2, <2>1, <2>2, <2>3 DEF u, v
<1>. QED
  BY <1>3, <1>4, <1>5 DEF RegistrarStep

(* What every step does to the three parts: the thread gets on, outside    *)
(* the flush by a statement and inside it by an entry, and nobody else     *)
(* leaves it more                                                          *)
LEMMA EveryStepKeeps ==
  ASSUME IInv, Next
  PROVE  /\ Len(queue') + Cardinality(Unanswered') <= Len(queue) + Cardinality(Unanswered)
         /\ signalled => StatementsLeft[apc'] <= StatementsLeft[apc]
         /\ AgentStep /\ signalled =>
              /\ Cardinality(Unanswered') = Cardinality(Unanswered)
              /\ \/ StatementsLeft[apc'] < StatementsLeft[apc] /\ Len(queue') = Len(queue)
                 \/ apc' = apc /\ Len(queue') < Len(queue)
<1>. DEFINE u == Cardinality(Unanswered)  v == Cardinality(Unanswered')
<1>1. u \in Nat /\ v \in Nat
  BY UnansweredFinite DEF Unanswered
<1>2. PICK n \in Nat : n = Len(queue)
  BY DEF IInv, TypeOK
<1>3. PICK s \in Nat : s = StatementsLeft[apc]
  BY RankType DEF IInv, TypeOK
<1>4. UNCHANGED cpc => Unanswered' = Unanswered
  BY DEF Unanswered
<1>5. CASE AgentOnly
  <2>1. UNCHANGED <<cpc, queue>>
    BY <1>5, AgentOnlyFrame
  <2>2. signalled => StatementsLeft[apc'] < StatementsLeft[apc]
    BY <1>5, AgentOnlyDescends
  <2>3. apc' \in SetupPC \cup TeardownPC
    BY <1>5, AgentOnlyType DEF IInv, TypeOK
  <2>4. PICK t \in Nat : t = StatementsLeft[apc']
    BY <2>3, RankType
  <2>5. signalled => t < s
    BY <1>3, <2>2, <2>4
  <2>6. t < s => t <= s
    OBVIOUS
  <2>. HIDE DEF u, v
  <2>7. n + u <= n + u
    BY <1>1
  <2>. QED
    BY <1>2, <1>3, <1>4, <2>1, <2>4, <2>5, <2>6, <2>7 DEF u, v
<1>6. CASE FlushBegin \/ FlushEnd
  <2>1. UNCHANGED <<cpc, queue>>
    BY <1>6 DEF FlushBegin, FlushEnd, backdoor, natives
  <2>2. /\ StatementsLeft[apc'] < StatementsLeft[apc]
        /\ StatementsLeft[apc'] <= StatementsLeft[apc]
    BY <1>6, Ranks DEF FlushBegin, FlushEnd, Go
  <2>. HIDE DEF u, v
  <2>3. n + u <= n + u
    BY <1>1
  <2>. QED
    BY <1>2, <1>4, <2>1, <2>2, <2>3 DEF u, v
<1>7. CASE FlushEntry
  <2>1. UNCHANGED <<cpc, apc>> /\ queue' = Tail(queue) /\ queue # <<>>
    BY <1>7 DEF FlushEntry, backdoor, IInv, EarlyInv
  <2>2. Len(queue') = Len(queue) - 1
    BY <2>1, TailFacts DEF IInv, TypeOK
  <2>3. n - 1 < n /\ n # 0
    BY <1>2, <2>1 DEF IInv, TypeOK
  <2>. HIDE DEF u, v
  <2>4. (n - 1) + u <= n + u /\ s <= s
    BY <1>1, <1>3
  <2>. QED
    BY <1>2, <1>3, <1>4, <2>1, <2>2, <2>3, <2>4 DEF u, v
<1>8. CASE MainStep /\ ~AgentStep
  <2>1. UNCHANGED <<cpc, queue>>
    BY <1>8 DEF MainStep, Startup, AddNativeLibrary, Shutdown, Join, backdoor, natives
  <2>2. StatementsLeft[apc'] <= StatementsLeft[apc]
    <3>1. CASE UNCHANGED apc
      <4>1. s <= s
        OBVIOUS
      <4>. QED
        BY <1>3, <3>1, <4>1
    <3>2. CASE mpc = "boot" /\ apc' = "begin"
      BY <3>2, Ranks DEF IInv, BootInv
    <3>. QED
      BY <1>8, <3>1, <3>2 DEF MainStep, Startup, AddNativeLibrary, Shutdown, Join, MainGo, thread
  <2>. HIDE DEF u, v
  <2>3. n + u <= n + u
    BY <1>1
  <2>. QED
    BY <1>2, <1>4, <1>8, <2>1, <2>2, <2>3 DEF u, v
<1>9. ASSUME NEW c \in Callers, CallerStep(c), ~AgentStep
      PROVE  /\ Len(queue') + v <= Len(queue) + u
             /\ StatementsLeft[apc'] <= StatementsLeft[apc]
  <2>1. /\ UNCHANGED <<apc, queue>>
        /\ \E to : cpc' = [cpc EXCEPT ![c] = to]
    BY <1>9 DEF CallerStep, OneCall, UndeployModules, GetContext, UndeployGet, LibraryCall,
         CallerGo, thread, natives
  <2>2. Unanswered' = Unanswered
    BY <2>1, AgentAssumption DEF Unanswered, IInv, TypeOK, Clients
  <2>. HIDE DEF u, v
  <2>3. n + u <= n + u /\ s <= s
    BY <1>1
  <2>. QED
    BY <1>2, <1>3, <2>1, <2>2, <2>3 DEF u, v
<1>10. ASSUME NEW r \in Registrars, RegistrarStep(r), ~AgentStep
       PROVE  /\ Len(queue') + v <= Len(queue) + u
              /\ StatementsLeft[apc'] <= StatementsLeft[apc]
  <2>1. UNCHANGED apc
    BY <1>10, RegistrarFrame
  <2>2. s <= s
    OBVIOUS
  <2>. QED
    BY <1>3, <1>10, <2>1, <2>2, OthersKeep
<1>. QED
  BY <1>5, <1>6, <1>7, <1>8, <1>9, <1>10 DEF Next, AgentStep

(* The entries queued and those still to come are at most one for each     *)
(* registrar                                                               *)
WorkBound == Len(queue) + Cardinality(Unanswered) <= Cardinality(Registrars)

(* The bound holds initially and every step keeps it                       *)
LEMMA WorkBounded == Spec => []WorkBound
<1>. DEFINE K == Cardinality(Registrars)
<1>1. K \in Nat
  BY AgentAssumption, FS_CardinalityType
<1>2. Init => WorkBound
  <2>. SUFFICES ASSUME Init PROVE WorkBound
    OBVIOUS
  <2>1. Unanswered = Registrars
    BY DEF Init, Unanswered, Clients
  <2>2. Len(queue) = 0
    BY DEF Init
  <2>. HIDE DEF K
  <2>3. 0 + K <= K
    BY <1>1
  <2>. QED
    BY <2>1, <2>2, <2>3 DEF WorkBound, K
<1>3. IInv /\ IInv' /\ WorkBound /\ [Next]_vars => WorkBound'
  <2>. SUFFICES ASSUME IInv, IInv', WorkBound, [Next]_vars PROVE WorkBound'
    OBVIOUS
  <2>1. CASE UNCHANGED vars
    <3>1. UNCHANGED <<queue, cpc>>
      BY <2>1 DEF vars, natives, backdoor
    <3>. QED
      BY <3>1 DEF WorkBound, Unanswered
  <2>2. CASE Next
    <3>1. Len(queue') + Cardinality(Unanswered') <= Len(queue) + Cardinality(Unanswered)
      BY <2>2, EveryStepKeeps
    <3>2. \A a, b, x, y \in Nat : x + y <= a + b /\ a + b <= K => x + y <= K
      BY <1>1
    <3>3. Cardinality(Unanswered) \in Nat /\ Cardinality(Unanswered') \in Nat
      BY UnansweredFinite DEF Unanswered
    <3>4. Len(queue) \in Nat /\ Len(queue') \in Nat
      BY DEF IInv, TypeOK
    <3>. HIDE DEF K
    <3>. QED
      BY <3>1, <3>2, <3>3, <3>4 DEF WorkBound, K
  <2>. QED
    BY <2>1, <2>2
<1>. QED
  BY <1>2, <1>3, InvHolds, PTL DEF Spec

(* evp_agent_shutdown waits for at most 22 statements of the agent thread  *)
(* and one flushed entry per registrar, for every number of callers and    *)
(* registrars and wherever the signal finds the thread                     *)
THEOREM ShutdownEnds == Spec => ShutdownBounded
<1>. DEFINE Bounded ==
       signalled =>
         /\ ThreadLeft <= 22 + Cardinality(Registrars)
         /\ ThreadLeft' <= ThreadLeft
         /\ AgentStep => ThreadLeft' < ThreadLeft
<1>1. IInv /\ IInv' /\ WorkBound /\ [Next]_vars => [Bounded]_vars
  <2>. SUFFICES ASSUME IInv, IInv', WorkBound, Next, signalled
                PROVE  /\ ThreadLeft <= 22 + Cardinality(Registrars)
                       /\ ThreadLeft' <= ThreadLeft
                       /\ AgentStep => ThreadLeft' < ThreadLeft
    OBVIOUS
  <2>1. PICK a \in 0 .. 22 : a = StatementsLeft[apc]
    BY RankType DEF IInv, TypeOK
  <2>2. PICK x \in 0 .. 22 : x = StatementsLeft[apc']
    BY RankType DEF IInv, TypeOK
  <2>3. PICK b \in Nat : b = Len(queue)
    BY DEF IInv, TypeOK
  <2>4. PICK y \in Nat : y = Len(queue')
    BY DEF IInv, TypeOK
  <2>5. PICK c \in Nat : c = Cardinality(Unanswered)
    BY UnansweredFinite DEF Unanswered
  <2>6. PICK z \in Nat : z = Cardinality(Unanswered')
    BY UnansweredFinite DEF Unanswered
  <2>7. PICK k \in Nat : k = Cardinality(Registrars)
    BY AgentAssumption, FS_CardinalityType
  <2>8. ThreadLeft = a + b + c /\ ThreadLeft' = x + y + z
    BY <2>1, <2>2, <2>3, <2>4, <2>5, <2>6 DEF ThreadLeft
  <2>9. b + c <= k
    BY <2>3, <2>5, <2>7 DEF WorkBound
  <2>10. y + z <= b + c /\ x <= a
    BY <2>1, <2>2, <2>3, <2>4, <2>5, <2>6, EveryStepKeeps
  <2>11. AgentStep => \/ x < a /\ y = b /\ z = c
                      \/ x = a /\ y < b /\ z = c
    BY <2>1, <2>2, <2>3, <2>4, <2>5, <2>6, EveryStepKeeps
  <2>12. b + c <= k => a + b + c <= 22 + k
    OBVIOUS
  <2>. QED
    BY <2>7, <2>8, <2>9, <2>10, <2>11, <2>12, ThreeParts
<1>. QED
  BY <1>1, InvHolds, WorkBounded, PTL DEF Spec, ShutdownBounded
=============================================================================
