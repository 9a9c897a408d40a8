# A TLA+ verification project for aitrios-edge-device-core

This directory holds TLA+ specifications of the parts of the Edge Device Core
that keep state and meet failures and concurrency, the TLC configurations that
check them on small instances, and TLAPS proofs of their main properties for
every instance.  `PROJECT.json` maps every definition to the lines it models
and lists the runs, the mutants that show each property can fail, the hazards
of the code and the theorems.  Paths below are relative to the repository.

## 1. Inventory

The repository holds the EVP agent wrapper (`src/evp-agent`), a sample OTA
updater (`samples/ota`), packaging and a parameter database tool (`script`),
unit files and documentation.  The daemon's `main`, the sensor and the manager
(`src/app`, `src/sensor`, `src/manager`), the EVP library, WAMR and the ESF
managers are submodules or subprojects whose sources are not in the tree; they
are modelled, where at all, from how this code calls them.

| Component | State | Operations | What makes it correct |
|---|---|---|---|
| OTA script, `samples/ota/edc_system_update.sh` with `edge-device-core.service` | `/opt/edcA`, `/opt/edcB`, the links `/opt/edc` and `/opt/senscord`, version files, the running daemon | download, version check, choose target, `rm -rf`, `mkdir`, copy, extract, validate, four link commands; service start | what `/opt/edc` names is complete, of one release and never written; some complete deployment always survives; no switch back to an older one; retries converge |
| EVP agent thread, `evp-agent.c` | context, proxy cache, agent, connection, watchdog; `g_evp_agent` | the statements of `evp_agent_thread`, `evp_agent_startup`, `evp_agent_shutdown` | everything set up is torn down once in reverse order; the context is served only when ready; the result is faithful; shutdown returns |
| Backdoor API, `evp-agent.c`, `sdk_backdoor.h` | the published context, `started`, the queue of native symbols | status, (un)register client, undeploy, register natives, flush | no NULL and no freed context reaches the library; accepted symbols are registered |
| ELog store, `log.c` | one status byte per component | register, set (with duplicate check and event), get | the stored code is what the cloud has seen |
| ELog handlers, `notifications.c` | reconnect counter, error flags, bit fields of two codes | blob result, network error, MQTT ok / error | a recovery reports exactly the outage that ended; fields do not disturb each other; no code is `0xFF` |
| Agent status handler (LEDs), `notifications.c` | four LED statuses | connected / disconnected | a handler that succeeds leaves exactly one status on, and it is true of the device |
| Configuration, `esf.c`, `config.c` | proxy cache, TLS setting, certificates | fill and free the cache, read a key | TLS is dropped only when it is switched off; only real credentials are served; the proxy is cached as a whole; no path leaks |
| Debug log, `log.c` | the buffer of one call | format, cut into chunks, announce a truncation | the chunks are the message, and a loss is announced |
| Provisioning, `script/update_psm_db.py`, `script/mk-deb.sh` | rows of `db.sqlite3`, files of `/etc/evp` | set a key; postinst, prerm, postrm | whatever an installation, an interruption or the user leaves, the agent never serves the package's empty certificates |

**Interactions.**  systemd starts the daemon through `/opt/edc`; the daemon
(on an OTA request) or cron starts the script, which replaces that link.  The
daemon's main thread calls `evp_agent_startup`, which creates the agent thread
and adds a native library while that thread already runs.  Other threads call
the backdoor functions, which read the context under a mutex and use it after
the unlock.  The EVP library calls the notification handlers, which read and
write the ELog store in separate critical sections and share unlocked globals.
The library also calls `get_config_impl` for every configuration key, and
`evp_agent_dlog_handler` for every message; what they read (parameter rows,
`/etc/evp`) is written by the user and the package scripts at any moment.

**Hard behaviours.**  Power loss or a killed script between any two commands of
the update; two updaters; a daemon and a script each needing the other; nine
calls of the thread that may fail into the middle of the teardown; callers that
hold a context across its release; registration racing the start of the
thread; counters at their limit; events that are lost and then deduplicated;
settings that change between two reads of one decision; a handler that stops
half way through four LED writes; reads with many ways out that each hold
something else; messages whose length meets a chunk or the buffer exactly.
The full list with lines and properties is under `hazards` in `PROJECT.json`.

## 2. Modules

| Module | Role |
|---|---|
| `OtaUpdate` | the script, the service unit and the device's faults |
| `BlueGreen` | abstract specification: whole releases, and a switch that withdraws before it activates |
| `OtaUpdateProofs` | its theorems, with the refinement of `BlueGreen` |
| `AgentLifecycle` | agent thread, main thread, backdoor callers, registrars |
| `ResourceLadder` | abstract specification: take resources in order, give them back in reverse |
| `AgentLifecycleProofs` | its theorems, with the refinement of `ResourceLadder` |
| `ELog` | ELog store and notification handlers |
| `ELogProofs` | its theorems |
| `DeviceSettings` | parameter rows and certificate files; package scripts, `update_psm_db.py`, the user |
| `AgentConfig` | proxy cache, TLS gate and configuration reads (`esf.c`, `config.c`), over `DeviceSettings` |
| `AgentStatus` | the LED handler, over `AgentConfig` |
| `DLog` | the debug log handler |
| `AgentPlatform` | composition of the four: the process, its thread and the library's calls |
| `DLogProofs`, `AgentPlatformProofs` | lemmas about `DLog`; the theorems of the composition |

Definitions whose comment begins with "Mutant" are deliberately wrong variants
of the definition that follows; no specification uses them.

### OtaUpdate

A deployment directory is a function from its parts (the tree, binary, library,
version file, `opt/senscord`, its content, its version file) to the release a
part comes from, or `Absent`.  Each updater has a program counter (`pc`), the
packages it downloaded and its target; each command is one action, `rm -rf`
one action per entry.  `ErrorExit` ends a script before any command
(`error_exit`, `set -e`, a signal), `Reboot` ends all scripts and the daemon,
`DaemonFails` the daemon; `MaxEvents` bounds these and the runs by hand.
`Release` publishes a new core or sensor release, between the two downloads of
one run too.  `ln -s` onto an existing link creates the link inside the
directory it leads to, or fails when it dangles.  Left out: downloads that
fail (an `ErrorExit`), the OS update and options that touch no deployment, a
real file or directory in place of a link, the `*` case of
`get_target_deployment` for links made by other tools.

The abstract `BlueGreen` knows the active release and the releases that are
there as a whole.  `Active` and `Kept` map the links and directories to them;
a fault between `rm` and `ln` is a `Withdraw` that is not followed by a
`Switch` yet, so the refinement holds with faults anywhere.

### AgentLifecycle

`apc`, `mpc` and `cpc` are the next statements of the agent thread, the main
thread and each client.  Every call of the library, of ESF or of WAMR succeeds
or fails.  `held` is what has been set up; it is related to the abstract
`ResourceLadder` by `level` (the ranks of the resources held) and `phase`
(setup, teardown or over).  A backdoor function is a read of the context under
the lock followed by library calls without it.  The queue of native symbols is
modelled down to the reads and writes of `TAILQ_INSERT_TAIL`, since the flush
takes no lock: an entry linked behind an entry that was freed meanwhile is
lost.  `EVP_AGENT_STATUS_INIT` may be the library's answer too, so
`EVP_undeployModules` may return after its status call.  Left out:
`out_of_memory`, which reboots the device.

### ELog

A code is a record of the bit fields of the "ELog Code Specification" comment
and `EncodeBlob`, `EncodeMqtt` give its byte.  A handler is a read of the
stored code, the computation, the accesses to the globals and the store, each
a step of its own; `TcpTimeout`, which is external, may happen between any
two.  `SystemSetELog` stores under the mutex, skips an unchanged code, and the
event may fail to be written.  `status` is the status the library last
notified: it notifies changes only (comment at `notifications.c:404`).  `fails`
and `errs` are history variables that record the current outage.  The Wasm
code `0xf2` is registered and never set.

### DeviceSettings, AgentConfig, AgentStatus, DLog, AgentPlatform

`DeviceSettings` keeps the rows and files whose values the agent tells apart.
postinst is one action per command, may be interrupted and run again
(`Unpack` at any time), and a row it cannot write is skipped, as
`|| echo "Warning..."` does.  An upgrade runs it too and sets the rows to the
defaults, `PlStorageDataEvpTls=1` (TLS off) included.  A purge removes the
database and then the certificates, and may stop in between.

`AgentConfig` has one action per statement of a read that can fail or whose
result can be overtaken: the TLS gate, `calloc`, the `switch`, `opendir`, the
scan with its `closedir`, `open`, `read`, `malloc` of the struct.  The proxy
cache is filled one statement at a time too (`InitProxyCache`): the allocation
and the load of the parameters, the host, the port, the user and the password,
each copied if its field is not empty, and each able to fail and go to the end
with what was copied before it still in the cache; `prm` is what was loaded and
`failed` is `ret`.  `heap` is what is allocated or open.  A value is what it came from: a pair of the user, the
package's empty pair (`Placeholder`), a host, or some text.  `Ignored` is the
`NULL` of the TLS gate, told apart from the `NULL` of a failure for the
properties only.  `met` is a history variable: the readings of the TLS setting
that were possible since the connection attempt began.  `port` stays in the
cache after the deinit (`Deinit`); one process starts the agent once, so no
later cache meets it.

`AgentStatus` is the handler: the host, the project id, the token and the TLS
setting are read in steps of their own, the two strings are allocated before
and freed after, the four LED writes follow in the order of the enum, and each
step may fail.  `stable` and `old` are history variables: as long as no read
has failed and the settings have had two values at most since the call, `old`
is the other value.  A change of one setting at any statement, and its return,
are thus part of what `LedTruthful` speaks of; after a third value there may be
no moment at which all that was read was true, and nothing is claimed.

`DLog` reduces a message to its length and the length of the prefix; `lines`
are the parts of the message that were written and `size` is the buffer that is
allocated, 0 once it is freed.

`AgentPlatform` composes them.  `Change` lets a setting change between any two
statements of a call; `ProcessEnds` ends the process at any statement and
frees what it held; `PackageStep` needs a stopped service (`prerm`).  `phase`
is the position of the agent thread as far as it matters here: the first call
of the status handler, the proxy cache, the time the library runs.  The
library's thread makes one call at a time.  Left out: SQLite's own failures
while reading (any read may fail), contents cut at the sizes of `g_max_sizes`,
files that are copied in several writes, log levels, `SystemDlog`.

## 3. Runs

All runs check deadlock except `agent_natives`, whose one registrar may finish
while the thread is over.

| Run | Expectation | Shows |
|---|---|---|
| `ota` | pass | `ActiveComplete`, `LinksAgree`, `RollbackKept`, `ActiveUntouched`, `NeverSwitchedBack`, `BlueGreenImplemented`, `RunDelivers`, `RunsBounded`, `EventuallyLatest`, `ServiceRecovers` with one updater, two releases of each package and two events |
| `ota_running` | violation | with three releases and no fault, two updates without a restart of the daemon in between: the second removes the directory the daemon runs from |
| `ota_concurrent` | violation | with two updaters one rewrites the deployment the other has activated |
| `ota_senscord` | violation | a fault between the two `ln` commands leaves `/opt/senscord` missing for ever |
| `agent` | pass | `UndeployHasContext`, `ServedContextReady`, `EarlyRegistered`, `FlushIntact`, `RetFaithful`, `LadderImplemented`, `TearsDownHeld`, `ShutdownBounded`, `ShutdownReturns` with two callers and two registrars |
| `agent_freed` | violation | a backdoor function works with a freed context |
| `agent_natives` | violation | an accepted native symbol is never registered |
| `elog` | pass | `NoSentinel`, `OutageCountClear`, `OutageReported`, `LowBitsKept` with one notification thread and 17 errors per outage |
| `elog_stale` | violation | a recovery reports a buffer error of an earlier outage |
| `elog_lost` | violation | an event that was lost once is not sent on recovery |
| `platform` | pass | `TlsFollowsSetting`, `CredentialsReal`, `ProxyWhole`, `NoLeak`, `OneStatusShown`, `LedTruthful`, `ChunksWhole`, `LossAnnounced`, `CallsBounded`, `CallsReturn` with settings changing under every call |
| `dlog_notice` | violation | a message of 4076 bytes behind a prefix of 20 is written whole, and a notice says that 1 byte was truncated |

`ServiceRecovers` depends on cron: with `Cron = FALSE` and `CHECK_DEADLOCK FALSE`
in `OtaUpdate.cfg` TLC refutes it by a fault between `rm` and `ln` of `/opt/edc`,
after which the daemon waits for the link and nobody is left to run the script.  `LossAnnounced` is what the
debug log keeps to for every length (a loss is announced, and not played down);
`NoticeTrue` is what the comment at `log.c:254` says, and is refuted.

**Bounds.**  Two releases are enough for an update, a second update and a
release in the middle of a run; two events for a fault while a previous fault
is being repaired, or a forced run that is interrupted (`ota_running` needs a
third release, for the second update after the daemon's start, and no event).
Two callers and two
registrars give every race between clients; the queue then has the two entries
`TAILQ_FOREACH_SAFE` looks ahead to.  17 errors exceed the counter's limit of
15, so saturation happens.  One HTTP status of the table and an errno outside
its table cover both branches of the lookup.  In `platform`, one pair of the
user next to the package's gives every order in which a directory may list
them; the stored proxy has two fields that are set and one that is not, so that
a copy fails before, between and after others; the message
lengths lie on both sides of a chunk (256), of the buffer less the prefix and
of the buffer (4096).  `Scenarios` says which calls are made and which settings
change in one behaviour: connection attempts with the TLS setting and the
files, which are all the TLS keys depend on; the other keys with the host row;
the handler with all four rows; messages alone, since `DLog` shares no state
with the others.
The theorems of section 4 need none of these bounds.

**Fairness.**  `OtaUpdate!FairSpec`: a started script goes on (weak fairness of
`Step`), it is started again and again (the cron job of
`samples/ota/README.md`, or the daemon's OTA handling when `Cron` is `FALSE`),
and systemd keeps starting the service (`Restart=on-failure`, `RestartSec=5`
stays below the default start limit).  Faults and releases are not fair.
`AgentLifecycle!FairSpec`: the agent thread is scheduled and
`evp_agent_loop` returns, and `pthread_join` returns once the thread is over;
nothing forces a startup or a shutdown.  `AgentPlatform!FairSpec`: a call that has begun
goes on, since its thread runs and the functions it calls return; the settings
may change as often as they like, and nothing forces a call to be made.
`ELog` needs none.

## 4. Proofs

The assumptions are those on the constants (`OtaAssumption`,
`AgentAssumption`, `ELogAssumption`, `SettingsAssumption`, `ConfigAssumption`,
`DLogAssumption`, `PlatformAssumption`): typing, that a set of threads is not
empty or is finite, and that model values differ.  Two groups of theorems have
a hypothesis on the behaviour as well, called `Serialized` in both modules and
stated in the theorem: `[]Serialized`.

*OtaUpdate* (`LinksSafe`, `LinksStayTogether`, `RollbackAlwaysKept`,
`ActiveNeverWritten`, `NoSwitchBack`, `BlueGreenRefined`, `RunsDeliver`,
`RunsEnd`; any number of updaters, releases and events).  `Serialized` says
that no two runs of the script overlap.  Nothing in the script enforces it, and
`ota_concurrent` shows what happens otherwise; a lock around the script would
give it.  `ActiveComplete` is not inductive: that the link is switched to a
complete directory depends on what the script has copied so far.  The inductive
invariant `IInv` adds `Progress` (the parts present in the target at each
command), `LinkState` (the target is `TargetOf(edc)` while it is being built,
and which links exist during the switch) and `NoneNewer` (no directory is newer
than the package in hand).  The rollback theorem rests on `Keep`: either
`/opt/edc` exists or `edcB` is complete, which is why the fallback to `edcA` is
safe.  `BlueGreenRefined` shows that every command is a step of `BlueGreen` or
a stutter; it also needs `Missing`: the sensor's version file, which the
installation writes last, is not in the target until then, so that a release
becomes available in one step.  `RunsDeliver` says that no command fails of
itself: the validation always passes, each `ln` finds its name free, and so a
run ends at the version check or at its last command (`NoCommandFails`,
`EndsAtCheckOrLink`).  `RunsEnd` is the variant of the script: `Remaining`
counts the commands left, with the entries `rm -rf` has still to remove, and
falls with every command.

*AgentLifecycle* (any set of callers, any finite set of registrars).  `IInv`
says what is held at each statement (`HeldInv`), that the context is published
in the loop at the earliest and never reset (`PublishInv`), where `ret` may be
0 (`RetInv`), and where the early symbols are (`EarlyInv`: in the queue,
between the queue and the runtime during the flush, in the runtime afterwards).
`EarlyInv` also says that the flush works with the first two entries of the
queue (`FlushAlwaysIntact`), which is what allows `FlushEntry` to model
`TAILQ_REMOVE` as the removal of the first one.  `LadderRefined` shows that
each step of the thread is a step of `ResourceLadder` or a stutter.  To tear
down what is not held would be such a stutter, so `TeardownHeld` says the rest:
at each label the resource it tears down is held.
`ShutdownEnds` gives the variant of the thread: `ThreadLeft` adds the
statements ahead, the entries in the queue and the registrars not yet answered,
so that an entry linked during the flush, which lengthens the queue, is paid
for by the registrar that leaves; the sum falls with each step of the thread
once it is signalled and never exceeds 22 and one per registrar.

*ELog*.  `SentinelNeverStored` holds for any threads and interleavings: `Tidy`
says that the lowest MQTT bit is never set and that the details stop at 11.
`OutageCountAlwaysClear`, `OutageAlwaysReported` and `LowBitsAlwaysKept` hold
for any number of threads whose handlers do not overlap (`Serialized`; the
library's threading is not in the repository): `Outage` ties the counter and
the flags to the outage in progress until the recovery has merged them into
its local code, and `LowBits` ties a handler's local code to the stored one.
`BytesFaithful` relates the records of the model to the bytes of the code: the
encodings are injective and stay in eight bits, so the duplicate check of
`SystemSetELog` on bytes is the comparison of records in `Written`.
`FailuresToldApart` adds that the statuses and errnos of the tables are stored
as different bytes.

*AgentPlatform* (any pairs, proxies, message lengths and scenarios).  `IInv`
has four parts: `Types`; `Reader` (what a read holds, has found and has read
at each statement, how what a connection attempt was given relates to what it
met, and `CacheInv`: before each copy the cache holds exactly what the copies
before it gave of `prm`, and a failure is seen only at the end, which is why
`ProxyWhole` holds whichever copy fails); `Handler` (which LED statuses have
been written at index `i`, and that each value read was there at some moment
while `stable`); and `DlogInv` of `DLogProofs` (the chunks so far end where the
next one starts, and a buffer is allocated only within a call).
`TruthfulLed` goes from "each at some moment" to "all at one moment" by
`OneMoment`: the two values the settings have had differ in one setting
(`Pair`), so one of them has what was read of that setting, and of the others
both have it.
`OneStatusShown` needs no assumption on the LEDs a failed handler left: the
four writes cover them all.  The chunk lemmas are arithmetic over any buffer
length.  `CallsEnd` is the variant of the calls: statements left, LED writes
left and lines left, of which 16 fill the buffer.

Only model-checked: the liveness properties `EventuallyLatest`,
`ServiceRecovers`, `ShutdownReturns`, `CallsReturn` (liveness under fairness is
out of the prover's reach; `RunsEnd`, `ShutdownEnds` and `CallsEnd` prove the
safety half of the argument, that the fair steps cannot go on for ever) and
everything a `violation` run shows.

## 5. Plan

Order of work, the most important behaviour first:

1. `OtaUpdate`, `AgentLifecycle` with `ResourceLadder`, `ELog`, their runs and
   proofs (done).
2. `DeviceSettings`, `AgentConfig`, `AgentStatus`, `DLog` and their
   composition `AgentPlatform`, with the run `platform` and proofs (done).
3. `BlueGreen` and the refinement of it by `OtaUpdate`, checked and proved
   (done).
4. Proofs for any number of updaters and threads that do not overlap, the
   variants behind the liveness properties, the codes as bytes (done).  Next:
   a weaker hypothesis than `Serialized` for the update (runs that overlap only
   up to the choice of the target, which is where a lock would have to begin),
   and the order in which the flush registers the early symbols.
5. A composition of the update with the agent (a daemon stopped for an update
   shuts its agent down and starts it from the new deployment), once the
   sources of the daemon's `main` are at hand: the code that connects the two
   is in a submodule.

## 6. Not modelled

- Submodules and subprojects without sources in the tree (`src/app`,
  `src/sensor`, `src/manager`, the EVP library, WAMR, ESF, Mbed TLS): their
  calls are steps that succeed or fail.
- Static unit, udev and build files, and the `mbedtls` configuration header.
- `SystemDlog` (one line, no state), log levels and wording.
- The bound of 128 ELog entries: three components are registered, once.
- A second start of the agent in one process, which no code in the tree makes;
  it would find the proxy port of the first.
- Certificates longer than 32 KiB and keys longer than 4 KiB, which `read` and
  the buffer would cut.
- The version check compares the core release only, so a newer sensor release
  alone is not installed; a limit of the script that no property contradicts.
- The defaults an upgrade writes over the user's rows: the behaviour is in the
  model (`SetDefaultUrl`, `SetDefaultTls`), and no line of the repository says
  that it should be otherwise.
