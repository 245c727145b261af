# twitch-car-factory: formal models

TLA+ models of the controller of twitch-car-factory: a Django control room that
writes what an operator wants into SQLite, and one worker process that makes it
so, with one child process (a Twitch miner) per running account. The models are
checked with TLC on small instances; some results are proved with TLAPS for every
value of the constants.

Paths such as `controller/services.py` are relative to the repository's root. The
file `PROJECT.json` names, for every definition that models code, the lines it
models; the hazards with the properties that watch them; and, for every property,
a change of the code that the property catches.

## 1. The system

### Components

| Component | Code | State it keeps | Operations |
|---|---|---|---|
| Command queue | `controller/services.py`, head of `miner_supervisor.py` | `MinerCommand` rows, `MinerInstanceState.desired_state` | `enqueue_command`, `enqueue_all`, `lease_next_command`, `execute_command` |
| Miner supervisor | `controller/miner_supervisor.py` | `processes` (the handles of its children), `pending_run_finalizations`, the worker-owned half of `MinerInstanceState` | `startup`, `run_once` and its phases, `start_account`, `stop_account`, `restart_account`, `authenticate_account`, `shutdown` |
| Run and incident records | the same, `controller/models.py` | `MinerRun`, `MinerIncident`, `RestartAttempt` rows | written by every operation of the supervisor |
| Worker lease | `startup`, `heartbeat` in `miner_supervisor.py` | a file lock, one `WorkerLease` row | acquire, heartbeat, release |
| Channel configuration | `controller/services.py`, `controller/models.py` | selections, presets, defaults, revisions, fingerprints | save, reset, resolve, snapshot |
| Miner child process | `controller/miner_runner.py` | the Twitch session on disk, in-memory login state | load the launch row, log in, run the engine, report events on a pipe |
| Twitch device login | `services.py`, `controller/twitch_miner/auth.py` | activation code, its expiry, the login state shown | request, show, poll, time out |
| Drops engine | `controller/twitch_miner/engine.py`, `inventory.py` | watched channel, campaigns, inventory | choose, watch, claim, retry |
| Account log archive | `controller/runtime_logs.py` | log parts, sealed and compressed parts | write, rotate, seal, compress, prune, recover |
| Legacy import | `controller/legacy_import.py` | a draft, ownership of imported rows | preview, confirm, discard |
| Accounts and credentials | `services.py`, `models.py` | accounts, encrypted secrets, session seeds | create, update, request a TV login |
| HTTP API, admin, browser | `controller/api.py`, `views.py`, `admin.py`, `frontend/` | none of their own | call the services, render |

### How they interact

The web process and the worker share nothing but the database. The web process
writes the desired state of an account and queues a command in one transaction;
the worker leases the oldest queued command, checks that it is still wanted and
carries it out. Everything the web process shows about a miner (observed state,
current run, incident) is written by the worker. The worker starts a child from a
run row that it has committed first, reads the child's events from a pipe through
a draining thread, polls its exit status, and signals it. A child dies with its
worker (`PR_SET_PDEATHSIG`), and the worker is restarted by its container
(`docker-compose.yml`, `restart: unless-stopped`).

### What is hard

* **Interleaving.** Every operation of the worker is a series of transactions,
  signals and reads of a child. Requests, exits and events of children, and
  the death of the worker fall between any two of them.
* **Partial failure.** A `Popen` that succeeded inside a transaction that rolled
  back; signals that fail; a dead child whose run row cannot be written.
* **Crash and restart.** Commands claimed, runs recorded and attempts started by
  a worker that is gone.
* **Retries.** Recovery with backoff, competing with operator commands, fingerprint
  restarts and reconciliation for the same account.
* **Twitch.** Answers are lost or late; the inventory lags behind what was watched.
* **Two editors.** The control room, the importer and the worker change the same rows,
  and a reviewed import meets a database that went on.
* **Stale reads.** Reconciliation and health decide on a desired state they read
  earlier; the login events of a child lag behind its exit.

### What makes each component correct

* *Queue*: at most one active command per account and action; no claim without an
  owner; a result is final; every command ends.
* *Supervisor*: at most one child per account, always owned; nothing shown as
  running that is not; the worker converges to what is asked for.
* *Records*: a run row exists before its process and is open as long as that
  lives; every end is written by somebody and tells why; one pending attempt per
  incident; an incident closes only when it is over.
* *Lease*: at most one worker acts; a worker that lost its lease stops acting.
* *Configuration*: a child mines what its snapshot says; whatever changes under a
  running account asks for its restart; a session stays with the user it is for.
* *Login*: an old child's events do not speak for a new one; no session but the one
  asked for passes for it; a refused code is not followed by another; a login that is
  open comes to an end.
* *Log archive*: nobody touches the part a writer has open; what is sealed stays until
  it is the oldest, wherever a step fails; a reader skips nothing that is there.
* *Import*: a draft writes what was reviewed and nothing that the control room owns;
  what cannot be launched afterwards is stopped.
* *Drops engine*: no progress is invented, no claim forgotten; what is earned is
  claimed; a channel that credits nothing is left.

## 2. The modules

| Module | What it is | Proofs |
|---|---|---|
| `CommandQueue` | the abstract command queue: the rules of `enqueue_command` and of the worker's claims, with the effect of a command left open | `CommandQueueProofs` |
| `RunLedger` | the abstract promise about runs and processes | `RunLedgerProofs` |
| `MinerSupervisor` | the worker in detail: every operation, phase and failure path; implements both of the above | `SupervisorOwnership`, `SupervisorProofs` |
| `LogArchive` | the log files of one account: writers, compression, retention, sweep, live tail | `LogArchiveProofs` |
| `DropsEngine` | the loop of a child: channels, inventory, claims, playback | `DropsEngineProofs` |
| `FarmConfiguration` | accounts, credentials, sources of channels, presets, defaults, and the requests their changes make | `LegacyImportProofs` |
| `LegacyImport` | extends `FarmConfiguration` by the import of legacy archives | `LegacyImportProofs` |
| `DeviceLogin` | extends `CommandQueue` by the Twitch login of one account: user, child, worker | `DeviceLoginProofs` |
| `MCDeviceLogin`, `MCMinerSupervisor`, `MCLogArchive`, `MCDropsEngine`, `MCLegacyImport` | instances for TLC | — |

### CommandQueue

`desired` and `cmds` are the database; `hand` (the command `execute_command` is
at), `checked` (it has passed the checks at the head of `execute_command`) and
`attached` (commands referenced by a child that is not confirmed yet) are the
worker's memory. `Enqueue` is `enqueue_command`, with its three rules: a request
is absorbed by a pending authentication (`Stronger`), joins an equal active
command (`Repeated`), and cancels queued commands it makes obsolete (`Obsolete`).
`Lease`, `Refuse`, `Begin` are the command loop; `Complete`, `Attach`, `Resolve`
and `FinishEarly` are the ways a command can end; `Crash` and `Startup` are the
death of the worker and the requeueing in `reconcile_startup`.

### MinerSupervisor

The worker is a single thread, so its control is data: `phase` (where in
`run_once`), `todo` (which accounts the phase still has to visit), `view` (the
desired states it has read and decides on) and `job` (the operation under way and
its next step). The variables follow the code:

| Variable | Code |
|---|---|
| `desired`, `cmds` | as in `CommandQueue` |
| `st` | observed state, current run, `next_retry_at`, `restart_attempts` of `MinerInstanceState` |
| `runs`, `incident`, `attempts` | `MinerRun`, `MinerIncident`, `RestartAttempt` |
| `config` | the effective channel configuration, compared by fingerprint |
| `proc` | the child process and the authentication event it wrote, and whether it was drained |
| `handle` | `ManagedProcess`: run, confirmed, command, attempt, cleanup required, planned reason, authenticated |
| `unfinished` | `pending_run_finalizations` |
| `lastEnd` | history: how the last run of the account that ended did end |

Actions are grouped as the code is: `Website`, `Children`, `Reading` (the draining
threads), `Commands`, `Launching`, `Stopping`, `Visiting` (health, reconcile,
recover, fingerprint, shutdown) and `Looping`.

**Steps.** The database runs in IMMEDIATE transaction mode (`twitch_farm/settings.py`), so a
block under `transaction.atomic` is one step of the model. A step otherwise ends
wherever the code commits, polls or signals a child, or reads what another
process may change. Commits with nothing in between that another process can
observe or disturb are merged. `reconcile_startup` is several transactions but one
step (`Boot`): a worker that dies half way leaves rows that the next `Boot`
treats exactly as it would have treated them all.

**Failures.** `Fault` guards every disjunct in which something fails: a signal, a
spawn, a channel resolution, the write of a run's end, a health transaction. What
happens then is the code's: which handle stays, what is remembered, whether the
error ends a command or leaves `run_once`. An error that leaves `run_once` ends
the loop and leads to `shutdown` (phase `quit`), after which the container starts
a new worker.

**What is abstracted.** Times are `none`, `later` and `due`. The login fields of the
account are in `DeviceLogin`. The authentication
events are always required, as `SupervisorOptions.from_settings` sets it. The
reasons of a planned stop (admin, configuration, restart, shutdown) are one value,
`planned`, since no branch tells them apart. A row that nothing refers to any
more is reused for the next one, so runs and attempts are bounded by how many are
in use at a time and not by how many were ever made. The timer of the fingerprint
pass may also expire during the first pass after startup, which adds behaviours
and removes none.

**Refinement.** `Queue` and `Ledger` are instances of the abstract modules. The
hand of the queue is the command of the job, its attached commands those of the
handles; a run is `prepared` in the ledger while only the launching job refers to
it. `FollowsQueue` and `FollowsLedger` are checked as properties and proved in
`SupervisorProofs`: what is proved about the abstract modules holds for the supervisor.

### LogArchive

The one place where several threads of the worker work on the same data without a
lock: the directory of an account. Each run has a thread that writes (the one that
drains the child's output, later the one that finalizes the log; the writer's lock
makes them one), and the main thread sweeps.

| Variable | Code |
|---|---|
| `plain`, `gz` | `part-N.log` and `part-N.log.gz` |
| `dirs`, `litter` | run directories; temporary files of a dead worker |
| `said`, `kept` | lines in a part, and in its archive |
| `order` | `_archive_order`: pairs of parts, the first last written to before the second, which compression keeps |
| `writer`, `drain` | `AccountRunLogWriter`; the thread `_drain_miner_output` |
| `role` | `held`: the worker has a handle; `deferred`: in `_pending_log_finalizations`; `gone`; `abandoned`: the finalizer gave up while output still comes |
| `job` | where each thread is in `_compress_plain_part` or `_prune_for_archive`, with the archives it listed |
| `sweep` | where the main thread is in `recover_account_log_archives` |
| `tail` | a client of `read_account_live`: its cursor, and the parts the request under way has listed |

`Compression` is one action per step of `_compress_plain_part` that another thread can
see: copy and list, measure, prune one archive after another, publish, remove the
source; an error at any of them is `CompressionFails`. What the thread does next is
`GoesOn`: a writer opens its next part or is closed, the sweep takes its next file.
`Write` and `Seal` are `write` and `_seal_part`; `BeginRun`, `Finalize`, `Defer` and
`GiveUp` are the supervisor's side. `Crash` leaves the files as they are, and the
next worker sweeps first, with no run active. All compressed parts have one size,
so `Limit` counts them; lines are counted, and a line may seal a part before it is full
(a line too long for the rest of it). History pages, downloads and the combined log
only read, and are left out.

### DropsEngine

A child mines in one thread (`DropsMiner.run`), so `pc` is where its `step` is:
channels, inventory, sessions, claims, playback, progress, claims again, stall. Twitch is
modelled by what the engine assumes of it: `minutes` and `awarded` are the truth,
`cached` what the inventory showed last, which may be out of date, `session` the
channel it credits.

| Variable | Code |
|---|---|
| `online`, `advertised`, `confirmed`, `current` | the `Channel` objects |
| `details`, `known`; `mins`, `done`, `claimed` | `details`, `campaigns`; `current_minutes`, `is_claimed`, `self.claimed` |
| `cooldown`, `refreshIn`, `age` | the deadlines of `cooldowns`, `next_refresh`, `progress_at`, as ticks of `WATCH_INTERVAL` |
| `watching`, `progress`, `failures`, `shown` | the same, and the `watching_channels` event |
| `fresh`, `rivals`, `wall` | locals of `step` |

Requests that fail are actions of their own (`ChannelsFail`, `InventoryFails`,
`PlaybackFails`, `Unanswered`), bounded by `MaxFaults`; a claim without an answer may
have been accepted or not. There is one campaign; its drops unlock one another.
When campaign details are discovered is left open, which adds behaviours.

### FarmConfiguration

| Variable | Code |
|---|---|
| `account` | `MinerAccount`, its credential, selection and custom channels; `printed`: the fingerprint is not empty; `revision`: `channel_revision` |
| `preset`, `nextPreset` | `ChannelPreset`, whose ids are not reused |
| `settings` | `FarmConfiguration` |
| `seed` | `AccountSessionSeed`: for which username it was validated |
| `running`, `asked`, `live` | desired state; a request queued that starts or restarts; a current run |
| `history`, `logged` | what `_account_has_history` and `_ownership_revocations` find in the records |

Each service is one IMMEDIATE transaction and one action: `CreateAccount`,
`UpdateAccount`, `RequestTvAuthentication`, `SetSource`, `Assign` (`preset_assignments`),
`CreatePreset`, `EditPreset`, `DeletePreset`, `UpdateSettings`. A `ValidationError`
rolls back all of it, also one of the `enqueue_command` at its end, so `Asks`
requires of the new rows that they can be launched. `Start`, `Stop`, `Launch`,
`ConsumeSeed` and `End` are all this module needs of requests and the worker; how they come
about is `CommandQueue` and `MinerSupervisor`. The forms of the API are guards where they
refuse more than the service does (only active accounts are edited).

### LegacyImport

An archive is a parsed payload: `Payload` is what the parser guarantees. `Prepare` is
`prepare_legacy_import`: it stores the plan (`Plan`, from `_build_diff_plan`) as the
preview, and the `Snapshot` of the rows concerned as the baseline. `Confirm` is
`confirm_legacy_import`: the baseline must be that of now, the plan is made again and
applied (`_apply_diff_plan`) in one transaction. `ledger` is the `ImportOwnership` of the last
import: fingerprints are modelled by the values they are of, so two rows have the
same fingerprint exactly if they are equal. `ours` and `intact` are history variables for the
properties. The typed confirmation of a replacement, drafts of several users and ledgers of
version one, which own nothing that can be verified, are left out.

### DeviceLogin

One account in the command queue, with its child, its user and Twitch. Each step either is
an action of `CommandQueue` or leaves the commands alone (`LoginFollowsQueue`), so what
is proved there holds here: `Accept` is `Begin`, `Launch` attaches the command to the child,
`Settled` is what becomes of that command when the child is confirmed or gone.

| Variable | Code |
|---|---|
| `method`, `status` | `AccountCredential.auth_method`; `authentication_status` with `authentication_code` |
| `cookie` | the session in the runtime cookie file, by the order in which Twitch granted it (`sessions`) |
| `child` | where `authenticate` and `run_miner` are: `new`, `polling` for its code, `granted` a session, `mining`, `ending`, `dead` |
| `told` | control events written and not consumed |
| `handle` | `ManagedProcess`: authenticated, confirmed, `late`: past `authentication_deadline` |
| `job` | the worker's operation and its next step, with what it has read: the login fields (`stop_account`), the desired state (`check_health`), the launch snapshot |
| `since`, `wish` | history: sessions granted before the last authentication began; whether, since the child was launched, somebody has asked for the account to run or else its code was refused |

The control room's requests (`Request`, `RequestTvAuthentication`) come at any moment. The child
goes on by itself: `Reports`, `ShowCode`, `LoginFails`; the user and Twitch decide on
`Activated`, `Rejected`, `LosesSession`. The worker carries out a command (`Adopt` to
`Launch`; a reconnection goes through `RemoveSession`) or visits its child: `Visit` reads the desired
state, `Hear` consumes one event after the other, and then one of `HealthHalts`,
`HealthGivesUp`, `HealthExit`, `Confirm` and `HealthQuiet` decides. A visit may decide with
events left, since the draining thread may not have queued them yet. What the worker does
of its own accord (`ReconcileStops`, `OwnLaunch`, `ConfigRestart`) may happen whenever
it is idle; recovery and its delays are in `MinerSupervisor`. So are signals that fail and children that
survive a stop: here a stop ends with the child dead. Mishaps (a snapshot, a removal,
a launch or a validation that fails, a child that crashes, a worker that dies) share one budget.

## 3. The runs

| Run | Question | Bounds |
|---|---|---|
| `device_login` | Can requests, claims and crashes duplicate, strand or rewrite a command while its child logs in? Is a refused code followed by another, or an old session taken for a new one? Does a login come to an end? | 1 account, 2 commands from 2 requests, 1 code, 1 mishap |
| `supervisor_commands` | Are children, runs, attempts, incidents, recorded ends and display consistent at every step, also when a cleanup fails? | 2 commands, 1 exit and 1 fault or 2 faults |
| `supervisor_recovers` | Is anything left behind by a worker that dies? Does the supervisor implement the abstract modules? Does the worker get to the desired state, and does every command end? | 1 command, 1 exit, 1 fault, 1 crash |
| `supervisor_shows` | Do the shown state and the channels mined catch up? | 1 command, 2 configurations, 1 exit, 1 fault |
| `log_archive` | Two runs at once: does retention take the oldest, is pending text compressed in the end, and the limit restored? | 2 runs of 1 part, room for 1 archive, 1 fault, 1 crash |
| `log_tail` | One run that rotates while it is followed: does a reader miss a line? | 1 run of 3 parts of at most 2 lines, room for 1 archive, 1 fault, 1 crash |
| `drops_engine` | Is progress truthful, and is what is earned claimed, through lost answers and a late inventory? Is a channel that credits nothing left? | 2 channels, 2 drops of 1 minute, 2 faults |
| `legacy_import` | Does an import write what was reviewed and nothing the control room owns? Does every change under a running account ask for its restart? | 2 accounts, 4 archives, 1 draft at a time, 2 imports, 1 edit |
| `newer_request`, `crash_unrecovered`, `restart_dropped`, `shown_degraded` | Statements of the documents or comments that the code does not keep (section 5) | the smallest that show it |

Why one account is enough for the supervisor: accounts share the command table,
the order of visits and the worker's single thread, and nothing else. What the
table does with any number of accounts is proved in `CommandQueueProofs` (`Lease` takes
the oldest of the farm); a visit of another account can only delay this one, and in the models every
step may already be delayed by requests, children and elapsing time. Two accounts
with the full supervisor are out of reach of a run of some minutes.

Why the other bounds are enough for the cases that matter: a child in startup, a
confirmed child and a recovery child all occur; `RapidAttempts = 1` makes the
slow-retry branch of `_schedule_recovery` occur; three run rows are one old child,
one being launched and one whose end is unwritten; two attempts are the one of a
child and the one that replaces it. With one fault or exit each, a command meets a
failed stop, a failed spawn, a rolled-back launch and a failed run end; the
`_recovers` run puts a crash between any two of these steps. With two faults a launch
fails and its cleanup fails as well. For the safety properties the bounds do not matter at
all: they are proved (section 4), and the runs show that they are about something.

The liveness runs have one command: a child that is confirmed, and what the worker does on its own.
A second request adds commands that fail over a confirmed child. What the
*shown* state does then is the difference between two properties:

* `ObservedConverges`, that it comes to agree with the desired state, as the documents say. With one
  command it would pass; with two it is false of the code. `shown_degraded` checks it with two (section 5).
* `ShownSettles`, which does hold: it agrees in the end, but for `Underrated`, a healthy child that has survived a
  failed operation and may be shown as something else for as long as it lives. An account
  without a child is not excused, nor is `starting`, `stopping`, `restarting` or `unknown`, nor a restart that
  fails while the account is to run, whose handler restores `running`. Its passing does not
  rest on the one command of `supervisor_shows`: it was also checked with two commands and a failure, with
  two and an exit, and with three and a failure, the case of a `stop` that fails and a `start` that
  adopts the child (two million states, a quarter of an hour). So was `Converges` with two commands, and
  a failure or an exit. To repeat them, give `MCSupervisorShows.cfg` one configuration, two or three commands, and
`MaxExits` or `MaxFaults` of 0; with two configurations as well they take too long.

`supervisor_commands` leaves `OpenRunIsHeld` and `StartedAttemptIsHeld` to
`supervisor_recovers`, where a crash puts them in danger.

For the device login, two requests are a login and another request of any kind in the middle of
it; the second may repeat, cancel or supersede the first, and the worker adds
launches and stops of its own. One code and an imported session are the two ways in; Twitch may
refuse the session at any time, and a child that gets no further is ended by its deadline, so one
code is enough for a child to be refused and for its successor to try again. One mishap
falls between any two steps.

For the log archive two runs make two threads publish at a time, beside the sweep, and
room for one archive makes each publication prune. Three parts are one that is
pruned, one that is archived and one that is open, so a reader between them meets
every case. `ActivePartIsLeftAlone` and `OnlyOlderPartsGo` were also checked once with
two runs that both rotate, without faults and crashes (two million states).

For the drops engine, two channels are one that is left and one to go to, two drops one
that unlocks the other. `Stall` is longer than a refresh, as in the code, and `Patience`
of two lets a child fail, recover and fail for good. For the import, the archives rename an account,
replace its source, its preset and the defaults, leave it out, archive another one, and refuse a
cookie; two imports are one that creates rows and one that meets them, with a draft
of either prepared before or after the edit. An edit is any operation of the control room;
requests, launches and ends are not bounded. With one account, two edits were also
checked once (half a million states), so that a change can be undone between two imports.

`CHECK_DEADLOCK FALSE` is not used to hide a stuck worker: the models that set it
have bounded requests, exits, edits and crashes, or a child that ends, and violation runs stop at their
counterexample. Whether the worker gets stuck is what the liveness runs ask.

`CONSTRAINT TwoMishaps` of `supervisor_commands` keeps exits and faults together at two.

### Fairness

`Fairness` in `MinerSupervisor` assumes what the deployment provides: the worker
takes a step when it has one, and is restarted after it dies (`restart:
unless-stopped`); draining threads read; times that were put off arrive. The
timers of the loop (`HealthDue`, `FingerprintDue`) expire again and again, so they
are strongly fair: a busy command queue postpones them but the number of commands
is finite. A child in startup is eventually confirmed or times out, which is the
handshake deadline of `check_health` and strongly fair since passes alternate
between being in health and elsewhere. No fairness is assumed of the web process,
of the children or of faults: a child may stay silent for ever.

`Fairness` in `LogArchive`: threads that compress, open, finalize and close go on, and the
main thread sweeps whenever `fingerprint_poll_seconds` have passed. A child need not
end its output, a reader need not ask.

`LoginFairness` in `DeviceLogin`: the worker never blocks for ever, the child goes on and
deadlines pass (its requests have timeouts). The worker visits a child and looks at the queue
again and again, whatever it does of its own accord in between, so leasing and confirming are
strongly fair; the second also says that a child that keeps living outlasts its startup grace. Nothing is
assumed of the user, of Twitch, or of mishaps: a code may be refused, a session
lost at any time.

`Spec` of `DropsEngine`: the engine takes its next step (`WF_vars(Step)`), as a thread does
whose requests all have timeouts. Nothing is assumed of Twitch: it need not credit
anything, and the campaign may end at any time. `LegacyImport` has no liveness: nobody
must confirm a draft.

## 4. What is proved

All proofs are checked by TLAPS without omitted steps, for every set of accounts
and every bound.

**CommandQueueProofs.** `TypeCorrect`, `OneActive`, `NoLostClaim` and
`ResultsAreFinal` are theorems of the abstract queue. `DeviceLoginProofs` carries them over to
a login, and `SupervisorFollowsQueue` says that they hold of the supervisor. Neither `OneActivePerAction` nor `LeasedIsHeld` is inductive by itself.
The inductive invariant `IInv` adds the types and what ties the worker's memory
to the table: a worker that is down holds nothing, the command in hand and the
attached ones exist. `OneActivePerAction` survives `Startup` because requeueing
only turns a leased row into a queued one, both active; it survives `Enqueue`
because a row is appended only when no active one is equal, where "active"
includes the leased command under way. `TerminalIsFinal` is an action
property: it follows from `IInv` because every write of the worker is restricted
to rows that are still leased, and every write of the web process to rows that are
queued.

**RunLedgerProofs.** `LiveProcessIsRecorded`: every live process belongs to a run
that is open. `EveryRunIsLaunchedOnce`: a process comes to life only for a run
that was prepared and never launched, and only where its account has no
process. The invariant `TypeOK /\ LiveIsOut` is inductive.

**SupervisorOwnership**, types. `TypeCorrect` is `TypeOK` of `MinerSupervisor` for every
set of accounts and every bound, from `SupervisorAssumption` (the bounds are
naturals, no account is called `NoAccount`). `TypeOK` is not inductive: an
operation of the worker is several steps, and a later step uses what an earlier one
left in `job` (the operation, the run, the attempt, the event that ended a startup).
`FinalObserved`, for instance, has no case for a recovery, so a stop that ends must
be known not to belong to one. `JobFits` adds what each step may find in the job:
the operations that can be at a step, and the row numbers they carry.

**SupervisorOwnership**, ownership. Three invariants, for any number of commands, exits,
failures and crashes:

* `EveryChildIsOwned`: a live child is in the handle of its account. No account
  ever has two children, and none outlives its worker.
* `EveryLiveRunIsOpen`: no run ends in the database while its child lives.
* `EveryOpenRunIsHeld`: while a worker is up, each open run is in a handle, in the
  launch under way or in `unfinished`.

None of the three is inductive by itself. A launch that fills the
handle of its account loses a child if there is one in it, so `EmptyHanded` says
that from the last step of the stop before it the handle is empty. The run it fills
in must be nobody else's (`LaunchIsFresh`); a cleanup after a failed launch
must find the child it made (`TidiesItsOwn`); a handle's run must not be on the list
of ends to be written, or `_flush_pending_run_finalizations` would end the run of a
living child (`HeldIsNotUnfinished`); and a worker that is down has no handles, so
that the next one starts from none (`DownOwnsNothing`). `Owning`, the conjunction of
all of these with the types, is inductive. Most actions are shown to leave one of
two footprints, and the footprints are shown once to preserve ownership: with `Kept`
every handle stays, no child is born and only runs that nobody holds are closed;
with `Accounted` one child is seen dead, and its run, its handle and its process end
together. The actions that make a run or a child (`Launch`, `Spawn` and its failures)
and those that kill all of them (`Die`, `Boot`) have proofs of their own.

**SupervisorProofs**, refinement. `SupervisorFollowsLedger` and `SupervisorFollowsQueue`: the
supervisor implements both abstract modules, step by step.

For the ledger, each step of the supervisor is `Prepare`, `Launch`, `Die`, `Close`, `Discard`, the crash
of all, or a stutter. `Owning` gives the guards: a run is closed when its process is gone,
and a launch meets no other process. `LiveIsHeld` follows from it and says it in the ledger's terms:
the process of an account is that of the run its handle holds, and there is no other.

For the queue, the command of the job is the one in `hand`, those of the handles are
`attached`. `Filed` is what it takes on top of `Owning`: a handle waits for a command of its own
account that was leased (`HandlesWait`); the job carries out its command, or fails that of a child
that gave up its login (`JobWorks`); and what each step of a job tells of its command and of the
handle, in particular where the two may share one (`StepFiled`).
An operation of the worker's own, say a recovery or a restart for a new configuration,
must be shown to have no command in hand, so that it is a stutter until it ends the command of the child it
replaces, which is a `FinishEarly` or a `Resolve`.

The theorems of `CommandQueueProofs` and `RunLedgerProofs` are about those modules' own variables;
that they hold of the supervisor follows from `Spec => Queue!Spec` and `Spec => Ledger!Spec`
by substitution, which the prover does not do by itself for a proof in another module.

**SupervisorProofs**, what is shown. Five properties, for any number of commands, exits, failures and crashes:

* `ShownIsTrue`: what is shown as running is a confirmed child that the worker owns, with the run it names.
* `EveryStartedAttemptIsHeld`: a started attempt belongs to the recovery under way or to an unconfirmed child.
* `OneAttemptPends`: an account has at most one attempt scheduled or started.
* `PlannedEndsStand`: the reason of a stop whose write failed is what the run ends with.
* `IncidentsCloseSettled`: an incident closes only without a child, or over a confirmed one.

They depend on one another and on what each operation knows of its child at each of its steps, so
they have one invariant, `Truth`, on top of `Owning` and `Filed`:

* `Told`, of the rows and handles: without a child a handle is empty (`Bare`), a confirmed child is not
  one to be cleaned up (`Plain`), and the row names the child of the handle unless its launch was rolled
  back (`Named`).
* `JobTells`, of the operation under way: from its first write a stop no longer shows its account as running
  (`StopShows`); a tidying pass is at a child that is to be cleaned up (`TidiesCleanup`); only a recovery
  carries an attempt (`CarriesAttempt`), and one that failed has no child but its own (`RecoversAlone`).
* `LooksAtPlain`: a health visit that has read the desired state did not find a cleanup.
* `Tried`, of an account's attempts: at most one pends, and a started one is held.

The actions fall into few kinds of change (`SameRow`, `Hides`, `Loses`, `Starts`, `Runs`; for
attempts `Trimmed`, `KeepsAttempt`), each shown once to preserve what it must. The last two properties
are action properties: `EndStands` and `Settles` are shown of every step from `Truth`. The
proof of the former found the exception in section 5: a launch that was rolled back.

**DeviceLoginProofs.** All safety properties of `DeviceLogin`, for any number of requests, codes
and mishaps. `LoginFollowsQueue` says that a login implements `CommandQueue`; `LoginOneActive`,
`LoginNoLostClaim` and `LoginResultsAreFinal` follow from it and from the theorems of
`CommandQueueProofs`. `NeverLoopsCodes`: after a refused code no child is launched before
somebody asks. `ReconnectIsNew`: a reconnection that is reported as a success has a session that was granted
after it began. Both are action properties of a system whose worker learns late what its
child did, so the invariant `LInv` has to say where the truth is meanwhile: how much a child has said by how far
it has come (`Speaks`), that each code grants at most one session (`Granted`), and that nobody is linked, or
says so, without one (`Linked`); that the session of a reconnection in progress is gone or is newer than
the request (`Renewed`); that a refusal nobody asked about since is still to be heard, from a child the worker will not
replace meanwhile (`Refusal`, with `Unheard`); what each step of the worker's job is for (`JobFits`) and
what it holds of the queue (`Claims`).

**DropsEngineProofs.** `TypeCorrect`, `ProgressIsOnlyCredited` and `ClaimsStayTrue`, for any
number of channels, drops, minutes and faults, from `EngineAssumption`. Not inductive by
themselves: the minutes the engine believes in come from the inventory that was shown
last, the current sessions of its channels and its own counting, so `ShownIsHad` says that an
inventory, however old, only shows minutes and awards that were had, and `ToldIsHad` the
same of sessions; `claimed \subseteq awarded` is what makes a drop of a lagging inventory
count as claimed rightly.

**LogArchiveProofs.** All safety properties of `LogArchive`, for any number of runs, parts, lines,
failures and crashes, from `ArchiveAssumption` (there is a run; the only part of a run that may have one
has room for the lines that end it, or it would be full when it is opened):

* `ArchiveTypeCorrect`: the types, and that the parts that are there are in one order.
* `OpenPartsStay`: no sweep, prune or compression takes the part that a writer has open.
* `OldestGoFirst`: a part disappears only while a newer one of the account is kept.
* `TailIsComplete`: a reader passes over no line of a part that is still there.

There is no lock between the threads, so the invariant `LogInv` has to say what keeps them apart.
`Shape` says it: what the thread of a run may be at (`JobFits`), how far its writer is by where the worker
has the run (`WriterFits`), how much its parts hold (`SaidFits`), and that the sweep is only at runs that
are over (`SweepFits`). From this no two threads share a part but of a run that
was abandoned, where the finalizer gave up and a writer goes on; the properties exclude such a run. On it rest:

* `SourceStays`: the source of a copy stays, and grows no more, until the thread that copied it removes it;
* `ArchivesFit`: an archive has every line of its part;
* `Ordered`: the order is strict and total on the parts that are there or that a thread is at work
  with; a list that a thread made earlier may name parts that are gone, whose order still decides what it prunes;
* `NewestStays`: each part of that set is there, or a newer one is. A thread that reserved room for its
  own part and prunes others only drops older ones than that, and one that gave its own part up (`reserve = 0`)
  did so because a newer one is there. Together with `Counted` (what is listed is finite), this is
  why two threads that prune at a time, each by its own list, never lose the newest part;
* `ReaderFits`: a request that has listed the parts is at a part that is no earlier than its cursor, and whatever lies
  between the parts it saw is gone or empty.

A step is either part of a compression or `Aloof`, of which it is shown once that it preserves each of these.

**LegacyImportProofs.** All safety properties of `FarmConfiguration` and `LegacyImport`, of the two
together, for any accounts, archives, drafts, edits and imports, from `ConfigurationAssumption` and
`ImportAssumption` (an archive is what the parser lets through, and has finitely many accounts and states):

* `ImportTypeCorrect`: the types, and that no account refers to a preset that is gone.
* `RunningStaysLaunchable`: whoever is to run is active, has a credential and has channels.
* `ChangesReachRunning`: nobody goes on to run with another configuration without being asked to restart.
* `SeedsStayTheirs`: an imported session stays with its user.
* `UIDataStays`: an import leaves alone what the control room has made or changed.
* `ImportsAsPreviewed`: an import writes what the preview showed.
* `SecondImportIsNothing`: an identical import of an untouched database has nothing to do.

The second, third and fourth follow from one description of a step, shown once for each service, each
request and the import: whoever runs afterwards ran before and `Stays` (the row, and what it
takes its channels from), or is asked and can be launched (`Informs`); a session stays with its name (`SeedsStay`).

The other properties compare an import with what was true earlier, so the invariant `ImportInv` has to
carry that along:

* `FarmShape`: names of presets are distinct and ids are given out in turn (`Numbered`), so that an id in an old
  ledger is never that of a new preset; there are finitely many accounts, so that a count of zero in a
  snapshot means that no account selects the preset.
* `OursAreKnown`: what the control room has made or changed is either not in the ledger's
  power or has been logged since the last import. A TV login is the exception: `request_tv_authentication`
  writes no log entry that revokes ownership, and what protects the account is that no archive holds
  its credential, so the row never equals the ledger's. That such accounts are active keeps them from being taken for the
  inert shells of the migration.
* `DraftsFit`: a draft whose baseline names the present number of imports was made with the present ledger,
  and what its preview lists is what its *own* baseline calls for (`Shows`). It says nothing of the database as it is now:
  only the comparison at the confirmation does, and `ImportFollows` shows that the rows in the snapshot
  then determine the whole import.
* `Mirrored`: after an import, until the control room changes something, the database is as the archive has it and
  nothing else is owned, which is what an empty plan takes (`MirroredIsNoOp`).

**Only model-checked.** All liveness properties (`Converges`, `ShownSettles`,
`ChannelsConverge`, `CommandsEnd`, `EarnedIsClaimed`, `StalledIsLeft`, `LoginSettles`, `PendingIsRetried`,
`LimitIsRestored`), since reasoning with `ENABLED` and fairness is beyond the prover. Every safety property that
a passing run checks is also a theorem.

## 5. Disagreements between the code and what is said of it

Each of the first four is a run that TLC refutes, with a trace from the initial state.

* `newer_request`: `_fail_authentication` writes desired state `stopped` over a
  newer request to run, whose command is then cancelled.
* `crash_unrecovered`: a child that Twitch accepted and that crashed before its
  event was read is taken for a refused login: the account is turned off, and no
  incident is opened.
* `restart_dropped`: a `start` queued after a `restart` cancels the restart and
  then does nothing, since the old child is alive.
* `shown_degraded`: an authentication that cannot stop a confirmed child leaves it shown as degraded for
  ever: `stop_account` has written `degraded`; unlike `restart_account`, the handler of
  `authenticate_account` (`controller/miner_supervisor.py:910`) does not restore it, and no later
  pass writes the observed state of a confirmed child. `docs/bot-feature-map.md:92` says
  that reconciliation goes on until the states converge. What does hold is `ShownSettles`.

Met while modelling, and not expressed as runs:

* A launch that was rolled back keeps its child in a handle to be cleaned up. If a command then
  stops that child but cannot write the end of its run, the next health pass ends the run
  as a failed start: `check_health` (`controller/miner_supervisor.py:2811`) looks at
  `cleanup_required` before `pending_stop_reason`, although the comment a few lines below says
  of such a handle "Retry that exact planned reason; never reinterpret the retained dead handle
  as a crash" (2823). It takes three failures in a row; `PlannedEndStands` excepts such a handle, and
  the attempt to prove it without the exception found the trace.
* The same may come of a failed `stop` command: if a new `start` arrives before the next health
  pass, it adopts the child and leaves it shown as `degraded`. `Underrated` has this case.
* `docs/bot-feature-map.md:159` says that a stale preview applies nothing. What an
  import *writes* is always what its preview showed (`AppliedAsReviewed`), but not whom it
  *stops*: an account outside the archive that takes the defaults is not in
  `_database_snapshot` (`controller/legacy_import.py:2012`); started after the preview, it is
  stopped by the confirmation although the preview did not list it. In terms of the model,
  `running \ running' \subseteq drafts[d].preview.stopped` fails in six states.
* A preview that showed a username conflict can be applied after the control room has
  renamed the other account: the key of an account that only has a state is its
  username, and the snapshot collects usernames from `payload.accounts` alone
  (`controller/legacy_import.py:2035`). `AppliedAsReviewed` excepts previews with conflicts.
* "This Twitch username is already managed" (`controller/services.py:266`) does not hold of an
  import that *updates* an account: `_build_diff_plan` compares the username only of
  new accounts (`controller/legacy_import.py:1665`), so two active accounts may share one.
* An import that replaces the defaults neither refreshes the fingerprints nor raises
  the revisions of the accounts that take them, as `update_farm_configuration` does.
* `DropsMiner.step` lets channels without progress take turns, but with three such
  channels the third is never tried: the cooldown is `STALL_INTERVAL`, so the first is
  eligible again when the second is given up (`controller/twitch_miner/engine.py:302`).
  `StalledIsLeft` says what does hold, that each one is left.

* A child that crashes between the poll and the signals of `stop_account` has its crash
  recorded as the planned stop; the comment at `controller/miner_supervisor.py:1703`
  says an accident must not be rewritten "because detection raced a command". The model
  has the code's behaviour.
* `README.md:251` says each account keeps at most 50 MiB of published parts. Two
  threads that prune at a time may both publish and exceed that; the next sweep
  restores it (`LimitIsRestored`).
* When a finalizer gives up on a run (`controller/miner_supervisor.py:1009`), the log
  says it is "left for startup recovery"; in fact the next periodic sweep compresses
  and removes the part that is still being written, and later lines of it are lost.
  The properties of `LogArchive` exclude such a run while it is in that state.
* A prune in another thread may remove the directory of a run between two of its parts
  (`controller/runtime_logs.py:220`); its writer then cannot open the next part and is silent
  for the rest of the run.
* Temporary files of a worker that died while compressing are never removed (`litter`).
* `docs/bot-feature-map.md:114` says of `stopped` that no child is owned. A restart
  that fails after the account was asked to stop writes `stopped` while the old
  child is still alive, until the next health pass stops it; or, if a new `start` is
  carried out first and adopts the child, for as long as the child lives (with four
  commands TLC finds such a state). `Underrated` has this case too.
* `docs/bot-feature-map.md:138` says an exit is accidental only while the desired
  state is `running`. `stop_account` records the exit of a child it finds dead as
  an accident whatever the desired state is (`record_when_stopped`).
* An error of `stop_account` inside the health or reconcile pass leaves `run_once`
  and ends the worker, while the comments there rely on a later pass of the same
  worker. The model has the code's behaviour; the new worker then repairs it.
* A `startup` that fails releases the lease before `shutdown` stops the children it
  had started (`controller/miner_supervisor.py:553`).
* A second request to connect hides the activation code for good.
  `request_tv_authentication` clears the code that is shown (`controller/services.py:398`) and
  then joins the command under way, whose child goes on polling for that code and does not
  report it again. The account is shown as `unlinked` until the deadline, while the
  confirmation in `frontend/src/pages/accounts.tsx:1107` promises a new activation code. TLC
  refutes "an idle worker with a polling child shows its code" in `DeviceLogin`;
  what does hold is `LoginSettles`.
* A reconnection whose launch snapshot fails leaves the old child mining and the
  account shown as `unlinked`: `request_tv_authentication` has cleared the login fields, and the
  error (`controller/miner_supervisor.py:877`) comes before anything is restored.
  `LoginSettles` excepts a request that is reported as failed.

## 6. Not modelled, and the plan

| Part | Why not | Planned |
|---|---|---|
| Watching telemetry | what the channels page shows of a child; decides nothing | — |
| Login and supervision in one instance | the supervisor without the login fields is as large as a run allows | `DeviceLogin` as a refinement of its own, if an abstract worker proves enough |
| Worker lease | two workers at a time double the supervisor's state; the lease alone has no children to lose | only if an abstract worker proves enough |
| Several campaigns, points, account linking | each repeats the loop that is modelled, or changes no state of it | — |
| Reading ZIP, YAML, JSON and cookies | parsing; its guarantees are `Payload` | — |
| History pages, downloads, combined log | they only read | — |
| HTTP parsing, rendering, admin, browser | no durable state of their own | — |
| Encryption, Twitch's servers, Django | libraries and services | modelled by their use |

Of the proofs none of the safety properties is left; liveness stays with TLC (section 4). The number
of runs is kept small: the runs of section 5 are the first to be merged or dropped when a module above needs one.
