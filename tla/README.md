# Verification of ceph-aiops

TLA+ models of ceph-aiops (`ceph_aiops/`), the TLC runs that check them and the
TLAPS proofs about them. ceph-aiops is a command line and an MCP server that let
an operator or an agent read and change a Ceph cluster through the ceph-mgr
Dashboard's REST API. What makes it more than a REST client is its governance
harness: every write is preceded by a committed audit intent, every call ends
with an audit row, reversible writes leave an undo token, and a budget, a runaway
guard and circuit breakers stop loops. Those promises are made across several
processes of one host that share a few SQLite files, and they have to survive
crashes, lost responses, full disks and each other. They are what is modelled.

## Inventory

| part | state | operations | talks to |
|---|---|---|---|
| governed call wrapper, `governance/decorators.py`, `outcome.py` | `_CallState` of each call: intent id, status, result | pre-check, begin write, run the tool, annotate, finalize | audit log, budget, patterns, undo store, the tool |
| audit log, `governance/audit.py` | `audit.db`, its archives, `audit.lock`; per process `_ok`, `_write_blocked` | `log`, `begin_write`, `finish_write`, `reconcile_pending`, rotation | every process of the host, through the file and the lock |
| error shaping, `mcp_server/_shared.py` | none | `tool_errors`: exception to payload, undetermined or not | between wrapper and tool |
| connection, `connection.py` | per process: the table of connections and each one's token, shared by its threads | connect, login, request with one retry after a 401 | the Dashboard API, the secret store |
| undo store and executor, `governance/undo.py`, `mcp_server/tools/undo.py` | `undo.db`: tokens and their status | `record`, `get`, `mark`, `undo_apply` | the wrapper records, the executor dispatches governed calls |
| budget, `governance/budget.py` | per process: calls, seconds, a window per fingerprint | `check_and_record`, `add_duration` | wrapper, at both ends of a call |
| patterns, `governance/patterns.py` | loaded patterns; per (pattern, target): arm times, failures, cooldown | `match`, `report_outcome`, reload | wrapper, at both ends of a call |
| cluster writes, `ops/osd.py`, `clusterops.py`, `pool.py`, `rbd.py` and their tools | the cluster's | read, guard, write; a descriptor of the inverse | connection; wrapper (undo) |
| secret store, `secretstore.py` | `secrets.enc`; per process a cached unlocked copy | unlock, set, delete, re-key, migrate `.env` | CLI, connection (password) |
| cluster reads, `ops/health.py`, `pg.py`, `filesystem.py`, `overview.py` | none | reshape JSON | connection |
| configuration and setup, `config.py`, `cli/init.py` | `config.yaml`, which each process reads once; its first target is the default | `init`, `load_config`, the choice of a target | secret store, connection, undo |
| entry points, `cli/`, `mcp_server/` | none | plumbing, prompts, registration | everything |

What is hard about each, and what would make it correct:

* **Calls and audit log.** Threads of a process and processes of a host interleave
  on one file; the file is renamed away when it is full, and ids restart at 1 in
  its successor; a process may die anywhere; SQLite may fail at any statement.
  Correct means: no write reaches the cluster without a committed intent; an
  intent stays where `finish_write` looks for it until it is resolved; it is
  resolved once, by its own call; the answer a caller gets agrees with the row;
  an unresolved intent is never silent; nobody waits for ever.
* **Connection.** A request may be applied although no response arrives, and even
  after its sender died; threads share a token that any of them may clear. Correct
  means: no outcome is asserted that is not known, a request that is tried again takes
  effect once, and a failure has its reason in something that happened.
* **Undo.** Looking a token up, applying its inverse and marking it are three
  steps with nothing held across them. Correct means: a token is consumed only by
  an inverse that landed, what the caller is told is true, and an undo reaches the
  cluster that the write reached.
* **Budget and patterns.** Counters and sliding windows under threads, checked at
  one end of a call and updated at the other. Correct means: ceilings and caps
  hold whatever overlaps, and a breaker that tripped stays open for its time.
* **Cluster writes.** Read-modify-write and check-then-act against a cluster that
  others change too; inverses computed from a prior state. Correct means: a write
  changes only what it was asked to, and its inverse restores what was there.
* **Secret store and configuration.** One file each, written as a whole by whoever
  changes anything; no lock, one temporary file for all processes, a cached copy in
  the server. Correct means: a save changes what it was asked to and nothing else, a
  crash leaves a store that opens, a migration gives its source up only when all of it
  is safe, and a target that was listed stays listed.

## Modules

| module | models | state |
|---|---|---|
| `AuditLog` | the storage of `governance/audit.py` | the file as a sequence of rows (a row is its call and its status; its id is its index), whether the table exists, the archives, and each process's `_ok` and `_write_blocked` |
| `GovernedCall` | `governed_tool`'s wrapper, `AuditEngine.log` step by step, `tool_errors`, `CephConnection.request`; composes `AuditLog` | `pc` and the fields of `_CallState` per call; the requests in flight, the changes the cluster applied; tokens; answers |
| `WriteAhead` | the promise: SECURITY.md's "Real writes first commit a pending audit intent" | per write: no intent, pending, closed; sent; changed |
| `UndoExecutor` | `undo_apply`, `UndoStore.record/get/mark` | token statuses; per request its `pc`, inverse and reply |
| `ReversibleWrites` | `osd_reweight`, `osd_mark_in`, `set_pool_pg_num`, `set_pool_autoscale`, `set_pool_quota`, `throttle_recovery`, and the replay of their tokens | two settings of the cluster; per call what it was asked, what it read, its next request, its token |
| `ClusterFlags` | `cluster_flag_set` and its inverse | the cluster's flags; per call its flag and the set it has read |
| `PoolGuards` | `set_pool_size` and `pool_delete` with `guard_pool_size` and `guard_delete_pool` | one pool: its size, whether its name or its application protects it; per call the request it makes next |
| `Budget` | `check_and_record` and `add_duration` | the clock; calls, seconds and windows; per call its stamp and its verdict |
| `Patterns`, extends `Budget` | `governance/patterns.py` behind the budget, as `_pre_check` and `_finalize` compose them | the pattern files with their mtimes; the patterns and mtimes in memory; per (pattern, target) the arm times, failures and cooldown; per call where its consult stands |
| `SecretStore` | `secretstore.py` and the commands of `cli/secret.py` and `cli/init.py` | `secrets.enc`, its temporary file, `.env`, `config.yaml`; per command its view of the store, its descriptor and the changes it has left |
| `Connection`, extends `SecretStore` | `connection.py`, `config.py`'s `_resolve_secret`, the server's threads | the server's cached store, the table of connections, each token; per request where it stands; the account and the tokens the Dashboard accepts |
| `UndoTarget` | the default target between `config.py`, `cli/init.py`, `ConnectionManager.connect` and `_origin_target` | the order of `config.yaml`, the copy each process holds; per call where it ran and what its token remembers |
| `MC...` | the same, with the symmetry sets for TLC | |
| `...Proofs` | the theorems: one module per component | |

### How GovernedCall follows the code

A call moves through `pc` as the wrapper moves through its `try`:
`check` (`_pre_check`), `begin` (`begin_write`, writes only), the guarded
section of `AuditEngine.log` (`rename`, `create`, `insert`), `run` (the tool
up to its mutating request), `sent` (the request is out), `annotate`
(`_annotate_result`, `_record_undo`), `finalize` (`_finalize`) and, for a read or
a preview, the guarded section again. `log` is split where another process or a
crash can get in between: the look for pending rows happens on entering the
guard, then the rename, then the creation of the new file, then the insert.
Each of those may fail, and the failure does what the code's `except` does: a
failed rotation is only logged; a failed strict insert latches the process and
refuses the write; a failed final insert loses the row; a failed
`finish_write` latches the process and replaces the caller's answer by
`AuditUnavailable`.

The lock is `audit.lock`'s `flock` where `fcntl` exists (`HostLock`), and the
module's `RLock` otherwise. `finish_write` and `reconcile_pending` do not take it,
and in the model they do not either. A crash releases the lock, ends every call of
the process and leaves its requests on the wire.

A write may end without a mutating request of its own (`ReturnUnsent`), and not only
by failing: `throttle_recovery` without values returns what it read, and `undo_apply`
reports an inverse that failed as `applied: False`, which is no error to the wrapper.

The connection is folded in: a request may not leave, be confirmed, be
rejected, or lose its response while it is applied before, after or never. The
error it then returns is the one the code returns. The retry after a 401 is inside `Rejected` and
`Confirmed`: a request answered 401 changed nothing, and its second sending is
the same request still in flight.

Choices the model leaves open: the budget's verdict, whether a tool has an
inverse, whether recording it works, what the cluster answers.

### How UndoExecutor follows the code

`lookup` is the call of `store.get` and the tests of what it returned;
`dispatch` and `sent` are the inverse's governed call, of which only the outcome
is kept (result, error payload, exception; landed or not); `returned` is the
moment between the inverse's return and `store.mark`. Each may be where the
process dies. Requests overlap freely, as they do between the MCP server and the
CLI. A token's parameters are not modelled; its target is in `UndoTarget`.

### How the modules of the cluster writes follow the code

Each request to the Dashboard is a step of its own, since anybody may change
the cluster between two of them. A request is refused or loses its response, in
which case the change may have been made. A read may fail, or be answered without a
usable body, which `request` turns into `{}`: the flags then look empty (`ReadBlank`),
a prior size or setting looks absent (`ReadPrior`, `ReadFails`). The token a finished call records
is what its undo callable (`_quota_undo`, `_flag_undo`, ...) computes, or none,
as recording is best-effort. A replay is the same tool's call with the token's
parameters.

`ReversibleWrites` gives every call one or two settings. `Batches` says how a tool
groups them into requests: the quotas of a pool go in one PUT, the recovery limits in
two POSTs, everything else is one setting. Python's `None` is one value: not
reported when read, left alone when written; a limit that cannot be read and one
that has its default both become `None`, as in `_conf_value`. `osd_mark_in` is
undone by `osd_mark_out`, which records nothing itself. The values a call's
requests replaced (`over`), what it set (`wrote`) and what somebody else set
since it began (`dirty`) are histories that only the properties read.

`PoolGuards` runs a guard twice, as the code does: the tool's ahead of its
preview, the operation's ahead of its write. `GuardProtection` is
`_protection_reason`: a protected name needs no request, and an application that
cannot be read counts as not protected. `GuardDirection` is `_current_pool_size`
and the comparison: a size that cannot be read is a lockout. `blind`, `stale` and
`clean` record which calls could not read, were overtaken, or saw one state of
the pool only.

`Budget` separates a call's timestamp from its check, because
`check_and_record` takes the one before it waits for the lock of the other; a
call may run inside another, which is one more overlap. `_finalize` reaches
`add_duration` for stopped calls too. `jumbled` records the calls that were checked
after one of theirs with a later stamp.

### How Patterns follows the code

A call that the budget admits goes on to `_maybe_reload` (`glance`), which runs outside
the lock: it compares the mtimes, and if they differ reads the files, installs the
patterns (`install`) and then the mtimes (`settle`). A file that cannot be stamped is
none to the reload; one that is stamped and then cannot be read keeps its mtime and
yields no pattern, and `missed` (a history) says which those were; a comparison that
fails leaves everything as it is. The engine's first load fails in the same ways. Edits and other calls' reloads may
come between any two of these. `choose` takes the armable patterns from what is
loaded by then, `arm` is the part under the lock: breaker, hourly cap, daily cap,
arming. `Report` is `_finalize` of an armed call, `add_duration` and `report_outcome`
together, since they touch different state. A pattern that was unloaded in between
reports against the default threshold and cooldown. A pattern is its id, whether it
is valid and granted, its expiry and its caps; the clock that stamps files, calls
and arms is one. `log` keeps all reports, which the code does not, and `blurred` that
two reloads overlapped or a file was written twice in one instant.

### How SecretStore and Connection follow the code

A command unlocks the store once (`Unlock`) and then changes its own view and writes
the whole of it, change by change: `Open` truncates the temporary file, `Write` writes
it, `Replace` renames it. What a descriptor refers to (`fd`) follows the renames, so a
command whose temporary file somebody else has renamed goes on writing into the store
itself. `init` writes `config.yaml` after each target, by truncating it; `migrate` renames
`.env` in the end. Any step may be the last (`Stop`, `WriteStops`). Encryption is
modelled by what it does: a store opens with its key and with no other, and a mixed or
truncated file does not open. `own`, `moved`, `good`, `imported`, `listed` and `marred` are
histories.

`Connection` adds the server's threads. A request looks its connection up, creates it
if it is missing, builds its header, logs in when there is no token, is sent, and on a
401 clears the token and does so once more: each is a step, and the token is looked at
again where the code reads `self._token` again. `Password` is `_resolve_secret` with
`open_store`'s cache; the store may be unreadable just then, which `unlock` reports as
it reports a missing secret. A login may be answered 2xx without a token
(`LoginBlank`), which leaves the connection with none, with an empty string, or with
what it had. The account's password and the tokens' validity change beside it.

### How UndoTarget follows the code

`init` moves a target that it overwrites to the end of the list; a process keeps the
list it has read; a call without a target goes to the first of the list it goes by, and
its token keeps that no target was given. A replay goes where its caller says, or else
where the token says, or else to the first. It has no passing run: what it shows is one
departure. What is left of the promise (`ReplayGoesHomeUnlessMoved`) is proved.

## Runs

| run | instance | shows |
|---|---|---|
| `GovernedCall` | 2 processes (one a CLI), 2 calls of any kind | `Inductive` (the proofs' invariant), `NoEffectWithoutIntent`, `OrphanIsReported`, `TokenImpliesEffect`, `OkRowIsConfirmed`, `AnswerIsAudited`, and `WriteAhead` as a refinement |
| `GovernedCallRotation` | 1 process, 3 writes or reads | `IntentIsOwnRow`, `ResolvedIsFinal` across two rotations and a pruned archive |
| `GovernedCallLiveness` | 2 processes, 2 writes, fairness | `EveryCallEnds`, `IntentIsResolved`: the calls meet at the rotation lock, and a crash in it keeps nobody waiting |
| `GovernedCallInterrupted` | 1 CLI process, 1 write | violated: an interrupted write is audited `ok` |
| `UndoExecutor` | 3 requests, 3 tokens | `Inductive`, `MarkedMeansLanded`, `AppliedReplyIsTrue`, `LateRequestsAreRefused` |
| `UndoExecutorTwice` | 2 requests, 2 tokens | violated: one token is applied twice |
| `UndoTarget` | 2 targets, 2 processes, 2 calls, 1 run of `init` | violated: an undo reaches another cluster than its write |
| `ReversibleWrites` | 2 calls of one family of tools (single settings with `osd_mark_in`; the quota tool; the throttle), 1 change by others | `InverseRestores`, `UndisturbedTokenIsPreState`, `FailureLeavesAPrefix`: what half a call leaves behind and what its inverse puts back |
| `ClusterFlags` | 3 calls over 2 flags, 1 change by others | `LossNeedsAnOverlap`, `RealChangeIsUndone` |
| `PoolGuards` | 2 calls, 3 sizes, 2 changes by others | `DeletionIsGuarded`, `ReductionNeedsARace`, `PreviewAgrees` |
| `Patterns` | up to 4 calls under a ceiling of 3, one pattern file with three contents whose reads may fail, 3 instants | `CapsHold`, `BreakerIsExact`, `MemoryIsDisk` of the patterns; `RunawayIsExact`, `CeilingCountsAdmitted` of the budget before them |
| `Connection` | 2 commands, 2 requests, or one of each; 2 targets, passwords and keys; 1 expiry or password change | `WritesAreOwn`, `DamageNeedsCollision`, `MigrationIsOnce`, `TargetsAreKept` of the files; `RequestLandsOnce`, `UnauthorizedIsEarned`, `RefusalIsStale` of the requests |

Each passing run but the liveness one and the rotation one also checks its module's type
invariant (it is a conjunct of `Inductive` where that is checked).

**Bounds.** `RotateAt = 1` makes the file full after one row, so that with two
calls a rotation meets a pending row, an empty file and a crashed rotation, and
with three calls ids restart twice; `MaxArchives = 1` makes the second rotation
prune. A call is made once; processes crash and restart without bound. Two calls
are what every hazard of the rotation needs (one rotating, one with an intent);
the third call is what a second rotation needs. The liveness run has no CLI process, so
no interrupts, which only shorten a call.

The calls of the cluster writes are two because a hazard is one call (or replay)
and one that overlaps it; a flag needs a third, the replay of a call that
another overlapped. `MaxOthers` bounds what others do: one change overtakes a
call, a second one lets them put it back. A token is replayed at most once in these
modules; that one is tried again after a lost or refused inverse is what `UndoExecutor`
is about. With two calls, `ReversibleWrites` has no room for the inverse of an inverse:
`InversesRestore` covers it, the run does not. Replica counts up to 3 give a prior
size, a reduction and an increase.

In `Patterns`, `MaxEvents = 4` allows four calls, three and one edit, two and two, and
so on. Three calls exceed an hourly cap of 1, a daily cap of 2, a threshold of 2 and
`RunawayMax = 2`, and a fourth meets the ceiling of `MaxCalls = 3`; with `MaxTime = 2` an
hour of 1, a window of 1, a cooldown of 1 and a day of 2 all pass, and `MaxSeconds = 2`
is reached. The pattern
file can be revoked, given caps, given an expiry or removed. There is one file, so two
files that claim one id, or come in some order, are not exercised by the run.

In `Connection`, `MaxActors = 2` counts commands and requests together: a lost update, a
collision on the temporary file, a repeated migration and a race for a token each take two.
The server may hold an old connection, token and store from the start, so that what
would need a third actor is an initial state. Any lookup of a password may meet an
unreadable store and any login may bring no token; neither is counted. `MaxEvents = 1` is one token that expires
or one changed password; since a held token may have expired before the run begins, a
request may be answered 401 twice.

Deadlock is not checked in any run: when all calls have ended and nothing is left to
reconcile, to edit or to write, the system rests.

**Symmetry** is over the calls, and further over tokens and requests (`UndoExecutor`),
flags (`ClusterFlags`), commands, targets, master passwords and requests (`Connection`)
and targets (`UndoTarget`), which no definition tells apart: a set that a definition
enumerates in an order, as the files of `Patterns` or the settings of
`ReversibleWrites`, is none of them. The liveness run uses none, as it is not sound for
leads-to.

**Fairness** is weak fairness of a call's own steps, one condition per call: the
thread runs, SQLite gives up after `_BUSY_TIMEOUT_MS`, httpx after its read
timeout. A call waiting at the rotation lock needs no more, as the other calls
are finitely many and each passes the guard twice at most. Nothing is assumed of
starts, crashes, interrupts, the cluster or the operator.

## Where the code departs from its texts

Three departures have a run of their own:

* `_finalize` decides by `status` and `result`, and an interrupt leaves them at
  `"ok"` and `None` (`decorators.py:409`): an interrupted CLI write is audited
  `ok`. `OkRowIsConfirmed` says what remains true.
* `undo_apply` does not claim a token before it dispatches its inverse
  (`tools/undo.py:135`), so two requests apply one token. `LateRequestsAreRefused`
  says what remains true.
* A write on the default target records no target, and its undo goes to what is the
  default by then (`tools/undo.py:113`), where `CHANGELOG.md:129` promises the target the
  write ran on. `init` changes the default by moving an overwritten target to the end
  (`cli/init.py:64`).

Others were met while looking for the strongest property that holds; the property
named is that one, and its condition is the departure:

* A write whose response is lost is audited `error`: `CephConnection.request` turns
  every `httpx.HTTPError` into `CephApiError` (`connection.py:129`), which
  `tool_errors` does not take for an undetermined outcome (`_shared.py:43`).
* `undo apply` exits 0 for a refused inverse: the nested error passes the CLI's
  `checked` (`cli/undo.py:69`, `cli/_common.py:91`).
* A throttle whose second POST is refused has set the first limit, records no
  inverse (`decorators.py:362`: "no change happened"), and reports an error
  (`FailureLeavesAPrefix`).
* `throttle_recovery` without values sets nothing and still leaves an undo token, whose
  replay sets both limits to what they were (`ops/clusterops.py:174`,
  `tools/clusterops.py:16`); and `undo_apply` is audited `ok` although its inverse failed
  (`tools/undo.py:189`). `TokenImpliesEffect` and `OkRowIsConfirmed` allow a call that sent
  nothing and returned normally.
* A setting whose prior value was not reported stays changed after the undo
  (`tools/clusterops.py:22`; `InverseRestores` is about what the call could read).
* Of two overlapping calls, the later token holds a value that its write did not
  replace (`ops/osd.py:144`; `UndisturbedTokenIsPreState`).
* Undoing a `cluster_flag_set` that changed nothing toggles the flag
  (`tools/osd.py:18`; `RealChangeIsUndone`), and setting one flag puts back what
  another one was at the time of the read (`ops/osd.py:129`). If that read is answered 2xx
  without a usable body, it counts as no flags at all (`connection.py:144`,
  `ops/osd.py:123`), and the PUT clears every flag but the call's own with nobody else
  involved (`LossNeedsAnOverlap` counts such a read with the overlaps).
* A protected pool can shrink when it was resized between the guard's read and
  the PUT (`ops/pool.py:208`; `ReductionNeedsARace`).
* The inverse of a raise on a protected pool is a reduction, which the guard
  refuses whenever it is replayed (`tools/pool.py:58`).
* One identical call too many is admitted when two are checked in the other order than
  they were stamped (`budget.py:117`; `RunawayIsExact` excludes them).
* Two reloads that overlap can leave patterns in memory that are no longer on disk
  while the mtimes agree, so that a revoked pattern stays armed until the next edit
  (`patterns.py:156`; `MemoryIsDisk` excludes them, and two edits of one instant).
* A reload takes a file's mtime before it opens it and skips what it cannot read
  (`patterns.py:143`, `:153`): after one failing read the pattern is out of memory until
  somebody writes the file again (the `missed` of `MemoryIsDisk`).
* The server goes on with the store that it unlocked first: a password that was set
  since, or the master password's rotation, is not seen until it restarts
  (`secretstore.py:247`; `RefusalIsStale`).
* A store that cannot be read is passed over for the plaintext variable without a word,
  while a wrong master password is an error (`secretstore.py:149`, `config.py:59`, `:66`): a
  login may be refused although the store has the account's password
  (`RefusalIsStale` names that reason too).
* Two processes that save at once share `secrets.enc.tmp` (`secretstore.py:232`): one may
  rename what the other has just truncated or half written, which makes the store
  unreadable, or the other's content, while it reports its own change as saved
  (`DamageNeedsCollision`, `WritesAreOwn`). Then a migration can also give `.env` up
  although one of its passwords never reached a store that opens.
* Without such a collision, the later of two overlapping commands still writes back the
  store as it was when it unlocked: the other's secret is lost, a rotation of the
  master password is reverted (`secretstore.py:196`; the `moved` of `WritesAreOwn`).
* A migration that stops before it renames `.env` imports again when it is repeated, over
  passwords that were changed meanwhile (`secretstore.py:302`); so does one of two
  migrations that overlap. `MigrationIsOnce` sets both apart (`"env"` in `marred`).
* `config.yaml` is truncated and rewritten in place: a crash in between leaves no
  target, and the next `init` lists only its own; two overlapping `init`s lose a target
  (`cli/init.py:34`; `TargetsAreKept`).
* One thread's 401 clears a token that another has just logged in with, whose own
  retry then fails as unauthorized, or whose login is reported to have "returned no
  token" (`connection.py:107`, `:137`; `UnauthorizedIsEarned`).

And some are visible in the code but no property is about them:

* A call that names the default target and one that leaves it out have separate
  counters in the pattern engine (`patterns.py:279`), so together they may be armed twice as
  often as the caps say.
* A call that is armed and whose audit intent is then refused has used up an arm; an
  interrupted one is reported to the breaker as a success (the `status` of the first
  departure).
* A login answered with an empty token leaves `""`, which is not `None`: the next request
  is sent with it instead of logging in, and only its 401 clears it (`connection.py:104`,
  `:115`). The model has it in `LoginBlank`.
* The login's network errors are raw `httpx` errors, since only `request`'s own send is
  wrapped (`connection.py:94`, `:128`).
* Two threads that create a target's connection at once leave one of them unclosed
  (`Create`: the later one stays in the table).
* `scrub_status`'s fallback lists only the first overdue group of each kind
  (`ops/pg.py:183`: after the first, the list is no longer empty).

## Proofs

`tlapm M.tla` for each of the eight proof modules proves, for any sets of processes,
calls, tokens, requests, flags, settings, files, targets and any bounds:

**`GovernedCallProofs`**

* `TypeCorrect`, `IntentBeforeEffect`, `History`: types, "no effect without a
  committed intent" and "a resolved row is final". None of them needs the
  rotation lock, so they hold on Windows as well. `IntentBeforeEffect` follows
  from `IntentComesFirst`, which says where in the wrapper a call has its intent.
* `Safety`, under `HostLock`: `Inductive`. The chain is: the lock admits one call
  to the guarded section (`LockIsExclusive`); so between the look for pending
  rows and the rename no intent is inserted, and `finish_write`, which needs no
  lock, can only remove one (`RenameIsSafe`); so a rename never takes a pending row
  along (`NoPendingArchived`) and a running call's row stays at its id
  (`IntentIsOwnRow`); so a pending row names the call whose intent it is
  (`PendingIsOwned`). None of these is inductive without the ones before it.
* `IntentsStay`, `PendingStaysInReach`: two of its parts as theorems.
* `WriteAheadCorrect`, under `HostLock`: every step of `GovernedCall` is a step of
  `WriteAhead` or a stutter, with an intent's abstract state read off `audit.db`.
* `TokensAreEarned`: an undo token is of a write that took effect, or that returned
  normally and sent nothing (`Vouched`). It needs no lock.
* `OkRowsAreTrue`, `OrphansAreReported`, `AnswersAreAudited`, under `HostLock`: an `ok`
  row was confirmed or vouched for in the same way (or interrupted), an ended call's pending row was reported, an
  answer agrees with its row. They rest on what a call knows at each `pc` of what
  the cluster did (`Outcomes`) and on `RowsAreTrue`, which carries that into the rows that
  the call has left behind; both rest on `Inductive`, as a row is found by its id.

**`UndoExecutorProofs`**

* `UndoSafety` and its consequences `MarksAreEarned`, `RepliesAreTrue`,
  `LateRequestsLandNothing`, `PreviewsAreInert`: an inverse in flight or
  landed is a real request's whose token was still `recorded` when it began, a
  request past its inverse has landed it, and an idle request has done nothing.

**`ClusterFlagsProofs`**

* `TypeCorrect`, and `LossesNeedOverlaps`: what a call that is about to write has
  read differs from the flags only where somebody has moved them since, or where its read
  came back blank (`SeenButForMoves`), and what it writes back differs from what it has read only
  in its own flag (`WantedIsSeen`). A replay does not count its original among those
  it overtakes; that is sound because the original has ended (`TokensAreOfEnded`).
* `RealChangesAreUndone`: while nobody touches the flag of a call that succeeded,
  the flag is as the call set it, and the other way round after a successful replay
  (`FlagsAreSettled`); that needs that a replay is its origin's only one and its
  exact opposite (`ReplaysArePaired`).

**`ReversibleWritesProofs`**

* `ReversibleTypeCorrect`, `FailuresLeavePrefixes`, `TokensArePreStates`,
  `InversesRestore`. The first two come from `InProgress`, which ties what a call has set to
  the number of requests it has sent; the others from `Kept`: where nobody else has
  touched a setting since a call began, what its request replaced, or is still to
  replace, is what it has read (`Faithful`); and a replay, whose origin has ended, has
  put back what the origin read wherever it has got to (`Replays`).

**`PoolGuardsProofs`**

* `PoolTypeCorrect`, `DeletionGuard`, `ReductionGuard`: a call that is past a guard suits the
  pool as it is, unless the pool has changed since or none of the call's looks at the
  application was answered; and no call gets past to delete a pool that its name
  protects (`Vetted`).
* `PreviewsAgree`: the invariant `Consistent` keeps the pool's past version by version, so that the
  reads of a call that saw one version only are all of that version (`Told`).

**`PatternsProofs`**

* `CeilingHolds`: the counter is the cardinality of the admitted calls (`CeilingInv`). It
  needs `CallsAreFinite`.
* `PatternsImplementBudget`: every step of `Patterns` is a step of `Budget` or leaves it
  alone; hence `CeilingHoldsWithPatterns`.
* `BreakerHolds`: `fails` is the length of the run of failures at the log's end
  (`Counted`), and `disabled_until` is the end of the cooldown that the last tripping report
  began (`Held`).
* `RunawayGuardIsExact`, and with the patterns behind the budget
  `RunawayGuardIsExactWithPatterns`: each entry of a window is the stamp of an admitted
  call of its own (`Entered`), an admitted call without an entry was too old for one that
  has been checked (`Missing`), and while the calls are checked in the order of their
  stamps the window ascends; so popping the old ones off its front leaves exactly those
  still inside.
* `CapsAreHeld`: each timestamp kept for a pattern and a target is the arm time of an
  armed call, and nobody who was armed within the day is missing (`Placed`). The code
  counts them over a list filtered by age; `WithinPicks` says what the filter `Within`
  leaves. That is an induction over the list's length, by way of the least number at which
  a claim fails (`NatSetInduction`).
* `PatternsTyped`: the type invariant, with the windows and the timestamps.
* `MemoryFollows`: the mtimes a reload took are of the contents it read, and a version
  whose mtime is known is the one in memory (`Version`, `Fresh`), which is what fails once
  two reloads overlap. What a failing read does is in both: a file that was not seen has
  no mtime to agree (`LessIsAVersion`), one that was not read is in `missed`.

**`UndoTargetProofs`**

* `ReplaysGoHomeUnlessMoved`, if `None` is no target: what the broken promise leaves standing.
  A replay goes to the target its caller names, and otherwise to its original's, if its token
  remembers a target or `init` has not run. A call that was sent went where its target says
  (`Addressed`), and a replay's target is its caller's or its token's (`Paired`).

**`ConnectionProofs`**

* `ServerLeavesTheStore`: every step of `Connection` is a step of `SecretStore` or leaves it
  alone.
* `DamageTakesTwo`, `TargetsStay`: while no two commands have saved at once, the
  temporary file is the saving command's own (`Alone`), and `config.yaml` is what was listed
  or is being rewritten by the only `init` (`Listing`).
* `LostUpdateTakesTwo` (`WritesAreOwn`): while no two commands have saved at once, a
  command's view differs from the store only in what it or somebody since its unlock has
  changed (`Account`); and always, every content that may become the store differs from the
  last readable one only in what some command has changed (`Known`).
* `MigrationImportsOnce` (`MigrationIsOnce`): a migration has imported what it has changed
  and has the rest of `.env` left (`Importing`); while none has stopped or overlapped
  another, there is at most one as long as `.env` is there, and what was imported is
  still in the store or was changed since that one unlocked it (`Once`).
* `RequestsLandOnce`, `UnauthorizedMeansUpset`, `RefusedMeansStale`: a request that may
  still be sent has not landed (`Landing`); one on its second try holds a valid token
  unless it was upset (`Undisturbed`); one that is not counted as stale logs in with the
  account's password (`Informed`).
* `ConnectionTyped`: the type invariant. Its bound on the tokens is what needs an argument: a
  request logs in once before its retry and once after it (`Attempts`), so there are
  at most two tokens per request and the one from before (`Numbered`). It needs `RequestsAreFinite`.

The assumptions are those named in the modules: `RotateAt` and `MaxArchives` are
positive, the sets are what their names say, the values that mean "nothing"
(`None`, `Absent`, `NoToken`) are none of the real ones, the contents that a file can have
are told apart (`FilesDiffer`), the sets that are counted are finite (`CallsAreFinite`,
`RequestsAreFinite`, `CommandsAreFinite`) and, where stated, `HostLock`.

Only model-checked are the two liveness properties, `EveryCallEnds` and
`IntentIsResolved`, which are out of the prover's reach, and the three runs that find a
promise broken. Every other property of a run is a theorem.

## Not modelled, and limits

* Interrupts are modelled in `begin`, `run` and `sent`, not inside a SQLite call.
* `reconcile_pending` is modelled as its docstring demands it be used: only for a
  call that has ended.
* An answer outside 2xx means that the request changed nothing. A 5xx after an effect
  is not modelled; `_shared.py:39` makes the same assumption.
* A listing of the patterns directory that fails, or that misses a file, is not modelled
  apart from the stamps of the files in it.
* The archive's name has a resolution of one second; two rotations within one
  second are taken not to happen.
* Cluster writes of one request that record no inverse and have no guard
  (`pool_create`, `osd_purge`, scrubs, the `rbd` tools) are not modelled: beyond the
  governed call around them nothing can go wrong in their order.
* A request whose response was lost and that the cluster applies later counts as a
  change by somebody else in `ReversibleWrites`, `ClusterFlags` and `PoolGuards`.
* The budget's limits are read from the environment at every check; in the model they
  do not change.
* Of the patterns, matching by skill and tool is left out: every file names the tool
  that the calls are of. A reload reads the files at one instant; an edit between two
  files of one reload is compared by mtime like any other.
* In `SecretStore`, `config.yaml` is a set of targets; their order, and with it the default
  target, is in `UndoTarget`, where all writes succeed, as only the target matters there.
* The threads of the server are a premise about the MCP library, which runs
  synchronous tools in worker threads. A server that ran them one at a time would show
  none of the overlaps of its own requests; those between processes would remain.
* The store's salt and key derivation, file modes and `check_permissions`, the schema migration
  of `undo.db`, `doctor` and the query helpers of the audit log only read, or
  change nothing that another step depends on.
* Cluster reads, configuration parsing, prompts, string cleaning and argument
  plumbing keep no state that a later step depends on.

## Plan

1. Done: the write path (`AuditLog`, `GovernedCall`, `WriteAhead`), the undo executor and
   its targets, the cluster writes with their inverses and guards, the budget with the
   patterns behind it, the secret store with the connection on top, each with its
   runs; proofs of all their safety properties.
2. Next: a second pattern file in the `Patterns` run, for ids that two files claim.
3. The undo executor against an abstract promise, as the governed call has one in
   `WriteAhead`.
