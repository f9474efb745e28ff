# Verification of fastclaw

TLA+ models of `fastclaw`, model-checked with TLC, and proofs checked by TLAPS. Paths are relative to the Python
package `src/src/fastclaw` unless they begin with `src/`. `PROJECT.json` maps every definition to its lines.

## 1. The system

`fastclaw` is one process on one asyncio event loop: an HTTP gateway runs agents, agents call tools and delegate
to other agents, some tools live in plugin processes, state is in a SQL database.

| Component | State it keeps | Operations | Hard behaviour | Correct when | Module |
|---|---|---|---|---|---|
| task queue `orchestration/queue.py` | jobs by dedup key, a deque and a worker per agent, executions, semaphore, tickets, history | `submit`, `result`, `release`, `cancel_root`, `shutdown`, `_drain`, `_execute`, `_finish` | cancellation at every suspension point, lost wake-ups, shutdown | one task at a time per agent; no job lost, run twice or left without waiters; outcomes final and told truthfully | TaskQueue |
| message bus `orchestration/bus.py`, `tool.py` | handlers, wait graph with counts | `request`, `batch`, `unregister`, `cancel_root`, `shutdown` | circular waits, structured cancellation, leaked edges | the graph counts the waits; no orphans; nothing is asked for a dead root | Delegation |
| plugin host `plugin/process.py`, `plugin/manager.py` | processes, pending calls, enabled flag, restart lock | `call`, `execute`, `configure`, `_restart`, `stop` | crashes, hangs, timeouts, restart races | one process; no call replayed; calls end; nothing runs after the stop | PluginHost |
| agent manager `agent/manager.py` | profiles, roots by agent, streams and their events | `stream`, `aclose`, `detach`, `cancel_agent_roots`, `reload_profile(s)`, `start`, `stop` | checks that go stale across an await, streams closed early | roots are tracked while they run; archived agents run nothing | RunStream, AgentTeams, RuntimeLifecycle |
| agent runner `agent/runner.py`, `normalizer.py` | a turn's history, the session row | `run`, rounds, saves, repair of a replayed history | rename or delete during a turn, calls without results | each call replayed has its result; an answered turn is kept | TurnSessions |
| providers `providers/` | partial message of a stream, HTTP response | `stream`, `aclose`, accumulation | a reader that leaves between two chunks | the response is closed; an answer was saved | RunStream |
| runtime, application `runtime.py`, `app.py` | resources, exit stack | `start`, `stop` | partial failure, cancelled start, errors while stopping | what was started is stopped once, users before what they use | RuntimeLifecycle |
| teams `teams.py`, team handlers of `gateway/router.py` | team, member and agent rows | create, add, patch, rename, archive, restore, delete | overlapping requests, retries with a request id | foreign keys and uniqueness survive; a specialist remains | AgentTeams |
| gateway, identity `gateway/`, `identity.py` | users, web sessions, API keys, agents | onboard, login, act-as, administration of users, keys and agents | rows that change after a request authenticated | keys reach their owner's agents; one founder | GatewayIdentity |
| providers' settings, credentials `credentials.py` | encrypted rows at three scopes, master key file | save, update, delete, encrypt, choose | whole-row writes, two creators of the key file, crash | stored keys open; runs use no foreign key | ProviderConfig |
| football tool `tools/football_*.py` | the payload being joined, a curl process | every action of `football_data` | sources that disagree, a call cancelled in a fetch | one fixture; complete means complete; no process left | FootballEvidence |
| finance-tools plugin `src/plugins/finance-tools/plugin.py` | ledger in SQLite; script cache in memory | thesis, watchlist, event and alert tools; script tools | stale versions, lost replies, dedupe windows; slow scripts | users' rows stay apart; episodes do not overlap; answers fresh | FinanceLedger, ScriptCache |
| migration `migration/` | target database, import record, copied files | `import-go`, copy of assets | Go runtime still writing, crash, rerun | whole imports of real states; copies are kept | GoImport |

Interaction: router → manager (`stream`) → bus → queue → runner → provider and tool registry → plugins and, by
`spawn_subagent`, the bus again; router and runner share rows through units of work; `app.py` starts and stops
all of it.

## 2. Modules

```
TicketService  <-- implemented by --  TaskQueue <-- TaskQueueProofs   MCTaskQueue     TaskQueue, TaskQueueLive
                                          ^              ^
                                      Delegation <-- DelegationProofs MCDelegation  DelegationTeam, ...Batch, ...Timed, ...Busy
PluginHost <---------------------------------------- PluginHostProofs MCPluginHost  PluginHost, PluginDeaf,
                                                                                                PluginDisabled, PluginHung
TurnSessions <-------------------------------------- SessionProofs          \
AgentTeams, ProviderConfig, GoImport <-------------- StoreProofs             |
RunStream, RuntimeLifecycle <----------------------- RuntimeProofs           +  MCServices  Services, ReplayedIds
ScriptCache, FootballEvidence, FinanceLedger <------ ToolProofs              |
GatewayIdentity <----------------------------------- GatewayIdentityProofs  /
```

**Steps.** Everything runs on one loop, and neither the queue nor the bus holds a lock across an await, so an uncontended
`async with lock` does not suspend. The code between two real suspension points is one action. A task cancelled
while suspended takes two steps, the request for cancellation and its resumption with `CancelledError`; others may run between them.
A handler over the database takes one step per unit of work: what it read may have changed when it writes, and
`save_*` writes the whole record (a merge, which inserts a row that is gone).

**TaskQueue**. A request is one `submit()` with its `result()` and `release()`; a job is named after the request that created it.

| Variable | Code |
|---|---|
| `call`, `callCancel` | where the caller of `submit`/`result` is; its task was cancelled and has not resumed |
| `state`, `fut`, `waiters`, `archive` | `_Job.state`, `.future`, `.waiters`, the status under which `_history` holds it |
| `jobs`, `deque` | `_jobs` (the key is in `KeyOf`), `_queues` |
| `fresh`, `serving` | workers that have not started; the job a started worker awaits |
| `exec`, `execCancel` | `_Job.execution`: not started, waiting for the semaphore, handed a slot, in its handler, in the cleanup of a cancelled handler, ended |
| `permits`, `semq` | `_semaphore`, with asyncio's FIFO hand-over |
| `closing` | `_closing`, and whether `shutdown()` has returned |

`SubmitNew/Attach/Full/Closed` are the branches of `submit`; `DeliverCancel` and `Return` the two ways out of `result()` with the
release that follows; `WorkerStart/Resume/Abort` the resumptions of `_drain` (with `_finish` and the search for the next job);
`Exec*`, `HandlerEnd`, `HandlerInterrupted`, `Cleanup` the life of `_execute` around a handler that may return, fail, be cancelled or
swallow its cancellation. asyncio's semaphore is external. In one corner (a slot free while another waiter has still to resume with its
own) asyncio queues a newcomer at once, the model lets it take its first step later: the same runs and perhaps more.

**Delegation** extends TaskQueue: each request has a parent request whose handler makes it, or none (`stream()`'s root job).
`waits` is `_wait_graph`, `registered` the keys of `_handlers`, `denied` the refusals of `request()`. A handler goes on only when
all it asked for has come back (`gather` in `batch`), and begins to unwind only after cancelling them (`PassOn`).

**TicketService** is the abstract specification: promises, tickets, outcomes. TaskQueue implements it with `promise <- fut`; no
worker, execution, slot or deque is visible in it.

**PluginHost** is one plugin. Its tasks are calls (`PluginManager.execute`), configurations and the final `stop`; they share
`restart_lock` (`holder`), the write lock (held by the task whose `pc` is `"drain"`), the pending futures (`fut`) and the process (`cur` is
`_process`; `proc` and `reader` keep every child spawned, with its `_read_loop`; `pipe` says whether
its input is full or closed). A request that fills the pipe pauses the transport, which stays paused, whatever becomes of the request,
until the child reads (`PluginReads`); every request written meanwhile, however small, waits in `drain()`, under the write lock and outside the
timer, as `call()` does. A child may exit, close its output, write
garbage, answer, stay silent or stop reading at any time; its exit, the moment asyncio sets `returncode` and the end of file are three
steps, since a helper process may keep the pipe open. `Cut` is a cancellation at any suspension point, from the job (`Cancel`) or from the
registry's timer (`ToolTimeout`; anyio repeats it, so it may hit the cleanup too). The manager is closed only when no
call or configuration is under way: `AgentRuntimeManager.stop` awaits `bus.shutdown()` first and the server has drained its requests.

**RunStream** is one root run and its reader: the job (`run`, abstracted from TaskQueue), the provider's response (`upstream`),
`ManagedAgentStream._events`, its flags and its supervising task, and the reader of one of the endpoints, which may leave (`Leave`) or cancel
(`StopRun`). **TurnSessions** is one session row: turns that load, normalise, extend and save it, and the owner's rename and delete. The
normaliser is the loop of the code with its accumulator (`Loop`, `Accept`), and `Sent` what the Anthropic provider sends of a message. Ids are
sequences, so that one made of two positions (`tool-2-1`) is told from one that came from outside (`GivenIds`).

**AgentTeams** is one user's team and member rows together with the manager's profiles, bus handlers, profile lock and roots;
handlers read in one step and write in another. **GatewayIdentity** gives each request an identity when it authenticates (cookie, key,
act-as), kept to its end while users, sessions, keys and agents change. `MayAccess` lets an administrator pass for every agent, as
`require_agent` does. **ProviderConfig** has rows at three scopes, ciphertexts bound to the row and the master key, and the file of
that key, whose creation may be cut off by a crash.

**FinanceLedger** takes one action per operation (one `BEGIN IMMEDIATE` each); callers interleave, keep versions they saw, lose
replies. **ScriptCache** is the cache with script time passing in fractions of a second (`Second` ticks): the time in an
answer is cut to whole seconds (`WholeSeconds`), the life of an entry is not, and they are counted from different moments. **GoImport** has the Go database and its log as sets of transactions, changing under
the copy; commands crash and rerun. The write merges rows over those with their ids and rewrites the agents of each API key it has
(`Replaces`), so that two imports are more than their union. **RuntimeLifecycle** is the exit stack and the stops. **FootballEvidence** is one tool call over
sources that may answer about other fixtures; Sporttery's odds are matched by team names alone, as in the code.

## 3. What the runs check

| Run | Instance | Properties | Distinct states |
|---|---|---|---|
| TaskQueue | 3 requests, two share a key, one agent, 1 slot, one inheriting job, `MaxPending` 2 | safety of the queue, `CancelScope`, refinement (safety) | 397k |
| TaskQueueLive | 3 requests of which 2 are admitted at a time (constraint `TwoJobs`): on two agents with 1 slot, or both for one agent while the queue of 2 refuses the third | `QueueInv`; waiters answered and shutdown returns if handlers end; cancellation and doom release the waiters even if none ends | 30k |
| DelegationTeam | two roots, a batch of two to one agent, 1 slot, `MaxPending` 3; Stop, shutdown | wait graph, no orphans, slots, doomed work | 480k |
| DelegationBatch | one root; A asks B and C, which ask each other; timeouts | `NoCircularWait` | 516k |
| DelegationTimed | two roots on one slot, one delegates to the other's agent; leave, timeout, Stop, unregister | `AllReplied` | 88k |
| PluginHost | a call larger than the pipe, a disable, a restart, the stop; two children | one process, no replay, no unheard future, nothing after the stop, every call ends, every task ends while pipes are emptied | 99k |
| Services | the ten services, see below | twelve invariants, `CopiesAreKept`, `StayingReaderEnds` | 574k |
| DelegationBusy | the smallest cross-root shape | `NoCircularWait` is violated | |
| PluginDeaf | a call larger than the pipe, a disable; one child | `WritesEnd` is violated | |
| PluginDisabled | one call, a disable; default timers | `DisabledStaysDown` is violated | |
| PluginHung | two calls; default timers | `TimedOutIsReplaced` is violated | |
| ReplayedIds | a replayed history with repaired ids | `ProviderSeesPairs` is violated | |

**Services.** The ten modules share no variable; where the code shares state between two of them (an agent's row, a session) each part
models what the other may do to it. MCServices therefore checks them side by side: a behaviour is one of exactly one part (`part`),
the others stay in their initial states. The state space is the sum of theirs, not the product, and each invariant is
checked on the part that can change its variables.

**Bounds.** Queue, bus: requests are made at most once each, which bounds everything. Two waiters on one job plus a third job behind it
show attachment, dedup after doom, FIFO and worker reuse; two agents on one slot show contention for the semaphore; the delegation shapes
are the smallest with a batch, a cycle inside one root and a cycle across two. PluginHost: `MaxSpawns` caps the children (after it a spawn
fails, as it may at any time); two are needed for a late reader of the first to meet a call to the second. Teams: two handlers
and a turn over no team or one, `MaxRequests` 3: enough for a read, another's write and the write that follows. Identity: two requests at a time,
repeated without bound, two users, two sessions, a key and an agent; ids are never reused while a request refers to them. Sessions:
`MaxTurns`, `MaxRounds`, `MaxFailed` 2, histories of up to eight imported messages. Stream: `MaxDeltas` 2, so the reader can be behind.
Ledger: two users' sessions, one event, `MaxWrites` 5 versions in all, `MaxClock` 1, which reaches the edge of a dedupe window. Import: two Go
transactions, two files (so that a command can die between them), `MaxCommands` 3 (a crash, a rerun, another), `MaxEdits` 1. Life-cycle: two providers and two plugins, so that one fails
after another. Cache: a second of three ticks, lifetimes of one second, `MaxTime` 4,
`MaxScripts` 2: a script can begin in one second and end in the next, and outlast the lifetime. Providers: two rows, two master
keys, one request that saves and updates beside one that deletes, of an owner or an administrator. `CHECK_DEADLOCK FALSE` throughout: when all requests are made and
answered nothing is left to do.

**Restrictions.** Three instances leave out what the code is known to get wrong, and say so where the property is defined: `RetainsSpecialist`
is checked with one writer of a stored team (two overlapping updates may archive the last two specialists, `router.py:891-905`); `AnsweredTurnsKept` excepts
renamed sessions (a rename writes back the history it read); onboarding's `FoundedOnce` needs one administrator (two who delete each other
empty the table). One operator runs `import-go` and one copies files.

**Fairness.** `LoopFairness` is weak fairness of every resumption the event loop owes: asyncio runs each ready callback. `HandlersEnd` adds
that handlers end; it is a hypothesis of the properties that need it (`AllAnswered`, `ShutdownReturns`), and `CancelIsPrompt` and
`DoomIsPrompt` hold without it. The environment (submitting, cancelling, Stop, shutdown) is never fair. `TimedSpec` adds that the timer of every tool call fires (`anyio.fail_after`). `FairSpec` of PluginHost is
fairness of the loop, the timers, the system that kills and reaps a child somebody waits for, and the end of file after a child's
death; nothing is assumed of the plugin, neither that it answers nor that it reads. `CallsEnd` says that
tool calls end all the same, since the registry's timer cuts them wherever they wait; `TasksEnd` that every task ends, configurations and the final
stop included, provided no pipe stays full for ever (a premise of the property, not of the specification). Without the premise it is `WritesEnd`, which
PluginDeaf refutes. `StreamFairness` is fairness of the run's own steps (the HTTP client bounds a silent provider by its
timeouts), of the supervising task and of a reader that stays; leaving, stopping and cancelling are not fair.

**Findings.** Five statements of the documentation do not hold. (1) "`max_concurrent=1` cannot deadlock": a root job
leaves its agent's deque before it acquires a slot (`queue.py:257-259,279`), so it can block the agent for the very root that holds the slot. It
ends by the tool timeout (`DelegationTimed`), and within one root no circular wait forms (`DelegationBatch`). (2) A call under way when its
plugin is disabled restarts it (`manager.py:265`). (3) "The process is restarted for later calls" does not hold for a hang
under the default timers: the registry cancels the call after 30 s, before the host's own 45 s timer would terminate the process. (4) "Bounded
calls": `drain()` is awaited before the timer starts (`process.py:106-107`), so the shutdown request to a plugin whose pipe is full is not bounded, and
the plugin is not terminated. (5) The normaliser repairs tool call ids in `tool_calls` and in results, not in `raw_assistant`, which is what the Anthropic
provider replays (`normalizer.py:49`, `anthropic.py:239`).

## 4. What is proved

Every safety property that a passing run checks is also a theorem, invariant or action property, and the safety part of the refinement, but `RetainsSpecialist`
(see *Teams*), for every value of the constants that the named assumptions (`ASSUME` in the modules) and the hypotheses given below
allow. The assumptions say what the code fixes: markers like "no row" are not values, a dedup key is built from root and agent, bounds are
positive, a delegation has its parent's root, ids of handlers and turns differ. The argument is the same everywhere: an inductive invariant,
one lemma per action, the property as a consequence.

**The queue** (TaskQueueProofs). From `QueueInvariant`: `AgentsSerialized`, `NoLostWakeup`, `Deduplicated`, `HistoryTrue`, `WorkIsWanted`,
`ShutdownIsComplete`, `TypeCorrect`, `HistoryComplete`; then `DoomIsPending`, `DoomedStayOut`, `SlotsAreConserved`. `OneAtATime`, for one, is not
inductive: it needs that an execution is alive only under a worker that awaits it (`ExecInv`), that a target has one worker
(`WorkersInv`), that a deque holds a job once and only while it is queued or doomed (`DequesInv`), and that live jobs, `_jobs`, pending
futures and absence from the history are the same thing (`JobsInv`). `WaitersInv` and `SemInv` close it under release and under the
hand-over of slots. The slots need one more (`SlotsInv`: executions that inherit never queue), doomed jobs another (`DoomedInv`: the
cancellation stays pending). Two theorems are about steps: `CancellationIsScoped` (what dooms a job is its last waiter's release,
its root's cancellation or shutdown, and never the cancellation of one of several waiters) and `QueueIsTicketService` (each
step of the queue is a step of TicketService or a stutter, the initial state an initial state).

**The bus** (DelegationProofs). `BusRefinesQueue`: the bus only restricts the queue, so every theorem above holds under it. On top of
it `GraphIsExact` (an edge counts the requests that wait along it), `DelegationsAreAwaited`, `DoomedDelegateNothing` and `WaitGraphAcyclic` (the refusal in
`request()` keeps the graph without a cycle, whatever the delegations). From these follows `NoDeadlockApart`: no set of jobs waits only for
each other. Two hypotheses: `RootsOpenOnce` (a root id is one `stream()`'s) and `RootsApart` (roots running at the same time use different
agents). The first the code ensures, a root id being new with each run; the second it does not, and the run DelegationBusy shows the circular
wait without it. DelegationBatch meets both.

**The plugin host** (PluginHostProofs). `HostInvariant` for any calls, configurations and respawns, of which `NoOrphanProcess`, `CallsAreSentOnce`,
`NoCallUnheard` and `StopIsFinal` are consequences. `HostInv` says of every task what its place lets it hold (the restart lock,
the write lock, a pending future) and of every child whether it is `_process`, being ended by somebody who will finish, or gone with its reader.
A task's step up to its next suspension is composed of few operators, each with a lemma that it moves the task consistently.

**Sessions** (SessionProofs). `TurnsGoOnSound`, `ReplaysAreSound`, `AnswersAreKept`, for every imported history, every list of calls and any number of turns
and rounds. `TurnInv` says that a history which turns have extended holds results only of the last calls before them (`Led`), with ids that are
distinct within a message (`AreNamed`); the calls of its last answer wait while they run and none while the provider is asked (`Open`). That a
repair loses no recorded result is an invariant of the normaliser's loop, carried along the messages by the least counterexample:
`Owing` says which calls of the last assistant message are still owed a result, under their present ids, and that the table of aliases leads
there. One hypothesis, `NoMadeIds`: no id from outside has the form the normaliser makes. The code takes a made id without comparing it
with the ids used (`normalizer.py:40-42`), so a provider that itself uses `tool-1-2` could get one twice; the run meets the hypothesis.

**Stores** (StoreProofs). *Teams*: `RosterAlwaysSound` for any number of writers, however old what they write: foreign keys hold, roles and request
ids are unique (`TablesInv`: what a pending write has read still fits the keys). `OnlyTheWindow` says that no turn of an archived agent goes on
but through the window between its check and its tracking, where one handler writes the rows of stored teams (`OneWriter`); from `WriterInv`: what the writer
read is what is there. The code does not guarantee `OneWriter`, Services' requests meet it. That a team keeps a specialist is no theorem: with two writers it
is false, with one it is what Services checks. *Provider settings*: `ProvidersSound`; `ProviderInv` says of each pending write what is said of a row: its key opens under the file's
master key for the id it will be written to, and was entered by the owner of the place. *Import*: for any number of operators `TargetMerged` (the target
holds rows of recorded imports of real states, and lacks none but agents of API keys that a later import wrote anew); with one (`OneOperator`) `TargetSound`, that
it is exactly those imports; two equal manifests around
the copy imply that the copy is a state the Go database was in (`ReadsFit`), and the quarantine loop keeps every row that should be kept
(`RowsStaged`, from the largest set of rows without dangling references). `WroteAssumption` states what `importer.py:565-585` relies on, and that a table and an id
identify a row. `CopiesStay` (an action
property) where one operator at a time imports files (`OneCopier`): `_copy_atomic` replaces what it finds, so two could overwrite each other.

**Runs and lifespan** (RuntimeProofs). `StreamSound`: `StreamInv` relates the phase of the run, the outcome, the flags, the supervising task
and the event queue, for any number of deltas. `LifeSound`: `LifeInv` says at each step of the lifespan what is acquired and what the exit stack will release,
for any providers and plugins.

**Tools** (ToolProofs). `CacheSound`, whatever the ticks in a second: an entry answers a query of its key, lives from the start of its script, and
ends no later than the second its answer names. So an answer is given at most a fraction of a second after its `stale_after`. `EvidenceSound`:
`EvidenceInv` says at each step which parts may have been collected, that ESPN's are of the confirmed fixture and odds of its teams; those of The Odds API
are also of its day, those of Sporttery may not be, since the code asks for no date. `FixturesAssumption` says that teams, date and
league determine a fixture. `LedgerSound`: `LedgerInv` adds to the property the dates of the alerts, without which disjoint episodes are not inductive.

**Identity** (GatewayIdentityProofs). `KeysConfined`, `IdentitySound`. What keeps a stale read harmless is in `KeysInv`: a pending key operation's key and
agents are its target's or gone, and no two pending requests hold one key for different targets, because a new id is one nobody holds.
`FoundInv` shows that until somebody is founded nobody has an identity, and that afterwards the table is never empty; the latter needs
`OneAdministrator`, since the code does not stop two administrators from deleting each other. The run uses the same assumption.

*Only model-checked*: liveness, which is out of the prover's reach (`AllAnswered`, `ShutdownReturns`, `CancelIsPrompt`, `DoomIsPrompt`,
`AllReplied`, `CallsEnd`, `TasksEnd`, `StayingReaderEnds`), and with it the fairness of TicketService, which is `AllAnswered` over its steps.

## 5. Not modelled

Of the queue: timestamps, ids, the history's capacity of 50 (the model's history is unbounded). Of the bus: the tenant check, error texts. Of the
plugin host: discovery, the stderr loop, the rewriting of results, `_lifecycle_lock` (never contended), several plugins at once (they share only
`_closing`). Of the gateway: channels and cron jobs, uploads, settings pages, files of agents, listings and metrics: single reads
or writes of one row or file. The providers' wire formats are the parsing of remote protocols. Hashes and the cipher are ideal. The other tools and
the scripts of skills fetch and print, sequentially and without shared state. Cutover and differential commands compare two
deployments and report. Observability has no behaviour of its own. The web console, release scripts and schema migrations are content.

Hazards without a property, and weaknesses a property steps around, are in the notes of `PROJECT.json`'s hazards.

## 6. What is left

1. Proofs without the hypotheses the runs also need: AgentTeams and both imports with a conditional write, should the code get one. Runs of the
   cases those hypotheses leave out: two updates of one team's members, two importers of different states.
2. Uniqueness of call ids across the messages of a history, once the normaliser compares the ids it makes.
3. RunStream over TaskQueue itself instead of its abstraction.
4. Sessions and runs over the bus: a delegated turn saving its session while its root is cancelled.
