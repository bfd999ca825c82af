# iplsgo: a TLA+ model of the OWA/APEX listener

iplsgo is an HTTP server that runs Oracle PL/SQL web procedures (OWA, APEX).
Each browser session is bound to one Oracle session; a request that takes long
is answered with a wait page that asks again for the same task, and a user may
break the request that is running. This directory holds TLA+ modules of the
program's own logic, TLC runs on small instances, and TLAPS proofs.

## Inventory

| Part | State | Operations | Works with |
|---|---|---|---|
| Session workers, `otasker/worker.go` | `wlist`, per worker `signalChan`, `inChan`, `outChanList`, the gauge `numberOfSessions` | `Run`, `Break`, `listen` | called by HTTP handlers, owns a tasker |
| Tasker, `otasker/oratasker.go` | connection, credentials, `sessID`, `stateIsWorking`, `logSteps` under `mt` | `Run`, `Break`, `CloseAndFree` | Oracle; called by the listener and by handlers |
| Descriptions, `otasker/describe.go` | `plist` under `plock` | `Describe`, `ArgumentInfo`, `ProcedureInfo` | Oracle; called by all taskers |
| Parameter binding, `otasker/oratasker.go` (`prepareParam`) | none | one function per type | called by the tasker |
| Statistics, `otasker/stat.go` | none of its own | `Collect`, `info` | reads `wlist` and every `mt` |
| Configuration reader, `reader.go` | one connection, `stopChan` | poll, stop | Oracle, `parseConfig` |
| Configuration and users, `server.go`, `users.go` | `router`, `conf*` under `confLock`, `ulist` under `ulock` | `parseConfig`, `resetConfig`, `updateUsers`, `getConnectionParams` | read by every request |
| OWA handler, `server.go`, `commonUtils.go` | none | `newOwa`, identifiers, wait form | calls `otasker.Run` and `otasker.Break` |
| Access log, `logger.go` | `logChan` (10000) | `writeToLog`, the writing goroutine | every request |
| NTLM, `auth.go`, `auth/ntlm` | table of contexts, a pool | handshake, cleanup | has no caller |
| SOAP, CGI environment, templates, answer clean-up, PL/SQL texts, timer pool, multipart, main | none that is shared | | |

What is hard here: handlers, listeners and timers meet over channels and two
levels of locks; a worker may die (idle timeout, interrupted task) at any point
of a handler's conversation with it; `Break` runs against a tasker that changes
its fields outside the mutex; every database call may fail with several steps
open; the description cache is shared by sessions and races with DDL. The list
`hazards` of PROJECT.json gives each of these with its line.

What makes each part correct: a worker serves one task at a time, results reach
the request they belong to, nobody waits for ever and no session stays behind
(workers); no Oracle session leaks, an error never leaves a half-made
connection in use, a kill hits the right session (tasker); no request is bound
by a description that can never be found stale (descriptions); a request is
granted a connection only by users at least as new as the router it came in by,
and neither outages nor bad documents stop the polling (configuration); a
browser that keeps polling gets its answer (OWA handler); arguments are not
lost, and an upload is stored with its own request or not at all (binding); no
request and no listener is blocked for good by locks or by the log (statistics,
access log).

## Modules

`Worker` -- `otasker/worker.go`. A step is one critical section or one channel
operation. A session stands for the key (path, sessionID) of `wlist`; a handler
(`Reqs`) is a goroutine of the HTTP server and has the program counter and the
locals of `Run` or `Break`; a listener (`lst`) has those of `listen`. Worker
objects and result channels are heap objects: one that nothing refers to may be
allocated again. `w.Run` is the action `Execute`, with one of the two outcomes
`listen` tells apart. `Deliver` joins the look-up of the channel and the send,
because nobody else sends on it.

`Tasker` -- one `oracleTasker`. `pc` follows `Run` through `connect`,
`disconnect`, `evalSessionID`, `run`, `saveFile`, `getRestChunks` and the error
path. A step is one section under `mt`, one call of the database, or one
assignment to a field that `Break` reads without being excluded. Every database
call may fail; after a kill it does fail, with the code `packError` reports as
interrupted. `Break` keeps `mt` while it kills. Identifiers of Oracle sessions
are not reused while a `Break` still holds one. Statement texts are left out:
binding either succeeds or not. A request with `/` in its procedure name is not
described. Uploaded files and further chunks of an answer are counted (`todo`).

`Describe` -- one key of `plist`. A caller reads the time stamp, asks whether
the object has changed, fetches the arguments, stores them and looks them up;
no lock is held between these steps. Oracle is external: `Ddl`, `Invalidate`
and `Tick` change the database at any time. An argument list is represented by
the object and the version it describes; `born` records when each version was
made. The short query with its recompilation is one step of the database.

`Config` -- `reader.go`, `parseConfig` and `startServer` of `server.go`,
`users.go`, and `main`. `rpc` follows the reader through `readConfig` and
`parseConfig`; the first reading is part of start-up, whose error ends the
process. `confLock` is held while `rpc = "router"`; the section of `ulock` in
`updateUsers` is one step, and so is the read section of a request. A request
takes the router when it arrives and looks its user up later. A document is
known by its place in `history`; its kind says whether it can be read, parsed
and routed. `copy` into an empty slice is modelled as what it does: `prev` and
`prevConf` never remember anything. `router.users` is a history variable, the
newest installed document with users. `resetConfig`, which only tests call, is
left out.

`Service` -- the abstract specification of the session workers: what a caller
of `Run` may rely on, without workers' channels, tokens or locks. A caller asks
for a task, gets a slot (the place its answer will appear in) by starting the
task or by joining one that is under way, and is answered from that slot by a
result of its own session and task, or sent away to ask again. A result is put
into a slot when the execution ends and given out once; a service that shuts
down forgets slots. `Worker` states the refinement mapping: `stageOf`, `callOf`
and `slotOf` read a handler's stage from its program counter, `executingOf` what
the listeners execute, `storeOf` the buffered and the still undelivered results.
`ServicePromise` says that `Worker` implements `Service` under this mapping.

`Owa` -- `newOwa` of `server.go` and `commonUtils.go`, composed with `Worker`: a
member of `Reqs` becomes a browser window with the handler of its request. A
window sends its request, and while it is shown the wait or the break page it
posts the form again, with the `MessageId` of its task, or calls
`break_session`, or is closed. `makeHandlerID` and `makeTaskID` are translated;
every step of `Run`, `Break` and `listen` is `Worker`'s. `taken` is a history
variable, the tasks a worker was handed.

`Binding` -- `run` of `otasker/oratasker.go` from the description to the
execution of the statement, composed with `Describe`: files are saved and bound
first, then the values, each after a look-up of its own in the shared cache;
`prepareParam` is one operator per family of types. A statement is the names in
its call, the bind variables in the calls of `paramStoreProc`, the keys of
`sqlParams`, and the versions its types came from. `tx` is what the connection
has inserted and not committed: `stm_descr_short` and the main statement commit,
`disconnect` rolls back (the driver's `Close` does). Go's random order of maps
is the choice of the next parameter. `get_resource`, which is not described and
binds three fixed strings, is left out.

`AccessLog` -- `logger.go`. The bounded channel and the goroutine that writes a
file per day. The calendar is reduced to whether the last line is of today, so
it has no bound; midnight may come between any two readings of the clock, and
the open of a file may fail.

`Locks` -- composes the locks of `worker.go`, `stat.go` and `oratasker.go` with
`AccessLog`. `wlock` is a `sync.RWMutex` with its order of service: a writer
that waits keeps new readers out, and after it the waiting readers come first.
Handlers `Run`, `Break` or `Collect` and end with a line in the log; `Collect`
keeps `wlock` while it takes the `mt` of each worker, a `Break` keeps `mt` while
it kills, listeners need `mt` at the sections of `Run` and `wlock` when they
end, and `CloseAndFree` runs without either. Tokens and result channels, which
`Worker` has, are left out.

`MCWorker`, `MCOwa`, `MCTasker`, `MCDescribe`, `MCBinding`, `MCLocks` and
`MCConfig` hold symmetry, views and the values of constants for TLC.
`WorkerProofs`, `ServiceProofs`, `OwaProofs`, `TaskerProofs`, `DescribeProofs`,
`BindingProofs`, `LocksProofs` and `ConfigProofs` hold the theorems.

Operators named `X_Y` right before an action `X` are plausible mistakes in the
code behind `X`; each one makes a property fail, as recorded under `mutants`.

## Runs

| Run | Instance | Shows |
|---|---|---|
| `worker_service` | 2 handlers, 1 session, 2 tasks, 2 workers, 2 channels | `TypeOK`, `SignalExclusive`, `ListenerNeverBlocks`, `RegisteredIsAnswered`, `ResultRouting`, `WlistLive`, `GaugeCoversRegistry`, and the refinement `ServicePromise` |
| `owa_polling` | 2 windows of one session, 2 tasks, 2 workers, 2 channels | `OwaTypeOK`, `NoWorkerRepeats`, `AnswerArrives`, `RunReturns`, `RegistryDrains` |
| `tasker_break` | 2 users, 2 Oracle sessions, 2 breakers, 2 files or chunks | `TypeOK`, `NeverPanics`, `OneSession`, `KillConsistent`, `AtRest`, `RunEnds`, `BreakEnds` |
| `binding_statement` | 2 callers, 2 parameters, 3 versions, seconds 2 and 3, with `paramStoreProc` | `BindTypeOK`, which includes `TypeOK` of `Describe`, `StaleIsDetectable`, `BoundExactly`, `ArgumentsKept`, `UploadsAreAtomic`, `Settles` |
| `locks_requests` | 2 handlers, 1 session, 2 workers, a log channel of 1 line | `TypeOK`, `InfoExclusive`, `KillExclusive`, `LockOrder`, `NeverNilFile`, `Served`, `Released` |
| `config_reload` | 1 request at a time, 1 user, 2 groups, 8 documents, 3 of them stored in turn, 1 outage, with and without `-cs` | `TypeOK`, `UsersInForce`, `GrantIsConfigured`, `NoLeak`, `OutageSurvived`, `InstalledEventually`, `StopEnds` |

What the less obvious ones say. `ServicePromise`: each step of each goroutine is a step
of `Service` or changes nothing there, through create races, time-outs, breaks
and ending workers. `NoWorkerRepeats`: polling never makes one worker execute a
task twice; another worker may, when the first has ended or was replaced.
`AnswerArrives`: a window that goes on polling is answered, unless workers are
lost for ever or the handler is stranded in the hand-over, the case that
`worker_handover` shows. `Settles`: a statement may mix types of several
versions, but after the last DDL this dies out. `ArgumentsKept`: no interleaving
of descriptions makes an argument that all versions declare disappear from the
call. `UploadsAreAtomic`: because every error closes the connection, no upload
is left for the next request's commit. `InfoExclusive` and `KillExclusive`: what
`CloseAndFree` touches without a lock nobody reads or kills at that time.
`LockOrder`: locks are given back, `mt` comes after `wlock`, and nobody queues
without a writer that will let it in, so that there is no circle of waiting.
`Served` and `Released`: the two levels of locks and the full log channel never
block a request or an ending listener for good.

Bounds. Two workers for a session are what a create race needs, and two
handlers race while the first worker's listener ends. More handlers and sessions
are covered by the proofs, which all the safety properties have. The second
worker and the second channel are used again once they are free, so histories
are not bounded. Two users make a tasker change its connection, two Oracle sessions
let it log in anew while a kill of the old one is still on its way; Runs follow
each other without bound. Three versions in two seconds allow two changes in
one second as well as two in different ones; the three types of the first
parameter make it pass as a string, fail as a table of dates and pass as a
boolean, the second one stops being an argument. Two parameters are what a
mixture of versions needs. In `locks_requests` a handler asks for a worker only
while one is left for it (`Spare`), so that nobody waits inside `wlock` for the
model's bound; one session suffices, because `wlock` is shared by all and
workers of one session already come in pairs; a log channel of one line is full
as soon as possible. Three stored documents let a
request see the users of one and the groups of another, with a document that
cannot be installed in between; requests do not affect each other, so one is
enough, and the database may be down from the start as well as go down once
later. A handler that finds no free
worker object or channel waits; the liveness properties name this case
(`Exhausted`), which the program does not have. The runs of `Worker` and `Owa` do not check
deadlock: handlers that are all stranded in the hand-over (see below) are a
real end state. The other runs do.

Symmetry is used for safety only; the views drop the contents of objects
that nothing refers to, which are overwritten before they are read. States with
the same view have the same steps and the same values of every property, so
that the view of `owa_polling` is sound for its liveness properties too.

Fairness. Weak fairness of every goroutine that is under way: the Go scheduler
runs what can run, `time.After` fires, database calls return. Users need not
call again. `RunEnds` holds if Breaks do not go on for ever, because a Run
waits for the mutex that each Break takes. `Settles` asks only for requests
that keep being described. In `Owa`, windows in `Patient` do not leave a form
lying (the scripts of the templates post it), and a `select` whose token or
result is ready again and again is not beaten by its time-out for ever: Go
chooses among ready cases at random. In `Locks`, handlers and listeners are
strongly fair, because Go's mutexes and channels serve those who wait in turn.
The reader's timer fires and its database calls
return; `StopReader` is strongly fair, because the reader comes back to its
`select` after every reading, with the timer just set and the offer on
`stopChan` waiting. `InstalledEventually` assumes that the database stays up in
the end. The Boolean constants `CanWait` and `CanIdle` of
`Worker` stand for time-outs that are configured as negative and never fire.

Disagreements between comments and code, each with a run that shows it:

| Run | Property | In short |
|---|---|---|
| `worker_break_page` | `BreakPageMeansBusy` | `Break` on an idle worker loses the token; until the idle timeout everybody is told that another request is running. |
| `worker_handover` | `SendCompletes` | A handler can read the token of a worker that has just ended and blocks for ever on `inChan`. |
| `worker_deregister` | `ExitRemovesItself` | The listener of a replaced worker removes the live one from `wlist`. |
| `tasker_error` | `ErrorClosesConn` | Errors of `getRestChunks` are dropped: truncated answer, status 200, connection kept. |
| `tasker_late_kill` | `InterruptedByBreak` | A `Break` that comes between the last statement and the end of a task interrupts the next task. |
| `describe_schemas` | `ChecksOwnObject` | Users of different schemas share a description by name. |

`describe_schemas` shows the disagreement without any DDL or overlap. The
property also fails to be a promise in two other ways that `StaleIsDetectable`
leaves open: a change within the second of the time stamp is not noticed, and a
request may bind by an older list that another request has just stored over the
newer one. In both cases the next change, or the next request, repairs it.

Two things `Config` shows that no comment speaks of, so no run contradicts
them: a document without the section `Http.Users` leaves the users of an
earlier one in force (`UsersInForce` says so), and a request that overlaps with
an installation may combine its user's new group with the old router's groups
(`GrantIsConfigured` allows exactly this). The process panics on a document
with conflicting routes, and when it is stopped while the reader has no
connection; `OutageSurvived` names both exceptions.

## Proofs

`WorkerProofs` proves, for all sets of handlers, sessions, tasks, workers and
channels, that `TypeOK`, `SignalExclusive`, `ListenerNeverBlocks`,
`ResultRouting`, `WlistLive` and `RegisteredIsAnswered` are invariants of
`Spec`. The only assumptions are that `Nil` is none of the other values and
that the time-out constants are Boolean. None of these properties is inductive.
The invariant `IInv` adds

- `Locals` and `Listening`: which locals are set at which point, that the
  worker a handler holds serves its session, and that a result belongs to the
  work item;
- `ChanOwner`: a channel belongs to one worker and one task, wherever it is
  referred to from. This is what a fresh channel per submission buys, and
  `ResultRouting` rests on it;
- `ChanContents`: what a channel holds was made for its owner;
- `PendingEmpty`: the channel of a task that is being submitted or executed is
  empty, which is what keeps the listener from blocking. It needs
  `SignalExclusive`: nobody else can register the task meanwhile.

There is one lemma per part, each with one step per action, and `NextIInv` puts
them together.

`GaugeCounts` is an equation, stronger than what the run checks: the gauge
`numberOfSessions` is the number of workers whose listener exists, replaced ones
included (`GaugeInv`). Only `Create` and `ClearOut` change either side, by one.
`GaugeCoversRegistry` follows because `wlist` is an injection into these
workers, which `WlistLive` says. No set of constants has to be finite.

`ServiceProofs` proves `Refinement`, `Spec => ServicePromise`, with the same
constants. `IInv` is what makes the mapping work: `ChanOwner` and
`ChanContents` show that the slot a handler reads from holds an answer of its
own session and task, `PendingEmpty` that the listener's send is the abstract
end of the execution and hits an empty slot, and that a channel is fresh makes
the registration a new slot. One lemma per group of actions names the abstract
step they implement, most of them stuttering.

`OwaProofs` proves for any number of windows that `Owa` is a client `Worker`
allows (`UsesWorker`, `OwaSpec => Spec`), so that all of the above holds for it,
that `OwaTypeOK` is an invariant, and the action property `NoWorkerRepeats`.
`OwaInv` adds to `Worker`'s `IInv`

- `WindowInv`: the only task a window ever has is the one `makeTaskID` made for
  its first request, in its form and in its handler alike;
- `RememberInv`: a worker that was handed the task of a window still has its
  channel in `outChanList`, unless its listener is gone or the window will not
  ask again. `Delete` ends the window in the same step, and that identifiers
  are unique (`UuidAssumption`) keeps all other windows from that entry;
- `SubmitInv`: a handler that found no channel, and waits for the token or
  submits, brings a task that is new to its worker.

`TaskerProofs` proves `TypeOK`, `NeverPanics`, `OneSession`, `KillConsistent`
and `AtRest` for any users, Oracle sessions, Breaks and numbers of files and
chunks. `IInv` says at each point of `Run` which steps are open in `logSteps`
(`LogInv`, from the table `OpenAt`) and what `r.conn` is (`ConnInv`); that the
holder of `mt` is the Break that is under way (`MtInv`); and how the unprotected
fields hang together (`FieldInv`): credentials are those of the connection
except between the logon and their assignment, when there is no session
identifier yet, so that a Break at that moment has nothing to kill.
`KillConsistent` needs just this, and that an identifier is not used again while
a Break holds it.

`DescribeProofs` proves `TypeOK` and `StaleIsDetectable` for all numbers of
callers, users, objects, versions and seconds. `IInv` adds that no time stamp
is ahead of the database's clock, that a list on its way into the cache misses
only what is younger than its time stamp, and that whoever has been told
"unchanged" has an entry to look at (an object's `last_ddl_time` is later than
the zero time).

`BindingProofs` shows that requests use the cache as `Describe` says
(`UsesDescribe`, `BindSpec => Spec`), which gives them `StaleIsDetectable`, and
proves `BindTypeOK`, `BoundExactly`, `ArgumentsKept` and `UploadsAreAtomic`, for
any parameters, types, forms and numbers of callers and versions. The last three
are nearly inductive once the versions in the cache and under way are known to
exist (`VersionInv`); a lemma about `prepareParam` says what one parameter adds
to the statement. Assumed are at least one version and that `Nil` is not a
description.

`LocksProofs` proves `TypeOK`, `InfoExclusive`, `KillExclusive`, `LockOrder` and
`NeverNilFile` for any handlers, sessions, workers and capacities. `IInv` adds
that `wlist` leads to workers that have not deleted themselves, that the workers
a `Collect` still has to visit are registered because it is among the readers of
`wlock` (`CollectInv`), that `info` and `killSession` run under `mt` of their
worker, who may queue for `wlock` (`QueueInv`), and that a file is open from the
first line of a day to midnight. `NeverStuck` draws the conclusion from
`LockOrder` that deadlock checking does not show, since an idle listener or the
clock may still take a step: whenever `mt` or `wlock` keeps somebody waiting, a goroutine that
holds a lock and waits for none can go on. It is the safety half of `Served`.
The assumptions are that `Nil` is none of the other values, that handlers and
listeners are different goroutines, and a capacity of at least one.

`ConfigProofs` proves `TypeOK`, `UsersInForce`, `GrantIsConfigured`, `NoLeak`
and `OutageSurvived` for all sets of requests, users, groups and documents and
any number of edits and outages. `IInv` adds that `prev` and `prevConf` stay
empty, that the document in `buf` is never older than the users in force, that
`ulist` is the list `InForce` even while `confLock` is held, and that the router
of a request under way is not newer than the present one. The last two make
`Lookup` grant by users at least as new as the request's router; `Edit` keeps
this because stored documents do not change. The assumptions say what a
document is and that `Nil` is none of the other values.

Every safety property that a passing run checks is also a theorem. Only
model-checked is liveness, which is out of the prover's reach: `RunReturns`,
`RegistryDrains`, `AnswerArrives`, `RunEnds`, `BreakEnds`, `Settles`, `Served`,
`Released`, `InstalledEventually` and `StopEnds`. The runs that expect a
violation need no proof.

## Plan

All components worth a model have one, and their safety is proved. What is left
is to prove the safety half of more liveness properties, where it can be stated
without `ENABLED`, as `NeverStuck` does for `Locks`: in `Worker`, whom a handler
that waits for a token or for a result is waiting for.

## Not modelled

SOAP (one connection per request, straight-line code), the CGI environment,
templates, the clean-up of answers, the texts of the PL/SQL blocks (where they
commit is in `Binding`), flags and service plumbing keep no state that two
activities share. The timer pool, `Authenticator` with the NTLM contexts, and
the multipart parser of `otasker` have no caller in this commit: `server.go`
parses with the package `mltpart`. `resetConfig` is called by tests only. The
values of parameters and their conversions (line ends, decimal points, dates)
are data that no property here tells apart.
