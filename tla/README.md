# TLA+ models of the MCP proxy

The repository is an MCP proxy (`mcp_proxy/`): one HTTP endpoint that gathers
the tools, skills and instructions of several MCP servers, the *upstreams*,
among them the servers of `servers/`. It runs on one asyncio loop, with threads
for what blocks. The models here cover the parts whose correctness depends on
the order in which tasks, threads, clients and the operator act. Every
definition is translated from the source; `PROJECT.json` maps it to its lines.

## Inventory

| Component | State it keeps | Operations | Hard behaviour | What makes it correct |
|---|---|---|---|---|
| HTTP upstream (`upstream.py`, `HttpUpstream`) | session, three events, failure, a service task | start, stop, requests, death of the transport | events replaced under a task that is still alive, bounded waits, overlapping restarts | one service task, no orphan, no request left hanging |
| Stdio upstream (`upstream.py`, `StdioUpstream`) | the same, once, a cancel scope, a subprocess | start, stop, requests | a start refused, given up or cancelled, even before its task ran; a dead process seen by its requests only | no subprocess that nobody told to leave |
| In-process upstream (`upstream.py`) | the instance, its volatile key | prepare, build, adopt, discard | replaced under a call | a call ends on the instance it got |
| Lifespan (`app.py`) | exit stack, routing table | boot, shutdown | starts in parallel, a boot cut midway | what was started is stopped |
| Volatile secrets (`volatile_store.py`) | per key: lock, task, memory of refusals; per consumer: accepted value, verdict | submit, forget, status | detached tasks, adoption, clients that leave, a build in a thread | one build per key, a refused value never tested again, the secret never on disk |
| Published surface (`app.py`, `skills.py`) | instructions, skills | publish_surface after start, authorization, secret change | two publications overlap | the surface is that of the instances in service |
| Self-update (`updater.py`, `selfupdate.py`) | last probe, apply lock, the clone itself | probe, apply, rollback | git in a thread that a cancelled request leaves behind | one update at a time, never backwards, the update runs |
| Lifecycle (`lifecycle.py`) | a lock | restart, status | an apply begins during its wait | no exit in the middle of a merge |
| Process and supervisor (`entry.py`, `scripts/supervise.sh`) | exit code, signal; the supervisor's flag | stop, exit 42 / 43, relaunch | exits of several origins at once | the first code wins, a bad update is told |
| Outgoing authorization (`auth_out/`) | tokens, pending redirect, interactive flag | authorize, callback, refresh | double click, late callback, refresh races | no dead link, no route or request left waiting, no authorization claimed without a token |
| Catalog, listing, routing (`server.py`) | the catalogue on disk, the tool map, calls in flight | tools/list, tools/call | upstreams that die, are authorized or forgotten under a listing; mute ones | an upstream hides only itself, a call ends |
| Skills relay (`skills.py`) | the cache of skills | skills/list | pages without end, instances discarded under a collection | a collection ends, the skills of a waiting upstream stay |
| Configuration watch (`configwatch.py`) | cache of verdicts and trial binds | check | shared by concurrent checks, files and port that change meanwhile | a restart goes on only to an address it has seen open |
| Configuration layers (`layers.py`, `config.py`) | config.json and its backup | merge, migrate | a machine that stops midway | the reduced layer says the same, at every moment |
| Web server cache (`servers/mcp_web/`) | files | fetch, read, list, purge, sweep | files of one page written apart, by several tools | no page served with another's structure |
| Search chain (`servers/mcp_web/search/`) | pauses, next free slot | search, image_search | searches that share both while they wait | engines spared as they ask |
| Document sessions (`servers/mcp_docs/session.py`) | files | resolve, write, read, drop, sweep | sweeps, tests, measures and writes of several calls interleave, a crash in a write | how far the quota may be passed, documents in use kept |
| Others: incoming auth, OAuth diagnostics, web application, page and document parsing, search, other servers, dev server | | | | |

How they interact: the lifespan of the application (`app.py`) starts the
upstreams and hosts the service tasks and the loops (probe, token refresh). A
tool call is counted (`InFlight`), routed by name, and runs on an upstream. An
authorization restarts an HTTP upstream with its token; a secret deposit
replaces an in-process instance; both publish the surface again. Updates and
restarts end in one exit request, which the supervisor turns into a new launch.

## Modules

### HttpUpstream

One upstream. A *generation* numbers the calls of `start()`: it names a service
task and the three events created with it, and a variable that refers to an
event holds a generation. `events` is the generation of the attributes
`_stop_event`, `_ready` and `_stopped`; the three sets say which events are
set. This is what makes the model faithful where the code is delicate:
`_serve()` reads the attributes *when it uses them*, so `ServeEnds` sets the
events of `events`, not those of its own generation. Actions run from one await
to the next. `Restart` is `authorize()`'s stop-then-start, up to its first wait
(`start()`'s own leading `stop()` finds nothing to stop and does not wait);
`StopReturns`, `StartWakes` and `EndReturns` are the ends of the bounded waits,
by their event or by expiry. `WatchersRan` is the loop's order: a watcher
created before the service ended has looked at its event before the task that
the end woke replaces it.

`disturbed` is a history variable, set when two restarts overlap or a bounded
wait gives up. Properties that the code only provides without either are
conditioned on it. `SessionServed` is not: it holds whatever happens. Nor is
`StopReachesService`: an order to stop that meets a pending handshake, which
takes an overlap or an expiry, still reaches its task, unless a later start
replaced the events before that handshake ended.

### VolatileSecrets, MCVolatileSecrets

The deposit, validation and oblivion of secrets. A task (a submit's own, or a
forget request) goes through `phase`; `holder` is the lock of the key. `Submit`
adopts or creates, `StartTests` takes the lock, `PassOver` and `StartBuild` are
the turns of the loop of `_submit()`, `BuildAccepted`, `BuildRejected` and
`BuildFailed` are the ends of the thread, `EndTests` releases the lock.
`Discard` is the whole of `handle_forget()` under the lock. `Collect` and
`Publish` are `publish_surface()` around its awaits. `Leave` is a client that
goes away: the task of a submit is shielded, a forget is cut where it waits. A
value stands for its fingerprint and for the instance built with it; what an
instance lists is abstracted to that value, and `Citing` are those for which it
quotes its secret. The surface stands for the skills and their block, which
follow the instances; `discard()` deliberately keeps the free-text instructions
of the last instance, so these are left out.

`refusals` (every refusal a directory gave) and `overlapped` (a publication was
cut, or an instance changed during one) are history variables. The lock is
first come, first served in the code; the model lets any waiter be next.

### SelfUpdate

The clone (`head`), what the remote announces (`remote`), the process
(`running`, the version it was launched from), the apply requests and their
threads, the probe, the restart requests, the exit request and the supervisor.
A version is a number, its order that of the tracked branch; the kind of an
update follows from `MiaouOnly`, and a version in `Broken` fails at its launch.
`Check` and `Merge` are the two halves of `apply_update()` around
`before_merge`; a merge that fails, perhaps after HEAD moved, is undone, or is
not (`LeftAsItIs`: the rollback failed in its turn, and HEAD is the target or
what it was, with a tree that may be modified). `Resume` is the handler after its thread, `Cancel` the handler
cut by its client or by the shutdown's grace. `Adopt` is the test of
`refresh()` that lets a caller take the result of a probe that ended after it
called. `Relaunch` is the end of the process, its exit code, and one turn of
the supervisor's loop. A proxy that is not supervised refuses both requests
before anything changes, and is not modelled; nor is a rewritten branch, which
`Check` refuses like anything else.

`strayed` is a history variable: since this launch, a failed merge was not
undone. The process then goes on beside whatever is on disk, and no exit is
asked: the code leaves that to the operator, whose answer names the command.
`abandoned` is another: a handler left while its thread worked. The thread cannot be cancelled, and neither the lock nor the exit request waits for
it; the safety properties are stated for the executions without it.

### Authorization, Consent

One upstream with OAuth. A *flow* is anything that sends a request through
`provider()`: a run of `authorize()`, a call (or listing, or handshake), a
background renewal. `phase` follows its request: queued for the lock of the
SDK's context, sending, at the browser's rendezvous, exchanging the code. The
lock is the library's, held for the whole request, the wait for the browser
included; it is modelled from how `refresh_if_due()` relies on it, and marked
external. `Inhibited` and `Redirected` are the two branches of
`_on_redirect()`: the flag `interactive` alone decides, so a call refused
during a run opens the rendezvous in its place. `Callback` answers the
rendezvous whose `state` is published, `Resume` and `Expire` are the two ends
of `_on_callback()`, which both clear `pending`. `Click` is the route up to its
wait, `Answer` and `GiveUp` its answer after the event or the 20 s bound,
`Page` what it says then. `event` is `redirect_ready`, armed by each click and
set by whoever is redirected, inhibited or ends: `woken` holds the clicks whose
own event was set. `Abort` and `Conclude` are the `finally` of `authorize()`
with what follows it up to the next await; `Reopen` is the restart of the
session, an outcome here, which `HttpUpstream` models.

`token` says whether a usable token is stored. Its lifetimes, the margin and
the back-off of the renewal are not modelled: `Judge` lets a renewal reach any
verdict the code can reach with the token that is stored. `doubled` is a
history variable: two runs were under way at once, which the route allows as
long as no rendezvous is published. A request that is cancelled while it queues
for the lock is not modelled; one cancelled at the rendezvous leaves as in
`Expire`.

`Consent` is what this comes to for the user, whoever was refused: one flow at
a time asks him, from the link to the exchange; the link is the asker's own, or
has been withdrawn by a run that ended; he answers once; and a token that was
not there comes from the exchange of his code. `Authorization` implements it,
overlapping runs included: `AskerOf` is the flow at the rendezvous or at the
exchange, of which the lock of the provider leaves one.

### RemoteSession, StdioUpstream

`RemoteSession` is what the rest of the proxy relies on from an upstream in
another process: a session that only a start opens, requests that leave on an
open one and are refused otherwise, and that end once. `HttpUpstream` and
`StdioUpstream` both implement it; the mapping is `Link` (the session if there
is one, a start if a handshake is under way) and `Progress`. `Gateway` sees its
remote upstreams that way.

`StdioUpstream` has one service task, created once. `caller` is where the
lifespan stands in `start()` and `stop()`; `GiveUpStart` is
`_shutdown(cancel=True)` up to its first wait, whether `start()` was refused,
expired or was cancelled, `ShutdownInsists` and `ShutdownGivesUp` the ends of
its two waits. `ServeBegins` is the first turn of the service task: it looks at
`cancelRequested`, which is what makes a cancellation count that came before
it. `Settled` says that the loop delivers what is ready long before a wait of
10 s expires. `gaveUp` is a history variable.

### Gateway, MCGateway

The proxy between its clients and its upstreams. `Lifespan`: the boot probe,
the starts in parallel, the table without the failed ones, the publication, the
requests, the stop in turn; `CancelBoot` may come at any point of the boot.
`started` is what the exit stack owes a `stop()`. A client request is one of
tools/list (`listing`), skills/list (`collection`) or tools/call (`call`).
`ListFrom` is one run of the loop of `tools/list` up to the next upstream that
it awaits: instances are listed and remembered on the spot, upstreams that wait
for their user are recalled from the cache. `CollectFrom` is the same for the
skills, where liveness is read once (`live`). What an upstream lists is a
version of its catalogue, and `disk` the versions in the cache. `due` is a
history variable: what a listing has still to show.

A secret is deposited in one step here, as `VolatileSecrets` models what
happens in it; an authorization too, as `Authorization` does. Names, prefixes
and the shape of tools are left out.

### TokenStore

The file of a token, the copy in the memory of the provider and the loop that
renews it. The file keeps a deadline and the longest life ever announced
(`lifetime`), from which the loop derives its margin and its period.
`SetTokens` writes with what is left in the copy at hand, maybe long after it
was read; the loop wakes, judges, renews or backs off. `calm` is a history
variable: since the token was issued, no back-off, no restart, and no later
write moved its deadline.

### ConfigWatch

The checks behind the status and the restart. What the files hold is a model
value, in `Refusable` if it may be found invalid and in `Moving` if it asks for
another address. A check reads in a thread, takes a verdict from the cache or
validates, and tries the address; `fresh` is a restart's check, which trusts no
earlier trial. `Conclude` is the end of `check()`. `freeSince` is a history
variable: who has seen the port free since it asked.

### ConfigLayers

`MergePatch`, `StripComments` and `Slim` are the pure functions of `layers.py`,
recursive functions over JSON values of a bounded depth, a value being a leaf or
an object. `Slim` is defined on layers, which are objects: `_slim()` calls
itself only where both sides are. `LayersAssumption` says that null is not a
scalar, so that nothing is null by accident. `--migrate-config` follows, one
action per file operation, with an error or a stop of the machine between any
two. The layers are written by an action, not by `Init`, so that every pair of
layers is a behaviour of its own.

### WebCache, DocsSessions, SearchChain

`WebCache`: an entry is up to four files (text, HTML, structure, alias), each
with its age. A visit is a call of `fetch_url`, `fetch_read` or `fetch_list`,
and a step is one call it makes to the cache; a page may redirect. `fetch_list`
makes three: `resolve()`, which does not sweep, `load_html()`, which sweeps and
resolves again, and the structure. So the HTML may be that of another entry
than the one it is listed under: the structure is then left under an address
that has neither text nor HTML, where nothing asks for it until a fetch, which
drops it. `tangled` is a history variable, a set of entries: a fetch stored one
while another visit was in the middle of it (`Amid`), or a crash cut its
conversion. Visits that overlap otherwise are not exempt.

`DocsSessions`: the calls of several tools run in threads at the same time, and
a step is one call to the file system. `Judge` reads the age of one directory,
`Unlink` and `Removed` are `rmtree()`, document by document and then the
directory; `LookUp` is the test of existence, `TouchSession` the touch, before
the test for a call that brings the document and after it for one that does
not. `MeasureQuota` and `Measured` are the two ends of the sum of the sizes: a
file that is whole all along counts, one that is being written, was cut, came
or went counts for some part or not at all. `OpenFile` and `CloseFile` are the
ends of `write_bytes()`. Any of them may fail, the disk fill up and the process
stop between any two. Documents have one size. History variables: `usedFor`,
the time since a tool touched the session; `overtaken`, the sweeps that found a
session expired that was used since; `crowd`, the most writes of a session that
were ever measured and written at a time.

`SearchChain`: a search goes down the chain, skips engines in pause or without
time left, waits for the slot it reserved, asks, and pauses the engine if it
fails. Pauses and slots belong to the engines. `sentAt` is a history variable.

### MCParts

`StdioUpstream`, `SearchChain`, `WebCache`, `ConfigWatch`, `ConfigLayers`,
`DocsSessions` and `TokenStore` share no state with each other. `MCParts`
checks them in one run as a sum: `Init` chooses which part a behaviour is of,
and the others rest. A product would cost the product of their states and show
nothing more of any of them.

## Checks

| Run | What it asks | Bounds |
|---|---|---|
| `HttpUpstream` | `OneService`, `NoOrphanService`, `SessionServed`; requests given up (`NotStranded`), `start()` woken (`StartWoken`), orders to stop obeyed (`StopReachesService`); the refinement of `RemoteSession` (`ImplementsSession`) | 2 restarters, 1 request, 2 generations: an old and a new task, two restarts at once |
| `HttpUpstream_unguarded` | violation of `EveryRequestGuarded` | 1 restarter, 1 listing |
| `VolatileSecrets_deposits` | `OneBuildPerKey`, `RefusedOnce`, `VerdictsCoherent` | 1 key, 2 consumers, 2 values, 3 submits; memory of 1 refusal, so that it overflows |
| `VolatileSecrets_forget` | `AcceptedIsServed`, `CacheNeverCites`, `SurfaceFreshAlone`, `EveryRequestAnswered` | 1 consumer, 2 values of which one is quoted, 2 submits, 1 forget |
| `VolatileSecrets_surface` | violation of `SurfaceFresh` | 2 keys, 2 submits |
| `SelfUpdate` | `OneUpdateAtATime`, `NoExitDuringUpdate`, `NoSilentUpdate`, `NeverBackwards`, `NewcomerHintedUnlessCut`, `UpdateRuns` | 2 applies, 1 restart, 1 prober, 1 call, 2 versions (one of MIAOU alone, one broken), 3 launches |
| `Authorization` | `LinkAwaited`, `WaiterReachable`, `RouteWoken`, `NeverLeftInteractive`, `DueLoweredByToken`; the refinement of `Consent` (`ImplementsConsent`); `EveryRequestServed` | 2 clicks, 1 call, 1 renewal; 1 request per run |
| `Gateway` | `GatewayTypeOK`, `NothingOutlives`, `NothingHidden`, `CatalogNeverBackwards`, `EveryRequestEnds` | one upstream of each kind (HTTP with OAuth, stdio, waiting for a secret), 2 requests of any sort, 2 versions of a catalogue, 2 pages |
| `Gateway_skills` | violation of `PendingSkillsKept` | the same, 1 request |
| `Parts` | `SubprocessLeaves`, `ImplementsSession` (stdio); `EnginesSpared`; `EntryCoherent`; `RestartSound`; `MigrationKeepsConfig`; `SessionsKept`; `TokenSound` | 2 requests; 3 searches, 2 engines, 8 instants; 3 visits, 2 pages; 3 checks, 4 contents, 3 changes, a cache of 2; objects of depth 3 over a key and a comment; 3 calls, 3 documents, a quota of 1, 2 units of time; 3 tokens of 3 lives, 14 instants |
| `WebCache_structure` | violation of `StructureOfPage` | 3 visits, 2 pages |
| `TokenStore_window` | violation of `WindowSampled` | tokens of 2 lives |

The bounds are enough for every pair of operations to meet: an older and a
newer generation are the only two a service task can tell apart; a key's lock
has a holder, a waiter and an adopter; an update meets another update, a
restart, a probe and a call, and its relaunch may be followed by one more, so
that `UpdateRuns` asks which version it launched; two runs, a call and a renewal compete for one
provider. A run sends three or four requests in the code; which of them is
refused makes no difference to any property, as the lock is released between
them and another flow may come in before the first and after the last. The
safety properties were also checked with two requests per run. In `Gateway` a
listing meets another, a collection or a call at every turn, and every event of
an upstream; a third request would meet the same. In `Parts`, three searches
make two that queue and one that fails under them; a cache of two verdicts
overflows on the third content; a fetch, a listing and a reading of one page
interleave; three calls make a write, a write that measured meanwhile and a
sweep or a drop that removes what was measured; the lives of tokens lie on both sides of the caps of the margin and
of the period. Keys do not share state but for the surface, hence one key
except there. Every run stops where its bounded
requests are used up, so deadlock is not checked, but for `Gateway`, which only
rests once the lifespan is over.

The five violation runs show where the code does not do what one of its
comments or documents says; `findings` in `PROJECT.json` quotes each line.

1. `tools/list` is not guarded against the death of the service (`upstream.py:942`).
2. Two publications that overlap leave an older surface (`miaou-contract.md:405`).
3. A collection of skills that outlasts the oblivion of a secret erases the skills
   that the waiting upstream was to be served from (`skills.py:224`).
4. A structure extracted from a page that was fetched again meanwhile is
   stored after the drop, and served with the new page (`cache.py:175`).
5. Where a server shortens its tokens, the loop sleeps the period of the long ones
   and finds a dead token (`auth.md:391`).

Other disagreements are stated as properties, which TLC violates, but have no
run of their own: two service tasks of one upstream can live at once
(`AtMostOneService`, `upstream.py:872`); the state read "at once" after an
update of MIAOU may be that of a probe begun before the merge
(`AnsweredIsPublished`, `updater.py:286`); an exit with 43 over an update
merged by an abandoned thread withholds the hint (`NewcomerHinted`,
`supervise.sh:61`); the page says that the upstream asked for nothing while its
run still waits for an answer (`PageTrue`, `authorizer.py:1123`); a search let
in before a pause asks the engine in pause after its wait (`PauseRespected`,
`ddg.py:31`); an engine whose key was refused is to be out until the server
restarts, and a search that was at it and times out after the refusal makes
that 60 s (`RejectedStaysOut`, `search/common.py:31` and `124`, against
`search/__init__.py:109`).

Three behaviours of the code that contradict no line of the repository, and
that the properties therefore allow by name: a process serves beside newer code
after a rollback that failed (`NoSilentUpdate`); a sweep that found a directory
expired removes it although a call has touched it, or written into it, since
(`InUseStays`); writes that are measured together pass the quota by as many as
they are, less one (`QuotaHeld`). A part of a document, of a write that goes on
or was cut, is served as a whole one would be, and never written again: the
model does it, and no property is about it.

The hazards that no property covers are listed as such in `PROJECT.json`, each
with the reason. Nothing is claimed of the end of a `tools/list`, which has no
bound of its own: a mute stdio upstream holds a `tools/list`, and the boot's first listing, for as long as its
process lives.

### Fairness

Weak fairness on the steps of tasks that can run: the loop serves its ready
tasks in order. Beyond it, each module assumes what its environment must end: a
transport ends its handshake and its closing (its HTTP client has a read
timeout of 300 s), but maybe after the 30 s waits gave up; a build ends
(nothing in the proxy bounds it: an assumption on the server modules); git is
bounded by its timeouts and the shutdown by its grace (in `SelfUpdate`: the exit
once asked, the relaunch, the threads, the handlers cut by the shutdown and the
probe; no handler is assumed to resume, and no one to ask or to push); a request of the
authorization by its client's timeout, the wait for the browser by its own
bound of 300 s. In `Gateway` the bounds of a call and of a page
(`call_timeout`) pass, and a tool of an in-process upstream returns; the modules of `Parts` have no liveness property. Never assumed otherwise: that any
other bounded wait expires, that a remote server answers, that a user comes
back from the authorization server, that a client asks, stays or leaves, that
anybody pushes.

## Proofs

`HttpUpstream_proofs` proves, for any sets of restarters and requests and any
number of generations, `Spec => []TypeOK`, `[]SessionServed`,
`[]NoOrphanService`, `[]OneService` and `ImplementsSession`, from the one
assumption `UpstreamAssumption` (at least one generation, unguarded requests
among the requests). None of these invariants is inductive by itself. The
inductive one is

    IInv == TypeOK /\ Generations /\ SessionServed /\ Calm

`Generations` says that tasks and events exist only up to `events`, and that
what a restarter awaits and a service obeys is one of these. `Calm` is what
holds while nothing is disturbed: at most one restarter is busy, and what its
phase says of the service; the live task is the current one. It is needed
because `StopReturns` spawns a new service and is safe only since the event it
was woken by was set by the end of the old one. Each conjunct has a lemma for
its step; `Invariance` combines them, and the four invariants are read off it.
The refinement needs the types only: a step that does not open a session leaves
`Link` as it is or shows a start or a closing, and the one that opens it does
so from a handshake.

`VolatileSecrets_proofs` proves, for any keys, values, consumers and requests,
and any size of the memory of refusals, `TypeOK` and the six safety properties
of the passing runs, from `SecretsAssumption`. Its invariant is

    IInv == TypeOK /\ Locked /\ Memory /\ AcceptedIsServed
              /\ CitingForbidden /\ Judged /\ ChangesPublished

`Locked`: a task that tests or builds holds the lock of its key, and its value
is not among the refused ones while it builds; `OneBuildPerKey` follows from
it. `Memory`: the memory of a key is the end of its history of refusals, as
long as `MaxRejected` allows, and `RefusedOnce` itself; a value that is refused
was not in that end, hence the distance. `CitingForbidden`: an instance that
quotes its secret was marked in the very step that adopted it, so no listing
writes it. `Judged`: up to the place the holder has reached the verdicts are
those of its deposit, and it stopped only after a refusal. `ChangesPublished`:
who changed an instance will still publish, and what it collected is current as
long as nothing overlapped. There is a lemma per action, and lemmas for the
parts that an action leaves alone.

`SelfUpdate_proofs` proves, for any numbers of requests, versions and launches,
`TypeOK` and the five safety properties, from `UpdateAssumption`. Its invariant
is

    IInv == TypeOK /\ Alone /\ Goals /\ (~abandoned => Held) /\ Launched

`Alone`: one application at a time and none once an exit is asked. `Goals`: a
thread that merges has a goal ahead of what it found. `Held`: while no handler
left its thread, a thread at work has a waiting handler and finds the clone as
it read it; the clone is ahead of the process only if the exit is asked, the
handler is about to ask it, or a failed merge was not undone, which alone leaves
the tree modified over other code than the process runs. `Launched`: what a launch leaves. Its one
arithmetic lemma, `RestartSplits`, says that two updates of MIAOU alone make
one of MIAOU alone; without it `Held` would not survive the second of two
updates.

`StdioUpstream_proofs` proves `SubprocessLeaves` and the refinement of
`RemoteSession`, for any requests and with no assumption. The invariant ties
the stage of the caller to that of the service task (`Stages`) and says that
what is asked reaches it (`Asked`): a cancellation finds the scope of a task
that runs, or waits for it to open; a task that says it ended has, with its
subprocess. So the first wait of `_shutdown()` gives up only on a task that is
closing.

`Gateway_proofs` proves, for any upstreams in any order and any requests, from
`GatewayAssumption`, `GatewayTypeOK`, `NothingOutlives`, `NothingHidden` and
`CatalogNeverBackwards`. Its invariant is

    GatewayInv == GatewayTypeOK /\ Known /\ DueAhead /\ Booting /\ Owed /\ NothingOutlives

`Known`: the cache holds only what was listed. `DueAhead`: what a listing owes
is at or after the upstream it asks, in the table, and live or in the cache; so
nothing is owed past the end. `Booting`: starts belong to the boot. `Owed`: an
upstream that is not closed is owed a stop, still starting, or ends with the
task group. The lemmas `FirstFound` and `ListEffect` say once what a run of the
loop of `tools/list` does; `FirstFound` takes the least position from the
well-foundedness of `<`.

`Authorization_proofs` proves, for any clicks, calls, renewals and requests of
a run, from `AuthorizationAssumption`, `TypeOK`, the four safety invariants of
`Authorization`, the action property `DueLoweredByToken` and the refinement of
`Consent`. The inductive invariant is

    AuthorizationInv ==
      /\ Ordered /\ Exclusive /\ LinkAwaited /\ NeverLeftInteractive
      /\ ~doubled => Alone /\ Armed
      /\ WaiterReachable /\ RouteWoken

`Ordered`: the types, that a run with a request in the provider is still
asking, and that a run starts before its route waits. `Exclusive`: one flow is
in the provider, which is the lock. It gives `LinkAwaited` without condition:
the published rendezvous is that of the flow in the provider, and whoever
leaves clears it. `Alone` and `Armed` hold while no two runs overlap: only then
is the run that ends the one whose rendezvous it forgets, and the event the one
of the route that waits. `RouteWoken` needs a lemma of its own, `DormantStep`:
a route that is not woken after a step was not before it, and the step neither
ended its run nor published a rendezvous. For the refinement, a step inside the
provider moves the one asker (`AskerAlone`) and any other leaves him alone
(`Elsewhere`); a run that ends withdraws the link.

The same module holds the results on `TokenStore`, from `TokenAssumption`:
`RecordKept` without condition, and `TokenSound` for lives of two units or more
(`LongLived`): a token of one unit ends before any loop can look twice, as a
period is at least one unit. The invariant `Watched` says that in calm times
the file holds the announced deadline and a loop that sleeps as it must wakes
before that.

`Servers_proofs` is about the servers of the process.

* `EnginesSpared`, for any chain and searches, from `SearchAssumption`: the
  invariant orders the slots. The searches that wait for an engine hold slots
  at least an interval apart, between its last request and its next free slot.
  That a refused key keeps its engine out, once no search is at it, follows from
  the pause being longer than the clock can reach: who is not there is not let in.
* `EntryCoherent`, for any addresses, visits, ages and time to live, from
  `CacheAssumption`. It is far from inductive: whether a sweep leaves an entry
  coherent depends on ages. The invariant is

      CacheInv == CacheTypes /\ Signed /\ Known /\ Filed

  `Filed` says of each entry that is not tangled that a sweep cannot part what
  belongs together (`Together`: the HTML is not older than the text and the
  structure made of it), unless a visit is converting its page. `Known` says
  what such a visit, and one that extracts a structure, may count on: the page
  it stored or read is still the entry's, just touched, or the entry is empty
  (its HTML was another's, through an alias). `Signed`: a text and a page are
  those of a visit that has done with them.
* `SessionsKept`, for any sessions, documents, calls, quota and time to live,
  from `DocsAssumption` (documents and calls are finite in number: the usage and
  the crowd are cardinalities). The invariant is

      DocsInv == DocTypes /\ Touching /\ Condemned /\ Seen /\ Room

  `QuotaHeld` is far from inductive: a call may measure before others write and
  pass after them, and a document removed meanwhile lets pass those that would
  not have. `Room` counts, for any number `k` of documents that may yet be
  removed, the measures that would then fit: what is whole, what is being
  written and those measures stay within the quota, the crowd and `k`. `Seen`
  says that what a measure cannot miss is there. `Touching`: a directory is not
  older than the last use of its session; `Condemned`: a sweep that removes a
  session found it expired, and it is unless it was used since.

`Config_proofs` is about the configuration.

* `RestartSound`, for any contents, checks and bounds, from `WatchAssumption`:
  while the port is free, whoever has asked has seen it free (`SeenFree`), no
  check has a verdict before its validation (`Undecided`), and making room
  leaves room (`Room`).
* `MigrationKeepsConfig`, for any keys, scalars and depth, from
  `LayersAssumption`. `LighterSaysTheSame` is the theorem about `slim()` it
  rests on: over a base without nulls, which is what a merge gives, the lighter
  layer gives what the heavy one gave, comments apart. The operators are
  recursive functions, and such a definition means something only if the
  function exists: the lemma `Recursion` gives a function that satisfies any
  recursion on a rank, and `JsonDef`, `StripDef`, `MergeDef` and `SlimDef` apply
  it. Inductions over values are about sets of them (`LeastNumber`,
  `EveryNumber`, `EveryValue`), for the library's induction theorems take an
  operator. `CommentsDoNotMatter` says that a merge does not look at comments;
  `SlimKey` compares, key by key, what the two layers make of the base. The
  invariant of the migration, `LayersInv`, says that `config.json` holds one of
  two whole contents (`OneOrTheOther`), the lighter one only beside a whole
  backup, and what each step has on disk (`Staged`).

Every inductive invariant was checked by TLC on the instances of the runs
before it was proved; in `LayersInv` the part `NullFree` quantifies over sets of
values and was left to the proof, and in `DocsInv` the `k` of `Room` was bounded.

Model-checked only: the liveness properties `NotStranded`, `StartWoken`,
`StopReachesService`, `EveryRequestAnswered`, `UpdateRuns`,
`EveryRequestServed` and `EveryRequestEnds`. They rest on weak fairness, hence
on `ENABLED`, which the tools used cannot reason about. Every other property of
a passing run is stated by a theorem.

## Plan

Written: all the modules above, with proofs of each of them. Left:

1. An abstract update (asked, merged, told, run) that `SelfUpdate` implements
   while no handler leaves its thread.
2. An abstract deposit, one value at a time per key, that `VolatileSecrets`
   implements; `Gateway` takes a deposit as one step.
3. That in `Gateway` each remote upstream is a `RemoteSession`, so that what is
   proved of the proxy holds over the upstreams as they are modelled alone.

## Not modelled

Parsing of pages and documents and their search, the guards on addresses,
formatting of reports and of errors, static files, incoming token validation (a
library's), OAuth diagnostics, the shared set-up of the servers, the stateless
servers, the development authorization server: data or input and output,
without an order of events a property could be about. Inside modelled
components: the command line and the validation of a configuration
(`prepare_config` is an outcome in `ConfigWatch`), the names and schemas of
tools, the pages of a remote `tools/list` (one answer here), and what threads
do to each other inside one call of the page cache.
