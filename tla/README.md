# Formal model of kuard, the Multiplicador operator and their services

The repository accompanies *Kubernetes: Up and Running*. Most of it is
manifests and notes; the programs with logic of their own are

* **kuard** (`src/kuard`, Go and a React client), a demo server whose parts are
  an in-memory queue broker (MemQ), a key generator that may consume from it,
  debug probes, a memory hog and a few stateless handlers, each with a page;
* the **Multiplicador operator** (`src/ejemplos/17 Extending Kubernetes`), in
  a polling version (`operator-multiplicador`) and an event-driven one
  (`operator-multiplicador-v2`);
* two small Express services, **primos** and **multiplica**.

This directory holds TLA+ modules for the broker, the key generator and the Job
that runs it, kuard's pages and their web client, the event-driven operator and
both services; the TLC configurations that check them; and proofs about all of
them. Below, `main.go` is that of `operator-multiplicador-v2` unless said
otherwise.

## Inventory

| Part | State | Operations | Talks to | What is hard | What makes it correct |
|---|---|---|---|---|---|
| MemQ broker, `kuard/pkg/memq/server` | map of queues under an RWMutex; per queue the messages and four counters under another | create, delete, drain, enqueue, dequeue, stats | HTTP handlers, one goroutine each | two levels of locks; a queue found and then deleted; a walk over all queues | counters balance, FIFO, no message twice, consistent rows, atomic operations, every request answered |
| MemQ client, `memq/client` | none | the same over HTTP | broker | lost requests and answers, no retries of its own | an error says nothing about the effect |
| KeyGen, `keygen` | configuration, history, one worker | PUT/GET, restart, the two workers | MemQ client | a cancelled worker still runs; LoadConfig writes without the lock; `os.Exit` from a stale worker | at most one worker not cancelled, which runs what is stored; bounded ordered history |
| Work-queue Job, `ejemplos/12 jobs` | Job status | five consumers, one loader | broker | a dequeued item dies with its consumer | no item done twice, one lost per fault at most, the Job completes |
| Debug probes, `debugprobe` | countdown of failures, history | probe, PUT, GET | kubelet | PUT during a countdown | exactly N failures follow a PUT of N |
| Memory API, `memory` | list of leaked blocks | alloc, clear | handlers | no lock at all | the list is a leak on purpose: nothing is promised |
| Web client, `client/src` | the page shown, its last answers, intervals, a banner | navigate, poll, edit, submit | kuard API | late answers, also of pages that were left; intervals; errors in a row | shows what is this page's, in the end the truth; keeps what is typed; tells of errors |
| Operator v2 | work queue; everything else is in the API server | reconcile, clean up | API server, informers, garbage collector | two workers, stale copies, ignored errors, a proxy shared by CRs, restarts | what the CRs ask for exists, and nothing else |
| Operator v1 | none between rounds | a round every five seconds | API server | copies as old as the round | as v2 |
| primos, multiplica | none but that of the request at hand and the connections | compute, burn CPU and memory, shut down | HTTP clients, kubelet | one thread that loops block; SIGTERM with connections open; bounds of the trial division | the primes up to n, no request waits for ever, a graceful end |
| application shell, dns, env | none that changes | render, look up | - | - | - |

Components are linked as follows: producers and KeyGen's queue worker call the
MemQ client, which calls the server's handlers, which call the broker; the
kubelet calls the probes; users write CRs, whose events fill the operator's work
queue, whose two workers write Deployments, Services and HTTPProxies; events of
Deployments come back into the queue; the garbage collector follows the owner
references the operator sets. `PROJECT.json` lists the hazards line by line.

## Modules

| Module | Stands for |
|---|---|
| `RWMutex` | the value of a Go `sync.RWMutex` (external) |
| `MemQBroker` | `broker.go` and `api.go`: one action per lock, unlock and map or queue access |
| `AtomicBroker` | what the broker promises: each operation at one instant, without locks |
| `MemQBrokerProperties`, `MemQBrokerProofs`, `MemQBrokerRefinement`, `MCMemQBroker` | properties, refinement mapping and inductive invariant; proofs; proof of the refinement; symmetry for TLC |
| `KeyGen` | `keygen/*.go` and the MemQ client's `Dequeue`: the workers of several processes, the PUTs that reconfigure them, a queue, crashes |
| `KeyGenProperties`, `KeyGenProofs`, `MCKeyGen` | properties; proofs; the configurations |
| `DebugProbe` | `debugprobe/*.go`: each handler, under its mutex, as an operator on a probe |
| `KuardPages` | the server behind the pages, as operators on its state; uses `DebugProbe` |
| `Disconnected` | the banner, `disconnected.jsx` |
| `WebClient` | pages, router, intervals, fetches and callbacks of `client/src`; composes `KuardPages` and `Disconnected` |
| `WebClientProperties`, `WebClientProofs`, `DebugProbeProofs`, `MCWebClient` | properties; proofs; tours of the pages |
| `TrialDivision` | the two loops of primos, one turn at a time |
| `ExpressService` | both Express services: routes, the one thread, connections, SIGTERM; uses `TrialDivision` |
| `ExpressServiceProperties`, `ExpressServiceProofs`, `MCExpressService` | properties; proofs about the loops and the service; numbers and loads |
| `WorkQueue` | the value of a client-go work queue (external) |
| `Operator` | `main.go`: events, queue, workers, one action per call to the API server |
| `OperatorProperties`, `OperatorProofs`, `OperatorAtRestProofs`, `MCOperator` | properties; proofs of what always holds; of what holds when the operator rests; the specs users give their CRs |

Each module of a component keeps the names of the source. Definitions above
another one whose comment says "the mutant" are faulty variants of the latter,
a bug each that the properties are tested against; nothing else uses them.

### The broker

A handler is a goroutine that serves one request after another. Its `pc` says
where it is, `q` is the queue it found, `walk` the queues Stats has still to
visit and `rows` what it has collected. `Arrive` picks a request;
`LockBroker`, `RLockBroker`, `LockQueue` and the unlocks are the lines that take
and release `b.mu` and `q.mu` (deferred unlocks run last in, first out); the
other actions are the code between two of those. A Go RWMutex is not a plain
readers-writer lock: a writer that waits shuts out new readers, so the model
has a step in which a writer announces itself and one in which it gets the
lock. Queue objects have an identity of their own: a handler may hold one that
is no longer in the map, as the comment above `getQueue` warns, and put a message
into it; the ghost variables `arrived` and `taken` record for every object what
was appended and what was handed out.

Within a critical section the counters and the message list are written in
separate steps, in the order of the code. That is what makes it meaningful
to say that nobody sees them halfway.

### The workload

`KeyGen` has a number of processes. `config` is `KeyGen.config`, `cancel` the
worker whose context `cancelFunc` cancels, `workers` all goroutines ever
started, each with the copy `c` of the configuration that it was given. A PUT is
three steps, because `LoadConfig` writes the fields without the mutex and then
calls `Restart`: two halves of the configuration, then `RestartWorker`, which
reads what is stored by then, be it of this PUT or of another. A torn
configuration, half of one PUT and half of another, does persist; what
`RunsTheConfig` claims is that the worker runs what is stored, so that the page
does not lie.

A worker checks (`workloadIsDone`, `memQWorkerIsDone`), asks the queue
(`Dequeue`), receives, generates a key (`generateKey`). The broker is the queue
that `AtomicBroker` describes, since `broker_safety` shows that the broker
implements it: `Dequeue` takes the head at once, before the answer travels.
`Lose` loses a request or an answer; both look alike to the consumer. `Crash`
ends a process anywhere; what it had asked for is still taken from the queue
(the state `"orphan"`). Some of what the code does is easily overlooked: `select`
picks either case when a context is cancelled and its time is over, so a
cancelled workload may still end the process; a cancelled queue worker that
finds the queue empty does so always; and `http.DefaultClient` has no timeout,
so a request ends only when its connection does.

A behaviour tells one of three stories: `"form"`, a Deployment whose form is
submitted by concurrent requests; `"job"`, a Job whose Pods start when the queue
is loaded; `"early"`, one whose Pods start before. In the last one consumers
retry while there is no queue, take an empty one for the end, and leave what is
loaded later, so `NothingLeft` is claimed only of the second. Left out: the
CronJob that starts such a Job every minute, and the end of the broker's own Pod,
which loses the whole queue.

### The pages and their client

`KuardPages` is the state behind the pages; `WebClient` the browser. `path` and
`view` are the router's page and the state of its component, `timers` the
intervals, `net` the connections with one request each. A request is sent,
possibly written in a step before its answer is computed, answered, delivered;
it may fail at any stage (`Lose`), also after it was carried out, and requests
overtake each other as they like. `handleNavigation` unmounts a component: its
interval is cleared, while its requests go on, marked as no longer `mounted`;
React drops what they would set, but their `catch` still reports errors. An
allocation reads `m.leaks` in one step and writes in another (`Begin`,
`Write`), as `api.go` does without a lock; nothing is promised about it.
`Restart` is a restart of the container, `Meanwhile` what the kubelet, the
workload and producers do.

`Shows` is what `render` shows of a component's state, `Truth` what it would
show of the server as it is; the ghost `since` collects the truths since the page was
opened, `typed` what the user has typed and nothing may overwrite.
`Disconnected` counts seconds: an interval that is not cleared goes on.

Abstractions. Polls may come at any moment rather than every second. A fetch
waits for a free connection. Queue names are numbers, in the order of the names.
A click on the link of the page shown only renders again, and is left out.
`ServeJSON` answers the list of queues in any order, because Go's maps do.

Observed and kept in the model: an old answer that arrives late replaces a newer
one until the next poll, so that only eventual agreement holds; edits of the
form before the initial answer, or while a PUT is under way, are lost; the loads
of Memory and Env and the query of DNS have no `catch`, so the banner never tells
of their errors. Observed and outside the model: `App.reportConnError`
calls a `loadState` that `App` does not have; `probe.basePath` stays empty
(`probe.go:43` has its test the wrong way round), so the page is told an empty
path.

### The Express services

A handler runs to its end before the next callback. `Ready` requests wait in
accepted connections, connections wait in the backlog until `Accept`. A client
connects, asks as often as it likes or never, after `server.close` too, and
leaves when it awaits no answer; how often is not bounded. The loops of
`GET /primos/:number` are one action per turn (`obtenerPrimos`), and nothing
else of that process happens between them; other answers take no time. A
`Search` has the variables of both loops: `d` is the variable `i` of `esPrimo`.
`OnSigterm` is `server.close`: the backlog is reset, accepted connections stay,
and `Exit`, the callback, waits for the last one to end.

The services run on node 18 (their Dockerfiles), whose connections are modelled
by what they may do to a request. `keepAliveTimeout` counts from the last answer
on a connection. `headersTimeout` counts from the accept, and is looked for by
an interval that `server.close` clears: a connection on which nobody ever asked
(`"fresh"`) then has no timer left. The event loop runs its timers before it reads sockets,
so a timer that ran out during the loops of another request ends a connection
whose own request has come and is unread: it is `Cut` off. And
`server.close` of this version ends no accepted connection and says
`Connection: close` to nobody. So a client that keeps asking, or one that never
asks, keeps the process alive until the kubelet kills it, and `ShutsDown`
claims the end only of a process whose clients do neither; `EveryRequestSettled`
claims an answer only for the first request of a connection after
`server.close`, and of the others that they do not wait for ever.

`Abort` is V8 running out of heap. Parsing is a choice from `Numbers` and `Loads`, `NaN`
included. Numbers are integers: multiplica's may have a fraction in the code.
`consumirCPU` computes nothing that is answered.

### The operator

`store` holds the objects of the API server, CRs, Deployments, Services and
HTTPProxies; `events` the CRs with an undelivered watch event; `wq` and
`delayed` the work queue and its rate limiter. A worker has an item
`key`, its copy `u` of the CR, perhaps a copy `obj` of a proxy, and the set
`seen` of objects that have not been written since it read them: an Update
goes through only for those (optimistic concurrency), and every write that
changes an object takes it from everybody's `seen`, the writer's included,
because `main.go` never looks at the object an Update returns. This has a
consequence one does not see in the code: the first Update of a reconciliation
(line 328) makes all later writes to the CR conflict, silently, and only the
event it causes brings a second reconciliation in which they succeed.

Each action of a worker is one call with the code up to the next: `GetCR`
(with `Dispatch`, the branch on deletion and validity), `Annotate`, then
`GetChild`/`CreateChild`/`UpdateChild` for the Deployment (`ensureDeployment`)
and again for the Service (`ensureService`), which the code treats alike,
`UpdateStatus` and `Fallback`, `LeaveOldProxy`,
`GetProxy`/`CreateProxy`/`UpdateProxy`, `Record`, and for a deleted CR
`cleanupProxyForCR` and `Unfinalize`. `Finish` is `Forget` or
`AddRateLimited`, then `Done`. Where the code ignores an error, so does the
action. Users create, edit and delete CRs and meddle with Deployments; the
garbage collector removes objects whose owners are gone; `Restart` stops the
operator anywhere and starts it with an empty queue and the informers' list.

Abstractions. Replicas and multiplicador, which the code handles alike, are one
number, `mult`. A status is the number it reports. Routes are sets of
prefix and service, not sequences; a host is a sequence of parts, because the
code turns its dots into dashes. Several undelivered events of a CR are one:
the work queue would merge them, and fewer reconciliations are the harder case
for what must hold in the end. A failed call has no effect; one that is
carried out and whose answer is lost is not modelled, though a restart right
after the call comes close. An Update of a Deployment or Service that would
give it a second controller is refused, as the API server does. The owner
look-up in Deployment events is the name of the Deployment. Nobody but the
operator and the garbage collector touches Services and proxies.

## Runs

Bounds are in the configurations and the MC modules; TLC explores all states
within them.

| Run | Instance | Shows |
|---|---|---|
| `broker_safety` | 3 handlers, 1 name, 3 queue objects, 2 messages | types, inductive invariant, `Ledger`, `StatsNotTorn`, `FirstInFirstOut`, `NeverReplaced`, no deadlock, refinement of `AtomicBroker` |
| `broker_names` | 2 handlers, 2 names, 3 objects, 2 messages | `StatsNotTorn` and `DirectoryStable` when Stats walks two queues |
| `broker_contention` | 3 fair handlers, no message gets through | `EveryRequestAnswered` |
| `workload` | 2 processes, 2 PUTs, 4 configurations, 3 items, 2 faults, all stories | `OneLiveWorker`, `RunsTheConfig`, `StopsSoon`; `Accounted`, `NothingLeft`, `JobCompletes` |
| `client` | 2 connections, 4 tours of two pages, 3 events, 1 fault, 1 navigation | `FromThisVisit`, `BannerShown`, `FormKept`, `ProbesAsAsked`, `HistoriesComplete`, `Converges`, `Quiet` |
| `services` | 2 clients, any number of requests, numbers up to 122, fair | `PrimesRight`, `Graceful`, `EveryRequestSettled`, `ShutsDown` |
| `op_single` | 1 CR with 3 specs, 3 edits, 1 restart, fair | `Deployed`, `Routed`, `StatusTold`, `NoLostEdit`, `Settles`, `DeletionCompletes` |
| `op_shared` | 2 CRs of one host, 2 fair workers, no status | `OneWorkerPerKey`, `Routed`, `RoutesKept`, `Settles` |
| `op_no_status`, `op_cleared`, `op_lost_route`, `op_stuck` | 1 or 2 CRs | the findings below |

### Why the bounds are enough

Handlers of the broker interact through two locks and
one queue: three of them give a reader, a waiting writer and a second reader,
the smallest case in which waiting orders matter, and a drain, a put and a get of
one queue at once. Three objects let a name be deleted and created again twice
while a handler still holds the first one. Two messages make order
visible. Stats sees more than one row only with two names, hence `broker_names`.
`broker_contention` lets every enqueue fail in `newMessage`: messages do not
change who waits for which lock, and without them three handlers stay small
enough for a liveness check; progress needs all three, since a reader that
overtakes a waiting writer needs another reader to hold the lock.

Two PUTs can mix, and two faults hit both Pods of a Job or one of them
twice; three items are one more than there are Pods, so that somebody has to
come back. The configurations of `workload` enable and disable, are limited by a
number, by time or by a queue, and exit or not.

The client's pages matter to each other only in pairs, the one that is left and
the one that is opened, and components differ more than their combinations:
the tours pair the two probes, which share a component; two pages with
a form; a page that polls with one that does not. Two connections are
enough for answers to overtake each other and for an answer of a page that was
left. A history of two entries is full after two calls. `MaxEvents` bounds
clicks, edits and what others do, `MaxFaults` lost requests and restarts,
`MaxVisits` navigations.

The services' numbers lie on both sides of every check, and behind the squares of
5, 7 and 11 where a wrong bound of the loop would show; the loads at each limit of
the heap and of `new Array`. Two clients are one whose loops run and one who
waits, connects or leaves meanwhile; requests are not counted.

The operator's CRs interact only through the work queue and a shared
proxy, so two CRs and the code's two workers show every kind of overlap;
what needs a sequence of edits (host changed, deleted and recreated, restarted
in between) happens to one CR with three edits. `MaxEdits` bounds the users,
`MaxFaults` failed calls (0 in the passing runs: one failure is
enough to break the guarantees, see below), `MaxCrashes` restarts.

Deadlock is checked for the broker. In the other runs the system may rest: users
are done, a Job is complete, a process has exited.

`StatusAllowed` and `StatusKept` say whether the ClusterRole lets the operator
call UpdateStatus and whether the CRD's schema keeps a status. The repository's
manifests do neither, and `op_shared` runs with them as they are; `op_single`
assumes both, as for a developer with administrator's rights and a schema that
declares the status, so that `StatusTold` says something about `main.go`.

### Fairness

Broker: a goroutine that can run does (`WF` of `Step`), and one that waits for
a mutex that is free again and again gets it (`SF` of `Acquire`): Go's
mutexes wake their waiters in turn and hand over to a waiter that starves.
Requests need not arrive. Operator: both workers run, delayed keys are
added when their delay ends, watch events are delivered and garbage is
collected (`WF` of each). Workload: the kubelet starts containers, goroutines
run, the broker answers, and the producer's script creates its queue (`WF`); items
need not be enqueued, nor PUTs arrive. Client: intervals go on, seconds
pass, requests are served and settle (`WF`); nobody needs to click. Services: the
loops go on and the callback of `close` runs when it may (`WF`); node's event
loop gets round to every connection and to a signal though loops keep it busy in
between (`SF`); a connection that has been answered and on which nobody asks ends (`WF` of
`KeepAliveTimeout` while nothing is pending), one that was never used need not. Users, failures, restarts and signals owe nothing anywhere.

## What the runs found

Each is a comment or manifest of the repository that the code does not live up
to; `PROJECT.json` quotes it.

1. `op_no_status`: the status of a CR is never written with the manifests given.
   The ClusterRole lacks `multiplicadores/status`, the fallback `Update` leaves
   the status alone because the CRD has the status subresource, and the schema
   would prune it anyway.
2. `op_cleared`: a CR whose `ruta` is removed keeps its route: the operator
   returns before it looks at the proxy on record.
3. `op_lost_route`: a clean-up deletes a shared proxy that another CR has joined
   since it was read. Nothing watches proxies, so the route does not come back
   until the other CR is touched.
4. `op_stuck`: one failed Update leaves a deleted CR with its finalizer.

Seen in the model too, without a run of their own. The finalizer comes only with
the second reconciliation, so a CR deleted earlier leaves its route in the shared
proxy; likewise a ruta changed before the proxy is on record leaves the first
route. A transient error of the first read counts as the absence of the CR and
drops the key. The hosts `a.b` and `a-b` share a proxy, and one loses its virtual
host. Where UpdateStatus works, an invalid CR never gets the annotation
`valid=false` (line 309 writes the status subresource, which drops annotations).
The comment above `getQueue` says that `DrainQueue` throws a queue away, which it
does not. `main_test.go` of the first version sets a field `multiplier` that the
code does not read.

## Proofs

`tlapm` checks all proofs to the last leaf. They hold for every value of the
constants under the named assumptions of the modules, which TLC evaluates in the
runs.

| Theorem | Says, for every instance |
|---|---|
| `MemQBrokerProofs!Invariance` | the inductive invariant of the broker |
| `MemQBrokerProofs!TypeCorrect` | no nil queue or message is ever used |
| `MemQBrokerProofs!LedgerHolds` | `Depth` is the number of messages, and enqueued = depth + dequeued + drained, whenever the mutex is free |
| `MemQBrokerProofs!StatsRowsBalance` | no row of Stats is torn |
| `MemQBrokerProofs!DirectoryIsStable` | Stats and DrainQueue use queues that stay in the map |
| `MemQBrokerProofs!NothingReplaced` | concurrent creations never drop a queue |
| `MemQBrokerProofs!FifoHolds` | what a queue hands out was appended to it, in that order, none twice; those neither handed out nor left are as many as were drained |
| `MemQBrokerRefinement!Refinement` | the broker with its locks implements `AtomicBroker` |
| `KeyGenProofs!OneWorker` | at most one worker of a process is not cancelled, and `cancelFunc` cancels it |
| `KeyGenProofs!ConfigRuns` | when all PUTs have ended, what runs is what is stored |
| `KeyGenProofs!WorkerStops` | a cancelled worker generates at most the key it was at |
| `KeyGenProofs!ItemsAccounted` | no item is done twice, and a Job loses at most one per fault |
| `KeyGenProofs!JobLeavesNothing` | a Pod of a loaded Job completes only on an empty queue, which stays empty |
| `WebClientProofs!PagesTyped` | a component has the fields of its constructor |
| `WebClientProofs!ShowsThisVisit` | a page shows only what the server had for it since it was opened |
| `WebClientProofs!FormStays` | what is typed into the workload's form stays |
| `WebClientProofs!BannerCorrect` | the banner is shown for two seconds after the last error and no longer |
| `WebClientProofs!ProbesCorrect`, `HistoriesCorrect` | probes fail as often as told; histories are the last calls, for every `maxHistory` |
| `ExpressServiceProofs!TurnSound`, `SearchOver` | the loops of primos list exactly the primes, for every number |
| `ExpressServiceProofs!TypeCorrect`, `PrimesCorrect` | types; every answer of primos is right |
| `ExpressServiceProofs!GracefulShutdown` | a process that exits leaves no request waiting: answered, or cut off unread |
| `OperatorProofs!QueueInvariance`, `OneWorkerHasIt` | no key twice in the work queue; no two workers at one CR |
| `OperatorProofs!TypeInvariance`, `OperatorTyped` | types, of what is stored and of what each call needs in hand |
| `OperatorProofs!CopiesInvariance`, `EditsKept` | a current copy is faithful; no write undoes a user's edit |
| `OperatorProofs!AimsInvariance`, `RoutesSurvive` | what workers may do to a proxy; no step takes a route from a shared proxy (under `Peaceful` and `Steady`) |
| `OperatorAtRestProofs!NothingForgottenInvariance`, `SeenToInvariance` | the queue loses no key; every CR is pending, in hand, or right (if no call fails) |
| `OperatorAtRestProofs!DeployedAtRest`, `StatusToldAtRest` | at rest every CR has its Deployment, Service and status (if no call fails) |
| `OperatorAtRestProofs!RoutingInvariance`, `RoutedAtRest` | at rest every CR has its route, owner and host in its proxy (if no call fails, under `Peaceful`) |

Every invariant and every action property of the passing runs is stated by one
of them, and so is the refinement.

**Broker.** The one assumption is that `Nil` is not a handler, name, queue or
message (`NilAssumption`). The invariants TLC checks are not inductive:
`Ledger` says what the counters are when the mutex is free, and says nothing of
the steps inside the critical section that lead there. `Inductive` (module
`MemQBrokerProperties`) adds what is missing: who owns which mutex
at which program point (`Exclusion`), where a handler that owns a mutex keeps its
queue (`TypeOK`), for each program point by how much the counters of the queue
in hand are off (`Books`), which message it has in hand (`InHand`: the one
`GetMessage` is about to remove is the first of its queue, though the code reads
it in one statement and removes it in another), how many messages have left
a queue (`AllInOrder`), and that each was handed out or drained (`AllAccounted`).
`FirstInFirstOut` is a consequence of these two.
`Invariance` proves it preserved, one lemma per action; the theorems then
follow.

The refinement takes an enqueue to happen when the message is appended, a
dequeue when it is popped and a drain when the messages are dropped. A counter
follows one statement later, so `Store` of the mapping counts a handler that is
about to write it; there is at most one, by `Exclusion`, and then `Half` says how
far the counter is behind. `Refinement` shows of each action which step
of `AtomicBroker` it is, and of the locks and unlocks that they are none. It is
safety: `AtomicBroker` promises no progress.

**Workload.** `IInv` of `KeyGenProofs` adds to the properties that `cancelFunc`
belongs to a worker of its own process that nobody has cancelled (`Holds`), that
each process whose PUTs have ended runs its configuration, whatever the others
are at (`RunsItsConfig`), and that a cancelled worker that has generated its last
key has nothing left but to look at its context (`AtItsEnd`). A restart is one
lemma, used by `Start` and `RestartWorker`; a step of one worker another, since
each changes that worker alone. `ConfigAssumption` says what configurations are.

Items are counted in `Accounts`: each is in the loader's hands, in the queue, with
a worker, done or lost, and in one of these places only (`Placed`); a Pod of a Job
has one worker (`Solo`); and the lost items and the requests without a Pod that
may still lose one, together, are no more than the faults (`Counted`). A crash
between the request and the broker's answer is the case that needs the second
term: nothing is lost yet, and something may be. `Emptied` says that after the
first Pod has completed the queue is empty and nobody fills it.
`JobAssumption` says that the Job's workers use the queue.

**Client.** The banner needs to know when its one interval is due: `BannerInv`
ties `timer` and `intervals` to the seconds since the last error. That a probe
is right is a fact about one probe under any of its handlers, proved in
`DebugProbeProofs` (`HandleRight`, `SetConfigRight`); `ProbeInv` carries it through
the network: every PUT under way has a number for a probe and every restart
begins with right probes. `HistoryAssumption` says that `maxHistory` is positive.

`PageInv` is what the pages need: the component has the shape of its page and
only requests of the page shown are mounted (`Shape`), each answer under way is
one the server had given since its page was opened, if it is still mounted
(`Messages`), the form's first answer cannot come after the user has typed
(`Form`), and what is shown now is already among the truths of this visit
(`Seen`). Without `Messages`, `FromThisVisit` says nothing of the answers that are
still to come. `ClientAssumption` says what pages, connections and inputs are.

**Services.** `Sound` is the invariant of the loops: the primes below `i` are
listed in order, `d` is 5 plus a multiple of six, and nothing below `d` divides
`i`. `TurnSound` proves it preserved; its arithmetic is that a number with a
divisor has one up to its root, and that every number from `d` up to `d + 5`
that 2 and 3 do not divide is `d` or `d + 2`. `IInv` of `ExpressServiceProofs`
adds that the search at work is that of the request it will answer, which nothing
replaces meanwhile (`Working`), and that whoever waits has a connection, of which
none is left at the exit (`Connected`). `ParsedAssumption` says what parsing gives.

**Operator.** The assumptions: a multiplicador is an integer, as the CRD declares
(`SpecsAssumption`), bounds are numbers (`BoundsAssumption`), and `Nil` is no CR,
no object and no name of a proxy (`NilAssumption`, `ObjectAssumption`,
`NameAssumption`). Five invariants build on each other.

1. `QueueInv`. `OneWorkerPerKey` is not inductive: that a worker takes a
   key no other has depends on the queue holding no key twice and none that is
   being processed. `QueueInv` says that, that every key in the queue is dirty,
   and that a busy worker's key is among those being processed.
2. `TypeInv` says what a worker must have in hand at each label (`Entry`).
3. `Copies`: a worker's copy that is current has the spec, the uid and the
   deletion mark of the CR (`Faithful`), and a Deployment or Service is owned by
   one incarnation of its CR. `EditsKept` follows, since the API server accepts
   only current copies. From here on the thirteen kinds of call are summed up
   once, by what they may write (`Reach`) and where they may go (`Goes`), and
   each later invariant is proved from that summary (`WorksReaches`).
4. `Aims`: a worker leaves only a proxy that is on record and no longer asked
   for, cleans up only after a CR that is being deleted, and, while nobody has
   written the proxy it is about to join, has an exact copy of it.
5. `SeenTo` and `Routing`: every CR is pending (an undelivered event, a delayed
   retry, a dirty key), or right, or with a worker whose copy is current and
   who has seen to everything that comes before its label. The key is that every
   write of a CR or a Deployment is an event, and that a worker's own write
   makes its copy stale *and* is one. `NothingForgotten` adds that a dirty key is
   in the queue or with a worker, so that at rest nothing is pending.

Two hypotheses are stated in the theorems, because the code needs them. `MaxFaults
= 0`: a failed Get of the CR is taken for its absence and forgets the key
(main.go:213), and errors of the Updates of CRs and old proxies are dropped; one
such failure at the wrong moment leaves a CR unserved. Conflicts are
not faults, and edits, deletions and restarts are unlimited. `Peaceful`: two
CRs that share a proxy ask for one host, never for the same ruta, and neither is
deleted or leaves that proxy. Each part is needed: the code replaces a route of
the same prefix whoever it serves (main.go:728-752), removes routes by prefix
(main.go:702), lets the last host win, and deletes a proxy on the strength of a
copy (the finding `op_lost_route`). A CR that shares its proxy with nobody may do
all of this. `RoutesSurvive` asks further that each CR keeps its host and ruta and
is not deleted (`Steady`), as `RoutesKept` is about every single step, and a worker
with an old copy may for a while put back the route of the spec before; faults and
restarts are allowed there. `op_single` and `op_shared` both satisfy what is
asked of them, with edits, deletion and a restart in the first.
`StatusToldAtRest` asks for `StatusAllowed` and `StatusKept`; `op_no_status`
shows it false with the manifests as they are.

Only model-checked: all liveness (`EveryRequestAnswered`, `EveryRequestSettled`, `ShutsDown`,
`JobCompletes`, `Converges`, `Quiet` of the client, `Settles`,
`DeletionCompletes`), which TLAPS does not support, nor ENABLED nor induction
over data (no proof here needs it: `SearchOver` follows from an invariant).

## Not modelled

* The polling operator: the predecessor of the one modelled, one thread that
  applies a subset of the same reconciliation to each CR, from a copy as old as
  the round; its findings would repeat those above.
* Start-up, flags, templates and static files of kuard, the webpack
  configuration and the k6 script: input and output without state that changes.
* Of what is modelled: the broker's own Pod does not die (it would lose every
  queue); the CronJob; malformed sizes of the memory page, which the web client never
  sends; defaults, namespaces and drift of the Service in the operator, and calls
  of it that are carried out but whose answer is lost; the resolver and the
  environment behind their pages. `PROJECT.json` says so part by part.
* Manifests and examples: no state of this program's. What the ClusterRole and
  the CRD's schema say enters `Operator` as constants, the Job's manifest `KeyGen`.

What would come next: the safety part of the liveness properties, such as a
bound on the writes that follow the last edit of a CR, from which `Settles`
would follow; routes that no CR asks for, which the code leaves behind in
the cases above and in no others, one would like to prove; and a common
abstract specification of both operators.
