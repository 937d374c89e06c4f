# A TLA+ model of k8s-cluster-agent

The agent is a small HTTP server in Go. It runs inside a Kubernetes cluster, reads
pods, nodes, events and metrics from the API server, and answers with analyses of
them. It keeps no state between requests, so what is hard about it is elsewhere: two
goroutines share the response of every request, a deadline cuts requests short, a
process starts and stops under clients that do not wait, and every answer is put
together from several snapshots of a cluster that changes in between. The modules
here model those things and the analyses themselves: what the answers say of a pod, a node or a
namespace, and how far two answers about the same thing agree.

Paths below are relative to the repository; TLC and TLAPS are run in this directory.

## Inventory

| Component | State | Operations | Interacts with |
|---|---|---|---|
| `cmd/agent/main.go`, `internal/config`, `internal/kubernetes/client.go`, `internal/transport/http/server` | the process, the signal channel, the listener, the shutdown context; net/http's connections | load and validate the configuration, make the clients, start the server, wait for a signal, shut down, exit | the kubelet (signals), clients (connections), the router (requests) |
| `internal/transport/http/router`, `middleware`, `responses` | per request: the context, the channel `done`, chi's wrapper of the `ResponseWriter`, net/http's response | RequestID, RealIP, Recovery, Logging, Timeout; write a document or an error | the handler, on a second goroutine; the client |
| `internal/transport/http/handlers` | none | check the parameters, call one service, map its error to a status | the services; `responses` |
| `internal/core/services/pod_service.go` | none | describe, scheduling, resources, failure events, scheduling explanation | API: pods, events, nodes, claims, volumes |
| `internal/core/services/node_service.go` | none | utilization | API: nodes; metrics API |
| `internal/core/services/namespace_service.go` | none | error analysis of a namespace | API: pods, events |
| `internal/kubernetes/cluster_issues_service.go` | a report while it is built | dashboard of the pods' issues | API: pods |
| `internal/kubernetes/health_score_service.go` | a score while it is built | health score of a pod | API: pods, events |
| `internal/core/models`, `factory`, `interfaces.go`, `errors.go` | none | types and wiring | |
| `internal/logging`, `openapi`, `docs/`, `deployments/`, `scripts/`, `build/` | none | output, generated documents, manifests | the ClusterRole limits the API calls |

How they interact: net/http runs one goroutine per connection; `NewRouter`'s chain ends in
`TimeoutMiddleware`, which starts one more goroutine for the handler and waits for it or for
the context; the handler calls a service, which calls the API with that context. The agent has
no other shared state, no queue, no cache and no persistence; but net/http has a pool of buffers that the
responses of different requests take in turn.

What makes each correct, and what is hard about it:

* **Pipeline.** One request, one document, under the status it belongs to, in the log too; 504
  when the deadline passed; a fault in one request does not reach another; nothing waits for
  ever. Hard: the two goroutines write to one `ResponseWriter` without a lock, and one of them may still do so
  after the response has ended and its buffer belongs to another.
* **Lifecycle.** A signal ends the process whenever it comes; requests in flight are served
  first; a server that could not start does not linger. Hard: five timeouts that nothing
  relates to each other, and connections that were accepted but have not sent a request.
* **Handlers and services.** The status tells the truth about the cluster as the request met
  it; what is optional cannot fail a request. Hard: the cluster, the context and the metrics
  client may change or fail between any two calls.
* **Analyses.** Totals agree with each other, answers do not depend on map order, two analyses
  of one thing agree. Hard: large inputs, many shapes; tests reach few of them.

`PROJECT.json` lists every hazard at its line, and the six no property covers with the reason.

## Modules

| Module | What it is |
|---|---|
| `RequestPipeline` | one request from the middleware chain to the end of its handler, two goroutines and their writer |
| `RequestContract` | what the pipeline promises a client, without goroutines |
| `RequestPipelineProofs` | theorems about the pipeline, that it implements the contract among them |
| `AgentLifecycle` | the process, from the configuration to the exit code, in discrete time |
| `AgentLifecycleProofs` | theorems about it |
| `Endpoints` | the calls each route makes and the status it answers with |
| `EndpointsProofs` | theorems about the statuses |
| `ClusterIssues` | the dashboard of the cluster's pod issues, from the list of pods to the report |
| `SchedulingAnalysis` | the two analyses of why a pod is, or is not, on a node, call by call, and what is made of them |
| `SchedulingAnalysisProofs` | theorems about both and about their agreement |
| `NamespaceErrors` | the error report of a namespace |
| `ClusterIssuesProofs` | theorems about the dashboard, by its loop invariant |
| `PodReports` | the dashboard and then the report of a namespace, about the same pods |
| `PodReportsProofs` | theorems about the namespace's report and about the agreement of both |
| `PodWorld` | external: what the scheduler, the kubelet, the clock and others do to a pod and its events |
| `FailureEvents` | a pod's failure events |
| `HealthScore` | a pod's health score |
| `PodDiagnosis` | a pod's failure events and then its score, while the pod goes on |
| `PodDiagnosisProofs` | theorems about the failure events and the score |
| `SumLemmas` | what the sums the analyses are built from compute, by induction |
| `MCRequestPipeline`, `MCAgentLifecycle`, `MCEndpoints`, `MCSchedulingAnalysis`, `MCPodReports`, `MCPodDiagnosis` | constants for TLC |

`PodReports` extends `ClusterIssues` and instantiates `NamespaceErrors`; `PodDiagnosis` extends
`FailureEvents` and `HealthScore`, which both extend `PodWorld`; `RequestPipeline` instantiates
`RequestContract`. `Endpoints` has the calls and errors of every service, the modules of the
analyses what is computed from the answers.

The operators named after a definition with a suffix (`Done_ClosedEarly`,
`StatusOf_RequestTimeout`, ...) are wrong versions of it, each a plausible mistake in the code.
No specification uses them; put in the place of the definition they stand for, they make the
property they belong to fail, which shows that it depends on that part of the code.

### RequestPipeline

`pc[r]["middleware"]` is the connection's goroutine of request `r`, `pc[r]["handler"]` the one
`TimeoutMiddleware` starts. `WriteJSON`, `WriteError` and `WriteTimeout` are the same five steps
for both: `SetHeader` (the header map), `CheckFlag` and `Mark` (chi's `wroteHeader`, read and
then set), `Commit` (net/http's status line) and `WriteBody` (one `Write` by the encoder; it
commits 200 if nothing is committed). So every order of the two writers is a behaviour.
`ctx`, `branch`, `code`, `wire`, `body` and `logged` are the context, the case `select` took,
what `ww.Status()` says, the committed status, the documents sent and the status in the log.

When `TimeoutMiddleware` has returned, its handler may still be running (`Abandoned`), and it still holds the
`ResponseWriter`. net/http flushes the buffer under it, detaches it (`Reset(nil)`) and puts it into a pool
(`finishRequest`, `putBufioWriter`), from which the next request takes it; `response.write` does not ask whether the
request is over. The connection's own writer outlives its requests too. So `Accept` chooses in `past[r]` which
abandoned handlers hold the writer the new request gets, and `Reaches(r, p)` says that a write of `r` lands in the
response of `p`. Of a document written late (`LateWrite`, `LatePanic`)

* nothing may remain, as the next response resets the buffer;
* the response that has the writer now may carry it (`"foreign"`), in front of its own or in between, torn if they race; if it is
  larger than the buffer and the status is not committed yet, it even precedes it (`"statusless"`);
* if it is larger than the buffer and that lies in the pool, the flush dereferences nil, on a goroutine that nobody recovers.

A data race is undefined behaviour in Go, so there are outcomes that are no order of the steps: the two documents are mixed in
the buffer (`"torn"`, where the write is `Contended`), the runtime stops the process because the header map is
written while it is written or walked over (`HeaderRace`), or the buffer's index leaves its bounds and either goroutine
panics (`BufferPanic`). A panic of the handler (`HandlerPanics`) ends the process, as nothing on that goroutine's stack
recovers it; one on the connection's goroutine is caught by `RecoveryMiddleware` (`Recover`).

Which calls the handler makes is left to `Endpoints`: here they return at some moment with
some status of `HandlerStatuses`. The two modules meet in `answer`.

Left out are write errors of the socket, HTTP/2 (the server speaks plain HTTP/1), and the pool's own choice: any abandoned
handler may turn out to hold the writer, also where its buffer is in fact still unused.

### RequestContract

Four variables say what a client sees of a request: `phase`, `interruption`, `reply`, and
whether the process is `up`. An uninterrupted request gets its `"own"` reply, one that ran into its
deadline the `"timeout"` reply or a `"mixed"` one, one whose client left anything. Any request may get a `"mixed"` reply once
another one has been interrupted and closed (`Disturbed`): what that one's handler writes late may come along. The contract is as
strong as the code allows: `"mixed"` is there because of the races, and the violated runs below
show what would be promised without it. `RequestPipeline!ImplementsContract` is the refinement,
with the mapping `Phase`, `Interruption`, `ReplyOf`; a reply appears in the single step that
ends the response, and the proof that it never changes afterwards is the interesting part.

### AgentLifecycle

`main` and `server` are where `main()` and the goroutine of `Start()` stand; `conn`, `age` each
connection's state and clock; `left` Shutdown's context. `Tick` lets one unit of time pass and is
disabled while anything is due, so a deadline is never missed by the scheduler, which is the
assumption of timeouts this long. `PollConns` is one look of net/http's `Shutdown` at the
connections; `Reapable` is its notion of idle, with the grace for connections that have not
sent anything. The process's exits are told apart by `exit`; only `"ok"` is exit code 0.

`patience` is SHUTDOWN_TIMEOUT as `LoadConfig` finds it in the environment; `Validate` takes any value,
negative ones too. `LongEnough` says what it has to exceed: `NewGrace + Poll + max(RequestTimeout,
WriteTimeout) + Poll`. The default configuration does not satisfy it, so `AlwaysGraceful` fails where
`GracefulShutdown` holds.

### Endpoints

`Plan(e)` is the list of calls the service behind route `e` makes, named after its function. A
call is a `Must` (its failure fails the request), a `May` (logged), a `Gate` (logged, and the rest
is left out: `analyzeUnschedulableNodes`) or one of `Many` (the loops over nodes or pods).
`ServiceError` and the `...Status` operators are the error mapping of services and handlers.
Between any two calls `ClusterChanges` may move the pod, the node or the metrics server, and
`ContextDone` may end the context, after which every call fails with its error. `was` is a
history variable: what was true at some moment since the request started.

`Results` has, with `ApiFaults`, a `"fault"` (any error without a meaning to the services: a
500 of the API server, a connection refused, a rate limiter that refuses to wait) and a
`"deadline"` of client-go's own timeout (`K8S_TIMEOUT`).

### ClusterIssues

One request for the dashboard. `List` takes the pods of the namespace (or fails), `NextPod` is one turn of the
loop over `pods.Items`, in any order, `Finish` everything after it. `analyzePod` and its helpers give the set of a
pod's issues; two issues of a pod always differ in their category or their container, so a set loses none.
`issues` is `models.ClusterIssues`, `issuePatterns` the map of patterns. A list that the code sorts and cuts is the set
`FirstOf` allows: any that leaves out nothing that sorts before what it keeps, as neither the maps nor the sort fix
the order of equals. The limits of 20, 10, 5 and 3 are constants, so that small clusters reach them.

The properties compare the report, which is counted up pod by pod in five places, with `Truth`, the issues of the pods
analysed so far. `namespace` may be "": the service accepts it, though the handler sends "all" instead, which names no namespace.

### SchedulingAnalysis

`GetPodScheduling` (`op = "scheduling"`) and `GetPodSchedulingExplanation` (`"explanation"`). `pc` is the
next call: `GetPod`, `ListEvents`, then `GetNode` for a scheduled pod or `ListNodes`, and for every node
`AnalyzeUnschedulableNode` or `AnalyzeNodeForExplanation` with the list of the node's pods, `ExplainPodAffinity`
with a second one, and `ReadClaims`. The functions that compare a pod with a node
(`matchNodeSelectorTerm`, `tolerationMatchesTaint`, `evaluateResourceFit`, `explainTaints`, ...) are operators of
their names. `analyses` is `UnschedulableNodes` or `NodeAnalysis`: for every node its reasons, the conflicting
pods, and the resources that are short. Reasons are names; where the code later searches their text
(`categorizeSchedulingFailure`), `ReasonCategories` has which words are in which. The message of an event is a set of
phrases, and `parseFailedSchedulingMessage`, `parseNotTriggerScaleUpMessage` and `parseEventsForVolumeIssues` say
which of them count.

From the moment the pod was read, `Bind`, `Finish` and `BindClaim` change the cluster, calls fail
(`MaxFaults`), and `Deadline` ends the context, after which every call fails. `before` is a history variable, the
cluster when the request began: `VerdictsWereTrue` says what may be held against a node, `NothingMissedUnlessFailed` what must
be. `AnalysesAgree` compares the operators of the two analyses on every state of the cluster, and names the differences
that are left: a node without a `Ready` condition, what is allocated already, the pod itself,
ReadWriteOnce, required pod affinity. Two more oddities are in the properties: of a running pod the explanation
counts the pod's own requests against its own node (`OwnRequestsCountOnlyAtHome`), and the advice about taints
subtracts nodes that are not ready but counts their taints (`DespairIsJustified`).

Left out: `Gt` and `Lt` of a requirement (they always match, as in the code), preferences, namespace selectors (the code
ignores them), the text of recommendations for a single node.

### NamespaceErrors and PodReports

`List`, `NextPod` and `Finish` are the parts of `GetNamespaceErrors` before, in and after its loop; `analyzePod`
gives a pod's issues, `getRecentPodEvents` the sets of warnings that may be shown with them (equally old ones may be
cut either way). `report` is `models.NamespaceErrorReport`. `PodReports` lets somebody look at the dashboard
first and then ask for the errors of the same namespace; `Follow` is the second request, before which a pod
may have aged or gone. `ReportsAgree` then compares what two `analyzePod`s, written apart, say of the pods that did
not change, in both directions; what only one of them looks at is named in it. `scheduling` is what the scheduler's message says
of a pod that does not fit, in two spellings: the dashboard looks for "Insufficient" (cluster_issues_service.go:217), the report for
"insufficient" in the message put into lower case (namespace_service.go:173). The message of namespace_service_test.go:342, "0/3 nodes are
available: insufficient memory.", is thus a lack of resources in the report and a mere warning on the dashboard.

### PodWorld, FailureEvents, HealthScore and PodDiagnosis

`PodWorld` is not code of the agent. It has the pods and events there can be: a pod that is bound (`Schedule`) and only later
gets container statuses, with the kubelet's first report (`ReportStatus`); containers that are created, run,
get ready, crash, back off, fail to pull; a scheduler that fails; events as client-go records them, repeated ones
as one record with a count, and those of the newer API (`events.k8s.io`) with no `LastTimestamp` and no count (`Undated`).

`FailureEvents` is `GetPodFailureEvents`. `Pages` is what the API may return for a limit, `Verdicts` what an event may be
taken for: Go ranges over the map `failurePatterns` in any order, and the first pattern that is part of the reason
decides category, severity, causes and action. `Contained` is `strings.Contains`: the constant `Substrings` has the pairs of a
pattern and a longer reason it is part of. Between two patterns it is fixed (`SubstringsAssumption`; "BackOff" is in two others), for all
other reasons it is a parameter, and the runs have the kubelet's `FailedMountOnFilesystemMismatch`. The pattern stands for its causes and
action (`advice`). `OrderDecidesOnlyAdvice` says what depends on the map's order: the category of an `ImagePullBackOff`
(`ImagePull` or `ContainerCrash`), and the advice of this and of a `CrashLoopBackOff`, but no severity. That the category
depends on it contradicts the documentation, which is the run `PodDiagnosis_image_pull`. A reason that is no pattern but
contains two different ones (`Compound`) is excepted; the kubelet has none.

`HealthScore` is `CalculateHealthScore`: five components, each an operator, `Weight` and `OverallScores`. Where the exact
score is half a point, the sum of products may come out a little low or not, depending on the order of a map;
the language leaves the order open, and `OverallScores` has both results. (With the small maps of Go 1.24 every
order that is possible rounds up.) `HealthyMeans` says what "Healthy" excludes although the sum lets a component make up for
another, and what it does not exclude: a pod that is not scheduled, without a warning that has a time, gets 89.5; a pod that is bound but
has no container status yet (health_score_service.go:140 asks for their number, not for a condition) loses points by its events
only, so that it may be "Healthy" with nothing running; and a probe that failed costs exactly the ten points there are. Its
clause about ready containers is as weak as it is because of the proof: up to eight running containers "Healthy" excludes one
that is not ready, with nine it does not (8 of 9 is a score of 88, which the others make up for). `Percentage` is the
conversion of a share to whole percents, which in floating point makes 28 of the share 29/100, and likewise 56 of 57/100 and 57 of 58/100.

`PodDiagnosis` is the two requests one after the other while the pod goes on, and relates their answers
(`CriticalIssueLowersScore`) and the score to the pod's steps (`ExitRaisesScoreOnlyIfUnready`). The report searches a reason and the
score compares it, so a `FailedMountOnFilesystemMismatch` is critical in the one and any warning, 94 points and "Healthy", in the
other; the property says that this happens to no reason of the table but four.

## What the runs check

Runs that pass:

| Run | Bounds | Shows |
|---|---|---|
| `RequestPipeline` | 2 requests, at once or one after the other, panics and late writes on; fair (263,121 states) | `UninterruptedAnswerIntact`, `TimeoutDocumentSent`, `AbandonedHandlerHarmless`, `RaceNeedsInterruption`, `TypeOK`, `EveryRequestFinishes`, `HandlerGoroutineEnds`, `ImplementsContract` |
| `AgentLifecycle` | 2 connections, timeouts of 2 to 4 ticks, `patience` negative, too short, or the shortest that is `LongEnough`; fair | `CleanExit`, `GracefulShutdown`, `ResponsesInTime`, `TypeOK`, `SignalHonoured`, `ListenFailureEnds` |
| `Endpoints_faults` | every route, one pod, node and metrics server; all faults, both metrics clients | `StatusTruthful`, `ExtrasAreOptional`, `UnavailableTruthful`, `TypeOK` |
| `PodReports` | up to 4 of 13 pods in 2 namespaces, every filter, in every order, limits of 1 and 2; a second request where there are at most 3 pods, all of its namespace (246,221 states) | `TalliesAgree`, `CutsLeaveTheLeast`, `PatternsFaithful`, `TypeOK` (dashboard); `ReportAddsUp`, `WorstFirst`, `NewestEventsShown` (namespace); `ReportsAgree` (both) |
| `SchedulingAnalysis` | both analyses; 3 lists of up to 2 nodes, 4 pods to ask about, 2 others, 2 lists of events, one claim; 1 fault besides the deadline | `VerdictsWereTrue`, `NothingMissedUnlessFailed`, `OwnConflictOnlyIfBoundMeanwhile`, `OwnRequestsCountOnlyAtHome`, `AnalysesAgree`, `CategoriesFitNodes`, `DespairIsJustified`, `TypeOK` |
| `PodDiagnosis` | 2 containers, 6 beginnings, 3 changes, 3 reasons of other components, limit of 2 events, jumps of 4 minutes and a day (307,920 states) | `OrderDecidesOnlyAdvice`, `OngoingIsComplete`, `HealthyMeans`, `CriticalIssueLowersScore`, `ExitRaisesScoreOnlyIfUnready`, `TypeOK` |

Runs that are violated; each is a statement of the repository's documents that the code
does not keep:

| Run | Statement | What happens |
|---|---|---|
| `RequestPipeline_deadline_504` | rules.mdc:127 "Return 504 Gateway Timeout on deadline exceeded" | the abandoned handler commits its status first; the 504 document follows under a 200 |
| `RequestPipeline_panic_recovered` | README.md:26 "middleware for logging, timeout, and recovery" | a handler's panic ends the process |
| `AgentLifecycle_defaults` | README.md:16 "graceful shutdown" | with the defaults, in seconds, a request that begins 6 s into the shutdown is cut off and the exit code is 1 |
| `Endpoints_role_503` | README.md:953 "`get` on `nodes/metrics`" | `checkMetricsAvailable` lists; the shipped role forbids it; always 503 |
| `SchedulingAnalysis_shortage` | README.md:300 "`InsufficientMemory`: Not enough memory resources" (example at 274-279) | the reason is "insufficient resources", the category looks for "insufficient memory"; a node that lacks memory is found under it only if an event says so |
| `PodDiagnosis_image_pull` | README.md:444 "`ImagePull`: Image pull errors (ImagePullBackOff, ErrImagePull)"; pod_service_test.go:424-425 | "BackOff" is part of "ImagePullBackOff": when the map's order has it first, the event is a `ContainerCrash`; the test fails then |

Other disagreements, visible in the source without a run: README.md:15 and overview.md:93
give the request timeout as 500 ms, router.go:23 as 5 s; the annotations and Swagger
documents announce 408 where the code sends 504 (`TypeOK` of `Endpoints` excludes 408);
overview.md:123 has `/readyz` check dependencies, `HandleReadiness` checks none. The race behind
`RequestPipeline_deadline_504` may also send two documents, or a torn one, as one response
(overview.md:71 speaks of a "JSON response"): the `"mixed"` reply of `RequestContract`. rules.mdc:127 asks for
504 "on deadline exceeded", but the namespace and cluster handlers answer it with 500 and the check of the metrics
server with 503; health_score_handler.go:39 announces a 404 for a missing pod, the service's wrapped error gives
500 (`NamespaceStatus`, `ClusterIssuesStatus`, `UtilizationError`, `HealthScoreStatus`). The trend of the dashboard
(README.md:678, "new vs resolved") is never "improving", as nothing counts resolved issues. And README.md:574 says of the
dashboard's parameter `namespace` "(default: all namespaces)", where the handler's default "all" is passed on as the name of a
namespace (cluster_issues_service.go:37), so that by default the dashboard shows no pod: in the model `Listed` is empty for it.

Of the metrics client: `NewClients` stores a nil `*Clientset` in an interface, which then is not nil
(client.go:34), so that the check in `checkMetricsAvailable` passes and the first use panics, where overview.md:61 says
"Graceful degradation when metrics unavailable" (`Panics` and `CallPanics` of `Endpoints`). Of patterns: README.md:681 has
"shared labels among pods", but a label that a later pod lacks altogether stays (`MergeLabels`; `PatternsFaithful` is what
holds). Of failure events: README.md:444 has a category `ImagePull` for failed pulls, but the kubelet's events for them are
`Failed`, which no pattern knows and is `Other`, and a Normal `BackOff`, which, once frequent, is a critical
`ContainerCrash`; README.md:454 has severities "critical, warning, or info", and nothing is info (`Verdicts`). Of the namespace's report:
README.md:788 says it "Only analyzes pods owned by Deployments and StatefulSets", and `filterPodsByOwner` takes the pods of any
ReplicaSet; README.md:780 lists `Failed` as "Pods in failed state", but a failed pod whose containers left no status has
no issue (`checkContainerStatuses`). And a pod that was never scheduled may be "Healthy" with a score of 90, one without a container status with 100 (`HealthyMeans`).

Why the bounds are enough. Requests share the process and, one after the other, a writer; two requests show each way one
can harm another: by a panic, and by what an abandoned handler writes into the response that has its writer now. That more
abandoned handlers do no other harm is proved, for any number of requests; the writer's steps are not bounded at all. A third connection adds nothing to
`Shutdown`, which treats them one by one, and the proofs do not bound them. The ticks are chosen
so that every deadline can be the first to expire: `RequestTimeout` 2 is below `WriteTimeout` 3 and
`ReadTimeout` 4, and so is `NewGrace` 2. The largest `patience` is one above the bound of `LongEnough`, and the bound
itself is not enough: with a `patience` of 7 a shutdown does fail. One pod, one node and one metrics server are all a request of `Endpoints` asks
for by name, and its loops may go round any number of times. The thirteen pods of `MCPodReports` go every way
through both `analyzePod`s; three of them share an issue and differ in their labels, so that patterns merge in every order,
and with the limits of 1 and 2 every list is cut. In `SchedulingAnalysis` every reason of either analysis
occurs, alone and with others, on some node of `MCNodeLists`; nodes are analysed independently of each other, so two show
what one of them does to the summary, and an empty list what none does. Two other pods, one that an
anti-affinity selects and one that it does not, come and go on either node while the request runs. The beginnings of
`PodDiagnosis` are a pod before it is scheduled, one that is bound but not reported on, one that fails to pull, one that is fine with an old warning, one that
restarted often long ago, and one that crashes now; three changes from there reach every state of a
container, and the limit of two events is exceeded.

Deadlock is checked in every run: the ends (`Terminated`, `Gone`, `Over`, `Returned`, `Answered`) are actions of
their own.

## Fairness

`RequestPipeline!Fairness`: the Go scheduler runs every goroutine that can run, and its timers
fire. A handler's calls are only assumed to return once the context is done, because every
service passes the request's context to every call; nothing makes the API server answer before
that. Clients and the kubelet are under no obligation: no fairness for `Accept`, `ClientGone`
or `Signal`.

`AgentLifecycle!FairSpec`: main, the server's goroutine and the clock make progress, and a connection's
deadline takes effect when it is due. Clients may idle for ever.

`Endpoints` and the analyses have no liveness of their own: their loops go over what one list returned, and that a
handler ends is `RequestPipeline!HandlerGoroutineEnds`.

## What is proved

TLAPS checks the theorems below for every value of the constants that satisfies the
named assumptions of the modules; only `UnavailabilityIsTruthful` has one of its own, which it states.

`RequestPipelineProofs`: `TypeCorrectness`, `UninterruptedAnswers`, `TimeoutAnswers`,
`AbandonedHandlers`, `RacesNeedInterruption` and `ContractSafety`, for any number of requests and of abandoned handlers that hold a
writer. The four safety properties speak of a finished
request, and so are not inductive: what makes a finished response right is the history of
two program counters. The invariant `IInv` adds

* `Positions`: which places the two counters can be at together, given `branch` (for example, the
  middleware writes only after the deadline was taken, and "done" was taken only of a handler that ended);
* `Response`: as long as only one goroutine has written, flag, code and status are exactly what its
  position says, and so are the documents if no abandoned handler holds the writer;
* `TimeoutKept`: once the middleware is past its document, the document, or the remains of a race, is in the body;
* `Settled`: what holds of a finished response for good, whatever the handler still does;
* `Inherited`: the handlers that hold a request's writer are those of other requests, which were interrupted and are over, so
  that a request nobody disturbed has none;
* `RaceNeedsInterruption` itself, which follows from `Positions` step by step.

It is preserved by every action (one lemma per conjunct, one step per action), and the properties
follow from it. `ContractSafety` shows that the initial state maps to an initial state of the
contract and, from `IInv`, that each action maps to `Open`, `Interrupt`, `Close`, `Crash` or a stutter;
the late writes of an abandoned handler are stutters too, into another open response as well: a reply is only
read off when the response ends, and is `"mixed"` then by `Inherited`.

`AgentLifecycleProofs`: `TypeCorrectness`, `ExitsClean`, `RespondsInTime` and
`ShutdownSucceeds`. The invariant `LInv` bounds clocks by deadlines. For `ShutdownSucceeds` it relates `left` to each
connection's age: a connection that is still busy at time `t` of the shutdown was new, or began its
request, late enough that its remaining life fits into what is left; when `left` is 0 no connection can
be busy and the last look was recent enough to have seen that. `GracefulShutdown` says so
of every `patience` that is `LongEnough`.

`EndpointsProofs`: `TypeCorrectness`, `StatusesAreTruthful`, `ExtrasNeverRefuse` and `UnavailabilityIsTruthful`. The plan of a
route depends on what was seen, so the lemmas about `Plan` (`PodPlan`, `UtilizationPlan`, `MustCalls`) say at which step a
call whose failure counts can stand. The invariant adds `Remembered`: a failure of a call came from a moment that `was` has
kept, and a request past its first call has met what it asked for. `UnavailabilityIsTruthful` is under the assumption that the list
of node metrics is granted; the shipped role does not grant it, and there the property is violated.

`SchedulingAnalysisProofs`: one theorem for each of the eight invariants. What makes them hold is that a
cluster never takes back what was seen: a pod that is bound stays where it is (`World`). `Progress` and `OneEach` are where the loop is,
`Sound` what any analysis, finished or not, says truly, and `Thorough` what it cannot have missed while the calls answer;
`ThereSince` bounds from above which pods a list during the request can have returned, `before` from below. `Agree` is a lemma about the operators of the two
analyses (`Agreement`), `CategoriesFit` and `DespairJustified` follow from `Sound` and the words each reason is searched for.

`PodDiagnosisProofs`: `TypeCorrectness`, `OngoingComplete`, `OrderDecidesAdvice`, `HealthyExcludes`,
`CriticalLowers` and the action property `ExitRaisesScore`. The invariant relates the two requests: an event the first one
reported is still there, or was repeated, when the second lists (`Lasting`), and a score is computed from what its request saw
(`Scored`). The rest is a lemma for every component of the score, its range and what a high value excludes, and the arithmetic of
the weighted sum (`HealthyIs`): 18 is the least score there is. `HealthyMeans` was first stated too strongly; the
proof failed at nine containers.

`ClusterIssuesProofs`: `TypeCorrectness`, `TalliesCorrect`, `CutsCorrect`, `PatternsCorrect`. The invariant is
that of the loop: the counters (`Counted`), the namespaces (`Entries`), the patterns (`Grouped`) and the lists (`Shown`) are
those of the pods analysed so far, whatever order they come in. Each conjunct has a lemma about what one more pod adds to it: the
sets of issues of two pods are disjoint, so their cardinalities add.

`PodReportsProofs`: `DashboardCorrect` (all of that also beside the second request), `ReportCorrect`, `WorstComesFirst`,
`NewestShown` and `Agreement`. The invariant `NsInv` is the same kind of loop invariant for the namespace's report; `Follow` establishes it anew, from
pods that may have aged. `Agreement` compares the two `analyzePod`s issue by issue, in both directions.

`SumLemmas` shows that the library's `SumFunctionOnSet`, a recursion in an unknown order, is an integer, may take out any element first, is
monotone and depends on the values only. The library's induction theorems take an operator, which no installed prover can instantiate; the
induction is by a minimal counterexample instead (`MinimalSubset`), which is an element of a set.

The assumptions. `TimeoutsAssumption`, `GrantedAssumption`, `FaultsAssumption`, `ClientsAssumption` and `WorldAssumption` are the types of the
parameters. Those of pods and nodes say what the API server guarantees: names tell objects apart, lists are finite, a label has one value, restarts,
requests and capacities are not negative (`PodsAssumption`, `ContainersAssumption`, `NodesAssumption`, `ReportsAssumption`). `ReasonsAssumption` has the kubelet's reasons for
a container to wait among the given ones, `BeginningsAssumption` has
the pod and the events of `PodWorld` begin as they can be: a container that runs has no reason to wait, no kubelet reports on a pod that
is not scheduled, and no event is from the future. `SubstringsAssumption` fixes which of the patterns are part of one another.
TLC evaluates every one of them on the constants of the runs. The inductive invariants were checked by TLC on the runs' constants as well before they were proved.

Only model-checked: what has fairness (`EveryRequestFinishes`, `HandlerGoroutineEnds`, the liveness half of `ImplementsContract`,
`SignalHonoured`, `ListenFailureEnds`), which is beyond the prover. Every invariant of a passing run, the action property and the safety half of the
refinement are theorems.

## Not modelled

* Of the services: `GetPodDescription` and `GetPodResources` beyond their calls and errors (they copy fields and add
  quantities), `calculatePercentage` (one division), owners' names, details of containers and restarts, and everything that is wording: descriptions,
  possible causes, recommendations for a single node. Quantities are whole numbers; sums of restarts stay within 32 bits.
* `internal/core/models`, `factory`, `interfaces.go`: types and wiring; `internal/logging`:
  output; the Swagger UI, generated documents, manifests other than the ClusterRole, scripts.
* Negative `READ_TIMEOUT` or `WRITE_TIMEOUT`, which net/http takes for "none":
  `TimeoutsAssumption` excludes them. A negative `SHUTDOWN_TIMEOUT` is modelled.
* A second signal during the shutdown does nothing, since `Notify` stays in force; `Signal` has
  it, no property is about it.

## Plan

Done: `RequestPipeline` and its contract, `AgentLifecycle`, `Endpoints`, `ClusterIssues`, then
`SchedulingAnalysis`, `NamespaceErrors` with `PodReports`, `FailureEvents` and `HealthScore` with `PodDiagnosis`, in this order:
the concurrent core first, then the process around it, then what the requests do, then the analyses.

The proofs followed the same order, and have reached every invariant. (No module has a RECURSIVE operator, so that all of them can be proved about.)

Next:

1. relations between the components that no run states yet: that what `Endpoints` takes for the calls of an analysis is what
   `SchedulingAnalysis` makes (a refinement of the loop of calls);
2. abstract specifications of the two loops over pods, a report that is made at once from one list, with `ClusterIssues` and `NamespaceErrors`
   as refinements; the invariants `Inv` and `NsInv` are what such a proof needs;
3. shorter proofs: the lemmas on counting that `ClusterIssuesProofs` and `PodReportsProofs` have in common.
