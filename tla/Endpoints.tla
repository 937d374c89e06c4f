----------------------------- MODULE Endpoints -----------------------------
(***************************************************************************)
(* What one request asks of the API server, and the status its handler     *)
(* answers with: the handlers of internal/transport/http/handlers over the *)
(* services of internal/core/services and internal/kubernetes.             *)
(*                                                                         *)
(* A service makes its calls one after the other, each a snapshot of a     *)
(* cluster that changes in between; some must succeed, the failure of the  *)
(* others is logged and forgotten.  The request's context may be done      *)
(* between any two calls.  What is computed from the objects is not        *)
(* modelled here, only which calls are made and what becomes of errors.    *)
(***************************************************************************)
EXTENDS Naturals, Sequences

CONSTANTS Granted,       \* the calls the ClusterRole permits
          ApiFaults,     \* may the API server fail for reasons of its own?
          MetricsClients \* what NewClients may make of the metrics client

ASSUME GrantedAssumption ==
  Granted \subseteq {"getPod", "listPods", "getNode", "listNodes", "listEvents",
                     "getVolumes", "listMetrics", "getMetrics"}
ASSUME FaultsAssumption == ApiFaults \in BOOLEAN
ASSUME ClientsAssumption == MetricsClients \subseteq {"ok", "typedNil"}

VARIABLES client,   \* the metrics client
          pod,      \* "absent", "pending", "bound", or "failed" without a node
          node,     \* is the node there?
          metrics,  \* the metrics server: "down", "warming" (no data of the node) or "ready"
          endpoint, \* the endpoint called, "none" before the request
          step,     \* how far the service is in its plan
          seen,     \* the pod as GetPod returned it
          ctx,      \* the request's context
          failed,   \* the calls that failed, with the reason
          status,   \* the status the handler answered, 0 before
          crashed,  \* did the handler panic?
          was       \* history: what was true at some moment of the request

vars == <<client, pod, node, metrics, endpoint, step, seen, ctx, failed, status, crashed, was>>

PodStates    == {"absent", "pending", "bound", "failed"}
PodEndpoints == {"describe", "scheduling", "resources", "failure-events",
                 "scheduling/explain", "health-score"}
Endpoint     == PodEndpoints \cup {"utilization", "error", "pod-issues", "healthz", "readyz"}

Serving == endpoint # "none" /\ status = 0 /\ ~crashed

(***************************************************************************)
(* The calls of a service.                                                 *)
(***************************************************************************)

Must(call)  == [calls |-> {call}, mode |-> "must"]  \* a failure fails the request
May(call)   == [calls |-> {call}, mode |-> "may"]   \* a failure is logged
Gate(call)  == [calls |-> {call}, mode |-> "gate"]  \* a failure is logged, the rest left out
Many(calls) == [calls |-> calls,  mode |-> "many"]  \* one or more per object, as "may"

\* What analyzeUnschedulableNodes and analyzeNodeForSchedulingExplanation ask for
\* each node: the pods on it, the claims and volumes of the pod.
PerNode == Many({"listPods", "getVolumes"})

\* Mutant of GetPodDescription: it returns the error of its event list.
GetPodDescription_EventsRequired == <<Must("getPod"), Must("listEvents")>>

GetPodDescription    == <<Must("getPod"), May("listEvents")>>
GetPodResources      == <<Must("getPod")>>
GetPodFailureEvents  == <<Must("getPod"), May("listEvents")>>
CalculateHealthScore == <<Must("getPod"), May("listEvents")>>
GetNodeUtilization   == <<Must("getNode"), Must("listMetrics"), Must("getMetrics")>>
GetNamespaceErrors   == <<Must("listPods"), Many({"listEvents"})>>
GetClusterIssues     == <<Must("listPods")>>

\* The node of a pod that is bound, or the nodes that refuse one that is pending.
GetPodScheduling ==
  CASE seen = "bound" -> <<Must("getPod"), May("listEvents"), May("getNode")>>
    [] seen = "pending" -> <<Must("getPod"), May("listEvents"), Gate("listNodes"), PerNode>>
    [] OTHER -> <<Must("getPod"), May("listEvents")>>

GetPodSchedulingExplanation ==
  <<Must("getPod"), May("listEvents"), Must("listNodes"), PerNode>>

\* The calls behind each route, in order.
Plan(e) ==
  CASE e = "describe"           -> GetPodDescription
    [] e = "scheduling"         -> GetPodScheduling
    [] e = "resources"          -> GetPodResources
    [] e = "failure-events"     -> GetPodFailureEvents
    [] e = "scheduling/explain" -> GetPodSchedulingExplanation
    [] e = "health-score"       -> CalculateHealthScore
    [] e = "utilization"        -> GetNodeUtilization
    [] e = "error"              -> GetNamespaceErrors
    [] e = "pod-issues"         -> GetClusterIssues
    [] e \in {"healthz", "readyz"} -> <<>>

\* What is next in the plan.
Pending == Serving /\ step < Len(Plan(endpoint))
Now     == Plan(endpoint)[step + 1]

\* The object a call asks for is there.
Present(call) ==
  CASE call = "getPod" -> pod # "absent"
    [] call = "getNode" -> node
    [] call = "listMetrics" -> metrics # "down"
    [] call = "getMetrics" -> metrics = "ready"
    [] OTHER -> TRUE

\* How a call may end.  A call whose context is done fails with its error; the
\* client's own timeout (cfg.K8sTimeout) looks like a deadline too.
Results(call) ==
  IF ctx # "live" THEN {ctx}
  ELSE IF call \notin Granted THEN {"forbidden"}
  ELSE {IF Present(call) THEN "ok" ELSE "notFound"}
         \cup (IF ApiFaults THEN {"fault", "deadline"} ELSE {})

(***************************************************************************)
(* Errors.                                                                 *)
(***************************************************************************)

\* Mutant of GetPodError: GetPod without the IsNotFound test.
GetPodError_AnyIsNotFound(result) == "ErrPodNotFound"

\* An error that wraps the one of the call: "deadline" if errors.Is finds
\* context.DeadlineExceeded in it.
Wrapped(result) == IF result = "deadline" THEN "deadline" ELSE "other"

\* podService.GetPod; CalculateHealthScore makes the call itself, without the test.
GetPodError(result) == IF result = "notFound" THEN "ErrPodNotFound" ELSE Wrapped(result)

\* Mutant of UtilizationError: every failed get of the metrics is "not available".
UtilizationError_AnyIsUnavailable(call, result) ==
  IF call = "getNode" THEN Wrapped(result) ELSE "ErrMetricsNotAvailable"

\* GetNodeUtilization and checkMetricsAvailable, which reports no reason.
UtilizationError(call, result) ==
  CASE call = "getNode" /\ result = "notFound" -> "ErrNodeNotFound"
    [] call = "listMetrics" -> "ErrMetricsNotAvailable"
    [] call = "getMetrics" /\ result = "notFound" -> "ErrMetricsNotAvailable"
    [] OTHER -> Wrapped(result)

\* The error a service makes of a call that had to succeed.
ServiceError(e, call, result) ==
  CASE call = "getPod" /\ e # "health-score" -> GetPodError(result)
    [] e = "utilization" -> UtilizationError(call, result)
    [] OTHER -> Wrapped(result)

\* Mutant of PodHandlersStatus: 408, as the annotations of the handlers have it.
PodHandlersStatus_RequestTimeout(err) == IF err = "deadline" THEN 408 ELSE 500

\* The switches of the handlers.  The pods' and the nodes' have the same cases.
PodHandlersStatus(err) ==
  CASE err \in {"ErrPodNotFound", "ErrNodeNotFound"} -> 404
    [] err = "ErrMetricsNotAvailable" -> 503
    [] err = "deadline" -> 504
    [] OTHER -> 500

HealthScoreStatus(err) ==
  CASE err = "ErrPodNotFound" -> 404
    [] err = "deadline" -> 504
    [] OTHER -> 500

\* err == context.DeadlineExceeded holds of no wrapped error.
ClusterIssuesStatus(err) == 500

\* GetNamespaceErrors of the handlers looks at no error.
NamespaceStatus(err) == 500

StatusFor(e, err) ==
  CASE e = "health-score" -> HealthScoreStatus(err)
    [] e = "pod-issues" -> ClusterIssuesStatus(err)
    [] e = "error" -> NamespaceStatus(err)
    [] OTHER -> PodHandlersStatus(err)

\* A metrics client that is a nil pointer in an interface that is not nil.
Panics(call) == client = "typedNil" /\ call = "listMetrics"

\* The cluster as the request may have met it.
Moment == {<<"pod", pod # "absent">>, <<"node", node>>, <<"metrics", metrics = "ready">>}

(***************************************************************************)
(* The request.                                                            *)
(***************************************************************************)

Start(e) ==
  /\ endpoint = "none"
  /\ endpoint' = e
  /\ was' = Moment
  /\ UNCHANGED <<client, pod, node, metrics, step, seen, ctx, failed, status, crashed>>

\* validatePodParams and its likes refuse an empty parameter.
RefuseParams ==
  /\ Serving /\ step = 0 /\ endpoint \notin {"pod-issues", "healthz", "readyz"}
  /\ status' = 400
  /\ UNCHANGED <<client, pod, node, metrics, endpoint, step, seen, ctx, failed, crashed, was>>

\* The next call of the plan returns.
Call ==
  /\ Pending
  /\ \E call \in Now.calls : \E result \in Results(call) :
       LET ok == result = "ok"
       IN  /\ ~Panics(call)
           /\ failed' = IF ok THEN failed ELSE failed \cup {<<call, result>>}
           /\ seen' = IF call = "getPod" /\ ok THEN pod ELSE seen
           /\ step' = CASE Now.mode = "many" -> step
                        [] Now.mode = "gate" /\ ~ok -> Len(Plan(endpoint))
                        [] OTHER -> step + 1
           /\ status' = IF Now.mode = "must" /\ ~ok
                        THEN StatusFor(endpoint, ServiceError(endpoint, call, result))
                        ELSE 0
  /\ UNCHANGED <<client, pod, node, metrics, endpoint, ctx, crashed, was>>

\* The loop over the objects is over.
LeaveLoop ==
  /\ Pending /\ Now.mode = "many"
  /\ step' = step + 1
  /\ UNCHANGED <<client, pod, node, metrics, endpoint, seen, ctx, failed, status, crashed, was>>

CallPanics ==
  /\ Pending
  /\ \E call \in Now.calls : Panics(call)
  /\ crashed' = TRUE
  /\ UNCHANGED <<client, pod, node, metrics, endpoint, step, seen, ctx, failed, status, was>>

\* Every call was made: the handler answers with what it has.
Answer ==
  /\ Serving /\ step = Len(Plan(endpoint))
  /\ status' = 200
  /\ UNCHANGED <<client, pod, node, metrics, endpoint, step, seen, ctx, failed, crashed, was>>

\* TimeoutMiddleware's deadline, or the client went away.
ContextDone ==
  /\ Serving /\ ctx = "live"
  /\ ctx' \in {"deadline", "canceled"}
  /\ UNCHANGED <<client, pod, node, metrics, endpoint, step, seen, failed, status, crashed, was>>

(***************************************************************************)
(* The cluster.                                                            *)
(***************************************************************************)

PodBecomes == [absent |-> {"pending"}, pending |-> {"bound", "failed", "absent"},
               bound |-> {"absent"}, failed |-> {"absent"}]

ClusterChanges ==
  /\ status = 0 /\ ~crashed
  /\ \/ pod' \in PodBecomes[pod] /\ UNCHANGED <<node, metrics>>
     \/ node' = ~node /\ UNCHANGED <<pod, metrics>>
     \/ metrics' \in {"down", "warming", "ready"} \ {metrics} /\ UNCHANGED <<pod, node>>
  /\ was' = IF endpoint = "none" THEN was ELSE was \cup Moment'
  /\ UNCHANGED <<client, endpoint, step, seen, ctx, failed, status, crashed>>

Init ==
  /\ client \in MetricsClients
  /\ pod \in PodStates /\ node \in BOOLEAN /\ metrics \in {"down", "warming", "ready"}
  /\ endpoint = "none" /\ step = 0 /\ seen = "absent" /\ ctx = "live"
  /\ failed = {} /\ status = 0 /\ crashed = FALSE /\ was = {}

\* The request is over.
Over == (status # 0 \/ crashed) /\ UNCHANGED vars

Next ==
  \/ \E e \in Endpoint : Start(e)
  \/ RefuseParams \/ Call \/ LeaveLoop \/ CallPanics \/ Answer
  \/ ContextDone \/ ClusterChanges \/ Over

Spec == Init /\ [][Next]_vars

(***************************************************************************)
(* Properties.                                                             *)
(***************************************************************************)

\* The types, and the statuses the handlers ever send: 504 for a deadline, never
\* the 408 their annotations name.
TypeOK ==
  /\ client \in {"ok", "typedNil"}
  /\ pod \in PodStates /\ node \in BOOLEAN /\ metrics \in {"down", "warming", "ready"}
  /\ endpoint \in Endpoint \cup {"none"} /\ step \in 0..4
  /\ seen \in PodStates /\ ctx \in {"live", "deadline", "canceled"}
  /\ status \in {0, 200, 400, 404, 500, 503, 504} /\ crashed \in BOOLEAN

\* Whatever changes between the calls, 404 is only said of a pod or node that was
\* missing at some moment of the request, and 200 only of one that was there, with
\* metrics if it is about them (the handlers' handleServiceError, the services' IsNotFound tests).
StatusTruthful ==
  /\ endpoint \in PodEndpoints /\ status = 404 => <<"pod", FALSE>> \in was
  /\ endpoint \in PodEndpoints /\ status = 200 => <<"pod", TRUE>> \in was
  /\ endpoint = "utilization" /\ status = 404 => <<"node", FALSE>> \in was
  /\ endpoint = "utilization" /\ status = 200 => {<<"node", TRUE>>, <<"metrics", TRUE>>} \subseteq was

\* What an endpoint cannot answer without.
Essential ==
  CASE endpoint = "utilization" -> {"getNode", "listMetrics", "getMetrics"}
    [] endpoint = "scheduling/explain" -> {"getPod", "listNodes"}
    [] endpoint \in PodEndpoints \ {"scheduling/explain"} -> {"getPod"}
    [] OTHER -> {"listPods"}

\* Events, the node of a bound pod, the nodes a pending pod might go to, volumes
\* and neighbours are extras: a request that got what it is about is never refused,
\* though all of them failed, the context's end included.
ExtrasAreOptional ==
  status \in {404, 500, 503, 504} => \E f \in failed : f[1] \in Essential

\* 503 blames the metrics server only when it was without data of the node at some
\* moment of the request, or did not answer when asked whether it is there.
\* README.md: "The agent requires minimal permissions: ... `get` on `nodes/metrics`".
UnavailableTruthful ==
  status = 503 =>
    \/ <<"metrics", FALSE>> \in was
    \/ \E why \in {"fault", "deadline", "canceled"} : <<"listMetrics", why>> \in failed

=============================================================================
