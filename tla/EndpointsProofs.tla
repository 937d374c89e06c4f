---------------------------- MODULE EndpointsProofs ----------------------------
(***************************************************************************)
(* Proofs about Endpoints: the types, and that the status of an answer is  *)
(* true of the cluster as the request met it, whatever changes between its *)
(* calls and whichever of them fail.                                       *)
(***************************************************************************)
EXTENDS Endpoints, TLAPS

\* No service makes more than four calls that differ.
LEMMA PlanLength ==
  ASSUME NEW e \in Endpoint
  PROVE  Len(Plan(e)) \in 0..4
  BY DEF Endpoint, PodEndpoints, Plan, GetPodDescription, GetPodResources, GetPodFailureEvents, CalculateHealthScore,
         GetNodeUtilization, GetNamespaceErrors, GetClusterIssues, GetPodScheduling, GetPodSchedulingExplanation

\* What the requests about a pod begin with, and what else they need.
LEMMA PodPlan ==
  ASSUME NEW e \in PodEndpoints
  PROVE  /\ Len(Plan(e)) >= 1
         /\ Plan(e)[1] = Must("getPod")
         /\ \A k \in 1..Len(Plan(e)) :
              Plan(e)[k].mode = "must" /\ k # 1 => e = "scheduling/explain" /\ Plan(e)[k].calls = {"listNodes"}
  <1> USE DEF Must, May, Gate, PerNode, Many
  <1>1. CASE e = "scheduling"
    <2>1. CASE seen = "bound"
      BY <1>1, <2>1 DEF Plan, GetPodScheduling
    <2>2. CASE seen = "pending"
      BY <1>1, <2>2 DEF Plan, GetPodScheduling
    <2>3. CASE seen \notin {"bound", "pending"}
      BY <1>1, <2>3 DEF Plan, GetPodScheduling
    <2> QED
      BY <2>1, <2>2, <2>3
  <1>2. CASE e \in {"describe", "failure-events", "health-score"}
    <2>1. Plan(e) = <<Must("getPod"), May("listEvents")>>
      BY <1>2, Zenon DEF Plan, GetPodDescription, GetPodFailureEvents, CalculateHealthScore
    <2> QED
      BY <2>1
  <1>3. CASE e = "resources"
    BY <1>3 DEF Plan, GetPodResources
  <1>4. CASE e = "scheduling/explain"
    BY <1>4 DEF Plan, GetPodSchedulingExplanation
  <1> QED
    BY <1>1, <1>2, <1>3, <1>4 DEF PodEndpoints

\* Of the node's request.
LEMMA UtilizationPlan ==
  Plan("utilization") = <<Must("getNode"), Must("listMetrics"), Must("getMetrics")>>
  BY DEF Plan, GetNodeUtilization

\* Three calls.
LEMMA UtilizationLength == Len(Plan("utilization")) = 3
  BY UtilizationPlan

\* A call whose failure fails the request is essential, and which one it is.
LEMMA MustCalls ==
  ASSUME endpoint \in Endpoint, step \in Nat, Pending, Now.mode = "must", NEW call \in Now.calls
  PROVE  /\ call \in Essential
         /\ endpoint \in PodEndpoints => IF step = 0 THEN call = "getPod" ELSE call = "listNodes"
         /\ endpoint = "utilization" =>
              CASE step = 0 -> call = "getNode" [] step = 1 -> call = "listMetrics" [] OTHER -> step = 2 /\ call = "getMetrics"
         /\ endpoint \in PodEndpoints \cup {"utilization", "error", "pod-issues"}
  <1>1. step + 1 \in 1..Len(Plan(endpoint))
    BY PlanLength DEF Pending
  <1>2. CASE endpoint \in PodEndpoints
    <2>1. IF step = 0 THEN call = "getPod" ELSE endpoint = "scheduling/explain" /\ call = "listNodes"
      BY <1>1, <1>2, PodPlan DEF Now, Must
    <2> QED
      BY <1>2, <2>1 DEF Essential, PodEndpoints
  <1>3. CASE endpoint = "utilization"
    BY <1>1, <1>3, UtilizationPlan DEF Essential, PodEndpoints, Now, Must
  <1>4. CASE endpoint \in {"error", "pod-issues"}
    <2>1. step = 0 /\ call = "listPods"
      BY <1>1, <1>4 DEF Now, Plan, GetNamespaceErrors, GetClusterIssues, Must, Many
    <2> QED
      BY <1>4, <2>1 DEF Essential, PodEndpoints
  <1>5. CASE endpoint \in {"healthz", "readyz"}
    BY <1>1, <1>5 DEF Plan
  <1> QED
    BY <1>2, <1>3, <1>4, <1>5 DEF Endpoint

-----------------------------------------------------------------------------

\* The types hold at the start.
LEMMA Initially == Init => TypeOK
  <1> SUFFICES ASSUME Init PROVE TypeOK
    OBVIOUS
  <1>1. client \in {"ok", "typedNil"} /\ endpoint \in Endpoint \cup {"none"} /\ step \in 0..4 /\ seen \in PodStates
    BY ClientsAssumption DEF Init, PodStates
  <1>2. ctx \in {"live", "deadline", "canceled"} /\ status \in {0, 200, 400, 404, 500, 503, 504}
    BY DEF Init
  <1> QED
    BY <1>1, <1>2, Zenon DEF Init, TypeOK

\* A step short of the plan's end stays in the type.
LEMMA NextStep ==
  ASSUME NEW s \in 0..4, NEW l \in 0..4, s < l
  PROVE  s + 1 \in 0..4
  OBVIOUS

\* And every step keeps them.
LEMMA TypeStep ==
  ASSUME TypeOK, [Next]_vars
  PROVE  TypeOK'
  <1> USE DEF TypeOK
  <1>1. ASSUME NEW e \in Endpoint, Start(e)
        PROVE  TypeOK'
    BY <1>1 DEF Start
  <1>2. ASSUME RefuseParams
        PROVE  TypeOK'
    BY <1>2 DEF RefuseParams
  <1>3. ASSUME Call
        PROVE  TypeOK'
    <2>1. PICK call \in Now.calls : \E result \in Results(call) :
            /\ seen' = IF call = "getPod" /\ result = "ok" THEN pod ELSE seen
            /\ step' = CASE Now.mode = "many" -> step
                         [] Now.mode = "gate" /\ ~(result = "ok") -> Len(Plan(endpoint))
                         [] OTHER -> step + 1
            /\ status' = IF Now.mode = "must" /\ ~(result = "ok")
                         THEN StatusFor(endpoint, ServiceError(endpoint, call, result))
                         ELSE 0
      BY <1>3 DEF Call
    <2>2. endpoint \in Endpoint /\ step < Len(Plan(endpoint)) /\ step \in 0..4 /\ Len(Plan(endpoint)) \in 0..4
      BY <1>3, PlanLength DEF Call, Pending, Serving
    <2>3. step' \in {step, Len(Plan(endpoint)), step + 1}
      BY <2>1, Zenon
    <2>6. step + 1 \in 0..4
      <3> DEFINE l == Len(Plan(endpoint))
      <3>1. step \in 0..4 /\ l \in 0..4 /\ step < l
        BY <2>2
      <3> HIDE DEF l, TypeOK
      <3> QED
        BY <3>1, NextStep
    <2>7. step' \in 0..4
      <3>1. step \in 0..4 /\ Len(Plan(endpoint)) \in 0..4
        BY <2>2
      <3>2. step' = step \/ step' = Len(Plan(endpoint)) \/ step' = step + 1
        BY <2>3
      <3> HIDE DEF TypeOK
      <3> QED
        BY <2>6, <3>1, <3>2, Zenon
    <2>4. \A e, err : StatusFor(e, err) \in {404, 500, 503, 504}
      BY DEF StatusFor, HealthScoreStatus, ClusterIssuesStatus, NamespaceStatus, PodHandlersStatus
    <2>5. status' \in {0, 404, 500, 503, 504} /\ seen' \in PodStates
      BY <2>1, <2>4
    <2> QED
      BY <1>3, <2>7, <2>5 DEF Call
  <1>4. ASSUME LeaveLoop
        PROVE  TypeOK'
    <2>1. step < Len(Plan(endpoint)) /\ step \in 0..4 /\ Len(Plan(endpoint)) \in 0..4
      BY <1>4, PlanLength DEF LeaveLoop, Pending, Serving
    <2>2. step + 1 \in 0..4
      <3> DEFINE l == Len(Plan(endpoint))
      <3>1. step \in 0..4 /\ l \in 0..4 /\ step < l
        BY <2>1
      <3> HIDE DEF l, TypeOK
      <3> QED
        BY <3>1, NextStep
    <2> QED
      BY <1>4, <2>2 DEF LeaveLoop
  <1>5. ASSUME CallPanics
        PROVE  TypeOK'
    BY <1>5 DEF CallPanics
  <1>6. ASSUME Answer
        PROVE  TypeOK'
    BY <1>6 DEF Answer
  <1>7. ASSUME ContextDone
        PROVE  TypeOK'
    BY <1>7 DEF ContextDone
  <1>8. ASSUME ClusterChanges
        PROVE  TypeOK'
    <2>1. pod' \in PodStates
      <3>1. CASE pod' \in PodBecomes[pod]
        <4>1. PodBecomes[pod] \in {{"pending"}, {"bound", "failed", "absent"}, {"absent"}}
          BY DEF PodBecomes, PodStates
        <4> QED
          BY <3>1, <4>1 DEF PodStates
      <3> QED
        BY <1>8, <3>1 DEF ClusterChanges
    <2>2. node' \in BOOLEAN
      <3>1. (~node) \in BOOLEAN /\ node \in BOOLEAN
        OBVIOUS
      <3>2. node' = node \/ node' = ~node
        BY <1>8 DEF ClusterChanges
      <3> HIDE DEF TypeOK
      <3> QED
        BY <3>1, <3>2, Zenon
    <2>3. metrics' \in {"down", "warming", "ready"}
      BY <1>8 DEF ClusterChanges
    <2> QED
      BY <1>8, <2>1, <2>2, <2>3 DEF ClusterChanges
  <1>9. ASSUME Over \/ UNCHANGED vars
        PROVE  TypeOK'
    BY <1>9 DEF Over, vars
  <1> QED
    BY <1>1, <1>2, <1>3, <1>4, <1>5, <1>6, <1>7, <1>8, <1>9 DEF Next

\* The type invariant.
THEOREM TypeCorrectness == Spec => []TypeOK
  BY Initially, TypeStep, PTL DEF Spec

-----------------------------------------------------------------------------

\* While a request is served the history holds the present, and what the calls
\* that had to succeed have shown.
Remembered ==
  /\ endpoint = "none" => step = 0 /\ status = 0
  /\ Serving => Moment \subseteq was
  /\ status = 0 =>
       /\ endpoint \in PodEndpoints /\ step >= 1 => <<"pod", TRUE>> \in was
       /\ endpoint = "utilization" /\ step >= 1 => <<"node", TRUE>> \in was
       /\ endpoint = "utilization" /\ step >= 3 => <<"metrics", TRUE>> \in was

\* The inductive invariant.
Inv == TypeOK /\ Remembered /\ StatusTruthful /\ ExtrasAreOptional

\* A call that answered found its object, and one that did not find it is right.
LEMMA ResultsTruthful ==
  ASSUME TypeOK, NEW call, NEW result \in Results(call)
  PROVE  /\ result = "ok" => Present(call)
         /\ result = "notFound" => ~Present(call)
         /\ result = "forbidden" => call \notin Granted
         /\ result \in {"ok", "notFound", "forbidden", "fault", "deadline", "canceled"}
  BY DEF TypeOK, Results

\* What is said of a present object is in the history.
LEMMA PresentIsRemembered ==
  ASSUME TypeOK, Remembered, Serving
  PROVE  /\ IF Present("getPod") THEN <<"pod", TRUE>> \in was ELSE <<"pod", FALSE>> \in was
         /\ IF Present("getNode") THEN <<"node", TRUE>> \in was ELSE <<"node", FALSE>> \in was
         /\ IF Present("getMetrics") THEN <<"metrics", TRUE>> \in was ELSE <<"metrics", FALSE>> \in was
         /\ ~Present("listMetrics") => <<"metrics", FALSE>> \in was
  <1>1. Moment \subseteq was
    BY DEF Remembered
  <1>2. <<"pod", pod # "absent">> \in was /\ <<"node", node>> \in was /\ <<"metrics", metrics = "ready">> \in was
    BY <1>1, Zenon DEF Moment
  <1>3. Present("getPod") = (pod # "absent") /\ Present("getNode") = node
    BY DEF Present
  <1>4. Present("getMetrics") = (metrics = "ready") /\ Present("listMetrics") = (metrics # "down")
    BY DEF Present
  <1>5. metrics = "down" => (metrics = "ready") = FALSE
    OBVIOUS
  <1>6. ASSUME NEW o, NEW b \in BOOLEAN, <<o, b>> \in was
        PROVE  IF b THEN <<o, TRUE>> \in was ELSE <<o, FALSE>> \in was
    <2>1. b = TRUE \/ b = FALSE
      OBVIOUS
    <2> QED
      BY <1>6, <2>1, Zenon
  <1>7. IF Present("getPod") THEN <<"pod", TRUE>> \in was ELSE <<"pod", FALSE>> \in was
    BY <1>2, <1>3, <1>6, Zenon
  <1>8. IF Present("getNode") THEN <<"node", TRUE>> \in was ELSE <<"node", FALSE>> \in was
    <2>1. node \in BOOLEAN
      BY DEF TypeOK
    <2> QED
      BY <1>2, <1>3, <1>6, <2>1, Zenon
  <1>9. IF Present("getMetrics") THEN <<"metrics", TRUE>> \in was ELSE <<"metrics", FALSE>> \in was
    BY <1>2, <1>4, <1>6, Zenon
  <1>10. ~Present("listMetrics") => <<"metrics", FALSE>> \in was
    BY <1>2, <1>4, <1>5, Zenon
  <1> QED
    BY <1>7, <1>8, <1>9, <1>10, Zenon

\* What a failed call that had to succeed makes of the status: 404 only if the
\* object was missing, 503 only if the metrics were.
LEMMA FailureTruthful ==
  ASSUME TypeOK, Remembered, Pending, Now.mode = "must", NEW call \in Now.calls,
         NEW result \in Results(call), result # "ok",
         NEW code, code = StatusFor(endpoint, ServiceError(endpoint, call, result))
  PROVE  /\ code \in {404, 500, 503, 504}
         /\ code = 404 /\ endpoint \in PodEndpoints => <<"pod", FALSE>> \in was
         /\ code = 404 /\ endpoint = "utilization" => <<"node", FALSE>> \in was
         /\ code = 503 => \/ <<"metrics", FALSE>> \in was
                          \/ call = "listMetrics" /\ result \in {"forbidden", "fault", "deadline", "canceled"}
         /\ result = "forbidden" => call \notin Granted
  <1> DEFINE err == ServiceError(endpoint, call, result)
  <1>1. endpoint \in Endpoint /\ step \in Nat
    BY DEF Pending, Serving, TypeOK
  <1>2. code \in {404, 500, 503, 504}
    BY DEF StatusFor, HealthScoreStatus, ClusterIssuesStatus, NamespaceStatus, PodHandlersStatus
  <1>3. /\ code = 404 => err \in {"ErrPodNotFound", "ErrNodeNotFound"}
        /\ code = 503 => err = "ErrMetricsNotAvailable"
    BY DEF StatusFor, HealthScoreStatus, ClusterIssuesStatus, NamespaceStatus, PodHandlersStatus
  <1>4. Wrapped(result) \in {"deadline", "other"}
    BY DEF Wrapped
  <1>5. result = "notFound" => ~Present(call)
    BY ResultsTruthful
  <1>6. CASE endpoint \in PodEndpoints
    <2>1. call \in {"getPod", "listNodes"}
      BY <1>1, <1>6, MustCalls
    <2>2. endpoint # "utilization"
      BY <1>6 DEF PodEndpoints
    <2>3. err = "ErrPodNotFound" => call = "getPod" /\ result = "notFound"
      BY <1>4, <2>2 DEF ServiceError, GetPodError
    <2>4. err \notin {"ErrNodeNotFound", "ErrMetricsNotAvailable"}
      BY <1>4, <2>2 DEF ServiceError, GetPodError
    <2>5. err = "ErrPodNotFound" => <<"pod", FALSE>> \in was
      BY <1>5, <2>3, PresentIsRemembered DEF Pending
    <2> QED
      BY <1>2, <1>3, <2>2, <2>4, <2>5, ResultsTruthful
  <1>7. CASE endpoint = "utilization"
    <2>1. call \in {"getNode", "listMetrics", "getMetrics"}
      BY <1>1, <1>7, MustCalls, Zenon
    <2>2. err = UtilizationError(call, result)
      BY <1>7, <2>1 DEF ServiceError
    <2>3. endpoint \notin PodEndpoints
      BY <1>7 DEF PodEndpoints
    <2>4. /\ err # "ErrPodNotFound"
          /\ err = "ErrNodeNotFound" => call = "getNode" /\ result = "notFound"
          /\ err = "ErrMetricsNotAvailable" => call = "listMetrics" \/ (call = "getMetrics" /\ result = "notFound")
      BY <1>4, <2>1, <2>2 DEF UtilizationError
    <2>5. err = "ErrNodeNotFound" => <<"node", FALSE>> \in was
      BY <1>5, <2>4, PresentIsRemembered DEF Pending
    <2>6. err = "ErrMetricsNotAvailable" =>
            \/ <<"metrics", FALSE>> \in was
            \/ call = "listMetrics" /\ result \in {"forbidden", "fault", "deadline", "canceled"}
      BY <1>5, <2>4, PresentIsRemembered, ResultsTruthful DEF Pending
    <2> QED
      BY <1>2, <1>3, <2>3, <2>4, <2>5, <2>6, ResultsTruthful
  <1>8. CASE endpoint \notin PodEndpoints \cup {"utilization"}
    <2>1. endpoint \in {"error", "pod-issues"}
      BY <1>1, <1>8, MustCalls
    <2>2. code = 500
      BY <2>1 DEF StatusFor, ClusterIssuesStatus, NamespaceStatus
    <2> QED
      BY <1>8, <2>2, ResultsTruthful
  <1> QED
    BY <1>6, <1>7, <1>8

\* The invariant holds at the start.
LEMMA InvInit == Init => Inv
  BY Initially DEF Init, Inv, Remembered, StatusTruthful, ExtrasAreOptional, Serving

\* A call that answers leaves behind what the later steps rely on.
LEMMA CallRemembers ==
  ASSUME TypeOK, Remembered, Pending, status' = 0, step' \in 0..4, UNCHANGED <<endpoint, was, crashed, pod, node, metrics>>,
         NEW call \in Now.calls, NEW result \in Results(call), Now.mode = "must" => result = "ok",
         step' = CASE Now.mode = "many" -> step
                   [] Now.mode = "gate" /\ ~(result = "ok") -> Len(Plan(endpoint))
                   [] OTHER -> step + 1
  PROVE  Remembered'
  <1>1. endpoint \in Endpoint /\ endpoint # "none" /\ step \in Nat /\ status = 0 /\ ~crashed
    BY DEF Pending, Serving, TypeOK, Endpoint, PodEndpoints
  <1>2. Moment' = Moment
    BY DEF Moment
  <1>3. Moment \subseteq was
    BY DEF Remembered, Pending
  <1>4. ASSUME endpoint \in PodEndpoints
        PROVE  <<"pod", TRUE>> \in was
    <2>1. CASE step = 0
      <3>1. Now = Must("getPod")
        BY <1>4, <2>1, PodPlan DEF Now
      <3>2. call = "getPod" /\ result = "ok"
        BY <3>1 DEF Must
      <3> QED
        BY <3>2, ResultsTruthful, PresentIsRemembered DEF Pending
    <2>2. CASE step # 0
      BY <1>1, <1>4, <2>2 DEF Remembered
    <2> QED
      BY <2>1, <2>2
  <1>5. ASSUME endpoint = "utilization"
        PROVE  /\ step' = step + 1 /\ result = "ok" /\ step \in 0..2
               /\ step = 0 => call = "getNode"
               /\ step = 2 => call = "getMetrics"
    <2>0. step < 3
      BY <1>5, UtilizationLength DEF Pending
    <2>1. step \in 0..2
      BY <1>1, <2>0
    <2>2. Now = Must("getNode") \/ Now = Must("listMetrics") \/ Now = Must("getMetrics")
      BY <1>5, <2>1, UtilizationPlan DEF Now
    <2>3. Now.mode = "must"
      BY <2>2 DEF Must
    <2>4. (step = 0 => call = "getNode") /\ (step = 2 => call = "getMetrics")
      BY <1>5, <2>1, UtilizationPlan DEF Now, Must
    <2> QED
      BY <2>1, <2>3, <2>4
  <1>6. ASSUME endpoint = "utilization"
        PROVE  /\ <<"node", TRUE>> \in was
               /\ step' >= 3 => <<"metrics", TRUE>> \in was
    <2>1. <<"node", TRUE>> \in was
      <3>1. CASE step = 0
        BY <1>5, <1>6, <3>1, ResultsTruthful, PresentIsRemembered DEF Pending
      <3>2. CASE step # 0
        BY <1>1, <1>6, <3>2 DEF Remembered
      <3> QED
        BY <3>1, <3>2
    <2>2. ASSUME step' >= 3
          PROVE  <<"metrics", TRUE>> \in was
      <3>1. step = 2
        BY <1>5, <1>6, <2>2
      <3> QED
        BY <1>5, <1>6, <3>1, ResultsTruthful, PresentIsRemembered DEF Pending
    <2> QED
      BY <2>1, <2>2
  <1> QED
    BY <1>1, <1>2, <1>3, <1>4, <1>6 DEF Remembered, Serving

\* Every step keeps what the history holds.
LEMMA RememberedStep ==
  ASSUME TypeOK, TypeOK', Remembered, [Next]_vars
  PROVE  Remembered'
  <1>1. ASSUME NEW e \in Endpoint, Start(e)
        PROVE  Remembered'
    BY <1>1 DEF Start, Remembered, Serving, Moment, Endpoint, PodEndpoints
  <1>2. ASSUME Call
        PROVE  Remembered'
    <2>1. PICK call \in Now.calls : \E result \in Results(call) :
            /\ step' = CASE Now.mode = "many" -> step
                         [] Now.mode = "gate" /\ ~(result = "ok") -> Len(Plan(endpoint))
                         [] OTHER -> step + 1
            /\ status' = IF Now.mode = "must" /\ ~(result = "ok")
                         THEN StatusFor(endpoint, ServiceError(endpoint, call, result))
                         ELSE 0
      BY <1>2 DEF Call
    <2>2. Pending /\ UNCHANGED <<endpoint, was, crashed, pod, node, metrics>> /\ step' \in 0..4
      BY <1>2 DEF Call, TypeOK
    <2>3. CASE status' = 0
      <3>1. \A e, err : StatusFor(e, err) # 0
        BY DEF StatusFor, HealthScoreStatus, ClusterIssuesStatus, NamespaceStatus, PodHandlersStatus
      <3>2. PICK result \in Results(call) :
              /\ step' = CASE Now.mode = "many" -> step
                           [] Now.mode = "gate" /\ ~(result = "ok") -> Len(Plan(endpoint))
                           [] OTHER -> step + 1
              /\ Now.mode = "must" => result = "ok"
        BY <2>1, <2>3, <3>1
      <3> QED
        BY <2>2, <2>3, <3>2, CallRemembers
    <2>4. CASE status' # 0
      BY <2>2, <2>4 DEF Remembered, Pending, Serving, Endpoint, PodEndpoints, TypeOK
    <2> QED
      BY <2>3, <2>4
  <1>3. ASSUME LeaveLoop
        PROVE  Remembered'
    <2>1. endpoint \in Endpoint /\ endpoint # "none" /\ step \in Nat /\ status = 0 /\ ~crashed
      BY <1>3 DEF LeaveLoop, Pending, Serving, TypeOK, Endpoint, PodEndpoints
    <2>2. endpoint \in PodEndpoints => step >= 1
      <3>1. SUFFICES ASSUME endpoint \in PodEndpoints, step = 0 PROVE FALSE
        BY <2>1
      <3>2. Now = Must("getPod")
        BY <3>1, PodPlan DEF Now
      <3> QED
        BY <1>3, <3>2 DEF LeaveLoop, Must
    <2>3. endpoint # "utilization"
      <3>1. SUFFICES ASSUME endpoint = "utilization" PROVE FALSE
        OBVIOUS
      <3>4. step < 3
        BY <1>3, <3>1, UtilizationLength DEF LeaveLoop, Pending
      <3>2. step \in 0..2
        BY <2>1, <3>4
      <3>3. Now.mode = "must"
        BY <3>1, <3>2, UtilizationPlan DEF Now, Must
      <3> QED
        BY <1>3, <3>3 DEF LeaveLoop
    <2>4. Moment' = Moment /\ UNCHANGED <<endpoint, status, crashed, was>>
      BY <1>3 DEF LeaveLoop, Moment
    <2> QED
      BY <2>1, <2>2, <2>3, <2>4 DEF Remembered, Serving
  <1>4. ASSUME RefuseParams \/ Answer \/ CallPanics
        PROVE  Remembered'
    <2>1. (status' \in {200, 400} \/ crashed' = TRUE) /\ endpoint # "none" /\ UNCHANGED <<endpoint, step, was>> /\ status = 0
      BY <1>4 DEF RefuseParams, Answer, CallPanics, Pending, Serving
    <2>2. crashed' = TRUE => status' = 0 \/ status' \in {200, 400}
      BY <1>4 DEF RefuseParams, Answer, CallPanics, Pending, Serving
    <2> QED
      BY <2>1, <2>2 DEF Remembered, Serving
  <1>5. ASSUME ContextDone
        PROVE  Remembered'
    BY <1>5 DEF ContextDone, Remembered, Serving, Moment
  <1>6. ASSUME ClusterChanges
        PROVE  Remembered'
    <2>1. was \subseteq was'
      BY <1>6 DEF ClusterChanges
    <2>2. endpoint # "none" => Moment' \subseteq was'
      BY <1>6 DEF ClusterChanges
    <2>3. UNCHANGED <<endpoint, step, status, crashed>>
      BY <1>6 DEF ClusterChanges
    <2> QED
      BY <2>1, <2>2, <2>3 DEF Remembered, Serving
  <1>7. ASSUME Over \/ UNCHANGED vars
        PROVE  Remembered'
    BY <1>7 DEF Over, vars, Remembered, Serving, Moment
  <1> QED
    BY <1>1, <1>2, <1>3, <1>4, <1>5, <1>6, <1>7 DEF Next

\* A call keeps the two properties: what its failure makes of the status is true
\* of the past, and is due to a call that is essential.
LEMMA CallTruthful ==
  ASSUME Inv, TypeOK', Call
  PROVE  StatusTruthful' /\ ExtrasAreOptional'
  <1>1. /\ TypeOK /\ Remembered /\ Pending /\ UNCHANGED <<endpoint, was>>
        /\ endpoint \in Endpoint /\ step \in Nat
    BY DEF Inv, Call, Pending, Serving, TypeOK
  <1>2. PICK call \in Now.calls : \E result \in Results(call) :
          /\ failed' = IF result = "ok" THEN failed ELSE failed \cup {<<call, result>>}
          /\ status' = IF Now.mode = "must" /\ ~(result = "ok")
                       THEN StatusFor(endpoint, ServiceError(endpoint, call, result))
                       ELSE 0
    BY DEF Call
  <1>3. PICK result \in Results(call) :
          /\ failed' = IF result = "ok" THEN failed ELSE failed \cup {<<call, result>>}
          /\ status' = IF Now.mode = "must" /\ ~(result = "ok")
                       THEN StatusFor(endpoint, ServiceError(endpoint, call, result))
                       ELSE 0
    BY <1>2
  <1>4. CASE Now.mode = "must" /\ ~(result = "ok")
    <2>1. <<call, result>> \in failed'
      BY <1>3, <1>4
    <2>2. call \in Essential'
      BY <1>1, <1>4, MustCalls DEF Essential
    <2>3. ExtrasAreOptional'
      <3>1. \E f \in failed' : f[1] \in Essential'
        BY <2>1, <2>2
      <3> QED
        BY <3>1 DEF ExtrasAreOptional
    <2>4. /\ status' # 200
          /\ status' = 404 /\ endpoint \in PodEndpoints => <<"pod", FALSE>> \in was
          /\ status' = 404 /\ endpoint = "utilization" => <<"node", FALSE>> \in was
      BY <1>1, <1>3, <1>4, FailureTruthful
    <2> QED
      BY <1>1, <2>3, <2>4 DEF StatusTruthful
  <1>5. CASE ~(Now.mode = "must" /\ ~(result = "ok"))
    <2>1. status' = 0
      BY <1>3, <1>5
    <2> QED
      BY <2>1 DEF StatusTruthful, ExtrasAreOptional
  <1> QED
    BY <1>4, <1>5

\* The invariant is inductive.
LEMMA InvStep ==
  ASSUME Inv, [Next]_vars
  PROVE  Inv'
  <1>1. TypeOK' /\ Remembered'
    BY TypeStep, RememberedStep DEF Inv
  <1>2. ASSUME NEW e \in Endpoint, Start(e)
        PROVE  StatusTruthful' /\ ExtrasAreOptional'
    <2>1. status' = 0
      BY <1>2 DEF Start, Inv, Remembered
    <2> QED
      BY <2>1 DEF StatusTruthful, ExtrasAreOptional
  <1>3. ASSUME RefuseParams
        PROVE  StatusTruthful' /\ ExtrasAreOptional'
    BY <1>3 DEF RefuseParams, StatusTruthful, ExtrasAreOptional
  <1>4. ASSUME Call
        PROVE  StatusTruthful' /\ ExtrasAreOptional'
    BY <1>1, <1>4, CallTruthful
  <1>5. ASSUME Answer
        PROVE  StatusTruthful' /\ ExtrasAreOptional'
    <2>1. /\ status' = 200 /\ status = 0 /\ step = Len(Plan(endpoint))
          /\ UNCHANGED <<endpoint, was>> /\ Remembered
      BY <1>5 DEF Answer, Serving, Inv
    <2>2. endpoint \in PodEndpoints => <<"pod", TRUE>> \in was
      BY <2>1, PodPlan DEF Remembered
    <2>3. endpoint = "utilization" => {<<"node", TRUE>>, <<"metrics", TRUE>>} \subseteq was
      <3>1. SUFFICES ASSUME endpoint = "utilization" PROVE <<"node", TRUE>> \in was /\ <<"metrics", TRUE>> \in was
        BY Zenon
      <3>2. step = 3
        BY <2>1, <3>1, UtilizationLength
      <3> QED
        BY <2>1, <3>1, <3>2 DEF Remembered
    <2> QED
      BY <2>1, <2>2, <2>3 DEF StatusTruthful, ExtrasAreOptional
  <1>6. ASSUME LeaveLoop \/ CallPanics \/ ContextDone
        PROVE  StatusTruthful' /\ ExtrasAreOptional'
    <2>1. status' = 0
      BY <1>6 DEF LeaveLoop, CallPanics, ContextDone, Pending, Serving
    <2> QED
      BY <2>1 DEF StatusTruthful, ExtrasAreOptional
  <1>7. ASSUME ClusterChanges
        PROVE  StatusTruthful' /\ ExtrasAreOptional'
    <2>1. status' = 0
      BY <1>7 DEF ClusterChanges
    <2> QED
      BY <2>1 DEF StatusTruthful, ExtrasAreOptional
  <1>8. ASSUME Over \/ UNCHANGED vars
        PROVE  StatusTruthful' /\ ExtrasAreOptional'
    <2>1. UNCHANGED <<status, endpoint, was, failed>>
      BY <1>8 DEF Over, vars
    <2> QED
      BY <2>1 DEF Inv, StatusTruthful, ExtrasAreOptional, Essential
  <1> QED
    BY <1>1, <1>2, <1>3, <1>4, <1>5, <1>6, <1>7, <1>8 DEF Next, Inv

\* Whatever happens between the calls, 404 is only said of a pod or a node that
\* was missing at some moment of the request, and 200 of one that was there.
THEOREM StatusesAreTruthful == Spec => []StatusTruthful
  <1>1. Inv => StatusTruthful
    BY DEF Inv
  <1> QED
    BY <1>1, InvInit, InvStep, PTL DEF Spec

\* A request that got what it is about is not refused for the sake of an extra.
THEOREM ExtrasNeverRefuse == Spec => []ExtrasAreOptional
  <1>1. Inv => ExtrasAreOptional
    BY DEF Inv
  <1> QED
    BY <1>1, InvInit, InvStep, PTL DEF Spec

-----------------------------------------------------------------------------

\* With the permission to list the metrics, 503 blames the metrics server justly:
\* a step keeps what the answer says.
LEMMA UnavailableStep ==
  ASSUME "listMetrics" \in Granted, Inv, UnavailableTruthful, [Next]_vars
  PROVE  UnavailableTruthful'
  <1>1. CASE status' = 503 /\ status # 503
    <2>1. Call
      BY <1>1 DEF Next, Start, RefuseParams, LeaveLoop, CallPanics, Answer, ContextDone, ClusterChanges, Over, vars, Inv,
               Remembered
    <2>2. /\ TypeOK /\ Remembered /\ Pending /\ UNCHANGED was
      BY <2>1 DEF Inv, Call
    <2>3. PICK call \in Now.calls : \E result \in Results(call) :
            /\ failed' = IF result = "ok" THEN failed ELSE failed \cup {<<call, result>>}
            /\ status' = IF Now.mode = "must" /\ ~(result = "ok")
                         THEN StatusFor(endpoint, ServiceError(endpoint, call, result))
                         ELSE 0
      BY <2>1 DEF Call
    <2>4. PICK result \in Results(call) :
            /\ failed' = IF result = "ok" THEN failed ELSE failed \cup {<<call, result>>}
            /\ status' = IF Now.mode = "must" /\ ~(result = "ok")
                         THEN StatusFor(endpoint, ServiceError(endpoint, call, result))
                         ELSE 0
      BY <2>3
    <2>5. Now.mode = "must" /\ result # "ok" /\ status' = StatusFor(endpoint, ServiceError(endpoint, call, result))
      BY <1>1, <2>4
    <2>6. \/ <<"metrics", FALSE>> \in was
          \/ call = "listMetrics" /\ result \in {"fault", "deadline", "canceled"}
      BY <1>1, <2>2, <2>5, FailureTruthful
    <2>7. <<call, result>> \in failed'
      BY <2>4, <2>5
    <2> QED
      BY <2>2, <2>6, <2>7 DEF UnavailableTruthful
  <1>2. CASE status' = 503 /\ status = 503
    <2>1. was \subseteq was' /\ failed \subseteq failed'
      BY <1>2 DEF Next, Start, RefuseParams, Call, LeaveLoop, CallPanics, Answer, ContextDone, ClusterChanges, Over, vars,
               Inv, Remembered, Pending, Serving
    <2> QED
      BY <1>2, <2>1 DEF UnavailableTruthful
  <1>3. CASE status' # 503
    BY <1>3 DEF UnavailableTruthful
  <1> QED
    BY <1>1, <1>2, <1>3

\* 503 is said only when the metrics server was without data of the node at some
\* moment of the request, or did not answer.  The shipped ClusterRole does not
\* grant the list, and there it fails: Endpoints_role_503 shows how.
THEOREM UnavailabilityIsTruthful ==
  ASSUME "listMetrics" \in Granted
  PROVE  Spec => []UnavailableTruthful
  <1>1. Init => UnavailableTruthful
    BY DEF Init, UnavailableTruthful
  <1>2. Inv /\ UnavailableTruthful /\ [Next]_vars => UnavailableTruthful'
    BY UnavailableStep
  <1> QED
    BY <1>1, <1>2, InvInit, InvStep, PTL DEF Spec
===============================================================================
