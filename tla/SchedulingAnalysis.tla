-------------------------- MODULE SchedulingAnalysis --------------------------
(***************************************************************************)
(* Why a pod is, or is not, on a node: the two analyses of podService      *)
(* (internal/core/services/pod_service.go), GetPodScheduling and           *)
(* GetPodSchedulingExplanation.  Both read the pod, its events and the     *)
(* nodes, and then, node by node, the pods on the node and the pod's       *)
(* claims.  Every read is a call of its own, and meanwhile the scheduler   *)
(* binds pods, pods finish and claims are bound.                           *)
(*                                                                         *)
(* A selector or a set of labels is a set of <<key, value>>.  A message of *)
(* an event is a set of phrases, as far as the parsers tell them apart.    *)
(***************************************************************************)
EXTENDS Integers, Sequences, FiniteSets, FiniteSetsExt

CONSTANTS NodeLists,  \* what the list of nodes may be
          Subjects,   \* the pods a request may ask about
          Others,     \* the other pods of the cluster
          EventLists, \* what getSchedulingEvents may return, the newest first
          NoSelector, \* a term's LabelSelector when it is nil
          MaxFaults   \* bound: calls that fail before the deadline

Resource == {"cpu", "memory", "storage"}

\* Names tell the pods and the nodes apart, and the API server admits no negative
\* quantity and no other effect of a taint.
ASSUME PodsAssumption ==
  /\ IsFiniteSet(Others) /\ \A p \in Subjects : IsFiniteSet(p.claims)
  /\ \A p \in Subjects : \A q \in Others : p.name # q.name
  /\ \A p, q \in Others : p.name = q.name => p = q
  /\ \A p \in Subjects \cup Others : \A r \in Resource : p.requests[r] \in Nat
ASSUME NodesAssumption ==
  \A list \in NodeLists :
    /\ list \in Seq({list[i] : i \in DOMAIN list})
    /\ \A i, j \in DOMAIN list : list[i].name = list[j].name => i = j
    /\ \A i \in DOMAIN list :
         /\ list[i].name # ""
         /\ \A r \in Resource : list[i].allocatable[r] \in Nat
         /\ \A t \in list[i].taints : t.effect \in {"NoSchedule", "PreferNoSchedule", "NoExecute"}
ASSUME FaultsAssumption == MaxFaults \in Nat

VARIABLES nodes,     \* the cluster: its nodes, in the order they are listed,
          pod,       \*   the pod asked about,
          place,     \*   the node a pod is bound to, "" if none,
          over,      \*   the pods that Succeeded or Failed,
          bound,     \*   the claims that are bound
          late,      \* is the request's context done?
          faults,    \* calls that failed before that
          op,        \* "scheduling" or "explanation"
          pc,        \* the call to make next, "done" or "failed"
          status,    \* the pod's scheduling status, as it was read
          events,
          at,        \* the node under analysis, an index of nodes
          found,     \* what has been found of that node
          analyses,  \* UnschedulableNodes, or NodeAnalysis
          before     \* history: place and over when the pod was read

cluster == <<nodes, pod, place, over, bound>>
vars == <<cluster, late, faults, op, pc, status, events, at, found, analyses, before>>

AllPods  == Others \cup {pod}
Names    == {q.name : q \in AllPods}

\* Mutant of OnNode: the list's field selector is dropped.
OnNode_All(n) == {q \in AllPods : place[q.name] # ""}

\* List with the field selector spec.nodeName.
OnNode(n) == {q \in AllPods : place[q.name] = n.name}
When(condition, S) == IF condition THEN S ELSE {}

(***************************************************************************)
(* One constraint of the pod against one node.                             *)
(***************************************************************************)

\* Gt and Lt are not compared: they always match.
matchNodeSelectorRequirement(n, req) ==
  LET values == {l[2] : l \in {m \in n.labels : m[1] = req.key}}
  IN  CASE req.op = "In"           -> values \cap req.values # {}
        [] req.op = "NotIn"        -> values \cap req.values = {}
        [] req.op = "Exists"       -> values # {}
        [] req.op = "DoesNotExist" -> values = {}
        [] req.op \in {"Gt", "Lt"} -> TRUE

\* The only field there is, is metadata.name.
matchNodeFieldSelector(n, req) ==
  /\ req.key = "metadata.name"
  /\ \/ req.op = "In" /\ n.name \in req.values
     \/ req.op = "NotIn" /\ n.name \notin req.values

matchNodeSelectorTerm(n, term) ==
  /\ \A e \in term.expressions : matchNodeSelectorRequirement(n, e)
  /\ \A f \in term.fields : matchNodeFieldSelector(n, f)

MissingLabels(p, n) == p.selector \ n.labels

\* A required node affinity has at least one term; {} stands for a nil one.
evaluateNodeAffinity(p, n) ==
  /\ MissingLabels(p, n) = {}
  /\ p.required # {} => \E term \in p.required : matchNodeSelectorTerm(n, term)

\* Mutant of explainAffinity: every term has to match.
explainAffinity_All(p, n) ==
  When(MissingLabels(p, n) # {}, {"NodeSelector"})
    \cup When(p.required # {} /\ \E term \in p.required : ~matchNodeSelectorTerm(n, term), {"NodeAffinity"})

\* The parts of the pod's node affinity that the node does not match.
explainAffinity(p, n) ==
  When(MissingLabels(p, n) # {}, {"NodeSelector"})
    \cup When(p.required # {} /\ \A term \in p.required : ~matchNodeSelectorTerm(n, term), {"NodeAffinity"})

tolerationMatchesTaint(toleration, taint) ==
  /\ toleration.key \in {"", taint.key}
  /\ toleration.effect \in {"", taint.effect}
  /\ \/ toleration.operator \in {"Equal", ""} /\ toleration.value = taint.value
     \/ toleration.operator = "Exists"

evaluateTaintsAndTolerations(p, n) ==
  {t \in n.taints : /\ t.effect \in {"NoSchedule", "NoExecute"}
                    /\ ~\E toleration \in p.tolerations : tolerationMatchesTaint(toleration, t)}

\* The same loop once more, with the words for the answer.
explainTaints(p, n) ==
  LET tolerated == {t \in n.taints : \E toleration \in p.tolerations : tolerationMatchesTaint(toleration, t)}
  IN  {t \in n.taints \ tolerated : t.effect # "PreferNoSchedule"}

\* The resources that the empty node would lack; storage is not looked at.
evaluateResourceFit(p, n) == {r \in {"cpu", "memory"} : p.requests[r] > n.allocatable[r]}

\* What the pods of S request of r, added up.
Requested(S, r) == SumFunctionOnSet([q \in S |-> q.requests[r]], S)

\* Mutant of calculateNodeAllocatedResources: pods that are over count as well.
calculateNodeAllocatedResources_Over(listed, done) == [r \in Resource |-> Requested(listed, r)]

\* The requests of the pods listed on a node, done being those that are over.
calculateNodeAllocatedResources(listed, done) ==
  [r \in Resource |-> Requested({q \in listed : q.name \notin done}, r)]

\* Is there a Shortage?  What is left may be negative.
analyzeResourceDetail(podRequest, nodeAllocatable, nodeAllocated) == podRequest > nodeAllocatable - nodeAllocated

\* The resources of which the pod requests more than is left; cpu and memory are
\* compared even when the pod requests none.
explainResourceFit(p, n, allocated) ==
  {r \in Resource : /\ r = "storage" => p.requests[r] > 0
                    /\ analyzeResourceDetail(p.requests[r], n.allocatable[r], allocated[r])}

\* Without namespaces a term selects from all of them.
podMatchesAntiAffinityTerm(q, term) ==
  /\ term.namespaces = {} \/ q.namespace \in term.namespaces
  /\ term.selector # NoSelector /\ term.selector \subseteq q.labels

\* Mutant of evaluatePodAntiAffinity: every term has to select the pod.
evaluatePodAntiAffinity_Every(p, listed) ==
  {q.name : q \in {l \in listed : \A term \in p.antiAffinity : podMatchesAntiAffinityTerm(l, term)}}

\* The pods of the list that a term of the pod's anti-affinity selects, itself
\* not excepted.
evaluatePodAntiAffinity(p, listed) ==
  {q.name : q \in {l \in listed : \E term \in p.antiAffinity : podMatchesAntiAffinityTerm(l, term)}}

\* Mutant of explainPodAffinity: the pod is not skipped in the list.
explainPodAffinity_Self(p, listed) ==
  [conflicts |-> evaluatePodAntiAffinity(p, listed),
   unmet     |-> {term \in p.affinity : ~\E q \in listed : podMatchesAntiAffinityTerm(q, term)}]

\* The pod itself is skipped for the anti-affinity, and may satisfy the affinity.
explainPodAffinity(p, listed) ==
  [conflicts |-> evaluatePodAntiAffinity(p, {q \in listed : <<q.name, q.namespace>> # <<p.name, p.namespace>>}),
   unmet     |-> {term \in p.affinity : ~\E q \in listed : podMatchesAntiAffinityTerm(q, term)}]

VolumeMatches(c, n) == c.terms = {} \/ \E term \in c.terms : matchNodeSelectorTerm(n, term)

\* What the claims that could be read say against the node.  A bound claim has a
\* volume; the volume's get is taken together with the claim's.
analyzeVolumeConstraints(n, readable) ==
  LET have == {c \in readable : c.name \in bound}
  IN  When(have # readable, {"unbound"})
        \cup When(\E c \in have : ~VolumeMatches(c, n), {"volumeAffinity"})
        \cup When(\E c \in have : c.rwo, {"readWriteOnce"})

\* ReadWriteOnce is noted and does not count.
explainVolumeConstraints(n, readable) ==
  When(\E c \in readable : c.name \in bound => ~VolumeMatches(c, n), {"Volume"})

(***************************************************************************)
(* What the analyses make of a node without a further call.                *)
(***************************************************************************)

\* The reasons of analyzeUnschedulableNodes that need no call.
UnschedulableReasons(p, n) ==
  UNION {When(n.ready # "True", {"notReady"}),
         When(n.unschedulable, {"unschedulable"}),
         When(~evaluateNodeAffinity(p, n), {"affinity"}),
         When(evaluateTaintsAndTolerations(p, n) # {}, {"taints"}),
         When(MissingLabels(p, n) # {}, {"selector"}),
         When(evaluateResourceFit(p, n) # {}, {"resources"})}

\* A node without a Ready condition is ready here.
explainNodeReady(n) == ~n.unschedulable /\ n.ready \in {"True", "none"}

ExplainedReasons(p, n) ==
  UNION {When(~explainNodeReady(n), {"NodeReady"}),
         explainAffinity(p, n),
         When(explainTaints(p, n) # {}, {"Taints"})}

\* analyzeSchedulingDecision: what speaks for the node the pod is on.  Where nothing
\* does, the scheduler's algorithm is said to have chosen it.
SchedulingDecision(p, n) ==
  LET tolerated == {t \in n.taints : \E toleration \in p.tolerations : tolerationMatchesTaint(toleration, t)}
      reasons ==
        UNION {When(evaluateNodeAffinity(p, n) /\ (p.selector # {} \/ p.required # {}), {"matches"}),
               When(evaluateTaintsAndTolerations(p, n) = {}, {IF tolerated = {} THEN "noTaints" ELSE "tolerates"}),
               When(p.selector \cap n.labels # {}, {"labels"}),
               When(evaluateResourceFit(p, n) = {}, {"fits"})}
  IN  reasons \cup When(reasons = {}, {"algorithm"})

HasAffinity(p) == p.required # {} \/ p.antiAffinity # {} \/ p.affinity # {}

(***************************************************************************)
(* The steps of a request.                                                 *)
(***************************************************************************)

\* A call answers unless the context is done; before that a few may fail as well.
Call(ok) ==
  \/ ok /\ ~late /\ UNCHANGED faults
  \/ ~ok /\ late /\ UNCHANGED faults
  \/ ~ok /\ ~late /\ faults < MaxFaults /\ faults' = faults + 1

Listed(name) == CHOOSE n \in {nodes[i] : i \in DOMAIN nodes} : n.name = name
Nothing == [node |-> "", reasons |-> {}, conflicts |-> {}, short |-> {}]

Init ==
  /\ nodes \in NodeLists
  /\ pod \in Subjects
  /\ place \in [Names -> {""} \cup {nodes[i].name : i \in DOMAIN nodes}]
  /\ over \in SUBSET {q \in Names : (q = pod.name) = (place[q] = "")}
  /\ bound \in SUBSET {c.name : c \in pod.claims}
  /\ late = FALSE /\ faults = 0
  /\ op \in {"scheduling", "explanation"}
  /\ pc = "pod" /\ status = "" /\ events = <<>> /\ at = 1
  /\ found = Nothing /\ analyses = {}
  /\ before = [place |-> place, over |-> over]

\* GetPod, whose error ends the request.
GetPod ==
  /\ pc = "pod"
  /\ \E ok \in BOOLEAN :
       /\ Call(ok)
       /\ pc' = IF ok THEN "events" ELSE "failed"
       /\ status' = CASE ~ok -> ""
                      [] ok /\ place[pod.name] # "" -> "Scheduled"
                      [] OTHER -> IF op = "scheduling" /\ pod.name \in over THEN "Failed" ELSE "Pending"
  /\ UNCHANGED <<cluster, late, op, events, at, found, analyses, before>>

\* getSchedulingEvents, and where it leads: the decision is about one node, the
\* analysis of the pending pod and the explanation are about all.
ListEvents ==
  /\ pc = "events"
  /\ \E ok \in BOOLEAN :
       /\ Call(ok)
       /\ events' \in IF ok THEN EventLists ELSE {<<>>}
  /\ pc' = IF op = "explanation" \/ status = "Pending" THEN "nodes"
           ELSE IF status = "Scheduled" THEN "node" ELSE "done"
  /\ UNCHANGED <<cluster, late, op, status, at, found, analyses, before>>

\* GetPodScheduling on a scheduled pod: the node is read for the decision; an
\* error is logged.
GetNode ==
  /\ pc = "node"
  /\ \E ok \in BOOLEAN :
       LET n == Listed(place[pod.name])
       IN  /\ Call(ok)
           /\ analyses' = When(ok, {[node |-> n.name, conflicts |-> {}, short |-> evaluateResourceFit(pod, n),
                                    reasons |-> SchedulingDecision(pod, n)]})
  /\ pc' = "done"
  /\ UNCHANGED <<cluster, late, op, status, events, at, found, before>>

\* The list of nodes: GetPodScheduling logs its error and answers without the
\* analysis, the explanation fails.
ListNodes ==
  /\ pc = "nodes"
  /\ \E ok \in BOOLEAN :
       /\ Call(ok)
       /\ pc' = IF ok THEN (IF nodes = <<>> THEN "done" ELSE "pods")
                ELSE (IF op = "scheduling" THEN "done" ELSE "failed")
  /\ UNCHANGED <<cluster, late, op, status, events, at, found, analyses, before>>

\* Mutant of Proceed: the node is appended before its last call as well.
Proceed_Early(a, next) ==
  /\ analyses' = analyses \cup {a}
  /\ IF next # "none"
     THEN found' = a /\ pc' = next /\ UNCHANGED at
     ELSE /\ found' = Nothing
          /\ at' = at + 1
          /\ pc' = IF at = Len(nodes) THEN "done" ELSE "pods"

\* The analysis a of a node goes on with the next call, or is complete:
\* GetPodScheduling keeps the nodes that have reasons.
Proceed(a, next) ==
  IF next # "none"
  THEN found' = a /\ pc' = next /\ UNCHANGED <<at, analyses>>
  ELSE /\ analyses' = analyses \cup When(op = "explanation" \/ a.reasons # {}, {a})
       /\ found' = Nothing
       /\ at' = at + 1
       /\ pc' = IF at = Len(nodes) THEN "done" ELSE "pods"

VolumeCall == IF pod.claims # {} THEN "volumes" ELSE "none"
AffinityCall == IF HasAffinity(pod) THEN "affinity" ELSE VolumeCall

\* analyzeUnschedulableNodes on a node: an anti-affinity asks for the pods on it,
\* and where they cannot be listed there is no conflict.
AnalyzeUnschedulableNode ==
  /\ pc = "pods" /\ op = "scheduling"
  /\ LET n == nodes[at]
         a(conflicts) == [node |-> n.name, conflicts |-> conflicts, short |-> evaluateResourceFit(pod, n),
                          reasons |-> UnschedulableReasons(pod, n) \cup When(conflicts # {}, {"antiAffinity"})]
     IN  \/ /\ pod.antiAffinity = {}
            /\ Proceed(a({}), VolumeCall)
            /\ UNCHANGED faults
         \/ /\ pod.antiAffinity # {}
            /\ \E ok \in BOOLEAN :
                 /\ Call(ok)
                 /\ Proceed(a(When(ok, evaluatePodAntiAffinity(pod, OnNode(n)))), VolumeCall)
  /\ UNCHANGED <<cluster, late, op, status, events, before>>

\* analyzeNodeForSchedulingExplanation on a node, up to the sum of what its pods
\* request, which is zero if they cannot be listed.
AnalyzeNodeForExplanation ==
  /\ pc = "pods" /\ op = "explanation"
  /\ \E ok \in BOOLEAN :
       LET n == nodes[at]
           short == explainResourceFit(pod, n, calculateNodeAllocatedResources(When(ok, OnNode(n)), over))
       IN  /\ Call(ok)
           /\ Proceed([node |-> n.name, conflicts |-> {}, short |-> short,
                       reasons |-> ExplainedReasons(pod, n) \cup When(short # {}, {"Resources"})],
                      AffinityCall)
  /\ UNCHANGED <<cluster, late, op, status, events, before>>

\* explainPodAffinity: a second list of the node's pods; without it all is well.
ExplainPodAffinity ==
  /\ pc = "affinity"
  /\ \E ok \in BOOLEAN :
       LET seen == explainPodAffinity(pod, OnNode(nodes[at]))
           bad  == ok /\ (seen.conflicts # {} \/ seen.unmet # {})
       IN  /\ Call(ok)
           /\ Proceed([found EXCEPT !.conflicts = When(ok, seen.conflicts),
                                    !.reasons = @ \cup When(bad, {"PodAffinity"})], VolumeCall)
  /\ UNCHANGED <<cluster, late, op, status, events, before>>

\* The claims and their volumes are read one by one; what fails is passed over.
ReadClaims ==
  /\ pc = "volumes"
  /\ \E readable \in SUBSET pod.claims :
       /\ \/ late /\ readable = {} /\ UNCHANGED faults
          \/ /\ ~late
             /\ faults' = faults + Cardinality(pod.claims \ readable)
             /\ faults' <= MaxFaults
       /\ LET n == nodes[at]
              against == IF op = "scheduling" THEN analyzeVolumeConstraints(n, readable)
                                              ELSE explainVolumeConstraints(n, readable)
          IN  Proceed([found EXCEPT !.reasons = @ \cup against], "none")
  /\ UNCHANGED <<cluster, late, op, status, events, before>>

(***************************************************************************)
(* Meanwhile: the scheduler, the kubelets, the volume controller, the      *)
(* clock, from the moment the pod is read to the answer.                   *)
(***************************************************************************)

Running == pc \notin {"pod", "done", "failed"}

Bind(q) ==
  /\ Running /\ place[q] = "" /\ q \notin over
  /\ \E i \in DOMAIN nodes : place' = [place EXCEPT ![q] = nodes[i].name]
  /\ UNCHANGED <<nodes, pod, over, bound, late, faults, op, pc, status, events, at, found, analyses, before>>

Finish(q) ==
  /\ Running /\ place[q] # "" /\ q \notin over
  /\ over' = over \cup {q}
  /\ UNCHANGED <<nodes, pod, place, bound, late, faults, op, pc, status, events, at, found, analyses, before>>

BindClaim(c) ==
  /\ Running /\ c.name \notin bound
  /\ bound' = bound \cup {c.name}
  /\ UNCHANGED <<nodes, pod, place, over, late, faults, op, pc, status, events, at, found, analyses, before>>

Deadline ==
  /\ Running /\ ~late
  /\ late' = TRUE
  /\ UNCHANGED <<cluster, faults, op, pc, status, events, at, found, analyses, before>>

Answered == pc \in {"done", "failed"} /\ UNCHANGED vars

Next ==
  \/ GetPod \/ ListEvents \/ GetNode \/ ListNodes
  \/ AnalyzeUnschedulableNode \/ AnalyzeNodeForExplanation \/ ExplainPodAffinity \/ ReadClaims
  \/ \E q \in Names : Bind(q) \/ Finish(q)
  \/ \E c \in pod.claims : BindClaim(c)
  \/ Deadline
  \/ Answered

Spec == Init /\ [][Next]_vars

(***************************************************************************)
(* The answer: categories of failure, and the advice.                      *)
(***************************************************************************)

\* What a phrase of a FailedScheduling message counts for; "available" is the
\* heading "nodes are available:", the other phrases count for nothing.
PhraseCategory ==
  [cpu |-> "InsufficientCPU", memory |-> "InsufficientMemory", storage |-> "InsufficientStorage",
   nodeAffinity |-> "NodeAffinityNotMatch", taint |-> "TaintTolerationMismatch",
   volumeAffinity |-> "VolumeNodeAffinityConflict", podAffinity |-> "PodAffinityConflict"]

parseFailedSchedulingMessage(message) ==
  When("available" \in message, {PhraseCategory[x] : x \in message \cap DOMAIN PhraseCategory})

parseNotTriggerScaleUpMessage(message) ==
  When("maxNodeGroup" \in message, {"Miscellaneous"})
    \cup When("nodeAffinity" \in message, {"NodeAffinityNotMatch"})

NamesVolume(message) ==
  message \cap {"volumeAffinity", "multiAttach", "attach", "unboundVolume", "maxVolumes"} # {}

\* The keywords of one message.  Any volume next to any node affinity will do.
VolumeKeywords(message) ==
  When("multiAttach" \in message, {"VolumeMultiAttachError"})
    \cup When("volumeAffinity" \in message \/ (NamesVolume(message) /\ "nodeAffinity" \in message),
              {"VolumeNodeAffinityConflict"})
    \cup When("attach" \in message, {"VolumeAttachmentError"})

\* A FailedScheduling message about a volume that no keyword up to it explains is
\* put down to the attachment.
parseEventsForVolumeIssues(list) ==
  (UNION {VolumeKeywords(list[i].message) : i \in DOMAIN list})
    \cup When(\E i \in DOMAIN list :
                /\ list[i].reason = "FailedScheduling" /\ NamesVolume(list[i].message)
                /\ \A j \in 1..i : VolumeKeywords(list[j].message) = {},
              {"VolumeAttachmentError"})

\* The categories whose words occur in a node's own reasons: the one for a volume's
\* affinity has the words "node affinity", the one for resources names none.
ReasonCategories(reasons) ==
  When("notReady" \in reasons, {"NodeNotReady"})
    \cup When(reasons \cap {"affinity", "selector", "volumeAffinity"} # {}, {"NodeAffinityNotMatch"})
    \cup When("taints" \in reasons, {"TaintTolerationMismatch"})
    \cup When("antiAffinity" \in reasons, {"PodAffinityConflict"})

\* Mutant of categorizeSchedulingFailure: nothing is miscellaneous.
categorizeSchedulingFailure_NoRest(reasons, list) ==
  ReasonCategories(reasons)
    \cup (UNION {IF list[i].reason = "FailedScheduling" THEN parseFailedSchedulingMessage(list[i].message)
                 ELSE When(list[i].reason = "NotTriggerScaleUp", parseNotTriggerScaleUpMessage(list[i].message)) :
                 i \in DOMAIN list})
    \cup parseEventsForVolumeIssues(list)

categorizeSchedulingFailure(reasons, list) ==
  LET categories ==
        ReasonCategories(reasons)
          \cup (UNION {IF list[i].reason = "FailedScheduling" THEN parseFailedSchedulingMessage(list[i].message)
                       ELSE When(list[i].reason = "NotTriggerScaleUp", parseNotTriggerScaleUpMessage(list[i].message)) :
                       i \in DOMAIN list})
          \cup parseEventsForVolumeIssues(list)
  IN  categories \cup When(categories = {} /\ (reasons # {} \/ list # <<>>), {"Miscellaneous"})

\* Every category with its nodes; each node has the events' categories too.
aggregateFailureCategories(unschedulable, list) ==
  LET of(a) == categorizeSchedulingFailure(a.reasons, list)
  IN  [category \in UNION {of(a) : a \in unschedulable} |->
         {a.node : a \in {b \in unschedulable : category \in of(b)}}]

Having(reasons) == {a \in analyses : a.reasons \cap reasons # {}}

\* Mutant of generateSchedulingRecommendation: an issue on one node is enough.
generateSchedulingRecommendation_Some(taken, list) ==
  CASE taken -> "scheduled"
    [] ~taken /\ Having({"Resources"}) # {} -> "resources"
    [] OTHER -> "review"

\* The advice, taken being whether the pod had a node when it was read.  The
\* counts are compared with the number of nodes, 0 if there are none.
generateSchedulingRecommendation(taken, list) ==
  LET resourceIssues == Having({"Resources"})
      affinityIssues == Having({"NodeSelector", "NodeAffinity"})
      taintIssues    == Having({"Taints"})
      available      == Cardinality(analyses) - Cardinality(Having({"NodeReady"}))
  IN  IF taken THEN "scheduled"
      ELSE IF resourceIssues = analyses THEN "resources"
      ELSE IF affinityIssues = analyses THEN "affinity"
      ELSE IF taintIssues # {} /\ Cardinality(taintIssues) = available THEN "taints"
      ELSE IF \E i \in DOMAIN list : /\ list[i].reason = "FailedScheduling"
                                     /\ parseFailedSchedulingMessage(list[i].message) # {}
           THEN "event"
      ELSE "review"

\* The actions proposed; a conflict with other pods and a node that is not ready
\* propose none.
generatePossibleActions ==
  UNION {When(a.short # {}, {"reduceRequests", "scaleUp", "autoscaler"})
           \cup When("NodeSelector" \in a.reasons, {"modifySelector", "labelNodes"})
           \cup When("NodeAffinity" \in a.reasons, {"modifyAffinity", "addNodes"})
           \cup When("Taints" \in a.reasons, {"addTolerations", "removeTaints"})
           \cup When("Volume" \in a.reasons, {"bindClaims", "checkVolumes", "otherClass"}) : a \in analyses}

(***************************************************************************)
(* Properties.                                                             *)
(***************************************************************************)

Reasons == {"notReady", "unschedulable", "affinity", "taints", "selector", "resources", "antiAffinity",
            "unbound", "volumeAffinity", "readWriteOnce", "NodeReady", "Resources", "NodeSelector",
            "NodeAffinity", "Taints", "PodAffinity", "Volume", "matches", "noTaints", "tolerates", "labels",
            "fits", "algorithm"}
Analysis == [node : {""} \cup {nodes[i].name : i \in DOMAIN nodes}, reasons : SUBSET Reasons,
             conflicts : SUBSET Names, short : SUBSET Resource]

\* The types; no node is analysed twice.
TypeOK ==
  /\ pc \in {"pod", "events", "node", "nodes", "pods", "affinity", "volumes", "done", "failed"}
  /\ op \in {"scheduling", "explanation"}
  /\ status \in {"", "Scheduled", "Pending", "Failed"}
  /\ at \in 1..(Len(nodes) + 1)
  /\ found \in Analysis
  /\ analyses \subseteq Analysis /\ (\A a, b \in analyses : a.node = b.node => a = b)
  /\ faults \in 0..MaxFaults

\* The pods on a node that were not over when the request began.
ThereSince(name) == {q \in OnNode(Listed(name)) : q.name \notin before.over}

\* Whatever was listed when, what an analysis holds against a node was so at some
\* time: a conflicting pod has been on the node, and a shortage is one against the
\* live pods that have been there (evaluatePodAntiAffinity, explainPodAffinity,
\* explainResourceFit).
VerdictsWereTrue ==
  \A a \in analyses :
    /\ \A q \in AllPods : q.name \in a.conflicts =>
         /\ place[q.name] = a.node
         /\ \E term \in pod.antiAffinity : podMatchesAntiAffinityTerm(q, term)
    /\ \A r \in a.short :
         pod.requests[r] > Listed(a.node).allocatable[r] - Requested(ThereSince(a.node), r)

\* An analysis whose calls all answered misses no pod that was on the node before
\* the request, neither as a conflict nor in the sum of what is allocated.
NothingMissedUnlessFailed ==
  pc = "done" /\ (op = "explanation" \/ status = "Pending") /\ faults = 0 /\ ~late =>
    \A i \in DOMAIN nodes :
      LET n == nodes[i]
          there == {q \in Others : before.place[q.name] = n.name}
      IN  /\ \A q \in there : (\E term \in pod.antiAffinity : podMatchesAntiAffinityTerm(q, term)) =>
               \E a \in analyses : a.node = n.name /\ q.name \in a.conflicts
          /\ op = "explanation" =>
               \A r \in {"cpu", "memory"} :
                 pod.requests[r] > n.allocatable[r] - Requested({q \in there : q.name \notin over}, r) =>
                   \E a \in analyses : a.node = n.name /\ r \in a.short

\* A pod is in conflict with itself only in the analysis that does not skip it,
\* and only if it was bound to the node after it was read without one: the analysis
\* of a pending pod is late (evaluatePodAntiAffinity, explainPodAffinity).
OwnConflictOnlyIfBoundMeanwhile ==
  \A a \in analyses \cup {found} : pod.name \in a.conflicts =>
    /\ op = "scheduling" /\ status = "Pending"
    /\ before.place[pod.name] = "" /\ place[pod.name] = a.node

\* A running pod counts against itself: what the explanation finds short on the
\* pod's own node need not be short for any other pod, but elsewhere it is.
OwnRequestsCountOnlyAtHome ==
  op = "explanation" =>
    \A a \in analyses : a.node # place[pod.name] =>
      \A r \in a.short :
        pod.requests[r] > Listed(a.node).allocatable[r] - Requested(ThereSince(a.node) \ {pod}, r)

\* The two analyses, written twice over in the code, agree on one and the same
\* cluster, except where they are meant to see more: on a node without a Ready
\* condition, on what is allocated, on the pod itself, on ReadWriteOnce and on the
\* required pod affinity.
AnalysesAgree ==
  \A i \in DOMAIN nodes :
    LET n == nodes[i]
        here == OnNode(n)
        schedulingSays == UnschedulableReasons(pod, n) \cup analyzeVolumeConstraints(n, pod.claims)
        explanationSays == ExplainedReasons(pod, n) \cup explainVolumeConstraints(n, pod.claims)
        allocated == calculateNodeAllocatedResources(here, over)
    IN  /\ "NodeReady" \in explanationSays => schedulingSays \cap {"notReady", "unschedulable"} # {}
        /\ schedulingSays \cap {"notReady", "unschedulable"} # {} /\ n.ready # "none" => "NodeReady" \in explanationSays
        /\ "affinity" \in schedulingSays <=> explanationSays \cap {"NodeSelector", "NodeAffinity"} # {}
        /\ "taints" \in schedulingSays <=> "Taints" \in explanationSays
        /\ "Volume" \in explanationSays <=> schedulingSays \cap {"unbound", "volumeAffinity"} # {}
        /\ evaluateResourceFit(pod, n) \subseteq explainResourceFit(pod, n, allocated)
        /\ evaluatePodAntiAffinity(pod, here) \ {pod.name} = explainPodAffinity(pod, here).conflicts

Categories == aggregateFailureCategories(analyses, events)
Pending == pc = "done" /\ op = "scheduling" /\ status = "Pending"

\* Every node that is held unschedulable is found under some category, and without
\* events under none but those its own reasons are for (aggregateFailureCategories).
CategoriesFitNodes ==
  Pending =>
    /\ UNION {Categories[c] : c \in DOMAIN Categories} = {a.node : a \in analyses}
    /\ events = <<>> =>
         \A c \in DOMAIN Categories : \A a \in analyses : a.node \in Categories[c] =>
           CASE c = "NodeNotReady" -> Listed(a.node).ready # "True"
             [] c = "TaintTolerationMismatch" -> Listed(a.node).taints # {}
             [] c = "PodAffinityConflict" -> a.conflicts # {}
             [] c = "NodeAffinityNotMatch" -> pod.selector # {} \/ pod.required # {} \/ pod.claims # {}
             [] c = "Miscellaneous" -> \A d \in DOMAIN Categories : a.node \in Categories[d] => d = c

\* The documentation has a node that lacks memory in the category
\* InsufficientMemory, and one that lacks CPU in InsufficientCPU.
ShortageIsCategorised ==
  Pending =>
    \A a \in analyses :
      /\ "cpu" \in a.short => "InsufficientCPU" \in DOMAIN Categories
      /\ "memory" \in a.short => "InsufficientMemory" \in DOMAIN Categories

\* The advice that no node will do is given although a node would do only when
\* a node that is not ready is also tainted and so is subtracted and counted
\* (generateSchedulingRecommendation); and what it names is among the actions.
DespairIsJustified ==
  pc = "done" /\ op = "explanation" /\ analyses # {} =>
    LET advice == generateSchedulingRecommendation(status = "Scheduled", events)
    IN  /\ advice \in {"resources", "affinity", "taints"} /\ (\E a \in analyses : a.reasons = {}) =>
             /\ advice = "taints"
             /\ \E a \in analyses : {"Taints", "NodeReady"} \subseteq a.reasons
        /\ advice = "resources" => "scaleUp" \in generatePossibleActions
        /\ advice = "affinity" => generatePossibleActions \cap {"modifySelector", "modifyAffinity"} # {}
        /\ advice = "taints" => "addTolerations" \in generatePossibleActions
===============================================================================
