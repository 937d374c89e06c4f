------------------------ MODULE SchedulingAnalysisProofs ------------------------
(***************************************************************************)
(* Proofs about SchedulingAnalysis: whatever happens in the cluster        *)
(* between the calls of a request, what its analyses say of a node is true *)
(* and stays so, and while the calls answer they miss nothing.             *)
(***************************************************************************)
EXTENDS SchedulingAnalysis, SumLemmas

NodeNames == {nodes[i].name : i \in DOMAIN nodes}

\* What the cluster and the request's reading of it have in common: a pod that is on
\* a node stays there, and one that is over stays over.
World ==
  /\ nodes \in NodeLists /\ pod \in Subjects
  /\ place \in [Names -> {""} \cup NodeNames] /\ before.place \in [Names -> {""} \cup NodeNames]
  /\ before.over \subseteq over
  /\ \A q \in Names : before.place[q] # "" => place[q] = before.place[q]

\* Where the request is.
Progress ==
  /\ pc \in {"pod", "events", "node", "nodes", "pods", "affinity", "volumes", "done", "failed"}
  /\ op \in {"scheduling", "explanation"} /\ status \in {"", "Scheduled", "Pending", "Failed"}
  /\ faults \in 0..MaxFaults /\ at \in 1..(Len(nodes) + 1)
  /\ pc = "pod" => before.place = place
  /\ pc \in {"pod", "events", "node", "nodes"} => analyses = {} /\ at = 1
  /\ pc = "node" => op = "scheduling" /\ status = "Scheduled"
  /\ pc \in {"nodes", "pods", "affinity", "volumes"} => op = "explanation" \/ status = "Pending"
  /\ pc \in {"pods", "affinity", "volumes"} => at <= Len(nodes)
  /\ pc = "affinity" => op = "explanation"
  /\ IF pc \in {"affinity", "volumes"} THEN found.node = nodes[at].name ELSE found = Nothing
  /\ status = "Scheduled" => place[pod.name] # ""
  /\ status = "Pending" => before.place[pod.name] = ""

\* The analyses so far are of the nodes before this one, one each.
OneEach ==
  /\ IsFiniteSet(analyses)
  /\ \A a, b \in analyses : a.node = b.node => a = b
  /\ op = "explanation" \/ status = "Pending" => \A a \in analyses : \E i \in 1..(at - 1) : a.node = nodes[i].name
  /\ op = "scheduling" /\ status = "Pending" => \A a \in analyses : a.reasons # {}

\* What an analysis, complete or not, says of its node is true, and stays so.
Sound(a) ==
  /\ a \in Analysis /\ (a.node = "" => a = Nothing)
  /\ \A q \in AllPods : q.name \in a.conflicts =>
       /\ place[q.name] = a.node
       /\ \E term \in pod.antiAffinity : podMatchesAntiAffinityTerm(q, term)
  /\ pod.name \in a.conflicts => op = "scheduling" /\ status = "Pending"
  /\ \A r \in a.short : pod.requests[r] > Listed(a.node).allocatable[r] - Requested(ThereSince(a.node), r)
  /\ "Resources" \in a.reasons => a.short # {}
  /\ "antiAffinity" \in a.reasons => op = "scheduling" /\ a.conflicts # {}
  /\ op = "scheduling" /\ a.conflicts # {} => a.reasons # {}
  /\ "notReady" \in a.reasons => Listed(a.node).ready # "True"
  /\ "taints" \in a.reasons => Listed(a.node).taints # {}
  /\ a.reasons \cap {"affinity", "selector", "volumeAffinity"} # {} =>
       pod.selector # {} \/ pod.required # {} \/ pod.claims # {}

AllSound == Sound(found) /\ \A a \in analyses : Sound(a)

\* A conflict, and a shortage, with what was on a node before the request.
Conflicting(q, n) ==
  /\ before.place[q.name] = n.name
  /\ \E term \in pod.antiAffinity : podMatchesAntiAffinityTerm(q, term)
Lacking(r, n) ==
  pod.requests[r] > n.allocatable[r] - Requested({q \in Others : before.place[q.name] = n.name /\ q.name \notin over}, r)

\* As long as every call has answered, nothing is missed of the nodes that are done,
\* nor of the one at hand, as far as it has got.
Thorough ==
  faults = 0 /\ ~late /\ (op = "explanation" \/ status = "Pending") =>
    /\ pc = "done" => at = Len(nodes) + 1
    /\ \A i \in 1..(at - 1) :
         /\ \A q \in Others : Conflicting(q, nodes[i]) =>
              \E a \in analyses : a.node = nodes[i].name /\ q.name \in a.conflicts
         /\ op = "explanation" => \A r \in {"cpu", "memory"} : Lacking(r, nodes[i]) =>
              \E a \in analyses : a.node = nodes[i].name /\ r \in a.short
    /\ pc \in {"affinity", "volumes"} /\ op = "explanation" =>
         \A r \in {"cpu", "memory"} : Lacking(r, nodes[at]) => r \in found.short
    /\ pc = "volumes" => \A q \in Others : Conflicting(q, nodes[at]) => q.name \in found.conflicts

Inv == World /\ Progress /\ OneEach /\ AllSound /\ Thorough

-----------------------------------------------------------------------------

\* A set that a condition guards.
LEMMA InWhen ==
  ASSUME NEW c, NEW S, NEW x
  PROVE  x \in When(c, S) <=> c /\ x \in S
  BY DEF When

\* The list of nodes is a sequence in which a name tells the node.
LEMMA NodeFacts ==
  ASSUME nodes \in NodeLists
  PROVE  /\ Len(nodes) \in Nat /\ DOMAIN nodes = 1..Len(nodes)
         /\ \A i, j \in DOMAIN nodes : nodes[i].name = nodes[j].name => i = j
         /\ \A i \in DOMAIN nodes :
              /\ nodes[i].name # "" /\ nodes[i].name \in NodeNames
              /\ \A r \in Resource : nodes[i].allocatable[r] \in Nat
              /\ \A t \in nodes[i].taints : t.effect \in {"NoSchedule", "PreferNoSchedule", "NoExecute"}
  <1>1. nodes \in Seq({nodes[i] : i \in DOMAIN nodes})
    BY NodesAssumption
  <1>2. Len(nodes) \in Nat /\ DOMAIN nodes = 1..Len(nodes)
    BY <1>1
  <1>3. \A i \in DOMAIN nodes : nodes[i].name \in NodeNames
    BY DEF NodeNames
  <1> QED
    BY <1>2, <1>3, NodesAssumption, Zenon

\* A node is found by its name.
LEMMA ListedByName ==
  ASSUME nodes \in NodeLists, NEW i \in DOMAIN nodes
  PROVE  Listed(nodes[i].name) = nodes[i]
  <1>1. \A n \in {nodes[j] : j \in DOMAIN nodes} : n.name = nodes[i].name => n = nodes[i]
    BY NodeFacts
  <1>2. \E n \in {nodes[j] : j \in DOMAIN nodes} : n.name = nodes[i].name
    OBVIOUS
  <1> QED
    BY <1>1, <1>2, Zenon DEF Listed

\* The pods of the cluster are finitely many and told apart by their names.
LEMMA PodFacts ==
  ASSUME pod \in Subjects
  PROVE  /\ IsFiniteSet(AllPods) /\ IsFiniteSet(pod.claims) /\ pod \in AllPods /\ pod.name \in Names
         /\ \A q \in AllPods : q.name \in Names /\ \A r \in Resource : q.requests[r] \in Nat
         /\ \A q \in Others : q \in AllPods /\ q.name # pod.name
         /\ \A q, l \in AllPods : q.name = l.name => q = l
         /\ \A x \in Names : \E q \in AllPods : q.name = x
  <1>1. IsFiniteSet(Others) /\ IsFiniteSet(pod.claims)
    BY PodsAssumption
  <1>2. IsFiniteSet({pod}) /\ IsFiniteSet(AllPods)
    BY <1>1, FS_Singleton, FS_Union DEF AllPods
  <1>3. /\ \A q \in Others : q.name # pod.name
        /\ \A q, l \in AllPods : q.name = l.name => q = l
    BY PodsAssumption DEF AllPods
  <1>4. \A q \in AllPods : \A r \in Resource : q.requests[r] \in Nat
    BY PodsAssumption DEF AllPods
  <1> QED
    BY <1>1, <1>2, <1>3, <1>4, Zenon DEF AllPods, Names

\* More pods request no less.
LEMMA RequestedMonotone ==
  ASSUME NEW T, IsFiniteSet(T), NEW S \in SUBSET T, NEW r, \A q \in T : q.requests[r] \in Nat
  PROVE  /\ Requested(S, r) \in Nat /\ Requested(T, r) \in Nat
         /\ Requested(S, r) <= Requested(T, r)
  <1> DEFINE f == [q \in T |-> q.requests[r]]
             g == [q \in S |-> q.requests[r]]
  <1>1. IsFiniteSet(S)
    BY FS_Subset
  <1>2. SumFunctionOnSet(g, S) = SumFunctionOnSet(f, S)
    BY <1>1, SumEqual
  <1>3. \A q \in T : f[q] \in Nat
    OBVIOUS
  <1>4. SumFunctionOnSet(f, S) \in Nat /\ SumFunctionOnSet(f, S) <= SumFunctionOnSet(f, T)
    BY <1>3, SumMonotone
  <1>5. SumFunctionOnSet(f, T) \in Nat
    BY <1>3, SumMonotone, T \in SUBSET T
  <1>6. Requested(S, r) = SumFunctionOnSet(g, S) /\ Requested(T, r) = SumFunctionOnSet(f, T)
    BY DEF Requested
  <1> QED
    BY <1>2, <1>4, <1>5, <1>6

\* What may happen to the cluster while a request reads it.
Meanwhile ==
  /\ UNCHANGED <<nodes, pod, op, before>> /\ over \subseteq over'
  /\ \A q \in Names : place[q] # "" => place'[q] = place[q]

\* What depends on the list of nodes and the pod only.
LEMMA Unchanged ==
  ASSUME UNCHANGED <<nodes, pod>>
  PROVE  /\ Names' = Names /\ AllPods' = AllPods /\ NodeNames' = NodeNames /\ Analysis' = Analysis
         /\ \A x : Listed(x)' = Listed(x)
  BY DEF Names, AllPods, NodeNames, Analysis, Listed

\* The steps of the request leave the cluster alone.
LEMMA RequestSteps ==
  ASSUME \/ GetPod \/ ListEvents \/ GetNode \/ ListNodes \/ AnalyzeUnschedulableNode \/ AnalyzeNodeForExplanation
         \/ ExplainPodAffinity \/ ReadClaims
  PROVE  UNCHANGED <<cluster, late, op, before>>
  BY DEF GetPod, ListEvents, GetNode, ListNodes, AnalyzeUnschedulableNode, AnalyzeNodeForExplanation,
         ExplainPodAffinity, ReadClaims

\* Every step keeps the pods that have a node on it, and what is remembered true.
LEMMA WorldStep ==
  ASSUME World, [Next]_vars
  PROVE  World' /\ Meanwhile
  <1>1. ASSUME UNCHANGED <<cluster, op, before>>
        PROVE  World' /\ Meanwhile
    <2>1. UNCHANGED <<nodes, pod, place, over, op, before>>
      BY <1>1 DEF cluster
    <2>2. Names' = Names /\ NodeNames' = NodeNames
      BY <2>1, Unchanged
    <2> QED
      BY <2>1, <2>2 DEF World, Meanwhile
  <1>2. ASSUME NEW q \in Names, Bind(q)
        PROVE  World' /\ Meanwhile
    <2>1. UNCHANGED <<nodes, pod, over, op, before>> /\ place[q] = ""
      BY <1>2 DEF Bind
    <2>2. PICK i \in DOMAIN nodes : place' = [place EXCEPT ![q] = nodes[i].name]
      BY <1>2 DEF Bind
    <2>3. Names' = Names /\ NodeNames' = NodeNames /\ nodes[i].name \in NodeNames
      BY <2>1, Unchanged DEF NodeNames
    <2>4. place \in [Names -> {""} \cup NodeNames]
      BY DEF World
    <2>5. place' \in [Names -> {""} \cup NodeNames]
      BY <2>2, <2>3, <2>4
    <2>6. \A x \in Names : place[x] # "" => place'[x] = place[x]
      BY <2>1, <2>2, <2>4
    <2> QED
      BY <2>1, <2>3, <2>5, <2>6 DEF World, Meanwhile
  <1>3. ASSUME NEW q \in Names, Finish(q)
        PROVE  World' /\ Meanwhile
    <2>1. UNCHANGED <<nodes, pod, place, op, before>> /\ over \subseteq over'
      BY <1>3 DEF Finish
    <2>2. Names' = Names /\ NodeNames' = NodeNames
      BY <2>1, Unchanged
    <2> QED
      BY <2>1, <2>2 DEF World, Meanwhile
  <1>4. ASSUME NEW c \in pod.claims, BindClaim(c)
        PROVE  World' /\ Meanwhile
    <2>1. UNCHANGED <<nodes, pod, place, over, op, before>>
      BY <1>4 DEF BindClaim
    <2>2. Names' = Names /\ NodeNames' = NodeNames
      BY <2>1, Unchanged
    <2> QED
      BY <2>1, <2>2 DEF World, Meanwhile
  <1>5. Deadline \/ Answered \/ UNCHANGED vars => UNCHANGED <<cluster, op, before>>
    BY DEF Deadline, Answered, vars
  <1> QED
    BY <1>1, <1>2, <1>3, <1>4, <1>5, RequestSteps DEF Next

\* What is found against a node stays true of it.
LEMMA SoundStays ==
  ASSUME World, World', Meanwhile, UNCHANGED status, NEW a, Sound(a)
  PROVE  Sound(a)'
  <1>1. UNCHANGED <<nodes, pod, op, before>>
    BY DEF Meanwhile
  <1>2. /\ Names' = Names /\ AllPods' = AllPods /\ Analysis' = Analysis
        /\ \A x : Listed(x)' = Listed(x)
    BY <1>1, Unchanged
  <1>3. a \in Analysis
    BY DEF Sound
  <1>4. CASE a.node = ""
    <2>1. a = Nothing
      BY <1>4 DEF Sound
    <2>2. a.conflicts = {} /\ a.short = {} /\ a.reasons = {}
      BY <2>1 DEF Nothing
    <2> QED
      BY <1>1, <1>2, <1>3, <2>1, <2>2 DEF Sound
  <1>5. CASE a.node # ""
    <2>1. PICK i \in DOMAIN nodes : a.node = nodes[i].name
      BY <1>3, <1>5 DEF Analysis
    <2>2. Listed(a.node) = nodes[i] /\ nodes[i].name # ""
      BY <2>1, ListedByName, NodeFacts DEF World
    <2>3. \A q \in AllPods : place[q.name] = a.node => place'[q.name] = a.node
      BY <1>5, PodFacts DEF Meanwhile, World
    <2>4. ThereSince(a.node) \subseteq ThereSince(a.node)'
      BY <1>1, <1>2, <2>1, <2>2, <2>3 DEF ThereSince, OnNode
    <2>5. ThereSince(a.node)' \subseteq AllPods
      BY <1>2 DEF ThereSince, OnNode
    <2>6. ASSUME NEW r \in a.short
          PROVE  pod.requests[r] > Listed(a.node).allocatable[r] - Requested(ThereSince(a.node)', r)
      <3>1. IsFiniteSet(ThereSince(a.node)') /\ \A q \in ThereSince(a.node)' : q.requests[r] \in Nat
        BY <1>3, <2>5, PodFacts, FS_Subset DEF World, Analysis
      <3>2. /\ Requested(ThereSince(a.node), r) \in Nat /\ Requested(ThereSince(a.node)', r) \in Nat
            /\ Requested(ThereSince(a.node), r) <= Requested(ThereSince(a.node)', r)
        BY <2>4, <3>1, RequestedMonotone
      <3>3. pod.requests[r] \in Nat /\ Listed(a.node).allocatable[r] \in Nat
        BY <1>3, <2>2, PodFacts, NodeFacts DEF World, Analysis
      <3>4. pod.requests[r] > Listed(a.node).allocatable[r] - Requested(ThereSince(a.node), r)
        BY DEF Sound
      <3> QED
        BY <3>2, <3>3, <3>4
    <2> QED
      BY <1>1, <1>2, <1>5, <2>3, <2>6 DEF Sound, Requested
  <1> QED
    BY <1>4, <1>5

-----------------------------------------------------------------------------

\* The conflicts read off the list of a node's pods are with pods on that node.
LEMMA ConflictsTrue ==
  ASSUME World, NEW n
  PROVE  /\ evaluatePodAntiAffinity(pod, OnNode(n)) \subseteq Names
         /\ \A q \in AllPods : q.name \in evaluatePodAntiAffinity(pod, OnNode(n)) <=>
              /\ place[q.name] = n.name
              /\ \E term \in pod.antiAffinity : podMatchesAntiAffinityTerm(q, term)
  <1> DEFINE Selected(q) == \E term \in pod.antiAffinity : podMatchesAntiAffinityTerm(q, term)
             named == {q.name : q \in {l \in OnNode(n) : Selected(l)}}
  <1>1. evaluatePodAntiAffinity(pod, OnNode(n)) = named
    BY Zenon DEF evaluatePodAntiAffinity
  <1> HIDE DEF Selected
  <1>2. \A q, l \in AllPods : q.name = l.name => q = l
    BY PodFacts DEF World
  <1>3. \A q \in AllPods : q \in OnNode(n) <=> place[q.name] = n.name
    BY DEF OnNode
  <1>4. OnNode(n) \subseteq AllPods /\ \A q \in AllPods : q.name \in Names
    BY PodFacts DEF OnNode, World
  <1>5. \A q \in AllPods : q.name \in named <=> q \in OnNode(n) /\ Selected(q)
    BY <1>2, <1>4
  <1>6. named \subseteq Names
    BY <1>4
  <1> QED
    BY <1>1, <1>3, <1>5, <1>6, Zenon DEF Selected

\* The explanation's conflicts are the same, without the pod itself.
LEMMA ConflictsExplained ==
  ASSUME World, NEW n
  PROVE  explainPodAffinity(pod, OnNode(n)).conflicts = evaluatePodAntiAffinity(pod, OnNode(n)) \ {pod.name}
  <1> DEFINE others == {q \in OnNode(n) : <<q.name, q.namespace>> # <<pod.name, pod.namespace>>}
  <1>1. explainPodAffinity(pod, OnNode(n)).conflicts = evaluatePodAntiAffinity(pod, others)
    BY DEF explainPodAffinity
  <1>2. others = OnNode(n) \ {pod}
    BY PodFacts DEF OnNode, World
  <1>3. \A q \in OnNode(n) : q.name = pod.name <=> q = pod
    BY PodFacts DEF OnNode, World
  <1> QED
    BY <1>1, <1>2, <1>3 DEF evaluatePodAntiAffinity

\* A shortage against no more than the live pods on a node.
LEMMA ShortageTrue ==
  ASSUME World, NEW i \in DOMAIN nodes, NEW ok,
         NEW r \in explainResourceFit(pod, nodes[i], calculateNodeAllocatedResources(When(ok, OnNode(nodes[i])), over))
  PROVE  pod.requests[r] > Listed(nodes[i].name).allocatable[r] - Requested(ThereSince(nodes[i].name), r)
  <1> DEFINE live == {q \in When(ok, OnNode(nodes[i])) : q.name \notin over}
             there == ThereSince(nodes[i].name)
  <1>1. r \in Resource /\ pod.requests[r] > nodes[i].allocatable[r] - Requested(live, r)
    BY DEF explainResourceFit, analyzeResourceDetail, calculateNodeAllocatedResources
  <1>2. Listed(nodes[i].name) = nodes[i]
    BY ListedByName DEF World
  <1>3. live \subseteq there
    BY <1>2 DEF ThereSince, World, When
  <1>4. IsFiniteSet(there) /\ \A q \in there : q.requests[r] \in Nat
    <2>1. there \subseteq AllPods
      BY DEF ThereSince, OnNode
    <2> QED
      BY <1>1, <2>1, PodFacts, FS_Subset DEF World
  <1>5. Requested(live, r) \in Nat /\ Requested(there, r) \in Nat /\ Requested(live, r) <= Requested(there, r)
    BY <1>3, <1>4, RequestedMonotone
  <1>6. pod.requests[r] \in Nat /\ nodes[i].allocatable[r] \in Nat
    BY <1>1, PodFacts, NodeFacts DEF World
  <1> QED
    BY <1>1, <1>2, <1>5, <1>6

\* What the empty node lacks, it lacks all the more with pods on it.
LEMMA EmptyShortageTrue ==
  ASSUME World, NEW i \in DOMAIN nodes, NEW S \in SUBSET AllPods, NEW r \in evaluateResourceFit(pod, nodes[i])
  PROVE  r \in Resource /\ pod.requests[r] > nodes[i].allocatable[r] - Requested(S, r)
  <1>1. r \in Resource /\ pod.requests[r] > nodes[i].allocatable[r]
    BY DEF evaluateResourceFit, Resource
  <1>2. IsFiniteSet(S) /\ \A q \in S : q.requests[r] \in Nat
    BY <1>1, PodFacts, FS_Subset DEF World
  <1>3. Requested(S, r) \in Nat
    BY <1>2, RequestedMonotone, S \in SUBSET S
  <1>4. pod.requests[r] \in Nat /\ nodes[i].allocatable[r] \in Nat
    BY <1>1, PodFacts, NodeFacts DEF World
  <1> QED
    BY <1>1, <1>3, <1>4

\* The reasons of the analysis of a pending pod, one by one.
LEMMA UnschedulableReasonsAre ==
  ASSUME NEW p, NEW n, NEW x
  PROVE  x \in UnschedulableReasons(p, n) <=>
           \/ x = "notReady" /\ n.ready # "True"
           \/ x = "unschedulable" /\ n.unschedulable
           \/ x = "affinity" /\ ~evaluateNodeAffinity(p, n)
           \/ x = "taints" /\ evaluateTaintsAndTolerations(p, n) # {}
           \/ x = "selector" /\ MissingLabels(p, n) # {}
           \/ x = "resources" /\ evaluateResourceFit(p, n) # {}
  BY DEF UnschedulableReasons, When

\* And those of the explanation.
LEMMA ExplainedReasonsAre ==
  ASSUME NEW p, NEW n, NEW x
  PROVE  x \in ExplainedReasons(p, n) <=>
           \/ x = "NodeReady" /\ ~explainNodeReady(n)
           \/ x = "NodeSelector" /\ MissingLabels(p, n) # {}
           \/ x = "NodeAffinity" /\ p.required # {} /\ \A term \in p.required : ~matchNodeSelectorTerm(n, term)
           \/ x = "Taints" /\ explainTaints(p, n) # {}
  BY DEF ExplainedReasons, explainAffinity, When

\* What the claims and their volumes say.
LEMMA VolumeReasonsAre ==
  ASSUME NEW n, NEW readable, NEW x
  PROVE  /\ x \in analyzeVolumeConstraints(n, readable) <=>
              \/ x = "unbound" /\ \E c \in readable : c.name \notin bound
              \/ x = "volumeAffinity" /\ \E c \in readable : c.name \in bound /\ ~VolumeMatches(c, n)
              \/ x = "readWriteOnce" /\ \E c \in readable : c.name \in bound /\ c.rwo
         /\ x \in explainVolumeConstraints(n, readable) <=>
              x = "Volume" /\ \E c \in readable : c.name \in bound => ~VolumeMatches(c, n)
  BY DEF analyzeVolumeConstraints, explainVolumeConstraints, When

\* An affinity that a node does not match, and taints, are there.
LEMMA ReasonsGrounded ==
  ASSUME NEW p, NEW n
  PROVE  /\ ~evaluateNodeAffinity(p, n) \/ MissingLabels(p, n) # {} => p.selector # {} \/ p.required # {}
         /\ evaluateTaintsAndTolerations(p, n) # {} => n.taints # {}
  BY DEF evaluateNodeAffinity, MissingLabels, evaluateTaintsAndTolerations

-----------------------------------------------------------------------------

\* Of no node, nothing is said.
LEMMA SoundNothing == Sound(Nothing)
  <1>1. Nothing \in Analysis
    BY DEF Nothing, Analysis
  <1>2. Nothing.conflicts = {} /\ Nothing.short = {} /\ Nothing.reasons = {}
    BY DEF Nothing
  <1> QED
    BY <1>1, <1>2 DEF Sound

\* Where the request is in the list of nodes.
LEMMA Place ==
  ASSUME World, Progress
  PROVE  /\ Len(nodes) \in Nat /\ DOMAIN nodes = 1..Len(nodes) /\ at \in Nat /\ 1 <= at
         /\ pc \in {"pods", "affinity", "volumes"} => at \in DOMAIN nodes /\ at <= Len(nodes)
         /\ \A i \in 1..(at - 1) : i \in DOMAIN nodes
  <1>1. Len(nodes) \in Nat /\ DOMAIN nodes = 1..Len(nodes)
    BY NodeFacts DEF World
  <1>2. at \in 1..(Len(nodes) + 1) /\ (pc \in {"pods", "affinity", "volumes"} => at <= Len(nodes))
    BY DEF Progress
  <1> QED
    BY <1>1, <1>2

\* An analysis goes on, or is complete and is appended.
LEMMA ProceedStep ==
  ASSUME World, World', Meanwhile, Progress, OneEach, AllSound, pc \in {"pods", "affinity", "volumes"},
         UNCHANGED <<place, status>>, faults' \in 0..MaxFaults,
         NEW a, Sound(a), a.node = nodes[at].name,
         NEW next \in {"none", "affinity", "volumes"}, next = "affinity" => op = "explanation",
         Proceed(a, next)
  PROVE  Progress' /\ OneEach' /\ AllSound'
  <1>1. /\ UNCHANGED <<nodes, pod, op, before>> /\ Len(nodes) \in Nat /\ DOMAIN nodes = 1..Len(nodes)
        /\ at \in DOMAIN nodes /\ at \in Nat
    BY Place DEF Meanwhile
  <1>2. Sound(a)' /\ Sound(found)' = Sound(found)' /\ \A b \in analyses : Sound(b)'
    BY SoundStays DEF AllSound
  <1>3. op = "explanation" \/ status = "Pending"
    BY DEF Progress
  <1>4. CASE next # "none"
    <2>1. found' = a /\ pc' \in {"affinity", "volumes"} /\ (pc' = "affinity" => op = "explanation") /\ UNCHANGED <<at, analyses>>
      BY <1>4 DEF Proceed
    <2>2. Progress'
      BY <1>1, <1>3, <2>1 DEF Progress
    <2>3. OneEach'
      BY <1>1, <2>1 DEF OneEach
    <2>4. AllSound'
      BY <1>2, <2>1 DEF AllSound, Sound
    <2> QED
      BY <2>2, <2>3, <2>4
  <1>5. CASE next = "none"
    <2>1. /\ analyses' = analyses \cup When(op = "explanation" \/ a.reasons # {}, {a})
          /\ found' = Nothing /\ at' = at + 1
          /\ pc' = IF at = Len(nodes) THEN "done" ELSE "pods"
      BY <1>5 DEF Proceed
    <2>5. /\ analyses' = analyses \/ analyses' = analyses \cup {a}
          /\ op # "explanation" /\ a.reasons = {} => analyses' = analyses
      BY <2>1 DEF When
    <2>2. Progress'
      <3>1. at' \in 1..(Len(nodes) + 1) /\ pc' \in {"pods", "done"} /\ (pc' = "pods" => at' <= Len(nodes))
        BY <1>1, <2>1
      <3> QED
        BY <1>1, <1>3, <2>1, <3>1 DEF Progress
    <2>3. AllSound'
      <3>1. Sound(found)'
        <4>1. found'.conflicts = {} /\ found'.short = {} /\ found'.reasons = {} /\ found'.node = ""
          BY <2>1 DEF Nothing
        <4>2. found' \in Analysis'
          BY <2>1 DEF Nothing, Analysis
        <4> QED
          BY <2>1, <4>1, <4>2 DEF Sound, Nothing
      <3> QED
        BY <1>2, <2>5, <3>1 DEF AllSound
    <2>4. OneEach'
      <3>1. \A b \in analyses : \E i \in 1..(at - 1) : b.node = nodes[i].name
        BY <1>3 DEF OneEach
      <3>2. \A b \in analyses : b.node # a.node
        <4>1. \A i \in 1..(at - 1) : i \in DOMAIN nodes /\ i # at
          BY <1>1
        <4>2. \A i \in 1..(at - 1) : nodes[i].name # nodes[at].name
          BY <1>1, <4>1, NodeFacts DEF World
        <4> QED
          BY <3>1, <4>2
      <3>3. \A b \in analyses' : \E i \in 1..((at + 1) - 1) : b.node = nodes[i].name
        BY <1>1, <2>5, <3>1
      <3>4. IsFiniteSet(analyses')
        <4>1. IsFiniteSet(analyses) /\ IsFiniteSet({a})
          BY FS_Singleton DEF OneEach
        <4>2. IsFiniteSet(analyses \cup {a})
          BY <4>1, FS_Union
        <4> QED
          BY <2>5, <4>1, <4>2
      <3>5. \A b, c \in analyses' : b.node = c.node => b = c
        BY <2>5, <3>2 DEF OneEach
      <3>6. op = "scheduling" /\ status = "Pending" => \A b \in analyses' : b.reasons # {}
        BY <2>5 DEF OneEach
      <3> QED
        BY <1>1, <2>1, <3>3, <3>4, <3>5, <3>6 DEF OneEach
    <2> QED
      BY <2>2, <2>3, <2>4
  <1> QED
    BY <1>4, <1>5

\* How a call may end: a fault is counted, and without one the call has answered.
LEMMA CallEnds ==
  ASSUME faults \in 0..MaxFaults, NEW ok \in BOOLEAN, Call(ok)
  PROVE  /\ faults' \in 0..MaxFaults
         /\ faults' = 0 /\ ~late => ok /\ faults = 0
  BY FaultsAssumption DEF Call

\* Pods that finish leave less lacking.
LEMMA LackingShrinks ==
  ASSUME World, World', Meanwhile, NEW i \in DOMAIN nodes, NEW r \in Resource, Lacking(r, nodes[i])'
  PROVE  Lacking(r, nodes[i])
  <1> DEFINE of == {q \in Others : before.place[q.name] = nodes[i].name}
             old == {q \in of : q.name \notin over}
             new == {q \in of : q.name \notin over'}
  <1>1. UNCHANGED <<nodes, pod, before>> /\ over \subseteq over'
    BY DEF Meanwhile
  <1>2. new \subseteq old /\ old \subseteq AllPods
    BY <1>1 DEF AllPods
  <1>3. IsFiniteSet(old) /\ \A q \in old : q.requests[r] \in Nat
    BY <1>2, PodFacts, FS_Subset DEF World
  <1>4. Requested(new, r) \in Nat /\ Requested(old, r) \in Nat /\ Requested(new, r) <= Requested(old, r)
    BY <1>2, <1>3, RequestedMonotone
  <1>5. pod.requests[r] \in Nat /\ nodes[i].allocatable[r] \in Nat
    BY PodFacts, NodeFacts DEF World
  <1>6. /\ old = {q \in Others : before.place[q.name] = nodes[i].name /\ q.name \notin over}
        /\ new = {q \in Others : before.place[q.name] = nodes[i].name /\ q.name \notin over'}
    OBVIOUS
  <1>7. pod.requests[r] > nodes[i].allocatable[r] - Requested(new, r)
    BY <1>1, <1>6, Zenon DEF Lacking, Requested
  <1>8. pod.requests[r] > nodes[i].allocatable[r] - Requested(old, r)
    BY <1>4, <1>5, <1>7
  <1> QED
    BY <1>6, <1>8, Zenon DEF Lacking

\* Nor does any step make a pod conflict that was not there before.
LEMMA ConflictingStays ==
  ASSUME Meanwhile
  PROVE  \A q, n : Conflicting(q, n)' <=> Conflicting(q, n)
  BY DEF Meanwhile, Conflicting

\* What the cluster does meanwhile makes nothing be missed.
LEMMA ThoroughStays ==
  ASSUME World, World', Progress, Meanwhile, UNCHANGED <<pc, at, analyses, found, status, faults>>, late => late', Thorough
  PROVE  Thorough'
  <1>1. UNCHANGED <<nodes, pod, op, before>> /\ DOMAIN nodes = 1..Len(nodes) /\ Len(nodes) \in Nat
    BY NodeFacts DEF Meanwhile, World
  <1>2. (\A i \in 1..(at - 1) : i \in DOMAIN nodes) /\ (pc \in {"affinity", "volumes"} => at \in DOMAIN nodes)
    BY Place
  <1>3. \A i \in DOMAIN nodes : \A r \in {"cpu", "memory"} : Lacking(r, nodes[i])' => Lacking(r, nodes[i])
    BY LackingShrinks DEF Resource
  <1> QED
    BY <1>1, <1>2, <1>3, ConflictingStays DEF Thorough

\* Nor does an analysis that is itself thorough.
LEMMA ProceedThorough ==
  ASSUME World, World', Meanwhile, Progress, Thorough, pc \in {"pods", "affinity", "volumes"},
         UNCHANGED <<place, over, late, status>>,
         NEW a, a.node = nodes[at].name, op = "scheduling" /\ a.conflicts # {} => a.reasons # {},
         NEW next \in {"none", "affinity", "volumes"},
         Proceed(a, next),
         faults' = 0 /\ ~late =>
           /\ faults = 0
           /\ op = "explanation" => \A r \in {"cpu", "memory"} : Lacking(r, nodes[at]) => r \in a.short
           /\ next # "affinity" => \A q \in Others : Conflicting(q, nodes[at]) => q.name \in a.conflicts
  PROVE  Thorough'
  <1>1. UNCHANGED <<nodes, pod, op, before, status>> /\ Len(nodes) \in Nat /\ at \in Nat
    BY Place DEF Meanwhile
  <1>2. \A q, n, r : (Conflicting(q, n)' <=> Conflicting(q, n)) /\ (Lacking(r, n)' <=> Lacking(r, n))
    BY <1>1 DEF Conflicting, Lacking, Requested
  <1>3. SUFFICES ASSUME faults' = 0, ~late', op = "explanation" \/ status = "Pending"
                 PROVE  Thorough'
    BY <1>1 DEF Thorough
  <1>4. CASE next # "none"
    <2>1. found' = a /\ pc' = next /\ UNCHANGED <<at, analyses>>
      BY <1>4 DEF Proceed
    <2> QED
      BY <1>1, <1>2, <1>3, <1>4, <2>1 DEF Thorough
  <1>5. CASE next = "none"
    <2>1. /\ analyses' = analyses \cup When(op = "explanation" \/ a.reasons # {}, {a})
          /\ at' = at + 1
          /\ pc' = IF at = Len(nodes) THEN "done" ELSE "pods"
      BY <1>5 DEF Proceed
    <2>2. analyses \subseteq analyses' /\ (op = "explanation" \/ a.conflicts # {} => a \in analyses')
      <3>1. op = "explanation" \/ op = "scheduling"
        BY DEF Progress
      <3> QED
        BY <2>1, <3>1 DEF When
    <2>3. ASSUME NEW i \in 1..((at + 1) - 1), NEW q \in Others, Conflicting(q, nodes[i])
          PROVE  \E b \in analyses' : b.node = nodes[i].name /\ q.name \in b.conflicts
      <3>1. CASE i = at
        BY <1>3, <1>5, <2>2, <2>3, <3>1
      <3>2. CASE i # at
        <4>1. i \in 1..(at - 1)
          BY <1>1, <3>2
        <4> QED
          BY <1>3, <2>2, <2>3, <4>1 DEF Thorough
      <3> QED
        BY <3>1, <3>2
    <2>4. ASSUME NEW i \in 1..((at + 1) - 1), NEW r \in {"cpu", "memory"}, op = "explanation", Lacking(r, nodes[i])
          PROVE  \E b \in analyses' : b.node = nodes[i].name /\ r \in b.short
      <3>1. CASE i = at
        BY <1>3, <1>5, <2>2, <2>4, <3>1
      <3>2. CASE i # at
        <4>1. i \in 1..(at - 1)
          BY <1>1, <3>2
        <4> QED
          BY <1>3, <2>2, <2>4, <4>1 DEF Thorough
      <3> QED
        BY <3>1, <3>2
    <2>5. pc' \in {"pods", "done"} /\ (pc' = "done" => at' = Len(nodes) + 1)
      BY <2>1
    <2>6. \A i \in 1..(at' - 1) : \A q \in Others : Conflicting(q, nodes[i])' =>
            \E b \in analyses' : b.node = nodes[i].name /\ q.name \in b.conflicts
      BY <1>1, <1>2, <2>1, <2>3
    <2>7. op = "explanation" => \A i \in 1..(at' - 1) : \A r \in {"cpu", "memory"} : Lacking(r, nodes[i])' =>
            \E b \in analyses' : b.node = nodes[i].name /\ r \in b.short
      BY <1>1, <1>2, <2>1, <2>4
    <2> QED
      BY <1>1, <2>5, <2>6, <2>7 DEF Thorough
  <1> QED
    BY <1>4, <1>5

\* What makes an analysis of a node sound.
LEMMA SoundIf ==
  ASSUME World, NEW i \in DOMAIN nodes, NEW a \in [node : {nodes[i].name}, reasons : SUBSET Reasons, conflicts : SUBSET Names,
                                                   short : SUBSET Resource],
         a.conflicts \subseteq evaluatePodAntiAffinity(pod, OnNode(nodes[i])),
         pod.name \in a.conflicts => op = "scheduling" /\ status = "Pending",
         \A r \in a.short :
           pod.requests[r] > Listed(nodes[i].name).allocatable[r] - Requested(ThereSince(nodes[i].name), r),
         "Resources" \in a.reasons => a.short # {},
         "antiAffinity" \in a.reasons => op = "scheduling" /\ a.conflicts # {},
         op = "scheduling" /\ a.conflicts # {} => a.reasons # {},
         "notReady" \in a.reasons => nodes[i].ready # "True",
         "taints" \in a.reasons => nodes[i].taints # {},
         a.reasons \cap {"affinity", "selector", "volumeAffinity"} # {} =>
           pod.selector # {} \/ pod.required # {} \/ pod.claims # {}
  PROVE  Sound(a)
  <1>1. a.node = nodes[i].name /\ a.node # "" /\ Listed(a.node) = nodes[i]
    BY ListedByName, NodeFacts DEF World
  <1>2. a \in Analysis
    BY DEF Analysis
  <1>3. \A q \in AllPods : q.name \in a.conflicts =>
          /\ place[q.name] = a.node
          /\ \E term \in pod.antiAffinity : podMatchesAntiAffinityTerm(q, term)
    BY <1>1, ConflictsTrue
  <1> QED
    BY <1>1, <1>2, <1>3 DEF Sound

\* A sound analysis stays sound with reasons that are true, or need not be.
LEMMA SoundWith ==
  ASSUME NEW a, Sound(a), a.node # "", NEW more \in SUBSET {"unbound", "volumeAffinity", "readWriteOnce", "Volume"},
         "volumeAffinity" \in more => pod.claims # {}
  PROVE  Sound([a EXCEPT !.reasons = @ \cup more])
  <1> DEFINE b == [a EXCEPT !.reasons = @ \cup more]
  <1>1. a \in Analysis
    BY DEF Sound
  <1>2. b.node = a.node /\ b.conflicts = a.conflicts /\ b.short = a.short /\ b.reasons = a.reasons \cup more
    BY <1>1 DEF Analysis
  <1>3. b \in Analysis
    BY <1>1 DEF Analysis, Reasons
  <1> HIDE DEF b
  <1>4. Sound(b)
    BY <1>2, <1>3 DEF Sound
  <1> QED
    BY <1>4 DEF b

\* A pod that was on the node before the request is on the list of its pods.
LEMMA ConflictListed ==
  ASSUME World, NEW i \in DOMAIN nodes, NEW q \in Others, Conflicting(q, nodes[i])
  PROVE  q.name \in evaluatePodAntiAffinity(pod, OnNode(nodes[i])) \ {pod.name}
  <1>1. q \in AllPods /\ q.name \in Names /\ q.name # pod.name
    BY PodFacts DEF World
  <1>2. place[q.name] = nodes[i].name
    BY <1>1, NodeFacts DEF World, Conflicting
  <1> QED
    BY <1>1, <1>2, ConflictsTrue DEF Conflicting

\* What lacks with the pods from before is found with the pods listed.
LEMMA LackingListed ==
  ASSUME World, NEW i \in DOMAIN nodes, NEW r \in {"cpu", "memory"}, Lacking(r, nodes[i])
  PROVE  r \in explainResourceFit(pod, nodes[i], calculateNodeAllocatedResources(When(TRUE, OnNode(nodes[i])), over))
  <1> DEFINE live == {q \in When(TRUE, OnNode(nodes[i])) : q.name \notin over}
             old == {q \in Others : before.place[q.name] = nodes[i].name /\ q.name \notin over}
  <1>1. \A q \in Others : before.place[q.name] = nodes[i].name => q \in OnNode(nodes[i])
    BY PodFacts, NodeFacts DEF World, OnNode
  <1>2. old \subseteq live
    BY <1>1 DEF When
  <1>3. live \subseteq AllPods
    BY DEF When, OnNode
  <1>4. IsFiniteSet(live) /\ \A q \in live : q.requests[r] \in Nat
    BY <1>3, PodFacts, FS_Subset DEF World, Resource
  <1>5. Requested(old, r) \in Nat /\ Requested(live, r) \in Nat /\ Requested(old, r) <= Requested(live, r)
    BY <1>2, <1>4, RequestedMonotone
  <1>6. pod.requests[r] \in Nat /\ nodes[i].allocatable[r] \in Nat /\ r \in Resource /\ r # "storage"
    BY PodFacts, NodeFacts DEF World, Resource
  <1>7. pod.requests[r] > nodes[i].allocatable[r] - Requested(old, r)
    BY Zenon DEF Lacking
  <1>8. pod.requests[r] > nodes[i].allocatable[r] - Requested(live, r)
    BY <1>5, <1>6, <1>7
  <1>9. calculateNodeAllocatedResources(When(TRUE, OnNode(nodes[i])), over)[r] = Requested(live, r)
    BY <1>6 DEF calculateNodeAllocatedResources
  <1> QED
    BY <1>6, <1>8, <1>9 DEF explainResourceFit, analyzeResourceDetail

-----------------------------------------------------------------------------

\* The node of a pending pod: its reasons and its conflicts.
LEMMA UnschedulableNodeStep ==
  ASSUME Inv, World', Meanwhile, AnalyzeUnschedulableNode
  PROVE  Progress' /\ OneEach' /\ AllSound' /\ Thorough'
  <1> DEFINE n == nodes[at]
             listed == evaluatePodAntiAffinity(pod, OnNode(n))
             a(conflicts) == [node |-> n.name, conflicts |-> conflicts, short |-> evaluateResourceFit(pod, n),
                              reasons |-> UnschedulableReasons(pod, n) \cup When(conflicts # {}, {"antiAffinity"})]
  <1>1. World /\ Progress /\ OneEach /\ AllSound /\ Thorough
    BY DEF Inv
  <1>2. pc = "pods" /\ op = "scheduling" /\ UNCHANGED <<place, over, late, status>>
    BY DEF AnalyzeUnschedulableNode, cluster
  <1>3. at \in DOMAIN nodes /\ status = "Pending"
    BY <1>1, <1>2, Place DEF Progress
  <1>4. \E conflicts : /\ conflicts \subseteq listed /\ Proceed(a(conflicts), VolumeCall) /\ faults' \in 0..MaxFaults
                       /\ faults' = 0 /\ ~late => faults = 0 /\ conflicts = listed
    <2>1. CASE pod.antiAffinity = {} /\ Proceed(a({}), VolumeCall) /\ UNCHANGED faults
      <3>1. listed = {}
        BY <2>1 DEF evaluatePodAntiAffinity
      <3>2. faults' \in 0..MaxFaults
        BY <1>1, <2>1 DEF Progress
      <3> QED
        BY <2>1, <3>1, <3>2, Zenon
    <2>2. ASSUME NEW ok \in BOOLEAN, Call(ok), Proceed(a(When(ok, listed)), VolumeCall)
          PROVE  \E conflicts : /\ conflicts \subseteq listed /\ Proceed(a(conflicts), VolumeCall) /\ faults' \in 0..MaxFaults
                                /\ faults' = 0 /\ ~late => faults = 0 /\ conflicts = listed
      <3>1. faults' \in 0..MaxFaults /\ (faults' = 0 /\ ~late => ok /\ faults = 0)
        BY <1>1, <2>2, CallEnds DEF Progress
      <3>2. When(ok, listed) \subseteq listed /\ (ok => When(ok, listed) = listed)
        BY DEF When
      <3> QED
        BY <2>2, <3>1, <3>2, Zenon
    <2> QED
      BY <2>1, <2>2, Zenon DEF AnalyzeUnschedulableNode
  <1>5. PICK conflicts : /\ conflicts \subseteq listed /\ Proceed(a(conflicts), VolumeCall) /\ faults' \in 0..MaxFaults
                         /\ faults' = 0 /\ ~late => faults = 0 /\ conflicts = listed
    BY <1>4
  <1>6. VolumeCall \in {"none", "volumes"}
    BY DEF VolumeCall
  <1>7. Sound(a(conflicts))
    <2> DEFINE b == a(conflicts)
    <2>1. \A x : x \in b.reasons <=> x \in UnschedulableReasons(pod, n) \/ (x = "antiAffinity" /\ conflicts # {})
      BY InWhen
    <2>2. b.reasons \subseteq Reasons
      BY <2>1, UnschedulableReasonsAre DEF Reasons
    <2>3. b.conflicts = conflicts /\ conflicts \subseteq Names
      BY <1>1, <1>5, ConflictsTrue
    <2>4. b.short = evaluateResourceFit(pod, n) /\ b.short \subseteq Resource
      BY DEF evaluateResourceFit, Resource
    <2>5. \A r \in b.short : pod.requests[r] > Listed(n.name).allocatable[r] - Requested(ThereSince(n.name), r)
      <3>1. Listed(n.name) = n /\ ThereSince(n.name) \in SUBSET AllPods
        BY <1>1, <1>3, ListedByName DEF World, ThereSince, OnNode
      <3> QED
        BY <1>1, <1>3, <2>4, <3>1, EmptyShortageTrue
    <2>6. /\ "notReady" \in b.reasons => n.ready # "True"
          /\ "taints" \in b.reasons => n.taints # {}
          /\ "Resources" \notin b.reasons
          /\ "antiAffinity" \in b.reasons <=> conflicts # {}
          /\ b.reasons \cap {"affinity", "selector", "volumeAffinity"} # {} => pod.selector # {} \/ pod.required # {}
      BY <2>1, UnschedulableReasonsAre, ReasonsGrounded
    <2>7. b \in [node : {n.name}, reasons : SUBSET Reasons, conflicts : SUBSET Names, short : SUBSET Resource]
      BY <2>2, <2>3, <2>4
    <2> HIDE DEF b
    <2>8. Sound(b)
      BY <1>1, <1>2, <1>3, <1>5, <2>3, <2>5, <2>6, <2>7, SoundIf
    <2> QED
      BY <2>8 DEF b
  <1>8. a(conflicts).node = nodes[at].name /\ (op = "scheduling" /\ a(conflicts).conflicts # {} => a(conflicts).reasons # {})
    BY InWhen
  <1>9. faults' = 0 /\ ~late => \A q \in Others : Conflicting(q, nodes[at]) => q.name \in a(conflicts).conflicts
    BY <1>1, <1>3, <1>5, ConflictListed
  <1> HIDE DEF a
  <1>10. Progress' /\ OneEach' /\ AllSound'
    BY <1>1, <1>2, <1>5, <1>6, <1>7, <1>8, ProceedStep
  <1>11. Thorough'
    BY <1>1, <1>2, <1>5, <1>6, <1>8, <1>9, ProceedThorough
  <1> QED
    BY <1>10, <1>11

\* The explanation of a node: what it is short of with its pods.
LEMMA ExplanationStep ==
  ASSUME Inv, World', Meanwhile, AnalyzeNodeForExplanation
  PROVE  Progress' /\ OneEach' /\ AllSound' /\ Thorough'
  <1> DEFINE n == nodes[at]
             Short(ok) == explainResourceFit(pod, n, calculateNodeAllocatedResources(When(ok, OnNode(n)), over))
             a(ok) == [node |-> n.name, conflicts |-> {}, short |-> Short(ok),
                       reasons |-> ExplainedReasons(pod, n) \cup When(Short(ok) # {}, {"Resources"})]
  <1>1. World /\ Progress /\ OneEach /\ AllSound /\ Thorough
    BY DEF Inv
  <1>2. pc = "pods" /\ op = "explanation" /\ UNCHANGED <<place, over, late, status>>
    BY DEF AnalyzeNodeForExplanation, cluster
  <1>3. at \in DOMAIN nodes
    BY <1>1, <1>2, Place
  <1>4. PICK ok \in BOOLEAN : Call(ok) /\ Proceed(a(ok), AffinityCall)
    BY Zenon DEF AnalyzeNodeForExplanation
  <1>5. faults' \in 0..MaxFaults /\ (faults' = 0 /\ ~late => ok = TRUE /\ faults = 0)
    <2>1. ok => ok = TRUE
      OBVIOUS
    <2> QED
      BY <1>1, <1>4, <2>1, CallEnds DEF Progress
  <1>6. /\ AffinityCall \in {"none", "volumes", "affinity"}
        /\ AffinityCall # "affinity" => pod.antiAffinity = {}
    BY DEF AffinityCall, VolumeCall, HasAffinity
  <1>7. Sound(a(ok))
    <2> DEFINE b == a(ok)
    <2>0. b.reasons = ExplainedReasons(pod, n) \cup When(Short(ok) # {}, {"Resources"})
      OBVIOUS
    <2>1. \A x : x \in b.reasons <=> x \in ExplainedReasons(pod, n) \/ (x = "Resources" /\ Short(ok) # {})
      <3> HIDE DEF b, Short, n
      <3> QED
        BY <2>0, InWhen
    <2>2. b.reasons \subseteq Reasons
      BY <2>1, ExplainedReasonsAre DEF Reasons
    <2>3. b.short = Short(ok) /\ Short(ok) \subseteq Resource /\ b.conflicts = {}
      BY DEF explainResourceFit
    <2>4. \A r \in b.short : pod.requests[r] > Listed(n.name).allocatable[r] - Requested(ThereSince(n.name), r)
      BY <1>1, <1>3, <2>3, ShortageTrue
    <2>5. /\ "Resources" \in b.reasons => b.short # {}
          /\ b.reasons \cap {"affinity", "selector", "volumeAffinity", "notReady", "taints", "antiAffinity"} = {}
      BY <2>1, <2>3, ExplainedReasonsAre
    <2>6. b \in [node : {n.name}, reasons : SUBSET Reasons, conflicts : SUBSET Names, short : SUBSET Resource]
      BY <2>2, <2>3
    <2> HIDE DEF b
    <2>7. Sound(b)
      BY <1>1, <1>3, <2>3, <2>4, <2>5, <2>6, SoundIf
    <2> QED
      BY <2>7 DEF b
  <1>8. a(ok).node = nodes[at].name /\ a(ok).conflicts = {} /\ a(ok).short = Short(ok)
    OBVIOUS
  <1>9. faults' = 0 /\ ~late =>
          /\ \A r \in {"cpu", "memory"} : Lacking(r, nodes[at]) => r \in a(ok).short
          /\ AffinityCall # "affinity" => \A q \in Others : ~Conflicting(q, nodes[at])
    <2>1. \A r \in {"cpu", "memory"} : Lacking(r, nodes[at]) => r \in Short(TRUE)
      BY <1>1, <1>3, LackingListed
    <2>2. AffinityCall # "affinity" => \A q \in Others : ~Conflicting(q, nodes[at])
      BY <1>6 DEF Conflicting
    <2> QED
      BY <1>5, <1>8, <2>1, <2>2, Zenon
  <1> HIDE DEF a, Short
  <1>10. Progress' /\ OneEach' /\ AllSound'
    BY <1>1, <1>2, <1>4, <1>5, <1>6, <1>7, <1>8, ProceedStep
  <1>11. Thorough'
    BY <1>1, <1>2, <1>4, <1>5, <1>6, <1>8, <1>9, ProceedThorough
  <1> QED
    BY <1>10, <1>11

\* The second list of the node's pods: the conflicts, and the affinity that is unmet.
LEMMA AffinityStep ==
  ASSUME Inv, World', Meanwhile, ExplainPodAffinity
  PROVE  Progress' /\ OneEach' /\ AllSound' /\ Thorough'
  <1> DEFINE n == nodes[at]
             seen == explainPodAffinity(pod, OnNode(n))
             Bad(ok) == ok /\ (seen.conflicts # {} \/ seen.unmet # {})
             a(ok) == [found EXCEPT !.conflicts = When(ok, seen.conflicts),
                                    !.reasons = @ \cup When(Bad(ok), {"PodAffinity"})]
  <1>1. World /\ Progress /\ OneEach /\ AllSound /\ Thorough
    BY DEF Inv
  <1>2. pc = "affinity" /\ op = "explanation" /\ UNCHANGED <<place, over, late, status>>
    BY <1>1 DEF ExplainPodAffinity, cluster, Progress
  <1>3. at \in DOMAIN nodes /\ found.node = nodes[at].name /\ Sound(found) /\ found \in Analysis
    <2>1. at \in DOMAIN nodes
      BY <1>1, <1>2, Place
    <2>2. found.node = nodes[at].name
      BY <1>1, <1>2 DEF Progress
    <2>3. Sound(found)
      BY <1>1 DEF AllSound
    <2> QED
      BY <2>1, <2>2, <2>3 DEF Sound
  <1>4. PICK ok \in BOOLEAN : Call(ok) /\ Proceed(a(ok), VolumeCall)
    BY Zenon DEF ExplainPodAffinity
  <1>5. faults' \in 0..MaxFaults /\ (faults' = 0 /\ ~late => ok /\ faults = 0)
    BY <1>1, <1>4, CallEnds DEF Progress
  <1>6. VolumeCall \in {"none", "volumes"}
    BY DEF VolumeCall
  <1> DEFINE b == a(ok)
             listed == evaluatePodAntiAffinity(pod, OnNode(n))
  <1>7. /\ b.node = found.node /\ b.short = found.short
        /\ b.conflicts = When(ok, seen.conflicts) /\ b.reasons = found.reasons \cup When(Bad(ok), {"PodAffinity"})
    BY <1>3 DEF Analysis
  <1>8. seen.conflicts = listed \ {pod.name}
    BY <1>1, ConflictsExplained
  <1>9. b.conflicts \subseteq listed \ {pod.name} /\ (ok => b.conflicts = listed \ {pod.name}) /\ listed \subseteq Names
    BY <1>1, <1>7, <1>8, ConflictsTrue DEF When
  <1>10. found.reasons \subseteq b.reasons /\ b.reasons \subseteq found.reasons \cup {"PodAffinity"}
    BY <1>7 DEF When
  <1>11. b \in [node : {n.name}, reasons : SUBSET Reasons, conflicts : SUBSET Names, short : SUBSET Resource]
    <2>1. found \in [node : {n.name}, reasons : SUBSET Reasons, conflicts : SUBSET Names, short : SUBSET Resource]
      BY <1>3 DEF Analysis
    <2>2. When(ok, seen.conflicts) \in SUBSET Names
      BY <1>7, <1>9
    <2>3. found.reasons \cup When(Bad(ok), {"PodAffinity"}) \in SUBSET Reasons
      BY <2>1 DEF When, Reasons
    <2> HIDE DEF seen, Bad
    <2> QED
      BY <2>1, <2>2, <2>3
  <1> HIDE DEF b
  <1>12. Sound(b)
    <2>1. \A r \in b.short : pod.requests[r] > Listed(n.name).allocatable[r] - Requested(ThereSince(n.name), r)
      BY <1>3, <1>7 DEF Sound
    <2>2. Listed(n.name) = n
      BY <1>1, <1>3, ListedByName DEF World
    <2>3. pod.name \notin b.conflicts /\ b.conflicts \subseteq evaluatePodAntiAffinity(pod, OnNode(n))
      BY <1>9
    <2>4. /\ "Resources" \in b.reasons => b.short # {}
          /\ "antiAffinity" \notin b.reasons
          /\ "notReady" \in b.reasons => n.ready # "True"
          /\ "taints" \in b.reasons => n.taints # {}
          /\ b.reasons \cap {"affinity", "selector", "volumeAffinity"} # {} =>
               pod.selector # {} \/ pod.required # {} \/ pod.claims # {}
      BY <1>2, <1>3, <1>7, <1>10, <2>2 DEF Sound
    <2> QED
      BY <1>1, <1>2, <1>3, <1>11, <2>1, <2>3, <2>4, SoundIf
  <1>13. b.node = nodes[at].name /\ ~(op = "scheduling")
    BY <1>2, <1>3, <1>7
  <1>14. Proceed(b, VolumeCall)
    BY <1>4 DEF b
  <1>15. faults' = 0 /\ ~late =>
           /\ \A r \in {"cpu", "memory"} : Lacking(r, nodes[at]) => r \in b.short
           /\ \A q \in Others : Conflicting(q, nodes[at]) => q.name \in b.conflicts
    <2>1. ASSUME faults' = 0, ~late
          PROVE  \A r \in {"cpu", "memory"} : Lacking(r, nodes[at]) => r \in b.short
      BY <1>1, <1>2, <1>5, <1>7, <2>1 DEF Thorough
    <2>2. ASSUME faults' = 0, ~late, NEW q \in Others, Conflicting(q, nodes[at])
          PROVE  q.name \in b.conflicts
      BY <1>1, <1>3, <1>5, <1>9, <2>2, ConflictListed
    <2> QED
      BY <2>1, <2>2
  <1> HIDE DEF a
  <1>16. Progress' /\ OneEach' /\ AllSound'
    BY <1>1, <1>2, <1>5, <1>6, <1>12, <1>13, <1>14, ProceedStep
  <1>17. Thorough'
    BY <1>1, <1>2, <1>5, <1>6, <1>13, <1>14, <1>15, ProceedThorough
  <1> QED
    BY <1>16, <1>17

\* The claims and volumes: they add to the reasons only.
LEMMA ClaimsStep ==
  ASSUME Inv, World', Meanwhile, ReadClaims
  PROVE  Progress' /\ OneEach' /\ AllSound' /\ Thorough'
  <1> DEFINE n == nodes[at]
             Against(readable) == IF op = "scheduling" THEN analyzeVolumeConstraints(n, readable)
                                                       ELSE explainVolumeConstraints(n, readable)
             a(readable) == [found EXCEPT !.reasons = @ \cup Against(readable)]
  <1>1. World /\ Progress /\ OneEach /\ AllSound /\ Thorough
    BY DEF Inv
  <1>2. pc = "volumes" /\ UNCHANGED <<place, over, late, status>>
    BY DEF ReadClaims, cluster
  <1>3. /\ at \in DOMAIN nodes /\ found.node = nodes[at].name /\ found.node # "" /\ Sound(found) /\ found \in Analysis
    <2>1. at \in DOMAIN nodes
      BY <1>1, <1>2, Place
    <2>2. found.node = nodes[at].name
      BY <1>1, <1>2 DEF Progress
    <2>3. Sound(found)
      BY <1>1 DEF AllSound
    <2>4. nodes[at].name # ""
      BY <1>1, <2>1, NodeFacts DEF World
    <2> QED
      BY <2>1, <2>2, <2>3, <2>4 DEF Sound
  <1>4. PICK readable \in SUBSET pod.claims :
          /\ \/ late /\ readable = {} /\ UNCHANGED faults
             \/ /\ ~late
                /\ faults' = faults + Cardinality(pod.claims \ readable)
                /\ faults' <= MaxFaults
          /\ Proceed(a(readable), "none")
    BY Zenon DEF ReadClaims
  <1>5. faults' \in 0..MaxFaults /\ (faults' = 0 /\ ~late => faults = 0)
    <2>1. Cardinality(pod.claims \ readable) \in Nat
      BY <1>1, PodFacts, FS_Difference, FS_CardinalityType DEF World
    <2>2. faults \in 0..MaxFaults
      BY <1>1 DEF Progress
    <2> QED
      BY <1>4, <2>1, <2>2, FaultsAssumption
  <1>6. /\ Against(readable) \in SUBSET {"unbound", "volumeAffinity", "readWriteOnce", "Volume"}
        /\ "volumeAffinity" \in Against(readable) => pod.claims # {}
    BY VolumeReasonsAre
  <1> HIDE DEF Against
  <1>7. Sound(a(readable))
    BY <1>3, <1>6, SoundWith
  <1> DEFINE b == a(readable)
  <1>8. b.node = found.node /\ b.short = found.short /\ b.conflicts = found.conflicts
    BY <1>3 DEF Analysis
  <1> HIDE DEF b
  <1>9. Sound(b) /\ Proceed(b, "none")
    BY <1>4, <1>7 DEF b
  <1>10. op = "scheduling" /\ b.conflicts # {} => b.reasons # {}
    BY <1>9 DEF Sound
  <1>11. faults' = 0 /\ ~late =>
           /\ op = "explanation" => \A r \in {"cpu", "memory"} : Lacking(r, nodes[at]) => r \in b.short
           /\ \A q \in Others : Conflicting(q, nodes[at]) => q.name \in b.conflicts
    <2>1. op = "explanation" \/ status = "Pending"
      BY <1>1, <1>2 DEF Progress
    <2> QED
      BY <1>1, <1>2, <1>5, <1>8, <2>1 DEF Thorough
  <1>12. Progress' /\ OneEach' /\ AllSound'
    BY <1>1, <1>2, <1>3, <1>5, <1>8, <1>9, ProceedStep
  <1>13. Thorough'
    BY <1>1, <1>2, <1>3, <1>5, <1>8, <1>9, <1>10, <1>11, ProceedThorough
  <1> QED
    BY <1>12, <1>13

\* What happens in the cluster changes nothing of what was found.
LEMMA ClusterStep ==
  ASSUME Inv, World', Meanwhile, UNCHANGED <<pc, at, analyses, found, status, faults>>, late => late',
         pc = "pod" => UNCHANGED place
  PROVE  Progress' /\ OneEach' /\ AllSound' /\ Thorough'
  <1>1. World /\ Progress /\ OneEach /\ AllSound /\ Thorough /\ UNCHANGED <<nodes, pod, op, before>>
    BY DEF Inv, Meanwhile
  <1>2. status = "Scheduled" => place'[pod.name] # ""
    <2>1. pod.name \in Names
      BY <1>1, PodFacts DEF World
    <2>2. status = "Scheduled" => place[pod.name] # ""
      BY <1>1 DEF Progress
    <2> QED
      BY <2>1, <2>2 DEF Meanwhile
  <1>3. Progress'
    BY <1>1, <1>2 DEF Progress
  <1>4. OneEach'
    BY <1>1 DEF OneEach
  <1>5. AllSound'
    <2>1. Sound(found)' /\ \A a \in analyses : Sound(a)'
      BY <1>1, SoundStays DEF AllSound
    <2> QED
      BY <1>1, <2>1 DEF AllSound
  <1>6. Thorough'
    BY <1>1, ThoroughStays
  <1> QED
    BY <1>3, <1>4, <1>5, <1>6

\* The pod is read, and its place is remembered.
LEMMA GetPodStep ==
  ASSUME Inv, World', Meanwhile, GetPod
  PROVE  Progress' /\ OneEach' /\ AllSound' /\ Thorough'
  <1>1. World /\ Progress /\ OneEach /\ AllSound /\ Thorough /\ UNCHANGED <<nodes, pod, op, before>>
    BY DEF Inv, Meanwhile
  <1>2. pc = "pod" /\ UNCHANGED <<place, at, found, analyses, late>>
    BY DEF GetPod, cluster
  <1>3. PICK ok \in BOOLEAN :
          /\ Call(ok)
          /\ pc' = IF ok THEN "events" ELSE "failed"
          /\ status' = CASE ~ok -> ""
                         [] ok /\ place[pod.name] # "" -> "Scheduled"
                         [] OTHER -> IF op = "scheduling" /\ pod.name \in over THEN "Failed" ELSE "Pending"
    BY Zenon DEF GetPod
  <1>4. faults' \in 0..MaxFaults
    BY <1>1, <1>3, CallEnds DEF Progress
  <1>5. before.place = place /\ analyses = {} /\ at = 1 /\ found = Nothing
    BY <1>1, <1>2 DEF Progress
  <1>6. /\ pc' \in {"events", "failed"} /\ status' \in {"", "Scheduled", "Pending", "Failed"}
        /\ status' = "Scheduled" => place[pod.name] # ""
        /\ status' = "Pending" => place[pod.name] = ""
    <2>1. CASE ok
      <3>1. CASE place[pod.name] # ""
        BY <1>3, <2>1, <3>1
      <3>2. CASE place[pod.name] = ""
        BY <1>3, <2>1, <3>2
      <3> QED
        BY <3>1, <3>2
    <2>2. CASE ~ok
      BY <1>3, <2>2
    <2> QED
      BY <2>1, <2>2
  <1>7. Progress'
    BY <1>1, <1>2, <1>4, <1>5, <1>6 DEF Progress
  <1>8. OneEach'
    BY <1>1, <1>2, <1>5 DEF OneEach
  <1>9. AllSound'
    <2>1. found'.conflicts = {} /\ found'.short = {} /\ found'.reasons = {} /\ found' \in Analysis'
      BY <1>2, <1>5 DEF Nothing, Analysis
    <2> QED
      BY <1>2, <1>5, <2>1 DEF AllSound, Sound
  <1>10. Thorough'
    <2>1. \A i \in 1..(at' - 1) : FALSE
      BY <1>2, <1>5
    <2>2. pc' \notin {"done", "affinity", "volumes"}
      BY <1>6
    <2> QED
      BY <2>1, <2>2 DEF Thorough
  <1> QED
    BY <1>7, <1>8, <1>9, <1>10

\* The events lead to the node, to the nodes or to the answer.
LEMMA ListEventsStep ==
  ASSUME Inv, World', Meanwhile, ListEvents
  PROVE  Progress' /\ OneEach' /\ AllSound' /\ Thorough'
  <1>1. World /\ Progress /\ OneEach /\ AllSound /\ Thorough /\ UNCHANGED <<nodes, pod, op, before>>
    BY DEF Inv, Meanwhile
  <1>2. /\ pc = "events" /\ UNCHANGED <<place, status, at, found, analyses, late>>
        /\ pc' = IF op = "explanation" \/ status = "Pending" THEN "nodes"
                 ELSE IF status = "Scheduled" THEN "node" ELSE "done"
    BY DEF ListEvents, cluster
  <1>3. faults' \in 0..MaxFaults
    BY <1>1, CallEnds DEF Progress, ListEvents
  <1>4. analyses = {} /\ at = 1 /\ found = Nothing
    BY <1>1, <1>2 DEF Progress
  <1>5. Progress'
    BY <1>1, <1>2, <1>3, <1>4 DEF Progress
  <1>6. OneEach'
    BY <1>1, <1>2 DEF OneEach
  <1>7. AllSound'
    <2>1. Sound(found)'
      BY <1>1, <1>2, SoundStays DEF AllSound
    <2> QED
      BY <1>2, <1>4, <2>1 DEF AllSound
  <1>8. Thorough'
    <2>1. (op = "explanation" \/ status = "Pending") => pc' = "nodes"
      BY <1>2
    <2> QED
      BY <1>1, <1>2, <1>4, <2>1 DEF Thorough
  <1> QED
    BY <1>5, <1>6, <1>7, <1>8

\* What speaks for the node of a scheduled pod.
LEMMA GetNodeStep ==
  ASSUME Inv, World', Meanwhile, GetNode
  PROVE  Progress' /\ OneEach' /\ AllSound' /\ Thorough'
  <1> DEFINE n == Listed(place[pod.name])
             a == [node |-> n.name, conflicts |-> {}, short |-> evaluateResourceFit(pod, n),
                   reasons |-> SchedulingDecision(pod, n)]
  <1>1. World /\ Progress /\ OneEach /\ AllSound /\ Thorough /\ UNCHANGED <<nodes, pod, op, before>>
    BY DEF Inv, Meanwhile
  <1>2. pc = "node" /\ pc' = "done" /\ UNCHANGED <<place, status, at, found, late>>
    BY DEF GetNode, cluster
  <1>3. faults' \in 0..MaxFaults
    BY <1>1, CallEnds DEF Progress, GetNode
  <1>4. /\ analyses = {} /\ at = 1 /\ found = Nothing /\ op = "scheduling" /\ status = "Scheduled"
        /\ place[pod.name] # ""
    BY <1>1, <1>2 DEF Progress
  <1>5. analyses' = {} \/ analyses' = {a}
    BY Zenon DEF GetNode, When
  <1>6. PICK i \in DOMAIN nodes : place[pod.name] = nodes[i].name
    <2>1. place[pod.name] \in NodeNames
      BY <1>1, <1>4, PodFacts DEF World
    <2> QED
      BY <2>1 DEF NodeNames
  <1>7. n = nodes[i]
    BY <1>1, <1>6, ListedByName DEF World
  <1>8. Sound(a)
    <2>1. SchedulingDecision(pod, n) \subseteq {"matches", "noTaints", "tolerates", "labels", "fits", "algorithm"}
      BY DEF SchedulingDecision, When
    <2>2. a.node = n.name /\ a.conflicts = {} /\ a.short = evaluateResourceFit(pod, n) /\ a.reasons = SchedulingDecision(pod, n)
      OBVIOUS
    <2>3. evaluateResourceFit(pod, n) \subseteq Resource
      BY DEF evaluateResourceFit, Resource
    <2>4. \A r \in a.short : pod.requests[r] > Listed(n.name).allocatable[r] - Requested(ThereSince(n.name), r)
      <3>1. Listed(n.name) = n /\ ThereSince(n.name) \in SUBSET AllPods
        BY <1>1, <1>7, ListedByName DEF World, ThereSince, OnNode
      <3> QED
        BY <1>1, <1>7, <2>2, <3>1, EmptyShortageTrue
    <2>5. a \in [node : {n.name}, reasons : SUBSET Reasons, conflicts : SUBSET Names, short : SUBSET Resource]
      <3>1. SchedulingDecision(pod, n) \in SUBSET Reasons
        BY <2>1 DEF Reasons
      <3> HIDE DEF n
      <3> QED
        BY <2>3, <3>1
    <2> HIDE DEF a
    <2> QED
      BY <1>1, <1>7, <2>1, <2>2, <2>4, <2>5, SoundIf
  <1> HIDE DEF a
  <1>13. PICK b : b = a
    OBVIOUS
  <1>9. Progress'
    BY <1>1, <1>2, <1>3, <1>4 DEF Progress
  <1>10. OneEach'
    BY <1>1, <1>2, <1>4, <1>5, FS_Singleton, FS_EmptySet DEF OneEach
  <1>11. AllSound'
    <2>1. Sound(b)
      BY <1>8, <1>13
    <2>2. Sound(found)'
      BY <1>1, <1>2, SoundStays DEF AllSound
    <2>3. Sound(b)'
      BY <1>1, <1>2, <2>1, SoundStays
    <2>4. \A c \in analyses' : c = b
      BY <1>5, <1>13
    <2> QED
      BY <1>2, <2>2, <2>3, <2>4 DEF AllSound
  <1>12. Thorough'
    BY <1>1, <1>2, <1>4 DEF Thorough
  <1> QED
    BY <1>9, <1>10, <1>11, <1>12

\* The list of the nodes.
LEMMA ListNodesStep ==
  ASSUME Inv, World', Meanwhile, ListNodes
  PROVE  Progress' /\ OneEach' /\ AllSound' /\ Thorough'
  <1>1. World /\ Progress /\ OneEach /\ AllSound /\ Thorough /\ UNCHANGED <<nodes, pod, op, before>>
    BY DEF Inv, Meanwhile
  <1>2. pc = "nodes" /\ UNCHANGED <<place, status, at, found, analyses, late>>
    BY DEF ListNodes, cluster
  <1>3. PICK ok \in BOOLEAN :
          /\ Call(ok)
          /\ pc' = IF ok THEN (IF nodes = <<>> THEN "done" ELSE "pods")
                   ELSE (IF op = "scheduling" THEN "done" ELSE "failed")
    BY Zenon DEF ListNodes
  <1>4. faults' \in 0..MaxFaults /\ (faults' = 0 /\ ~late => ok)
    BY <1>1, <1>3, CallEnds DEF Progress
  <1>5. analyses = {} /\ at = 1 /\ found = Nothing
    BY <1>1, <1>2 DEF Progress
  <1>6. Len(nodes) \in Nat /\ (nodes = <<>> <=> Len(nodes) = 0)
    <2>1. nodes \in Seq({nodes[i] : i \in DOMAIN nodes})
      BY <1>1, NodesAssumption DEF World
    <2> QED
      BY <2>1
  <1>7. pc' \in {"done", "failed", "pods"} /\ (pc' = "pods" => 1 <= Len(nodes))
    BY <1>3, <1>6
  <1>8. Progress'
    BY <1>1, <1>2, <1>4, <1>5, <1>7 DEF Progress
  <1>9. OneEach'
    BY <1>1, <1>2 DEF OneEach
  <1>10. AllSound'
    <2>1. Sound(found)'
      BY <1>1, <1>2, SoundStays DEF AllSound
    <2> QED
      BY <1>2, <1>5, <2>1 DEF AllSound
  <1>11. Thorough'
    <2>1. faults' = 0 /\ ~late' /\ pc' = "done" => Len(nodes) = 0
      BY <1>2, <1>3, <1>4, <1>6
    <2> QED
      BY <1>1, <1>2, <1>5, <1>7, <2>1 DEF Thorough
  <1> QED
    BY <1>8, <1>9, <1>10, <1>11

\* The invariant holds when the request begins.
LEMMA InvInit ==
  ASSUME Init
  PROVE  Inv
  <1>1. /\ nodes \in NodeLists /\ pod \in Subjects /\ faults = 0 /\ op \in {"scheduling", "explanation"}
        /\ place \in [Names -> {""} \cup NodeNames] /\ before = [place |-> place, over |-> over]
        /\ pc = "pod" /\ status = "" /\ at = 1 /\ found = Nothing /\ analyses = {}
    BY DEF Init, NodeNames
  <1>2. World
    BY <1>1 DEF World
  <1>3. Progress
    <2>1. 0 \in 0..MaxFaults /\ 1 \in 1..(Len(nodes) + 1)
      <3>1. Len(nodes) \in Nat
        BY <1>2, NodeFacts DEF World
      <3> QED
        BY <3>1, FaultsAssumption
    <2> QED
      BY <1>1, <2>1 DEF Progress
  <1>4. OneEach
    BY <1>1, FS_EmptySet DEF OneEach
  <1>5. AllSound
    BY <1>1, SoundNothing DEF AllSound
  <1>6. Thorough
    <2>1. 1..(at - 1) = {}
      <3>1. at = 1
        BY <1>1
      <3>2. 1..(1 - 1) = {}
        OBVIOUS
      <3> QED
        BY <3>1, <3>2, Zenon
    <2> QED
      BY <1>1, <2>1 DEF Thorough
  <1> QED
    BY <1>2, <1>3, <1>4, <1>5, <1>6 DEF Inv

\* Every step of the request, and of the cluster meanwhile, keeps it.
LEMMA InvStep ==
  ASSUME Inv, [Next]_vars
  PROVE  Inv'
  <1>1. World' /\ Meanwhile
    BY WorldStep DEF Inv
  <1> SUFFICES Progress' /\ OneEach' /\ AllSound' /\ Thorough'
    BY <1>1 DEF Inv
  <1>2. CASE GetPod
    BY <1>1, <1>2, GetPodStep
  <1>3. CASE ListEvents
    BY <1>1, <1>3, ListEventsStep
  <1>4. CASE GetNode
    BY <1>1, <1>4, GetNodeStep
  <1>5. CASE ListNodes
    BY <1>1, <1>5, ListNodesStep
  <1>6. CASE AnalyzeUnschedulableNode
    BY <1>1, <1>6, UnschedulableNodeStep
  <1>7. CASE AnalyzeNodeForExplanation
    BY <1>1, <1>7, ExplanationStep
  <1>8. CASE ExplainPodAffinity
    BY <1>1, <1>8, AffinityStep
  <1>9. CASE ReadClaims
    BY <1>1, <1>9, ClaimsStep
  <1>10. CASE \/ \E q \in Names : Bind(q) \/ Finish(q)
              \/ \E c \in pod.claims : BindClaim(c)
              \/ Deadline \/ Answered \/ UNCHANGED vars
    <2>1. /\ UNCHANGED <<pc, at, analyses, found, status, faults>>
          /\ pc = "pod" => UNCHANGED place
      BY <1>10 DEF Bind, Finish, BindClaim, Deadline, Answered, Running, vars, cluster
    <2>2. late' = late \/ late' = TRUE
      BY <1>10 DEF Bind, Finish, BindClaim, Deadline, Answered, vars
    <2>3. late => late'
      BY <2>2, Zenon
    <2> QED
      BY <1>1, <2>1, <2>3, ClusterStep
  <1> QED
    BY <1>2, <1>3, <1>4, <1>5, <1>6, <1>7, <1>8, <1>9, <1>10 DEF Next

\* The inductive invariant.
THEOREM Invariance == Spec => []Inv
  BY InvInit, InvStep, PTL DEF Spec

-----------------------------------------------------------------------------

\* The type invariant: no node is analysed twice.
THEOREM TypeCorrectness == Spec => []TypeOK
  <1>1. Inv => TypeOK
    BY DEF Inv, Progress, OneEach, AllSound, Sound, TypeOK
  <1> QED
    BY <1>1, Invariance, PTL

\* Whatever was listed when, what an analysis holds against a node was so at some
\* time of the request.
THEOREM VerdictsTrue == Spec => []VerdictsWereTrue
  <1>1. Inv => VerdictsWereTrue
    BY DEF Inv, AllSound, Sound, VerdictsWereTrue
  <1> QED
    BY <1>1, Invariance, PTL

\* A pod is in conflict with itself only if it was bound while it was analysed.
THEOREM OwnConflicts == Spec => []OwnConflictOnlyIfBoundMeanwhile
  <1>1. ASSUME Inv, NEW a \in analyses \cup {found}, pod.name \in a.conflicts
        PROVE  /\ op = "scheduling" /\ status = "Pending"
               /\ before.place[pod.name] = "" /\ place[pod.name] = a.node
    <2>1. Sound(a)
      BY <1>1 DEF Inv, AllSound
    <2>2. op = "scheduling" /\ status = "Pending"
      BY <1>1, <2>1 DEF Sound
    <2>3. before.place[pod.name] = ""
      BY <1>1, <2>2 DEF Inv, Progress
    <2>4. pod \in AllPods
      BY <1>1, PodFacts DEF Inv, World
    <2>5. place[pod.name] = a.node
      BY <1>1, <2>1, <2>4 DEF Sound
    <2> QED
      BY <2>2, <2>3, <2>5
  <1>2. Inv => OwnConflictOnlyIfBoundMeanwhile
    BY <1>1 DEF OwnConflictOnlyIfBoundMeanwhile
  <1> QED
    BY <1>2, Invariance, PTL

\* What is short on a node that is not the pod's own is short for any other pod.
THEOREM OwnRequests == Spec => []OwnRequestsCountOnlyAtHome
  <1>1. ASSUME Inv, op = "explanation", NEW a \in analyses, a.node # place[pod.name], NEW r \in a.short
        PROVE  pod.requests[r] > Listed(a.node).allocatable[r] - Requested(ThereSince(a.node) \ {pod}, r)
    <2>1. World /\ Sound(a)
      BY <1>1 DEF Inv, AllSound
    <2>2. a \in Analysis /\ a.node # ""
      <3>1. a.node = "" => a = Nothing
        BY <2>1 DEF Sound
      <3>2. Nothing.short = {}
        BY DEF Nothing
      <3> QED
        BY <1>1, <2>1, <3>1, <3>2 DEF Sound
    <2>3. PICK i \in DOMAIN nodes : a.node = nodes[i].name
      BY <2>2 DEF Analysis
    <2>4. Listed(a.node).name = a.node
      BY <2>1, <2>3, ListedByName DEF World
    <2>5. pod \notin ThereSince(a.node)
      BY <1>1, <2>4 DEF ThereSince, OnNode
    <2>6. ThereSince(a.node) \ {pod} = ThereSince(a.node)
      BY <2>5
    <2>7. pod.requests[r] > Listed(a.node).allocatable[r] - Requested(ThereSince(a.node), r)
      BY <1>1, <2>1 DEF Sound
    <2> QED
      BY <2>6, <2>7, Zenon
  <1>2. Inv => OwnRequestsCountOnlyAtHome
    BY <1>1 DEF OwnRequestsCountOnlyAtHome
  <1> QED
    BY <1>2, Invariance, PTL

\* When every call has answered, no pod that was there before is missed.
THEOREM NothingMissed == Spec => []NothingMissedUnlessFailed
  <1>1. ASSUME Inv, pc = "done", op = "explanation" \/ status = "Pending", faults = 0, ~late, NEW i \in DOMAIN nodes
        PROVE  /\ i \in 1..(at - 1)
               /\ \A q \in Others : Conflicting(q, nodes[i]) => \E a \in analyses : a.node = nodes[i].name /\ q.name \in a.conflicts
               /\ op = "explanation" => \A r \in {"cpu", "memory"} : Lacking(r, nodes[i]) =>
                    \E a \in analyses : a.node = nodes[i].name /\ r \in a.short
    <2>1. at = Len(nodes) + 1
      BY <1>1 DEF Inv, Thorough
    <2>2. i \in 1..(at - 1)
      BY <1>1, <2>1, Place DEF Inv
    <2> QED
      BY <1>1, <2>2 DEF Inv, Thorough
  <1>2. ASSUME NEW i \in DOMAIN nodes, NEW r
        PROVE  {q \in {o \in Others : before.place[o.name] = nodes[i].name} : q.name \notin over}
                 = {q \in Others : before.place[q.name] = nodes[i].name /\ q.name \notin over}
    OBVIOUS
  <1>3. Inv => NothingMissedUnlessFailed
    <2>1. SUFFICES ASSUME Inv, pc = "done", op = "explanation" \/ status = "Pending", faults = 0, ~late,
                          NEW i \in DOMAIN nodes
                   PROVE  LET n == nodes[i]
                              there == {q \in Others : before.place[q.name] = n.name}
                          IN  /\ \A q \in there : (\E term \in pod.antiAffinity : podMatchesAntiAffinityTerm(q, term)) =>
                                   \E a \in analyses : a.node = n.name /\ q.name \in a.conflicts
                              /\ op = "explanation" =>
                                   \A r \in {"cpu", "memory"} :
                                     pod.requests[r] > n.allocatable[r] - Requested({q \in there : q.name \notin over}, r) =>
                                       \E a \in analyses : a.node = n.name /\ r \in a.short
      BY Zenon DEF NothingMissedUnlessFailed
    <2> DEFINE n == nodes[i]
               there == {q \in Others : before.place[q.name] = n.name}
    <2>2. \A q \in there : (\E term \in pod.antiAffinity : podMatchesAntiAffinityTerm(q, term)) =>
            \E a \in analyses : a.node = n.name /\ q.name \in a.conflicts
      BY <1>1, <2>1 DEF Conflicting
    <2>3. ASSUME op = "explanation", NEW r \in {"cpu", "memory"},
                 pod.requests[r] > n.allocatable[r] - Requested({q \in there : q.name \notin over}, r)
          PROVE  \E a \in analyses : a.node = n.name /\ r \in a.short
      <3>1. {q \in there : q.name \notin over} = {q \in Others : before.place[q.name] = nodes[i].name /\ q.name \notin over}
        BY <1>2
      <3>2. Lacking(r, nodes[i])
        BY <2>3, <3>1, Zenon DEF Lacking
      <3> QED
        BY <1>1, <2>1, <2>3, <3>2
    <2> QED
      BY <2>2, <2>3
  <1> QED
    BY <1>3, Invariance, PTL

\* The two analyses agree on one and the same cluster, as far as they are meant to.
LEMMA Agreement ==
  ASSUME World, NEW i \in DOMAIN nodes
  PROVE  LET n == nodes[i]
             here == OnNode(n)
             schedulingSays == UnschedulableReasons(pod, n) \cup analyzeVolumeConstraints(n, pod.claims)
             explanationSays == ExplainedReasons(pod, n) \cup explainVolumeConstraints(n, pod.claims)
             allocated == calculateNodeAllocatedResources(here, over)
         IN  /\ "NodeReady" \in explanationSays => schedulingSays \cap {"notReady", "unschedulable"} # {}
             /\ schedulingSays \cap {"notReady", "unschedulable"} # {} /\ n.ready # "none" => "NodeReady" \in explanationSays
             /\ "affinity" \in schedulingSays <=> explanationSays \cap {"NodeSelector", "NodeAffinity"} # {}
             /\ "taints" \in schedulingSays <=> "Taints" \in explanationSays
             /\ "Volume" \in explanationSays <=> schedulingSays \cap {"unbound", "volumeAffinity"} # {}
             /\ evaluateResourceFit(pod, n) \subseteq explainResourceFit(pod, n, allocated)
             /\ evaluatePodAntiAffinity(pod, here) \ {pod.name} = explainPodAffinity(pod, here).conflicts
  <1> DEFINE n == nodes[i]
             here == OnNode(n)
             schedulingSays == UnschedulableReasons(pod, n) \cup analyzeVolumeConstraints(n, pod.claims)
             explanationSays == ExplainedReasons(pod, n) \cup explainVolumeConstraints(n, pod.claims)
             allocated == calculateNodeAllocatedResources(here, over)
  <1>1. /\ "notReady" \in schedulingSays <=> n.ready # "True"
        /\ "unschedulable" \in schedulingSays <=> n.unschedulable
        /\ "affinity" \in schedulingSays <=> ~evaluateNodeAffinity(pod, n)
        /\ "taints" \in schedulingSays <=> evaluateTaintsAndTolerations(pod, n) # {}
        /\ "unbound" \in schedulingSays <=> \E c \in pod.claims : c.name \notin bound
        /\ "volumeAffinity" \in schedulingSays <=> \E c \in pod.claims : c.name \in bound /\ ~VolumeMatches(c, n)
    BY UnschedulableReasonsAre, VolumeReasonsAre
  <1>2. /\ "NodeReady" \in explanationSays <=> ~explainNodeReady(n)
        /\ "NodeSelector" \in explanationSays <=> MissingLabels(pod, n) # {}
        /\ "NodeAffinity" \in explanationSays <=> pod.required # {} /\ \A term \in pod.required : ~matchNodeSelectorTerm(n, term)
        /\ "Taints" \in explanationSays <=> explainTaints(pod, n) # {}
        /\ "Volume" \in explanationSays <=> \E c \in pod.claims : c.name \in bound => ~VolumeMatches(c, n)
    BY ExplainedReasonsAre, VolumeReasonsAre
  <1>3. explainTaints(pod, n) = evaluateTaintsAndTolerations(pod, n)
    <2>1. \A t \in n.taints : t.effect # "PreferNoSchedule" <=> t.effect \in {"NoSchedule", "NoExecute"}
      BY NodeFacts DEF World
    <2> QED
      BY <2>1 DEF explainTaints, evaluateTaintsAndTolerations
  <1>4. ~evaluateNodeAffinity(pod, n) <=>
          \/ MissingLabels(pod, n) # {}
          \/ pod.required # {} /\ \A term \in pod.required : ~matchNodeSelectorTerm(n, term)
    BY DEF evaluateNodeAffinity
  <1>5. evaluateResourceFit(pod, n) \subseteq explainResourceFit(pod, n, allocated)
    <2>1. SUFFICES ASSUME NEW r \in evaluateResourceFit(pod, n)
                   PROVE  r \in explainResourceFit(pod, n, allocated)
      OBVIOUS
    <2> DEFINE live == {q \in here : q.name \notin over}
    <2>2. live \in SUBSET AllPods
      BY DEF OnNode
    <2>3. r \in Resource /\ pod.requests[r] > n.allocatable[r] - Requested(live, r)
      BY <2>1, <2>2, EmptyShortageTrue
    <2>4. r # "storage"
      BY <2>1 DEF evaluateResourceFit
    <2>5. allocated[r] = Requested(live, r)
      BY <2>3 DEF calculateNodeAllocatedResources
    <2> QED
      BY <2>3, <2>4, <2>5 DEF explainResourceFit, analyzeResourceDetail
  <1>6. evaluatePodAntiAffinity(pod, here) \ {pod.name} = explainPodAffinity(pod, here).conflicts
    BY ConflictsExplained
  <1> HIDE DEF schedulingSays, explanationSays
  <1>7. /\ "NodeReady" \in explanationSays => schedulingSays \cap {"notReady", "unschedulable"} # {}
        /\ schedulingSays \cap {"notReady", "unschedulable"} # {} /\ n.ready # "none" => "NodeReady" \in explanationSays
    BY <1>1, <1>2 DEF explainNodeReady
  <1>8. /\ "affinity" \in schedulingSays <=> explanationSays \cap {"NodeSelector", "NodeAffinity"} # {}
        /\ "taints" \in schedulingSays <=> "Taints" \in explanationSays
        /\ "Volume" \in explanationSays <=> schedulingSays \cap {"unbound", "volumeAffinity"} # {}
    BY <1>1, <1>2, <1>3, <1>4
  <1> QED
    BY <1>5, <1>6, <1>7, <1>8 DEF schedulingSays, explanationSays

\* The two analyses of a node agree on every state of the cluster, up to the
\* differences that AnalysesAgree names.
THEOREM Agree == Spec => []AnalysesAgree
  <1>1. Inv => AnalysesAgree
    BY Agreement DEF Inv, AnalysesAgree
  <1> QED
    BY <1>1, Invariance, PTL

-----------------------------------------------------------------------------

\* The categories of a node: there is one wherever there are reasons, and without
\* events they come from the reasons.
LEMMA CategoriesOf ==
  ASSUME NEW reasons, NEW list
  PROVE  /\ reasons # {} => categorizeSchedulingFailure(reasons, list) # {}
         /\ list = <<>> => \A c : c \in categorizeSchedulingFailure(reasons, list) <=>
              \/ c \in ReasonCategories(reasons)
              \/ c = "Miscellaneous" /\ reasons # {} /\ ReasonCategories(reasons) = {}
  <1> DEFINE ofEvents ==
        UNION {IF list[i].reason = "FailedScheduling" THEN parseFailedSchedulingMessage(list[i].message)
               ELSE When(list[i].reason = "NotTriggerScaleUp", parseNotTriggerScaleUpMessage(list[i].message)) :
               i \in DOMAIN list}
             ofVolumes == parseEventsForVolumeIssues(list)
             categories == ReasonCategories(reasons) \cup ofEvents \cup ofVolumes
  <1>1. categorizeSchedulingFailure(reasons, list)
          = categories \cup When(categories = {} /\ (reasons # {} \/ list # <<>>), {"Miscellaneous"})
    BY DEF categorizeSchedulingFailure
  <1>2. ASSUME list = <<>>
        PROVE  ofEvents = {} /\ ofVolumes = {}
    <2>1. DOMAIN list = {}
      BY <1>2
    <2>2. ofEvents = {}
      BY <2>1
    <2>3. ofVolumes = {}
      BY <2>1 DEF parseEventsForVolumeIssues, When
    <2> QED
      BY <2>2, <2>3
  <1> HIDE DEF ofEvents, ofVolumes
  <1>3. reasons # {} => categorizeSchedulingFailure(reasons, list) # {}
    BY <1>1 DEF When
  <1>4. ASSUME list = <<>>
        PROVE  \A c : c \in categorizeSchedulingFailure(reasons, list) <=>
                 \/ c \in ReasonCategories(reasons)
                 \/ c = "Miscellaneous" /\ reasons # {} /\ ReasonCategories(reasons) = {}
    BY <1>1, <1>2, <1>4 DEF When
  <1> QED
    BY <1>3, <1>4

\* The categories that the reasons name.
LEMMA ReasonCategoriesAre ==
  ASSUME NEW reasons, NEW c
  PROVE  c \in ReasonCategories(reasons) <=>
           \/ c = "NodeNotReady" /\ "notReady" \in reasons
           \/ c = "NodeAffinityNotMatch" /\ reasons \cap {"affinity", "selector", "volumeAffinity"} # {}
           \/ c = "TaintTolerationMismatch" /\ "taints" \in reasons
           \/ c = "PodAffinityConflict" /\ "antiAffinity" \in reasons
  BY DEF ReasonCategories, When

\* Which nodes stand under which category.
LEMMA CategoriesAre ==
  ASSUME NEW c
  PROVE  /\ c \in DOMAIN Categories <=> \E a \in analyses : c \in categorizeSchedulingFailure(a.reasons, events)
         /\ c \in DOMAIN Categories =>
              Categories[c] = {a.node : a \in {b \in analyses : c \in categorizeSchedulingFailure(b.reasons, events)}}
  <1> DEFINE of(a) == categorizeSchedulingFailure(a.reasons, events)
  <1>1. Categories = [category \in UNION {of(a) : a \in analyses} |-> {a.node : a \in {b \in analyses : category \in of(b)}}]
    BY Zenon DEF Categories, aggregateFailureCategories
  <1> HIDE DEF of
  <1>2. /\ c \in DOMAIN Categories <=> \E a \in analyses : c \in of(a)
        /\ c \in DOMAIN Categories => Categories[c] = {a.node : a \in {b \in analyses : c \in of(b)}}
    BY <1>1
  <1> QED
    BY <1>2, Zenon DEF of

\* Every node that is held unschedulable is found under some category, and without
\* events under none but those its own reasons are for.
THEOREM CategoriesFit == Spec => []CategoriesFitNodes
  <1>1. ASSUME Inv, Pending
        PROVE  UNION {Categories[c] : c \in DOMAIN Categories} = {a.node : a \in analyses}
    <2>1. \A a \in analyses : categorizeSchedulingFailure(a.reasons, events) # {}
      BY <1>1, CategoriesOf DEF Inv, OneEach, Pending
    <2>2. \A c \in DOMAIN Categories : Categories[c] \subseteq {a.node : a \in analyses}
      BY CategoriesAre
    <2>3. ASSUME NEW a \in analyses
          PROVE  \E c \in DOMAIN Categories : a.node \in Categories[c]
      <3>1. PICK c : c \in categorizeSchedulingFailure(a.reasons, events)
        BY <2>1
      <3>2. c \in DOMAIN Categories
        BY <3>1, CategoriesAre
      <3>3. a.node \in Categories[c]
        BY <3>1, <3>2, CategoriesAre
      <3> QED
        BY <3>2, <3>3
    <2>4. ASSUME NEW x \in UNION {Categories[c] : c \in DOMAIN Categories}
          PROVE  x \in {a.node : a \in analyses}
      BY <2>2
    <2>5. ASSUME NEW x \in {a.node : a \in analyses}
          PROVE  x \in UNION {Categories[c] : c \in DOMAIN Categories}
      BY <2>3
    <2> QED
      BY <2>4, <2>5
  <1>2. ASSUME Inv, Pending, events = <<>>, NEW c \in DOMAIN Categories, NEW a \in analyses, a.node \in Categories[c]
        PROVE  c \in categorizeSchedulingFailure(a.reasons, events)
    <2>1. PICK b \in analyses : b.node = a.node /\ c \in categorizeSchedulingFailure(b.reasons, events)
      BY <1>2, CategoriesAre
    <2>2. b = a
      BY <1>2, <2>1 DEF Inv, OneEach
    <2> QED
      BY <2>1, <2>2
  <1>3. ASSUME Inv, Pending, events = <<>>, NEW c \in DOMAIN Categories, NEW a \in analyses, a.node \in Categories[c]
        PROVE  CASE c = "NodeNotReady" -> Listed(a.node).ready # "True"
                 [] c = "TaintTolerationMismatch" -> Listed(a.node).taints # {}
                 [] c = "PodAffinityConflict" -> a.conflicts # {}
                 [] c = "NodeAffinityNotMatch" -> pod.selector # {} \/ pod.required # {} \/ pod.claims # {}
                 [] c = "Miscellaneous" -> \A d \in DOMAIN Categories : a.node \in Categories[d] => d = c
    <2>1. \/ c \in ReasonCategories(a.reasons)
          \/ c = "Miscellaneous" /\ ReasonCategories(a.reasons) = {}
      BY <1>2, <1>3, CategoriesOf
    <2>2. Sound(a)
      BY <1>3 DEF Inv, AllSound
    <2>3. CASE c \in ReasonCategories(a.reasons)
      <3>1. \/ c = "NodeNotReady" /\ Listed(a.node).ready # "True"
            \/ c = "NodeAffinityNotMatch" /\ (pod.selector # {} \/ pod.required # {} \/ pod.claims # {})
            \/ c = "TaintTolerationMismatch" /\ Listed(a.node).taints # {}
            \/ c = "PodAffinityConflict" /\ a.conflicts # {}
        <4>1. \/ c = "NodeNotReady" /\ "notReady" \in a.reasons
              \/ c = "NodeAffinityNotMatch" /\ a.reasons \cap {"affinity", "selector", "volumeAffinity"} # {}
              \/ c = "TaintTolerationMismatch" /\ "taints" \in a.reasons
              \/ c = "PodAffinityConflict" /\ "antiAffinity" \in a.reasons
          BY <2>3, ReasonCategoriesAre
        <4>2. /\ "antiAffinity" \in a.reasons => a.conflicts # {}
              /\ "notReady" \in a.reasons => Listed(a.node).ready # "True"
              /\ "taints" \in a.reasons => Listed(a.node).taints # {}
              /\ a.reasons \cap {"affinity", "selector", "volumeAffinity"} # {} =>
                   pod.selector # {} \/ pod.required # {} \/ pod.claims # {}
          BY <2>2, Zenon DEF Sound
        <4> QED
          BY <4>1, <4>2
      <3> QED
        BY <3>1
    <2>4. CASE c = "Miscellaneous" /\ ReasonCategories(a.reasons) = {}
      <3>1. \A d \in DOMAIN Categories : a.node \in Categories[d] => d = c
        BY <1>2, <1>3, <2>4, CategoriesOf
      <3> QED
        BY <2>4, <3>1
    <2> QED
      BY <2>1, <2>3, <2>4
  <1>4. Inv => CategoriesFitNodes
    BY <1>1, <1>3 DEF CategoriesFitNodes
  <1> QED
    BY <1>4, Invariance, PTL

-----------------------------------------------------------------------------

\* Two disjoint parts that leave an element out do not add up to the whole.
LEMMA PartsCount ==
  ASSUME NEW A, IsFiniteSet(A), NEW T \in SUBSET A, NEW R \in SUBSET A, T \cap R = {}, NEW x \in A, x \notin T \cup R
  PROVE  Cardinality(T) # Cardinality(A) - Cardinality(R)
  <1>1. IsFiniteSet(T) /\ IsFiniteSet(R) /\ IsFiniteSet(T \cup R)
    BY FS_Subset, FS_Union
  <1>2. Cardinality(T) \in Nat /\ Cardinality(R) \in Nat /\ Cardinality(A) \in Nat /\ Cardinality(T \cup R) \in Nat
    BY <1>1, FS_CardinalityType
  <1>3. Cardinality(T \cup R) = Cardinality(T) + Cardinality(R)
    <2>1. Cardinality(T \cup R) = Cardinality(T) + Cardinality(R) - Cardinality(T \cap R)
      BY <1>1, FS_Union
    <2>2. Cardinality(T \cap R) = 0
      BY FS_EmptySet
    <2> QED
      BY <1>2, <2>1, <2>2
  <1>4. Cardinality(T \cup R) # Cardinality(A)
    <2>1. T \cup R \in SUBSET A /\ T \cup R # A
      OBVIOUS
    <2> QED
      BY <2>1, FS_Subset
  <1> QED
    BY <1>2, <1>3, <1>4

\* The analyses counted by the advice.
LEMMA InHaving ==
  ASSUME NEW reasons, NEW a \in Having(reasons)
  PROVE  a \in analyses /\ \E r \in reasons : r \in a.reasons
  BY DEF Having

\* What each piece of advice rests on.
LEMMA AdviceMeans ==
  ASSUME NEW taken, NEW list, NEW advice, advice = generateSchedulingRecommendation(taken, list)
  PROVE  /\ advice = "resources" => Having({"Resources"}) = analyses
         /\ advice = "affinity" => Having({"NodeSelector", "NodeAffinity"}) = analyses
         /\ advice = "taints" =>
              /\ Having({"Taints"}) # {}
              /\ Cardinality(Having({"Taints"})) = Cardinality(analyses) - Cardinality(Having({"NodeReady"}))
  BY DEF generateSchedulingRecommendation

\* What is proposed follows from the reasons, and from what is short.
LEMMA ActionsMean ==
  ASSUME NEW a \in analyses
  PROVE  /\ a.short # {} => "scaleUp" \in generatePossibleActions
         /\ "NodeSelector" \in a.reasons => "modifySelector" \in generatePossibleActions
         /\ "NodeAffinity" \in a.reasons => "modifyAffinity" \in generatePossibleActions
         /\ "Taints" \in a.reasons => "addTolerations" \in generatePossibleActions
  <1> DEFINE actions(b) ==
        When(b.short # {}, {"reduceRequests", "scaleUp", "autoscaler"})
          \cup When("NodeSelector" \in b.reasons, {"modifySelector", "labelNodes"})
          \cup When("NodeAffinity" \in b.reasons, {"modifyAffinity", "addNodes"})
          \cup When("Taints" \in b.reasons, {"addTolerations", "removeTaints"})
          \cup When("Volume" \in b.reasons, {"bindClaims", "checkVolumes", "otherClass"})
  <1>1. generatePossibleActions = UNION {actions(b) : b \in analyses}
    BY DEF generatePossibleActions
  <1>2. /\ a.short # {} => "scaleUp" \in actions(a)
        /\ "NodeSelector" \in a.reasons => "modifySelector" \in actions(a)
        /\ "NodeAffinity" \in a.reasons => "modifyAffinity" \in actions(a)
        /\ "Taints" \in a.reasons => "addTolerations" \in actions(a)
    BY InWhen
  <1> HIDE DEF actions
  <1>3. actions(a) \subseteq generatePossibleActions
    BY <1>1
  <1> QED
    BY <1>2, <1>3

\* The advice that no node will do is given although a node would do only when a
\* node that is not ready is also tainted; and what it names is among the actions.
THEOREM DespairJustified == Spec => []DespairIsJustified
  <1>1. ASSUME Inv, analyses # {}, NEW advice, advice = generateSchedulingRecommendation(status = "Scheduled", events)
        PROVE  /\ advice \in {"resources", "affinity", "taints"} /\ (\E a \in analyses : a.reasons = {}) =>
                    /\ advice = "taints"
                    /\ \E a \in analyses : {"Taints", "NodeReady"} \subseteq a.reasons
               /\ advice = "resources" => "scaleUp" \in generatePossibleActions
               /\ advice = "affinity" => generatePossibleActions \cap {"modifySelector", "modifyAffinity"} # {}
               /\ advice = "taints" => "addTolerations" \in generatePossibleActions
    <2>1. PICK some \in analyses : TRUE
      BY <1>1
    <2>2. ASSUME advice = "resources"
          PROVE  /\ \A a \in analyses : a.reasons # {}
                 /\ "scaleUp" \in generatePossibleActions
      <3>0. Having({"Resources"}) = analyses
        BY <1>1, <2>2, AdviceMeans
      <3>1. \A a \in analyses : "Resources" \in a.reasons
        BY <3>0, InHaving
      <3>2. some.short # {}
        BY <1>1, <3>1 DEF Inv, AllSound, Sound
      <3> QED
        BY <3>1, <3>2, ActionsMean
    <2>3. ASSUME advice = "affinity"
          PROVE  /\ \A a \in analyses : a.reasons # {}
                 /\ generatePossibleActions \cap {"modifySelector", "modifyAffinity"} # {}
      <3>0. Having({"NodeSelector", "NodeAffinity"}) = analyses
        BY <1>1, <2>3, AdviceMeans
      <3>1. \A a \in analyses : "NodeSelector" \in a.reasons \/ "NodeAffinity" \in a.reasons
        BY <3>0, InHaving
      <3> QED
        BY <3>1, ActionsMean
    <2>4. ASSUME advice = "taints"
          PROVE  "addTolerations" \in generatePossibleActions
      <3>0. Having({"Taints"}) # {}
        BY <1>1, <2>4, AdviceMeans
      <3>1. PICK a \in analyses : "Taints" \in a.reasons
        BY <3>0, InHaving
      <3> QED
        BY <3>1, ActionsMean
    <2>5. ASSUME advice = "taints", NEW a \in analyses, a.reasons = {}
          PROVE  \E b \in analyses : {"Taints", "NodeReady"} \subseteq b.reasons
      <3> DEFINE T == Having({"Taints"})
                 R == Having({"NodeReady"})
      <3>1. Cardinality(T) = Cardinality(analyses) - Cardinality(R)
        BY <1>1, <2>5, AdviceMeans
      <3>2. T \in SUBSET analyses /\ R \in SUBSET analyses /\ a \notin T \cup R
        BY <2>5 DEF Having
      <3>3. IsFiniteSet(analyses)
        BY <1>1 DEF Inv, OneEach
      <3>4. \A b \in T \cap R : {"Taints", "NodeReady"} \subseteq b.reasons
        BY DEF Having
      <3> HIDE DEF T, R
      <3>5. T \cap R # {}
        BY <2>5, <3>1, <3>2, <3>3, PartsCount
      <3> QED
        BY <3>2, <3>4, <3>5
    <2> QED
      BY <2>2, <2>3, <2>4, <2>5
  <1>2. Inv => DespairIsJustified
    BY <1>1 DEF DespairIsJustified
  <1> QED
    BY <1>2, Invariance, PTL
===============================================================================
