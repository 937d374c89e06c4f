---------------------------- MODULE ClusterIssues ----------------------------
(***************************************************************************)
(* The dashboard of the cluster's pod issues: clusterIssuesService of      *)
(* internal/kubernetes/cluster_issues_service.go, from the list of pods to *)
(* the report, which is built pod by pod.                                  *)
(*                                                                         *)
(* A pod is a record with a name, a namespace, labels (a set of <<key,     *)
(* value>>), and what the analyses look at: its phase, its age ("new" for  *)
(* 30 s, "recent" for 5 min, then "old"), whether it is evicted or has not *)
(* been ready for 5 min, what its scheduling condition says, its           *)
(* containers and init containers, and for NamespaceErrors its owners and  *)
(* warnings.  The condition is "ok" unless it is false; else it is what    *)
(* the analyses look for in its message, "Insufficient" as the scheduler   *)
(* spells it, "insufficient" and "unschedulable" if some letter is in      *)
(* another case, or "other".  Times are hours ago as far as the two        *)
(* cutoffs tell them apart: 0 is within the last hour, 1 within the last   *)
(* day, 2 is older.                                                        *)
(***************************************************************************)
EXTENDS Integers, FiniteSets

CONSTANTS Pods,          \* pods that may exist
          MaxPods,       \* bound: how many exist at once
          Asked,         \* values of the parameter namespace; "" lists every one
          TopLimit,      \* 10: how many top issues are shown
          PatternMin,    \* 3: how many issues make a pattern
          PatternLimit,  \* 5: how many patterns are shown
          CriticalLimit  \* 20: how many critical issues are shown

ASSUME PodsAssumption ==
  /\ IsFiniteSet(Pods)
  /\ \A p, q \in Pods : p.name = q.name => p = q
  /\ MaxPods \in Nat /\ TopLimit \in Nat /\ PatternMin \in Nat \ {0}
  /\ PatternLimit \in Nat /\ CriticalLimit \in Nat

\* A pod has finitely many containers, and one value for each label.
ASSUME ContainersAssumption ==
  \A p \in Pods :
    /\ IsFiniteSet(p.containers) /\ IsFiniteSet(p.initContainers)
    /\ \A c \in p.containers : c.finished \in Nat
    /\ \A l, m \in p.labels : l[1] = m[1] => l = m

VARIABLES cluster,        \* the pods in the cluster when it is listed
          namespace,      \* the parameters of the request
          severityFilter,
          step,           \* "list", "analyze", "done" or "failed"
          todo,           \* the rest of pods.Items
          allIssues,
          issuePatterns,  \* from a category and a reason to a pattern
          issues          \* the report: models.ClusterIssues

vars == <<cluster, namespace, severityFilter, step, todo, allIssues, issuePatterns, issues>>

Severity == {"critical", "warning", "info"}
Category == {"CrashLoopBackOff", "ImagePullError", "ConfigurationError", "PendingScheduling",
             "OOMKilled", "Evicted", "Failed", "Unhealthy", "InitContainerError"}
SeverityWeight == [critical |-> 3, warning |-> 2, info |-> 1]

When(condition, S) == IF condition THEN S ELSE {}

(***************************************************************************)
(* analyzePod: the issues of one pod.                                      *)
(***************************************************************************)

\* A models.ClusterPodIssue of pod p; where names its container.
Issue(p, where, category, severity, reason, lastSeen) ==
  [pod |-> p, where |-> where, category |-> category, severity |-> severity,
   reason |-> reason, lastSeen |-> lastSeen]

\* The message is searched as it is spelt.
analyzePendingPod(p) ==
  When(p.age # "new",
       {Issue(p, "pod", "PendingScheduling",
              IF p.scheduling = "Insufficient" THEN "critical" ELSE "warning",
              IF p.scheduling = "ok" THEN "PendingScheduling" ELSE "Unschedulable", 0)})

\* Mutant of WaitingIssue: the switch has no default.
WaitingIssue_NoDefault(p, c) ==
  LET kind == CASE c.reason = "CrashLoopBackOff" -> <<"CrashLoopBackOff", "critical">>
                [] c.reason \in {"ImagePullBackOff", "ErrImagePull"} -> <<"ImagePullError", "critical">>
                [] c.reason = "CreateContainerConfigError" -> <<"ConfigurationError", "critical">>
                [] OTHER -> <<"", "">>
  IN  Issue(p, c.name, kind[1], kind[2], c.reason, 0)

\* The switch over the reason a container waits for.
WaitingIssue(p, c) ==
  LET kind == CASE c.reason = "CrashLoopBackOff" -> <<"CrashLoopBackOff", "critical">>
                [] c.reason \in {"ImagePullBackOff", "ErrImagePull"} -> <<"ImagePullError", "critical">>
                [] c.reason = "CreateContainerConfigError" -> <<"ConfigurationError", "critical">>
                [] OTHER -> <<"Unhealthy", "warning">>
  IN  Issue(p, c.name, kind[1], kind[2], c.reason, 0)

\* A container's state is one of running, waiting and terminated, so at most one
\* of the three ifs adds an issue.
analyzeContainerStatus(p, c) ==
  CASE c.state = "waiting" -> {WaitingIssue(p, c)}
    [] c.state = "failed"  -> {IF c.reason = "OOMKilled"
                               THEN Issue(p, c.name, "OOMKilled", "critical", c.reason, c.finished)
                               ELSE Issue(p, c.name, "Failed", "warning", c.reason, c.finished)}
    [] OTHER -> When(c.restarts > 5, {Issue(p, c.name, "Unhealthy", "warning", "HighRestartCount", 0)})

analyzePod(p) ==
  UNION {
    When(p.phase = "Pending", analyzePendingPod(p)),
    When(p.phase = "Failed", {Issue(p, "pod", "Failed", "critical", "Failed", 0)}),
    When(p.evicted, {Issue(p, "pod", "Evicted", "warning", "Evicted", 0)}),
    UNION {analyzeContainerStatus(p, c) : c \in p.containers},
    {Issue(p, c.name, "InitContainerError", "critical", c.reason, 0) :
       c \in {i \in p.initContainers : i.state \in {"waiting", "failed"}}},
    When(p.notReady, {Issue(p, "pod", "Unhealthy", "warning", "NotReady", 0)})}

(***************************************************************************)
(* The loop of GetClusterIssues.                                           *)
(***************************************************************************)

Of(S, category) == {i \in S : i.category = category}
As(S, severity) == {i \in S : i.severity = severity}
SeenIn(S, hours) == {i \in S : i.lastSeen < hours}
KeyOf(i) == <<i.category, i.reason>>
WithKey(S, key) == {i \in S : KeyOf(i) = key}
KeysOf(S) == {KeyOf(i) : i \in S}

\* Mutant of NamespaceEntry: the namespace's entry is made anew for every pod.
NamespaceEntry_Fresh(n, podIssues) ==
  [totalPods |-> 1, issuesCount |-> Cardinality(podIssues),
   criticalCount |-> Cardinality(As(podIssues, "critical")),
   warningCount |-> Cardinality(As(podIssues, "warning"))]

\* nsIssues: the zero value if the map has none.
NamespaceEntry(n, podIssues) ==
  LET old == IF n \in DOMAIN issues.byNamespace THEN issues.byNamespace[n]
             ELSE [totalPods |-> 0, issuesCount |-> 0, criticalCount |-> 0, warningCount |-> 0]
  IN  [totalPods     |-> old.totalPods + 1,
       issuesCount   |-> old.issuesCount + Cardinality(podIssues),
       criticalCount |-> old.criticalCount + Cardinality(As(podIssues, "critical")),
       warningCount  |-> old.warningCount + Cardinality(As(podIssues, "warning"))]

\* Mutant of MergeLabels: a label with another value is overwritten, not deleted.
MergeLabels_Overwrite(common, labels) ==
  {l \in common : \A m \in labels : m[1] # l[1]} \cup
  {m \in labels : \E l \in common : m[1] = l[1]}

\* Of the labels in common, those that the pod has with another value go.
MergeLabels(common, labels) ==
  {l \in common : \A m \in labels : m[1] = l[1] => m[2] = l[2]}

\* detectPatterns, for all issues of pod p with a key.
Pattern(key, p, podIssues) ==
  LET count == Cardinality(WithKey(podIssues, key))
      old   == issuePatterns[key]
  IN  CASE key \notin KeysOf(podIssues) -> old
        [] key \notin DOMAIN issuePatterns ->
             [count |-> count, namespaces |-> {p.namespace}, commonLabels |-> p.labels]
        [] OTHER ->
             [count |-> old.count + count, namespaces |-> old.namespaces \cup {p.namespace},
              commonLabels |-> MergeLabels(old.commonLabels, p.labels)]

\* Pods(namespace).List: "" stands for every namespace, any other value, "all"
\* too, for the namespace of that name.  (The field selector says the same again.)
Listed == IF namespace = "" THEN cluster ELSE {p \in cluster : p.namespace = namespace}

NoIssues ==
  [totalPods |-> 0, healthyPods |-> 0, unhealthyPods |-> 0,
   categories |-> [c \in Category |-> 0], byNamespace |-> [n \in {} |-> 0],
   newLastHour |-> 0, newLast24h |-> 0, trend |-> "",
   critical |-> {}, top |-> {}, patterns |-> {}]

Init ==
  /\ cluster \in {C \in SUBSET Pods : Cardinality(C) <= MaxPods}
  /\ namespace \in Asked
  /\ severityFilter \in {""} \cup Severity
  /\ step = "list" /\ todo = {}
  /\ allIssues = {} /\ issuePatterns = [k \in {} |-> 0] /\ issues = NoIssues

List ==
  /\ step = "list"
  /\ \/ /\ step' = "analyze"
        /\ todo' = Listed
        /\ issues' = [issues EXCEPT !.totalPods = Cardinality(Listed)]
     \/ step' = "failed" /\ UNCHANGED <<todo, issues>>
  /\ UNCHANGED <<cluster, namespace, severityFilter, allIssues, issuePatterns>>

\* One turn of the loop; pods.Items may be in any order.
NextPod(p) ==
  LET podIssues == analyzePod(p)
  IN  /\ step = "analyze"
      /\ todo' = todo \ {p}
      /\ allIssues' = allIssues \cup podIssues
      /\ issuePatterns' = [k \in DOMAIN issuePatterns \cup KeysOf(podIssues) |-> Pattern(k, p, podIssues)]
      /\ issues' =
           IF podIssues = {} THEN [issues EXCEPT !.healthyPods = @ + 1]
           ELSE [issues EXCEPT
                   !.unhealthyPods = @ + 1,
                   !.categories  = [c \in Category |-> @[c] + Cardinality(Of(podIssues, c))],
                   !.critical    = @ \cup As(podIssues, "critical"),
                   !.newLastHour = @ + Cardinality(SeenIn(podIssues, 1)),
                   !.newLast24h  = @ + Cardinality(SeenIn(podIssues, 2)),
                   !.byNamespace = [n \in DOMAIN @ \cup {p.namespace} |->
                                      IF n = p.namespace THEN NamespaceEntry(n, podIssues) ELSE @[n]]]
      /\ UNCHANGED <<cluster, namespace, severityFilter, step>>

(***************************************************************************)
(* What follows the loop.                                                  *)
(***************************************************************************)

\* sort.Slice by a relation and a cut: sets that may be the first limit elements of
\* S.  Elements neither of which is before the other are in any order, as the sort is
\* not stable and the maps are ranged over.
FirstOf(limit, S, before) ==
  IF Cardinality(S) <= limit THEN {S}
  ELSE {T \in SUBSET S : Cardinality(T) = limit /\ \A x \in S \ T, y \in T : <<x, y>> \notin before}

filterBySeverity(S) == IF severityFilter = "" THEN S ELSE As(S, severityFilter)

\* One summary for each category and severity.
Summaries(S) ==
  {[category |-> i.category, severity |-> i.severity,
    count |-> Cardinality(As(Of(S, i.category), i.severity))] : i \in S}

\* Mutant of Heavier: the summaries are sorted by their count alone.
Heavier_ByCount(S) == {xy \in S \X S : xy[1].count > xy[2].count}

Heavier(S) ==
  {xy \in S \X S :
     IF xy[1].severity = xy[2].severity THEN xy[1].count > xy[2].count
     ELSE SeverityWeight[xy[1].severity] > SeverityWeight[xy[2].severity]}

MoreOften(S) == {xy \in S \X S : xy[1].count > xy[2].count}
Later(S) == {xy \in S \X S : xy[1].lastSeen < xy[2].lastSeen}

\* patterns with their keys, once there are enough of them.
Patterns ==
  {[key |-> k, count |-> issuePatterns[k].count, namespaces |-> issuePatterns[k].namespaces,
    commonLabels |-> issuePatterns[k].commonLabels] :
     k \in {j \in DOMAIN issuePatterns : issuePatterns[j].count >= PatternMin}}

\* ResolvedLastHour stays 0: nothing ever assigns it.
Trend == IF issues.newLastHour > 0 THEN "degrading" ELSE "stable"

Finish ==
  /\ step = "analyze" /\ todo = {}
  /\ step' = "done"
  /\ LET summaries == Summaries(filterBySeverity(allIssues))
     IN  \E top \in FirstOf(TopLimit, summaries, Heavier(summaries)),
            patterns \in FirstOf(PatternLimit, Patterns, MoreOften(Patterns)),
            critical \in FirstOf(CriticalLimit, issues.critical, Later(issues.critical)) :
           issues' = [issues EXCEPT !.top = top, !.patterns = patterns,
                                    !.critical = critical, !.trend = Trend]
  /\ UNCHANGED <<cluster, namespace, severityFilter, todo, allIssues, issuePatterns>>

\* The report, or the error, has been returned.
Returned == step \in {"done", "failed"} /\ UNCHANGED vars

Next == List \/ (\E p \in todo : NextPod(p)) \/ Finish \/ Returned

Spec == Init /\ [][Next]_vars

(***************************************************************************)
(* Properties.                                                             *)
(***************************************************************************)

\* The pods analysed so far, and all that is wrong with them.
Analysed == IF step \in {"analyze", "done"} THEN Listed \ todo ELSE {}
Truth == UNION {analyzePod(p) : p \in Analysed}
Affected(key) == {p \in Analysed : key \in KeysOf(analyzePod(p))}

\* The types; no issue is of a category or a severity the dashboard does not know.
TypeOK ==
  /\ cluster \subseteq Pods /\ namespace \in Asked /\ severityFilter \in {""} \cup Severity
  /\ step \in {"list", "analyze", "done", "failed"}
  /\ todo \subseteq cluster
  /\ \A i \in allIssues : i.category \in Category /\ i.severity \in Severity
  /\ issues.categories \in [Category -> Nat]
  /\ issues.totalPods \in 0..MaxPods

\* After every pod the counters of the report, which are kept in five places, are
\* those of the pods analysed so far, whatever their order: nothing is counted
\* twice or lost when a pod has several issues or a namespace several pods.
TalliesAgree ==
  /\ issues.totalPods = issues.healthyPods + issues.unhealthyPods + Cardinality(todo)
  /\ allIssues = Truth
  /\ issues.unhealthyPods = Cardinality({p \in Analysed : analyzePod(p) # {}})
  /\ \A c \in Category : issues.categories[c] = Cardinality(Of(Truth, c))
  /\ DOMAIN issues.byNamespace = {i.pod.namespace : i \in Truth}
  /\ \A n \in DOMAIN issues.byNamespace :
       LET entry == issues.byNamespace[n]
           own   == {i \in Truth : i.pod.namespace = n}
       IN  /\ entry.totalPods = Cardinality({i.pod : i \in own})
           /\ entry.issuesCount = Cardinality(own)
           /\ entry.criticalCount = Cardinality(As(own, "critical"))
           /\ entry.warningCount = entry.issuesCount - entry.criticalCount
  /\ issues.newLastHour <= issues.newLast24h /\ issues.newLast24h <= Cardinality(Truth)

\* A cut list leaves out only what matters less: no summary as severe and frequent
\* or more is missing while a lesser one is shown, and a critical issue that is
\* missing was not seen later than one that is shown.
CutsLeaveTheLeast ==
  step = "done" =>
    /\ \A s \in Summaries(filterBySeverity(Truth)) \ issues.top :
         /\ Cardinality(issues.top) = TopLimit
         /\ \A t \in issues.top :
              /\ SeverityWeight[t.severity] >= SeverityWeight[s.severity]
              /\ t.severity = s.severity => t.count >= s.count
    /\ \A i \in As(Truth, "critical") \ issues.critical :
         /\ Cardinality(issues.critical) = CriticalLimit
         /\ \A j \in issues.critical : j.lastSeen <= i.lastSeen

\* A pattern that is shown counts every issue of its key and names every namespace
\* of a pod that has one; its labels include all that these pods share, and none
\* that one of them has with another value, in whatever order they were met.
PatternsFaithful ==
  step = "done" =>
    \A pattern \in issues.patterns :
      /\ pattern.count = Cardinality(WithKey(Truth, pattern.key))
      /\ pattern.namespaces = {p.namespace : p \in Affected(pattern.key)}
      /\ \A l \in pattern.commonLabels, m \in UNION {p.labels : p \in Affected(pattern.key)} :
           m[1] = l[1] => m[2] = l[2]
      /\ \A l \in UNION {p.labels : p \in Affected(pattern.key)} :
           (\A p \in Affected(pattern.key) : l \in p.labels) => l \in pattern.commonLabels
==============================================================================
