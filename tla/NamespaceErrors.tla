---------------------------- MODULE NamespaceErrors ----------------------------
(***************************************************************************)
(* The error report of a namespace: namespaceService of                    *)
(* internal/core/services/namespace_service.go.  The pods are listed once; *)
(* then, pod by pod, one that has an issue costs a further call, for its   *)
(* recent events.                                                          *)
(*                                                                         *)
(* Pods are the records of ClusterIssues.  owners are the kinds of a pod's *)
(* owners, warnings its events of type Warning: records with a reason and  *)
(* the minutes since it was last seen.                                     *)
(***************************************************************************)
EXTENDS Integers, FiniteSets, Functions, SequencesExt

CONSTANTS Threshold,   \* POD_RESTART_THRESHOLD
          EventsLimit  \* 5: how many events of a pod are shown

VARIABLES listed,  \* pods.Items
          nsStep,  \* "idle", "list", "analyze", "done" or "failed"
          nsTodo,  \* the rest of filteredPods
          report   \* models.NamespaceErrorReport

vars == <<listed, nsStep, nsTodo, report>>

When(condition, S) == IF condition THEN S ELSE {}

PodIssueType == {"HighRestarts", "Pending", "Failed", "CrashLoopBackOff", "ImagePullError",
                 "ResourceConstraints", "Unschedulable"}

(***************************************************************************)
(* One pod.                                                                *)
(***************************************************************************)

\* A models.PodIssue; where names its container, which the description does.
Issue(where, type, severity) == [where |-> where, type |-> type, severity |-> severity]

filterPodsByOwner(pods) == {p \in pods : p.owners \cap {"ReplicaSet", "StatefulSet"} # {}}

\* The containers' restarts and the init containers'.
getTotalRestartCount(p) ==
  LET containers == p.containers \cup p.initContainers
  IN  SumFunctionOnSet([c \in containers |-> c.restarts], containers)

\* Mutant of PendingIssue: the message is searched as it is spelt.
PendingIssue_AsSpelt(p) ==
  Issue("pod", CASE p.scheduling = "insufficient"  -> "ResourceConstraints"
                 [] p.scheduling = "unschedulable" -> "Unschedulable"
                 [] OTHER                          -> "Pending", "critical")

\* The message is put into lower case before it is searched.
PendingIssue(p) ==
  Issue("pod", CASE p.scheduling \in {"Insufficient", "insufficient"} -> "ResourceConstraints"
                 [] p.scheduling = "unschedulable"                   -> "Unschedulable"
                 [] OTHER                                            -> "Pending", "critical")

\* Only what runs or ran: init containers are not looked at.
checkContainerStatuses(p) ==
  LET waiting(reasons) == {c \in p.containers : c.state = "waiting" /\ c.reason \in reasons}
  IN  {Issue(c.name, "CrashLoopBackOff", "critical") : c \in waiting({"CrashLoopBackOff"})}
        \cup {Issue(c.name, "ImagePullError", "critical") : c \in waiting({"ImagePullBackOff", "ErrImagePull"})}
        \cup {Issue(c.name, "Failed", "warning") : c \in {d \in p.containers : d.state = "failed"}}

analyzePod(p) ==
  When(getTotalRestartCount(p) > Threshold, {Issue("pod", "HighRestarts", "critical")})
    \cup When(p.phase = "Pending" /\ p.age = "old", {PendingIssue(p)})
    \cup checkContainerStatuses(p)

\* Mutant of getRecentPodEvents: the list is cut before it is sorted.
getRecentPodEvents_Unsorted(p) ==
  LET recent == {e \in p.warnings : e.minutes < 60}
  IN  {S \in SUBSET recent : S = recent \/ Cardinality(S) = EventsLimit}

\* What may be shown of the warnings of the last hour: all, or the newest.
getRecentPodEvents(p) ==
  LET recent == {e \in p.warnings : e.minutes < 60}
  IN  IF Cardinality(recent) <= EventsLimit THEN {recent}
      ELSE {S \in SUBSET recent : /\ Cardinality(S) = EventsLimit
                                  /\ \A e \in recent \ S, f \in S : f.minutes <= e.minutes}

(***************************************************************************)
(* The report.                                                             *)
(***************************************************************************)

Emptied == [totalPodsAnalyzed |-> 0, problematicPodsCount |-> 0, healthyPodsCount |-> 0,
            criticalIssuesCount |-> 0, warningIssuesCount |-> 0,
            summary |-> [t \in {} |-> 0], problematicPods |-> {}, order |-> <<>>]

Init ==
  /\ listed = {} /\ nsStep = "idle" /\ nsTodo = {} /\ report = Emptied

\* List: a namespace that is not there answers with the empty report.
List(pods) ==
  /\ nsStep = "idle"
  /\ \/ /\ listed' = pods /\ nsTodo' = filterPodsByOwner(pods)
        /\ nsStep' = "analyze"
        /\ report' = [report EXCEPT !.totalPodsAnalyzed = Cardinality(filterPodsByOwner(pods))]
     \/ nsStep' \in {"done", "failed"} /\ UNCHANGED <<listed, nsTodo, report>>

As(S, severity) == {i \in S : i.severity = severity}
OfType(S, t) == {i \in S : i.type = t}
TypesOf(S) == {i.type : i \in S}

\* Mutant of SummaryEntry: an entry that exists only counts on.
SummaryEntry_Count(t, p, podIssues) ==
  IF t \in DOMAIN report.summary
  THEN [count |-> report.summary[t].count + Cardinality(OfType(podIssues, t)),
        affectedPods |-> report.summary[t].affectedPods]
  ELSE [count |-> Cardinality(OfType(podIssues, t)), affectedPods |-> {p.name}]

\* The entry of issueSummary; a pod's name stands in it once for each issue.
SummaryEntry(t, p, podIssues) ==
  LET old == IF t \in DOMAIN report.summary THEN report.summary[t] ELSE [count |-> 0, affectedPods |-> {}]
      own == OfType(podIssues, t)
  IN  [count |-> old.count + Cardinality(own), affectedPods |-> old.affectedPods \cup When(own # {}, {p.name})]

\* One turn of the loop.  The events' error, the deadline's too, is dropped.
NextPod(p) ==
  LET podIssues == analyzePod(p)
  IN  /\ nsStep = "analyze"
      /\ nsTodo' = nsTodo \ {p}
      /\ IF podIssues = {} THEN UNCHANGED report
         ELSE \E events \in getRecentPodEvents(p) \cup {{}} :
                report' = [report EXCEPT
                  !.problematicPodsCount = @ + 1,
                  !.problematicPods = @ \cup {[name |-> p.name, restartCount |-> getTotalRestartCount(p),
                                               issues |-> podIssues, events |-> events]},
                  !.criticalIssuesCount = @ + Cardinality(As(podIssues, "critical")),
                  !.warningIssuesCount = @ + Cardinality(As(podIssues, "warning")),
                  !.summary = [t \in DOMAIN @ \cup TypesOf(podIssues) |-> SummaryEntry(t, p, podIssues)]]
      /\ UNCHANGED <<listed, nsStep>>

hasCriticalIssue(p) == As(p.issues, "critical") # {}

\* Mutant of Before: restarts count more than severity.
Before_Restarts(x, y) ==
  IF x.restartCount # y.restartCount THEN x.restartCount > y.restartCount
  ELSE hasCriticalIssue(x) /\ ~hasCriticalIssue(y)

\* The order of the problematic pods.
Before(x, y) ==
  IF hasCriticalIssue(x) # hasCriticalIssue(y) THEN hasCriticalIssue(x)
  ELSE x.restartCount > y.restartCount

\* After the loop.  The sort leaves equals in any order; the summary's order is left out.
Finish ==
  /\ nsStep = "analyze" /\ nsTodo = {}
  /\ nsStep' = "done"
  /\ \E order \in SetToSeqs(report.problematicPods) :
       /\ \A i, j \in DOMAIN order : i < j => ~Before(order[j], order[i])
       /\ report' = [report EXCEPT !.healthyPodsCount = report.totalPodsAnalyzed - report.problematicPodsCount,
                                   !.order = [i \in DOMAIN order |-> order[i].name]]
  /\ UNCHANGED <<listed, nsTodo>>

Next == (\E p \in nsTodo : NextPod(p)) \/ Finish
================================================================================
