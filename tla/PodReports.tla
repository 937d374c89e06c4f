------------------------------ MODULE PodReports ------------------------------
(***************************************************************************)
(* Two reports about the same pods: somebody looks at the dashboard of a   *)
(* namespace and then asks for the namespace's errors.  The two services   *)
(* have an analyzePod each, written apart from one another.                *)
(***************************************************************************)
EXTENDS ClusterIssues

CONSTANTS Threshold, EventsLimit, \* of NamespaceErrors
          MaxFollowed             \* bound: pods in a cluster with two requests

VARIABLES listed, nsStep, nsTodo, report

NS == INSTANCE NamespaceErrors

\* What the two services take for granted of a v1.Pod.
IsPod(p) ==
  /\ DOMAIN p = {"name", "namespace", "labels", "phase", "age", "scheduling", "evicted", "notReady",
                 "containers", "initContainers", "owners", "warnings"}
  /\ p.age \in {"new", "recent", "old"}
  /\ p.scheduling \in {"ok", "Insufficient", "insufficient", "unschedulable", "other"}
  /\ IsFiniteSet(p.containers) /\ IsFiniteSet(p.initContainers)
  /\ \A c \in p.containers \cup p.initContainers : c.restarts \in Nat
  /\ IsFiniteSet(p.warnings) /\ \A w \in p.warnings : w.minutes \in Nat

ASSUME ReportsAssumption ==
  /\ \A p \in Pods : IsPod(p)
  /\ Threshold \in Int /\ EventsLimit \in Nat

dashboard == <<cluster, namespace, severityFilter, step, todo, allIssues, issuePatterns, issues>>
namespaceErrors == <<listed, nsStep, nsTodo, report>>

ReportsInit == Init /\ NS!Init

Older(p) == [p EXCEPT !.age = "old"]

\* The second request is for the namespace of the first, which showed all
\* severities; meanwhile at most one pod has aged or gone.  (Bound: only where the
\* cluster has few pods and no other namespace has one.)
Follow ==
  /\ step = "done" /\ namespace # "" /\ severityFilter = ""
  /\ Listed = cluster /\ Cardinality(cluster) <= MaxFollowed
  /\ \E p \in Listed : \E now \in {{}, {p}, {Older(p)}} : NS!List((Listed \ {p}) \cup now)
  /\ UNCHANGED dashboard

ReportsNext ==
  \/ Next /\ UNCHANGED namespaceErrors
  \/ Follow
  \/ NS!Next /\ UNCHANGED dashboard

ReportsSpec == ReportsInit /\ [][ReportsNext]_<<dashboard, namespaceErrors>>

(***************************************************************************)
(* Properties.                                                             *)
(***************************************************************************)

Owned == NS!filterPodsByOwner(listed)
Problems(S) == {p \in S : NS!analyzePod(p) # {}}
IssuesIn(S) == UNION {{p} \X NS!analyzePod(p) : p \in S}

\* After every pod the counters of the namespace's report and its summary are those
\* of the pods analysed so far: an issue type that two pods, or two containers of one
\* pod, have in common is neither lost nor counted twice, and no pod is healthy and
\* problematic (GetNamespaceErrors).
ReportAddsUp ==
  LET all == IssuesIn(Owned \ nsTodo)
  IN  /\ report.totalPodsAnalyzed = Cardinality(Owned)
      /\ report.problematicPodsCount = Cardinality(Problems(Owned \ nsTodo))
      /\ report.criticalIssuesCount + report.warningIssuesCount = Cardinality(all)
      /\ DOMAIN report.summary = {x[2].type : x \in all}
      /\ \A t \in DOMAIN report.summary :
           LET own == {x \in all : x[2].type = t}
           IN  /\ report.summary[t].count = Cardinality(own)
               /\ report.summary[t].affectedPods = {x[1].name : x \in own}
      /\ nsStep = "done" /\ Owned # {} => report.healthyPodsCount = Cardinality(Owned \ Problems(Owned))

\* The finished report starts with what is worst: no pod that has a critical issue, be
\* it only its restarts, init containers' included, stands below one that just has
\* warnings, and of two such pods the one that restarted more often comes first.
WorstFirst ==
  nsStep = "done" =>
    LET entry(i) == CHOOSE e \in report.problematicPods : e.name = report.order[i]
        critical(i) == \/ entry(i).restartCount > Threshold
                       \/ \E issue \in entry(i).issues : issue.severity = "critical"
    IN  /\ {report.order[i] : i \in DOMAIN report.order} = {e.name : e \in report.problematicPods}
        /\ \A i, j \in DOMAIN report.order : i < j =>
             /\ critical(j) => critical(i)
             /\ critical(i) /\ critical(j) => entry(i).restartCount >= entry(j).restartCount

\* The events shown with a problematic pod are warnings of the last hour, and one
\* that is left out is older; or the call failed and there is none.
NewestEventsShown ==
  \A e \in report.problematicPods :
    LET p == CHOOSE q \in Owned : q.name = e.name
    IN  /\ \A f \in e.events : f.minutes < 60
        /\ e.events # {} =>
             \A w \in p.warnings \ e.events : w.minutes < 60 =>
               Cardinality(e.events) = EventsLimit /\ \A f \in e.events : f.minutes <= w.minutes

\* The dashboard's category for an issue of the namespace's report.
CategoryOf(type) ==
  CASE type \in {"Pending", "ResourceConstraints", "Unschedulable"} -> {"PendingScheduling"}
    [] type = "Failed"       -> {"Failed", "OOMKilled"}
    [] type = "HighRestarts" -> Category
    [] OTHER                 -> {type}

\* The two reports agree about a pod that did not change in between.  What the
\* namespace's report finds, the dashboard shows under the category that goes with it
\* and for the same container; of many restarts it may show nothing, as it asks for
\* more than five of one container.  A lack of resources is critical in both only if
\* the scheduler's message spells "Insufficient" with a capital: the dashboard searches
\* the message as it is, the namespace's report in lower case, so for the rest the
\* dashboard just warns; and what the dashboard calls critical of a pod that has been
\* pending for five minutes is a lack of resources there too.  What else is critical on
\* the dashboard and not in the namespace's report is what that report does not look at:
\* a pod pending for less than five minutes or failed as a whole, an init container, a
\* bad configuration; or a container out of memory, which there is a warning.
ReportsAgree ==
  nsStep \in {"analyze", "done"} /\ Owned # {} =>
    \A p \in (Owned \ nsTodo) \cap cluster :
      LET shown  == {i \in allIssues : i.pod = p}
          entry  == {e \in report.problematicPods : e.name = p.name}
          nsOwn  == UNION {e.issues : e \in entry}
      IN  /\ \A i \in nsOwn : i.type # "HighRestarts" =>
               \E j \in shown : j.category \in CategoryOf(i.type) /\ j.where = i.where
          /\ \A i \in nsOwn : i.type = "ResourceConstraints" =>
               \E j \in shown : /\ j.category = "PendingScheduling"
                                /\ j.severity = "critical" <=> p.scheduling = "Insufficient"
          /\ \A j \in shown : j.category = "PendingScheduling" /\ j.severity = "critical" /\ p.age = "old" =>
               \E i \in nsOwn : i.type = "ResourceConstraints"
          /\ \A j \in shown : j.severity = "critical" /\ ~(\E i \in nsOwn : i.where = j.where /\ i.severity = "critical") =>
               \/ j.category = "PendingScheduling" /\ p.age = "recent"
               \/ j.category = "Failed" /\ p.phase = "Failed"
               \/ j.category \in {"InitContainerError", "ConfigurationError"}
               \/ j.category = "OOMKilled" /\ \E i \in nsOwn : i.type = "Failed" /\ i.where = j.where
===============================================================================
