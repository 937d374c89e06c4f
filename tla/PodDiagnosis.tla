----------------------------- MODULE PodDiagnosis -----------------------------
(***************************************************************************)
(* Two requests about one pod in trouble: its failure events and then its  *)
(* health score, by two services with tables of their own.  The pod goes   *)
(* on meanwhile, between the two requests and within each.                 *)
(***************************************************************************)
EXTENDS FailureEvents, HealthScore

vars == <<world, failureEvents, healthScore>>

Init == WorldInit /\ FailureInit /\ ScoreInit

Happen ==
  /\ hsPc \notin {"done", "failed"}
  /\ WorldNext
  /\ UNCHANGED <<failureEvents, healthScore>>

ListFailures == FailureNext /\ UNCHANGED <<world, healthScore>>

Score == fePc \in {"done", "failed"} /\ ScoreNext /\ UNCHANGED <<world, failureEvents>>

Answered == hsPc \in {"done", "failed"} /\ UNCHANGED vars

Next == Happen \/ ListFailures \/ Score \/ Answered

Spec == Init /\ [][Next]_vars

(***************************************************************************)
(* Properties.                                                             *)
(***************************************************************************)

\* The types; no pod scores below 18, and all scores have a status.
TypeOK ==
  /\ fePc \in {"pod", "events", "done", "failed"} /\ hsPc \in {"pod", "events", "done", "failed"}
  /\ \A e \in events : e.type \in {"Normal", "Warning"} /\ e.last <= now /\ e.count \in Nat
  /\ \A c \in Containers : pod.containers[c].state \in {"running", "waiting", "failed", "completed"}
  /\ \A f \in failure.failureEvents : f.severity \in {"critical", "warning"}
  /\ score.overallScore \in 18..100
  /\ \A k \in DOMAIN score.components : score.components[k] \in 0..100

\* No pattern, but two different ones are part of it.
Compound(reason) ==
  reason \notin DOMAIN FailurePatterns /\ \E x, y \in Contained(reason) : x # y

\* The map of patterns is ranged over, and the first pattern that is part of an event's
\* reason decides.  For the reasons in the map that leaves the severity as it is, hence
\* also the counts by severity and the ongoing issues; the category depends on it only
\* for an ImagePullBackOff, the causes and the suggested action also for a
\* CrashLoopBackOff, as both contain BackOff.  Of the other reasons it decides nothing
\* about one with a single pattern in it (analyzeFailureEvents).
OrderDecidesOnlyAdvice ==
  \A f \in failure.failureEvents :
    \A v \in Verdicts(f.event) :
      \/ Compound(f.event.reason)
      \/ /\ v.severity = f.severity
         /\ v.category # f.category => f.event.reason = "ImagePullBackOff"
         /\ v.advice # f.advice => f.event.reason \in {"CrashLoopBackOff", "ImagePullBackOff"}

\* README.md: "`ImagePull`: Image pull errors (ImagePullBackOff, ErrImagePull)".
PullErrorsAreImagePull ==
  \A f \in failure.failureEvents :
    f.event.reason \in {"ImagePullBackOff", "ErrImagePull"} => f.category = "ImagePull"

\* A warning that every pattern in its reason makes critical, and that occurred before
\* the request and less than five minutes before its answer, is an ongoing issue, unless
\* the events could not be listed, or the limit of the list was reached, or the event
\* carries no LastTimestamp (getPodEvents, identifyOngoingIssues).
OngoingIsComplete ==
  fePc = "done" /\ ~feMissed =>
    \A e \in feAt :
      /\ Contained(e.reason) # {} /\ (\A x \in Contained(e.reason) : FailurePatterns[x][2] = "critical")
      /\ e.type = "Warning" /\ e.last > now - 5
      => \/ \E g \in failure.ongoingIssues : g.reason = e.reason
         \/ failure.totalEvents = Limit

RecentWarnings == {e \in hsSeen : e.type = "Warning" /\ e.last >= now - Day}

\* What a status of "Healthy" excludes, though it is a weighted sum in which every
\* component can make up for another: more than five restarts or more than one an hour;
\* a container that waits or failed; a warning of the last day that the score rates
\* below a failed probe; less than 88 of 100 containers ready, which of up to eight is
\* one that is not, unless another completed, which keeps the state score from counting
\* ready ones.  A failed probe of the last day leaves just the 90 points that it takes,
\* so then nothing else may be amiss: no restart, and every container ready and, if it
\* runs, running for 95 of 100 parts of the pod's age.  And a pod that is not scheduled,
\* whose one false condition costs 10.5 points, has no warning of the last day with a time.
\* It does not exclude that nothing runs: a bound pod of which the kubelet has not
\* reported a status loses points by its events only, and none of them is ready.
HealthyMeans ==
  hsPc = "done" /\ score.status = "Healthy" =>
    /\ TotalRestarts(hsPod) <= 5
    /\ TotalRestarts(hsPod) > 0 => TotalRestarts(hsPod) * 60 <= now
    /\ \A s \in Statuses(hsPod) : s.state \in {"running", "completed"}
    /\ \/ ~hsPod.reported \/ \E s \in Statuses(hsPod) : s.state = "completed"
       \/ 100 * Cardinality({c \in Containers : hsPod.containers[c].ready}) >= 88 * Cardinality(Containers)
    /\ \A e \in RecentWarnings :
         /\ e.reason \notin {"Failed", "FailedScheduling", "FailedMount", "BackOff", "CrashLoopBackOff"}
         /\ hsPod.scheduled
         /\ e.reason = "Unhealthy" =>
              /\ TotalRestarts(hsPod) = 0
              /\ \A s \in Statuses(hsPod) :
                   s.ready /\ (s.state = "running" => 100 * (now - s.started) >= 95 * now)

\* A critical warning of the last day that the first request reported lowers the score
\* in the second, if that had the events; and the pod is not "Healthy" then, except for
\* the reasons the two tables do not share.  The score takes these for any warning, and
\* so it does with a reason that is no pattern but contains one, such as the kubelet's
\* FailedMountOnFilesystemMismatch: the report searches the reason, the score compares it.
CriticalIssueLowersScore ==
  hsPc = "done" /\ hsSeen # {} =>
    \A f \in Critical(failure.failureEvents) :
      f.event.type = "Warning" /\ f.event.last >= now - Day =>
        /\ score.components["events"] <= 70
        /\ score.status = "Healthy" =>
             \/ f.event.reason \in {"FailedAttachVolume", "ErrImagePull", "ImagePullBackOff", "OOMKilled"}
             \/ f.event.reason \notin DOMAIN FailurePatterns

\* A container that stops raises the state score only where all containers ran and
\* one was not ready: the score then no longer counts the ready ones.
ExitRaisesScoreOnlyIfUnready ==
  [][(\E c \in Containers : pod.containers[c].state = "running" /\ pod'.containers[c].state # "running")
       /\ ContainerStateScore(pod') > ContainerStateScore(pod) =>
         /\ \A c \in Containers : pod.containers[c].state = "running"
         /\ \E c \in Containers : ~pod.containers[c].ready]_vars
===============================================================================
