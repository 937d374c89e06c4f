------------------------------ MODULE HealthScore ------------------------------
(***************************************************************************)
(* A pod's health score: healthScoreService of                             *)
(* internal/kubernetes/health_score_service.go.  The pod is read, then its *)
(* events; five components are scored and added up by weight.              *)
(*                                                                         *)
(* Scores are whole numbers; the ratios are compared by multiplication.    *)
(***************************************************************************)
EXTENDS PodWorld

VARIABLES hsPc,   \* "pod", "events", "done" or "failed"
          hsPod,  \* the pod as it was read
          hsSeen, \* history: the events that were listed, none if that failed
          score   \* models.PodHealthScore

healthScore == <<hsPc, hsPod, hsSeen, score>>

Day == 24 * 60

TotalRestarts(p) ==
  SumFunctionOnSet([c \in Containers |-> p.containers[c].restarts], IF p.reported THEN Containers ELSE {})

\* calculateRestartScore: halved above one restart an hour, but never below 10.
RestartScore(restarts, age) ==
  LET base == CASE restarts = 0 -> 100 [] restarts \in 1..2 -> 85 [] restarts \in 3..5 -> 70
                [] restarts \in 6..10 -> 50 [] restarts \in 11..20 -> 30 [] OTHER -> 10
  IN  IF restarts * 60 > age THEN Max({base \div 2, 10}) ELSE base

\* What a container that does not run lets the state score be at most.
StateCap(s) ==
  CASE s.state = "waiting" /\ s.reason \in {"CrashLoopBackOff", "Error"}        -> 20
    [] s.state = "waiting" /\ s.reason \in {"ImagePullBackOff", "ErrImagePull"} -> 30
    [] s.state = "failed" -> 40
    [] s.state = "waiting" /\ s.reason \notin {"CrashLoopBackOff", "Error", "ImagePullBackOff", "ErrImagePull"} -> 50
    [] OTHER -> 100

\* int(readyPercentage * 100), in floating point: the largest whole number that is not
\* greater; but 0.29, 0.57 and 0.58 times 100 are a little less than 29, 57 and 58.
Percentage(part, whole) ==
  LET q == (100 * part) \div whole
  IN  IF 100 * part = q * whole /\ q \in {29, 57, 58} THEN q - 1 ELSE q

\* Mutant of ContainerStateScore: the best cap of those that do not run.
ContainerStateScore_Max(p) ==
  LET ready == {c \in Containers : p.containers[c].ready}
  IN  IF ~p.reported THEN 100
      ELSE IF \A c \in Containers : p.containers[c].state = "running"
           THEN Percentage(Cardinality(ready), Cardinality(Containers))
           ELSE Max({StateCap(s) : s \in {r \in Statuses(p) : r.state # "running"}})

\* calculateContainerStateScore: the share of ready containers counts only where there
\* are statuses and all of them run; one that completed is not running either.
ContainerStateScore(p) ==
  LET ready == {c \in Containers : p.containers[c].ready}
  IN  IF ~p.reported THEN 100
      ELSE IF \A c \in Containers : p.containers[c].state = "running"
           THEN Percentage(Cardinality(ready), Cardinality(Containers))
           ELSE Min({100} \cup {StateCap(p.containers[c]) : c \in Containers})

EventCap(reason) ==
  CASE reason \in {"Failed", "FailedScheduling", "FailedMount"} -> 30
    [] reason \in {"BackOff", "CrashLoopBackOff"} -> 40
    [] reason = "Unhealthy" -> 50
    [] OTHER -> 70

\* Mutant of EventScore: the events of the last hour.
EventScore_Hour(list, t) ==
  Min({100} \cup {EventCap(e.reason) : e \in {f \in list : f.type = "Warning" /\ f.last >= t - 60}})

\* calculateEventScore: the worst warning of the last 24 hours.
EventScore(list, t) ==
  Min({100} \cup {EventCap(e.reason) : e \in {f \in list : f.type = "Warning" /\ f.last >= t - Day}})

ConditionCap == [Ready |-> 50, PodScheduled |-> 30, ContainersReady |-> 60, Initialized |-> 70]

\* calculatePodConditionScore
PodConditionScore(p) == Min({100} \cup {ConditionCap[x] : x \in FalseConditions(p)})

\* calculateUptimeScore: by the container that runs for the smallest part of the
\* pod's age; those that do not run are not looked at.
UptimeScore(p, t) ==
  LET running  == {s \in Statuses(p) : s.state = "running"}
      cap(s) == CASE 100 * (t - s.started) < 50 * t -> 50
                  [] 100 * (t - s.started) \in (50 * t)..(80 * t - 1) -> 70
                  [] 100 * (t - s.started) \in (80 * t)..(95 * t - 1) -> 85
                  [] OTHER -> 100
  IN  Min({100} \cup {cap(s) : s \in running})

Weight == [restarts |-> 30, containerStates |-> 25, events |-> 20, conditions |-> 15, uptime |-> 10]

Weighted(c) ==
  SumFunctionOnSet([k \in DOMAIN Weight |-> c[k] * Weight[k]], DOMAIN Weight)

\* calculateOverallScore, in the order of a map.  The weights are no binary fractions:
\* where the sum is a half, some orders give a little less, others not.  (With the
\* maps of Go 1.24, which are ranged over from a random place on, none gives less.)
OverallScores(c) ==
  {(Weighted(c) + 50) \div 100} \cup (IF Weighted(c) % 100 = 50 THEN {Weighted(c) \div 100} ELSE {})

\* Mutant of GetHealthStatus: 89 is "Healthy" too.
GetHealthStatus_From89(overall) ==
  CASE overall >= 89 -> "Healthy"
    [] overall \in 70..88 -> "Good"
    [] overall \in 50..69 -> "Warning"
    [] overall \in 30..49 -> "Degraded"
    [] OTHER -> "Critical"

GetHealthStatus(overall) ==
  CASE overall >= 90 -> "Healthy"
    [] overall \in 70..89 -> "Good"
    [] overall \in 50..69 -> "Warning"
    [] overall \in 30..49 -> "Degraded"
    [] OTHER -> "Critical"

Components(p, list, t) ==
  [restarts |-> RestartScore(TotalRestarts(p), t), containerStates |-> ContainerStateScore(p),
   events |-> EventScore(list, t), conditions |-> PodConditionScore(p), uptime |-> UptimeScore(p, t)]

NoScore == [components |-> [k \in DOMAIN Weight |-> 100], overallScore |-> 100, status |-> ""]

ScoreInit == hsPc = "pod" /\ hsPod = pod /\ hsSeen = {} /\ score = NoScore

\* The pod's get; every error of it is the request's.
ReadPod ==
  /\ hsPc = "pod"
  /\ \/ hsPc' = "events" /\ hsPod' = pod
     \/ hsPc' = "failed" /\ UNCHANGED hsPod
  /\ UNCHANGED <<hsSeen, score>>

\* getPodEvents, without a limit and without events if it fails, and the score.
Calculate ==
  /\ hsPc = "events"
  /\ hsSeen' \in {events, {}}
  /\ LET components == Components(hsPod, hsSeen', now)
     IN  \E overall \in OverallScores(components) :
           score' = [components |-> components, overallScore |-> overall, status |-> GetHealthStatus(overall)]
  /\ hsPc' = "done"
  /\ UNCHANGED hsPod

ScoreNext == ReadPod \/ Calculate
===============================================================================
