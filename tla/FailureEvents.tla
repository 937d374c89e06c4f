----------------------------- MODULE FailureEvents -----------------------------
(***************************************************************************)
(* A pod's failure events: GetPodFailureEvents of podService               *)
(* (internal/core/services/pod_service.go).  The pod is read, then at most *)
(* Limit of its events, which are matched against a map of patterns.       *)
(*                                                                         *)
(* Each pattern has possible causes and a suggested action of its own:     *)
(* advice is the pattern whose they are.  Their texts are left out, and so *)
(* is what the category lets enhanceFailureEventContext add to the causes. *)
(***************************************************************************)
EXTENDS PodWorld

CONSTANTS Limit,      \* 20: how many events the API is asked for
          Substrings  \* the pairs of a pattern and a longer reason that contains it

VARIABLES fePc,     \* "pod", "events", "done" or "failed"
          feAt,     \* history: the events when the request began
          feMissed, \* history: did the list fail?
          failure   \* models.PodFailureEvents

failureEvents == <<fePc, feAt, feMissed, failure>>

\* Mutant of FailurePatterns: a back-off is a warning.
FailurePatterns_BackOffWarning ==
  [FailedScheduling   |-> <<"Scheduling", "critical">>,
   BackOff            |-> <<"ContainerCrash", "warning">>,
   CrashLoopBackOff   |-> <<"ContainerCrash", "critical">>,
   ImagePullBackOff   |-> <<"ImagePull", "critical">>,
   ErrImagePull       |-> <<"ImagePull", "critical">>,
   FailedAttachVolume |-> <<"Volume", "critical">>,
   FailedMount        |-> <<"Volume", "critical">>,
   Unhealthy          |-> <<"Probe", "warning">>,
   OOMKilled          |-> <<"Resource", "critical">>,
   Evicted            |-> <<"Resource", "warning">>,
   NetworkNotReady    |-> <<"Network", "warning">>]

\* Category and severity of failurePatterns.
FailurePatterns ==
  [FailedScheduling   |-> <<"Scheduling", "critical">>,
   BackOff            |-> <<"ContainerCrash", "critical">>,
   CrashLoopBackOff   |-> <<"ContainerCrash", "critical">>,
   ImagePullBackOff   |-> <<"ImagePull", "critical">>,
   ErrImagePull       |-> <<"ImagePull", "critical">>,
   FailedAttachVolume |-> <<"Volume", "critical">>,
   FailedMount        |-> <<"Volume", "critical">>,
   Unhealthy          |-> <<"Probe", "warning">>,
   OOMKilled          |-> <<"Resource", "critical">>,
   Evicted            |-> <<"Resource", "warning">>,
   NetworkNotReady    |-> <<"Network", "warning">>]

\* Two of the patterns contain a third.
ASSUME SubstringsAssumption ==
  \A x, y \in DOMAIN FailurePatterns :
    <<x, y>> \in Substrings <=> x = "BackOff" /\ y \in {"CrashLoopBackOff", "ImagePullBackOff"}

\* The patterns that strings.Contains finds in a reason.
Contained(reason) == {x \in DOMAIN FailurePatterns : x = reason \/ <<x, reason>> \in Substrings}

\* What the report says of an event in which it found pattern x.
Verdict(x) == [category |-> FailurePatterns[x][1], severity |-> FailurePatterns[x][2], advice |-> x]

\* A Normal event counts only if it is frequent.
Skipped(e) == e.type = "Normal" /\ e.count < 5

\* Mutant of Verdicts: a warning nobody knows is information.
Verdicts_Info(e) ==
  IF Contained(e.reason) # {} THEN {Verdict(x) : x \in Contained(e.reason)}
  ELSE IF e.type = "Warning" THEN {[category |-> "Other", severity |-> "info", advice |-> "none"]}
  ELSE {}

\* What an event may be taken for: the map is ranged over, and the first pattern
\* that is found decides.
Verdicts(e) ==
  IF Contained(e.reason) # {} THEN {Verdict(x) : x \in Contained(e.reason)}
  ELSE IF e.type = "Warning" THEN {[category |-> "Other", severity |-> "warning", advice |-> "none"]}
  ELSE {}

Failures(list) == {e \in list : ~Skipped(e) /\ Verdicts(e) # {}}

Critical(S) == {f \in S : f.severity = "critical"}

\* What the API may answer with: at most Limit events, in an order that is not that
\* of time; only what it chose is sorted afterwards.
Pages == IF Cardinality(events) <= Limit THEN {events} ELSE kSubset(Limit, events)

\* Mutant of identifyOngoingIssues: an event is as old as its first occurrence.
identifyOngoingIssues_First(S) == {f.event : f \in {g \in Critical(S) : g.event.first > now - 5}}

identifyOngoingIssues(S) == {f.event : f \in {g \in Critical(S) : g.event.last > now - 5}}

\* The sort: severity first, then the time; equals in any order.
SortsBefore(f, g) ==
  IF f.severity # g.severity THEN f.severity = "critical" ELSE f.event.last > g.event.last

\* The first of the sorted events that is later than all before it, and no later one after it.
MostRecent(S) ==
  LET last == {f \in S : \A g \in S : f.event.last >= g.event.last}
  IN  {f \in last : \A g \in last : ~SortsBefore(g, f)}

\* The report on the failures S out of total events, mostRecent being one of them.
PodFailureEvents(total, S, mostRecent) ==
  [totalEvents     |-> total,
   failureEvents   |-> S,
   eventCategories |-> [x \in {f.category : f \in S} |-> Cardinality({f \in S : f.category = x})],
   criticalEvents  |-> Cardinality(Critical(S)),
   warningEvents   |-> Cardinality({f \in S : f.severity = "warning"}),
   mostRecentIssue |-> mostRecent,
   ongoingIssues   |-> identifyOngoingIssues(S)]

NoReport == PodFailureEvents(0, {}, {})

FailureInit == fePc = "pod" /\ feAt = {} /\ feMissed = FALSE /\ failure = NoReport

GetPod ==
  /\ fePc = "pod"
  /\ fePc' \in {"events", "failed"}
  /\ feAt' = events
  /\ UNCHANGED <<feMissed, failure>>

\* getPodEvents, whose error leaves no events, and all that follows.
AnalyzeEvents ==
  /\ fePc = "events"
  /\ \E page \in Pages \cup {{}} :
       /\ feMissed' = (page = {} /\ events # {})
       /\ \E verdict \in [Failures(page) -> UNION {Verdicts(e) : e \in Failures(page)}] :
            /\ \A e \in Failures(page) : verdict[e] \in Verdicts(e)
            /\ LET S == {[event |-> e, category |-> verdict[e].category, severity |-> verdict[e].severity,
                          advice |-> verdict[e].advice, isRecurring |-> e.count > 3] : e \in Failures(page)}
               IN  \E f \in IF S = {} THEN {{}} ELSE {{g} : g \in MostRecent(S)} :
                     failure' = PodFailureEvents(Cardinality(page), S, f)
  /\ fePc' = "done"
  /\ UNCHANGED feAt

FailureNext == GetPod \/ AnalyzeEvents
===============================================================================
