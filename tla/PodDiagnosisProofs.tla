--------------------------- MODULE PodDiagnosisProofs ---------------------------
(***************************************************************************)
(* Proofs about PodDiagnosis: what the report of failures and the health   *)
(* score say of a pod, whatever its containers and its events, and however *)
(* long it goes on while they are made.                                    *)
(***************************************************************************)
EXTENDS PodDiagnosis, SumLemmas

Kinds == {"Normal", "Warning"}
States == {"running", "waiting", "failed", "completed"}

\* An event as old as e or later, of the same kind and for the same reason.
Repeats(g, e) == g.type = e.type /\ g.reason = e.reason /\ g.last >= e.last

\* An event of the list.
Listable(e, t) == e.type \in Kinds /\ e.count \in Nat /\ e.last \in Int /\ e.last <= t

\* The pod and its events.
World ==
  /\ pod \in PodType /\ (pod.reported => pod.scheduled)
  /\ now \in Nat /\ IsFiniteSet(events)
  /\ \A c \in Containers : pod.containers[c].state = "running" => pod.containers[c].reason = ""
  /\ \A e \in events : Listable(e, now)

\* What the report says of a failure.
VerdictOn(f) == [category |-> f.category, severity |-> f.severity, advice |-> f.advice]

\* Every pattern in the event's reason makes it critical.
Pressing(e) == Contained(e.reason) # {} /\ \A x \in Contained(e.reason) : FailurePatterns[x][2] = "critical"

\* A failure of the report: its event, with one of the verdicts there are on it.
Judged(f) ==
  /\ f.event.type \in Kinds /\ f.event.last \in Int
  /\ VerdictOn(f) \in Verdicts(f.event)

\* The request for the failures.
Reported ==
  /\ fePc \in {"pod", "events", "done", "failed"}
  /\ fePc # "done" => failure.failureEvents = {}
  /\ \A e \in feAt : e.last \in Int
  /\ fePc = "events" => \A e \in feAt : \E g \in events : Repeats(g, e)
  /\ \A f \in failure.failureEvents : Judged(f)

\* What was reported may have been repeated since, but does not go away.
Lasting ==
  \A f \in failure.failureEvents :
    IF hsPc = "done" THEN hsSeen = {} \/ \E g \in hsSeen : Repeats(g, f.event)
    ELSE \E g \in events : Repeats(g, f.event)

\* The request for the score.
Scored ==
  /\ hsPc \in {"pod", "events", "done", "failed"} /\ hsPod \in PodType /\ (hsPod.reported => hsPod.scheduled)
  /\ fePc \in {"pod", "events"} => hsPc = "pod"
  /\ hsPc # "done" => score = NoScore
  /\ hsPc = "done" =>
       /\ IsFiniteSet(hsSeen) /\ (\A e \in hsSeen : Listable(e, now))
       /\ score.components = Components(hsPod, hsSeen, now)
       /\ score.overallScore \in OverallScores(score.components)
       /\ score.status = GetHealthStatus(score.overallScore)

Inv == World /\ Reported /\ OngoingIsComplete /\ Lasting /\ Scored

-----------------------------------------------------------------------------

\* A finite set of numbers has a least one.
LEMMA MinIs ==
  ASSUME NEW S, IsFiniteSet(S), S # {}, \A x \in S : x \in Int
  PROVE  Min(S) \in S /\ \A y \in S : Min(S) <= y
  <1> DEFINE Below(x) == {y \in S : y < x}
             T == {Below(x) : x \in S}
  <1>1. PICK U \in T : \A V \in T : V \subseteq U => V = U
    <2>1. T # {}
      OBVIOUS
    <2>2. T \in SUBSET SUBSET S
      OBVIOUS
    <2> HIDE DEF T
    <2> QED
      BY <2>1, <2>2, MinimalSubset
  <1>2. PICK x \in S : U = Below(x)
    OBVIOUS
  <1>3. ASSUME NEW y \in S PROVE x <= y
    <2>1. SUFFICES ASSUME y < x PROVE FALSE
      BY <1>2
    <2>2. Below(y) \subseteq Below(x)
      <3>1. ASSUME NEW z \in S, z < y PROVE z < x
        BY <2>1, <3>1
      <3> QED
        BY <3>1
    <2>3. Below(y) = U
      BY <1>1, <1>2, <2>2
    <2>4. y \in U /\ y \notin Below(y)
      BY <1>2, <2>1
    <2> QED
      BY <2>3, <2>4
  <1> QED
    BY <1>2, <1>3 DEF Min

\* The scores are cut by the least of some caps.
LEMMA MinCap ==
  ASSUME NEW S \in SUBSET (0..100), S # {}
  PROVE  Min(S) \in S /\ \A y \in S : Min(S) <= y
  <1>1. IsFiniteSet(S)
    <2>1. IsFiniteSet(0..100)
      BY FS_Interval, 0 \in Int, 100 \in Int
    <2> QED
      BY <2>1, FS_Subset
  <1>2. S \in SUBSET Int
    OBVIOUS
  <1> QED
    BY <1>1, <1>2, MinIs

\* The greater of two numbers.
LEMMA MaxTwo ==
  ASSUME NEW a \in Int, NEW b \in Int
  PROVE  Max({a, b}) = IF a >= b THEN a ELSE b
  BY DEF Max

\* Multiplication by a number that is not negative.
LEMMA Times ==
  ASSUME NEW a \in Int, NEW b \in Int, a <= b, NEW n \in Nat
  PROVE  a * n <= b * n
  <1>1. b * n = a * n + (b - a) * n
    OBVIOUS
  <1>2. (b - a) * n >= 0
    OBVIOUS
  <1> QED
    BY <1>1, <1>2

\* What the share of the ready containers says of their number.
LEMMA PercentageIs ==
  ASSUME NEW part \in Nat, NEW whole \in Nat \ {0}, part <= whole
  PROVE  /\ Percentage(part, whole) \in 0..100
         /\ part = whole => Percentage(part, whole) = 100
         /\ Percentage(part, whole) >= 88 => 100 * part >= 88 * whole
  <1> DEFINE q == (100 * part) \div whole
             m == (100 * part) % whole
  <1>1. q \in Int /\ m \in 0..(whole - 1) /\ 100 * part = q * whole + m
    OBVIOUS
  <1> HIDE DEF q, m
  <1>2. q >= 0
    <2>1. SUFFICES ASSUME q <= -1 PROVE FALSE
      BY <1>1
    <2>2. q * whole <= (-1) * whole
      BY <1>1, <2>1, Times
    <2> QED
      BY <1>1, <2>2
  <1>3. q <= 100
    <2>1. SUFFICES ASSUME 101 <= q PROVE FALSE
      BY <1>1
    <2>2. 101 * whole <= q * whole
      BY <1>1, <2>1, Times
    <2> QED
      BY <1>1, <2>2
  <1>4. part = whole => q = 100
    <2>1. SUFFICES ASSUME part = whole, q <= 99 PROVE FALSE
      BY <1>1, <1>3
    <2>2. q * whole <= 99 * whole
      BY <1>1, <2>1, Times
    <2> QED
      BY <1>1, <2>1, <2>2
  <1>5. q >= 88 => 100 * part >= 88 * whole
    <2>1. SUFFICES ASSUME 88 <= q PROVE 100 * part >= 88 * whole
      OBVIOUS
    <2>2. 88 * whole <= q * whole
      BY <1>1, <2>1, Times
    <2> QED
      BY <1>1, <2>2
  <1>6. Percentage(part, whole) = IF 100 * part = q * whole /\ q \in {29, 57, 58} THEN q - 1 ELSE q
    BY DEF Percentage, q
  <1> QED
    BY <1>1, <1>2, <1>3, <1>4, <1>5, <1>6

-----------------------------------------------------------------------------

\* An event that is recorded takes the place of those it repeats.
LEMMA RecordKeeps ==
  ASSUME World, NEW type \in Kinds, NEW reason, NEW n \in Nat, Record(type, reason, n), now' = now
  PROVE  /\ IsFiniteSet(events')
         /\ \A e \in events' : Listable(e, now')
         /\ \A e \in events : \E g \in events' : Repeats(g, e)
  <1> DEFINE old == {e \in events : e.type = type /\ e.reason = reason}
             first == IF old = {} THEN now ELSE Min({e.first : e \in old})
             count == n + IF old = {} THEN 0 ELSE Min({e.count : e \in old})
             new == [type |-> type, reason |-> reason, last |-> now, first |-> first, count |-> count]
  <1>1. events' = (events \ old) \cup {new}
    BY DEF Record
  <1>2. IsFiniteSet(events) /\ now \in Nat /\ \A e \in events : Listable(e, now)
    BY DEF World
  <1>3. count \in Nat
    <2>1. CASE old = {}
      BY <2>1
    <2>2. CASE old # {}
      <3> DEFINE C == {e.count : e \in old}
      <3>1. IsFiniteSet(C)
        <4> DEFINE f == [e \in old |-> e.count]
        <4>1. IsFiniteSet(old)
          BY <1>2, FS_Subset
        <4>2. f \in Surjection(old, C)
          BY DEF Surjection
        <4> HIDE DEF f, C, old
        <4> QED
          BY <4>1, <4>2, FS_Surjection
      <3>2. C # {} /\ \A x \in C : x \in Nat
        BY <1>2, <2>2 DEF Listable
      <3> HIDE DEF C
      <3>3. Min(C) \in Nat
        BY <3>1, <3>2, MinIs
      <3> QED
        BY <2>2, <3>3 DEF C
    <2> QED
      BY <2>1, <2>2
  <1> HIDE DEF first, count
  <1>4. new.type = type /\ new.reason = reason /\ new.last = now /\ new.count = count
    OBVIOUS
  <1>5. Listable(new, now)
    BY <1>2, <1>3, <1>4 DEF Listable
  <1> HIDE DEF new
  <1>6. \A e \in old : Repeats(new, e)
    BY <1>2, <1>4 DEF Repeats, Listable
  <1>7. \A e \in events : Repeats(e, e)
    BY <1>2 DEF Repeats, Listable
  <1>8. IsFiniteSet(events')
    <2>1. IsFiniteSet(events \ old)
      BY <1>2, FS_Subset
    <2> QED
      BY <1>1, <2>1, FS_AddElement
  <1>9. \A e \in events' : Listable(e, now')
    BY <1>1, <1>2, <1>5
  <1>10. \A e \in events : \E g \in events' : Repeats(g, e)
    <2> HIDE DEF old
    <2> QED
      BY <1>1, <1>6, <1>7
  <1> QED
    BY <1>8, <1>9, <1>10

\* A new status keeps the pod a pod.
LEMMA SetKeeps ==
  ASSUME World, NEW c \in Containers, NEW status \in ContainerStatus, Set(c, status),
         status.state = "running" => status.reason = ""
  PROVE  /\ pod' \in PodType /\ (pod'.reported => pod'.scheduled)
         /\ \A d \in Containers : pod'.containers[d].state = "running" => pod'.containers[d].reason = ""
         /\ pod' = [scheduled |-> pod.scheduled, reported |-> pod.reported, containers |-> [pod.containers EXCEPT ![c] = status]]
  <1>1. pod = [scheduled |-> pod.scheduled, reported |-> pod.reported, containers |-> pod.containers]
    BY DEF World, PodType
  <1>2. pod' = [scheduled |-> pod.scheduled, reported |-> pod.reported, containers |-> [pod.containers EXCEPT ![c] = status]]
    BY <1>1 DEF Set
  <1> QED
    BY <1>2 DEF World, PodType

\* What stays as it is.
LEMMA SameKeeps ==
  ASSUME World
  PROVE  /\ events' = events /\ now' = now =>
              /\ IsFiniteSet(events') /\ \A e \in events' : Listable(e, now')
              /\ \A e \in events : \E g \in events' : Repeats(g, e)
         /\ pod' = pod =>
              /\ pod' \in PodType /\ (pod'.reported => pod'.scheduled)
              /\ \A d \in Containers : pod'.containers[d].state = "running" => pod'.containers[d].reason = ""
         /\ now' = now => now' \in Nat /\ now' >= now
  <1>0. IsFiniteSet(events) /\ now \in Nat /\ \A e \in events : Listable(e, now)
    BY DEF World
  <1>1. \A e \in events : Repeats(e, e)
    BY <1>0 DEF Listable, Repeats
  <1>2. ASSUME events' = events, now' = now
        PROVE  /\ IsFiniteSet(events') /\ \A e \in events' : Listable(e, now')
               /\ \A e \in events : \E g \in events' : Repeats(g, e)
    BY <1>0, <1>1, <1>2
  <1>3. ASSUME pod' = pod
        PROVE  /\ pod' \in PodType /\ (pod'.reported => pod'.scheduled)
               /\ \A d \in Containers : pod'.containers[d].state = "running" => pod'.containers[d].reason = ""
    BY <1>3 DEF World
  <1>4. now' = now => now' \in Nat /\ now' >= now
    BY <1>0
  <1> QED
    BY <1>2, <1>3, <1>4

\* The pod and its events go on, and what was listable stays so, or is repeated.
LEMMA WorldKeeps ==
  ASSUME World, WorldNext
  PROVE  /\ World' /\ now' >= now
         /\ \A e \in events : \E g \in events' : Repeats(g, e)
  <1> DEFINE PodKept == /\ pod' \in PodType /\ (pod'.reported => pod'.scheduled)
                        /\ \A d \in Containers :
                             pod'.containers[d].state = "running" => pod'.containers[d].reason = ""
             EventsKept == /\ IsFiniteSet(events')
                           /\ \A e \in events' : Listable(e, now')
                           /\ \A e \in events : \E g \in events' : Repeats(g, e)
             NowKept == now' \in Nat /\ now' >= now
  <1>0. now \in Nat /\ IsFiniteSet(events) /\ \A e \in events : Listable(e, now)
    BY DEF World
  <1>c. \A c \in Containers :
          /\ pod.containers[c] \in ContainerStatus
          /\ pod.containers[c].state = "running" => pod.containers[c].reason = ""
    BY DEF World, PodType
  <1>s. /\ events' = events /\ now' = now => EventsKept
        /\ pod' = pod => PodKept
        /\ now' = now => NowKept
    BY SameKeeps
  <1>t. ASSUME NEW c \in Containers, NEW status \in ContainerStatus, Set(c, status),
                 status.state = "running" => status.reason = ""
          PROVE  PodKept
    BY <1>t, SetKeeps
  <1>r. ASSUME NEW type \in Kinds, NEW reason, NEW n \in Nat, Record(type, reason, n), now' = now
             PROVE  EventsKept
    BY <1>r, RecordKeeps
  <1>e. ASSUME PodKept, EventsKept, NowKept
          PROVE  /\ World' /\ now' >= now
                 /\ \A e \in events : \E g \in events' : Repeats(g, e)
    BY <1>e DEF World
  <1> HIDE DEF PodKept, EventsKept, NowKept
  <1>1. CASE Schedule
    <2>1. PodKept
      BY <1>1 DEF World, Schedule, PodType, PodKept
    <2> QED
      BY <1>1, <1>s, <1>e, <2>1 DEF Schedule
  <1>12. CASE ReportStatus
    <2>1. PodKept
      BY <1>12 DEF World, ReportStatus, PodType, PodKept
    <2> QED
      BY <1>12, <1>s, <1>e, <2>1 DEF ReportStatus
  <1>2. CASE FailScheduling
    <2>1. CASE Record("Warning", "FailedScheduling", 1)
      BY <1>2, <2>1, <1>s, <1>r, <1>e DEF FailScheduling, Kinds
    <2>2. CASE events' = events \cup {[type |-> "Warning", reason |-> "FailedScheduling",
                                       first |-> Undated, last |-> Undated, count |-> 0]}
      <3> DEFINE new == [type |-> "Warning", reason |-> "FailedScheduling",
                         first |-> Undated, last |-> Undated, count |-> 0]
      <3>0. Undated \in Int /\ Undated <= 0
        BY SMT DEF Undated
      <3>1. Listable(new, now) /\ now' = now
        BY <1>0, <1>2, <3>0 DEF Listable, Kinds, FailScheduling
      <3>2. \A e \in events : Repeats(e, e)
        BY <1>0 DEF Repeats, Listable
      <3> HIDE DEF new
      <3>3. IsFiniteSet(events')
        BY <1>0, <2>2, FS_AddElement DEF new
      <3>4. EventsKept
        BY <1>0, <2>2, <3>1, <3>2, <3>3 DEF EventsKept, new
      <3> QED
        BY <1>2, <1>s, <1>e, <3>4 DEF FailScheduling
    <2> QED
      BY <1>2, <2>1, <2>2 DEF FailScheduling
  <1>3. ASSUME NEW c \in Containers, Start(c)
        PROVE  /\ World' /\ now' >= now
               /\ \A e \in events : \E g \in events' : Repeats(g, e)
    <2> DEFINE s == pod.containers[c]
               status == [s EXCEPT !.state = "running", !.reason = "", !.started = now,
                                   !.restarts = IF s.reason = "CrashLoopBackOff" THEN @ + 1 ELSE @]
    <2>1. status \in ContainerStatus /\ status.reason = ""
      <3> DEFINE restarts == IF s.reason = "CrashLoopBackOff" THEN s.restarts + 1 ELSE s.restarts
      <3>1. s \in ContainerStatus
        BY <1>c
      <3>2. now \in Int
        BY <1>0
      <3>3. restarts \in Nat
        BY <3>1 DEF ContainerStatus
      <3>4. status = [s EXCEPT !.state = "running", !.reason = "", !.started = now, !.restarts = restarts]
        OBVIOUS
      <3> HIDE DEF s, restarts, status
      <3>5. status = [state |-> "running", reason |-> "", ready |-> s.ready, restarts |-> restarts, started |-> now]
        BY <3>1, <3>4 DEF ContainerStatus
      <3>6. s.ready \in BOOLEAN
        BY <3>1, Zenon DEF ContainerStatus
      <3> QED
        BY <3>2, <3>3, <3>5, <3>6, ReasonsAssumption DEF ContainerStatus
    <2>2. Set(c, status) /\ events' = events /\ now' = now
      BY <1>3 DEF Start
    <2> HIDE DEF status
    <2> QED
      BY <2>1, <2>2, <1>t, <1>s, <1>e
  <1>4. ASSUME NEW c \in Containers, BecomeReady(c)
        PROVE  /\ World' /\ now' >= now
               /\ \A e \in events : \E g \in events' : Repeats(g, e)
    <2> DEFINE s == pod.containers[c]
               status == [s EXCEPT !.ready = TRUE]
    <2>1. status \in ContainerStatus /\ (status.state = "running" => status.reason = "")
      <3>1. s \in ContainerStatus /\ (s.state = "running" => s.reason = "")
        BY <1>c
      <3> HIDE DEF s
      <3> QED
        BY <3>1 DEF ContainerStatus
    <2>2. Set(c, status) /\ events' = events /\ now' = now
      BY <1>4 DEF BecomeReady
    <2> HIDE DEF status
    <2> QED
      BY <2>1, <2>2, <1>t, <1>s, <1>e
  <1>5. ASSUME NEW c \in Containers, FailProbe(c)
        PROVE  /\ World' /\ now' >= now
               /\ \A e \in events : \E g \in events' : Repeats(g, e)
    <2> DEFINE s == pod.containers[c]
               status == [s EXCEPT !.ready = FALSE]
    <2>1. status \in ContainerStatus /\ (status.state = "running" => status.reason = "")
      <3>1. s \in ContainerStatus /\ (s.state = "running" => s.reason = "")
        BY <1>c
      <3> HIDE DEF s
      <3> QED
        BY <3>1 DEF ContainerStatus
    <2>2. Set(c, status) /\ Record("Warning", "Unhealthy", 1) /\ now' = now
      BY <1>5 DEF FailProbe
    <2> HIDE DEF status
    <2> QED
      BY <2>1, <2>2, <1>t, <1>r, <1>s, <1>e DEF Kinds
  <1>6. ASSUME NEW c \in Containers, NEW state \in {"failed", "completed"}, Exit(c, state)
        PROVE  /\ World' /\ now' >= now
               /\ \A e \in events : \E g \in events' : Repeats(g, e)
    <2> DEFINE s == pod.containers[c]
               status == [s EXCEPT !.state = state, !.ready = FALSE]
    <2>1. status \in ContainerStatus /\ status.state # "running"
      <3>1. s \in ContainerStatus
        BY <1>c
      <3> HIDE DEF s
      <3> QED
        BY <3>1 DEF ContainerStatus
    <2>2. Set(c, status) /\ events' = events /\ now' = now
      BY <1>6 DEF Exit
    <2> HIDE DEF status
    <2> QED
      BY <2>1, <2>2, <1>t, <1>s, <1>e
  <1>w. ASSUME NEW c \in Containers, NEW reason \in Reasons
        PROVE  /\ Waiting(pod.containers[c], reason) \in ContainerStatus
               /\ Waiting(pod.containers[c], reason).state # "running"
    <2>1. pod.containers[c] \in ContainerStatus
      BY <1>c
    <2> QED
      BY <2>1 DEF ContainerStatus, Waiting
  <1>7. ASSUME NEW c \in Containers, BackOff(c)
        PROVE  /\ World' /\ now' >= now
               /\ \A e \in events : \E g \in events' : Repeats(g, e)
    <2> DEFINE status == Waiting(pod.containers[c], "CrashLoopBackOff")
    <2>1. status \in ContainerStatus /\ status.state # "running"
      BY <1>w, ReasonsAssumption
    <2>2. Set(c, status) /\ Record("Warning", "BackOff", 4) /\ now' = now
      BY <1>7 DEF BackOff
    <2> HIDE DEF status
    <2> QED
      BY <2>1, <2>2, <1>t, <1>r, <1>s, <1>e DEF Kinds
  <1>8. ASSUME NEW c \in Containers, FailPull(c)
        PROVE  /\ World' /\ now' >= now
               /\ \A e \in events : \E g \in events' : Repeats(g, e)
    <2> DEFINE status == Waiting(pod.containers[c], "ErrImagePull")
    <2>1. status \in ContainerStatus /\ status.state # "running"
      BY <1>w, ReasonsAssumption
    <2>2. Set(c, status) /\ Record("Warning", "Failed", 1) /\ now' = now
      BY <1>8 DEF FailPull
    <2> HIDE DEF status
    <2> QED
      BY <2>1, <2>2, <1>t, <1>r, <1>s, <1>e DEF Kinds
  <1>9. ASSUME NEW c \in Containers, BackOffPull(c)
        PROVE  /\ World' /\ now' >= now
               /\ \A e \in events : \E g \in events' : Repeats(g, e)
    <2> DEFINE status == Waiting(pod.containers[c], "ImagePullBackOff")
    <2>1. status \in ContainerStatus /\ status.state # "running"
      BY <1>w, ReasonsAssumption
    <2>2. Set(c, status) /\ Record("Normal", "BackOff", 4) /\ now' = now
      BY <1>9 DEF BackOffPull
    <2> HIDE DEF status
    <2> QED
      BY <2>1, <2>2, <1>t, <1>r, <1>s, <1>e DEF Kinds
  <1>10. ASSUME NEW reason \in OtherReasons, Report(reason)
         PROVE  /\ World' /\ now' >= now
                /\ \A e \in events : \E g \in events' : Repeats(g, e)
    BY <1>10, <1>r, <1>s, <1>e DEF Report, Kinds
  <1>11. ASSUME NEW d \in Steps, Tick(d)
         PROVE  /\ World' /\ now' >= now
                /\ \A e \in events : \E g \in events' : Repeats(g, e)
    <2>1. d \in Nat \ {0} /\ now' = now + d /\ events' = events /\ pod' = pod
      BY <1>11, WorldAssumption DEF Tick
    <2>2. \A e \in events : Listable(e, now') /\ Repeats(e, e)
      BY <1>0, <2>1 DEF Listable, Repeats
    <2>3. EventsKept
      BY <1>0, <2>1, <2>2 DEF EventsKept
    <2>4. NowKept
      BY <1>0, <2>1 DEF NowKept
    <2> QED
      BY <2>1, <2>3, <2>4, <1>s, <1>e
  <1> QED
    BY <1>1, <1>2, <1>3, <1>4, <1>5, <1>6, <1>7, <1>8, <1>9, <1>10, <1>11, <1>12 DEF WorldNext

-----------------------------------------------------------------------------

\* The patterns that a reason may contain, and what they say.
LEMMA PatternsAre ==
  ASSUME NEW reason, NEW x \in Contained(reason)
  PROVE  /\ x \in DOMAIN FailurePatterns
         /\ FailurePatterns[x][2] \in {"critical", "warning"}
         /\ reason \in DOMAIN FailurePatterns /\ reason \notin {"CrashLoopBackOff", "ImagePullBackOff"} => x = reason
         /\ reason = "CrashLoopBackOff" =>
              FailurePatterns[x][1] = "ContainerCrash" /\ FailurePatterns[x][2] = "critical"
         /\ reason = "ImagePullBackOff" => FailurePatterns[x][2] = "critical"
  <1>1. x \in DOMAIN FailurePatterns /\ (x = reason \/ <<x, reason>> \in Substrings)
    BY DEF Contained
  <1>2. \A y \in DOMAIN FailurePatterns : FailurePatterns[y][2] \in {"critical", "warning"}
    BY DEF FailurePatterns
  <1>3. reason \in DOMAIN FailurePatterns /\ x # reason =>
          x = "BackOff" /\ reason \in {"CrashLoopBackOff", "ImagePullBackOff"}
    BY <1>1, SubstringsAssumption
  <1>4. /\ {"CrashLoopBackOff", "ImagePullBackOff", "BackOff"} \subseteq DOMAIN FailurePatterns
        /\ FailurePatterns["CrashLoopBackOff"] = <<"ContainerCrash", "critical">>
        /\ FailurePatterns["BackOff"] = <<"ContainerCrash", "critical">>
        /\ FailurePatterns["ImagePullBackOff"] = <<"ImagePull", "critical">>
    BY DEF FailurePatterns
  <1> QED
    BY <1>1, <1>2, <1>3, <1>4

\* The verdict for a pattern.
LEMMA VerdictIs ==
  ASSUME NEW x
  PROVE  /\ Verdict(x).category = FailurePatterns[x][1] /\ Verdict(x).severity = FailurePatterns[x][2]
         /\ Verdict(x).advice = x
  BY DEF Verdict

\* What the verdicts on one event have in common.
LEMMA VerdictsAre ==
  ASSUME NEW e, NEW v \in Verdicts(e)
  PROVE  /\ v.severity \in {"critical", "warning"}
         /\ v = [category |-> v.category, severity |-> v.severity, advice |-> v.advice]
         /\ \A w \in Verdicts(e) :
              \/ Compound(e.reason)
              \/ /\ w.severity = v.severity
                 /\ w.category # v.category => e.reason = "ImagePullBackOff"
                 /\ w.advice # v.advice => e.reason \in {"CrashLoopBackOff", "ImagePullBackOff"}
         /\ Pressing(e) => v.severity = "critical"
         /\ v.severity = "critical" => Contained(e.reason) # {}
         /\ v.severity = "critical" /\ e.reason \in DOMAIN FailurePatterns =>
              e.reason \in {"FailedScheduling", "BackOff", "CrashLoopBackOff", "ImagePullBackOff", "ErrImagePull",
                            "FailedAttachVolume", "FailedMount", "OOMKilled"}
  <1>1. CASE Contained(e.reason) = {}
    <2> DEFINE other == [category |-> "Other", severity |-> "warning", advice |-> "none"]
    <2>1. \A w \in Verdicts(e) : w = other
      BY <1>1 DEF Verdicts
    <2>2. other.severity = "warning" /\ other = [category |-> other.category, severity |-> other.severity, advice |-> other.advice]
      OBVIOUS
    <2> HIDE DEF other
    <2>3. ~Pressing(e)
      BY <1>1 DEF Pressing
    <2> QED
      BY <1>1, <2>1, <2>2, <2>3
  <1>2. CASE Contained(e.reason) # {}
    <2>1. Verdicts(e) = {Verdict(x) : x \in Contained(e.reason)}
      BY <1>2 DEF Verdicts
    <2>2. PICK x \in Contained(e.reason) : v = Verdict(x)
      BY <2>1
    <2>3. /\ v.severity = FailurePatterns[x][2] /\ v.category = FailurePatterns[x][1] /\ v.advice = x
          /\ v = [category |-> v.category, severity |-> v.severity, advice |-> v.advice]
      <3>1. v.severity = FailurePatterns[x][2] /\ v.category = FailurePatterns[x][1] /\ v.advice = x
        BY <2>2, VerdictIs
      <3>2. v = [category |-> FailurePatterns[x][1], severity |-> FailurePatterns[x][2], advice |-> x]
        BY <2>2 DEF Verdict
      <3> QED
        BY <3>1, <3>2
    <2>4. ASSUME NEW w \in Verdicts(e), ~Compound(e.reason)
          PROVE  /\ w.severity = v.severity
                 /\ w.category # v.category => e.reason = "ImagePullBackOff"
                 /\ w.advice # v.advice => e.reason \in {"CrashLoopBackOff", "ImagePullBackOff"}
      <3>1. PICK y \in Contained(e.reason) : w = Verdict(y)
        BY <2>1
      <3>2. w.severity = FailurePatterns[y][2] /\ w.category = FailurePatterns[y][1] /\ w.advice = y
        BY <3>1, VerdictIs
      <3>3. CASE e.reason \notin {"CrashLoopBackOff", "ImagePullBackOff"}
        <4>1. x = y
          BY <2>4, <3>3, PatternsAre DEF Compound
        <4> QED
          BY <2>2, <3>1, <4>1
      <3>4. CASE e.reason = "CrashLoopBackOff"
        BY <2>3, <3>2, <3>4, PatternsAre
      <3>5. CASE e.reason = "ImagePullBackOff"
        BY <2>3, <3>2, <3>5, PatternsAre
      <3> QED
        BY <3>3, <3>4, <3>5
    <2>5. Pressing(e) => v.severity = "critical"
      BY <2>3 DEF Pressing
    <2>6. v.severity \in {"critical", "warning"}
      BY <2>3, PatternsAre
    <2>7. ASSUME v.severity = "critical", e.reason \in DOMAIN FailurePatterns,
                 e.reason \notin {"CrashLoopBackOff", "ImagePullBackOff"}
          PROVE  e.reason \in {"FailedScheduling", "BackOff", "ErrImagePull", "FailedAttachVolume", "FailedMount", "OOMKilled"}
      <3>1. FailurePatterns[e.reason][2] = "critical"
        BY <2>3, <2>7, PatternsAre
      <3> QED
        BY <2>7, <3>1 DEF FailurePatterns
    <2> QED
      BY <1>2, <2>3, <2>4, <2>5, <2>6, <2>7
  <1> QED
    BY <1>1, <1>2

\* The failures of a list of events: of the events there are, each with a verdict.
LEMMA FailuresAre ==
  ASSUME World, NEW page \in SUBSET events, NEW verdict, NEW S,
         \A e \in Failures(page) : verdict[e] \in Verdicts(e),
         S = {[event |-> e, category |-> verdict[e].category, severity |-> verdict[e].severity,
               advice |-> verdict[e].advice, isRecurring |-> e.count > 3] : e \in Failures(page)}
  PROVE  /\ \A f \in S : Judged(f) /\ f.event \in events
         /\ \A e \in page : e.type = "Warning" /\ Pressing(e) =>
              \E f \in Critical(S) : f.event = e
  <1>0. \A e \in events : Listable(e, now)
    BY DEF World
  <1>1. ASSUME NEW f \in S PROVE Judged(f) /\ f.event \in events
    <2>1. PICK e \in Failures(page) :
            /\ f.event = e /\ f.category = verdict[e].category /\ f.severity = verdict[e].severity
            /\ f.advice = verdict[e].advice
      OBVIOUS
    <2>2. e \in events /\ verdict[e] \in Verdicts(e)
      BY DEF Failures
    <2>3. VerdictOn(f) \in Verdicts(f.event)
      BY <2>1, <2>2, VerdictsAre DEF VerdictOn
    <2>4. f.event.type \in Kinds /\ f.event.last \in Int
      BY <1>0, <2>1, <2>2 DEF Listable
    <2> QED
      BY <2>1, <2>2, <2>3, <2>4 DEF Judged
  <1>2. ASSUME NEW e \in page, e.type = "Warning", Pressing(e)
        PROVE  \E f \in Critical(S) : f.event = e
    <2>1. e \in Failures(page)
      BY <1>2 DEF Failures, Skipped, Verdicts, Pressing
    <2>2. verdict[e].severity = "critical"
      BY <1>2, <2>1, VerdictsAre
    <2> DEFINE f == [event |-> e, category |-> verdict[e].category, severity |-> verdict[e].severity,
                     advice |-> verdict[e].advice, isRecurring |-> e.count > 3]
    <2>3. f \in S
      BY <2>1
    <2>4. f.severity = "critical" /\ f.event = e
      BY <2>2
    <2> HIDE DEF f
    <2> QED
      BY <2>3, <2>4 DEF Critical
  <1> QED
    BY <1>1, <1>2

-----------------------------------------------------------------------------

\* At the beginning, whatever it is.
LEMMA InitInv == Init => Inv
  <1> SUFFICES ASSUME Init PROVE Inv
    OBVIOUS
  <1>1. World
    <2>1. PICK b \in Beginnings : pod = b.pod /\ events = b.events /\ now = b.now
      BY DEF Init, WorldInit
    <2>2. \A e \in events : Listable(e, now)
      BY <2>1, BeginningsAssumption DEF Listable, Kinds
    <2> QED
      BY <2>1, <2>2, BeginningsAssumption DEF World, PodType
  <1>2. failure.failureEvents = {} /\ fePc = "pod" /\ feAt = {}
    BY DEF Init, FailureInit, NoReport, PodFailureEvents
  <1>3. Reported /\ OngoingIsComplete
    BY <1>2 DEF Reported, OngoingIsComplete
  <1>4. Lasting
    BY <1>2 DEF Lasting
  <1>5. Scored
    BY <1>1 DEF Scored, World, Init, ScoreInit
  <1> QED
    BY <1>1, <1>3, <1>4, <1>5 DEF Inv

\* An event that repeats another is repeated by what repeats it.
LEMMA RepeatsAgain ==
  ASSUME NEW e, NEW g, NEW h, e.last \in Int, g.last \in Int, h.last \in Int, Repeats(g, e), Repeats(h, g)
  PROVE  Repeats(h, e)
  BY DEF Repeats

\* Whatever happens to the pod or the clock: what a request has seen lasts, in what
\* is there or in what repeats it.
LEMMA HappenKeeps ==
  ASSUME Inv, Happen
  PROVE  Inv'
  <1>1. World' /\ now' >= now /\ \A e \in events : \E g \in events' : Repeats(g, e)
    BY WorldKeeps DEF Inv, Happen
  <1>2. /\ fePc' = fePc /\ feAt' = feAt /\ feMissed' = feMissed /\ failure' = failure
        /\ hsPc' = hsPc /\ hsPod' = hsPod /\ hsSeen' = hsSeen /\ score' = score
        /\ hsPc \notin {"done", "failed"}
    BY DEF Happen, failureEvents, healthScore
  <1>3. /\ \A e \in events : e.last \in Int
        /\ \A e \in events' : e.last \in Int
    BY <1>1 DEF Inv, World, Listable
  <1>4. ASSUME NEW e, e.last \in Int, NEW g \in events, Repeats(g, e)
        PROVE  \E h \in events' : Repeats(h, e)
    <2>1. PICK h \in events' : Repeats(h, g)
      BY <1>1
    <2> QED
      BY <1>3, <1>4, <2>1, RepeatsAgain
  <1>5. Reported'
    <2>1. fePc' = "events" => \A e \in feAt' : \E g \in events' : Repeats(g, e)
      <3> SUFFICES ASSUME fePc = "events", NEW e \in feAt PROVE \E h \in events' : Repeats(h, e)
        BY <1>2
      <3>1. e.last \in Int /\ \E g \in events : Repeats(g, e)
        BY DEF Inv, Reported
      <3> QED
        BY <1>4, <3>1
    <2>2. /\ fePc' \in {"pod", "events", "done", "failed"}
          /\ fePc' # "done" => failure'.failureEvents = {}
          /\ \A e \in feAt' : e.last \in Int
          /\ \A f \in failure'.failureEvents : Judged(f)
      BY <1>2 DEF Inv, Reported
    <2> QED
      BY <2>1, <2>2 DEF Reported, Judged
  <1>6. OngoingIsComplete'
    <2> SUFFICES ASSUME fePc = "done", ~feMissed, NEW e \in feAt, Pressing(e),
                        e.type = "Warning", e.last > now' - 5
                 PROVE  (\E g \in failure.ongoingIssues : g.reason = e.reason) \/ failure.totalEvents = Limit
      BY <1>2 DEF OngoingIsComplete, Pressing
    <2>1. e.last \in Int /\ now \in Int /\ now' \in Int
      <3>1. e.last \in Int
        BY DEF Inv, Reported
      <3>2. now \in Nat /\ now' \in Nat
        BY <1>1 DEF Inv, World
      <3> QED
        BY <3>1, <3>2
    <2>2. e.last > now - 5
      BY <1>1, <2>1
    <2> QED
      BY <2>2 DEF Inv, OngoingIsComplete, Pressing
  <1>7. Lasting'
    <2> SUFFICES ASSUME NEW f \in failure.failureEvents PROVE \E h \in events' : Repeats(h, f.event)
      BY <1>2 DEF Lasting
    <2>1. f.event.last \in Int
      BY DEF Inv, Reported, Judged
    <2>2. \E g \in events : Repeats(g, f.event)
      BY <1>2 DEF Inv, Lasting
    <2> QED
      BY <1>4, <2>1, <2>2
  <1>8. Scored'
    BY <1>2 DEF Inv, Scored
  <1> QED
    BY <1>1, <1>5, <1>6, <1>7, <1>8 DEF Inv

\* The request for the failure events begins: it remembers the events that are there.
LEMMA GetPodKeeps ==
  ASSUME Inv, GetPod, UNCHANGED <<world, healthScore>>
  PROVE  Inv'
  <1>1. /\ pod' = pod /\ events' = events /\ now' = now
        /\ hsPc' = hsPc /\ hsPod' = hsPod /\ hsSeen' = hsSeen /\ score' = score
        /\ fePc = "pod" /\ fePc' \in {"events", "failed"} /\ feAt' = events
        /\ feMissed' = feMissed /\ failure' = failure
    BY DEF GetPod, world, healthScore
  <1>2. World'
    BY <1>1 DEF Inv, World
  <1>3. \A e \in events : e.last \in Int /\ Repeats(e, e)
    <2>1. \A e \in events : Listable(e, now)
      BY DEF Inv, World
    <2> QED
      BY <2>1 DEF Listable, Repeats
  <1>4. Reported'
    BY <1>1, <1>3 DEF Inv, Reported, Judged
  <1>5. OngoingIsComplete'
    BY <1>1 DEF OngoingIsComplete
  <1>6. Lasting'
    BY <1>1 DEF Inv, Lasting
  <1>7. Scored'
    BY <1>1 DEF Inv, Scored
  <1> QED
    BY <1>2, <1>4, <1>5, <1>6, <1>7 DEF Inv

\* The analysis of what the API lists.
LEMMA AnalyzeKeeps ==
  ASSUME Inv, AnalyzeEvents, UNCHANGED <<world, healthScore>>
  PROVE  Inv'
  <1>1. /\ pod' = pod /\ events' = events /\ now' = now
        /\ hsPc' = hsPc /\ hsPod' = hsPod /\ hsSeen' = hsSeen /\ score' = score
        /\ fePc = "events" /\ fePc' = "done" /\ feAt' = feAt
    BY DEF AnalyzeEvents, world, healthScore
  <1>2. PICK page \in Pages \cup {{}} :
          /\ feMissed' = (page = {} /\ events # {})
          /\ \E verdict \in [Failures(page) -> UNION {Verdicts(e) : e \in Failures(page)}] :
               /\ \A e \in Failures(page) : verdict[e] \in Verdicts(e)
               /\ LET S == {[event |-> e, category |-> verdict[e].category, severity |-> verdict[e].severity,
                             advice |-> verdict[e].advice, isRecurring |-> e.count > 3] : e \in Failures(page)}
                  IN  \E f \in IF S = {} THEN {{}} ELSE {{g} : g \in MostRecent(S)} :
                        failure' = PodFailureEvents(Cardinality(page), S, f)
    BY DEF AnalyzeEvents
  <1>3. PICK verdict \in [Failures(page) -> UNION {Verdicts(e) : e \in Failures(page)}] :
          /\ \A e \in Failures(page) : verdict[e] \in Verdicts(e)
          /\ LET S == {[event |-> e, category |-> verdict[e].category, severity |-> verdict[e].severity,
                        advice |-> verdict[e].advice, isRecurring |-> e.count > 3] : e \in Failures(page)}
             IN  \E f \in IF S = {} THEN {{}} ELSE {{g} : g \in MostRecent(S)} :
                   failure' = PodFailureEvents(Cardinality(page), S, f)
    BY <1>2
  <1> DEFINE S == {[event |-> e, category |-> verdict[e].category, severity |-> verdict[e].severity,
                    advice |-> verdict[e].advice, isRecurring |-> e.count > 3] : e \in Failures(page)}
  <1>4. PICK f : failure' = PodFailureEvents(Cardinality(page), S, f)
    BY <1>3
  <1>5. /\ failure'.failureEvents = S /\ failure'.totalEvents = Cardinality(page)
        /\ failure'.ongoingIssues = identifyOngoingIssues(S)
    BY <1>4 DEF PodFailureEvents
  <1>6. page \in SUBSET events
    BY DEF Pages, kSubset
  <1>7. /\ \A g \in S : Judged(g) /\ g.event \in events
        /\ \A e \in page : e.type = "Warning" /\ Pressing(e) =>
             \E g \in Critical(S) : g.event = e
    BY <1>3, <1>6, FailuresAre DEF Inv
  <1> HIDE DEF S
  <1>8. /\ now \in Nat /\ \A e \in events : e.last \in Int /\ Repeats(e, e)
    <2>1. now \in Nat /\ \A e \in events : Listable(e, now)
      BY DEF Inv, World
    <2> QED
      BY <2>1 DEF Listable, Repeats
  <1>9. World'
    BY <1>1 DEF Inv, World
  <1>10. Reported'
    BY <1>1, <1>5, <1>7 DEF Inv, Reported, Judged
  <1>11. OngoingIsComplete'
    <2> SUFFICES ASSUME ~feMissed', NEW e \in feAt, Pressing(e),
                        e.type = "Warning", e.last > now - 5
                 PROVE  (\E g \in failure'.ongoingIssues : g.reason = e.reason) \/ failure'.totalEvents = Limit
      BY <1>1 DEF OngoingIsComplete, Pressing
    <2>0. \A g : g.reason = e.reason => Pressing(g)
      BY DEF Pressing
    <2>1. PICK g \in events : Repeats(g, e)
      BY <1>1 DEF Inv, Reported
    <2>2. e.last \in Int
      BY DEF Inv, Reported
    <2>3. g.reason = e.reason /\ g.type = "Warning" /\ g.last > now - 5
      BY <1>8, <2>1, <2>2 DEF Repeats
    <2>4. page \in Pages
      BY <1>2, <2>1
    <2>5. CASE Cardinality(events) <= Limit
      <3>1. g \in page
        BY <2>1, <2>4, <2>5 DEF Pages
      <3>2. PICK h \in Critical(S) : h.event = g
        BY <1>7, <2>0, <2>3, <3>1
      <3>3. g \in identifyOngoingIssues(S)
        BY <2>3, <3>2 DEF identifyOngoingIssues
      <3> QED
        BY <1>5, <2>3, <3>3
    <2>6. CASE ~(Cardinality(events) <= Limit)
      <3>1. Cardinality(page) = Limit
        BY <2>4, <2>6 DEF Pages, kSubset
      <3> QED
        BY <1>5, <3>1
    <2> QED
      BY <2>5, <2>6
  <1>12. Lasting'
    <2>1. hsPc' = "pod"
      BY <1>1 DEF Inv, Scored
    <2> QED
      BY <1>1, <1>5, <1>7, <1>8, <2>1 DEF Lasting
  <1>13. Scored'
    BY <1>1 DEF Inv, Scored
  <1> QED
    BY <1>9, <1>10, <1>11, <1>12, <1>13 DEF Inv

\* The pod's get for the score.
LEMMA ReadPodKeeps ==
  ASSUME Inv, fePc \in {"done", "failed"}, ReadPod, UNCHANGED <<world, failureEvents>>
  PROVE  Inv'
  <1>1. /\ pod' = pod /\ events' = events /\ now' = now
        /\ hsPc = "pod" /\ hsPc' \in {"events", "failed"} /\ hsPod' \in {pod, hsPod} /\ hsSeen' = hsSeen /\ score' = score
        /\ fePc' = fePc /\ feAt' = feAt /\ feMissed' = feMissed /\ failure' = failure
    BY DEF ReadPod, world, failureEvents
  <1>2. World'
    BY <1>1 DEF Inv, World
  <1>3. Reported'
    BY <1>1 DEF Inv, Reported, Judged
  <1>4. OngoingIsComplete'
    BY <1>1 DEF Inv, OngoingIsComplete
  <1>5. Lasting'
    BY <1>1 DEF Inv, Lasting
  <1>6. Scored'
    BY <1>1 DEF Inv, Scored, World
  <1> QED
    BY <1>2, <1>3, <1>4, <1>5, <1>6 DEF Inv

\* The score is of the pod as it was read and of the events as they are listed.
LEMMA CalculateKeeps ==
  ASSUME Inv, fePc \in {"done", "failed"}, Calculate, UNCHANGED <<world, failureEvents>>
  PROVE  Inv'
  <1>1. /\ pod' = pod /\ events' = events /\ now' = now
        /\ hsPc = "events" /\ hsPc' = "done" /\ hsPod' = hsPod /\ hsSeen' \in {events, {}}
        /\ fePc' = fePc /\ feAt' = feAt /\ feMissed' = feMissed /\ failure' = failure
    BY DEF Calculate, world, failureEvents
  <1>2. PICK overall \in OverallScores(Components(hsPod, hsSeen', now)) :
          score' = [components |-> Components(hsPod, hsSeen', now), overallScore |-> overall,
                    status |-> GetHealthStatus(overall)]
    BY DEF Calculate
  <1>3. World'
    BY <1>1 DEF Inv, World
  <1>4. Reported'
    BY <1>1 DEF Inv, Reported, Judged
  <1>5. OngoingIsComplete'
    BY <1>1 DEF Inv, OngoingIsComplete
  <1>6. Lasting'
    BY <1>1 DEF Inv, Lasting
  <1>7. Scored'
    <2>1. IsFiniteSet(hsSeen') /\ \A e \in hsSeen' : Listable(e, now)
      BY <1>1, FS_EmptySet DEF Inv, World
    <2>2. /\ score'.components = Components(hsPod, hsSeen', now)
          /\ score'.overallScore \in OverallScores(score'.components)
          /\ score'.status = GetHealthStatus(score'.overallScore)
      BY <1>2
    <2>3. hsPod' \in PodType /\ (hsPod'.reported => hsPod'.scheduled)
      BY <1>1 DEF Inv, Scored
    <2> QED
      BY <1>1, <2>1, <2>2, <2>3 DEF Scored
  <1> QED
    BY <1>3, <1>4, <1>5, <1>6, <1>7 DEF Inv

\* The invariant.
THEOREM Invariance == Spec => []Inv
  <1>1. ASSUME Inv, [Next]_vars PROVE Inv'
    <2>1. CASE Happen
      BY <1>1, <2>1, HappenKeeps
    <2>2. CASE ListFailures
      BY <1>1, <2>2, GetPodKeeps, AnalyzeKeeps DEF ListFailures, FailureNext
    <2>3. CASE Score
      BY <1>1, <2>3, ReadPodKeeps, CalculateKeeps DEF Score, ScoreNext
    <2>4. CASE UNCHANGED vars
      <3>1. /\ pod' = pod /\ events' = events /\ now' = now
            /\ hsPc' = hsPc /\ hsPod' = hsPod /\ hsSeen' = hsSeen /\ score' = score
            /\ fePc' = fePc /\ feAt' = feAt /\ feMissed' = feMissed /\ failure' = failure
        BY <2>4 DEF vars, world, failureEvents, healthScore
      <3>2. World'
        BY <1>1, <3>1 DEF Inv, World
      <3>3. Reported' /\ OngoingIsComplete' /\ Lasting'
        BY <1>1, <3>1 DEF Inv, Reported, Judged, OngoingIsComplete, Lasting
      <3>4. Scored'
        BY <1>1, <3>1 DEF Inv, Scored
      <3> QED
        BY <3>2, <3>3, <3>4 DEF Inv
    <2> QED
      BY <1>1, <2>1, <2>2, <2>3, <2>4 DEF Next, Answered
  <1> QED
    BY InitInv, <1>1, PTL DEF Spec

\* What the report of failures finds to be going on is complete: the events that
\* were there when the request began are listed when it goes on, or were repeated.
THEOREM OngoingComplete == Spec => []OngoingIsComplete
  <1>1. Inv => OngoingIsComplete
    BY DEF Inv
  <1> QED
    BY <1>1, Invariance, PTL

\* The order in which the map of patterns is ranged over decides the advice at most,
\* and the category of an ImagePullBackOff.
THEOREM OrderDecidesAdvice == Spec => []OrderDecidesOnlyAdvice
  <1>1. ASSUME Inv PROVE OrderDecidesOnlyAdvice
    <2> SUFFICES ASSUME NEW f \in failure.failureEvents, NEW v \in Verdicts(f.event), ~Compound(f.event.reason)
                 PROVE  /\ v.severity = f.severity
                        /\ v.category # f.category => f.event.reason = "ImagePullBackOff"
                        /\ v.advice # f.advice => f.event.reason \in {"CrashLoopBackOff", "ImagePullBackOff"}
      BY DEF OrderDecidesOnlyAdvice
    <2> DEFINE w == VerdictOn(f)
    <2>1. w \in Verdicts(f.event)
      BY <1>1 DEF Inv, Reported, Judged
    <2>2. w.category = f.category /\ w.severity = f.severity /\ w.advice = f.advice
      BY DEF VerdictOn
    <2> HIDE DEF w
    <2> QED
      BY <2>1, <2>2, VerdictsAre
  <1> QED
    BY <1>1, Invariance, PTL

-----------------------------------------------------------------------------

\* Restarts are added up over the containers.
LEMMA RestartsType ==
  ASSUME NEW p \in PodType
  PROVE  TotalRestarts(p) \in Nat
  <1> DEFINE f == [c \in Containers |-> p.containers[c].restarts]
             S == IF p.reported THEN Containers ELSE {}
  <1>1. \A c \in Containers : f[c] \in Nat
    BY DEF PodType, ContainerStatus
  <1>2. S \in SUBSET Containers
    OBVIOUS
  <1>3. IsFiniteSet(Containers)
    BY WorldAssumption
  <1> HIDE DEF f, S
  <1>4. SumFunctionOnSet(f, S) \in Nat
    BY <1>1, <1>2, <1>3, SumMonotone
  <1> QED
    BY <1>4 DEF TotalRestarts, f, S

\* The score of the restarts.
LEMMA RestartScoreIs ==
  ASSUME NEW restarts \in Nat, NEW age \in Nat
  PROVE  /\ RestartScore(restarts, age) \in 10..100
         /\ RestartScore(restarts, age) > 50 =>
              restarts <= 5 /\ (restarts > 0 => restarts * 60 <= age)
         /\ RestartScore(restarts, age) > 85 => restarts = 0
  <1> DEFINE base == CASE restarts = 0 -> 100 [] restarts \in 1..2 -> 85 [] restarts \in 3..5 -> 70
                       [] restarts \in 6..10 -> 50 [] restarts \in 11..20 -> 30 [] OTHER -> 10
  <1>1. RestartScore(restarts, age) = IF restarts * 60 > age THEN Max({base \div 2, 10}) ELSE base
    BY DEF RestartScore
  <1>2. /\ base \in {100, 85, 70, 50, 30, 10}
        /\ base > 50 => restarts <= 5
        /\ base = 100 <=> restarts = 0
        /\ base > 85 => restarts = 0
    OBVIOUS
  <1> HIDE DEF base
  <1>3. base \div 2 \in 5..50
    BY <1>2
  <1>4. Max({base \div 2, 10}) \in 10..50
    BY <1>3, MaxTwo
  <1> QED
    BY <1>1, <1>2, <1>4

\* The score of the containers' states.
LEMMA StateScoreIs ==
  ASSUME NEW p \in PodType
  PROVE  /\ ContainerStateScore(p) \in 0..100
         /\ ContainerStateScore(p) > 50 => \A s \in Statuses(p) : s.state \in {"running", "completed"}
         /\ ContainerStateScore(p) >= 88 =>
              \/ \E s \in Statuses(p) : s.state = "completed"
              \/ ~p.reported
              \/ 100 * Cardinality({c \in Containers : p.containers[c].ready}) >= 88 * Cardinality(Containers)
  <1> DEFINE ready == {c \in Containers : p.containers[c].ready}
             part == Cardinality(ready)
             whole == Cardinality(Containers)
             caps == {100} \cup {StateCap(p.containers[c]) : c \in Containers}
  <1>1. CASE ~p.reported
    <2>1. ContainerStateScore(p) = 100 /\ Statuses(p) = {}
      BY <1>1 DEF ContainerStateScore, Statuses
    <2> QED
      BY <1>1, <2>1
  <1>2. CASE p.reported /\ \A c \in Containers : p.containers[c].state = "running"
    <2>1. ContainerStateScore(p) = Percentage(part, whole)
      BY <1>2 DEF ContainerStateScore
    <2>2. part \in Nat /\ whole \in Nat \ {0} /\ part <= whole
      <3>1. ready \in SUBSET Containers
        OBVIOUS
      <3> HIDE DEF ready
      <3> QED
        BY <3>1, WorldAssumption, FS_Subset, FS_CardinalityType, FS_EmptySet
    <2>3. \A s \in Statuses(p) : s.state = "running"
      BY <1>2 DEF Statuses
    <2> HIDE DEF part, whole
    <2>4. /\ Percentage(part, whole) \in 0..100
          /\ Percentage(part, whole) >= 88 => 100 * part >= 88 * whole
      BY <2>2, PercentageIs
    <2> QED
      BY <2>1, <2>3, <2>4 DEF part, whole
  <1>3. CASE p.reported /\ ~\A c \in Containers : p.containers[c].state = "running"
    <2>1. ContainerStateScore(p) = Min(caps)
      BY <1>3 DEF ContainerStateScore
    <2>2. \A c \in Containers :
            /\ StateCap(p.containers[c]) \in {20, 30, 40, 50, 100}
            /\ StateCap(p.containers[c]) > 50 => p.containers[c].state \in {"running", "completed"}
      <3> SUFFICES ASSUME NEW c \in Containers
                   PROVE  /\ StateCap(p.containers[c]) \in {20, 30, 40, 50, 100}
                          /\ StateCap(p.containers[c]) > 50 => p.containers[c].state \in {"running", "completed"}
        OBVIOUS
      <3>1. p.containers[c] \in ContainerStatus
        BY DEF PodType
      <3>2. p.containers[c].state \in {"running", "waiting", "failed", "completed"}
        BY <3>1 DEF ContainerStatus
      <3> QED
        BY <3>2 DEF StateCap
    <2>3. caps \in SUBSET (0..100) /\ caps # {}
      BY <2>2
    <2>4. Min(caps) \in 0..100 /\ \A c \in Containers : Min(caps) <= StateCap(p.containers[c])
      <3>1. Min(caps) \in caps /\ \A y \in caps : Min(caps) <= y
        BY <2>3, MinCap
      <3> QED
        BY <2>3, <3>1
    <2> HIDE DEF caps
    <2>5. Min(caps) > 50 => \A c \in Containers : p.containers[c].state \in {"running", "completed"}
      BY <2>2, <2>4
    <2>6. Statuses(p) = {p.containers[c] : c \in Containers}
      BY <1>3 DEF Statuses
    <2> QED
      BY <1>3, <2>1, <2>4, <2>5, <2>6
  <1> QED
    BY <1>1, <1>2, <1>3

\* The score of the events.
LEMMA EventScoreIs ==
  ASSUME NEW list, NEW t
  PROVE  /\ EventScore(list, t) \in 30..100
         /\ \A e \in list : e.type = "Warning" /\ e.last >= t - Day =>
              /\ EventScore(list, t) <= 70
              /\ e.reason = "Unhealthy" => EventScore(list, t) <= 50
              /\ EventScore(list, t) > 40 =>
                   e.reason \notin {"Failed", "FailedScheduling", "FailedMount", "BackOff", "CrashLoopBackOff"}
  <1> DEFINE recent == {f \in list : f.type = "Warning" /\ f.last >= t - Day}
             caps == {100} \cup {EventCap(e.reason) : e \in recent}
  <1>1. \A e \in recent :
          /\ EventCap(e.reason) \in {30, 40, 50, 70}
          /\ e.reason = "Unhealthy" => EventCap(e.reason) = 50
          /\ EventCap(e.reason) > 40 =>
               e.reason \notin {"Failed", "FailedScheduling", "FailedMount", "BackOff", "CrashLoopBackOff"}
    BY DEF EventCap
  <1>2. caps \in SUBSET (30..100) /\ caps \in SUBSET (0..100) /\ caps # {}
    BY <1>1
  <1>3. EventScore(list, t) = Min(caps)
    BY DEF EventScore
  <1> HIDE DEF caps
  <1>4. Min(caps) \in caps /\ \A y \in caps : Min(caps) <= y
    BY <1>2, MinCap
  <1>5. Min(caps) \in 30..100
    BY <1>2, <1>4
  <1>6. \A e \in recent : EventCap(e.reason) \in caps
    BY DEF caps
  <1> QED
    BY <1>1, <1>3, <1>4, <1>5, <1>6

\* The score of the conditions.
LEMMA ConditionScoreIs ==
  ASSUME NEW p \in PodType
  PROVE  /\ PodConditionScore(p) \in {30, 50, 100}
         /\ PodConditionScore(p) = 30 <=> ~p.scheduled
         /\ p.reported /\ PodConditionScore(p) = 100 => \A c \in Containers : p.containers[c].ready
  <1> DEFINE caps == {100} \cup {ConditionCap[x] : x \in FalseConditions(p)}
  <1>0. PodConditionScore(p) = Min(caps)
    BY DEF PodConditionScore
  <1>1. CASE ~p.scheduled
    <2>1. caps = {100, 30}
      BY <1>1 DEF FalseConditions, ConditionCap
    <2> HIDE DEF caps
    <2>2. Min(caps) \in caps /\ \A y \in caps : Min(caps) <= y
      BY <2>1, MinCap
    <2> QED
      BY <1>0, <1>1, <2>1, <2>2
  <1>2. CASE p.scheduled /\ (p.reported => \A c \in Containers : p.containers[c].ready)
    <2>1. caps = {100}
      BY <1>2 DEF FalseConditions
    <2> HIDE DEF caps
    <2>2. Min(caps) \in caps
      BY <2>1, MinCap
    <2> QED
      BY <1>0, <1>2, <2>1, <2>2
  <1>3. CASE p.scheduled /\ p.reported /\ ~\A c \in Containers : p.containers[c].ready
    <2>1. caps = {100, 50, 60}
      BY <1>3 DEF FalseConditions, ConditionCap
    <2> HIDE DEF caps
    <2>2. Min(caps) \in caps /\ \A y \in caps : Min(caps) <= y
      BY <2>1, MinCap
    <2> QED
      BY <1>0, <1>3, <2>1, <2>2
  <1> QED
    BY <1>1, <1>2, <1>3

\* The score of the time the containers run.
LEMMA UptimeScoreIs ==
  ASSUME NEW p \in PodType, NEW t \in Nat
  PROVE  /\ UptimeScore(p, t) \in 50..100
         /\ UptimeScore(p, t) > 85 =>
              \A s \in Statuses(p) : s.state = "running" => 100 * (t - s.started) >= 95 * t
  <1> DEFINE running == {s \in Statuses(p) : s.state = "running"}
             cap(s) == CASE 100 * (t - s.started) < 50 * t -> 50
                         [] 100 * (t - s.started) \in (50 * t)..(80 * t - 1) -> 70
                         [] 100 * (t - s.started) \in (80 * t)..(95 * t - 1) -> 85
                         [] OTHER -> 100
             caps == {100} \cup {cap(s) : s \in running}
  <1>1. UptimeScore(p, t) = Min(caps)
    BY DEF UptimeScore
  <1>2. ASSUME NEW s \in running
        PROVE  cap(s) \in {50, 70, 85, 100} /\ (cap(s) > 85 => 100 * (t - s.started) >= 95 * t)
    <2>1. s.started \in Int
      BY DEF Statuses, PodType, ContainerStatus
    <2> DEFINE u == 100 * (t - s.started)
    <2>2. u \in Int
      BY <2>1
    <2> DEFINE A == u < 50 * t
               B == u \in (50 * t)..(80 * t - 1)
               C == u \in (80 * t)..(95 * t - 1)
    <2>3. cap(s) = CASE A -> 50 [] B -> 70 [] C -> 85 [] OTHER -> 100
      OBVIOUS
    <2>4. A \/ B \/ C \/ u >= 95 * t
      BY <2>2
    <2> HIDE DEF u, cap, A, B, C
    <2>5. cap(s) \in {50, 70, 85, 100} /\ (cap(s) > 85 => ~A /\ ~B /\ ~C)
      BY <2>3
    <2>6. cap(s) \in {50, 70, 85, 100} /\ (cap(s) > 85 => u >= 95 * t)
      BY <2>4, <2>5
    <2> QED
      BY <2>6 DEF u
  <1>3. caps \in SUBSET (50..100) /\ caps \in SUBSET (0..100) /\ caps # {}
    BY <1>2
  <1>4. \A s \in running : cap(s) \in caps
    OBVIOUS
  <1>5. Min(caps) \in caps /\ \A y \in caps : Min(caps) <= y
    <2> HIDE DEF caps
    <2> QED
      BY <1>3, MinCap
  <1>6. Min(caps) \in 50..100
    <2> HIDE DEF caps
    <2> QED
      BY <1>3, <1>5
  <1>7. ASSUME Min(caps) > 85, NEW s \in running PROVE 100 * (t - s.started) >= 95 * t
    <2>1. cap(s) \in {50, 70, 85, 100} /\ Min(caps) <= cap(s)
      BY <1>2, <1>4, <1>5
    <2> HIDE DEF caps, cap
    <2>2. cap(s) > 85
      BY <1>6, <1>7, <2>1
    <2> QED
      BY <1>2, <2>2
  <1> HIDE DEF caps, cap
  <1> QED
    BY <1>1, <1>6, <1>7

\* The weighted sum.
LEMMA WeightedIs ==
  ASSUME NEW c, \A k \in DOMAIN Weight : c[k] \in Nat
  PROVE  Weighted(c) = 30 * c["restarts"] + 25 * c["containerStates"] + 20 * c["events"]
                         + 15 * c["conditions"] + 10 * c["uptime"]
  <1> DEFINE f == [k \in DOMAIN Weight |-> c[k] * Weight[k]]
             K == {"restarts", "containerStates", "events", "conditions", "uptime"}
  <1>1. DOMAIN Weight = K
    BY DEF Weight
  <1>2. /\ f["restarts"] = 30 * c["restarts"] /\ f["containerStates"] = 25 * c["containerStates"]
        /\ f["events"] = 20 * c["events"] /\ f["conditions"] = 15 * c["conditions"] /\ f["uptime"] = 10 * c["uptime"]
    BY <1>1 DEF Weight
  <1>3. c["restarts"] \in Nat /\ c["containerStates"] \in Nat /\ c["events"] \in Nat /\ c["conditions"] \in Nat /\ c["uptime"] \in Nat
    BY <1>1
  <1> HIDE DEF f
  <1>4. \A k \in K : f[k] \in Int
    BY <1>2, <1>3
  <1>5. IsFiniteSet(K)
    <2> DEFINE A1 == {"restarts"}
               A2 == A1 \cup {"containerStates"}
               A3 == A2 \cup {"events"}
               A4 == A3 \cup {"conditions"}
               A5 == A4 \cup {"uptime"}
    <2>1. K = A5
      OBVIOUS
    <2>2. IsFiniteSet(A1)
      BY FS_Singleton
    <2> HIDE DEF K, A1
    <2>3. IsFiniteSet(A2)
      BY <2>2, FS_AddElement
    <2> HIDE DEF A2
    <2>4. IsFiniteSet(A3)
      BY <2>3, FS_AddElement
    <2> HIDE DEF A3
    <2>5. IsFiniteSet(A4)
      BY <2>4, FS_AddElement
    <2> HIDE DEF A4
    <2> QED
      BY <2>1, <2>5, FS_AddElement
  <1>6. SumFunctionOnSet(f, K) = f["restarts"] + SumFunctionOnSet(f, K \ {"restarts"})
    BY <1>4, <1>5, SumOut
  <1> DEFINE K4 == K \ {"restarts"}
             K3 == K4 \ {"containerStates"}
             K2 == K3 \ {"events"}
             K1 == K2 \ {"conditions"}
             K0 == K1 \ {"uptime"}
  <1>7. IsFiniteSet(K4) /\ IsFiniteSet(K3) /\ IsFiniteSet(K2) /\ IsFiniteSet(K1)
    BY <1>5, FS_Subset
  <1>8. "containerStates" \in K4 /\ "events" \in K3 /\ "conditions" \in K2 /\ "uptime" \in K1
    OBVIOUS
  <1>9. /\ \A k \in K4 : f[k] \in Int
        /\ \A k \in K3 : f[k] \in Int
        /\ \A k \in K2 : f[k] \in Int
        /\ \A k \in K1 : f[k] \in Int
    BY <1>4
  <1>10. K0 = {}
    OBVIOUS
  <1> HIDE DEF K, K4, K3, K2, K1, K0
  <1>11. SumFunctionOnSet(f, K4) = f["containerStates"] + SumFunctionOnSet(f, K3)
    BY <1>7, <1>8, <1>9, SumOut DEF K3
  <1>12. SumFunctionOnSet(f, K3) = f["events"] + SumFunctionOnSet(f, K2)
    BY <1>7, <1>8, <1>9, SumOut DEF K2
  <1>13. SumFunctionOnSet(f, K2) = f["conditions"] + SumFunctionOnSet(f, K1)
    BY <1>7, <1>8, <1>9, SumOut DEF K1
  <1>14. SumFunctionOnSet(f, K1) = f["uptime"] + 0
    <2>1. SumFunctionOnSet(f, K1) = f["uptime"] + SumFunctionOnSet(f, K0)
      BY <1>7, <1>8, <1>9, SumOut DEF K0
    <2>2. SumFunctionOnSet(f, K0) = 0
      BY <1>10, SumEmpty
    <2> QED
      BY <2>1, <2>2
  <1>15. Weighted(c) = SumFunctionOnSet(f, K)
    BY <1>1 DEF Weighted, f
  <1>16. SumFunctionOnSet(f, K) = f["restarts"] + SumFunctionOnSet(f, K4)
    BY <1>6 DEF K4
  <1> QED
    BY <1>2, <1>3, <1>11, <1>12, <1>13, <1>14, <1>15, <1>16

\* The components of a score.
LEMMA ComponentsAre ==
  ASSUME NEW p \in PodType, NEW list, NEW t \in Nat, NEW c, c = Components(p, list, t)
  PROVE  /\ DOMAIN c = DOMAIN Weight
         /\ c["restarts"] = RestartScore(TotalRestarts(p), t)
         /\ c["containerStates"] = ContainerStateScore(p)
         /\ c["events"] = EventScore(list, t)
         /\ c["conditions"] = PodConditionScore(p)
         /\ c["uptime"] = UptimeScore(p, t)
         /\ c["restarts"] \in 10..100 /\ c["containerStates"] \in 0..100 /\ c["events"] \in 30..100
         /\ c["conditions"] \in {30, 50, 100} /\ c["uptime"] \in 50..100
         /\ Weighted(c) = 30 * c["restarts"] + 25 * c["containerStates"] + 20 * c["events"]
                            + 15 * c["conditions"] + 10 * c["uptime"]
  <1>1. /\ DOMAIN c = DOMAIN Weight
        /\ DOMAIN Weight = {"restarts", "containerStates", "events", "conditions", "uptime"}
        /\ c["restarts"] = RestartScore(TotalRestarts(p), t)
        /\ c["containerStates"] = ContainerStateScore(p)
        /\ c["events"] = EventScore(list, t)
        /\ c["conditions"] = PodConditionScore(p)
        /\ c["uptime"] = UptimeScore(p, t)
    BY DEF Components, Weight
  <1>2. c["restarts"] \in 10..100
    BY <1>1, RestartsType, RestartScoreIs
  <1>3. c["containerStates"] \in 0..100
    BY <1>1, StateScoreIs
  <1>4. c["events"] \in 30..100
    BY <1>1, EventScoreIs
  <1>5. c["conditions"] \in {30, 50, 100}
    BY <1>1, ConditionScoreIs
  <1>6. c["uptime"] \in 50..100
    BY <1>1, UptimeScoreIs
  <1>7. \A k \in DOMAIN Weight : c[k] \in Nat
    BY <1>1, <1>2, <1>3, <1>4, <1>5, <1>6
  <1>8. Weighted(c) = 30 * c["restarts"] + 25 * c["containerStates"] + 20 * c["events"]
                        + 15 * c["conditions"] + 10 * c["uptime"]
    BY <1>7, WeightedIs
  <1> QED
    BY <1>1, <1>2, <1>3, <1>4, <1>5, <1>6, <1>8

\* What the overall score, rounded one way or the other, says of the sum.
LEMMA OverallIs ==
  ASSUME NEW c, Weighted(c) \in Int, 1850 <= Weighted(c), Weighted(c) <= 10000, NEW overall \in OverallScores(c)
  PROVE  /\ overall \in 18..100
         /\ GetHealthStatus(overall) = "Healthy" => Weighted(c) >= 8950
  <1>1. \/ overall = (Weighted(c) + 50) \div 100
        \/ overall = Weighted(c) \div 100
    BY DEF OverallScores
  <1>2. overall \in 18..100 /\ (overall >= 90 => Weighted(c) >= 8950)
    <2> DEFINE w == Weighted(c)
    <2>1. w \in Int /\ 1850 <= w /\ w <= 10000 /\ (overall = (w + 50) \div 100 \/ overall = w \div 100)
      BY <1>1
    <2> HIDE DEF w
    <2>2. overall \in 18..100 /\ (overall >= 90 => w >= 8950)
      BY <2>1
    <2> QED
      BY <2>2 DEF w
  <1>3. GetHealthStatus(overall) = "Healthy" => overall >= 90
    BY <1>2 DEF GetHealthStatus
  <1> QED
    BY <1>2, <1>3

\* A pod whose score makes it "Healthy", component by component.
LEMMA HealthyIs ==
  ASSUME Scored, World, hsPc = "done", NEW c, c = score.components
  PROVE  /\ score.overallScore \in 18..100
         /\ c["restarts"] = RestartScore(TotalRestarts(hsPod), now)
         /\ c["containerStates"] = ContainerStateScore(hsPod)
         /\ c["events"] = EventScore(hsSeen, now)
         /\ c["conditions"] = PodConditionScore(hsPod)
         /\ c["uptime"] = UptimeScore(hsPod, now)
         /\ c["events"] \in 30..100
         /\ score.status = "Healthy" =>
              /\ c["restarts"] > 50 /\ c["containerStates"] > 50 /\ c["events"] > 40
              /\ c["conditions"] = 50 => c["containerStates"] >= 88
              /\ c["conditions"] = 30 => c["events"] = 100
              /\ c["events"] <= 50 => c["restarts"] > 85 /\ c["conditions"] = 100 /\ c["uptime"] > 85
  <1>1. now \in Nat /\ hsPod \in PodType /\ c = Components(hsPod, hsSeen, now)
    BY DEF Scored, World
  <1>2. score.overallScore \in OverallScores(c) /\ score.status = GetHealthStatus(score.overallScore)
    BY DEF Scored
  <1>3. /\ c["restarts"] = RestartScore(TotalRestarts(hsPod), now)
        /\ c["containerStates"] = ContainerStateScore(hsPod)
        /\ c["events"] = EventScore(hsSeen, now)
        /\ c["conditions"] = PodConditionScore(hsPod)
        /\ c["uptime"] = UptimeScore(hsPod, now)
    BY <1>1, ComponentsAre
  <1>4. /\ c["restarts"] \in 10..100 /\ c["containerStates"] \in 0..100 /\ c["events"] \in 30..100
        /\ c["conditions"] \in {30, 50, 100} /\ c["uptime"] \in 50..100
        /\ Weighted(c) = 30 * c["restarts"] + 25 * c["containerStates"] + 20 * c["events"]
                           + 15 * c["conditions"] + 10 * c["uptime"]
    BY <1>1, ComponentsAre
  <1>5. /\ Weighted(c) \in Int /\ 1850 <= Weighted(c) /\ Weighted(c) <= 10000
        /\ Weighted(c) >= 8950 =>
             /\ c["restarts"] > 50 /\ c["containerStates"] > 50 /\ c["events"] > 40
             /\ c["conditions"] = 50 => c["containerStates"] >= 88
             /\ c["conditions"] = 30 => c["events"] = 100
             /\ c["events"] <= 50 => c["restarts"] > 85 /\ c["conditions"] = 100 /\ c["uptime"] > 85
    <2> DEFINE w == Weighted(c)
               r == c["restarts"]
               s == c["containerStates"]
               e == c["events"]
               k == c["conditions"]
               u == c["uptime"]
    <2> HIDE DEF w, r, s, e, k, u
    <2>1. /\ r \in 10..100 /\ s \in 0..100 /\ e \in 30..100 /\ k \in {30, 50, 100} /\ u \in 50..100
          /\ w = 30 * r + 25 * s + 20 * e + 15 * k + 10 * u
      BY <1>4 DEF w, r, s, e, k, u
    <2>2. w \in Int /\ 1850 <= w /\ w <= 10000
      BY <2>1
    <2>3. w >= 8950 => r > 50
      BY <2>1
    <2>4. w >= 8950 => s > 50
      BY <2>1
    <2>5. w >= 8950 => e > 40
      BY <2>1
    <2>6. w >= 8950 => (k = 50 => s >= 88)
      BY <2>1
    <2>7. w >= 8950 => (k = 30 => e = 100)
      BY <2>1
    <2>8. w >= 8950 => (e <= 50 => r > 85)
      BY <2>1
    <2>9. w >= 8950 => (e <= 50 => k = 100)
      BY <2>1
    <2>10. w >= 8950 => (e <= 50 => u > 85)
      BY <2>1
    <2> QED
      BY <2>2, <2>3, <2>4, <2>5, <2>6, <2>7, <2>8, <2>9, <2>10 DEF w, r, s, e, k, u
  <1>6. score.overallScore \in 18..100 /\ (score.status = "Healthy" => Weighted(c) >= 8950)
    <2>1. Weighted(c) \in Int /\ 1850 <= Weighted(c) /\ Weighted(c) <= 10000
      BY <1>5
    <2>2. /\ score.overallScore \in 18..100
          /\ GetHealthStatus(score.overallScore) = "Healthy" => Weighted(c) >= 8950
      BY <1>2, <2>1, OverallIs
    <2> QED
      BY <1>2, <2>2
  <1> QED
    <2>1. score.status = "Healthy" =>
            /\ c["restarts"] > 50 /\ c["containerStates"] > 50 /\ c["events"] > 40
            /\ c["conditions"] = 50 => c["containerStates"] >= 88
            /\ c["conditions"] = 30 => c["events"] = 100
            /\ c["events"] <= 50 => c["restarts"] > 85 /\ c["conditions"] = 100 /\ c["uptime"] > 85
      BY <1>5, <1>6
    <2> QED
      BY <1>3, <1>4, <1>6, <2>1

-----------------------------------------------------------------------------

\* The types; in particular no pod scores below 18, as the components cannot all be 0.
THEOREM TypeCorrectness == Spec => []TypeOK
  <1>1. ASSUME Inv PROVE TypeOK
    <2>1. fePc \in {"pod", "events", "done", "failed"} /\ hsPc \in {"pod", "events", "done", "failed"}
      BY <1>1 DEF Inv, Reported, Scored
    <2>2. \A e \in events : e.type \in {"Normal", "Warning"} /\ e.last <= now /\ e.count \in Nat
      <3>1. \A e \in events : Listable(e, now)
        BY <1>1 DEF Inv, World
      <3> QED
        BY <3>1 DEF Listable, Kinds
    <2>3. \A c \in Containers : pod.containers[c].state \in {"running", "waiting", "failed", "completed"}
      BY <1>1 DEF Inv, World, PodType, ContainerStatus
    <2>4. \A f \in failure.failureEvents : f.severity \in {"critical", "warning"}
      <3> SUFFICES ASSUME NEW f \in failure.failureEvents PROVE f.severity \in {"critical", "warning"}
        OBVIOUS
      <3> DEFINE w == VerdictOn(f)
      <3>1. w \in Verdicts(f.event) /\ w.severity = f.severity
        BY <1>1 DEF Inv, Reported, Judged, VerdictOn
      <3> HIDE DEF w
      <3>2. w.severity \in {"critical", "warning"}
        BY <3>1, VerdictsAre
      <3> QED
        BY <3>1, <3>2
    <2>5. CASE hsPc = "done"
      <3>1. score.overallScore \in 18..100
        BY <1>1, <2>5, HealthyIs DEF Inv
      <3> DEFINE c == score.components
      <3>2. now \in Nat /\ hsPod \in PodType /\ c = Components(hsPod, hsSeen, now)
        BY <1>1, <2>5 DEF Inv, Scored, World
      <3> HIDE DEF c
      <3>3. /\ DOMAIN c = DOMAIN Weight
            /\ c["restarts"] \in 10..100 /\ c["containerStates"] \in 0..100 /\ c["events"] \in 30..100
            /\ c["conditions"] \in {30, 50, 100} /\ c["uptime"] \in 50..100
        BY <3>2, ComponentsAre
      <3>4. DOMAIN Weight = {"restarts", "containerStates", "events", "conditions", "uptime"}
        BY DEF Weight
      <3>5. \A k \in DOMAIN c : c[k] \in 0..100
        BY <3>3, <3>4
      <3> QED
        BY <2>1, <2>2, <2>3, <2>4, <3>1, <3>5 DEF TypeOK, c
    <2>6. CASE hsPc # "done"
      <3>1. score = NoScore
        BY <1>1, <2>6 DEF Inv, Scored
      <3> DEFINE c == score.components
      <3>3. score.overallScore = 100 /\ c = [k \in DOMAIN Weight |-> 100]
        BY <3>1 DEF NoScore
      <3> HIDE DEF c
      <3>4. \A k \in DOMAIN c : c[k] = 100
        BY <3>3
      <3>2. score.overallScore \in 18..100 /\ \A k \in DOMAIN score.components : score.components[k] \in 0..100
        BY <3>3, <3>4 DEF c
      <3> QED
        BY <2>1, <2>2, <2>3, <2>4, <3>2 DEF TypeOK
    <2> QED
      BY <2>5, <2>6
  <1> QED
    BY <1>1, Invariance, PTL

\* What "Healthy" excludes, for any number of containers and of events.
THEOREM HealthyExcludes == Spec => []HealthyMeans
  <1>1. ASSUME Inv, hsPc = "done", score.status = "Healthy"
        PROVE  HealthyMeans
    <2> DEFINE c == score.components
    <2>0. World /\ Scored /\ hsPod \in PodType /\ now \in Nat
      BY <1>1 DEF Inv, Scored, World
    <2>1. /\ c["restarts"] = RestartScore(TotalRestarts(hsPod), now)
          /\ c["containerStates"] = ContainerStateScore(hsPod)
          /\ c["events"] = EventScore(hsSeen, now) /\ c["events"] \in 30..100
          /\ c["conditions"] = PodConditionScore(hsPod)
          /\ c["uptime"] = UptimeScore(hsPod, now)
          /\ c["restarts"] > 50 /\ c["containerStates"] > 50 /\ c["events"] > 40
          /\ c["conditions"] = 50 => c["containerStates"] >= 88
          /\ c["conditions"] = 30 => c["events"] = 100
          /\ c["events"] <= 50 => c["restarts"] > 85 /\ c["conditions"] = 100 /\ c["uptime"] > 85
      BY <1>1, <2>0, HealthyIs
    <2> HIDE DEF c
    <2>2. /\ TotalRestarts(hsPod) <= 5
          /\ TotalRestarts(hsPod) > 0 => TotalRestarts(hsPod) * 60 <= now
      BY <2>0, <2>1, RestartsType, RestartScoreIs
    <2>3. \A s \in Statuses(hsPod) : s.state \in {"running", "completed"}
      BY <2>0, <2>1, StateScoreIs
    <2>4. PodConditionScore(hsPod) \in {30, 50, 100}
      BY <2>0, ConditionScoreIs
    <2>5. \/ ~hsPod.reported \/ \E s \in Statuses(hsPod) : s.state = "completed"
          \/ 100 * Cardinality({d \in Containers : hsPod.containers[d].ready}) >= 88 * Cardinality(Containers)
      <3>1. CASE PodConditionScore(hsPod) # 100
        <4>1. CASE PodConditionScore(hsPod) = 50
          <5>1. ContainerStateScore(hsPod) >= 88
            BY <2>1, <4>1
          <5> QED
            BY <2>0, <5>1, StateScoreIs
        <4>2. CASE PodConditionScore(hsPod) = 30
          <5>1. ~hsPod.reported
            BY <2>0, <4>2, ConditionScoreIs DEF Scored
          <5> QED
            BY <5>1
        <4> QED
          BY <2>4, <3>1, <4>1, <4>2
      <3>2. CASE PodConditionScore(hsPod) = 100 /\ hsPod.reported
        <4>1. {d \in Containers : hsPod.containers[d].ready} = Containers
          BY <2>0, <3>2, ConditionScoreIs
        <4>2. Cardinality(Containers) \in Nat
          BY WorldAssumption, FS_CardinalityType
        <4> DEFINE n == Cardinality(Containers)
        <4>3. n \in Nat /\ Cardinality({d \in Containers : hsPod.containers[d].ready}) = n
          BY <4>1, <4>2
        <4> HIDE DEF n
        <4>4. 100 * n >= 88 * n
          BY <4>3
        <4> QED
          BY <4>3, <4>4 DEF n
      <3> QED
        BY <3>1, <3>2
    <2>6. ASSUME NEW e \in RecentWarnings
          PROVE  /\ e.reason \notin {"Failed", "FailedScheduling", "FailedMount", "BackOff", "CrashLoopBackOff"}
                 /\ hsPod.scheduled
                 /\ e.reason = "Unhealthy" => EventScore(hsSeen, now) <= 50
      <3>1. e \in hsSeen /\ e.type = "Warning" /\ e.last >= now - Day
        BY DEF RecentWarnings
      <3>2. /\ EventScore(hsSeen, now) <= 70 /\ EventScore(hsSeen, now) > 40
            /\ e.reason \notin {"Failed", "FailedScheduling", "FailedMount", "BackOff", "CrashLoopBackOff"}
            /\ e.reason = "Unhealthy" => EventScore(hsSeen, now) <= 50
        BY <2>1, <3>1, EventScoreIs
      <3>3. PodConditionScore(hsPod) # 30
        BY <2>1, <3>2
      <3> QED
        BY <2>0, <3>2, <3>3, ConditionScoreIs
    <2>7. ASSUME EventScore(hsSeen, now) <= 50
          PROVE  /\ TotalRestarts(hsPod) = 0
                 /\ \A s \in Statuses(hsPod) :
                      s.ready /\ (s.state = "running" => 100 * (now - s.started) >= 95 * now)
      <3>1. c["restarts"] > 85 /\ c["conditions"] = 100 /\ c["uptime"] > 85
        BY <2>1, <2>7
      <3>2. TotalRestarts(hsPod) = 0
        BY <2>0, <2>1, <3>1, RestartsType, RestartScoreIs
      <3>3. hsPod.reported => \A d \in Containers : hsPod.containers[d].ready
        <4>1. PodConditionScore(hsPod) = 100
          BY <2>1, <3>1
        <4> QED
          BY <2>0, <4>1, ConditionScoreIs
      <3>4. \A s \in Statuses(hsPod) : s.ready
        BY <3>3 DEF Statuses
      <3>5. \A s \in Statuses(hsPod) : s.state = "running" => 100 * (now - s.started) >= 95 * now
        BY <2>0, <2>1, <3>1, UptimeScoreIs
      <3> QED
        BY <3>2, <3>4, <3>5
    <2> QED
      BY <2>2, <2>3, <2>5, <2>6, <2>7 DEF HealthyMeans
  <1>2. Inv => HealthyMeans
    BY <1>1 DEF HealthyMeans
  <1> QED
    BY <1>2, Invariance, PTL

\* What the first request called critical lowers the score of the second, although
\* the pod went on in between.
THEOREM CriticalLowers == Spec => []CriticalIssueLowersScore
  <1>1. ASSUME Inv, hsPc = "done", hsSeen # {},
               NEW f \in Critical(failure.failureEvents), f.event.type = "Warning", f.event.last >= now - Day
        PROVE  /\ score.components["events"] <= 70
               /\ score.status = "Healthy" =>
                    \/ f.event.reason \in {"FailedAttachVolume", "ErrImagePull", "ImagePullBackOff", "OOMKilled"}
                    \/ f.event.reason \notin DOMAIN FailurePatterns
    <2>1. PICK g \in hsSeen : Repeats(g, f.event)
      BY <1>1 DEF Inv, Lasting, Critical
    <2>2. g.last \in Int /\ f.event.last \in Int /\ now \in Nat
      <3>1. g.last \in Int
        BY <1>1 DEF Inv, Scored, Listable
      <3>2. f.event.last \in Int
        BY <1>1 DEF Critical, Inv, Reported, Judged
      <3> QED
        BY <1>1, <3>1, <3>2 DEF Inv, World
    <2>3. g.type = "Warning" /\ g.reason = f.event.reason /\ g.last >= now - Day
      BY <1>1, <2>1, <2>2 DEF Repeats, Day
    <2>4. /\ score.components["events"] = EventScore(hsSeen, now)
          /\ score.status = "Healthy" => EventScore(hsSeen, now) > 40
      <3>1. /\ score.components["events"] = EventScore(hsSeen, now)
            /\ score.status = "Healthy" => score.components["events"] > 40
        BY <1>1, HealthyIs DEF Inv
      <3> QED
        BY <3>1
    <2>5. EventScore(hsSeen, now) <= 70
      BY <2>3, EventScoreIs
    <2>6. score.status = "Healthy" =>
            g.reason \notin {"Failed", "FailedScheduling", "FailedMount", "BackOff", "CrashLoopBackOff"}
      BY <2>3, <2>4, EventScoreIs
    <2> DEFINE w == VerdictOn(f)
    <2>7. w \in Verdicts(f.event) /\ w.severity = "critical"
      BY <1>1 DEF Inv, Reported, Judged, Critical, VerdictOn
    <2> HIDE DEF w
    <2>8. f.event.reason \in DOMAIN FailurePatterns =>
            f.event.reason \in {"FailedScheduling", "BackOff", "CrashLoopBackOff", "ImagePullBackOff", "ErrImagePull",
                                "FailedAttachVolume", "FailedMount", "OOMKilled"}
      BY <2>7, VerdictsAre
    <2> QED
      BY <2>3, <2>4, <2>5, <2>6, <2>8
  <1>2. Inv => CriticalIssueLowersScore
    BY <1>1 DEF CriticalIssueLowersScore
  <1> QED
    BY <1>2, Invariance, PTL

\* Only by an exit does a container that runs stop.
LEMMA OnlyExits ==
  ASSUME World, WorldNext, NEW c \in Containers,
         pod.containers[c].state = "running", pod'.containers[c].state # "running"
  PROVE  \E state \in {"failed", "completed"} : Exit(c, state)
  <1> USE DEF Set
  <1>1. /\ pod.scheduled \in BOOLEAN /\ DOMAIN pod.containers = Containers
        /\ \A d \in Containers : pod.containers[d] \in ContainerStatus
    BY DEF World, PodType
  <1>2. pod.containers[c].reason = ""
    BY DEF World
  <1>s. ASSUME NEW d \in Containers, NEW status, Set(d, status), d # c \/ status.state = "running"
        PROVE  FALSE
    <2>1. pod' = [pod EXCEPT !.containers[d] = status]
      BY <1>s
    <2>2. pod'.containers[c] = IF d = c THEN status ELSE pod.containers[c]
      BY <1>1, <2>1 DEF World, PodType
    <2> QED
      BY <1>s, <2>2
  <1>3. CASE Schedule \/ ReportStatus
    BY <1>3 DEF Schedule, ReportStatus, World, PodType
  <1>4. CASE FailScheduling \/ (\E reason \in OtherReasons : Report(reason)) \/ (\E d \in Steps : Tick(d))
    BY <1>4 DEF FailScheduling, Report, Tick
  <1> HIDE DEF Set
  <1>5. ASSUME NEW d \in Containers, Start(d) PROVE FALSE
    <2> DEFINE s == pod.containers[d]
               status == [s EXCEPT !.state = "running", !.reason = "", !.started = now,
                                   !.restarts = IF s.reason = "CrashLoopBackOff" THEN @ + 1 ELSE @]
    <2>1. status.state = "running"
      <3>1. s \in ContainerStatus
        BY <1>1
      <3> HIDE DEF s
      <3> QED
        BY <3>1 DEF ContainerStatus
    <2>2. Set(d, status)
      BY <1>5 DEF Start
    <2> HIDE DEF status
    <2> QED
      BY <1>s, <2>1, <2>2
  <1>6. ASSUME NEW d \in Containers, BecomeReady(d) PROVE FALSE
    <2> DEFINE s == pod.containers[d]
               status == [s EXCEPT !.ready = TRUE]
    <2>1. s.state = "running" /\ s \in ContainerStatus
      BY <1>1, <1>6 DEF BecomeReady
    <2>2. Set(d, status)
      BY <1>6 DEF BecomeReady
    <2>3. status.state = "running"
      <3> HIDE DEF s
      <3> QED
        BY <2>1 DEF ContainerStatus
    <2> HIDE DEF status
    <2> QED
      BY <1>s, <2>2, <2>3
  <1>7. ASSUME NEW d \in Containers, FailProbe(d) PROVE FALSE
    <2> DEFINE s == pod.containers[d]
               status == [s EXCEPT !.ready = FALSE]
    <2>1. s.state = "running" /\ s \in ContainerStatus
      BY <1>1, <1>7 DEF FailProbe
    <2>2. Set(d, status)
      BY <1>7 DEF FailProbe
    <2>3. status.state = "running"
      <3> HIDE DEF s
      <3> QED
        BY <2>1 DEF ContainerStatus
    <2> HIDE DEF status
    <2> QED
      BY <1>s, <2>2, <2>3
  <1>8. ASSUME NEW d \in Containers, BackOff(d) PROVE FALSE
    <2>1. Set(d, Waiting(pod.containers[d], "CrashLoopBackOff"))
      BY <1>8 DEF BackOff
    <2>2. d # c
      BY <1>2, <1>8 DEF BackOff
    <2> QED
      BY <1>s, <2>1, <2>2
  <1>9. ASSUME NEW d \in Containers, FailPull(d) PROVE FALSE
    <2>1. Set(d, Waiting(pod.containers[d], "ErrImagePull"))
      BY <1>9 DEF FailPull
    <2>2. d # c
      BY <1>2, <1>9 DEF FailPull
    <2> QED
      BY <1>s, <2>1, <2>2
  <1>10. ASSUME NEW d \in Containers, BackOffPull(d) PROVE FALSE
    <2>1. Set(d, Waiting(pod.containers[d], "ImagePullBackOff"))
      BY <1>10 DEF BackOffPull
    <2>2. d # c
      BY <1>2, <1>10 DEF BackOffPull
    <2> QED
      BY <1>s, <2>1, <2>2
  <1>11. ASSUME NEW d \in Containers, NEW state \in {"failed", "completed"}, Exit(d, state) PROVE d = c
    <2>1. Set(d, [pod.containers[d] EXCEPT !.state = state, !.ready = FALSE])
      BY <1>11 DEF Exit
    <2> QED
      BY <1>s, <2>1
  <1> QED
    BY <1>3, <1>4, <1>5, <1>6, <1>7, <1>8, <1>9, <1>10, <1>11 DEF WorldNext

\* By an exit the state score can only rise where every container ran and one was
\* not ready: elsewhere the caps grow in number, or the score was full.
LEMMA ExitRaises ==
  ASSUME World, pod' \in PodType, NEW c \in Containers, NEW state \in {"failed", "completed"}, Exit(c, state),
         ContainerStateScore(pod') > ContainerStateScore(pod)
  PROVE  /\ \A d \in Containers : pod.containers[d].state = "running"
         /\ \E d \in Containers : ~pod.containers[d].ready
  <1> DEFINE status == [pod.containers[c] EXCEPT !.state = state, !.ready = FALSE]
  <1>1. pod \in PodType /\ \A d \in Containers : pod.containers[d] \in ContainerStatus
    BY DEF World, PodType
  <1>2. /\ pod'.reported = pod.reported
        /\ \A d \in Containers : pod'.containers[d] = IF d = c THEN status ELSE pod.containers[d]
    BY <1>1 DEF Exit, Set, PodType
  <1>3. status.state = state
    BY <1>1 DEF ContainerStatus
  <1>4. pod.containers[c].state = "running"
    BY DEF Exit
  <1> HIDE DEF status
  <1>5. ContainerStateScore(pod) \in 0..100 /\ ContainerStateScore(pod') \in 0..100
    BY <1>1, StateScoreIs
  <1>6. pod.reported
    BY DEF Exit
  <1>7. CASE \A d \in Containers : pod.containers[d].state = "running"
    <2>1. SUFFICES ASSUME \A d \in Containers : pod.containers[d].ready PROVE FALSE
      BY <1>7
    <2>2. {d \in Containers : pod.containers[d].ready} = Containers
      BY <2>1
    <2>3. ContainerStateScore(pod) = Percentage(Cardinality(Containers), Cardinality(Containers))
      BY <1>6, <1>7, <2>2 DEF ContainerStateScore
    <2>4. Cardinality(Containers) \in Nat \ {0}
      BY WorldAssumption, FS_CardinalityType, FS_EmptySet
    <2>5. ContainerStateScore(pod) = 100
      BY <2>3, <2>4, PercentageIs
    <2> QED
      BY <1>5, <2>5
  <1>8. CASE ~\A d \in Containers : pod.containers[d].state = "running"
    <2> DEFINE caps == {100} \cup {StateCap(pod.containers[d]) : d \in Containers}
               next == {100} \cup {StateCap(pod'.containers[d]) : d \in Containers}
    <2>1. ContainerStateScore(pod) = Min(caps)
      BY <1>6, <1>8 DEF ContainerStateScore
    <2>2. ContainerStateScore(pod') = Min(next)
      BY <1>2, <1>3, <1>6 DEF ContainerStateScore
    <2>3. \A s : StateCap(s) \in {20, 30, 40, 50, 100}
      BY DEF StateCap
    <2>4. StateCap(pod.containers[c]) = 100
      BY <1>4 DEF StateCap
    <2>5. /\ caps \in SUBSET (0..100) /\ caps # {}
          /\ next \in SUBSET (0..100) /\ next # {}
      BY <2>3
    <2>6. caps \subseteq next
      BY <1>2, <2>4
    <2> HIDE DEF caps, next
    <2>7. Min(caps) \in caps /\ \A y \in next : Min(next) <= y
      BY <2>5, MinCap
    <2>8. Min(next) <= Min(caps)
      BY <2>6, <2>7
    <2> QED
      BY <1>5, <2>1, <2>2, <2>8
  <1> QED
    BY <1>7, <1>8

\* The exit of a container does not improve the state score of a pod that was well.
THEOREM ExitRaisesScore == Spec => ExitRaisesScoreOnlyIfUnready
  <1> DEFINE Stops == \E c \in Containers : pod.containers[c].state = "running" /\ pod'.containers[c].state # "running"
             Raises == ContainerStateScore(pod') > ContainerStateScore(pod)
             Unready == /\ \A c \in Containers : pod.containers[c].state = "running"
                        /\ \E c \in Containers : ~pod.containers[c].ready
  <1>1. ASSUME Inv, Inv', [Next]_vars, Stops, Raises PROVE Unready
    <2>1. PICK c \in Containers : pod.containers[c].state = "running" /\ pod'.containers[c].state # "running"
      BY <1>1
    <2>2. pod' # pod
      BY <2>1
    <2>3. WorldNext
      BY <1>1, <2>2 DEF Next, Happen, ListFailures, Score, Answered, vars, world
    <2>4. World /\ pod' \in PodType
      BY <1>1 DEF Inv, World
    <2>5. PICK state \in {"failed", "completed"} : Exit(c, state)
      BY <2>1, <2>3, <2>4, OnlyExits
    <2> HIDE DEF Unready
    <2> QED
      BY <1>1, <2>4, <2>5, ExitRaises DEF Unready
  <1>2. Inv /\ Inv' /\ [Next]_vars => [Stops /\ Raises => Unready]_vars
    BY <1>1
  <1> QED
    BY <1>2, Invariance, PTL DEF Spec, ExitRaisesScoreOnlyIfUnready
===============================================================================
