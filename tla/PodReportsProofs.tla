---------------------------- MODULE PodReportsProofs ----------------------------
(***************************************************************************)
(* Proofs about PodReports: what the dashboard alone keeps it also keeps   *)
(* beside the namespace's report; and of that report, that its counters    *)
(* agree with its pods, its order with their issues and restarts, and the  *)
(* issues of both reports with each other.                                 *)
(***************************************************************************)
EXTENDS PodReports, ClusterIssuesProofs, SumLemmas

\* The dashboard does not notice the other request.
LEMMA DashboardAlone == ReportsSpec => Spec
  <1>1. ReportsInit => Init
    BY DEF ReportsInit
  <1>2. [ReportsNext]_<<dashboard, namespaceErrors>> => [Next]_vars
    <2>1. UNCHANGED dashboard => UNCHANGED vars
      BY DEF dashboard, vars
    <2>2. Follow => UNCHANGED dashboard
      BY DEF Follow
    <2> QED
      BY <2>1, <2>2 DEF ReportsNext
  <1> QED
    BY <1>1, <1>2, PTL DEF ReportsSpec, Spec

\* What holds of the dashboard alone holds of it here (ClusterIssuesProofs).
THEOREM DashboardCorrect ==
  ReportsSpec => [](TypeOK /\ TalliesAgree /\ CutsLeaveTheLeast /\ PatternsFaithful)
  BY DashboardAlone, TypeCorrectness, TalliesCorrect, CutsCorrect, PatternsCorrect, PTL

-----------------------------------------------------------------------------

\* The sum of the module that NamespaceErrors uses is the one of SumLemmas.
LEMMA SameSum ==
  ASSUME NEW f, NEW S
  PROVE  NS!SumFunctionOnSet(f, S) = SumFunctionOnSet(f, S)
  BY Zenon DEF NS!SumFunctionOnSet, NS!FoldFunctionOnSet, NS!MapThenFoldSet,
               SumFunctionOnSet, FoldFunctionOnSet, MapThenFoldSet

\* A pod's restarts are a natural number.
LEMMA RestartsType ==
  ASSUME NEW p, IsPod(p)
  PROVE  NS!getTotalRestartCount(p) \in Int
  <1> DEFINE C == p.containers \cup p.initContainers
             f == [c \in C |-> c.restarts]
  <1>1. IsFiniteSet(C) /\ \A c \in C : f[c] \in Int
    <2>1. IsFiniteSet(C)
      BY FS_Union DEF IsPod
    <2>2. \A c \in C : f[c] = c.restarts /\ c.restarts \in Nat
      BY DEF IsPod
    <2> HIDE DEF C, f
    <2> QED
      BY <2>1, <2>2
  <1>2. NS!getTotalRestartCount(p) = SumFunctionOnSet(f, C)
    BY SameSum, Zenon DEF NS!getTotalRestartCount
  <1> HIDE DEF C, f
  <1> QED
    BY <1>1, <1>2, SumType

\* The issues of a pod: finitely many, each critical or a warning.
NsOwn(S) == IsFiniteSet(S) /\ \A i \in S : i.severity \in {"critical", "warning"}

\* What the namespace service's analyzePod finds wrong with a pod is of that kind.
LEMMA NsIssues ==
  ASSUME NEW p, IsPod(p)
  PROVE  NsOwn(NS!analyzePod(p))
  <1> DEFINE A == NS!When(NS!getTotalRestartCount(p) > Threshold, {NS!Issue("pod", "HighRestarts", "critical")})
             B == NS!When(p.phase = "Pending" /\ p.age = "old", {NS!PendingIssue(p)})
             In2(reasons) == {c \in p.containers : c.state = "waiting" /\ c.reason \in reasons}
             crash == In2({"CrashLoopBackOff"})
             pull  == In2({"ImagePullBackOff", "ErrImagePull"})
             ended == {c \in p.containers : c.state = "failed"}
             f == [c \in crash |-> NS!Issue(c.name, "CrashLoopBackOff", "critical")]
             g == [c \in pull |-> NS!Issue(c.name, "ImagePullError", "critical")]
             h == [c \in ended |-> NS!Issue(c.name, "Failed", "warning")]
             C == {f[c] : c \in crash}
             D == {g[c] : c \in pull}
             E == {h[c] : c \in ended}
  <1>1. NS!analyzePod(p) = A \cup B \cup C \cup D \cup E
    BY DEF NS!analyzePod, NS!checkContainerStatuses
  <1>n. NsOwn({})
    BY FS_EmptySet DEF NsOwn
  <1>s. ASSUME NEW i, i.severity \in {"critical", "warning"} PROVE NsOwn({i})
    BY <1>s, FS_Singleton DEF NsOwn
  <1>2. NsOwn(A)
    <2>1. A \in {{}, {NS!Issue("pod", "HighRestarts", "critical")}}
      BY DEF NS!When
    <2>2. NS!Issue("pod", "HighRestarts", "critical").severity = "critical"
      BY DEF NS!Issue
    <2> HIDE DEF A
    <2> QED
      BY <1>n, <1>s, <2>1, <2>2
  <1>3. NsOwn(B)
    <2>1. B \in {{}, {NS!PendingIssue(p)}}
      BY DEF NS!When
    <2>2. NS!PendingIssue(p).severity = "critical"
      BY DEF NS!PendingIssue, NS!Issue
    <2> HIDE DEF B
    <2> QED
      BY <1>n, <1>s, <2>1, <2>2
  <1>4. NsOwn(C) /\ NsOwn(D) /\ NsOwn(E)
    <2>0. \A where, type, severity : NS!Issue(where, type, severity).severity = severity
      BY DEF NS!Issue
    <2>1. /\ \A c \in crash : f[c].severity = "critical"
          /\ \A c \in pull : g[c].severity = "critical"
          /\ \A c \in ended : h[c].severity = "warning"
      BY <2>0
    <2>2. IsFiniteSet(crash) /\ IsFiniteSet(pull) /\ IsFiniteSet(ended)
      BY FS_Subset DEF IsPod
    <2> HIDE DEF f, g, h, crash, pull, ended
    <2>3. IsFiniteSet(C) /\ IsFiniteSet(D) /\ IsFiniteSet(E)
      BY <2>2, FiniteImage
    <2>4. NsOwn(C)
      BY <2>1, <2>3 DEF NsOwn
    <2>5. NsOwn(D)
      BY <2>1, <2>3 DEF NsOwn
    <2>6. NsOwn(E)
      BY <2>1, <2>3 DEF NsOwn
    <2> QED
      BY <2>4, <2>5, <2>6
  <1> HIDE DEF A, B, C, D, E
  <1>5. IsFiniteSet(A \cup B \cup C \cup D \cup E)
    BY <1>2, <1>3, <1>4, FS_Union DEF NsOwn
  <1> QED
    BY <1>1, <1>2, <1>3, <1>4, <1>5 DEF NsOwn

\* A list of pods, told apart by their names.
IsList(L) ==
  IsFiniteSet(L) /\ (\A p \in L : IsPod(p)) /\ (\A p, q \in L : p.name = q.name => p = q)

\* How far the second request has come, and what it has from the first.
Followed ==
  /\ nsStep \in {"idle", "analyze", "done", "failed"}
  /\ IsList(listed) /\ nsTodo \subseteq Owned /\ (nsStep # "analyze" => nsTodo = {})
  /\ nsStep = "idle" => listed = {} /\ report = NS!Emptied
  /\ DOMAIN report = DOMAIN NS!Emptied
  /\ listed # {} => step = "done" /\ Listed = cluster

\* The counters.
BySeverity(all, severity) == {x \in all : x[2].severity = severity}
ByType(all, type) == {x \in all : x[2].type = type}
TypesIn(all) == {x[2].type : x \in all}
TypeSummary(all, t) == [count |-> Cardinality(ByType(all, t)), affectedPods |-> {x[1].name : x \in ByType(all, t)}]
Summed(all) == [t \in TypesIn(all) |-> TypeSummary(all, t)]
NsCounted ==
  LET D == Owned \ nsTodo
  IN  /\ report.totalPodsAnalyzed = Cardinality(Owned)
      /\ report.problematicPodsCount = Cardinality(Problems(D))
      /\ report.criticalIssuesCount = Cardinality(BySeverity(IssuesIn(D), "critical"))
      /\ report.warningIssuesCount = Cardinality(BySeverity(IssuesIn(D), "warning"))
      /\ report.summary = Summed(IssuesIn(D))
      /\ nsStep = "done" /\ Owned # {} =>
           report.healthyPodsCount = Cardinality(Owned) - Cardinality(Problems(Owned))

\* The pods of the report.
PodEntry(e, p) ==
  /\ e.name = p.name /\ e.restartCount = NS!getTotalRestartCount(p) /\ e.issues = NS!analyzePod(p)
  /\ e.events \in NS!getRecentPodEvents(p) \cup {{}}
NsEntries ==
  /\ IsFiniteSet(report.problematicPods)
  /\ \A e \in report.problematicPods : \E p \in Problems(Owned \ nsTodo) : PodEntry(e, p)
  /\ \A p \in Problems(Owned \ nsTodo) : \E e \in report.problematicPods : PodEntry(e, p)
  /\ \A e, f \in report.problematicPods : e.name = f.name => e = f

\* Their order.
NsOrdered ==
  nsStep = "done" =>
    /\ {report.order[i] : i \in DOMAIN report.order} = {e.name : e \in report.problematicPods}
    /\ \A i, j \in DOMAIN report.order : i < j =>
         \A e, f \in report.problematicPods :
           e.name = report.order[i] /\ f.name = report.order[j] => ~NS!Before(f, e)

NsInv == Followed /\ NsCounted /\ NsEntries /\ NsOrdered

-----------------------------------------------------------------------------

\* The owned pods of a list are some of its pods.
LEMMA OwnedIs ==
  ASSUME Followed
  PROVE  /\ Owned \subseteq listed /\ IsFiniteSet(Owned) /\ \A p \in Owned : IsPod(p)
         /\ \A p, q \in Owned : p.name = q.name => p = q
  <1>1. Owned \subseteq listed
    BY DEF Owned, NS!filterPodsByOwner
  <1> QED
    BY <1>1, FS_Subset DEF Followed, IsList

\* Issues with their pod.
With(p, S) == {p} \X S

\* The issues of some pods are as many as those of one more, and its own.
LEMMA IssuesGrow ==
  ASSUME NEW A, NEW p, p \notin A
  PROVE  /\ IssuesIn(A \cup {p}) = IssuesIn(A) \cup With(p, NS!analyzePod(p))
         /\ IssuesIn(A) \cap With(p, NS!analyzePod(p)) = {}
  BY DEF IssuesIn, With

\* They are as many as the issues.
LEMMA WithCount ==
  ASSUME NEW p, NEW S, IsFiniteSet(S)
  PROVE  IsFiniteSet(With(p, S)) /\ Cardinality(With(p, S)) = Cardinality(S)
  <1>1. IsFiniteSet({p}) /\ Cardinality({p}) = 1
    BY FS_Singleton
  <1>2. IsFiniteSet({p} \X S) /\ Cardinality({p} \X S) = Cardinality({p}) * Cardinality(S)
    BY <1>1, FS_Product
  <1>3. Cardinality(S) \in Nat
    BY FS_CardinalityType
  <1> QED
    BY <1>1, <1>2, <1>3 DEF With

\* Finitely many pods have finitely many, each critical or a warning.
LEMMA IssuesFinite ==
  ASSUME NEW A, IsFiniteSet(A), \A p \in A : IsPod(p)
  PROVE  IsFiniteSet(IssuesIn(A)) /\ \A x \in IssuesIn(A) : x[2].severity \in {"critical", "warning"}
  <1> DEFINE f == [p \in A |-> With(p, NS!analyzePod(p))]
             T == {f[p] : p \in A}
  <1>1. IssuesIn(A) = UNION T
    BY DEF IssuesIn, With
  <1>2. IsFiniteSet(T)
    <2> HIDE DEF f
    <2> QED
      BY FiniteImage
  <1>3. ASSUME NEW p \in A PROVE IsFiniteSet(With(p, NS!analyzePod(p)))
    BY NsIssues, WithCount DEF NsOwn
  <1>4. \A S \in T : IsFiniteSet(S)
    BY <1>3
  <1>5. \A x \in IssuesIn(A) : x[2].severity \in {"critical", "warning"}
    BY NsIssues DEF IssuesIn, NsOwn
  <1> HIDE DEF T
  <1>6. IsFiniteSet(UNION T)
    BY <1>2, <1>4, FS_UNION
  <1> QED
    BY <1>1, <1>5, <1>6

\* So the counts of each severity and of each type add up.
LEMMA NsCountsAdd ==
  ASSUME NEW all, IsFiniteSet(all), NEW p, NEW S, IsFiniteSet(S), all \cap With(p, S) = {}, NEW x
  PROVE  /\ Cardinality(BySeverity(all \cup With(p, S), x)) = Cardinality(BySeverity(all, x)) + Cardinality(NS!As(S, x))
         /\ Cardinality(ByType(all \cup With(p, S), x)) = Cardinality(ByType(all, x)) + Cardinality(NS!OfType(S, x))
  <1>1. ASSUME NEW U \in SUBSET all, NEW V \in SUBSET S
        PROVE  Cardinality(U \cup With(p, V)) = Cardinality(U) + Cardinality(V)
    <2>1. IsFiniteSet(U) /\ IsFiniteSet(V)
      BY FS_Subset
    <2>2. U \cap With(p, V) = {}
      BY DEF With
    <2>3. IsFiniteSet(With(p, V)) /\ Cardinality(With(p, V)) = Cardinality(V)
      BY <2>1, WithCount
    <2> QED
      BY <2>1, <2>2, <2>3, DisjointCount
  <1>2. /\ BySeverity(all, x) \in SUBSET all /\ NS!As(S, x) \in SUBSET S
        /\ BySeverity(all \cup With(p, S), x) = BySeverity(all, x) \cup With(p, NS!As(S, x))
    BY DEF BySeverity, NS!As, With
  <1>3. /\ ByType(all, x) \in SUBSET all /\ NS!OfType(S, x) \in SUBSET S
        /\ ByType(all \cup With(p, S), x) = ByType(all, x) \cup With(p, NS!OfType(S, x))
    BY DEF ByType, NS!OfType, With
  <1> QED
    BY <1>1, <1>2, <1>3

-----------------------------------------------------------------------------

\* The modules count alike.
LEMMA SameCount ==
  ASSUME NEW S
  PROVE  NS!Cardinality(S) = Cardinality(S)
  BY Zenon DEF NS!Cardinality, Cardinality

\* Nothing is reported before the second request.
LEMMA NsEmpty ==
  /\ Problems({}) = {} /\ IssuesIn({}) = {} /\ Cardinality({}) = 0
  /\ \A x : BySeverity({}, x) = {}
  /\ NS!Emptied.summary = Summed({})
  <1>1. TypesIn({}) = {}
    BY DEF TypesIn
  <1>2. NS!Emptied.summary = Summed({})
    BY <1>1 DEF NS!Emptied, Summed
  <1> QED
    BY <1>2, FS_EmptySet DEF Problems, IssuesIn, BySeverity

\* Before it is asked for, the report is empty and nothing has been listed.
LEMMA NsInvInit == ReportsInit => NsInv
  <1> SUFFICES ASSUME ReportsInit PROVE NsInv
    OBVIOUS
  <1>1. listed = {} /\ nsStep = "idle" /\ nsTodo = {} /\ report = NS!Emptied
    BY DEF ReportsInit, NS!Init
  <1>2. Owned = {} /\ Owned \ nsTodo = {}
    BY <1>1 DEF Owned, NS!filterPodsByOwner
  <1>3. Followed
    BY <1>1, FS_EmptySet DEF Followed, IsList
  <1>4. NsCounted
    <2>1. /\ report.totalPodsAnalyzed = 0 /\ report.problematicPodsCount = 0
          /\ report.criticalIssuesCount = 0 /\ report.warningIssuesCount = 0
          /\ report.summary = NS!Emptied.summary
      BY <1>1 DEF NS!Emptied
    <2> QED
      BY <1>2, <2>1, NsEmpty DEF NsCounted
  <1>5. NsEntries
    <2>1. report.problematicPods = {}
      BY <1>1 DEF NS!Emptied
    <2> QED
      BY <1>2, <2>1, NsEmpty, FS_EmptySet DEF NsEntries
  <1>6. NsOrdered
    BY <1>1 DEF NsOrdered
  <1> QED
    BY <1>3, <1>4, <1>5, <1>6 DEF NsInv

\* A pod that has aged is a pod.
LEMMA OlderIs ==
  ASSUME NEW p, IsPod(p)
  PROVE  IsPod(Older(p)) /\ Older(p).name = p.name
  BY DEF IsPod, Older

\* The second request lists pods of which one may have aged or gone.
LEMMA NsInvFollow ==
  ASSUME Inv, NsInv, Follow
  PROVE  NsInv'
  <1>1. step = "done" /\ Listed = cluster /\ UNCHANGED dashboard
    BY DEF Follow
  <1>2. PICK p \in Listed : \E now \in {{}, {p}, {Older(p)}} : NS!List((Listed \ {p}) \cup now)
    BY DEF Follow
  <1>3. PICK now \in {{}, {p}, {Older(p)}} : NS!List((Listed \ {p}) \cup now)
    BY <1>2
  <1> DEFINE L == (Listed \ {p}) \cup now
             O == NS!filterPodsByOwner(L)
  <1>4. Listed' = Listed /\ cluster' = cluster /\ step' = step
    BY <1>1 DEF dashboard, Listed
  <1>5. /\ Listed \in SUBSET Pods /\ IsFiniteSet(Listed) /\ (\A q \in Listed : IsPod(q))
        /\ \A q, r \in Listed : q.name = r.name => q = r
    BY ListedIs, ReportsAssumption, PodsAssumption DEF Inv
  <1>6. IsList(L)
    <2>1. IsFiniteSet(L)
      <3>1. IsFiniteSet(now)
        <4>1. IsFiniteSet({}) /\ IsFiniteSet({p}) /\ IsFiniteSet({Older(p)})
          BY FS_EmptySet, FS_Singleton
        <4>2. now = {} \/ now = {p} \/ now = {Older(p)}
          OBVIOUS
        <4> QED
          BY <4>1, <4>2
      <3> QED
        BY <1>5, <3>1, FS_Subset, FS_Union
    <2>2. \A q \in now : IsPod(q) /\ q.name = p.name
      BY <1>5, OlderIs
    <2>3. \A q, r \in now : q = r
      OBVIOUS
    <2>4. \A q \in L : IsPod(q)
      BY <1>5, <2>2
    <2>5. ASSUME NEW q \in L, NEW r \in L, q.name = r.name PROVE q = r
      BY <1>5, <2>2, <2>3, <2>5
    <2> QED
      BY <2>1, <2>4, <2>5 DEF IsList
  <1>7. nsStep = "idle" /\ listed = {} /\ nsTodo = {} /\ report = NS!Emptied
    BY <1>3 DEF NsInv, Followed, NS!List
  <1> HIDE DEF L
  <1>8. \/ /\ listed' = L /\ nsTodo' = O /\ nsStep' = "analyze"
           /\ report' = [report EXCEPT !.totalPodsAnalyzed = Cardinality(O)]
        \/ nsStep' \in {"done", "failed"} /\ UNCHANGED <<listed, nsTodo, report>>
    BY <1>3, SameCount DEF NS!List, L
  <1>9. /\ Owned' \ nsTodo' = {} /\ nsTodo' \subseteq Owned' /\ (nsStep' # "analyze" => nsTodo' = {})
        /\ (nsStep' # "analyze" => Owned' = {} /\ listed' = {}) /\ IsList(listed')
    <2>1. CASE nsStep' = "analyze"
      BY <1>6, <1>8, <2>1 DEF Owned
    <2>2. CASE nsStep' # "analyze"
      BY <1>7, <1>8, <2>2, FS_EmptySet DEF Owned, IsList, NS!filterPodsByOwner
    <2> QED
      BY <2>1, <2>2
  <1>10. /\ report'.totalPodsAnalyzed = Cardinality(Owned')
         /\ report'.problematicPodsCount = 0 /\ report'.criticalIssuesCount = 0 /\ report'.warningIssuesCount = 0
         /\ report'.summary = NS!Emptied.summary /\ report'.problematicPods = {} /\ report'.order = << >>
         /\ DOMAIN report' = DOMAIN NS!Emptied
    <2>1. CASE nsStep' = "analyze"
      <3>1. report' = [NS!Emptied EXCEPT !.totalPodsAnalyzed = Cardinality(O)] /\ Owned' = O
        BY <1>7, <1>8, <2>1 DEF Owned
      <3> HIDE DEF O
      <3> QED
        BY <3>1 DEF NS!Emptied
    <2>2. CASE nsStep' # "analyze"
      <3>1. report' = NS!Emptied /\ Cardinality(Owned') = 0
        BY <1>7, <1>8, <1>9, <2>2, FS_EmptySet
      <3> QED
        BY <3>1 DEF NS!Emptied
    <2> QED
      BY <2>1, <2>2
  <1>11. Followed'
    BY <1>1, <1>4, <1>8, <1>9, <1>10 DEF Followed
  <1>12. NsCounted'
    BY <1>8, <1>9, <1>10, NsEmpty DEF NsCounted
  <1>13. NsEntries'
    BY <1>9, <1>10, NsEmpty, FS_EmptySet DEF NsEntries
  <1>14. NsOrdered'
    BY <1>10 DEF NsOrdered
  <1> QED
    BY <1>11, <1>12, <1>13, <1>14 DEF NsInv

\* The dashboard's own steps come before, or change nothing.
LEMMA NsInvBeside ==
  ASSUME NsInv, [Next]_vars, UNCHANGED namespaceErrors
  PROVE  NsInv'
  <1>1. UNCHANGED <<listed, nsStep, nsTodo, report>> /\ Owned' = Owned
    BY DEF namespaceErrors, Owned
  <1>2. step = "done" => UNCHANGED vars
    BY DEF Next, List, NextPod, Finish, Returned
  <1>3. listed # {} => step' = "done" /\ Listed' = cluster'
    BY <1>2 DEF NsInv, Followed, vars, Listed
  <1>4. Followed'
    BY <1>1, <1>3 DEF NsInv, Followed
  <1>5. NsCounted'
    BY <1>1 DEF NsInv, NsCounted
  <1>6. NsEntries'
    BY <1>1 DEF NsInv, NsEntries
  <1>7. NsOrdered'
    BY <1>1 DEF NsInv, NsOrdered
  <1> QED
    BY <1>4, <1>5, <1>6, <1>7 DEF NsInv

-----------------------------------------------------------------------------

\* A type's entry of the summary grows by the pod's issues of that type.
LEMMA SummaryGrows ==
  ASSUME NEW all, IsFiniteSet(all), NEW p, NEW S, IsFiniteSet(S), all \cap With(p, S) = {},
         report.summary = Summed(all), NEW t
  PROVE  NS!SummaryEntry(t, p, S) = TypeSummary(all \cup With(p, S), t)
  <1> DEFINE own == NS!OfType(S, t)
             more == ByType(all \cup With(p, S), t)
             names == {x[1].name : x \in ByType(all, t)}
             old == IF t \in DOMAIN report.summary THEN report.summary[t] ELSE [count |-> 0, affectedPods |-> {}]
  <1>1. old = [count |-> Cardinality(ByType(all, t)), affectedPods |-> names]
    <2>1. CASE t \in TypesIn(all)
      BY <2>1 DEF Summed, TypeSummary
    <2>2. CASE t \notin TypesIn(all)
      <3>1. ByType(all, t) = {}
        BY <2>2 DEF ByType, TypesIn
      <3>2. Cardinality(ByType(all, t)) = 0 /\ names = {}
        BY <3>1, FS_EmptySet
      <3>3. old = [count |-> 0, affectedPods |-> {}]
        BY <2>2 DEF Summed
      <3> HIDE DEF old, names
      <3> QED
        BY <3>2, <3>3
    <2> QED
      BY <2>1, <2>2
  <1>2. Cardinality(more) = Cardinality(ByType(all, t)) + Cardinality(own)
    BY NsCountsAdd
  <1>3. {x[1].name : x \in more} = names \cup NS!When(own # {}, {p.name})
    <2>1. more = ByType(all, t) \cup With(p, own)
      BY DEF ByType, NS!OfType, With
    <2>2. {x[1].name : x \in With(p, own)} = NS!When(own # {}, {p.name})
      <3> HIDE DEF own
      <3>1. CASE own = {}
        BY <3>1 DEF NS!When, With
      <3>2. CASE own # {}
        <4>1. PICK i \in own : TRUE
          BY <3>2
        <4>2. <<p, i>> \in With(p, own) /\ \A x \in With(p, own) : x[1] = p
          BY <4>1 DEF With
        <4>3. {x[1].name : x \in With(p, own)} = {p.name}
          BY <4>2
        <4> QED
          BY <3>2, <4>3 DEF NS!When
      <3> QED
        BY <3>1, <3>2
    <2> HIDE DEF more, own
    <2> QED
      BY <2>1, <2>2
  <1>4. NS!SummaryEntry(t, p, S) =
          [count |-> old.count + Cardinality(own), affectedPods |-> old.affectedPods \cup NS!When(own # {}, {p.name})]
    BY SameCount DEF NS!SummaryEntry
  <1> HIDE DEF own, more, names, old
  <1>5. NS!SummaryEntry(t, p, S) = [count |-> Cardinality(more), affectedPods |-> {x[1].name : x \in more}]
    BY <1>1, <1>2, <1>3, <1>4
  <1> QED
    BY <1>5 DEF more, TypeSummary

\* Types are those of the pods before and the pod's own.
LEMMA TypesAdd ==
  ASSUME NEW all, NEW p, NEW S
  PROVE  TypesIn(all \cup With(p, S)) = TypesIn(all) \cup NS!TypesOf(S)
  <1>1. TypesIn(all \cup With(p, S)) = TypesIn(all) \cup TypesIn(With(p, S))
    BY DEF TypesIn
  <1>2. ASSUME NEW i \in S PROVE i.type \in TypesIn(With(p, S))
    <2>1. <<p, i>> \in With(p, S) /\ <<p, i>>[2] = i
      BY DEF With
    <2> QED
      BY <2>1 DEF TypesIn
  <1>3. \A x \in With(p, S) : x[2] \in S
    BY DEF With
  <1>4. TypesIn(With(p, S)) = NS!TypesOf(S)
    BY <1>2, <1>3 DEF TypesIn, NS!TypesOf
  <1> QED
    BY <1>1, <1>4

\* What a turn of the second loop does to the report.
LEMMA NsReported ==
  ASSUME NsInv, NEW p \in nsTodo, NS!NextPod(p)
  PROVE  LET T == NS!analyzePod(p)
         IN  /\ DOMAIN report' = DOMAIN NS!Emptied /\ report'.totalPodsAnalyzed = report.totalPodsAnalyzed
             /\ T = {} => report' = report
             /\ T # {} =>
                  /\ report'.problematicPodsCount = report.problematicPodsCount + 1
                  /\ report'.criticalIssuesCount = report.criticalIssuesCount + Cardinality(NS!As(T, "critical"))
                  /\ report'.warningIssuesCount = report.warningIssuesCount + Cardinality(NS!As(T, "warning"))
                  /\ report'.summary = [t \in DOMAIN report.summary \cup NS!TypesOf(T) |-> NS!SummaryEntry(t, p, T)]
                  /\ \E e : PodEntry(e, p) /\ report'.problematicPods = report.problematicPods \cup {e}
  <1> DEFINE T == NS!analyzePod(p)
  <1>1. DOMAIN report = DOMAIN NS!Emptied
    BY DEF NsInv, Followed
  <1>2. {"totalPodsAnalyzed", "problematicPodsCount", "criticalIssuesCount", "warningIssuesCount", "summary",
         "problematicPods"} \subseteq DOMAIN NS!Emptied
    BY DEF NS!Emptied
  <1>3. CASE T = {}
    BY <1>1, <1>3 DEF NS!NextPod
  <1>4. CASE T # {}
    <2>1. PICK events \in NS!getRecentPodEvents(p) \cup {{}} :
            report' = [report EXCEPT
                  !.problematicPodsCount = @ + 1,
                  !.problematicPods = @ \cup {[name |-> p.name, restartCount |-> NS!getTotalRestartCount(p),
                                               issues |-> T, events |-> events]},
                  !.criticalIssuesCount = @ + Cardinality(NS!As(T, "critical")),
                  !.warningIssuesCount = @ + Cardinality(NS!As(T, "warning")),
                  !.summary = [t \in DOMAIN @ \cup NS!TypesOf(T) |-> NS!SummaryEntry(t, p, T)]]
      BY <1>4, SameCount DEF NS!NextPod
    <2> DEFINE e == [name |-> p.name, restartCount |-> NS!getTotalRestartCount(p), issues |-> T, events |-> events]
    <2>2. PodEntry(e, p)
      BY DEF PodEntry
    <2>3. report'.problematicPods = report.problematicPods \cup {e}
      BY <1>1, <1>2, <2>1
    <2>4. /\ DOMAIN report' = DOMAIN NS!Emptied /\ report'.totalPodsAnalyzed = report.totalPodsAnalyzed
          /\ report'.problematicPodsCount = report.problematicPodsCount + 1
          /\ report'.criticalIssuesCount = report.criticalIssuesCount + Cardinality(NS!As(T, "critical"))
          /\ report'.warningIssuesCount = report.warningIssuesCount + Cardinality(NS!As(T, "warning"))
          /\ report'.summary = [t \in DOMAIN report.summary \cup NS!TypesOf(T) |-> NS!SummaryEntry(t, p, T)]
      BY <1>1, <1>2, <2>1
    <2> HIDE DEF e
    <2>5. \E d : PodEntry(d, p) /\ report'.problematicPods = report.problematicPods \cup {d}
      BY <2>2, <2>3
    <2> QED
      BY <1>4, <2>4, <2>5
  <1> QED
    BY <1>3, <1>4

\* The pod is one more of those analysed.
LEMMA NsPodJoins ==
  ASSUME NsInv, NEW p \in nsTodo, NS!NextPod(p)
  PROVE  /\ nsStep = "analyze" /\ nsStep' = nsStep /\ listed' = listed /\ nsTodo' = nsTodo \ {p} /\ Owned' = Owned
         /\ IsFiniteSet(Owned \ nsTodo) /\ (\A q \in Owned \ nsTodo : IsPod(q)) /\ IsPod(p) /\ p \notin Owned \ nsTodo
         /\ Owned' \ nsTodo' = (Owned \ nsTodo) \cup {p}
         /\ IsFiniteSet(NS!analyzePod(p)) /\ IsFiniteSet(IssuesIn(Owned \ nsTodo))
  <1>1. nsStep = "analyze" /\ nsStep' = nsStep /\ listed' = listed /\ nsTodo' = nsTodo \ {p} /\ Owned' = Owned
    BY DEF NS!NextPod, Owned
  <1>2. nsTodo \subseteq Owned /\ IsFiniteSet(Owned) /\ \A q \in Owned : IsPod(q)
    BY OwnedIs DEF NsInv, Followed
  <1>3. IsFiniteSet(Owned \ nsTodo)
    BY <1>2, FS_Subset
  <1>4. IsFiniteSet(NS!analyzePod(p)) /\ IsFiniteSet(IssuesIn(Owned \ nsTodo))
    BY <1>2, <1>3, NsIssues, IssuesFinite DEF NsOwn
  <1> QED
    BY <1>1, <1>2, <1>3, <1>4

\* The counters of the namespace's report stay those of the pods analysed.
LEMMA NsPodCounted ==
  ASSUME NsInv, NEW p \in nsTodo, NS!NextPod(p)
  PROVE  NsCounted'
  <1> DEFINE A == Owned \ nsTodo
             T == NS!analyzePod(p)
             all == IssuesIn(A)
             new == IssuesIn(A \cup {p})
  <1>1. /\ nsStep' = "analyze" /\ Owned' = Owned /\ IsFiniteSet(A) /\ p \notin A /\ Owned' \ nsTodo' = A \cup {p}
        /\ IsFiniteSet(T) /\ IsFiniteSet(all)
    BY NsPodJoins
  <1>2. new = all \cup With(p, T) /\ all \cap With(p, T) = {}
    BY <1>1, IssuesGrow
  <1>3. /\ report.totalPodsAnalyzed = Cardinality(Owned) /\ report.problematicPodsCount = Cardinality(Problems(A))
        /\ report.criticalIssuesCount = Cardinality(BySeverity(all, "critical"))
        /\ report.warningIssuesCount = Cardinality(BySeverity(all, "warning"))
        /\ report.summary = Summed(all)
    BY DEF NsInv, NsCounted
  <1>4. report'.totalPodsAnalyzed = Cardinality(Owned')
    BY <1>1, <1>3, NsReported
  <1>5. CASE T = {}
    <2>1. report' = report
      BY <1>5, NsReported
    <2>2. Problems(A \cup {p}) = Problems(A) /\ new = all
      BY <1>2, <1>5 DEF Problems, With
    <2> HIDE DEF A, all, new
    <2>3. /\ report'.problematicPodsCount = Cardinality(Problems(A \cup {p}))
          /\ report'.criticalIssuesCount = Cardinality(BySeverity(new, "critical"))
          /\ report'.warningIssuesCount = Cardinality(BySeverity(new, "warning"))
          /\ report'.summary = Summed(new)
      BY <1>3, <2>1, <2>2
    <2> QED
      BY <1>1, <1>4, <2>3 DEF NsCounted, new
  <1>6. CASE T # {}
    <2>1. report'.problematicPodsCount = Cardinality(Problems(A \cup {p}))
      <3>1. Problems(A \cup {p}) = Problems(A) \cup {p} /\ p \notin Problems(A) /\ Problems(A) \subseteq A
        BY <1>1, <1>6 DEF Problems
      <3>2. IsFiniteSet(Problems(A))
        BY <1>1, <3>1, FS_Subset
      <3>3. Cardinality(Problems(A) \cup {p}) = Cardinality(Problems(A)) + 1
        BY <3>1, <3>2, FS_AddElement
      <3> QED
        BY <1>3, <1>6, <3>1, <3>3, NsReported
    <2>2. /\ report'.criticalIssuesCount = Cardinality(BySeverity(new, "critical"))
          /\ report'.warningIssuesCount = Cardinality(BySeverity(new, "warning"))
      <3>1. /\ report'.criticalIssuesCount = report.criticalIssuesCount + Cardinality(NS!As(T, "critical"))
            /\ report'.warningIssuesCount = report.warningIssuesCount + Cardinality(NS!As(T, "warning"))
        BY <1>6, NsReported
      <3> HIDE DEF A, T, all, new
      <3>2. /\ Cardinality(BySeverity(all \cup With(p, T), "critical"))
                 = Cardinality(BySeverity(all, "critical")) + Cardinality(NS!As(T, "critical"))
            /\ Cardinality(BySeverity(all \cup With(p, T), "warning"))
                 = Cardinality(BySeverity(all, "warning")) + Cardinality(NS!As(T, "warning"))
        BY <1>1, <1>2, NsCountsAdd
      <3> QED
        BY <1>2, <1>3, <3>1, <3>2
    <2>3. report'.summary = Summed(new)
      <3>1. report'.summary = [t \in DOMAIN report.summary \cup NS!TypesOf(T) |-> NS!SummaryEntry(t, p, T)]
        BY <1>6, NsReported
      <3>2. DOMAIN report.summary = TypesIn(all)
        BY <1>3 DEF Summed
      <3>3. TypesIn(all) \cup NS!TypesOf(T) = TypesIn(all \cup With(p, T))
        BY TypesAdd
      <3> HIDE DEF A, T, all, new
      <3>4. ASSUME NEW t PROVE NS!SummaryEntry(t, p, T) = TypeSummary(new, t)
        BY <1>1, <1>2, <1>3, SummaryGrows
      <3>5. report'.summary = [t \in TypesIn(new) |-> NS!SummaryEntry(t, p, T)]
        BY <1>2, <3>1, <3>2, <3>3
      <3> QED
        BY <3>4, <3>5 DEF Summed
    <2> HIDE DEF A
    <2> QED
      BY <1>1, <1>4, <2>1, <2>2, <2>3 DEF NsCounted
  <1> QED
    BY <1>5, <1>6

\* Its entries stay theirs too.
LEMMA NsPodEntered ==
  ASSUME NsInv, NEW p \in nsTodo, NS!NextPod(p)
  PROVE  NsEntries'
  <1> DEFINE A == Owned \ nsTodo
             T == NS!analyzePod(p)
  <1>1. Owned' \ nsTodo' = A \cup {p} /\ p \notin A /\ A \subseteq Owned /\ p \in Owned
    BY NsPodJoins DEF NsInv, Followed
  <1>2. /\ IsFiniteSet(report.problematicPods)
        /\ \A e \in report.problematicPods : \E q \in Problems(A) : PodEntry(e, q)
        /\ \A q \in Problems(A) : \E e \in report.problematicPods : PodEntry(e, q)
        /\ \A e, f \in report.problematicPods : e.name = f.name => e = f
    BY DEF NsInv, NsEntries
  <1>3. \A q, r \in Owned : q.name = r.name => q = r
    BY OwnedIs DEF NsInv
  <1> HIDE DEF A
  <1>4. CASE T = {}
    <2>1. report' = report
      BY <1>4, NsReported
    <2>2. Problems(A \cup {p}) = Problems(A)
      BY <1>4 DEF Problems
    <2> QED
      BY <1>1, <1>2, <2>1, <2>2 DEF NsEntries
  <1>5. CASE T # {}
    <2>1. PICK e : PodEntry(e, p) /\ report'.problematicPods = report.problematicPods \cup {e}
      BY <1>5, NsReported
    <2>2. Problems(A \cup {p}) = Problems(A) \cup {p} /\ Problems(A) \subseteq A
      BY <1>5 DEF Problems
    <2>3. IsFiniteSet(report'.problematicPods)
      BY <1>2, <2>1, FS_AddElement
    <2>4. ASSUME NEW f \in report.problematicPods PROVE f.name # e.name
      <3>1. PICK q \in Problems(A) : PodEntry(f, q)
        BY <1>2
      <3>2. q \in Owned /\ q # p
        BY <1>1, <2>2
      <3> QED
        BY <1>1, <1>3, <2>1, <3>1, <3>2 DEF PodEntry
    <2>5. \A f, g \in report'.problematicPods : f.name = g.name => f = g
      BY <1>2, <2>1, <2>4
    <2> HIDE DEF T
    <2>6. ASSUME NEW f \in report'.problematicPods PROVE \E q \in Problems(A \cup {p}) : PodEntry(f, q)
      <3>1. f \in report.problematicPods \/ f = e
        BY <2>1
      <3> QED
        BY <1>2, <2>1, <2>2, <3>1, Zenon
    <2>7. ASSUME NEW q \in Problems(A \cup {p}) PROVE \E f \in report'.problematicPods : PodEntry(f, q)
      <3>1. q \in Problems(A) \/ q = p
        BY <2>2
      <3>2. e \in report'.problematicPods /\ report.problematicPods \subseteq report'.problematicPods
        BY <2>1
      <3> QED
        BY <1>2, <2>1, <3>1, <3>2
    <2> QED
      BY <1>1, <2>3, <2>5, <2>6, <2>7 DEF NsEntries
  <1> QED
    BY <1>4, <1>5

\* Altogether a turn of the second loop keeps the invariant.
LEMMA NsInvNextPod ==
  ASSUME NsInv, NEW p \in nsTodo, NS!NextPod(p), UNCHANGED dashboard
  PROVE  NsInv'
  <1>1. /\ nsStep = "analyze" /\ nsStep' = nsStep /\ listed' = listed /\ nsTodo' = nsTodo \ {p} /\ Owned' = Owned
    BY NsPodJoins
  <1>2. step' = step /\ cluster' = cluster /\ Listed' = Listed
    BY DEF dashboard, Listed
  <1>3. Followed'
    <2>1. DOMAIN report' = DOMAIN NS!Emptied
      BY NsReported
    <2> QED
      BY <1>1, <1>2, <2>1 DEF NsInv, Followed
  <1>4. NsOrdered'
    BY <1>1 DEF NsOrdered
  <1> QED
    BY <1>3, <1>4, NsPodCounted, NsPodEntered DEF NsInv

\* An arrangement of a finite set has every element of it.
LEMMA ArrangementIs ==
  ASSUME NEW S, IsFiniteSet(S), NEW order \in NS!SetToSeqs(S)
  PROVE  /\ DOMAIN order = 1..Cardinality(S) /\ \A i \in DOMAIN order : order[i] \in S
         /\ \A e \in S : \E i \in DOMAIN order : order[i] = e
  <1> DEFINE N == Cardinality(S)
  <1>1. order \in [1..N -> S] /\ (\A i, j \in 1..N : i # j => order[i] # order[j])
    BY SameCount DEF NS!SetToSeqs
  <1>2. N \in Nat
    BY FS_CardinalityType
  <1>3. ASSUME NEW e \in S, \A i \in 1..N : order[i] # e PROVE FALSE
    <2> DEFINE R == S \ {e}
    <2>1. IsFiniteSet(R) /\ Cardinality(R) = N - 1
      BY FS_RemoveElement
    <2>2. IsFiniteSet(1..N) /\ Cardinality(1..N) = N
      BY <1>2, FS_Interval
    <2>3. order \in [1..N -> R]
      BY <1>1, <1>3
    <2> HIDE DEF R, N
    <2>4. order \in Injection(1..N, R)
      BY <1>1, <2>3 DEF Injection, IsInjective
    <2>5. Cardinality(1..N) <= Cardinality(R)
      BY <2>1, <2>2, <2>4, FS_Injection
    <2> QED
      BY <1>2, <2>1, <2>2, <2>5
  <1> QED
    BY <1>1, <1>3

\* The last step counts the healthy pods and puts the others in order.
LEMMA NsInvFinish ==
  ASSUME NsInv, NS!Finish, UNCHANGED dashboard
  PROVE  NsInv'
  <1>1. /\ nsStep = "analyze" /\ nsTodo = {} /\ nsStep' = "done" /\ UNCHANGED <<listed, nsTodo>> /\ Owned' = Owned
        /\ step' = step /\ cluster' = cluster /\ Listed' = Listed
    BY DEF NS!Finish, dashboard, Listed, Owned
  <1>2. PICK order \in NS!SetToSeqs(report.problematicPods) :
          /\ \A i, j \in DOMAIN order : i < j => ~NS!Before(order[j], order[i])
          /\ report' = [report EXCEPT !.healthyPodsCount = report.totalPodsAnalyzed - report.problematicPodsCount,
                                      !.order = [i \in DOMAIN order |-> order[i].name]]
    BY DEF NS!Finish
  <1>3. /\ report'.healthyPodsCount = report.totalPodsAnalyzed - report.problematicPodsCount
        /\ report'.order = [i \in DOMAIN order |-> order[i].name]
        /\ report'.totalPodsAnalyzed = report.totalPodsAnalyzed
        /\ report'.problematicPodsCount = report.problematicPodsCount
        /\ report'.criticalIssuesCount = report.criticalIssuesCount
        /\ report'.warningIssuesCount = report.warningIssuesCount
        /\ report'.summary = report.summary /\ report'.problematicPods = report.problematicPods
        /\ DOMAIN report' = DOMAIN NS!Emptied
    <2>1. DOMAIN report = DOMAIN NS!Emptied
      BY DEF NsInv, Followed
    <2>2. {"totalPodsAnalyzed", "problematicPodsCount", "healthyPodsCount", "criticalIssuesCount",
           "warningIssuesCount", "summary", "problematicPods", "order"} \subseteq DOMAIN NS!Emptied
      BY DEF NS!Emptied
    <2> QED
      BY <1>2, <2>1, <2>2
  <1>4. Followed'
    BY <1>1, <1>3 DEF NsInv, Followed
  <1>5. NsCounted'
    <2>1. report'.healthyPodsCount = Cardinality(Owned') - Cardinality(Problems(Owned'))
      <3>1. Owned \ nsTodo = Owned
        BY <1>1
      <3> QED
        BY <1>1, <1>3, <3>1 DEF NsInv, NsCounted
    <2> QED
      BY <1>1, <1>3, <2>1 DEF NsInv, NsCounted
  <1>6. NsEntries'
    BY <1>1, <1>3 DEF NsInv, NsEntries
  <1>7. NsOrdered'
    <2> DEFINE S == report.problematicPods
    <2>1. IsFiniteSet(S) /\ \A e, f \in S : e.name = f.name => e = f
      BY DEF NsInv, NsEntries
    <2>2. (\A i \in DOMAIN order : order[i] \in S) /\ (\A e \in S : \E i \in DOMAIN order : order[i] = e)
      BY <1>2, <2>1, ArrangementIs
    <2>3. DOMAIN report'.order = DOMAIN order /\ \A i \in DOMAIN order : report'.order[i] = order[i].name
      BY <1>3
    <2> HIDE DEF S
    <2>4. {report'.order[i] : i \in DOMAIN report'.order} = {e.name : e \in S}
      BY <2>2, <2>3
    <2>5. ASSUME NEW i \in DOMAIN order, NEW j \in DOMAIN order, i < j,
                 NEW e \in S, NEW f \in S, e.name = report'.order[i], f.name = report'.order[j]
          PROVE  ~NS!Before(f, e)
      <3>1. e = order[i] /\ f = order[j]
        BY <2>1, <2>2, <2>3, <2>5
      <3> QED
        BY <1>2, <2>5, <3>1
    <2> QED
      BY <1>3, <2>3, <2>4, <2>5 DEF NsOrdered, S
  <1> QED
    BY <1>4, <1>5, <1>6, <1>7 DEF NsInv

\* Pod by pod the namespace's report agrees with the pods it has looked at, and in the
\* end it has them in order (GetNamespaceErrors).
THEOREM NsInvariance == ReportsSpec => []NsInv
  <1>1. ReportsSpec => []Inv
    BY DashboardAlone, Invariance, PTL
  <1>2. ReportsInit => NsInv
    BY NsInvInit
  <1>3. Inv /\ NsInv /\ [ReportsNext]_<<dashboard, namespaceErrors>> => NsInv'
    <2> SUFFICES ASSUME Inv, NsInv, [ReportsNext]_<<dashboard, namespaceErrors>> PROVE NsInv'
      OBVIOUS
    <2>1. CASE Next /\ UNCHANGED namespaceErrors
      BY <2>1, NsInvBeside
    <2>2. CASE Follow
      BY <2>2, NsInvFollow
    <2>3. ASSUME NEW p \in nsTodo, NS!NextPod(p), UNCHANGED dashboard PROVE NsInv'
      BY <2>3, NsInvNextPod
    <2>4. CASE NS!Finish /\ UNCHANGED dashboard
      BY <2>4, NsInvFinish
    <2>5. CASE UNCHANGED <<dashboard, namespaceErrors>>
      <3>1. UNCHANGED vars /\ UNCHANGED namespaceErrors
        BY <2>5 DEF dashboard, vars
      <3> QED
        BY <3>1, NsInvBeside
    <2> QED
      BY <2>1, <2>2, <2>3, <2>4, <2>5 DEF ReportsNext, NS!Next
  <1> QED
    BY <1>1, <1>2, <1>3, PTL DEF ReportsSpec

-----------------------------------------------------------------------------

\* Whatever pods share, the counters of the namespace's report and its summary are
\* those of the pods analysed so far (GetNamespaceErrors).
THEOREM ReportCorrect == ReportsSpec => []ReportAddsUp
  <1>1. NsInv => ReportAddsUp
    <2> SUFFICES ASSUME NsInv PROVE ReportAddsUp
      OBVIOUS
    <2> DEFINE D == Owned \ nsTodo
               all == IssuesIn(D)
    <2>1. IsFiniteSet(Owned) /\ IsFiniteSet(all) /\ \A x \in all : x[2].severity \in {"critical", "warning"}
      <3>1. IsFiniteSet(Owned) /\ \A p \in Owned : IsPod(p)
        BY OwnedIs DEF NsInv
      <3>2. IsFiniteSet(D) /\ \A p \in D : IsPod(p)
        BY <3>1, FS_Subset
      <3> QED
        BY <3>1, <3>2, IssuesFinite
    <2>2. /\ report.totalPodsAnalyzed = Cardinality(Owned) /\ report.problematicPodsCount = Cardinality(Problems(D))
          /\ report.criticalIssuesCount = Cardinality(BySeverity(all, "critical"))
          /\ report.warningIssuesCount = Cardinality(BySeverity(all, "warning"))
          /\ report.summary = Summed(all)
          /\ nsStep = "done" /\ Owned # {} =>
               report.healthyPodsCount = Cardinality(Owned) - Cardinality(Problems(Owned))
      BY DEF NsInv, NsCounted
    <2>3. report.criticalIssuesCount + report.warningIssuesCount = Cardinality(all)
      <3> DEFINE C == BySeverity(all, "critical")
                 W == BySeverity(all, "warning")
      <3>1. C \subseteq all /\ W \subseteq all /\ all = C \cup W /\ C \cap W = {}
        BY <2>1 DEF BySeverity
      <3> HIDE DEF C, W, all
      <3>2. IsFiniteSet(C) /\ IsFiniteSet(W)
        BY <2>1, <3>1, FS_Subset
      <3>3. Cardinality(all) = Cardinality(C) + Cardinality(W)
        BY <3>1, <3>2, DisjointCount
      <3> QED
        BY <2>2, <3>3 DEF C, W
    <2>4. DOMAIN report.summary = {x[2].type : x \in all}
      BY <2>2 DEF Summed, TypesIn
    <2>5. ASSUME NEW t \in DOMAIN report.summary
          PROVE  LET own == {x \in all : x[2].type = t}
                 IN  /\ report.summary[t].count = Cardinality(own)
                     /\ report.summary[t].affectedPods = {x[1].name : x \in own}
      <3>1. report.summary[t] = TypeSummary(all, t)
        BY <2>2 DEF Summed
      <3> QED
        BY <3>1 DEF TypeSummary, ByType
    <2>6. nsStep = "done" /\ Owned # {} => report.healthyPodsCount = Cardinality(Owned \ Problems(Owned))
      <3>1. Problems(Owned) \subseteq Owned /\ Owned \cap Problems(Owned) = Problems(Owned)
        BY DEF Problems
      <3>2. Cardinality(Owned \ Problems(Owned)) = Cardinality(Owned) - Cardinality(Owned \cap Problems(Owned))
        BY <2>1, FS_Difference
      <3> QED
        BY <2>2, <3>1, <3>2
    <2> HIDE DEF D, all
    <2>7. /\ report.problematicPodsCount = Cardinality(Problems(D)) /\ report.totalPodsAnalyzed = Cardinality(Owned)
      BY <2>2
    <2> QED
      BY <2>3, <2>4, <2>5, <2>6, <2>7 DEF ReportAddsUp, D, all
  <1> QED
    BY <1>1, NsInvariance, PTL

\* More restarts than the threshold are a critical issue.
LEMMA ManyRestarts ==
  ASSUME NEW e, NEW p, IsPod(p), PodEntry(e, p)
  PROVE  /\ e.restartCount \in Int
         /\ e.restartCount > Threshold \/ (\E issue \in e.issues : issue.severity = "critical")
              <=> NS!hasCriticalIssue(e)
  <1>1. e.restartCount \in Int
    BY RestartsType DEF PodEntry
  <1>2. NS!hasCriticalIssue(e) <=> \E issue \in e.issues : issue.severity = "critical"
    BY DEF NS!hasCriticalIssue, NS!As
  <1>3. e.restartCount > Threshold => \E issue \in e.issues : issue.severity = "critical"
    <2> SUFFICES ASSUME e.restartCount > Threshold PROVE \E issue \in e.issues : issue.severity = "critical"
      OBVIOUS
    <2> DEFINE i == NS!Issue("pod", "HighRestarts", "critical")
    <2>1. i \in NS!When(NS!getTotalRestartCount(p) > Threshold, {i})
      BY DEF PodEntry, NS!When
    <2>2. i.severity = "critical"
      BY DEF NS!Issue
    <2>3. i \in NS!analyzePod(p)
      BY <2>1 DEF NS!analyzePod
    <2> QED
      BY <2>2, <2>3 DEF PodEntry
  <1> QED
    BY <1>1, <1>2, <1>3

\* The finished report starts with what is worst (hasCriticalIssue and the sort).
THEOREM WorstComesFirst == ReportsSpec => []WorstFirst
  <1>1. NsInv => WorstFirst
    <2> SUFFICES ASSUME NsInv, nsStep = "done" PROVE WorstFirst
      BY DEF WorstFirst
    <2> DEFINE entry(i) == CHOOSE e \in report.problematicPods : e.name = report.order[i]
               critical(i) == \/ entry(i).restartCount > Threshold
                              \/ \E issue \in entry(i).issues : issue.severity = "critical"
    <2>1. /\ {report.order[i] : i \in DOMAIN report.order} = {e.name : e \in report.problematicPods}
          /\ \A i, j \in DOMAIN report.order : i < j =>
               \A e, f \in report.problematicPods :
                 e.name = report.order[i] /\ f.name = report.order[j] => ~NS!Before(f, e)
      BY DEF NsInv, NsOrdered
    <2>2. ASSUME NEW i \in DOMAIN report.order
          PROVE  /\ entry(i) \in report.problematicPods /\ entry(i).name = report.order[i]
                 /\ entry(i).restartCount \in Int
                 /\ critical(i) <=> NS!hasCriticalIssue(entry(i))
      <3>1. \E e \in report.problematicPods : e.name = report.order[i]
        BY <2>1
      <3>2. entry(i) \in report.problematicPods /\ entry(i).name = report.order[i]
        BY <3>1
      <3> HIDE DEF entry
      <3>3. PICK p \in Problems(Owned \ nsTodo) : PodEntry(entry(i), p)
        BY <3>2 DEF NsInv, NsEntries
      <3>4. IsPod(p)
        BY OwnedIs DEF NsInv, Problems
      <3> QED
        BY <3>2, <3>3, <3>4, ManyRestarts
    <2>3. ASSUME NEW i \in DOMAIN report.order, NEW j \in DOMAIN report.order, i < j
          PROVE  /\ critical(j) => critical(i)
                 /\ critical(i) /\ critical(j) => entry(i).restartCount >= entry(j).restartCount
      <3>1. ~NS!Before(entry(j), entry(i))
        BY <2>1, <2>2, <2>3
      <3>2. /\ NS!hasCriticalIssue(entry(j)) => NS!hasCriticalIssue(entry(i))
            /\ NS!hasCriticalIssue(entry(i)) /\ NS!hasCriticalIssue(entry(j)) =>
                 ~(entry(j).restartCount > entry(i).restartCount)
        <4> HIDE DEF entry
        <4>1. NS!hasCriticalIssue(entry(i)) \in BOOLEAN /\ NS!hasCriticalIssue(entry(j)) \in BOOLEAN
          BY DEF NS!hasCriticalIssue
        <4> QED
          BY <3>1, <4>1 DEF NS!Before
      <3> HIDE DEF entry, critical
      <3> QED
        BY <2>2, <3>2
    <2> QED
      BY <2>1, <2>3 DEF WorstFirst
  <1> QED
    BY <1>1, NsInvariance, PTL

\* The events shown with a pod are the newest warnings of the last hour, or none
\* (getRecentPodEvents).
THEOREM NewestShown == ReportsSpec => []NewestEventsShown
  <1>1. NsInv => NewestEventsShown
    <2> SUFFICES ASSUME NsInv, NEW e \in report.problematicPods
                 PROVE  LET p == CHOOSE q \in Owned : q.name = e.name
                        IN  /\ \A f \in e.events : f.minutes < 60
                            /\ e.events # {} =>
                                 \A w \in p.warnings \ e.events : w.minutes < 60 =>
                                   /\ Cardinality(e.events) = EventsLimit
                                   /\ \A f \in e.events : f.minutes <= w.minutes
      BY DEF NewestEventsShown
    <2> DEFINE p == CHOOSE q \in Owned : q.name = e.name
               recent == {w \in p.warnings : w.minutes < 60}
    <2>1. PICK q \in Problems(Owned \ nsTodo) : PodEntry(e, q)
      BY DEF NsInv, NsEntries
    <2>2. p = q
      <3>1. q \in Owned /\ q.name = e.name
        BY <2>1 DEF Problems, PodEntry
      <3>2. \A r \in Owned : r.name = e.name => r = q
        BY <3>1, OwnedIs DEF NsInv
      <3> QED
        BY <3>1, <3>2
    <2>3. e.events \in NS!getRecentPodEvents(p) \cup {{}}
      BY <2>1, <2>2 DEF PodEntry
    <2> HIDE DEF p
    <2>4. CASE e.events = {}
      BY <2>4 DEF p
    <2>5. CASE e.events # {}
      <3>1. e.events \in NS!getRecentPodEvents(p)
        BY <2>3, <2>5
      <3>2. \/ e.events = recent
            \/ /\ e.events \subseteq recent /\ Cardinality(e.events) = EventsLimit
               /\ \A w \in recent \ e.events, f \in e.events : f.minutes <= w.minutes
        BY <3>1, SameCount DEF NS!getRecentPodEvents
      <3>3. \A f \in e.events : f.minutes < 60
        BY <3>2
      <3>4. \A w \in p.warnings \ e.events : w.minutes < 60 =>
              Cardinality(e.events) = EventsLimit /\ \A f \in e.events : f.minutes <= w.minutes
        BY <3>2
      <3> QED
        BY <3>3, <3>4 DEF p
    <2> QED
      BY <2>4, <2>5
  <1> QED
    BY <1>1, NsInvariance, PTL

-----------------------------------------------------------------------------

\* The parts of an issue, in either report.
LEMMA IssueParts ==
  /\ \A p, where, category, severity, reason, seen :
       LET i == Issue(p, where, category, severity, reason, seen)
       IN  i.pod = p /\ i.where = where /\ i.category = category /\ i.severity = severity
  /\ \A where, type, severity :
       LET i == NS!Issue(where, type, severity) IN i.where = where /\ i.type = type /\ i.severity = severity
  BY DEF Issue, NS!Issue

\* What the namespace's report finds wrong with a pod.
LEMMA NsFinds ==
  ASSUME NEW p, NEW i \in NS!analyzePod(p)
  PROVE  \/ i = NS!Issue("pod", "HighRestarts", "critical")
         \/ p.phase = "Pending" /\ p.age = "old" /\ i = NS!PendingIssue(p)
         \/ \E c \in p.containers :
              \/ /\ c.state = "waiting" /\ c.reason = "CrashLoopBackOff"
                 /\ i = NS!Issue(c.name, "CrashLoopBackOff", "critical")
              \/ /\ c.state = "waiting" /\ c.reason \in {"ImagePullBackOff", "ErrImagePull"}
                 /\ i = NS!Issue(c.name, "ImagePullError", "critical")
              \/ c.state = "failed" /\ i = NS!Issue(c.name, "Failed", "warning")
  <1>1. \/ i \in NS!When(NS!getTotalRestartCount(p) > Threshold, {NS!Issue("pod", "HighRestarts", "critical")})
        \/ i \in NS!When(p.phase = "Pending" /\ p.age = "old", {NS!PendingIssue(p)})
        \/ i \in NS!checkContainerStatuses(p)
    BY DEF NS!analyzePod
  <1>2. CASE i \in NS!checkContainerStatuses(p)
    BY <1>2 DEF NS!checkContainerStatuses
  <1> QED
    BY <1>1, <1>2 DEF NS!When

\* What the dashboard finds.
LEMMA DashboardFinds ==
  ASSUME NEW p, NEW j \in analyzePod(p), j.severity = "critical"
  PROVE  \/ p.phase = "Pending" /\ p.age # "new" /\ j.category = "PendingScheduling" /\ j.where = "pod"
         \/ p.phase = "Failed" /\ j.category = "Failed"
         \/ j.category = "InitContainerError"
         \/ \E c \in p.containers :
              /\ j.where = c.name
              /\ \/ c.state = "waiting" /\ c.reason = "CrashLoopBackOff"
                 \/ c.state = "waiting" /\ c.reason \in {"ImagePullBackOff", "ErrImagePull"}
                 \/ j.category = "ConfigurationError"
                 \/ c.state = "failed" /\ j.category = "OOMKilled"
  <1>1. CASE j \in When(p.phase = "Pending", analyzePendingPod(p))
    BY <1>1, IssueParts DEF When, analyzePendingPod
  <1>2. CASE j \in When(p.phase = "Failed", {Issue(p, "pod", "Failed", "critical", "Failed", 0)})
    BY <1>2, IssueParts DEF When
  <1>3. CASE j \in When(p.evicted, {Issue(p, "pod", "Evicted", "warning", "Evicted", 0)})
    BY <1>3, IssueParts DEF When
  <1>4. CASE j \in UNION {analyzeContainerStatus(p, c) : c \in p.containers}
    <2>1. PICK c \in p.containers : j \in analyzeContainerStatus(p, c)
      BY <1>4
    <2>2. CASE c.state = "waiting"
      <3>1. j = WaitingIssue(p, c)
        BY <2>1, <2>2 DEF analyzeContainerStatus
      <3>2. /\ c.reason = "CrashLoopBackOff" => j.where = c.name
            /\ c.reason \in {"ImagePullBackOff", "ErrImagePull"} => j.where = c.name
            /\ c.reason = "CreateContainerConfigError" => j.where = c.name /\ j.category = "ConfigurationError"
            /\ c.reason \notin {"CrashLoopBackOff", "ImagePullBackOff", "ErrImagePull", "CreateContainerConfigError"} =>
                 j.severity = "warning"
        BY <3>1, IssueParts DEF WaitingIssue
      <3> QED
        BY <2>2, <3>2
    <2>3. CASE c.state = "failed"
      <3>1. j = IF c.reason = "OOMKilled"
                THEN Issue(p, c.name, "OOMKilled", "critical", c.reason, c.finished)
                ELSE Issue(p, c.name, "Failed", "warning", c.reason, c.finished)
        BY <2>1, <2>3 DEF analyzeContainerStatus
      <3> QED
        BY <2>3, <3>1, IssueParts
    <2>4. CASE c.state \notin {"waiting", "failed"}
      <3>1. j = Issue(p, c.name, "Unhealthy", "warning", "HighRestartCount", 0)
        BY <2>1, <2>4 DEF analyzeContainerStatus, When
      <3> QED
        BY <3>1, IssueParts
    <2> QED
      BY <2>2, <2>3, <2>4
  <1>5. CASE j \in {Issue(p, c.name, "InitContainerError", "critical", c.reason, 0) :
                      c \in {i \in p.initContainers : i.state \in {"waiting", "failed"}}}
    BY <1>5, IssueParts
  <1>6. CASE j \in When(p.notReady, {Issue(p, "pod", "Unhealthy", "warning", "NotReady", 0)})
    BY <1>6, IssueParts DEF When
  <1> QED
    BY <1>1, <1>2, <1>3, <1>4, <1>5, <1>6 DEF analyzePod

\* What the namespace's report finds the dashboard shows.
LEMMA ShownToo ==
  ASSUME NEW p, NEW i \in NS!analyzePod(p), i.type # "HighRestarts"
  PROVE  \E j \in analyzePod(p) :
           /\ j.category \in CategoryOf(i.type) /\ j.where = i.where
           /\ i.type = "ResourceConstraints" => /\ j.category = "PendingScheduling"
                                                /\ j.severity = "critical" <=> p.scheduling = "Insufficient"
  <1>1. CASE p.phase = "Pending" /\ p.age = "old" /\ i = NS!PendingIssue(p)
    <2> DEFINE j == Issue(p, "pod", "PendingScheduling", IF p.scheduling = "Insufficient" THEN "critical" ELSE "warning",
                          IF p.scheduling = "ok" THEN "PendingScheduling" ELSE "Unschedulable", 0)
    <2>1. j \in When(p.phase = "Pending", analyzePendingPod(p))
      BY <1>1 DEF When, analyzePendingPod
    <2>2. j \in analyzePod(p)
      BY <2>1 DEF analyzePod
    <2>3. /\ j.category = "PendingScheduling" /\ j.where = "pod"
          /\ j.severity = "critical" <=> p.scheduling = "Insufficient"
      BY IssueParts
    <2>4. i.where = "pod" /\ i.type \in {"Pending", "ResourceConstraints", "Unschedulable"}
      BY <1>1, IssueParts DEF NS!PendingIssue
    <2> HIDE DEF j
    <2>5. CategoryOf(i.type) = {"PendingScheduling"}
      BY <2>4 DEF CategoryOf
    <2> QED
      BY <2>2, <2>3, <2>4, <2>5
  <1>2. ASSUME NEW c \in p.containers, c.state = "waiting", c.reason = "CrashLoopBackOff",
               i = NS!Issue(c.name, "CrashLoopBackOff", "critical")
        PROVE  \E j \in analyzePod(p) : j.category \in CategoryOf(i.type) /\ j.where = i.where /\ i.type # "ResourceConstraints"
    <2> DEFINE j == WaitingIssue(p, c)
    <2>1. j \in analyzeContainerStatus(p, c)
      BY <1>2 DEF analyzeContainerStatus
    <2>2. j \in analyzePod(p)
      BY <2>1 DEF analyzePod
    <2>3. j.category = "CrashLoopBackOff" /\ j.where = c.name
      BY <1>2, IssueParts DEF WaitingIssue
    <2>4. i.type = "CrashLoopBackOff" /\ i.where = c.name
      BY <1>2, IssueParts
    <2> HIDE DEF j
    <2> QED
      BY <2>2, <2>3, <2>4 DEF CategoryOf
  <1>3. ASSUME NEW c \in p.containers, c.state = "waiting", c.reason \in {"ImagePullBackOff", "ErrImagePull"},
               i = NS!Issue(c.name, "ImagePullError", "critical")
        PROVE  \E j \in analyzePod(p) : j.category \in CategoryOf(i.type) /\ j.where = i.where /\ i.type # "ResourceConstraints"
    <2> DEFINE j == WaitingIssue(p, c)
    <2>1. j \in analyzeContainerStatus(p, c)
      BY <1>3 DEF analyzeContainerStatus
    <2>2. j \in analyzePod(p)
      BY <2>1 DEF analyzePod
    <2>3. j.category = "ImagePullError" /\ j.where = c.name
      BY <1>3, IssueParts DEF WaitingIssue
    <2>4. i.type = "ImagePullError" /\ i.where = c.name
      BY <1>3, IssueParts
    <2> HIDE DEF j
    <2> QED
      BY <2>2, <2>3, <2>4 DEF CategoryOf
  <1>4. ASSUME NEW c \in p.containers, c.state = "failed", i = NS!Issue(c.name, "Failed", "warning")
        PROVE  \E j \in analyzePod(p) : j.category \in CategoryOf(i.type) /\ j.where = i.where /\ i.type # "ResourceConstraints"
    <2> DEFINE j == IF c.reason = "OOMKilled"
                    THEN Issue(p, c.name, "OOMKilled", "critical", c.reason, c.finished)
                    ELSE Issue(p, c.name, "Failed", "warning", c.reason, c.finished)
    <2>1. j \in analyzeContainerStatus(p, c)
      BY <1>4 DEF analyzeContainerStatus
    <2>2. j \in analyzePod(p)
      BY <2>1 DEF analyzePod
    <2>3. j.category \in {"Failed", "OOMKilled"} /\ j.where = c.name
      BY IssueParts
    <2>4. i.type = "Failed" /\ i.where = c.name
      BY <1>4, IssueParts
    <2> HIDE DEF j
    <2> QED
      BY <2>2, <2>3, <2>4 DEF CategoryOf
  <1>5. i # NS!Issue("pod", "HighRestarts", "critical")
    BY IssueParts
  <1> QED
    BY <1>1, <1>2, <1>3, <1>4, <1>5, NsFinds

\* What the dashboard calls critical of a pod that has been pending for long lacks
\* resources in the namespace's report.
LEMMA LackThere ==
  ASSUME NEW p, NEW j \in analyzePod(p), j.category = "PendingScheduling", j.severity = "critical", p.age = "old"
  PROVE  \E i \in NS!analyzePod(p) : i.type = "ResourceConstraints"
  <1>1. j \in When(p.phase = "Pending", analyzePendingPod(p))
    <2>1. CASE j \in UNION {analyzeContainerStatus(p, c) : c \in p.containers}
      <3>1. PICK c \in p.containers : j \in analyzeContainerStatus(p, c)
        BY <2>1
      <3>2. j.category \in {"CrashLoopBackOff", "ImagePullError", "ConfigurationError", "Unhealthy", "OOMKilled", "Failed"}
        <4>1. CASE j = WaitingIssue(p, c)
          BY <4>1, IssueParts DEF WaitingIssue
        <4>2. CASE \/ j = Issue(p, c.name, "OOMKilled", "critical", c.reason, c.finished)
                   \/ j = Issue(p, c.name, "Failed", "warning", c.reason, c.finished)
                   \/ j = Issue(p, c.name, "Unhealthy", "warning", "HighRestartCount", 0)
          BY <4>2, IssueParts
        <4> QED
          BY <3>1, <4>1, <4>2 DEF analyzeContainerStatus, When
      <3> QED
        BY <3>2
    <2>2. CASE j \in {Issue(p, c.name, "InitContainerError", "critical", c.reason, 0) :
                        c \in {i \in p.initContainers : i.state \in {"waiting", "failed"}}}
      BY <2>2, IssueParts
    <2>3. CASE \/ j = Issue(p, "pod", "Failed", "critical", "Failed", 0)
               \/ j = Issue(p, "pod", "Evicted", "warning", "Evicted", 0)
               \/ j = Issue(p, "pod", "Unhealthy", "warning", "NotReady", 0)
      BY <2>3, IssueParts
    <2> QED
      BY <2>1, <2>2, <2>3 DEF analyzePod, When
  <1>2. p.phase = "Pending" /\ p.scheduling = "Insufficient"
    BY <1>1, IssueParts DEF When, analyzePendingPod
  <1>3. NS!PendingIssue(p) \in NS!analyzePod(p)
    BY <1>2 DEF NS!analyzePod, NS!When
  <1>4. NS!PendingIssue(p).type = "ResourceConstraints"
    BY <1>2, IssueParts DEF NS!PendingIssue
  <1> QED
    BY <1>3, <1>4

\* What is critical on the dashboard and not in the namespace's report is what that
\* report does not look at.
LEMMA MissingThere ==
  ASSUME NEW p, IsPod(p), NEW j \in analyzePod(p), j.severity = "critical",
         ~\E i \in NS!analyzePod(p) : i.where = j.where /\ i.severity = "critical"
  PROVE  \/ j.category = "PendingScheduling" /\ p.age = "recent"
         \/ j.category = "Failed" /\ p.phase = "Failed"
         \/ j.category \in {"InitContainerError", "ConfigurationError"}
         \/ j.category = "OOMKilled" /\ \E i \in NS!analyzePod(p) : i.type = "Failed" /\ i.where = j.where
  <1>1. CASE p.phase = "Pending" /\ p.age # "new" /\ j.category = "PendingScheduling" /\ j.where = "pod"
    <2>1. ASSUME p.age = "old" PROVE FALSE
      <3>1. NS!PendingIssue(p).where = "pod" /\ NS!PendingIssue(p).severity = "critical"
        BY IssueParts DEF NS!PendingIssue
      <3>2. NS!PendingIssue(p) \in NS!analyzePod(p)
        BY <1>1, <2>1 DEF NS!analyzePod, NS!When
      <3> QED
        BY <1>1, <3>1, <3>2
    <2> QED
      BY <1>1, <2>1 DEF IsPod
  <1>2. ASSUME NEW c \in p.containers, j.where = c.name, c.state = "waiting", c.reason = "CrashLoopBackOff" PROVE FALSE
    <2> DEFINE i == NS!Issue(c.name, "CrashLoopBackOff", "critical")
    <2>1. i \in NS!analyzePod(p)
      BY <1>2 DEF NS!analyzePod, NS!checkContainerStatuses
    <2>2. i.where = c.name /\ i.severity = "critical"
      BY IssueParts
    <2> HIDE DEF i
    <2> QED
      BY <1>2, <2>1, <2>2
  <1>3. ASSUME NEW c \in p.containers, j.where = c.name, c.state = "waiting",
               c.reason \in {"ImagePullBackOff", "ErrImagePull"}
        PROVE  FALSE
    <2> DEFINE i == NS!Issue(c.name, "ImagePullError", "critical")
    <2>1. i \in NS!analyzePod(p)
      BY <1>3 DEF NS!analyzePod, NS!checkContainerStatuses
    <2>2. i.where = c.name /\ i.severity = "critical"
      BY IssueParts
    <2> HIDE DEF i
    <2> QED
      BY <1>3, <2>1, <2>2
  <1>4. ASSUME NEW c \in p.containers, j.where = c.name, c.state = "failed", j.category = "OOMKilled"
        PROVE  \E i \in NS!analyzePod(p) : i.type = "Failed" /\ i.where = j.where
    <2> DEFINE i == NS!Issue(c.name, "Failed", "warning")
    <2>1. i \in NS!analyzePod(p)
      BY <1>4 DEF NS!analyzePod, NS!checkContainerStatuses
    <2>2. i.where = c.name /\ i.type = "Failed"
      BY IssueParts
    <2> HIDE DEF i
    <2> QED
      BY <1>4, <2>1, <2>2
  <1> QED
    BY <1>1, <1>2, <1>3, <1>4, DashboardFinds

\* The two reports agree about a pod that did not change in between, up to what only
\* one of them looks at (the two analyzePods).
THEOREM Agreement == ReportsSpec => []ReportsAgree
  <1>1. Inv /\ NsInv => ReportsAgree
    <2> SUFFICES ASSUME Inv, NsInv, nsStep \in {"analyze", "done"}, NEW p \in (Owned \ nsTodo) \cap cluster
                 PROVE  LET shown  == {i \in allIssues : i.pod = p}
                            entry  == {e \in report.problematicPods : e.name = p.name}
                            nsOwn  == UNION {e.issues : e \in entry}
                        IN  /\ \A i \in nsOwn : i.type # "HighRestarts" =>
                                 \E j \in shown : j.category \in CategoryOf(i.type) /\ j.where = i.where
                            /\ \A i \in nsOwn : i.type = "ResourceConstraints" =>
                                 \E j \in shown : /\ j.category = "PendingScheduling"
                                                  /\ j.severity = "critical" <=> p.scheduling = "Insufficient"
                            /\ \A j \in shown :
                                 j.category = "PendingScheduling" /\ j.severity = "critical" /\ p.age = "old" =>
                                   \E i \in nsOwn : i.type = "ResourceConstraints"
                            /\ \A j \in shown :
                                 j.severity = "critical" /\ ~(\E i \in nsOwn : i.where = j.where /\ i.severity = "critical") =>
                                   \/ j.category = "PendingScheduling" /\ p.age = "recent"
                                   \/ j.category = "Failed" /\ p.phase = "Failed"
                                   \/ j.category \in {"InitContainerError", "ConfigurationError"}
                                   \/ j.category = "OOMKilled" /\ \E i \in nsOwn : i.type = "Failed" /\ i.where = j.where
      BY DEF ReportsAgree
    <2> DEFINE shown  == {i \in allIssues : i.pod = p}
               entry  == {e \in report.problematicPods : e.name = p.name}
               nsOwn  == UNION {e.issues : e \in entry}
    <2>1. p \in Pods /\ IsPod(p) /\ p \in Owned \ nsTodo
      BY ReportsAssumption DEF Inv, Request
    <2>2. shown = analyzePod(p)
      <3>1. listed # {} /\ step = "done" /\ Listed = cluster /\ todo = {}
        BY <2>1, OwnedIs DEF Inv, Request, NsInv, Followed
      <3>2. p \in Analysed /\ Analysed \in SUBSET Pods
        BY <3>1, ListedIs DEF Analysed, Inv
      <3>3. allIssues = TruthOf(Analysed)
        BY TruthNow DEF Inv, Counted
      <3>4. \A i \in allIssues : i \in analyzePod(i.pod)
        BY <3>2, <3>3, TruthIs
      <3>5. \A i \in analyzePod(p) : i.pod = p
        BY <2>1, PodIssues DEF OneOf
      <3>6. analyzePod(p) \subseteq allIssues
        BY <3>2, <3>3 DEF TruthOf
      <3> QED
        BY <3>4, <3>5, <3>6
    <2>3. nsOwn = NS!analyzePod(p)
      <3>1. ASSUME NEW e \in entry PROVE e.issues = NS!analyzePod(p)
        <4>1. PICK q \in Problems(Owned \ nsTodo) : PodEntry(e, q)
          BY DEF NsInv, NsEntries
        <4>2. q \in Owned /\ q.name = p.name
          BY <4>1 DEF Problems, PodEntry
        <4>3. q = p
          BY <2>1, <4>2, OwnedIs DEF NsInv
        <4> QED
          BY <4>1, <4>3 DEF PodEntry
      <3>2. ASSUME NS!analyzePod(p) # {} PROVE \E e \in entry : e.issues = NS!analyzePod(p)
        <4>1. p \in Problems(Owned \ nsTodo)
          BY <2>1, <3>2 DEF Problems
        <4>2. PICK e \in report.problematicPods : PodEntry(e, p)
          BY <4>1 DEF NsInv, NsEntries
        <4> QED
          BY <4>2 DEF PodEntry
      <3> HIDE DEF entry
      <3> QED
        BY <3>1, <3>2
    <2> HIDE DEF shown, nsOwn
    <2>4. \A i \in nsOwn : i.type # "HighRestarts" =>
            \E j \in shown : j.category \in CategoryOf(i.type) /\ j.where = i.where
      BY <2>2, <2>3, ShownToo
    <2>5. \A i \in nsOwn : i.type = "ResourceConstraints" =>
            \E j \in shown : /\ j.category = "PendingScheduling"
                             /\ j.severity = "critical" <=> p.scheduling = "Insufficient"
      BY <2>2, <2>3, ShownToo
    <2>6. ASSUME NEW j \in shown, j.severity = "critical",
                 ~\E i \in nsOwn : i.where = j.where /\ i.severity = "critical"
          PROVE  \/ j.category = "PendingScheduling" /\ p.age = "recent"
                 \/ j.category = "Failed" /\ p.phase = "Failed"
                 \/ j.category \in {"InitContainerError", "ConfigurationError"}
                 \/ j.category = "OOMKilled" /\ \E i \in nsOwn : i.type = "Failed" /\ i.where = j.where
      BY <2>1, <2>2, <2>3, <2>6, MissingThere
    <2>7. \A j \in shown : j.category = "PendingScheduling" /\ j.severity = "critical" /\ p.age = "old" =>
            \E i \in nsOwn : i.type = "ResourceConstraints"
      BY <2>2, <2>3, LackThere
    <2> QED
      BY <2>4, <2>5, <2>6, <2>7 DEF shown, nsOwn
  <1>2. ReportsSpec => []Inv
    BY DashboardAlone, Invariance, PTL
  <1> QED
    BY <1>1, <1>2, NsInvariance, PTL
===============================================================================
