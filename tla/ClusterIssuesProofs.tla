--------------------------- MODULE ClusterIssuesProofs ---------------------------
(***************************************************************************)
(* Proofs about ClusterIssues: in whatever order the pods are met, the     *)
(* counters agree with the issues, the patterns with the pods, and what    *)
(* the cut lists leave out matters less than what they show.               *)
(***************************************************************************)
EXTENDS ClusterIssues, FiniteSetTheorems, TLAPS

\* The list and the parameters.
Request ==
  /\ cluster \subseteq Pods /\ Cardinality(cluster) <= MaxPods
  /\ namespace \in Asked /\ severityFilter \in {""} \cup Severity
  /\ step \in {"list", "analyze", "done", "failed"}
  /\ todo \subseteq Listed /\ (step \in {"list", "done", "failed"} => todo = {})
  /\ step \in {"list", "failed"} => issuePatterns = [k \in {} |-> 0] /\ issues = NoIssues
  /\ DOMAIN issues = DOMAIN NoIssues

\* The counters.
Counted ==
  /\ issues.totalPods = Cardinality(IF step \in {"analyze", "done"} THEN Listed ELSE {})
  /\ issues.healthyPods = Cardinality({p \in Analysed : analyzePod(p) = {}})
  /\ issues.unhealthyPods = Cardinality({p \in Analysed : analyzePod(p) # {}})
  /\ allIssues = Truth
  /\ issues.categories = [c \in Category |-> Cardinality(Of(Truth, c))]
  /\ issues.newLastHour = Cardinality(SeenIn(Truth, 1))
  /\ issues.newLast24h = Cardinality(SeenIn(Truth, 2))

\* The entries of the namespaces.
In(S, n) == {i \in S : i.pod.namespace = n}
NamespacesOf(S) == {i.pod.namespace : i \in S}
PodsOf(S) == {i.pod : i \in S}
Entry(S) ==
  [totalPods     |-> Cardinality(PodsOf(S)),
   issuesCount   |-> Cardinality(S),
   criticalCount |-> Cardinality(As(S, "critical")),
   warningCount  |-> Cardinality(As(S, "warning"))]
Entries == issues.byNamespace = [n \in NamespacesOf(Truth) |-> Entry(In(Truth, n))]

\* All that is wrong with the pods of A, and those that have an issue of a key.
TruthOf(A) == UNION {analyzePod(p) : p \in A}
AffectedOf(A, key) == {p \in A : key \in KeysOf(analyzePod(p))}

\* The patterns, those too rare to be shown included.
Faithful(A, key, pattern) ==
  /\ pattern.count = Cardinality(WithKey(TruthOf(A), key))
  /\ pattern.namespaces = {p.namespace : p \in AffectedOf(A, key)}
  /\ \A l \in pattern.commonLabels, p \in AffectedOf(A, key) : \A m \in p.labels : m[1] = l[1] => m[2] = l[2]
  /\ \A p \in AffectedOf(A, key) : \A l \in p.labels :
       (\A q \in AffectedOf(A, key) : l \in q.labels) => l \in pattern.commonLabels
Grouped ==
  /\ DOMAIN issuePatterns = KeysOf(Truth)
  /\ \A key \in KeysOf(Truth) : Faithful(Analysed, key, issuePatterns[key])

\* The lists before and after they are cut.
Shown ==
  /\ step = "analyze" => issues.critical = As(Truth, "critical")
  /\ step = "done" =>
       LET summaries == Summaries(filterBySeverity(Truth))
       IN  /\ issues.top \in FirstOf(TopLimit, summaries, Heavier(summaries))
           /\ issues.patterns \subseteq Patterns
           /\ issues.critical \in FirstOf(CriticalLimit, As(Truth, "critical"), Later(As(Truth, "critical")))

Inv == Request /\ Counted /\ Entries /\ Grouped /\ Shown

-----------------------------------------------------------------------------

\* The values of a function on a finite set are finitely many.
LEMMA FiniteImage ==
  ASSUME NEW S, IsFiniteSet(S), NEW f
  PROVE  IsFiniteSet({f[x] : x \in S})
  <1> DEFINE g == [x \in S |-> f[x]]
             T == {f[x] : x \in S}
  <1>1. g \in Surjection(S, T)
    BY DEF Surjection
  <1> HIDE DEF g, T
  <1>2. IsFiniteSet(T)
    BY <1>1, FS_Surjection
  <1> QED
    BY <1>2 DEF T

\* Sets without a common element add up.
LEMMA DisjointCount ==
  ASSUME NEW S, IsFiniteSet(S), NEW T, IsFiniteSet(T), S \cap T = {}
  PROVE  /\ IsFiniteSet(S \cup T)
         /\ Cardinality(S \cup T) = Cardinality(S) + Cardinality(T)
         /\ Cardinality(S) \in Nat /\ Cardinality(T) \in Nat
  <1>1. Cardinality(S) \in Nat /\ Cardinality(T) \in Nat
    BY FS_CardinalityType
  <1>2. Cardinality(S \cap T) = 0
    BY FS_EmptySet
  <1>3. /\ IsFiniteSet(S \cup T)
        /\ Cardinality(S \cup T) = Cardinality(S) + Cardinality(T) - Cardinality(S \cap T)
    BY FS_Union
  <1> QED
    BY <1>1, <1>2, <1>3

\* What a pod's issues are.
OneOf(p, i) ==
  /\ i.pod = p /\ i.category \in Category /\ i.severity \in {"critical", "warning"}
  /\ i.lastSeen \in Nat

\* What an issue is made of.
LEMMA IssueIs ==
  ASSUME NEW p, NEW where, NEW category \in Category, NEW severity \in {"critical", "warning"}, NEW reason,
         NEW lastSeen \in Nat
  PROVE  OneOf(p, Issue(p, where, category, severity, reason, lastSeen))
  BY DEF OneOf, Issue

\* The issues of a container.
LEMMA ContainerIssues ==
  ASSUME NEW p \in Pods, NEW c \in p.containers
  PROVE  /\ IsFiniteSet(analyzeContainerStatus(p, c))
         /\ \A i \in analyzeContainerStatus(p, c) : OneOf(p, i)
  <1>1. c.finished \in Nat
    BY ContainersAssumption
  <1>2. OneOf(p, WaitingIssue(p, c))
    <2>1. \E category \in Category, severity \in {"critical", "warning"} :
            WaitingIssue(p, c) = Issue(p, c.name, category, severity, c.reason, 0)
      BY DEF WaitingIssue, Category
    <2> QED
      BY <2>1, IssueIs
  <1>3. CASE c.state = "waiting"
    <2>1. analyzeContainerStatus(p, c) = {WaitingIssue(p, c)}
      BY <1>3 DEF analyzeContainerStatus
    <2> QED
      BY <1>2, <2>1, FS_Singleton
  <1>4. CASE c.state = "failed"
    <2> DEFINE i == IF c.reason = "OOMKilled"
                    THEN Issue(p, c.name, "OOMKilled", "critical", c.reason, c.finished)
                    ELSE Issue(p, c.name, "Failed", "warning", c.reason, c.finished)
    <2>1. analyzeContainerStatus(p, c) = {i}
      BY <1>4 DEF analyzeContainerStatus
    <2>2. OneOf(p, i)
      BY <1>1, IssueIs DEF Category
    <2> HIDE DEF i
    <2> QED
      BY <2>1, <2>2, FS_Singleton
  <1>5. CASE c.state \notin {"waiting", "failed"}
    <2> DEFINE i == Issue(p, c.name, "Unhealthy", "warning", "HighRestartCount", 0)
    <2>1. analyzeContainerStatus(p, c) = {} \/ analyzeContainerStatus(p, c) = {i}
      BY <1>5 DEF analyzeContainerStatus, When
    <2>2. OneOf(p, i)
      BY IssueIs DEF Category
    <2> HIDE DEF i
    <2>3. CASE analyzeContainerStatus(p, c) = {}
      BY <2>3, FS_EmptySet
    <2>4. CASE analyzeContainerStatus(p, c) = {i}
      BY <2>2, <2>4, FS_Singleton
    <2> QED
      BY <2>1, <2>3, <2>4
  <1> QED
    BY <1>3, <1>4, <1>5

\* The issues of a pod are finitely many, and its own.
LEMMA PodIssues ==
  ASSUME NEW p \in Pods
  PROVE  IsFiniteSet(analyzePod(p)) /\ \A i \in analyzePod(p) : OneOf(p, i)
  <1> DEFINE A == When(p.phase = "Pending", analyzePendingPod(p))
             B == When(p.phase = "Failed", {Issue(p, "pod", "Failed", "critical", "Failed", 0)})
             C == When(p.evicted, {Issue(p, "pod", "Evicted", "warning", "Evicted", 0)})
             D == UNION {analyzeContainerStatus(p, c) : c \in p.containers}
             E == {Issue(p, c.name, "InitContainerError", "critical", c.reason, 0) :
                     c \in {i \in p.initContainers : i.state \in {"waiting", "failed"}}}
             F == When(p.notReady, {Issue(p, "pod", "Unhealthy", "warning", "NotReady", 0)})
             Own(S) == IsFiniteSet(S) /\ \A i \in S : OneOf(p, i)
  <1>0. analyzePod(p) = A \cup B \cup C \cup D \cup E \cup F
    BY DEF analyzePod
  <1>n. Own({})
    BY FS_EmptySet
  <1>s. ASSUME NEW i, OneOf(p, i) PROVE Own({i})
    BY <1>s, FS_Singleton
  <1>1. Own(A)
    <2> DEFINE i == Issue(p, "pod", "PendingScheduling", IF p.scheduling = "Insufficient" THEN "critical" ELSE "warning",
                          IF p.scheduling = "ok" THEN "PendingScheduling" ELSE "Unschedulable", 0)
    <2>1. OneOf(p, i)
      BY IssueIs DEF Category
    <2>2. A \in {{}, {i}}
      BY DEF analyzePendingPod, When
    <2> HIDE DEF i, A, Own
    <2> QED
      BY <1>n, <1>s, <2>1, <2>2
  <1>2. Own(B)
    <2> DEFINE i == Issue(p, "pod", "Failed", "critical", "Failed", 0)
    <2>1. OneOf(p, i)
      BY IssueIs DEF Category
    <2>2. B \in {{}, {i}}
      BY DEF When
    <2> HIDE DEF i, B, Own
    <2> QED
      BY <1>n, <1>s, <2>1, <2>2
  <1>3. Own(C)
    <2> DEFINE i == Issue(p, "pod", "Evicted", "warning", "Evicted", 0)
    <2>1. OneOf(p, i)
      BY IssueIs DEF Category
    <2>2. C \in {{}, {i}}
      BY DEF When
    <2> HIDE DEF i, C, Own
    <2> QED
      BY <1>n, <1>s, <2>1, <2>2
  <1>4. Own(D)
    <2> DEFINE f == [c \in p.containers |-> analyzeContainerStatus(p, c)]
               T == {f[c] : c \in p.containers}
    <2>1. D = UNION T
      OBVIOUS
    <2>2. IsFiniteSet(T)
      BY FiniteImage, ContainersAssumption
    <2>3. \A S \in T : IsFiniteSet(S)
      BY ContainerIssues
    <2>4. \A i \in D : OneOf(p, i)
      BY ContainerIssues
    <2> HIDE DEF T
    <2>5. IsFiniteSet(UNION T)
      BY <2>2, <2>3, FS_UNION
    <2> QED
      BY <2>1, <2>4, <2>5
  <1>5. Own(E)
    <2> DEFINE init == {i \in p.initContainers : i.state \in {"waiting", "failed"}}
               f == [c \in init |-> Issue(p, c.name, "InitContainerError", "critical", c.reason, 0)]
    <2>1. E = {f[c] : c \in init}
      OBVIOUS
    <2>2. IsFiniteSet(init)
      BY ContainersAssumption, FS_Subset
    <2>3. \A i \in E : OneOf(p, i)
      BY IssueIs DEF Category
    <2> HIDE DEF init, f
    <2>4. IsFiniteSet({f[c] : c \in init})
      BY <2>2, FiniteImage
    <2> QED
      BY <2>1, <2>3, <2>4
  <1>6. Own(F)
    <2> DEFINE i == Issue(p, "pod", "Unhealthy", "warning", "NotReady", 0)
    <2>1. OneOf(p, i)
      BY IssueIs DEF Category
    <2>2. F \in {{}, {i}}
      BY DEF When
    <2> HIDE DEF i, F, Own
    <2> QED
      BY <1>n, <1>s, <2>1, <2>2
  <1> HIDE DEF A, B, C, D, E, F
  <1>7. IsFiniteSet(A \cup B \cup C \cup D \cup E \cup F)
    BY <1>1, <1>2, <1>3, <1>4, <1>5, <1>6, FS_Union
  <1> QED
    BY <1>0, <1>1, <1>2, <1>3, <1>4, <1>5, <1>6, <1>7


-----------------------------------------------------------------------------

\* The issues of finitely many pods are finitely many, and each is its pod's.
LEMMA TruthIs ==
  ASSUME NEW A \in SUBSET Pods
  PROVE  /\ IsFiniteSet(A) /\ IsFiniteSet(TruthOf(A))
         /\ \A i \in TruthOf(A) : i.pod \in A /\ i \in analyzePod(i.pod) /\ OneOf(i.pod, i)
  <1>1. IsFiniteSet(A)
    BY PodsAssumption, FS_Subset
  <1> DEFINE f == [p \in A |-> analyzePod(p)]
             T == {f[p] : p \in A}
  <1>2. TruthOf(A) = UNION T
    BY DEF TruthOf
  <1>3. IsFiniteSet(T)
    BY <1>1, FiniteImage
  <1>4. \A S \in T : IsFiniteSet(S)
    BY PodIssues
  <1>5. ASSUME NEW i \in TruthOf(A) PROVE i.pod \in A /\ i \in analyzePod(i.pod) /\ OneOf(i.pod, i)
    <2>1. PICK p \in A : i \in analyzePod(p)
      BY DEF TruthOf
    <2>2. OneOf(p, i)
      BY <2>1, PodIssues
    <2>3. i.pod = p
      BY <2>2 DEF OneOf
    <2> QED
      BY <2>1, <2>2, <2>3
  <1> HIDE DEF T
  <1>6. IsFiniteSet(UNION T)
    BY <1>3, <1>4, FS_UNION
  <1> QED
    BY <1>1, <1>2, <1>5, <1>6

\* One more pod adds its own issues, and none that was there.
LEMMA TruthGrows ==
  ASSUME NEW A \in SUBSET Pods, NEW p \in Pods, p \notin A
  PROVE  /\ TruthOf(A \cup {p}) = TruthOf(A) \cup analyzePod(p)
         /\ TruthOf(A) \cap analyzePod(p) = {}
  <1>1. TruthOf(A \cup {p}) = TruthOf(A) \cup analyzePod(p)
    BY DEF TruthOf
  <1>2. ASSUME NEW i \in TruthOf(A), i \in analyzePod(p) PROVE FALSE
    <2>1. i.pod \in A
      BY TruthIs
    <2>2. i.pod = p
      BY <1>2, PodIssues DEF OneOf
    <2> QED
      BY <2>1, <2>2
  <1> QED
    BY <1>1, <1>2

\* What is counted of two disjoint sets of issues adds up.
LEMMA CountsAdd ==
  ASSUME NEW S, IsFiniteSet(S), NEW T, IsFiniteSet(T), S \cap T = {}, NEW x
  PROVE  /\ Cardinality(Of(S \cup T, x)) = Cardinality(Of(S, x)) + Cardinality(Of(T, x))
         /\ Cardinality(As(S \cup T, x)) = Cardinality(As(S, x)) + Cardinality(As(T, x))
         /\ Cardinality(SeenIn(S \cup T, x)) = Cardinality(SeenIn(S, x)) + Cardinality(SeenIn(T, x))
         /\ Cardinality(WithKey(S \cup T, x)) = Cardinality(WithKey(S, x)) + Cardinality(WithKey(T, x))
  <1>1. ASSUME NEW U \in SUBSET S, NEW V \in SUBSET T
        PROVE  Cardinality(U \cup V) = Cardinality(U) + Cardinality(V)
    <2>1. IsFiniteSet(U) /\ IsFiniteSet(V) /\ U \cap V = {}
      BY FS_Subset
    <2> QED
      BY <2>1, DisjointCount
  <1>2. Cardinality(Of(S \cup T, x)) = Cardinality(Of(S, x)) + Cardinality(Of(T, x))
    <2>1. Of(S, x) \in SUBSET S /\ Of(T, x) \in SUBSET T /\ Of(S \cup T, x) = Of(S, x) \cup Of(T, x)
      BY DEF Of
    <2> QED
      BY <1>1, <2>1
  <1>3. Cardinality(As(S \cup T, x)) = Cardinality(As(S, x)) + Cardinality(As(T, x))
    <2>1. As(S, x) \in SUBSET S /\ As(T, x) \in SUBSET T /\ As(S \cup T, x) = As(S, x) \cup As(T, x)
      BY DEF As
    <2> QED
      BY <1>1, <2>1
  <1>4. Cardinality(SeenIn(S \cup T, x)) = Cardinality(SeenIn(S, x)) + Cardinality(SeenIn(T, x))
    <2>1. SeenIn(S, x) \in SUBSET S /\ SeenIn(T, x) \in SUBSET T /\ SeenIn(S \cup T, x) = SeenIn(S, x) \cup SeenIn(T, x)
      BY DEF SeenIn
    <2> QED
      BY <1>1, <2>1
  <1>5. Cardinality(WithKey(S \cup T, x)) = Cardinality(WithKey(S, x)) + Cardinality(WithKey(T, x))
    <2>1. WithKey(S, x) \in SUBSET S /\ WithKey(T, x) \in SUBSET T /\ WithKey(S \cup T, x) = WithKey(S, x) \cup WithKey(T, x)
      BY DEF WithKey
    <2> QED
      BY <1>1, <2>1
  <1> QED
    BY <1>2, <1>3, <1>4, <1>5

\* The entry of the pod's namespace grows by the pod's issues, and no other.
LEMMA EntryGrows ==
  ASSUME NEW A \in SUBSET Pods, NEW p \in Pods, p \notin A, analyzePod(p) # {}, NEW S, S = TruthOf(A),
         NEW T, T = analyzePod(p)
  PROVE  /\ NamespacesOf(S \cup T) = NamespacesOf(S) \cup {p.namespace}
         /\ \A n : n # p.namespace => In(S \cup T, n) = In(S, n)
         /\ Entry(In(S \cup T, p.namespace)) =
              [totalPods     |-> Cardinality(PodsOf(In(S, p.namespace))) + 1,
               issuesCount   |-> Cardinality(In(S, p.namespace)) + Cardinality(T),
               criticalCount |-> Cardinality(As(In(S, p.namespace), "critical")) + Cardinality(As(T, "critical")),
               warningCount  |-> Cardinality(As(In(S, p.namespace), "warning")) + Cardinality(As(T, "warning"))]
  <1> DEFINE own == In(S, p.namespace)
  <1>1. \A i \in T : i.pod = p
    BY PodIssues DEF OneOf
  <1>2. NamespacesOf(S \cup T) = NamespacesOf(S) \cup {p.namespace}
    BY <1>1 DEF NamespacesOf
  <1>3. \A n : n # p.namespace => In(S \cup T, n) = In(S, n)
    BY <1>1 DEF In
  <1>4. In(S \cup T, p.namespace) = own \cup T
    BY <1>1 DEF In
  <1>5. IsFiniteSet(own) /\ IsFiniteSet(T) /\ own \cap T = {}
    <2>1. IsFiniteSet(S) /\ IsFiniteSet(T) /\ S \cap T = {}
      BY TruthIs, PodIssues, TruthGrows
    <2>2. own \subseteq S
      BY DEF In
    <2> QED
      BY <2>1, <2>2, FS_Subset
  <1>6. PodsOf(own \cup T) = PodsOf(own) \cup {p}
    BY <1>1 DEF PodsOf
  <1>7. PodsOf(own) \subseteq A
    BY TruthIs DEF PodsOf, In
  <1>8. Cardinality(PodsOf(own \cup T)) = Cardinality(PodsOf(own)) + 1
    <2>1. IsFiniteSet(PodsOf(own)) /\ p \notin PodsOf(own)
      BY <1>7, TruthIs, FS_Subset
    <2> QED
      BY <1>6, <2>1, FS_AddElement
  <1> HIDE DEF own
  <1>9. /\ Cardinality(own \cup T) = Cardinality(own) + Cardinality(T)
        /\ Cardinality(As(own \cup T, "critical")) = Cardinality(As(own, "critical")) + Cardinality(As(T, "critical"))
        /\ Cardinality(As(own \cup T, "warning")) = Cardinality(As(own, "warning")) + Cardinality(As(T, "warning"))
    BY <1>5, CountsAdd, DisjointCount
  <1>10. Entry(own \cup T) =
              [totalPods     |-> Cardinality(PodsOf(own)) + 1,
               issuesCount   |-> Cardinality(own) + Cardinality(T),
               criticalCount |-> Cardinality(As(own, "critical")) + Cardinality(As(T, "critical")),
               warningCount  |-> Cardinality(As(own, "warning")) + Cardinality(As(T, "warning"))]
    BY <1>8, <1>9 DEF Entry
  <1> QED
    BY <1>2, <1>3, <1>4, <1>10 DEF own

\* A namespace without an issue has nothing to count.
LEMMA EntryEmpty ==
  ASSUME NEW S, NEW n, n \notin NamespacesOf(S)
  PROVE  /\ Cardinality(In(S, n)) = 0 /\ Cardinality(PodsOf(In(S, n))) = 0
         /\ \A v : Cardinality(As(In(S, n), v)) = 0
  <1>1. In(S, n) = {}
    BY DEF In, NamespacesOf
  <1>2. PodsOf(In(S, n)) = {} /\ \A v : As(In(S, n), v) = {}
    BY <1>1 DEF PodsOf, As
  <1> QED
    BY <1>1, <1>2, FS_EmptySet

\* What detectPatterns makes of a key is faithful to one more pod.
LEMMA PatternGrows ==
  ASSUME NEW A \in SUBSET Pods, NEW p \in Pods, p \notin A, NEW key, NEW old, NEW new,
         key \in KeysOf(TruthOf(A)) => Faithful(A, key, old),
         key \notin KeysOf(analyzePod(p)) => key \in KeysOf(TruthOf(A)) /\ new = old,
         key \in KeysOf(analyzePod(p)) /\ key \notin KeysOf(TruthOf(A)) =>
           new = [count |-> Cardinality(WithKey(analyzePod(p), key)), namespaces |-> {p.namespace},
                  commonLabels |-> p.labels],
         key \in KeysOf(analyzePod(p)) /\ key \in KeysOf(TruthOf(A)) =>
           new = [count |-> old.count + Cardinality(WithKey(analyzePod(p), key)),
                  namespaces |-> old.namespaces \cup {p.namespace},
                  commonLabels |-> MergeLabels(old.commonLabels, p.labels)]
  PROVE  Faithful(A \cup {p}, key, new)
  <1> DEFINE B == A \cup {p}
             S == TruthOf(A)
             T == analyzePod(p)
  <1>1. /\ IsFiniteSet(S) /\ IsFiniteSet(T) /\ TruthOf(B) = S \cup T
        /\ Cardinality(WithKey(TruthOf(B), key)) = Cardinality(WithKey(S, key)) + Cardinality(WithKey(T, key))
    <2>1. IsFiniteSet(S) /\ IsFiniteSet(T) /\ S \cap T = {} /\ TruthOf(B) = S \cup T
      BY TruthIs, PodIssues, TruthGrows
    <2> HIDE DEF S, T
    <2>2. Cardinality(WithKey(S \cup T, key)) = Cardinality(WithKey(S, key)) + Cardinality(WithKey(T, key))
      BY <2>1, CountsAdd
    <2> QED
      BY <2>1, <2>2
  <1>2. /\ WithKey(S, key) \subseteq S /\ WithKey(T, key) \subseteq T
        /\ key \notin KeysOf(S) => WithKey(S, key) = {}
        /\ key \notin KeysOf(T) => WithKey(T, key) = {}
    BY DEF WithKey, KeysOf
  <1>3. /\ Cardinality(WithKey(S, key)) \in Nat /\ Cardinality(WithKey(T, key)) \in Nat
        /\ key \notin KeysOf(S) => Cardinality(WithKey(S, key)) = 0
        /\ key \notin KeysOf(T) => Cardinality(WithKey(T, key)) = 0
    <2> HIDE DEF S, T
    <2> QED
      BY <1>1, <1>2, FS_Subset, FS_CardinalityType, FS_EmptySet
  <1>4. /\ key \in KeysOf(T) => AffectedOf(B, key) = AffectedOf(A, key) \cup {p}
        /\ key \notin KeysOf(T) => AffectedOf(B, key) = AffectedOf(A, key)
        /\ AffectedOf(A, key) # {} <=> key \in KeysOf(S)
    BY DEF AffectedOf, KeysOf, TruthOf
  <1>5. \A l, m \in p.labels : l[1] = m[1] => l = m
    BY ContainersAssumption
  <1>6. CASE key \notin KeysOf(T)
    <2>1. Faithful(A, key, old) /\ new = old /\ AffectedOf(B, key) = AffectedOf(A, key)
      BY <1>4, <1>6
    <2>2. Cardinality(WithKey(TruthOf(B), key)) = Cardinality(WithKey(S, key))
      BY <1>1, <1>3, <1>6
    <2> QED
      BY <2>1, <2>2 DEF Faithful
  <1>7. CASE key \in KeysOf(T) /\ key \notin KeysOf(S)
    <2>1. AffectedOf(B, key) = {p}
      BY <1>4, <1>7
    <2>2. new = [count |-> Cardinality(WithKey(T, key)), namespaces |-> {p.namespace}, commonLabels |-> p.labels]
      BY <1>7
    <2>3. Cardinality(WithKey(TruthOf(B), key)) = Cardinality(WithKey(T, key))
      BY <1>1, <1>3, <1>7
    <2> HIDE DEF B, S, T
    <2>4. Faithful(B, key, new)
      BY <1>5, <2>1, <2>2, <2>3 DEF Faithful
    <2> QED
      BY <2>4 DEF B
  <1>8. CASE key \in KeysOf(T) /\ key \in KeysOf(S)
    <2>1. AffectedOf(B, key) = AffectedOf(A, key) \cup {p} /\ AffectedOf(A, key) # {}
      BY <1>4, <1>8
    <2>2. /\ Faithful(A, key, old)
          /\ new = [count |-> old.count + Cardinality(WithKey(T, key)),
                    namespaces |-> old.namespaces \cup {p.namespace},
                    commonLabels |-> MergeLabels(old.commonLabels, p.labels)]
      BY <1>8
    <2>3. new.count = Cardinality(WithKey(TruthOf(B), key))
      BY <1>1, <2>2 DEF Faithful
    <2>4. new.namespaces = {q.namespace : q \in AffectedOf(B, key)}
      BY <2>1, <2>2 DEF Faithful
    <2>5. \A l \in new.commonLabels, q \in AffectedOf(B, key) : \A m \in q.labels : m[1] = l[1] => m[2] = l[2]
      BY <2>1, <2>2 DEF Faithful, MergeLabels
    <2>6. ASSUME NEW q \in AffectedOf(B, key), NEW l \in q.labels, \A r \in AffectedOf(B, key) : l \in r.labels
          PROVE  l \in new.commonLabels
      <3>1. l \in p.labels /\ \A r \in AffectedOf(A, key) : l \in r.labels
        BY <2>1, <2>6
      <3>2. l \in old.commonLabels
        BY <2>1, <2>2, <3>1 DEF Faithful
      <3> QED
        BY <1>5, <2>2, <3>1, <3>2 DEF MergeLabels
    <2> HIDE DEF B
    <2>7. Faithful(B, key, new)
      BY <2>3, <2>4, <2>5, <2>6 DEF Faithful
    <2> QED
      BY <2>7 DEF B
  <1> QED
    BY <1>6, <1>7, <1>8

-----------------------------------------------------------------------------

\* Before the first pod there is nothing to count.
LEMMA NothingWrong ==
  /\ TruthOf({}) = {} /\ Cardinality({}) = 0 /\ NamespacesOf({}) = {} /\ KeysOf({}) = {}
  /\ \A x : Of({}, x) = {} /\ As({}, x) = {} /\ SeenIn({}, x) = {}
  BY FS_EmptySet DEF TruthOf, NamespacesOf, KeysOf, Of, As, SeenIn

\* Truth and Analysed by their parts.
LEMMA TruthNow == Truth = TruthOf(Analysed)
  BY DEF Truth, TruthOf

\* The list is part of the cluster.
LEMMA ListedIs ==
  ASSUME Request
  PROVE  /\ Listed \subseteq cluster /\ Listed \in SUBSET Pods /\ Analysed \in SUBSET Pods
         /\ IsFiniteSet(Listed) /\ IsFiniteSet(cluster) /\ Cardinality(Listed) \in 0..MaxPods
  <1>1. Listed \subseteq cluster /\ cluster \subseteq Pods /\ Cardinality(cluster) <= MaxPods
    BY DEF Request, Listed
  <1>2. IsFiniteSet(cluster) /\ IsFiniteSet(Listed)
    BY <1>1, PodsAssumption, FS_Subset
  <1>3. Cardinality(Listed) <= Cardinality(cluster) /\ Cardinality(Listed) \in Nat /\ Cardinality(cluster) \in Nat
    BY <1>1, <1>2, FS_Subset, FS_CardinalityType
  <1>4. Cardinality(Listed) \in 0..MaxPods
    BY <1>1, <1>3, PodsAssumption
  <1> QED
    BY <1>1, <1>2, <1>4 DEF Analysed

\* The invariant starts.
LEMMA InvInit == Init => Inv
  <1> SUFFICES ASSUME Init PROVE Inv
    OBVIOUS
  <1>1. step = "list" /\ todo = {} /\ allIssues = {} /\ issuePatterns = [k \in {} |-> 0] /\ issues = NoIssues
    BY DEF Init
  <1>2. Analysed = {} /\ Truth = {}
    BY <1>1, NothingWrong, TruthNow DEF Analysed
  <1>3. Request
    BY <1>1 DEF Init, Request
  <1>4. Counted
    <2>1. {p \in Analysed : analyzePod(p) = {}} = {} /\ {p \in Analysed : analyzePod(p) # {}} = {}
      BY <1>2
    <2> QED
      BY <1>1, <1>2, <2>1, NothingWrong DEF Counted, NoIssues
  <1>5. Entries
    BY <1>1, <1>2, NothingWrong DEF Entries, NoIssues
  <1>6. Grouped
    BY <1>1, <1>2, NothingWrong DEF Grouped
  <1>7. Shown
    BY <1>1 DEF Shown
  <1> QED
    BY <1>3, <1>4, <1>5, <1>6, <1>7 DEF Inv

\* Listing the pods counts them; without a list nothing is reported.
LEMMA InvList ==
  ASSUME Inv, List
  PROVE  Inv'
  <1>1. /\ step = "list" /\ todo = {} /\ issuePatterns = [k \in {} |-> 0] /\ issues = NoIssues
        /\ allIssues = Truth
    BY DEF Inv, Request, Counted, List
  <1>2. Analysed = {} /\ Truth = {}
    BY <1>1, NothingWrong, TruthNow DEF Analysed
  <1>3. UNCHANGED <<cluster, namespace, severityFilter, allIssues, issuePatterns>> /\ Listed' = Listed
    BY DEF List, Listed
  <1>4. \/ step' = "analyze" /\ todo' = Listed /\ issues' = [issues EXCEPT !.totalPods = Cardinality(Listed)]
        \/ step' = "failed" /\ todo' = todo /\ issues' = issues
    BY DEF List
  <1>5. Analysed' = {} /\ Truth' = {}
    <2>1. Analysed' = {}
      BY <1>3, <1>4 DEF Analysed
    <2> QED
      BY <2>1 DEF Truth
  <1>6. /\ issues'.totalPods = Cardinality(IF step' \in {"analyze", "done"} THEN Listed ELSE {})
        /\ issues'.healthyPods = 0 /\ issues'.unhealthyPods = 0
        /\ issues'.categories = [c \in Category |-> 0] /\ issues'.byNamespace = [n \in {} |-> 0]
        /\ issues'.newLastHour = 0 /\ issues'.newLast24h = 0 /\ issues'.critical = {}
        /\ DOMAIN issues' = DOMAIN NoIssues
    <2>1. CASE step' = "analyze"
      <3>1. issues' = [NoIssues EXCEPT !.totalPods = Cardinality(Listed)]
        BY <1>1, <1>4, <2>1
      <3> QED
        BY <2>1, <3>1 DEF NoIssues
    <2>2. CASE step' = "failed"
      <3>1. issues' = NoIssues
        BY <1>1, <1>4, <2>2
      <3>2. Cardinality(IF step' \in {"analyze", "done"} THEN Listed ELSE {}) = 0
        BY <2>2, NothingWrong
      <3> QED
        BY <3>1, <3>2 DEF NoIssues
    <2> QED
      BY <1>4, <2>1, <2>2
  <1>7. Request'
    BY <1>1, <1>3, <1>4, <1>6 DEF Inv, Request
  <1>8. Counted'
    <2>1. {p \in Analysed' : analyzePod(p) = {}} = {} /\ {p \in Analysed' : analyzePod(p) # {}} = {}
      BY <1>5
    <2> QED
      BY ZenonT(30), <1>1, <1>2, <1>3, <1>5, <1>6, <2>1, NothingWrong DEF Counted
  <1>9. Entries'
    BY <1>5, <1>6, NothingWrong DEF Entries
  <1>10. Grouped'
    BY <1>1, <1>3, <1>5, NothingWrong DEF Grouped
  <1>11. Shown'
    BY <1>4, <1>5, <1>6, NothingWrong DEF Shown
  <1> QED
    BY <1>7, <1>8, <1>9, <1>10, <1>11 DEF Inv

-----------------------------------------------------------------------------

\* A turn of the loop: the pod joins those analysed, its issues the others.
LEMMA PodJoins ==
  ASSUME Inv, NEW p \in todo, NextPod(p)
  PROVE  /\ step = "analyze" /\ UNCHANGED <<cluster, namespace, severityFilter, step>> /\ Listed' = Listed
         /\ p \in Pods /\ p \notin Analysed /\ Analysed \in SUBSET Pods /\ Analysed' = Analysed \cup {p}
         /\ IsFiniteSet(Analysed) /\ IsFiniteSet(Truth) /\ IsFiniteSet(analyzePod(p))
         /\ Truth' = Truth \cup analyzePod(p) /\ Truth \cap analyzePod(p) = {}
  <1>1. step = "analyze" /\ UNCHANGED <<cluster, namespace, severityFilter, step>> /\ todo' = todo \ {p}
    BY DEF NextPod
  <1>2. Listed' = Listed
    BY <1>1 DEF Listed
  <1>3. todo \subseteq Listed /\ Listed \in SUBSET Pods /\ Analysed \in SUBSET Pods
    BY ListedIs DEF Inv, Request
  <1>4. p \in Pods /\ p \notin Analysed
    BY <1>3 DEF Analysed
  <1>5. Analysed' = Analysed \cup {p}
    BY <1>1, <1>2, <1>3 DEF Analysed
  <1>6. IsFiniteSet(Analysed) /\ IsFiniteSet(Truth) /\ IsFiniteSet(analyzePod(p))
    BY <1>3, <1>4, TruthIs, TruthNow, PodIssues
  <1>7. Truth' = TruthOf(Analysed \cup {p})
    BY <1>5 DEF Truth, TruthOf
  <1>8. Truth' = Truth \cup analyzePod(p) /\ Truth \cap analyzePod(p) = {}
    BY <1>3, <1>4, <1>7, TruthGrows, TruthNow
  <1> QED
    BY <1>1, <1>2, <1>3, <1>4, <1>5, <1>6, <1>8

\* What the turn writes into the report.
LEMMA PodReported ==
  ASSUME Inv, NEW p \in todo, NextPod(p)
  PROVE  LET T == analyzePod(p)
         IN  /\ DOMAIN issues' = DOMAIN NoIssues
             /\ issues'.totalPods = issues.totalPods
             /\ issues'.healthyPods = IF T = {} THEN issues.healthyPods + 1 ELSE issues.healthyPods
             /\ issues'.unhealthyPods = IF T = {} THEN issues.unhealthyPods ELSE issues.unhealthyPods + 1
             /\ T = {} => /\ issues'.categories = issues.categories /\ issues'.critical = issues.critical
                          /\ issues'.newLastHour = issues.newLastHour /\ issues'.newLast24h = issues.newLast24h
                          /\ issues'.byNamespace = issues.byNamespace
             /\ T # {} => /\ issues'.categories = [c \in Category |-> issues.categories[c] + Cardinality(Of(T, c))]
                          /\ issues'.critical = issues.critical \cup As(T, "critical")
                          /\ issues'.newLastHour = issues.newLastHour + Cardinality(SeenIn(T, 1))
                          /\ issues'.newLast24h = issues.newLast24h + Cardinality(SeenIn(T, 2))
                          /\ issues'.byNamespace =
                               [n \in DOMAIN issues.byNamespace \cup {p.namespace} |->
                                  IF n = p.namespace THEN NamespaceEntry(n, T) ELSE issues.byNamespace[n]]
  <1> DEFINE T == analyzePod(p)
  <1>1. DOMAIN issues = DOMAIN NoIssues
    BY DEF Inv, Request
  <1>2. {"totalPods", "healthyPods", "unhealthyPods", "categories", "byNamespace", "newLastHour", "newLast24h",
         "critical"} \subseteq DOMAIN NoIssues
    BY DEF NoIssues
  <1>3. CASE T = {}
    <2>1. issues' = [issues EXCEPT !.healthyPods = @ + 1]
      BY <1>3 DEF NextPod
    <2> QED
      BY <1>1, <1>2, <1>3, <2>1
  <1>4. CASE T # {}
    <2>1. issues' = [issues EXCEPT
                   !.unhealthyPods = @ + 1,
                   !.categories  = [c \in Category |-> @[c] + Cardinality(Of(T, c))],
                   !.critical    = @ \cup As(T, "critical"),
                   !.newLastHour = @ + Cardinality(SeenIn(T, 1)),
                   !.newLast24h  = @ + Cardinality(SeenIn(T, 2)),
                   !.byNamespace = [n \in DOMAIN @ \cup {p.namespace} |->
                                      IF n = p.namespace THEN NamespaceEntry(n, T) ELSE @[n]]]
      BY <1>4 DEF NextPod
    <2> QED
      BY <1>1, <1>2, <1>4, <2>1
  <1> QED
    BY <1>3, <1>4

\* The counters stay those of the pods analysed.
LEMMA PodCounted ==
  ASSUME Inv, NEW p \in todo, NextPod(p)
  PROVE  Counted'
  <1> DEFINE S == Truth
             T == analyzePod(p)
             fine == {q \in Analysed : analyzePod(q) = {}}
             ill  == {q \in Analysed : analyzePod(q) # {}}
  <1>1. /\ step = "analyze" /\ step' = step /\ Listed' = Listed
        /\ p \notin Analysed /\ Analysed' = Analysed \cup {p}
        /\ IsFiniteSet(Analysed) /\ IsFiniteSet(S) /\ IsFiniteSet(T) /\ Truth' = S \cup T /\ S \cap T = {}
    BY PodJoins
  <1>2. /\ issues.totalPods = Cardinality(Listed)
        /\ issues.healthyPods = Cardinality(fine) /\ issues.unhealthyPods = Cardinality(ill)
        /\ allIssues = S /\ issues.categories = [c \in Category |-> Cardinality(Of(S, c))]
        /\ issues.newLastHour = Cardinality(SeenIn(S, 1)) /\ issues.newLast24h = Cardinality(SeenIn(S, 2))
    BY <1>1 DEF Inv, Counted
  <1>3. /\ issues'.totalPods = issues.totalPods
        /\ issues'.healthyPods = IF T = {} THEN issues.healthyPods + 1 ELSE issues.healthyPods
        /\ issues'.unhealthyPods = IF T = {} THEN issues.unhealthyPods ELSE issues.unhealthyPods + 1
    BY PodReported
  <1>4. /\ IsFiniteSet(fine) /\ IsFiniteSet(ill) /\ p \notin fine /\ p \notin ill
    BY <1>1, FS_Subset
  <1>5. /\ Cardinality(fine \cup {p}) = Cardinality(fine) + 1
        /\ Cardinality(ill \cup {p}) = Cardinality(ill) + 1
    <2> HIDE DEF fine, ill
    <2> QED
      BY <1>4, FS_AddElement
  <1>6. /\ {q \in Analysed' : analyzePod(q) = {}} = IF T = {} THEN fine \cup {p} ELSE fine
        /\ {q \in Analysed' : analyzePod(q) # {}} = IF T = {} THEN ill ELSE ill \cup {p}
    BY <1>1
  <1>7. /\ issues'.totalPods = Cardinality(IF step' \in {"analyze", "done"} THEN Listed' ELSE {})
        /\ issues'.healthyPods = Cardinality({q \in Analysed' : analyzePod(q) = {}})
        /\ issues'.unhealthyPods = Cardinality({q \in Analysed' : analyzePod(q) # {}})
    <2> HIDE DEF fine, ill, T
    <2> QED
      BY <1>1, <1>2, <1>3, <1>5, <1>6
  <1>8. allIssues' = Truth'
    BY <1>1, <1>2 DEF NextPod
  <1>9. /\ issues'.categories = [c \in Category |-> Cardinality(Of(Truth', c))]
        /\ issues'.newLastHour = Cardinality(SeenIn(Truth', 1))
        /\ issues'.newLast24h = Cardinality(SeenIn(Truth', 2))
    <2>1. CASE T = {}
      <3>1. Truth' = S
        BY <1>1, <2>1
      <3>2. /\ issues'.categories = issues.categories
            /\ issues'.newLastHour = issues.newLastHour /\ issues'.newLast24h = issues.newLast24h
        BY <2>1, PodReported
      <3> HIDE DEF S
      <3> QED
        BY <1>2, <3>1, <3>2
    <2>2. CASE T # {}
      <3>1. /\ issues'.categories = [c \in Category |-> issues.categories[c] + Cardinality(Of(T, c))]
            /\ issues'.newLastHour = issues.newLastHour + Cardinality(SeenIn(T, 1))
            /\ issues'.newLast24h = issues.newLast24h + Cardinality(SeenIn(T, 2))
        BY <2>2, PodReported
      <3> HIDE DEF S, T
      <3>2. ASSUME NEW c \in Category PROVE issues'.categories[c] = Cardinality(Of(Truth', c))
        <4>1. Cardinality(Of(Truth', c)) = Cardinality(Of(S, c)) + Cardinality(Of(T, c))
          BY <1>1, CountsAdd
        <4> QED
          BY <1>2, <3>1, <4>1
      <3>3. /\ Cardinality(SeenIn(Truth', 1)) = Cardinality(SeenIn(S, 1)) + Cardinality(SeenIn(T, 1))
            /\ Cardinality(SeenIn(Truth', 2)) = Cardinality(SeenIn(S, 2)) + Cardinality(SeenIn(T, 2))
        BY <1>1, CountsAdd
      <3> QED
        BY <1>2, <3>1, <3>2, <3>3
    <2> QED
      BY <2>1, <2>2
  <1> QED
    BY <1>7, <1>8, <1>9 DEF Counted

\* So do the namespaces' entries.
LEMMA PodEntered ==
  ASSUME Inv, NEW p \in todo, NextPod(p)
  PROVE  Entries'
  <1> DEFINE S == Truth
             T == analyzePod(p)
  <1>1. /\ p \in Pods /\ Analysed \in SUBSET Pods /\ p \notin Analysed /\ Truth' = S \cup T
        /\ S = TruthOf(Analysed)
    BY PodJoins, TruthNow
  <1>2. issues.byNamespace = [n \in NamespacesOf(S) |-> Entry(In(S, n))]
    BY DEF Inv, Entries
  <1>3. CASE T = {}
    <2>1. Truth' = S /\ issues'.byNamespace = issues.byNamespace
      BY <1>1, <1>3, PodReported
    <2> HIDE DEF S
    <2> QED
      BY <1>2, <2>1 DEF Entries
  <1>4. CASE T # {}
    <2>1. issues'.byNamespace =
            [n \in NamespacesOf(S) \cup {p.namespace} |->
               IF n = p.namespace THEN NamespaceEntry(n, T) ELSE issues.byNamespace[n]]
      <3>1. issues'.byNamespace =
              [n \in DOMAIN issues.byNamespace \cup {p.namespace} |->
                 IF n = p.namespace THEN NamespaceEntry(n, T) ELSE issues.byNamespace[n]]
        BY <1>4, PodReported
      <3> HIDE DEF S, T
      <3> QED
        BY <1>2, <3>1
    <2>2. /\ NamespacesOf(S \cup T) = NamespacesOf(S) \cup {p.namespace}
          /\ \A n : n # p.namespace => In(S \cup T, n) = In(S, n)
          /\ Entry(In(S \cup T, p.namespace)) =
               [totalPods     |-> Cardinality(PodsOf(In(S, p.namespace))) + 1,
                issuesCount   |-> Cardinality(In(S, p.namespace)) + Cardinality(T),
                criticalCount |-> Cardinality(As(In(S, p.namespace), "critical")) + Cardinality(As(T, "critical")),
                warningCount  |-> Cardinality(As(In(S, p.namespace), "warning")) + Cardinality(As(T, "warning"))]
      BY <1>1, <1>4, EntryGrows
    <2> HIDE DEF S, T
    <2>3. NamespaceEntry(p.namespace, T) = Entry(In(S \cup T, p.namespace))
      <3>1. CASE p.namespace \in NamespacesOf(S)
        <4>1. /\ p.namespace \in DOMAIN issues.byNamespace
              /\ issues.byNamespace[p.namespace] = Entry(In(S, p.namespace))
          BY <1>2, <3>1
        <4> QED
          BY <2>2, <4>1 DEF NamespaceEntry, Entry
      <3>2. CASE p.namespace \notin NamespacesOf(S)
        <4>1. p.namespace \notin DOMAIN issues.byNamespace
          BY <1>2, <3>2
        <4>2. /\ Cardinality(In(S, p.namespace)) = 0 /\ Cardinality(PodsOf(In(S, p.namespace))) = 0
              /\ Cardinality(As(In(S, p.namespace), "critical")) = 0
              /\ Cardinality(As(In(S, p.namespace), "warning")) = 0
          BY <3>2, EntryEmpty
        <4> QED
          BY <2>2, <4>1, <4>2 DEF NamespaceEntry
      <3> QED
        BY <3>1, <3>2
    <2>4. \A n \in NamespacesOf(S) : n # p.namespace => issues.byNamespace[n] = Entry(In(S \cup T, n))
      BY <1>2, <2>2
    <2>5. issues'.byNamespace = [n \in NamespacesOf(S \cup T) |-> Entry(In(S \cup T, n))]
      BY <2>1, <2>2, <2>3, <2>4
    <2> QED
      BY <1>1, <2>5 DEF Entries
  <1> QED
    BY <1>3, <1>4

\* And the patterns.
LEMMA PodGrouped ==
  ASSUME Inv, NEW p \in todo, NextPod(p)
  PROVE  Grouped'
  <1> DEFINE S == Truth
             T == analyzePod(p)
  <1>1. /\ p \in Pods /\ Analysed \in SUBSET Pods /\ p \notin Analysed /\ Truth' = S \cup T
        /\ S = TruthOf(Analysed) /\ Analysed' = Analysed \cup {p}
    BY PodJoins, TruthNow
  <1>2. DOMAIN issuePatterns = KeysOf(S) /\ \A key \in KeysOf(S) : Faithful(Analysed, key, issuePatterns[key])
    BY DEF Inv, Grouped
  <1>3. issuePatterns' = [k \in DOMAIN issuePatterns \cup KeysOf(T) |-> Pattern(k, p, T)]
    BY DEF NextPod
  <1>4. KeysOf(Truth') = KeysOf(S) \cup KeysOf(T)
    BY <1>1 DEF KeysOf
  <1> HIDE DEF S, T
  <1>5. DOMAIN issuePatterns' = KeysOf(Truth')
    BY <1>2, <1>3, <1>4
  <1>6. ASSUME NEW key \in KeysOf(Truth') PROVE Faithful(Analysed \cup {p}, key, issuePatterns'[key])
    <2> DEFINE old == issuePatterns[key]
               new == issuePatterns'[key]
    <2>1. new = Pattern(key, p, T)
      BY <1>2, <1>3, <1>4
    <2>2. key \in KeysOf(S) \/ key \in KeysOf(T)
      BY <1>4
    <2>3. key \notin KeysOf(T) => key \in KeysOf(S) /\ new = old
      BY <1>2, <2>1, <2>2 DEF Pattern
    <2>4. key \in KeysOf(T) /\ key \notin KeysOf(S) =>
            new = [count |-> Cardinality(WithKey(T, key)), namespaces |-> {p.namespace}, commonLabels |-> p.labels]
      BY <1>2, <2>1 DEF Pattern
    <2>5. key \in KeysOf(T) /\ key \in KeysOf(S) =>
            new = [count |-> old.count + Cardinality(WithKey(T, key)), namespaces |-> old.namespaces \cup {p.namespace},
                   commonLabels |-> MergeLabels(old.commonLabels, p.labels)]
      BY <1>2, <2>1 DEF Pattern
    <2>6. key \in KeysOf(S) => Faithful(Analysed, key, old)
      BY <1>2
    <2> HIDE DEF old, new
    <2>7. Faithful(Analysed \cup {p}, key, new)
      BY <1>1, <2>3, <2>4, <2>5, <2>6, PatternGrows DEF T
    <2> QED
      BY <2>7 DEF new
  <1> QED
    BY <1>1, <1>5, <1>6 DEF Grouped

\* Altogether a turn of the loop keeps the invariant.
LEMMA InvNextPod ==
  ASSUME Inv, NEW p \in todo, NextPod(p)
  PROVE  Inv'
  <1> DEFINE S == Truth
             T == analyzePod(p)
  <1>1. /\ step = "analyze" /\ UNCHANGED <<cluster, namespace, severityFilter, step>> /\ Listed' = Listed
        /\ Truth' = S \cup T
    BY PodJoins
  <1>2. Request'
    <2>1. todo' \subseteq Listed /\ DOMAIN issues' = DOMAIN NoIssues
      BY PodReported DEF NextPod, Inv, Request
    <2> QED
      BY <1>1, <2>1 DEF Inv, Request
  <1>3. Shown'
    <2>1. issues.critical = As(S, "critical")
      BY <1>1 DEF Inv, Shown
    <2>2. issues'.critical = IF T = {} THEN issues.critical ELSE issues.critical \cup As(T, "critical")
      BY PodReported
    <2>3. issues'.critical = As(Truth', "critical")
      BY <1>1, <2>1, <2>2 DEF As
    <2> QED
      BY <1>1, <2>3 DEF Shown
  <1> QED
    BY <1>2, <1>3, PodCounted, PodEntered, PodGrouped DEF Inv

\* The lists are cut of what was counted.
LEMMA InvFinish ==
  ASSUME Inv, Finish
  PROVE  Inv'
  <1>1. /\ step = "analyze" /\ todo = {} /\ step' = "done"
        /\ UNCHANGED <<cluster, namespace, severityFilter, todo, allIssues, issuePatterns>>
    BY DEF Finish
  <1>2. Listed' = Listed /\ Patterns' = Patterns
    BY <1>1 DEF Listed, Patterns
  <1>3. Analysed' = Analysed /\ Truth' = Truth
    <2>1. Analysed' = Analysed
      BY <1>1, <1>2 DEF Analysed
    <2> QED
      BY <2>1 DEF Truth
  <1>4. PICK top, patterns, critical :
          /\ top \in FirstOf(TopLimit, Summaries(filterBySeverity(allIssues)),
                             Heavier(Summaries(filterBySeverity(allIssues))))
          /\ patterns \in FirstOf(PatternLimit, Patterns, MoreOften(Patterns))
          /\ critical \in FirstOf(CriticalLimit, issues.critical, Later(issues.critical))
          /\ issues' = [issues EXCEPT !.top = top, !.patterns = patterns, !.critical = critical, !.trend = Trend]
    BY DEF Finish
  <1>5. /\ issues'.top = top /\ issues'.patterns = patterns /\ issues'.critical = critical
        /\ issues'.totalPods = issues.totalPods /\ issues'.healthyPods = issues.healthyPods
        /\ issues'.unhealthyPods = issues.unhealthyPods /\ issues'.categories = issues.categories
        /\ issues'.newLastHour = issues.newLastHour /\ issues'.newLast24h = issues.newLast24h
        /\ issues'.byNamespace = issues.byNamespace /\ DOMAIN issues' = DOMAIN NoIssues
    <2>1. DOMAIN issues = DOMAIN NoIssues
      BY DEF Inv, Request
    <2>2. {"totalPods", "healthyPods", "unhealthyPods", "categories", "byNamespace", "newLastHour", "newLast24h",
           "critical", "top", "patterns", "trend"} \subseteq DOMAIN NoIssues
      BY DEF NoIssues
    <2> QED
      BY <1>4, <2>1, <2>2
  <1>6. Request'
    BY <1>1, <1>2, <1>5 DEF Inv, Request
  <1>7. Counted'
    BY <1>1, <1>2, <1>3, <1>5 DEF Inv, Counted
  <1>8. Entries'
    BY <1>3, <1>5 DEF Inv, Entries
  <1>9. Grouped'
    BY <1>1, <1>3 DEF Inv, Grouped
  <1>10. Shown'
    <2>1. allIssues = Truth /\ issues.critical = As(Truth, "critical")
      BY <1>1 DEF Inv, Counted, Shown
    <2>2. filterBySeverity(Truth)' = filterBySeverity(Truth)
      BY <1>1, <1>3 DEF filterBySeverity
    <2>3. patterns \subseteq Patterns
      BY <1>4 DEF FirstOf
    <2> QED
      BY <1>1, <1>2, <1>3, <1>4, <1>5, <2>1, <2>2, <2>3 DEF Shown
  <1> QED
    BY <1>6, <1>7, <1>8, <1>9, <1>10 DEF Inv

\* A step that changes nothing keeps it too.
LEMMA InvStutter ==
  ASSUME Inv, UNCHANGED vars
  PROVE  Inv'
  <1>1. UNCHANGED <<cluster, namespace, severityFilter, step, todo, allIssues, issuePatterns, issues>>
    BY DEF vars
  <1>2. Listed' = Listed /\ Patterns' = Patterns
    BY <1>1 DEF Listed, Patterns
  <1>3. Analysed' = Analysed /\ filterBySeverity(Truth)' = filterBySeverity(Truth')
    BY <1>1, <1>2 DEF Analysed, filterBySeverity
  <1>4. Truth' = Truth
    BY <1>3 DEF Truth
  <1>5. filterBySeverity(Truth)' = filterBySeverity(Truth)
    BY <1>1, <1>4 DEF filterBySeverity
  <1>6. Request' /\ Counted'
    BY <1>1, <1>2, <1>3, <1>4 DEF Inv, Request, Counted
  <1>7. Entries' /\ Grouped'
    BY <1>1, <1>3, <1>4 DEF Inv, Entries, Grouped
  <1>8. Shown'
    BY <1>1, <1>2, <1>4, <1>5 DEF Inv, Shown
  <1> QED
    BY <1>6, <1>7, <1>8 DEF Inv

\* After every pod, and in whatever order, the report agrees with what is wrong with
\* the pods analysed (GetClusterIssues).
THEOREM Invariance == Spec => []Inv
  <1>1. Init => Inv
    BY InvInit
  <1>2. Inv /\ [Next]_vars => Inv'
    <2> SUFFICES ASSUME Inv, [Next]_vars PROVE Inv'
      OBVIOUS
    <2>1. CASE List
      BY <2>1, InvList
    <2>2. ASSUME NEW p \in todo, NextPod(p) PROVE Inv'
      BY <2>2, InvNextPod
    <2>3. CASE Finish
      BY <2>3, InvFinish
    <2>4. CASE UNCHANGED vars
      BY <2>4, InvStutter
    <2> QED
      BY <2>1, <2>2, <2>3, <2>4 DEF Next, Returned
  <1> QED
    BY <1>1, <1>2, PTL DEF Spec

-----------------------------------------------------------------------------

\* Every issue is of a category the dashboard knows, every request of a known kind.
THEOREM TypeCorrectness == Spec => []TypeOK
  <1>1. Inv => TypeOK
    <2> SUFFICES ASSUME Inv PROVE TypeOK
      OBVIOUS
    <2>1. /\ Listed \subseteq cluster /\ Analysed \in SUBSET Pods /\ Cardinality(Listed) \in 0..MaxPods
          /\ allIssues = TruthOf(Analysed)
      BY ListedIs, TruthNow DEF Inv, Counted
    <2>2. \A i \in allIssues : i.category \in Category /\ i.severity \in Severity
      BY <2>1, TruthIs DEF OneOf, Severity
    <2>3. issues.categories \in [Category -> Nat]
      <3>1. issues.categories = [c \in Category |-> Cardinality(Of(Truth, c))]
        BY DEF Inv, Counted
      <3>2. ASSUME NEW c \in Category PROVE Cardinality(Of(Truth, c)) \in Nat
        <4>1. IsFiniteSet(Truth) /\ Of(Truth, c) \subseteq Truth
          BY <2>1, TruthIs, TruthNow DEF Of
        <4> QED
          BY <4>1, FS_Subset, FS_CardinalityType
      <3> QED
        BY <3>1, <3>2
    <2>4. issues.totalPods \in 0..MaxPods
      <3>1. Cardinality({}) \in 0..MaxPods
        BY FS_EmptySet, PodsAssumption
      <3> QED
        BY <2>1, <3>1 DEF Inv, Counted
    <2> QED
      BY <2>1, <2>2, <2>3, <2>4 DEF TypeOK, Inv, Request
  <1> QED
    BY <1>1, Invariance, PTL

\* Issues are critical or warnings.
LEMMA SeveritiesAdd ==
  ASSUME NEW S, IsFiniteSet(S), \A i \in S : i.severity \in {"critical", "warning"}
  PROVE  /\ Cardinality(S) = Cardinality(As(S, "critical")) + Cardinality(As(S, "warning"))
         /\ Cardinality(As(S, "critical")) \in Nat /\ Cardinality(As(S, "warning")) \in Nat
  <1> DEFINE C == As(S, "critical")
             W == As(S, "warning")
  <1>1. C \subseteq S /\ W \subseteq S /\ S = C \cup W /\ C \cap W = {}
    BY DEF As
  <1> HIDE DEF C, W
  <1>2. IsFiniteSet(C) /\ IsFiniteSet(W)
    BY <1>1, FS_Subset
  <1>3. Cardinality(S) = Cardinality(C) + Cardinality(W) /\ Cardinality(C) \in Nat /\ Cardinality(W) \in Nat
    BY <1>1, <1>2, DisjointCount
  <1> QED
    BY <1>3 DEF C, W

\* The counters of the report, kept in five places, agree with each other and with
\* the pods analysed so far, however many issues a pod and pods a namespace has.
THEOREM TalliesCorrect == Spec => []TalliesAgree
  <1>1. Inv => TalliesAgree
    <2> SUFFICES ASSUME Inv PROVE TalliesAgree
      OBVIOUS
    <2> DEFINE fine == {q \in Analysed : analyzePod(q) = {}}
               ill  == {q \in Analysed : analyzePod(q) # {}}
    <2>1. /\ Listed \in SUBSET Pods /\ Analysed \in SUBSET Pods /\ IsFiniteSet(Listed) /\ todo \subseteq Listed
          /\ step \in {"list", "analyze", "done", "failed"} /\ (step \in {"list", "done", "failed"} => todo = {})
      BY ListedIs DEF Inv, Request
    <2>2. IsFiniteSet(Truth) /\ \A i \in Truth : OneOf(i.pod, i)
      BY <2>1, TruthIs, TruthNow
    <2>3. issues.totalPods = issues.healthyPods + issues.unhealthyPods + Cardinality(todo)
      <3>1. /\ issues.healthyPods = Cardinality(fine) /\ issues.unhealthyPods = Cardinality(ill)
            /\ issues.totalPods = Cardinality(IF step \in {"analyze", "done"} THEN Listed ELSE {})
        BY DEF Inv, Counted
      <3>2. (IF step \in {"analyze", "done"} THEN Listed ELSE {}) = Analysed \cup todo /\ Analysed \cap todo = {}
        BY <2>1 DEF Analysed
      <3>3. Analysed = fine \cup ill /\ fine \cap ill = {}
        OBVIOUS
      <3>4. IsFiniteSet(todo) /\ IsFiniteSet(fine) /\ IsFiniteSet(ill) /\ IsFiniteSet(Analysed)
        <4>1. IsFiniteSet(Analysed) /\ IsFiniteSet(todo)
          BY <2>1, TruthIs, FS_Subset
        <4> QED
          BY <4>1, FS_Subset
      <3> HIDE DEF fine, ill
      <3>5. Cardinality(Analysed) = Cardinality(fine) + Cardinality(ill)
        BY <3>3, <3>4, DisjointCount
      <3>6. Cardinality(Analysed \cup todo) = Cardinality(Analysed) + Cardinality(todo)
        BY <3>2, <3>4, DisjointCount
      <3>7. Cardinality(fine) \in Nat /\ Cardinality(ill) \in Nat /\ Cardinality(todo) \in Nat
        BY <3>4, FS_CardinalityType
      <3> QED
        BY <3>1, <3>2, <3>5, <3>6, <3>7
    <2>4. /\ allIssues = Truth /\ issues.unhealthyPods = Cardinality(ill)
          /\ \A c \in Category : issues.categories[c] = Cardinality(Of(Truth, c))
      BY DEF Inv, Counted
    <2>5. issues.byNamespace = [n \in NamespacesOf(Truth) |-> Entry(In(Truth, n))]
      BY DEF Inv, Entries
    <2>6. DOMAIN issues.byNamespace = {i.pod.namespace : i \in Truth}
      BY <2>5 DEF NamespacesOf
    <2>7. ASSUME NEW n \in DOMAIN issues.byNamespace
          PROVE  LET entry == issues.byNamespace[n]
                     own   == {i \in Truth : i.pod.namespace = n}
                 IN  /\ entry.totalPods = Cardinality({i.pod : i \in own})
                     /\ entry.issuesCount = Cardinality(own)
                     /\ entry.criticalCount = Cardinality(As(own, "critical"))
                     /\ entry.warningCount = entry.issuesCount - entry.criticalCount
      <3> DEFINE own == In(Truth, n)
      <3>1. issues.byNamespace[n] = Entry(own)
        BY <2>5
      <3>2. IsFiniteSet(own) /\ \A i \in own : i.severity \in {"critical", "warning"}
        <4>1. own \subseteq Truth
          BY DEF In
        <4> QED
          BY <2>2, <4>1, FS_Subset DEF OneOf
      <3>3. own = {i \in Truth : i.pod.namespace = n} /\ PodsOf(own) = {i.pod : i \in own}
        BY DEF In, PodsOf
      <3> HIDE DEF own
      <3>4. /\ Cardinality(own) = Cardinality(As(own, "critical")) + Cardinality(As(own, "warning"))
            /\ Cardinality(As(own, "critical")) \in Nat /\ Cardinality(As(own, "warning")) \in Nat
        BY <3>2, SeveritiesAdd
      <3>5. /\ Entry(own).totalPods = Cardinality(PodsOf(own)) /\ Entry(own).issuesCount = Cardinality(own)
            /\ Entry(own).criticalCount = Cardinality(As(own, "critical"))
            /\ Entry(own).warningCount = Cardinality(As(own, "warning"))
        BY DEF Entry
      <3>6. Entry(own).warningCount = Entry(own).issuesCount - Entry(own).criticalCount
        BY <3>4, <3>5
      <3> QED
        BY <3>1, <3>3, <3>5, <3>6
    <2>8. issues.newLastHour <= issues.newLast24h /\ issues.newLast24h <= Cardinality(Truth)
      <3>1. issues.newLastHour = Cardinality(SeenIn(Truth, 1)) /\ issues.newLast24h = Cardinality(SeenIn(Truth, 2))
        BY DEF Inv, Counted
      <3>2. SeenIn(Truth, 1) \subseteq SeenIn(Truth, 2) /\ SeenIn(Truth, 2) \subseteq Truth
        BY <2>2 DEF SeenIn, OneOf
      <3>3. IsFiniteSet(SeenIn(Truth, 2))
        BY <2>2, <3>2, FS_Subset
      <3> QED
        BY <2>2, <3>1, <3>2, <3>3, FS_Subset
    <2> QED
      BY <2>3, <2>4, <2>6, <2>7, <2>8 DEF TalliesAgree
  <1> QED
    BY <1>1, Invariance, PTL

\* What a cut leaves out comes before nothing that is kept, and only a full list leaves
\* anything out.
LEMMA FirstOfIs ==
  ASSUME NEW limit, NEW S, NEW before, NEW T \in FirstOf(limit, S, before), NEW x \in S \ T
  PROVE  Cardinality(T) = limit /\ T \subseteq S /\ \A y \in T : <<x, y>> \notin before
  BY DEF FirstOf

\* The lists that are cut leave out only what matters less than what they show
\* (createTopIssues, sortAndLimitCriticalIssues).
THEOREM CutsCorrect == Spec => []CutsLeaveTheLeast
  <1>1. Inv => CutsLeaveTheLeast
    <2> SUFFICES ASSUME Inv, step = "done" PROVE CutsLeaveTheLeast
      BY DEF CutsLeaveTheLeast
    <2> DEFINE S == Summaries(filterBySeverity(Truth))
               C == As(Truth, "critical")
    <2>1. issues.top \in FirstOf(TopLimit, S, Heavier(S)) /\ issues.critical \in FirstOf(CriticalLimit, C, Later(C))
      BY DEF Inv, Shown
    <2>2. IsFiniteSet(Truth) /\ \A i \in Truth : OneOf(i.pod, i)
      BY ListedIs, TruthIs, TruthNow DEF Inv
    <2>3. ASSUME NEW s \in S PROVE s.severity \in {"critical", "warning"} /\ s.count \in Nat
      <3>1. filterBySeverity(Truth) \subseteq Truth
        BY DEF filterBySeverity, As
      <3>2. PICK i \in filterBySeverity(Truth) :
              s = [category |-> i.category, severity |-> i.severity,
                   count |-> Cardinality(As(Of(filterBySeverity(Truth), i.category), i.severity))]
        BY DEF Summaries
      <3>3. As(Of(filterBySeverity(Truth), i.category), i.severity) \subseteq Truth
        BY <3>1 DEF As, Of
      <3>4. Cardinality(As(Of(filterBySeverity(Truth), i.category), i.severity)) \in Nat
        BY <2>2, <3>3, FS_Subset, FS_CardinalityType
      <3>5. i.severity \in {"critical", "warning"}
        BY <2>2, <3>1, <3>2 DEF OneOf
      <3> QED
        BY <3>2, <3>4, <3>5
    <2>4. ASSUME NEW s \in S \ issues.top
          PROVE  /\ Cardinality(issues.top) = TopLimit
                 /\ \A t \in issues.top :
                      /\ SeverityWeight[t.severity] >= SeverityWeight[s.severity]
                      /\ t.severity = s.severity => t.count >= s.count
      <3> HIDE DEF S
      <3>1. Cardinality(issues.top) = TopLimit /\ issues.top \subseteq S /\ \A t \in issues.top : <<s, t>> \notin Heavier(S)
        BY <2>1, FirstOfIs
      <3>2. ASSUME NEW t \in issues.top
            PROVE  /\ SeverityWeight[t.severity] >= SeverityWeight[s.severity]
                   /\ t.severity = s.severity => t.count >= s.count
        <4>1. <<s, t>> \in S \X S /\ <<s, t>> \notin Heavier(S)
          BY <3>1
        <4>2. ~(IF s.severity = t.severity THEN s.count > t.count
                ELSE SeverityWeight[s.severity] > SeverityWeight[t.severity])
          BY <4>1 DEF Heavier
        <4>3. /\ s.severity \in {"critical", "warning"} /\ t.severity \in {"critical", "warning"}
              /\ s.count \in Nat /\ t.count \in Nat
          BY <2>3, <3>1
        <4>4. SeverityWeight["critical"] = 3 /\ SeverityWeight["warning"] = 2
          BY DEF SeverityWeight
        <4> QED
          BY <4>2, <4>3, <4>4
      <3> QED
        BY <3>1, <3>2
    <2>5. ASSUME NEW i \in C \ issues.critical
          PROVE  Cardinality(issues.critical) = CriticalLimit /\ \A j \in issues.critical : j.lastSeen <= i.lastSeen
      <3>1. /\ Cardinality(issues.critical) = CriticalLimit /\ issues.critical \subseteq C
            /\ \A j \in issues.critical : <<i, j>> \notin Later(C)
        BY <2>1, FirstOfIs
      <3>2. ASSUME NEW j \in issues.critical PROVE j.lastSeen <= i.lastSeen
        <4>1. ~(i.lastSeen < j.lastSeen)
          BY <3>1 DEF Later
        <4>2. i \in Truth /\ j \in Truth
          BY <3>1 DEF As
        <4>3. i.lastSeen \in Nat /\ j.lastSeen \in Nat
          BY <2>2, <4>2 DEF OneOf
        <4> QED
          BY <4>1, <4>3
      <3> QED
        BY <3>1, <3>2
    <2> QED
      BY <2>4, <2>5 DEF CutsLeaveTheLeast
  <1> QED
    BY <1>1, Invariance, PTL

\* A pattern that is shown counts all issues of its key, names their namespaces, and
\* has the labels these pods share, in whatever order they were met (detectPatterns).
THEOREM PatternsCorrect == Spec => []PatternsFaithful
  <1>1. Inv => PatternsFaithful
    <2> SUFFICES ASSUME Inv, step = "done", NEW pattern \in issues.patterns
                 PROVE  /\ pattern.count = Cardinality(WithKey(Truth, pattern.key))
                        /\ pattern.namespaces = {p.namespace : p \in Affected(pattern.key)}
                        /\ \A l \in pattern.commonLabels, m \in UNION {p.labels : p \in Affected(pattern.key)} :
                             m[1] = l[1] => m[2] = l[2]
                        /\ \A l \in UNION {p.labels : p \in Affected(pattern.key)} :
                             (\A p \in Affected(pattern.key) : l \in p.labels) => l \in pattern.commonLabels
      BY DEF PatternsFaithful
    <2>1. PICK k \in DOMAIN issuePatterns :
            pattern = [key |-> k, count |-> issuePatterns[k].count, namespaces |-> issuePatterns[k].namespaces,
                       commonLabels |-> issuePatterns[k].commonLabels]
      BY DEF Inv, Shown, Patterns
    <2>2. Faithful(Analysed, k, issuePatterns[k])
      BY DEF Inv, Grouped
    <2>3. Affected(k) = AffectedOf(Analysed, k)
      BY DEF Affected, AffectedOf
    <2>4. /\ pattern.key = k /\ pattern.count = issuePatterns[k].count
          /\ pattern.namespaces = issuePatterns[k].namespaces /\ pattern.commonLabels = issuePatterns[k].commonLabels
      BY <2>1
    <2>5. pattern.count = Cardinality(WithKey(Truth, k)) /\ pattern.namespaces = {p.namespace : p \in Affected(k)}
      BY <2>2, <2>3, <2>4, TruthNow DEF Faithful
    <2>6. /\ \A l \in pattern.commonLabels, p \in Affected(k) : \A m \in p.labels : m[1] = l[1] => m[2] = l[2]
          /\ \A p \in Affected(k) : \A l \in p.labels :
               (\A q \in Affected(k) : l \in q.labels) => l \in pattern.commonLabels
      BY <2>2, <2>3, <2>4 DEF Faithful
    <2>7. \A m \in UNION {p.labels : p \in Affected(k)} : \E p \in Affected(k) : m \in p.labels
      OBVIOUS
    <2> QED
      BY <2>4, <2>5, <2>6, <2>7
  <1> QED
    BY <1>1, Invariance, PTL
===============================================================================
