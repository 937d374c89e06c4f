-------------------------------- MODULE PodWorld --------------------------------
(***************************************************************************)
(* A pod and its events while somebody asks about it: what the scheduler,  *)
(* the kubelet and others do to them.  None of this is code of the agent;  *)
(* its services read the pod's status and the events, and their answers    *)
(* depend on which pods and events there can be.                           *)
(*                                                                         *)
(* Times are minutes since the pod was created.  Repeated events are one   *)
(* record with a count, as the recorders of Kubernetes keep them.          *)
(***************************************************************************)
EXTENDS Integers, FiniteSets, FiniteSetsExt

CONSTANTS Containers,     \* the pod's containers
          Reasons,        \* what a container may wait for; "" for nothing
          Beginnings,     \* pod, events and time when the story begins
          OtherReasons,   \* reasons of warnings by other components
          Steps,          \* how far the clock may jump
          MaxHappenings   \* bound: changes from the beginning to the last answer

ASSUME WorldAssumption ==
  /\ IsFiniteSet(Containers) /\ Containers # {}
  /\ MaxHappenings \in Nat /\ Steps \subseteq Nat \ {0}

ASSUME ReasonsAssumption == {"", "CrashLoopBackOff", "ErrImagePull", "ImagePullBackOff"} \subseteq Reasons

ContainerStatus == [state : {"running", "waiting", "failed", "completed"}, reason : Reasons,
                    ready : BOOLEAN, restarts : Nat, started : Int]

PodType == [scheduled : BOOLEAN, reported : BOOLEAN, containers : [Containers -> ContainerStatus]]

\* No kubelet reports on a pod that is not scheduled, only a container that waits has
\* a reason for it, and no event was last seen in the future.
ASSUME BeginningsAssumption ==
  \A b \in Beginnings :
    /\ b.pod \in PodType /\ (b.pod.reported => b.pod.scheduled)
    /\ \A c \in Containers : b.pod.containers[c].state = "running" => b.pod.containers[c].reason = ""
    /\ b.now \in Nat /\ IsFiniteSet(b.events)
    /\ \A e \in b.events :
         e.type \in {"Normal", "Warning"} /\ e.count \in Nat /\ e.last \in Int /\ e.last <= b.now

VARIABLES pod,        \* whether it is scheduled and its kubelet has reported on it, and
                      \* the status of every container, which is there from then on
          events,     \* the events that are about the pod
          now,
          happenings  \* how many changes there were

world == <<pod, events, now, happenings>>

WorldInit ==
  /\ \E b \in Beginnings : pod = b.pod /\ events = b.events /\ now = b.now
  /\ happenings = 0

\* Until its node's kubelet reports on the pod there are no container statuses, though
\* the scheduler may have bound it long before.
Statuses(p) == IF p.reported THEN {p.containers[c] : c \in Containers} ELSE {}

\* The conditions that are there and not true; it is the kubelet that adds all but
\* PodScheduled.
FalseConditions(p) ==
  CASE ~p.scheduled -> {"PodScheduled"}
    [] p.scheduled /\ p.reported /\ (\E c \in Containers : ~p.containers[c].ready) -> {"Ready", "ContainersReady"}
    [] OTHER -> {}

\* The zero time of an event that was recorded with the newer API events.k8s.io: it
\* carries its time in EventTime, which the services do not read, and no count.
Undated == -1000000

\* n more occurrences of an event.
Record(type, reason, n) ==
  LET old == {e \in events : e.type = type /\ e.reason = reason}
  IN  events' = (events \ old) \cup
        {[type |-> type, reason |-> reason, last |-> now,
          first |-> IF old = {} THEN now ELSE Min({e.first : e \in old}),
          count |-> n + IF old = {} THEN 0 ELSE Min({e.count : e \in old})]}

Set(c, status) == pod' = [pod EXCEPT !.containers[c] = status]
Waiting(s, reason) == [s EXCEPT !.state = "waiting", !.reason = reason, !.ready = FALSE]

Schedule ==
  /\ ~pod.scheduled /\ pod' = [pod EXCEPT !.scheduled = TRUE]
  /\ UNCHANGED <<events, now>>

\* The kubelet's first report.
ReportStatus ==
  /\ pod.scheduled /\ ~pod.reported /\ pod' = [pod EXCEPT !.reported = TRUE]
  /\ UNCHANGED <<events, now>>

\* The scheduler uses the newer API; others, and older ones, the other.
FailScheduling ==
  /\ ~pod.scheduled
  /\ \/ events' = events \cup {[type |-> "Warning", reason |-> "FailedScheduling",
                               first |-> Undated, last |-> Undated, count |-> 0]}
     \/ Record("Warning", "FailedScheduling", 1)
  /\ UNCHANGED <<pod, now>>

Start(c) ==
  LET s == pod.containers[c]
  IN  /\ pod.reported /\ s.state = "waiting"
      /\ Set(c, [s EXCEPT !.state = "running", !.reason = "", !.started = now,
                          !.restarts = IF s.reason = "CrashLoopBackOff" THEN @ + 1 ELSE @])
      /\ UNCHANGED <<events, now>>

BecomeReady(c) ==
  /\ pod.reported /\ pod.containers[c].state = "running" /\ ~pod.containers[c].ready
  /\ Set(c, [pod.containers[c] EXCEPT !.ready = TRUE])
  /\ UNCHANGED <<events, now>>

FailProbe(c) ==
  /\ pod.reported /\ pod.containers[c].state = "running"
  /\ Set(c, [pod.containers[c] EXCEPT !.ready = FALSE])
  /\ Record("Warning", "Unhealthy", 1)
  /\ UNCHANGED now

Exit(c, state) ==
  /\ pod.reported /\ pod.containers[c].state = "running"
  /\ Set(c, [pod.containers[c] EXCEPT !.state = state, !.ready = FALSE])
  /\ UNCHANGED <<events, now>>

\* The kubelet waits before the next start, and says so again and again.
BackOff(c) ==
  LET s == pod.containers[c]
  IN  /\ pod.reported /\ (s.state = "failed" \/ s.reason = "CrashLoopBackOff")
      /\ Set(c, Waiting(s, "CrashLoopBackOff"))
      /\ Record("Warning", "BackOff", 4)
      /\ UNCHANGED now

FailPull(c) ==
  LET s == pod.containers[c]
  IN  /\ pod.reported /\ s.reason = "ContainerCreating"
      /\ Set(c, Waiting(s, "ErrImagePull"))
      /\ Record("Warning", "Failed", 1)
      /\ UNCHANGED now

\* Of a back-off from pulling the kubelet tells with a Normal event.
BackOffPull(c) ==
  LET s == pod.containers[c]
  IN  /\ pod.reported /\ s.reason \in {"ErrImagePull", "ImagePullBackOff"}
      /\ Set(c, Waiting(s, "ImagePullBackOff"))
      /\ Record("Normal", "BackOff", 4)
      /\ UNCHANGED now

Report(reason) == Record("Warning", reason, 1) /\ UNCHANGED <<pod, now>>

Tick(d) == now' = now + d /\ UNCHANGED <<pod, events>>

WorldNext ==
  /\ happenings < MaxHappenings /\ happenings' = happenings + 1
  /\ \/ Schedule \/ ReportStatus \/ FailScheduling
     \/ \E c \in Containers : \/ Start(c) \/ BecomeReady(c) \/ FailProbe(c)
                              \/ BackOff(c) \/ FailPull(c) \/ BackOffPull(c)
                              \/ \E state \in {"failed", "completed"} : Exit(c, state)
     \/ \E reason \in OtherReasons : Report(reason)
     \/ \E d \in Steps : Tick(d)
===============================================================================
