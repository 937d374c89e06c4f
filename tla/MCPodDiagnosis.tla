----------------------------- MODULE MCPodDiagnosis -----------------------------
(* Pods at the moments from which PodDiagnosis follows them.               *)
EXTENDS PodDiagnosis

Status(state, reason, ready, restarts, started) ==
  [state |-> state, reason |-> reason, ready |-> ready, restarts |-> restarts, started |-> started]

Event(type, reason, count, first, last) ==
  [type |-> type, reason |-> reason, count |-> count, first |-> first, last |-> last]

Pod(scheduled, reported, c, d) ==
  [scheduled |-> scheduled, reported |-> reported, containers |-> [x \in {"c", "d"} |-> IF x = "c" THEN c ELSE d]]
Creating == Status("waiting", "ContainerCreating", FALSE, 0, 0)

MCBeginnings == {
  [pod |-> Pod(FALSE, FALSE, Creating, Creating), events |-> {}, now |-> 1],
  [pod |-> Pod(TRUE, FALSE, Creating, Creating), events |-> {}, now |-> 9],
  [pod |-> Pod(TRUE, TRUE, Creating, Status("waiting", "ErrImagePull", FALSE, 0, 0)),
   events |-> {Event("Warning", "Failed", 1, 1, 1)}, now |-> 2],
  [pod |-> Pod(TRUE, TRUE, Status("running", "", TRUE, 0, 1), Status("running", "", TRUE, 0, 100)),
   events |-> {Event("Warning", "FailedMount", 2, 1, 150)}, now |-> 300],
  [pod |-> Pod(TRUE, TRUE, Status("running", "", TRUE, 5, 100), Status("running", "", TRUE, 1, 1)),
   events |-> {}, now |-> 3000],
  [pod |-> Pod(TRUE, TRUE, Status("waiting", "CrashLoopBackOff", FALSE, 5, 20), Status("running", "", TRUE, 0, 1)),
   events |-> {Event("Warning", "BackOff", 8, 20, 97), Event("Warning", "Unhealthy", 2, 98, 99)}, now |-> 100]}

\* Of the reasons that occur, the kubelet's FailedMountOnFilesystemMismatch too
\* contains a pattern.
MCSubstrings == {
  <<"BackOff", "CrashLoopBackOff">>, <<"BackOff", "ImagePullBackOff">>,
  <<"FailedMount", "FailedMountOnFilesystemMismatch">>}
===============================================================================
