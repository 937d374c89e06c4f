------------------------------ MODULE MCPodReports ------------------------------
(* Pods for PodReports: one for every way the two analyzePods can go, and   *)
(* enough with one issue in common to make patterns.                        *)
EXTENDS PodReports

Fine == [name |-> "fine", namespace |-> "n1", labels |-> {}, phase |-> "Running",
         age |-> "old", scheduling |-> "ok", evicted |-> FALSE, notReady |-> FALSE,
         containers |-> {}, initContainers |-> {},
         owners |-> {"ReplicaSet"}, warnings |-> {}]

Container(name, state, reason, finished, restarts) ==
  [name |-> name, state |-> state, reason |-> reason, finished |-> finished, restarts |-> restarts]

Crashing == Container("c", "waiting", "CrashLoopBackOff", 0, 9)

Warning(reason, minutes) == [reason |-> reason, minutes |-> minutes]

MCPods == {
  [Fine EXCEPT !.name = "crash1", !.labels = {<<"app", "a">>, <<"tier", "x">>}, !.containers = {Crashing},
               !.notReady = TRUE,
               !.warnings = {Warning("BackOff", 1), Warning("Unhealthy", 30), Warning("Failed", 59), Warning("Killing", 70)}],
  [Fine EXCEPT !.name = "crash2", !.labels = {<<"app", "a">>, <<"tier", "y">>}, !.owners = {"StatefulSet"},
               !.containers = {Crashing, Container("d", "waiting", "ErrImagePull", 0, 0)}],
  [Fine EXCEPT !.name = "crash3", !.namespace = "n2", !.labels = {<<"app", "b">>},
               !.containers = {Crashing, Container("d", "waiting", "ErrImagePull", 0, 0)}],
  [Fine EXCEPT !.name = "evicted", !.phase = "Failed", !.evicted = TRUE],
  [Fine EXCEPT !.name = "pending", !.phase = "Pending", !.age = "recent", !.scheduling = "Insufficient"],
  [Fine EXCEPT !.name = "large", !.phase = "Pending", !.scheduling = "Insufficient"],
  [Fine EXCEPT !.name = "short", !.phase = "Pending", !.scheduling = "insufficient"],
  [Fine EXCEPT !.name = "refused", !.phase = "Pending", !.scheduling = "unschedulable", !.warnings = {Warning("FailedScheduling", 5)}],
  [Fine EXCEPT !.name = "stuck", !.phase = "Pending", !.initContainers = {Container("i", "failed", "Error", 0, 1)}],
  [Fine EXCEPT !.name = "starting", !.namespace = "n2", !.phase = "Pending", !.age = "new",
               !.initContainers = {Container("i", "running", "", 0, 0),
                                   Container("j", "waiting", "PodInitializing", 0, 0)},
               !.containers = {Container("c", "waiting", "PodInitializing", 0, 0)}],
  [Fine EXCEPT !.name = "oom", !.containers = {Container("c", "failed", "OOMKilled", 1, 2),
                                                  Container("d", "waiting", "CreateContainerConfigError", 0, 0)}],
  [Fine EXCEPT !.name = "error", !.containers = {Container("c", "failed", "Error", 2, 0), Container("d", "running", "", 0, 6),
                                                    Container("e", "failed", "Error", 0, 0)},
               !.initContainers = {Container("i", "done", "Completed", 2, 3)}],
  [Fine EXCEPT !.name = "done", !.namespace = "n2", !.owners = {"Job"},
               !.containers = {Container("c", "done", "Completed", 1, 0)}]}
==============================================================================
