------------------------- MODULE MCSchedulingAnalysis -------------------------
(* Nodes, pods and events for SchedulingAnalysis: each way a node can fail a *)
(* pod occurs, and so does a node that fits.                                 *)
EXTENDS SchedulingAnalysis

Node(name, ready, unschedulable, zone, taints, cpu, memory) ==
  [name |-> name, ready |-> ready, unschedulable |-> unschedulable, labels |-> {<<"zone", zone>>},
   taints |-> taints, allocatable |-> [cpu |-> cpu, memory |-> memory, storage |-> 1]]

Taint(key, effect) == [key |-> key, value |-> "", effect |-> effect]
NotReady == Taint("not-ready", "NoSchedule")
Dedicated == Taint("dedicated", "NoExecute")

MCNodeLists == {
  <<>>,
  <<Node("n2", "none", FALSE, "b", {Dedicated}, 1, 1)>>,
  <<Node("n1", "False", TRUE, "a", {NotReady}, 3, 1),
    Node("n2", "True", FALSE, "a", {Taint("old", "PreferNoSchedule")}, 3, 2)>>}

Plain == [name |-> "p", namespace |-> "x", labels |-> {}, requests |-> [cpu |-> 1, memory |-> 0, storage |-> 0],
          selector |-> {}, required |-> {}, tolerations |-> {}, antiAffinity |-> {}, affinity |-> {}, claims |-> {}]

Term(expressions, fields) == [expressions |-> expressions, fields |-> fields]
Requirement(key, op2, values) == [key |-> key, op |-> op2, values |-> values]
PodTerm(namespaces, selector) == [namespaces |-> namespaces, selector |-> selector]
Web == {<<"app", "web">>}
Db == {<<"app", "db">>}

MCSubjects == {
  [Plain EXCEPT !.labels = Web, !.requests.cpu = 2, !.antiAffinity = {PodTerm({}, Web), PodTerm({"x"}, NoSelector)},
                !.tolerations = {[key |-> "dedicated", operator |-> "Exists", value |-> "", effect |-> ""]}],
  [Plain EXCEPT !.selector = {<<"zone", "a">>}, !.antiAffinity = {PodTerm({"x"}, Db)}, !.affinity = {PodTerm({}, Web)}],
  [Plain EXCEPT !.requests.cpu = 0, !.claims = {[name |-> "c", rwo |-> TRUE, terms |-> {Term({Requirement("zone", "In", {"a"})}, {})}]},
                !.tolerations = {[key |-> "", operator |-> "Exists", value |-> "", effect |-> "NoExecute"]}],
  [Plain EXCEPT !.requests = [cpu |-> 2, memory |-> 2, storage |-> 1], !.required = {Term({Requirement("zone", "NotIn", {"b"})}, {}),
                              Term({Requirement("gpu", "Exists", {})}, {Requirement("metadata.name", "In", {"n2"})})}]}

MCOthers == {
  [name |-> "w", namespace |-> "x", labels |-> Web, requests |-> [cpu |-> 2, memory |-> 1, storage |-> 0]],
  [name |-> "d", namespace |-> "y", labels |-> Db, requests |-> [cpu |-> 1, memory |-> 1, storage |-> 1]]}

Event(reason, message) == [reason |-> reason, message |-> message]
MCEventLists == {
  <<>>,
  <<Event("FailedScheduling", {"available", "memory", "maxVolumes", "nodeAffinity"}),
    Event("NotTriggerScaleUp", {"maxNodeGroup"})>>}
===============================================================================
