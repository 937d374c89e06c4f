---------------------------- MODULE MCEndpoints ----------------------------
(* The permissions Endpoints is checked with.                              *)
EXTENDS Endpoints

AllCalls == {"getPod", "listPods", "getNode", "listNodes", "listEvents",
             "getVolumes", "listMetrics", "getMetrics"}

\* deployments/base/clusterrole.yaml
ShippedRole == {"getPod", "listPods", "getNode", "listNodes", "listEvents", "getMetrics"}
============================================================================
