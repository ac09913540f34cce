------------------------------ MODULE MCWatcher ------------------------------
(* A small cluster for Watcher: two pods in one namespace, a deployment in *)
(* another, and the constants of MCWatcher's configurations.               *)
EXTENDS Watcher

CONSTANTS pod1, pod2, deploy, pods, deployments, default, prod

MCResourceOf == [o \in Objects |-> IF o = deploy THEN deployments ELSE pods]
MCNamespaceOf == [o \in Objects |-> IF o = deploy THEN prod ELSE default]

=============================================================================
