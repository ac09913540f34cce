----------------------------- MODULE MCController ----------------------------
(* A small cluster for Controller: an admission of the cluster and one of  *)
(* a namespace, a pod in that namespace and one in another, a deployment.  *)
EXTENDS Controller

CONSTANTS limit, tag, pod1, pod2, deploy, pods, deployments, default, prod

MCAdmNamespaceOf == [a \in Admissions |-> IF a = tag THEN default ELSE NoNamespace]
MCResourceOf == [o \in Objects |-> IF o = deploy THEN deployments ELSE pods]
MCNamespaceOf == [o \in Objects |-> IF o = pod1 THEN default ELSE prod]

(* Every version of every admission is about pods alone, ...               *)
PodsOnly == [a \in Admissions |-> [v \in 1..MaxAdmVersion |-> <<pods>>]]

(* ... or moves from pods to deployments and to nothing at all, ...        *)
Moving ==
  [a \in Admissions |->
     [v \in 1..MaxAdmVersion |->
        CASE v = 1 -> <<pods>> [] v = 2 -> <<deployments>> [] OTHER -> <<>>]]

(* ... or is about both.                                                   *)
PodsAndDeployments ==
  [a \in Admissions |-> [v \in 1..MaxAdmVersion |-> <<pods, deployments>>]]

=============================================================================
