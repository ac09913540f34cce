------------------------------- MODULE MCHook --------------------------------
(* Two admissions of a namespace, one of another, two of the cluster, with *)
(* names that alternate between them.                                      *)
EXTENDS Hook

CONSTANTS a, b, c, d, e, default, prod

MCAdmNamespaceOf ==
  [x \in Admissions |->
     CASE x \in {a, c} -> NoNamespace [] x \in {b, d} -> default [] OTHER -> prod]

MCNameOrder ==
  [x \in Admissions |->
     CASE x = a -> 1 [] x = b -> 2 [] x = c -> 3 [] x = d -> 4 [] OTHER -> 5]

=============================================================================
