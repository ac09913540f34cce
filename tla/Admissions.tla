------------------------------ MODULE Admissions -----------------------------
(***************************************************************************)
(* admission/admissions.go: the registry of the admissions' codes, two     *)
(* nested maps (namespace, name) under one lock.  Each admission has at    *)
(* most one code, named here by the version of the admission it was made   *)
(* from (0 is none); a code is found only once it IsValid.                 *)
(***************************************************************************)
EXTENDS Naturals, Functions

CONSTANTS
  Admissions,      \* the JsAdmissions and ClusterJsAdmissions there may be
  AdmNamespaceOf,  \* the namespace of each, NoNamespace for the latter
  KindsOf,         \* the resources each version of each is about, a sequence
  NoNamespace

VARIABLES
  registry,  \* the version whose code is registered, per admission
  valid      \* the admissions whose registered code IsValid

AdmissionsInit ==
  /\ registry = [a \in Admissions |-> 0]
  /\ valid = {}

(* Mutant of Upsert: the old code is replaced only by one that compiles.   *)
UpsertIfCompiled(a, version, compiles) ==
  /\ registry' = [registry EXCEPT ![a] = IF compiles THEN version ELSE @]
  /\ valid' = IF compiles THEN valid \ {a} ELSE valid

(* Mutant of Upsert: a code is valid from the start.                       *)
UpsertValid(a, version, compiles) ==
  /\ registry' = [registry EXCEPT ![a] = IF compiles THEN version ELSE 0]
  /\ valid' = IF compiles THEN valid \cup {a} ELSE valid \ {a}

(* Upsert deletes the old code first: if the new one does not compile,     *)
(* none is left.                                                           *)
Upsert(a, version, compiles) ==
  /\ registry' = [registry EXCEPT ![a] = IF compiles THEN version ELSE 0]
  /\ valid' = valid \ {a}

(* Mutant of Remove: the code is only made invalid.                        *)
RemoveInvalidating(a) ==
  /\ valid' = valid \ {a}
  /\ UNCHANGED registry

Remove(a) ==
  /\ registry' = [registry EXCEPT ![a] = 0]
  /\ valid' = valid \ {a}

(* code.IsValid = true, written by main.go without the registry's lock.    *)
MakeValid(a) ==
  /\ valid' = valid \cup {a}
  /\ UNCHANGED registry

Kinds(a, version) == Range(KindsOf[a][version])

(* The valid codes for a resource in a namespace: the namespace's own and  *)
(* the cluster's; for a cluster resource, the cluster's only.              *)
Find(r, ns) ==
  {a \in valid : /\ registry[a] # 0
                 /\ r \in Kinds(a, registry[a])
                 /\ AdmNamespaceOf[a] \in {ns, NoNamespace}}

=============================================================================
