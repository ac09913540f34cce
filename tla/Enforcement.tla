----------------------------- MODULE Enforcement -----------------------------
(***************************************************************************)
(* What the controller promises, without watchers, locks or hooks: an      *)
(* admission is enforced, in one version, or it is not; and one that is    *)
(* enforced knows the cached objects it is about, at every moment.         *)
(* Controller is shown to implement this module.                           *)
(***************************************************************************)
EXTENDS Naturals

CONSTANTS
  Admissions, Objects,
  Versions,     \* of the objects, 0 for one that does not exist
  AdmVersions,  \* of the admissions, likewise
  About         \* the objects each version of each admission is about

VARIABLES
  cache,     \* the version of each object
  wanted,    \* the version of each admission the controller was last told of
  enforced,  \* the version of each admission that is enforced, 0 if none is
  known      \* the version of each object each enforced admission knows

vars == <<cache, wanted, enforced, known>>

Nothing == [o \in Objects |-> 0]

Concerned(a, o) == enforced[a] # 0 /\ o \in About[a][enforced[a]]

Init ==
  /\ cache = Nothing
  /\ wanted = [a \in Admissions |-> 0]
  /\ enforced = [a \in Admissions |-> 0]
  /\ known = [a \in Admissions |-> Nothing]

(* Whatever happens to an object, all admissions it concerns know at once. *)
ObjectChanges(o) ==
  \E version \in Versions :
    /\ cache' = [cache EXCEPT ![o] = version]
    /\ known' = [a \in Admissions |-> IF Concerned(a, o)
                                        THEN [known[a] EXCEPT ![o] = version]
                                        ELSE known[a]]
    /\ UNCHANGED <<wanted, enforced>>

AdmissionChanges(a) ==
  /\ \E version \in AdmVersions : wanted' = [wanted EXCEPT ![a] = version]
  /\ UNCHANGED <<cache, enforced, known>>

(* Only the version last wanted is enforced, and it knows all there is.    *)
Enforce(a) ==
  /\ wanted[a] # 0
  /\ enforced[a] = 0
  /\ enforced' = [enforced EXCEPT ![a] = wanted[a]]
  /\ known' = [known EXCEPT ![a] =
                 [o \in Objects |-> IF o \in About[a][wanted[a]] THEN cache[o] ELSE 0]]
  /\ UNCHANGED <<cache, wanted>>

(* Only a version that is not wanted any more is dropped.                  *)
Drop(a) ==
  /\ enforced[a] \notin {0, wanted[a]}
  /\ enforced' = [enforced EXCEPT ![a] = 0]
  /\ known' = [known EXCEPT ![a] = Nothing]
  /\ UNCHANGED <<cache, wanted>>

Next ==
  \/ \E o \in Objects : ObjectChanges(o)
  \/ \E a \in Admissions : AdmissionChanges(a) \/ Enforce(a) \/ Drop(a)

Spec == Init /\ [][Next]_vars

=============================================================================
