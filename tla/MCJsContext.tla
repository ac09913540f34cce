---------------------------- MODULE MCJsContext ----------------------------
(***************************************************************************)
(* Instances of JsContext: small scripts and the calls made of them.       *)
(***************************************************************************)
EXTENDS JsContext

CONSTANTS init, add1, add2, del1, val1, mut1

(* An admission that counts pods, as in src/README.md:270-291: the event   *)
(* hooks write the count, jsa_validate and jsa_mutate read it.             *)
MCMethodOf ==
  [c \in Calls |->
     CASE c = init           -> "jsa_init"
       [] c \in {add1, add2} -> "jsa_created"
       [] c = del1           -> "jsa_deleted"
       [] c = val1           -> "jsa_validate"
       [] c = mut1           -> "jsa_mutate"]

CountPods == [m \in Methods |-> IF m = "jsa_init" THEN {"state"}
                                ELSE {"obj", "sync", "state"}]

MCUpdates == {c \in Calls : IsEvent(c)}

AllMethods == Methods
NoUpdateHook == Methods \ {"jsa_updated", "jsa_mutate"}

=============================================================================
