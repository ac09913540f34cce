----------------------------- MODULE AtomicState -----------------------------
(***************************************************************************)
(* What the README promises of a hook that declares sync and state: the    *)
(* state object is read and written atomically (src/README.md:265).  Each  *)
(* call takes effect in one step, or fails in one step and has no effect.  *)
(***************************************************************************)
CONSTANTS Calls, Updates

VARIABLES State, result

Init == State = {} /\ result = [c \in Calls |-> "pending"]

Succeed(c) ==
  /\ result[c] = "pending"
  /\ result' = [result EXCEPT ![c] = "ok"]
  /\ State' = State \cup (Updates \cap {c})

Fail(c) ==
  /\ result[c] = "pending"
  /\ result' = [result EXCEPT ![c] = "failed"]
  /\ UNCHANGED State

Next == \E c \in Calls : Succeed(c) \/ Fail(c)

Spec == Init /\ [][Next]_<<State, result>>

=============================================================================
