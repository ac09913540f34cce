------------------------------ MODULE JsContext ------------------------------
(***************************************************************************)
(* admission/jscontext.go: the JavaScript context of one admission.        *)
(*                                                                         *)
(* A JsContext owns the admission's shared State, a lock, and a pool of    *)
(* goja runtimes.  Every hook of the admission (jsa_init, jsa_created,     *)
(* jsa_mutate, ...) is one Call: borrow a runtime, build the arguments,    *)
(* lock, run the function under a timer, store State back, unlock, return  *)
(* the runtime.  The module interleaves the calls that a controller makes  *)
(* concurrently: event hooks, which the resources watcher serialises, and  *)
(* webhook requests, which arrive on goroutines of their own.              *)
(*                                                                         *)
(* State is abstracted to the set of calls whose effect it contains.       *)
(***************************************************************************)
EXTENDS FiniteSets

CONSTANTS
  Calls,      \* the hook invocations, each made once
  MethodOf,   \* the jsa_ method each call invokes
  Declared,   \* the parameter names each jsa_ function of the script declares
  Defined,    \* the jsa_ methods the script defines
  Updates,    \* the calls whose function modifies the state object it gets
  Runtimes,   \* the pool's slots: MaxTotal of the pool's default configuration
  Failures,   \* which errors the script can produce: "create", "throw", "loop"
  NoRuntime, Nobody

RequestMethods == {"jsa_mutate", "jsa_validate"}
EventMethods   == {"jsa_init", "jsa_created", "jsa_updated", "jsa_deleted"}
Methods        == RequestMethods \cup EventMethods

(* The parameter names analyseFunction looks for in each method: they are  *)
(* the keys of JsFunction.Params whether the script declares them or not.  *)
Params(m) ==
  CASE m = "jsa_init"       -> {"state"}
    [] m \in RequestMethods -> {"state", "sync", "obj", "op"}
    [] m = "jsa_updated"    -> {"state", "sync", "obj", "old"}
    [] OTHER                -> {"state", "sync", "obj"}

ASSUME ConstantsAssumption ==
  /\ MethodOf \in [Calls -> Methods]
  /\ Declared \in [Methods -> SUBSET {"state", "sync", "obj", "old", "op"}]
  /\ Defined \subseteq Methods
  /\ Updates \subseteq {c \in Calls : "state" \in Declared[MethodOf[c]]}
  /\ NoRuntime \notin Runtimes
  /\ Nobody \notin Calls
  /\ Failures \subseteq {"create", "throw", "loop"}

VARIABLES
  State,      \* JsContext.State: the calls whose effect it contains
  writer,     \* the call that holds mux for writing, or Nobody
  readers,    \* the calls that hold mux for reading
  idle,       \* the pooled runtimes nobody has borrowed
  created,    \* the runtimes the pool has made or is making
  flag,       \* goja's interrupt flag of each runtime
  pc,         \* where each call is
  runtime,    \* the runtime each call borrowed
  snapshot,   \* the State each call copied into its state argument
  timer,      \* the execution timer of each call
  outcome     \* how each call ended

vars == <<State, writer, readers, idle, created, flag, pc, runtime, snapshot,
          timer, outcome>>

Steps    == {"ready", "creating", "borrowed", "locking", "calling", "running",
             "interrupted", "returned", "leaving", "done"}
Timers   == {"none", "armed", "stopped", "fired", "spent"}
Outcomes == {"none", "ok", "nil", "error", "interrupted"}

InitCalls == {c \in Calls : MethodOf[c] = "jsa_init"}
IsEvent(c) == MethodOf[c] \in EventMethods
InProgress(c) == pc[c] \notin {"ready", "done"}

Init ==
  /\ State = {}
  /\ writer = Nobody
  /\ readers = {}
  /\ idle = {}
  /\ created = {}
  /\ flag = [r \in Runtimes |-> FALSE]
  /\ pc = [c \in Calls |-> "ready"]
  /\ runtime = [c \in Calls |-> NoRuntime]
  /\ snapshot = [c \in Calls |-> {}]
  /\ timer = [c \in Calls |-> "none"]
  /\ outcome = [c \in Calls |-> "none"]

-----------------------------------------------------------------------------
(* Who may call, and when.  The handlers of main.go call the event hooks   *)
(* one at a time, under the resources watcher's lock; jsa_init is first,   *)
(* and everything else waits until it has succeeded.                       *)
MayCall(c) ==
  /\ pc[c] = "ready"
  /\ IsEvent(c) => \A d \in Calls : IsEvent(d) => ~InProgress(d)
  /\ c \notin InitCalls => \A i \in InitCalls : outcome[i] \in {"ok", "nil"}

(* Call: pool.BorrowObject finds an idle runtime.                          *)
BorrowIdle(c) ==
  /\ MayCall(c)
  /\ \E r \in idle :
       /\ idle' = idle \ {r}
       /\ runtime' = [runtime EXCEPT ![c] = r]
  /\ pc' = [pc EXCEPT ![c] = "borrowed"]
  /\ UNCHANGED <<State, writer, readers, created, flag, snapshot, timer, outcome>>

(* Call: pool.BorrowObject finds none idle and has room for another: the   *)
(* factory runs the compiled script in a new runtime, under no timer.      *)
BorrowNew(c) ==
  /\ MayCall(c)
  /\ idle = {}
  /\ \E r \in Runtimes \ created :
       /\ created' = created \cup {r}
       /\ runtime' = [runtime EXCEPT ![c] = r]
  /\ pc' = [pc EXCEPT ![c] = "creating"]
  /\ UNCHANGED <<State, writer, readers, idle, flag, snapshot, timer, outcome>>

FactorySucceeds(c) ==
  /\ pc[c] = "creating"
  /\ pc' = [pc EXCEPT ![c] = "borrowed"]
  /\ UNCHANGED <<State, writer, readers, idle, created, flag, runtime, snapshot,
                 timer, outcome>>

(* Mutants of FactoryFails: ReturnObject deferred before the error check,  *)
(* and a pool that keeps the slot of a runtime it could not make.          *)
FactoryFailsReturning(c) ==
  /\ "create" \in Failures
  /\ pc[c] = "creating"
  /\ created' = created \ {runtime[c]}
  /\ runtime' = [runtime EXCEPT ![c] = NoRuntime]
  /\ outcome' = [outcome EXCEPT ![c] = "error"]
  /\ pc' = [pc EXCEPT ![c] = "leaving"]
  /\ UNCHANGED <<State, writer, readers, idle, flag, snapshot, timer>>

FactoryFailsLeaking(c) ==
  /\ "create" \in Failures
  /\ pc[c] = "creating"
  /\ outcome' = [outcome EXCEPT ![c] = "error"]
  /\ pc' = [pc EXCEPT ![c] = "done"]
  /\ UNCHANGED <<State, writer, readers, idle, created, runtime, flag, snapshot, timer>>

(* The script's top level throws: BorrowObject fails and the slot is free. *)
FactoryFails(c) ==
  /\ "create" \in Failures
  /\ pc[c] = "creating"
  /\ created' = created \ {runtime[c]}
  /\ runtime' = [runtime EXCEPT ![c] = NoRuntime]
  /\ outcome' = [outcome EXCEPT ![c] = "error"]
  /\ pc' = [pc EXCEPT ![c] = "done"]
  /\ UNCHANGED <<State, writer, readers, idle, flag, snapshot, timer>>

(* call: the script does not define the function.                          *)
NoFunction(c) ==
  /\ pc[c] = "borrowed"
  /\ MethodOf[c] \notin Defined
  /\ outcome' = [outcome EXCEPT ![c] = "nil"]
  /\ pc' = [pc EXCEPT ![c] = "leaving"]
  /\ UNCHANGED <<State, writer, readers, idle, created, flag, runtime, snapshot, timer>>

(* call: the arguments are built, State copied among them, before mux is   *)
(* taken.  Every caller passes "state", declared or not.                   *)
BuildArgs(c) ==
  /\ pc[c] = "borrowed"
  /\ MethodOf[c] \in Defined
  /\ snapshot' = [snapshot EXCEPT ![c] = State]
  /\ pc' = [pc EXCEPT ![c] = "locking"]
  /\ UNCHANGED <<State, writer, readers, idle, created, flag, runtime, timer, outcome>>

(* Mutant of WithSync: only what forceSync asks for.                       *)
WithSyncForced(c) == MethodOf[c] = "jsa_init"

(* withSync is a key lookup in Params, not a test of the declared          *)
(* parameters; jsa_init alone lacks the key, and forces it.                *)
WithSync(c) == "sync" \in Params(MethodOf[c]) \/ MethodOf[c] = "jsa_init"

Lock(c) ==
  /\ pc[c] = "locking"
  /\ writer = Nobody
  /\ IF WithSync(c)
       THEN readers = {} /\ writer' = c /\ readers' = readers
       ELSE writer' = writer /\ readers' = readers \cup {c}
  /\ pc' = [pc EXCEPT ![c] = "calling"]
  /\ UNCHANGED <<State, idle, created, flag, runtime, snapshot, timer, outcome>>

(* Mutant of Enter: the function runs under no timer.                      *)
EnterUntimed(c) ==
  /\ pc[c] = "calling"
  /\ pc' = [pc EXCEPT ![c] = IF flag[runtime[c]] THEN "interrupted" ELSE "running"]
  /\ UNCHANGED <<State, writer, readers, idle, created, flag, runtime, snapshot,
                 timer, outcome>>

(* call: arm the timer and enter the function.  goja looks at the flag     *)
(* before the first instruction: a flag that is already up is fatal.       *)
Enter(c) ==
  /\ pc[c] = "calling"
  /\ timer' = [timer EXCEPT ![c] = "armed"]
  /\ pc' = [pc EXCEPT ![c] = IF flag[runtime[c]] THEN "interrupted" ELSE "running"]
  /\ UNCHANGED <<State, writer, readers, idle, created, flag, runtime, snapshot, outcome>>

FunctionReturns(c) ==
  /\ pc[c] = "running"
  /\ outcome' = [outcome EXCEPT ![c] = "ok"]
  /\ pc' = [pc EXCEPT ![c] = "returned"]
  /\ UNCHANGED <<State, writer, readers, idle, created, flag, runtime, snapshot, timer>>

FunctionThrows(c) ==
  /\ "throw" \in Failures
  /\ pc[c] = "running"
  /\ outcome' = [outcome EXCEPT ![c] = "error"]
  /\ pc' = [pc EXCEPT ![c] = "returned"]
  /\ UNCHANGED <<State, writer, readers, idle, created, flag, runtime, snapshot, timer>>

(* goja unwinds the call with an InterruptedError and lowers the flag.     *)
FunctionInterrupted(c) ==
  /\ pc[c] \in {"running", "interrupted"}
  /\ flag[runtime[c]]
  /\ flag' = [flag EXCEPT ![runtime[c]] = FALSE]
  /\ outcome' = [outcome EXCEPT ![c] = "interrupted"]
  /\ pc' = [pc EXCEPT ![c] = "returned"]
  /\ UNCHANGED <<State, writer, readers, idle, created, runtime, snapshot, timer>>

(* Mutant of Export: the map that was passed in, not the object.           *)
ExportSource(c) == snapshot[c]

(* The state object as the function left it: its copy of State, changed    *)
(* if the function declares state and writes to it.                        *)
Export(c) == snapshot[c] \cup (Updates \cap {c})

(* Mutant of Stored: State is restored before the error is looked at.      *)
StoredAnyway(c) == Export(c)

(* On an error State stays as it is.                                       *)
Stored(c) == IF outcome[c] = "ok" THEN Export(c) ELSE State

(* timer.Stop reports a timer that has already fired, but nobody looks.    *)
StopTimer(c) ==
  timer' = [timer EXCEPT ![c] = IF @ = "armed" THEN "stopped" ELSE @]

(* call: stop the timer; on an error return it, else store State; unlock.  *)
Finish(c) ==
  /\ pc[c] = "returned"
  /\ StopTimer(c)
  /\ State' = Stored(c)
  /\ writer' = IF writer = c THEN Nobody ELSE writer
  /\ readers' = readers \ {c}
  /\ pc' = [pc EXCEPT ![c] = "leaving"]
  /\ UNCHANGED <<idle, created, flag, runtime, snapshot, outcome>>

(* Call: the deferred ReturnObject.                                        *)
ReturnRuntime(c) ==
  /\ pc[c] = "leaving"
  /\ idle' = idle \cup {runtime[c]}
  /\ pc' = [pc EXCEPT ![c] = "done"]
  /\ UNCHANGED <<State, writer, readers, created, flag, runtime, snapshot, timer, outcome>>

(* time.AfterFunc starts the interrupting function on its own goroutine... *)
TimerFires(c) ==
  /\ "loop" \in Failures
  /\ timer[c] = "armed"
  /\ timer' = [timer EXCEPT ![c] = "fired"]
  /\ UNCHANGED <<State, writer, readers, idle, created, flag, pc, runtime, snapshot, outcome>>

(* ... which raises the flag of the runtime the call had borrowed.         *)
Interrupt(c) ==
  /\ timer[c] = "fired"
  /\ flag' = [flag EXCEPT ![runtime[c]] = TRUE]
  /\ timer' = [timer EXCEPT ![c] = "spent"]
  /\ UNCHANGED <<State, writer, readers, idle, created, pc, runtime, snapshot, outcome>>

-----------------------------------------------------------------------------
(* What the Go code does once it has the processor; the script itself      *)
(* (FunctionReturns, FunctionThrows) owes nothing.                         *)
Proceed(c) ==
  \/ BorrowIdle(c) \/ BorrowNew(c)
  \/ NoFunction(c) \/ BuildArgs(c) \/ Lock(c) \/ Enter(c)
  \/ FunctionInterrupted(c) \/ Finish(c) \/ ReturnRuntime(c)

Next ==
  \E c \in Calls :
    \/ Proceed(c)
    \/ FactorySucceeds(c) \/ FactoryFails(c)
    \/ FunctionReturns(c) \/ FunctionThrows(c)
    \/ TimerFires(c) \/ Interrupt(c)

Spec == Init /\ [][Next]_vars

(* The Go scheduler runs every ready goroutine, timers fire, and a mutex   *)
(* or a pool that is free goes to someone.  Nothing is assumed of the      *)
(* script's functions, which may loop forever; its top level, which runs   *)
(* under no timer, is assumed to end.                                      *)
FairSpec ==
  /\ Spec
  /\ \A c \in Calls : /\ WF_vars(Proceed(c))
                      /\ WF_vars(FactorySucceeds(c))
                      /\ WF_vars(TimerFires(c))
                      /\ WF_vars(Interrupt(c))

-----------------------------------------------------------------------------
(* Types of the variables, and which outcomes each step has.               *)
TypeOK ==
  /\ State \subseteq Calls
  /\ writer \in Calls \cup {Nobody}
  /\ readers \subseteq Calls
  /\ idle \subseteq Runtimes
  /\ created \subseteq Runtimes
  /\ flag \in [Runtimes -> BOOLEAN]
  /\ pc \in [Calls -> Steps]
  /\ runtime \in [Calls -> Runtimes \cup {NoRuntime}]
  /\ snapshot \in [Calls -> SUBSET Calls]
  /\ timer \in [Calls -> Timers]
  /\ outcome \in [Calls -> Outcomes]

(* Call pairs BorrowObject with a deferred ReturnObject on every path:     *)
(* each runtime the pool has made is idle or belongs to exactly one call   *)
(* in progress, so no two calls share a runtime and none leaks.            *)
PoolConsistent ==
  /\ idle \subseteq created
  /\ \A c \in Calls : InProgress(c) => runtime[c] \in created \ idle
  /\ \A c, d \in Calls :
       InProgress(c) /\ InProgress(d) /\ runtime[c] = runtime[d] => c = d
  /\ \A r \in created \ idle : \E c \in Calls : InProgress(c) /\ runtime[c] = r

(* A call whose function succeeded and whose state has been stored.        *)
Committed(c) == outcome[c] = "ok" /\ pc[c] \in {"leaving", "done"}

(* State is read outside the lock, but only ever replaced as a whole and   *)
(* only by a call that succeeded: neither State nor any copy of it that a  *)
(* function is handed shows the effect of a call that failed, timed out or *)
(* has not finished.                                                       *)
CommittedOnly ==
  \A c \in Calls : c \in State \cup UNION {snapshot[d] : d \in Calls} => Committed(c)

Executing(c) == pc[c] \in {"calling", "running", "interrupted", "returned"}

(* src/README.md:161: a function that declares sync runs synchronized: no  *)
(* other function of the same admission runs at the same time.             *)
SyncedAlone ==
  \A c, d \in Calls :
    Executing(c) /\ Executing(d) /\ "sync" \in Declared[MethodOf[c]] => c = d

(* src/README.md:265: with sync, state is read and written atomically, so  *)
(* what a successful call wrote to State stays there.                      *)
UpdatesSurvive ==
  \A c \in Updates : Committed(c) => c \in State

(* src/main.go:64: the timeout is that of the execution it was armed for:  *)
(* a function is interrupted only after its own timer has run out.         *)
InterruptsAreOwn ==
  \A c \in Calls : outcome[c] = "interrupted" => timer[c] = "spent"

(* Whatever the script's functions do, looping forever included, a call    *)
(* that may be made ends, returning its lock and its runtime.              *)
EveryCallReturns ==
  \A c \in Calls : MayCall(c) ~> pc[c] = "done"

(* The abstract calls take effect where the concrete ones unlock.          *)
Result(c) ==
  IF pc[c] \in {"leaving", "done"}
    THEN IF outcome[c] = "ok" THEN "ok" ELSE "failed"
    ELSE "pending"

Atomic == INSTANCE AtomicState WITH result <- [c \in Calls |-> Result(c)]

(* Event hooks alone (the resources watcher serialises them) are atomic.   *)
AtomicSpec == Atomic!Spec

=============================================================================
