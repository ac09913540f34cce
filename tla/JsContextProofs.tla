--------------------------- MODULE JsContextProofs ---------------------------
(***************************************************************************)
(* What holds of a JsContext whatever its script, its calls and the size   *)
(* of its pool.                                                            *)
(***************************************************************************)
EXTENDS JsContext, TLAPS

-----------------------------------------------------------------------------
(* jsContext.call finds "sync" among the keys of Params for every method   *)
(* but jsa_init, which forces it: every call takes mux for writing.        *)
LEMMA EveryCallSyncs == \A c \in Calls : WithSync(c)
BY ConstantsAssumption DEF WithSync, Params, Methods, RequestMethods, EventMethods

(* Every step keeps the types: that a call returns a runtime, and not what *)
(* it never borrowed, needs PoolConsistent.                                *)
LEMMA TypeStep == TypeOK /\ PoolConsistent /\ [Next]_vars => TypeOK'
<1>1. SUFFICES ASSUME TypeOK, PoolConsistent, [Next]_vars PROVE TypeOK'
  OBVIOUS
<1>2. CASE UNCHANGED vars
  BY <1>1, <1>2 DEF TypeOK, vars
<1>3. ASSUME NEW c \in Calls, BorrowIdle(c) PROVE TypeOK'
  BY <1>1, <1>3 DEF TypeOK, BorrowIdle, Steps
<1>4. ASSUME NEW c \in Calls, BorrowNew(c) PROVE TypeOK'
  BY <1>1, <1>4 DEF TypeOK, BorrowNew, Steps
<1>5. ASSUME NEW c \in Calls, FactorySucceeds(c) PROVE TypeOK'
  BY <1>1, <1>5 DEF TypeOK, FactorySucceeds, Steps
<1>6. ASSUME NEW c \in Calls, FactoryFails(c) PROVE TypeOK'
  BY <1>1, <1>6 DEF TypeOK, FactoryFails, Steps, Outcomes
<1>7. ASSUME NEW c \in Calls, NoFunction(c) PROVE TypeOK'
  BY <1>1, <1>7 DEF TypeOK, NoFunction, Steps, Outcomes
<1>8. ASSUME NEW c \in Calls, BuildArgs(c) PROVE TypeOK'
  BY <1>1, <1>8 DEF TypeOK, BuildArgs, Steps
<1>9. ASSUME NEW c \in Calls, Lock(c) PROVE TypeOK'
  BY <1>1, <1>9 DEF TypeOK, Lock, Steps
<1>10. ASSUME NEW c \in Calls, Enter(c) PROVE TypeOK'
  BY <1>1, <1>10 DEF TypeOK, Enter, Steps, Timers
<1>11. ASSUME NEW c \in Calls, FunctionReturns(c) \/ FunctionThrows(c) PROVE TypeOK'
  BY <1>1, <1>11 DEF TypeOK, FunctionReturns, FunctionThrows, Steps, Outcomes
<1>12. ASSUME NEW c \in Calls, FunctionInterrupted(c) PROVE TypeOK'
  BY <1>1, <1>12 DEF TypeOK, FunctionInterrupted, Steps, Outcomes
<1>13. ASSUME NEW c \in Calls, Finish(c) PROVE TypeOK'
  BY <1>1, <1>13 DEF TypeOK, Finish, Stored, Export, StopTimer, Steps, Timers
<1>14. ASSUME NEW c \in Calls, ReturnRuntime(c) PROVE TypeOK'
  <2>1. runtime[c] \in Runtimes
    BY <1>1, <1>14 DEF TypeOK, PoolConsistent, ReturnRuntime, InProgress
  <2>2. QED
    BY <1>1, <1>14, <2>1 DEF TypeOK, ReturnRuntime, Steps
<1>15. ASSUME NEW c \in Calls, TimerFires(c) PROVE TypeOK'
  BY <1>1, <1>15 DEF TypeOK, TimerFires, Timers
<1>16. ASSUME NEW c \in Calls, Interrupt(c) PROVE TypeOK'
  BY <1>1, <1>16 DEF TypeOK, Interrupt, Timers
<1>17. QED
  BY <1>1, <1>2, <1>3, <1>4, <1>5, <1>6, <1>7, <1>8, <1>9, <1>10, <1>11, <1>12,
     <1>13, <1>14, <1>15, <1>16 DEF Next, Proceed

(* Every step keeps each runtime of the pool with one call or none.        *)
LEMMA PoolStep == TypeOK /\ PoolConsistent /\ [Next]_vars => PoolConsistent'
<1>1. SUFFICES ASSUME TypeOK, PoolConsistent, [Next]_vars PROVE PoolConsistent'
  OBVIOUS
<1>2. CASE UNCHANGED vars
  BY <1>1, <1>2 DEF PoolConsistent, InProgress, vars
<1>3. ASSUME NEW c \in Calls, BorrowIdle(c) PROVE PoolConsistent'
  BY <1>1, <1>3 DEF TypeOK, PoolConsistent, InProgress, BorrowIdle, MayCall
<1>4. ASSUME NEW c \in Calls, BorrowNew(c) PROVE PoolConsistent'
  BY <1>1, <1>4 DEF TypeOK, PoolConsistent, InProgress, BorrowNew, MayCall
<1>5. ASSUME NEW c \in Calls, FactoryFails(c) PROVE PoolConsistent'
  BY <1>1, <1>5 DEF TypeOK, PoolConsistent, InProgress, FactoryFails
<1>6. ASSUME NEW c \in Calls, ReturnRuntime(c) PROVE PoolConsistent'
  BY <1>1, <1>6 DEF TypeOK, PoolConsistent, InProgress, ReturnRuntime
<1>7. ASSUME UNCHANGED <<idle, created, runtime>>,
             \A c \in Calls : InProgress(c)' = InProgress(c)
      PROVE  PoolConsistent'
  BY <1>1, <1>7 DEF PoolConsistent
<1>8. ASSUME NEW c \in Calls,
             \/ FactorySucceeds(c) \/ NoFunction(c) \/ BuildArgs(c) \/ Lock(c)
             \/ Enter(c) \/ FunctionReturns(c) \/ FunctionThrows(c)
             \/ FunctionInterrupted(c) \/ Finish(c) \/ TimerFires(c) \/ Interrupt(c)
      PROVE  PoolConsistent'
  <2>1. UNCHANGED <<idle, created, runtime>>
    BY <1>8 DEF FactorySucceeds, NoFunction, BuildArgs, Lock, Enter, FunctionReturns,
       FunctionThrows, FunctionInterrupted, Finish, TimerFires, Interrupt
  <2>2. \A d \in Calls : InProgress(d)' = InProgress(d)
    BY <1>1, <1>8 DEF TypeOK, InProgress, FactorySucceeds, NoFunction, BuildArgs, Lock,
       Enter, FunctionReturns, FunctionThrows, FunctionInterrupted, Finish, TimerFires,
       Interrupt
  <2>3. QED
    BY <1>7, <2>1, <2>2
<1>9. QED
  BY <1>1, <1>2, <1>3, <1>4, <1>5, <1>6, <1>8 DEF Next, Proceed

-----------------------------------------------------------------------------
(* Types, and the pool: Call pairs BorrowObject and ReturnObject on every  *)
(* path (src/admission/jscontext.go:158-169), so that no two calls ever    *)
(* run in the same goja runtime and no slot of the pool is lost.           *)
THEOREM PoolSafe == Spec => [](TypeOK /\ PoolConsistent)
<1>1. Init => TypeOK /\ PoolConsistent
  BY ConstantsAssumption
     DEF Init, TypeOK, PoolConsistent, InProgress, Steps, Timers, Outcomes
<1>2. TypeOK /\ PoolConsistent /\ [Next]_vars => (TypeOK /\ PoolConsistent)'
  BY TypeStep, PoolStep
<1>3. QED
  BY <1>1, <1>2, PTL DEF Spec

(* In particular the types hold: each call is at one of the steps of Call. *)
THEOREM Types == Spec => []TypeOK
BY PoolSafe, PTL

-----------------------------------------------------------------------------
(* Every step shows only the effects of calls that have succeeded.         *)
LEMMA CommittedStep == TypeOK /\ CommittedOnly /\ [Next]_vars => CommittedOnly'
<1>1. SUFFICES ASSUME TypeOK, CommittedOnly, [Next]_vars PROVE CommittedOnly'
  OBVIOUS
<1>2. \A c \in Calls : Committed(c) => Committed(c)'
  <2>1. SUFFICES ASSUME NEW c \in Calls, Committed(c) PROVE Committed(c)'
    OBVIOUS
  <2>2. CASE UNCHANGED vars
    BY <2>1, <2>2 DEF Committed, vars
  <2>3. CASE Next
    BY <1>1, <2>1, <2>3 DEF TypeOK, Committed, Next, Proceed, BorrowIdle, BorrowNew, MayCall,
       FactorySucceeds, FactoryFails, NoFunction, BuildArgs, Lock, Enter, FunctionReturns,
       FunctionThrows, FunctionInterrupted, Finish, ReturnRuntime, TimerFires, Interrupt
  <2>4. QED
    BY <1>1, <2>2, <2>3
<1>3. ASSUME NEW e \in Calls, e \in State' \cup UNION {snapshot'[d] : d \in Calls},
             e \notin State \cup UNION {snapshot[d] : d \in Calls}
      PROVE  Committed(e)'
  <2>1. PICK c \in Calls : Finish(c)
    BY <1>1, <1>3 DEF TypeOK, vars, Next, Proceed, BorrowIdle, BorrowNew,
       FactorySucceeds, FactoryFails, NoFunction, BuildArgs, Lock, Enter, FunctionReturns,
       FunctionThrows, FunctionInterrupted, ReturnRuntime, TimerFires, Interrupt
  <2>2. e = c /\ outcome[c] = "ok"
    BY <1>3, <2>1 DEF Finish, Stored, Export
  <2>3. QED
    BY <1>1, <2>1, <2>2 DEF TypeOK, Finish, Committed
<1>4. QED
  BY <1>1, <1>2, <1>3 DEF CommittedOnly

(* State is read without the lock (src/admission/jscontext.go:187), but    *)
(* neither it nor a copy ever shows what a call did that failed, timed out *)
(* or has not finished.                                                    *)
THEOREM NoDirtyState == Spec => []CommittedOnly
<1>1. Init => CommittedOnly
  BY DEF Init, CommittedOnly
<1>2. TypeOK /\ CommittedOnly /\ [Next]_vars => CommittedOnly'
  BY CommittedStep
<1>3. QED
  BY <1>1, <1>2, PoolSafe, PTL DEF Spec

-----------------------------------------------------------------------------
(* Who executes holds mux, and nobody ever takes it for reading.           *)
WriterExecutes ==
  /\ readers = {}
  /\ \A c \in Calls : Executing(c) => writer = c

(* Every step keeps it: Lock is the only way to execute.                   *)
LEMMA WriterStep == TypeOK /\ WriterExecutes /\ [Next]_vars => WriterExecutes'
<1>1. SUFFICES ASSUME TypeOK, WriterExecutes, [Next]_vars PROVE WriterExecutes'
  OBVIOUS
<1>2. CASE UNCHANGED vars
  BY <1>1, <1>2 DEF WriterExecutes, Executing, vars
<1>3. ASSUME NEW c \in Calls, Lock(c) PROVE WriterExecutes'
  <2>1. writer' = c /\ readers' = {}
    BY <1>1, <1>3, EveryCallSyncs DEF WriterExecutes, Lock
  <2>2. \A d \in Calls \ {c} : ~Executing(d)'
    BY <1>1, <1>3, ConstantsAssumption DEF TypeOK, WriterExecutes, Executing, Lock
  <2>3. QED
    BY <2>1, <2>2 DEF WriterExecutes
<1>4. ASSUME NEW c \in Calls, Finish(c) PROVE WriterExecutes'
  <2>1. readers' = {}
    BY <1>1, <1>4 DEF WriterExecutes, Finish
  <2>2. writer = c
    BY <1>1, <1>4 DEF WriterExecutes, Executing, Finish
  <2>3. \A d \in Calls : ~Executing(d)'
    BY <1>1, <1>4, <2>2 DEF TypeOK, WriterExecutes, Executing, Finish
  <2>4. QED
    BY <2>1, <2>3 DEF WriterExecutes
<1>5. ASSUME NEW c \in Calls,
             \/ BorrowIdle(c) \/ BorrowNew(c) \/ FactorySucceeds(c) \/ FactoryFails(c)
             \/ NoFunction(c) \/ BuildArgs(c) \/ Enter(c) \/ FunctionReturns(c)
             \/ FunctionThrows(c) \/ FunctionInterrupted(c) \/ ReturnRuntime(c)
             \/ TimerFires(c) \/ Interrupt(c)
      PROVE  WriterExecutes'
  <2>1. UNCHANGED <<writer, readers>>
    BY <1>5 DEF BorrowIdle, BorrowNew, FactorySucceeds, FactoryFails, NoFunction,
       BuildArgs, Enter, FunctionReturns, FunctionThrows, FunctionInterrupted,
       ReturnRuntime, TimerFires, Interrupt
  <2>2. \A d \in Calls : Executing(d)' => Executing(d)
    BY <1>1, <1>5 DEF TypeOK, Executing, BorrowIdle, BorrowNew, FactorySucceeds,
       FactoryFails, NoFunction, BuildArgs, Enter, FunctionReturns, FunctionThrows,
       FunctionInterrupted, ReturnRuntime, TimerFires, Interrupt
  <2>3. QED
    BY <1>1, <2>1, <2>2 DEF WriterExecutes
<1>6. QED
  BY <1>1, <1>2, <1>3, <1>4, <1>5 DEF Next, Proceed

(* The functions of an admission exclude each other, those that declare    *)
(* sync (src/README.md:161) and, since the key "sync" is always there      *)
(* (src/admission/jscontext.go:196), all the others too.                   *)
EveryCallAlone ==
  \A c, d \in Calls : Executing(c) /\ Executing(d) => c = d

(* In every run no two calls of the functions of one admission execute at  *)
(* a time.                                                                 *)
THEOREM MutualExclusion == Spec => [](EveryCallAlone /\ SyncedAlone)
<1>1. Init => WriterExecutes
  BY DEF Init, WriterExecutes, Executing
<1>2. TypeOK /\ WriterExecutes /\ [Next]_vars => WriterExecutes'
  BY WriterStep
<1>3. WriterExecutes => EveryCallAlone /\ SyncedAlone
  BY DEF WriterExecutes, EveryCallAlone, SyncedAlone
<1>4. QED
  BY <1>1, <1>2, <1>3, PoolSafe, PTL DEF Spec

-----------------------------------------------------------------------------
(* Calls made by the resources watcher alone: no webhook request.          *)
SerialCalls == \A c \in Calls : IsEvent(c)

(* The strengthening of UpdatesSurvive: one call at a time, so State is    *)
(* still what the call copied before it took the lock.                     *)
OneAtATime ==
  /\ \A c, d \in Calls : InProgress(c) /\ InProgress(d) => c = d
  /\ \A c \in Calls : pc[c] = "locking" \/ Executing(c) => snapshot[c] = State

(* Every step keeps it where calls come one after the other.               *)
LEMMA OneAtATimeStep ==
  SerialCalls /\ TypeOK /\ OneAtATime /\ [Next]_vars => OneAtATime'
<1>1. SUFFICES ASSUME SerialCalls, TypeOK, OneAtATime, [Next]_vars PROVE OneAtATime'
  OBVIOUS
<1>2. CASE UNCHANGED vars
  BY <1>1, <1>2 DEF OneAtATime, InProgress, Executing, vars
<1>3. ASSUME NEW c \in Calls, BorrowIdle(c) \/ BorrowNew(c) PROVE OneAtATime'
  <2>1. pc[c] = "ready" /\ \A d \in Calls : ~InProgress(d)
    BY <1>1, <1>3 DEF SerialCalls, BorrowIdle, BorrowNew, MayCall
  <2>2. UNCHANGED <<State, snapshot>> /\ \E s \in {"borrowed", "creating"} :
                                          pc' = [pc EXCEPT ![c] = s]
    BY <1>3 DEF BorrowIdle, BorrowNew
  <2>3. QED
    BY <1>1, <2>1, <2>2 DEF TypeOK, OneAtATime, InProgress, Executing
<1>4. ASSUME NEW c \in Calls, BuildArgs(c) PROVE OneAtATime'
  BY <1>1, <1>4 DEF TypeOK, OneAtATime, InProgress, Executing, BuildArgs
<1>5. ASSUME NEW c \in Calls, Finish(c) PROVE OneAtATime'
  BY <1>1, <1>5 DEF TypeOK, OneAtATime, InProgress, Executing, Finish
<1>6. ASSUME NEW c \in Calls,
             \/ FactorySucceeds(c) \/ FactoryFails(c) \/ NoFunction(c) \/ Lock(c)
             \/ Enter(c) \/ FunctionReturns(c) \/ FunctionThrows(c)
             \/ FunctionInterrupted(c) \/ ReturnRuntime(c) \/ TimerFires(c) \/ Interrupt(c)
      PROVE  OneAtATime'
  <2>1. UNCHANGED <<State, snapshot>>
    BY <1>6 DEF FactorySucceeds, FactoryFails, NoFunction, Lock, Enter, FunctionReturns,
       FunctionThrows, FunctionInterrupted, ReturnRuntime, TimerFires, Interrupt
  <2>2. \A d \in Calls :
          /\ InProgress(d)' => InProgress(d)
          /\ (pc[d] = "locking" \/ Executing(d))' => pc[d] = "locking" \/ Executing(d)
    BY <1>1, <1>6 DEF TypeOK, InProgress, Executing, FactorySucceeds, FactoryFails,
       NoFunction, Lock, Enter, FunctionReturns, FunctionThrows, FunctionInterrupted,
       ReturnRuntime, TimerFires, Interrupt
  <2>3. QED
    BY <1>1, <2>1, <2>2 DEF OneAtATime
<1>7. QED
  BY <1>1, <1>2, <1>3, <1>4, <1>5, <1>6 DEF Next, Proceed

(* So it holds of every state where calls come one after the other.        *)
LEMMA Serial ==
  ASSUME SerialCalls PROVE Spec => [](TypeOK /\ OneAtATime)
<1>1. Init => OneAtATime
  BY DEF Init, OneAtATime, InProgress, Executing
<1>2. TypeOK /\ OneAtATime /\ [Next]_vars => OneAtATime'
  BY OneAtATimeStep
<1>3. QED
  BY <1>1, <1>2, PoolSafe, PTL DEF Spec

(* What a successful event hook wrote to State stays there                 *)
(* (src/README.md:265), for the hooks that the watcher serialises.  With   *)
(* webhook requests among the calls it does not (run JsLostUpdate).        *)
THEOREM EventUpdatesSurvive ==
  ASSUME SerialCalls PROVE Spec => []UpdatesSurvive
<1>1. Init => UpdatesSurvive
  BY ConstantsAssumption DEF Init, UpdatesSurvive, Committed
<1>2. TypeOK /\ OneAtATime /\ UpdatesSurvive /\ [Next]_vars => UpdatesSurvive'
  <2>1. SUFFICES ASSUME TypeOK, OneAtATime, UpdatesSurvive, [Next]_vars,
                        NEW c \in Updates, Committed(c)'
                 PROVE  c \in State'
    BY DEF UpdatesSurvive
  <2>2. c \in Calls
    BY ConstantsAssumption
  <2>3. CASE UNCHANGED vars
    BY <2>1, <2>3 DEF UpdatesSurvive, Committed, vars
  <2>4. ASSUME NEW d \in Calls, Finish(d) PROVE c \in State'
    <3>1. snapshot[d] = State
      BY <2>1, <2>4 DEF OneAtATime, Executing, Finish
    <3>2. CASE c = d
      BY <2>1, <2>4, <3>2 DEF TypeOK, Finish, Stored, Export, Committed
    <3>3. CASE c # d
      BY <2>1, <2>2, <2>4, <3>1, <3>3
         DEF TypeOK, UpdatesSurvive, Finish, Stored, Export, Committed
    <3>4. QED
      BY <3>2, <3>3
  <2>5. ASSUME NEW d \in Calls,
               \/ BorrowIdle(d) \/ BorrowNew(d) \/ FactorySucceeds(d) \/ FactoryFails(d)
               \/ NoFunction(d) \/ BuildArgs(d) \/ Lock(d) \/ Enter(d)
               \/ FunctionReturns(d) \/ FunctionThrows(d) \/ FunctionInterrupted(d)
               \/ ReturnRuntime(d) \/ TimerFires(d) \/ Interrupt(d)
        PROVE  c \in State'
    <3>1. State' = State /\ Committed(c)
      BY <2>1, <2>2, <2>5 DEF TypeOK, Committed, BorrowIdle, BorrowNew, MayCall,
         FactorySucceeds, FactoryFails, NoFunction, BuildArgs, Lock, Enter,
         FunctionReturns, FunctionThrows, FunctionInterrupted, ReturnRuntime, TimerFires,
         Interrupt
    <3>2. QED
      BY <2>1, <3>1 DEF UpdatesSurvive
  <2>6. QED
    BY <2>1, <2>3, <2>4, <2>5 DEF Next, Proceed
<1>3. QED
  BY <1>1, <1>2, Serial, PTL DEF Spec

-----------------------------------------------------------------------------
(* The abstract variable result after a step.                              *)
Results == [c \in Calls |-> Result(c)]

(* A step that ends no call and leaves State alone is a stutter.           *)
LEMMA Stutter ==
  ASSUME State' = State,
         \A c \in Calls : Result(c)' = Result(c)
  PROVE  UNCHANGED <<State, Results>>
BY DEF Results

(* Finish succeeds or fails as a whole; the two other ways a call can end  *)
(* fail; nothing else shows.                                               *)
LEMMA AtomicStep ==
  SerialCalls /\ TypeOK /\ OneAtATime /\ [Next]_vars => [Atomic!Next]_<<State, Results>>
<1>1. SUFFICES ASSUME SerialCalls, TypeOK, OneAtATime, [Next]_vars
               PROVE  [Atomic!Next]_<<State, Results>>
  OBVIOUS
<1>2. CASE UNCHANGED vars
  <2>1. \A c \in Calls : Result(c)' = Result(c)
    BY <1>2 DEF Result, vars
  <2>2. QED
    BY <1>2, <2>1, Stutter DEF vars
<1>3. ASSUME NEW c \in Calls, Finish(c) PROVE Atomic!Next
  <2>1. snapshot[c] = State
    BY <1>1, <1>3 DEF OneAtATime, Executing, Finish
  <2>2. Results[c] = "pending"
    BY <1>3 DEF Results, Result, Finish
  <2>3. CASE outcome[c] = "ok"
    <3>1. State' = State \cup (Updates \cap {c})
      BY <1>3, <2>1, <2>3 DEF Finish, Stored, Export
    <3>2. Results' = [Results EXCEPT ![c] = "ok"]
      BY <1>1, <1>3, <2>3 DEF TypeOK, Results, Result, Finish
    <3>3. Atomic!Succeed(c)
      BY <2>2, <3>1, <3>2 DEF Atomic!Succeed, Results
    <3>4. QED
      BY <3>3 DEF Atomic!Next
  <2>4. CASE outcome[c] # "ok"
    <3>1. State' = State
      BY <1>3, <2>4 DEF Finish, Stored
    <3>2. Results' = [Results EXCEPT ![c] = "failed"]
      BY <1>1, <1>3, <2>4 DEF TypeOK, Results, Result, Finish
    <3>3. Atomic!Fail(c)
      BY <2>2, <3>1, <3>2 DEF Atomic!Fail, Results
    <3>4. QED
      BY <3>3 DEF Atomic!Next
  <2>5. QED
    BY <2>3, <2>4
<1>4. ASSUME NEW c \in Calls, FactoryFails(c) \/ NoFunction(c) PROVE Atomic!Next
  <2>1. Results[c] = "pending"
    BY <1>4 DEF Results, Result, FactoryFails, NoFunction
  <2>2. Results' = [Results EXCEPT ![c] = "failed"]
    BY <1>1, <1>4 DEF TypeOK, Results, Result, FactoryFails, NoFunction
  <2>3. Atomic!Fail(c)
    BY <1>4, <2>1, <2>2 DEF Atomic!Fail, Results, FactoryFails, NoFunction
  <2>4. QED
    BY <2>3 DEF Atomic!Next
<1>5. ASSUME NEW c \in Calls,
             \/ BorrowIdle(c) \/ BorrowNew(c) \/ FactorySucceeds(c) \/ BuildArgs(c)
             \/ Lock(c) \/ Enter(c) \/ FunctionReturns(c) \/ FunctionThrows(c)
             \/ FunctionInterrupted(c) \/ ReturnRuntime(c) \/ TimerFires(c) \/ Interrupt(c)
      PROVE  UNCHANGED <<State, Results>>
  <2>1. State' = State
    BY <1>5 DEF BorrowIdle, BorrowNew, FactorySucceeds, BuildArgs, Lock, Enter,
       FunctionReturns, FunctionThrows, FunctionInterrupted, ReturnRuntime, TimerFires,
       Interrupt
  <2>2. \A d \in Calls : Result(d)' = Result(d)
    BY <1>1, <1>5 DEF TypeOK, Result, MayCall, BorrowIdle, BorrowNew,
       FactorySucceeds, BuildArgs, Lock, Enter, FunctionReturns, FunctionThrows,
       FunctionInterrupted, ReturnRuntime, TimerFires, Interrupt
  <2>3. QED
    BY <2>1, <2>2, Stutter
<1>6. QED
  BY <1>1, <1>2, <1>3, <1>4, <1>5 DEF Next, Proceed

(* The event hooks of an admission are atomic on its state                 *)
(* (src/README.md:265): each call succeeds or fails in one step of         *)
(* AtomicState, however it is cut up by pool, lock and timer.              *)
THEOREM EventHooksAtomic ==
  ASSUME SerialCalls PROVE Spec => AtomicSpec
<1>1. Init => Atomic!Init
  BY DEF Init, Atomic!Init, Result
<1>2. TypeOK /\ OneAtATime /\ [Next]_vars => [Atomic!Next]_<<State, Results>>
  BY AtomicStep
<1>3. QED
  BY <1>1, <1>2, Serial, PTL DEF Spec, AtomicSpec, Atomic!Spec, Results

=============================================================================
