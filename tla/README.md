# Verification of js-admissions-controller

TLA+ models of the controller in this repository, the TLC runs that check them
on small instances, and proofs checked by TLAPS. Paths such as `main.go:224` are
relative to `src/`.

- [The system](#the-system)
- [The modules](#the-modules)
- [The runs](#the-runs)
- [Bounds](#bounds)
- [Fairness](#fairness)
- [What is proved](#what-is-proved)
- [Where code and documentation part](#where-code-and-documentation-part)
- [Not modelled](#not-modelled)
- [Plan](#plan)

## The system

Admissions are Kubernetes objects (`JsAdmissions` in a namespace,
`ClusterJsAdmissions` for the cluster) that hold JavaScript and the kinds it is
about. The controller loads them, tells their code of every object of those
kinds that is created, updated or deleted, and lets it mutate or veto admission
requests.

| component | state it keeps | operations | what makes it hard |
|---|---|---|---|
| JavaScript context, `admission/jscontext.go` | `State`, one RW lock, a pool of goja runtimes | `Call` | webhook goroutines and event handlers at once; a timer on its own goroutine; a script that throws or loops at any point |
| Registry, `admission/admissions.go` | code per admission, `IsValid` | `Upsert`, `Remove`, `Find` | a code is registered before it is valid, and replaced by deletion |
| Cache, `store/cache.go` | last version of each object | `Add`, `Remove`, `Find` | it trails the informers |
| Watcher, `watcher/watcher.go` | informers, the cache, one mutex | `Add`, `LockResource`, `UnlockResource`, three event handlers | handlers run late, each informer on a goroutine; `Add` holds the mutex while an informer syncs |
| Controller, `main.go` | two watchers and the registry | `admissionHandler`, `resourceHandler`, start-up | loading an admission races with the events of its objects; every step may fail |
| Webhooks, `hook.go` | none between requests | `mutate`, `validate` | a pipeline of scripts with arbitrary answers |
| JSON patch, `jsonpatch/` | none | `CreateJSONPatch` | a recursive walk with special cases for null and "" |
| Discovery, logs, utils, types, manifests | none | lookups and formatting | - |

Interaction: an informer of the *admissions watcher* calls `admissionHandler`
under that watcher's mutex. The handler makes the *resources watcher* watch the
admission's kinds (`Add`), locks it (`LockResource`), and only then replaces the
code, runs `jsa_init`, reports all cached objects by `jsa_created`, sets
`IsValid` and unlocks. An informer of the resources watcher calls
`resourceHandler` under *that* watcher's mutex, which looks up the valid codes
(`Find`) and calls their event hooks. Webhook requests take neither mutex: they
call `Find` and then `Call` at any time. All hooks of an admission meet in its
JavaScript context.

What makes the parts correct:

- context: calls of one admission are atomic on its state; no failed call leaves
  a trace; every call ends; runtimes are neither shared nor lost;
- watcher and cache: the cache follows the informer without a gap, and stands
  still for whoever holds the lock;
- controller: a code that can be found has been initialised and told of exactly
  the objects in the cache, each as a history of created, updated and deleted;
  no superseded code is found; in the end the enforced admissions are those that
  exist;
- webhooks: the verdict, the patch and its annotation follow from the answers;
- patches: applying a patch to the object it was made for gives the object it was
  made from.

`PROJECT.json` lists, under `hazards`, each place in the code where one of these
could go wrong, and the property that would show it.

## The modules

| module | models | composed of |
|---|---|---|
| `JsContext` | `jscontext.go`: the calls of one admission | refines `AtomicState` |
| `AtomicState` | what the README promises of `sync` and `state` | - |
| `Informers` | API server and client-go informers (external) | - |
| `Cache` | `store/cache.go` | - |
| `Watcher` | `watcher.go` | extends `Informers`, instantiates `Cache` |
| `Admissions` | `admissions.go`: the registry | - |
| `Controller` | `main.go` | two instances of `Watcher`, `Admissions`; refines `Enforcement` |
| `Enforcement` | what the controller promises: admissions that are enforced, and what they know | - |
| `Hook` | `hook.go`: one request | - |
| `JsonPatch` | `jsonpatch/`: `CreateJSONPatch` as `hook.go` calls it, and the patch applied | - |
| `JsContextProofs`, `WatcherProofs`, `HookProofs`, `ControllerProofs`, `JsonPatchProofs` | the theorems about each module | each extends its module; `ControllerProofs` instantiates `WatcherProofs` for both watchers |
| `EnforcementProofs` | that `Controller` implements `Enforcement` | extends `ControllerProofs` |
| `ConvergenceProofs` | what a settled `Controller` has come to | extends `ControllerProofs` |
| `MCJsContext`, `MCWatcher`, `MCController`, `MCHook`, `MCJsonPatch` | the constants of the runs | - |

**JsContext.** One action per step of `Call` and `call` between which another
goroutine can act: borrow a runtime (an idle one, or a new one whose factory runs
the script), build the arguments (which copies `State`), lock, enter, return or
throw or be interrupted, finish (stop the timer, store `State`, unlock), return
the runtime; and the timer's goroutine, in two steps (it starts, it raises goja's
interrupt flag). `State` is abstracted to the set of calls whose effect it
contains, so that a lost or a dirty update is visible. `MayCall` is the order the
controller gives: event hooks one at a time, everything else after `jsa_init` has
succeeded. The jsa_created of a load and those of events are alike here.
`Controller` shows, as `HooksInTurn`, that it keeps that order. goja (external) is modelled as: a raised flag stops the running function at its
next instruction, and is lowered when the call has been unwound.

**Informers, Watcher.** An object is a version, 0 when it does not exist. An
informer keeps the last version it was told of (`indexer`) and a queue of
notifications; the handler takes one (`Receive`, with the early returns), gets
the mutex and updates the cache (`AddFunc`, `UpdateFunc`, `DeleteFunc`), and
releases it when the controller's action has returned (`HandlerDone`). A broken
watch is `LoseWatch`; the `List` that replaces it reports what was deleted in
between as a tombstone, client-go's `DeletedFinalStateUnknown`. The periodic
resync adds nothing to a relist: both give updates with an unchanged
resourceVersion, which are skipped. `stale` is a history variable: the objects
whose tombstone was refused. `CacheFollowsInformer` says that what is `OnItsWay`
to the handler (the notification it waits with, then the queue) `Leads` from the
cached version of each object to the informer's, each notification beginning where
the one before it ended.

**Admissions, Controller.** A code is named by the version of the admission it
was made from. `view[a][o]` is the version of `o` that the code of `a` last heard
of. `step`, `left`, `replay` and `todo` are the local variables of the two
handlers. An `Init` state has any set of objects and admissions in the cluster,
so a restart of the controller, which keeps nothing, is an initial state. History
variables: `missed`, the objects whose event hook failed, and `unresolved`, the
admissions whose last event was cut short because discovery did not know a kind
(`main.go:193` returns before the registry is looked at, for a deletion as well).
`Settled` is the controller with no watch broken and nothing on its way or in hand;
`SettledConverges` says what it has come to then, at any moment and after any failures,
and `AdmissionsConverge` that it comes to it in the end if nothing fails.

**Enforcement.** The controller without watchers, locks and hooks: an admission is
enforced in one version or not at all; enforcing takes the version last wanted and
makes it know all cached objects it is about; a change of an object is known to
all of them at once; only a version that is no longer wanted is dropped.
`Controller` implements it (`EnforcementSpec`) with `items` as `cache`, `aItems` as
`wanted`, the valid codes as `enforced` and their `view` as `known`. The steps that
take effect are `MakeAdmissionValid` (`Enforce`), `UpsertAdmission` and
`RemoveAdmission` (`Drop`), `ResourceEvent` (`ObjectChanges`) and `AdmissionEvent`
(`AdmissionChanges`); every other step stutters. An event whose hooks are still
being called, or whose hook failed, counts as known: its error is ignored
(`main.go:273`).

**Hook.** One request over the codes `Find` returned; scripts answer anything.
Objects are abstracted to the admissions whose changes they carry. `ServeFails` and
`DecodeFails` are the ways in which a request is decided without asking a script.
`sort.Slice` gives a list that is `InOrder`: none is less than one before it
(two admissions differ in namespace or name, so there is just one). `PatchTellsAll`
goes along the history of calls: what each was given is what the one before handed
on, the patch leads to what the last one handed on, and the annotation is the
sequence of those calls that returned a Result.

**JsonPatch.** The walker goes through two JSON values at once. Its recursion is an
agenda of values still to be walked and operations still to be emitted: `Walk`
expands the first value (`ProcessMap`, in any order of the keys, `ProcessSlice`,
`WalkString`, `WalkScalar`) or fails, `Emit` appends an operation to `patchList`.
`object` is the request's object with the operations emitted so far applied, as
RFC 6902 says (external): `Along` follows the path of an operation down, `Edited`
applies it to the last map or slice on the path, and `Rebuilt` puts the results back
up. An operation without a target, or an add without a value, breaks the object. A value is its `reflect.Kind` and its text or parts; null
is the kind `Invalid`, which the JSON encoding of an operation leaves out. Struct
fields, Go pointers and the walker's options do not occur in the objects `hook.go`
gives it. `Values` is the set of what `encoding/json` decodes to, closed under parts.
`PlainPairs` says of a set of pairs of values what the walker needs in order not to
mistake any of them: no string is emptied, no null is added, an empty part of a slice
stays as it is, and the same for the pairs of parts it goes on to.

Operators whose comment begins with *Mutant of* belong to no behaviour: each is
a plausible wrong version of the definition that follows it. Putting it in that
definition's place makes a run fail, which shows that the run's property depends
on the code (`PROJECT.json`, `mutants`).

## The runs

| run | question | answer |
|---|---|---|
| `JsSerial` | are event hooks alone atomic on the state? | yes: `UpdatesSurvive`, refinement `AtomicSpec` |
| `JsConcurrent` | what survives requests and events together, with scripts that fail in every way? | pool and types consistent, no dirty state, functions exclude each other, every call ends |
| `JsLostUpdate` | ... and updates? | no: lost |
| `JsStaleInterrupt` | is a function interrupted by its own timer only? | no |
| `WatcherCache` | does the cache follow the informers, stand still under the lock, and converge after a broken watch? | yes, but for refused deletions |
| `WatcherTombstone` | and those? | no |
| `ControllerCore` | do codes hear exactly of what is cached, as a history? do enforced admissions converge to the existing ones, and do they agree whenever nothing is on its way? is `Enforcement` implemented? | yes, with one kind each |
| `ControllerFailures` | what if discovery, loads and hooks fail, kinds change and the admissions' watch breaks? is a superseded code ever found? do hooks of one code overlap, or run before `jsa_init`? what is enforced once nothing is on its way? | `Enforcement` is still implemented; no; no; only what exists |
| `ControllerKinds` | do admissions with two kinds converge? | no: deadlock |
| `HookPipeline` | order of execution, denials, patch and annotation, whatever the scripts answer and whatever fails | right |
| `JsonPatchPlain` | does the patch of two objects turn one into the other? is it empty just for equal ones? | yes, without the values that the walker mistakes |
| `JsonPatchOdd` | and with them? | no |

The five runs answered by *no* alone (`JsLostUpdate`, `JsStaleInterrupt`,
`WatcherTombstone`, `ControllerKinds`, `JsonPatchOdd`) state one property each, taken
from the documentation, and TLC finds it violated; the other seven pass.

`CHECK_DEADLOCK FALSE` stands in the configurations whose system may stop: all
calls made, a request answered, a patch created, or a cluster in which every object has used up
its versions.

## Bounds

- `JsContext`: three or four calls and two runtimes (the default pool has eight).
  The hazards need two calls that overlap and one that comes after; with more
  calls than runtimes the pool runs dry.
- `Watcher`: `MaxVersion = 2` gives each object creation, update, deletion and
  creation again; `MaxRelists = 1` one broken watch, which is enough for a
  tombstone. Two resources are two handlers contending for the mutex, two
  threads two callers.
- `Controller`: `ControllerCore` has an admission of the cluster and one of a
  namespace (two goroutines contending for the admissions watcher's mutex), each
  created and deleted, and a pod created, updated and deleted.
  `ControllerFailures` has one admission with three versions (pods, deployments,
  no kind at all), a pod, and one broken watch of the admissions, which skips a
  version or reports a tombstone (`WatcherCache` has the broken watch of resources).
  A load that meets an event needs one of each. `Unlistable` is empty: a resource that cannot be listed
  stops the controller (see the hazards). Convergence is checked without updates
  of an admission, whose safety `ControllerFailures` checks.
- `Hook`: five admissions, of two namespaces and the cluster, names alternating.
- `JsonPatch`: objects of up to three levels, with two keys and a null of their own;
  slices of up to three scalars and of up to two maps or slices, so that a removal
  can shift another and a walk within a slice comes before it. `Values` is the parts of
  the objects, level by level. `PlainAssumption` has TLC evaluate that the pairs of
  `JsonPatchPlain` are `PlainPairs`.

`MaxVersion`, `MaxAdmVersion`, `MaxRelists` and `MaxAdmRelists` are bounds of the
models, not of the code.

## Fairness

- A goroutine that can run does (weak fairness of each step).
- A goroutine that waits for a `sync.Mutex` gets it although others keep taking
  it (strong fairness): Go's mutex is handed over in turn once a goroutine has
  waited for a millisecond. In `JsContext` weak fairness is enough, since each call
  is made once.
- Timers fire, and the interrupting goroutine runs.
- Of a script's functions nothing is assumed: each may loop for ever. `FairSpec`
  of `JsContext` does assume that the script's top level ends, for the code runs it
  under no timer.
- The API server answers a list in the end.

## What is proved

All theorems hold for every value of the constants that the named assumption of the
module allows; each assumption says only that parameters are of their kinds, bounds
natural numbers, sets that are enumerated finite, and names, goroutines, resources and
null values told apart. The
runs evaluate them. Together the theorems state every property of the runs
that pass, except the three liveness properties.

`JsContextProofs`, for every script (`Declared`, `Defined`, `Updates`, `Failures`),
every set of calls and every pool, from `ConstantsAssumption` alone:

| theorem | statement | argument |
|---|---|---|
| `PoolSafe` | `Spec => [](TypeOK /\ PoolConsistent)` | the conjunction is inductive: that `ReturnRuntime` returns a runtime needs `PoolConsistent`, that borrowing keeps it needs the types |
| `NoDirtyState` | `Spec => []CommittedOnly` | inductive given the types; only `Finish` adds to `State`, only `BuildArgs` copies it, and a committed call stays so |
| `MutualExclusion` | `Spec => [](EveryCallAlone /\ SyncedAlone)` | from `EveryCallSyncs`: `WithSync` holds of every method, so `WriterExecutes` (no readers, and who executes is the writer) is inductive |
| `EventUpdatesSurvive` | `SerialCalls` gives `Spec => []UpdatesSurvive` | `OneAtATime`: at most one call in progress, whose copy is still `State` |
| `EventHooksAtomic` | `SerialCalls` gives `Spec => AtomicSpec` | the refinement: `Finish` is `Succeed` or `Fail`, `FactoryFails` and `NoFunction` are `Fail`, the rest stutters |

`SerialCalls` says that no webhook request is among the calls. It is needed:
`JsLostUpdate` is the counterexample without it. `EveryCallAlone` says more than
the README promises (functions without `sync` exclude each other too): the branch
that takes the lock for reading is never reached.

`WatcherProofs`, for every set of resources, objects and threads, from
`InformersAssumption` and `WatcherAssumption`:

| theorem | statement | argument |
|---|---|---|
| `Types` | `Spec => []TypeOK` | inductive: a notification is made from the versions at hand, and only who is inside `Add` ends it |
| `LockHolds` | `Spec => CacheStableUnderLock` | entries change in the three handlers only, which need `mux` to be free |
| `CacheFollows` | `Spec => []CacheFollowsInformer` | `CacheInv`, see below |

`CacheFollowsInformer` is not inductive. `CacheInv` adds what it rests on:
`WatchesExactly` (the indexer of a synced informer holds what the cluster does),
`HandlersBusy` (who holds `mux` as a handler has a
notification in hand and has stored it), `NotificationsFit` (a notification in a
queue is about an object of that informer, its type fits its versions, and no handler
has a tombstone in hand) and `PathsLead`: every object, a stale one too, has a version
from which what is on its way leads on, and it is the cached one unless the object is
stale. The property alone says nothing of stale objects, which stop being stale when
the next notification about them is handled. A watch that delivers
a change appends one step to the path; a list appends at most one per object, from
the indexer's version to the cluster's (`ReplacementsOfOne`); `Receive` drops from
the front only what leads nowhere (an update to the same version) or makes its
object stale (a tombstone); a handler walks the first step. Two further invariants
are proved here for the controller: `VersionsGrow`, that along the path the versions
only increase, so a version that has been handled never comes again, and `AllSeen`,
that without broken watches nothing is skipped.

`ControllerProofs`, for every set of admissions, kinds, resources and objects and
every set of failures, from `ControllerAssumption`. What `WatcherProofs` proves of a
step of a `Watcher` is used of both instances (`RP` and `AP`): each step of the
controller is a step of the one or leaves it alone, and the same of the other
(`StepsOfWatchers`).

| theorem | statement | argument |
|---|---|---|
| `Types` | `Spec => []TypeOK` | with both watchers' `CacheInv`, which says that a handler has a notification of its own resource in hand |
| `HooksAlone` | `Spec => []HooksInTurn` | `LoadInv`, see below |
| `OldCodeGoes` | `Spec => []NoSupersededCode` | with `ReplacedFits`: from `Upsert` or `Remove` on the registered version is the cached one, none, or the admission is unresolved |
| `ViewsMatch` | `Spec => []ViewMatchesCache` | `ViewInv`, see below |
| `History` | `Spec => EventsFormHistory` | with `HistoryFits`: who is being told last heard of the version the event replaces, since the handler found the views equal to the cache and the cache equal to the event's old version (`AllSeen`) |

`Inv` is the types, both watchers' invariants and `LoadInv`, which says where a load
stands: the code in hand is registered, of the admission's version, and not valid
(`LoadingFits`); its loader holds the resources' mutex, or the admission is about no
kind at all and there is nothing to lock (`LockingFits`: `main.go:224` locks once per
kind); valid codes are initialised and those to be told are about something
(`CodesFit`). Without the case of no kinds the invariant is false, which is why
`HooksInTurn` needs an argument at all: a code about nothing is loaded without the
lock, and no event finds it.

`ViewInv` says of a valid code what `ViewMatchesCache` does, and of the one being
loaded that it knows nothing before `jsa_init` and, during the replay, every cached
object it is about but those in `replay` (`LoadedViewFits`). Making it valid when
`replay` is empty turns the second into the first; that no event comes in between is
`LockingFits`.

`EnforcementProofs`, from `ControllerAssumption`:

| theorem | statement | argument |
|---|---|---|
| `Implements` | `Spec => EnforcementSpec` | `KnownIsCached`: what an enforced admission knows is, by `ViewInv`, what the cache holds of the objects it is about, so each step is decided by what becomes of the caches and of the enforced versions. A load or removal of a valid code is a `Drop` only if its version is not wanted any more, which is `Fresh`: by `VersionsGrow` of the admissions' watcher, an update never brings the version that is registered |

`ConvergenceProofs`, from `ControllerAssumption`:

| theorem | statement | argument |
|---|---|---|
| `SettledIsRight` | `Spec => []SettledConverges` | see below |
| `SettlingConverges` | `Failures = {}` gives `Spec /\ <>[]Settled => AdmissionsConverge` | without failures nothing is missed or left unresolved (`NothingMissed`), so `SettledConverges` leaves only the refused deletions out, as `AdmissionsConverge` does |

A chain of agreements, each with its own invariant, leads from the cluster to what a
code knows. With nothing on its way the watchers' caches agree with the cluster
(`IdleAgrees`, from `PathsLead` and `WatchesExactly`), the registry agrees with the
admissions' cache (`NoSupersededCode`, and where no load fails `LoadedFits`: what the
handler has not in hand is loaded, removed or unresolved), and the views agree with the
objects' cache (`ViewInv`). The last agreement is worth something only for resources that are watched, which
is `KindsWatched`: the loop of `main.go:216` has watched every kind, the ones crossed off
`left`, before the code is replaced, and no informer is ever stopped.
`SettlingConverges` divides `AdmissionsConverge`: what a quiet controller has come to is
proved for every instance, that it becomes quiet (locks are handed on, lists are
answered) is what TLC checks, on the small one, and what `ControllerKinds` refutes.

`HookProofs`, for every finite set of admissions with distinct names, from
`HookAssumption`:

| theorem | statement | argument |
|---|---|---|
| `Types` | `Spec => []TypeOK` | needs that `Sorted` is a sequence of the admissions found |
| `DenialStands` | `Spec => []DenialIsFinal` | while the response is pending no call has denied |
| `CalledInOrder` | `Spec => []ExecutionOrder` | `InSequence`: the calls made and the admissions left are, one after the other, `Sorted(found)`, which exists and is in order (`ComesFirst` is a strict order on the admissions that one request finds) |
| `PatchTells` | `Spec => []PatchTellsAll` | `Told`: the same of `object` and `mutations` after each call |

Two things came out of the proofs of `Hook`. `Applied` had been written as a `CASE` whose guards
overlap, which TLC resolves in the order written but the language leaves open, so that
a `Result` in `validate` could have changed the object; it is now an `IF`. And that `Sorted` is a sequence at all needs the set of admissions to be
finite, now part of `HookAssumption`.

`JsonPatchProofs`, for objects of any depth and size and any order of the keys of maps,
from `JsonPatchAssumption`:

| theorem | statement | argument |
|---|---|---|
| `EmptyMeansEqual` | `Spec => []EmptyIffEqual` | `EmptyInv`: as long as the patch is empty, the agenda leads from `current` to `modified`; the agenda of equal objects has pairs of equal values only |
| `PlainPatchYields` | `PlainPairs(pairs)`, for some set of pairs with every `modified` and `current`, gives `Spec => []PatchYieldsModified` | `YieldsInv`: the agenda leads from `object` to `modified`, and the walker mistakes none of its pairs |

The first holds of all objects, the mistaken ones included. The second needs its
hypothesis: `JsonPatchOdd` is the counterexample without it. `PlainAssumption` shows
that the objects of `JsonPatchPlain` satisfy it.

An item of the agenda *changes* an object into another (`Changes`): from `old` to `new` at
its pointer, with everything beside the path as it was. The path is kept as two
functions on its positions, the values on the way down (`Down`) and those put back on
the way up (`Up`). `Leads` is the invariant: the items of the agenda form a chain of
changes (`Chain`) from `object` to `modified`. That a walk replaces an item by items
whose changes compose to its own is `WalkExpands`. For maps and slices it rests on
`Mixed`, the container when some keys are done and others are not: doing one key more
is putting the new part there (`MixedWith`), and it ends as the new container when each
key is done once, which holds for every order of a map's keys (`MapDoesKeys`) and for
the order of a slice's indexes (`SliceGrows`, `SliceShrinks`). `AllFit` is where the
order matters: the index removed is always the last, the one added comes after the
last. With the removals in the order of the indexes it is false, and the run with
that mutant fails. That an operation, applied as RFC 6902 says, makes the change of its
item is `Applied`; this step needs `Plain`, the conditions on the values. No
induction over values is used: the walker never looks deeper than one level at a time,
and the induction is over the positions of one path, by the well-foundedness of `<` on
the naturals (`FromStart`, `FromEnd`). `Patched` had been recursive in the path and is
now written with recursive functions on its positions, so that it can be reasoned about.

Only model-checked is liveness (`EveryCallReturns`, `CacheConverges`,
`AdmissionsConverge`), which needs fairness and `ENABLED`, out of the prover's reach; of
the last, `SettlingConverges` proves what does not.

## Where code and documentation part

Each is a run that TLC refutes; `PROJECT.json` quotes the lines.

1. `JsLostUpdate`: `State` is copied before the lock (`jscontext.go:187`) and
   stored under it, so overlapping calls lose updates in spite of `sync`. In the
   pod-count example a `jsa_validate` that does not write at all can undo a
   `jsa_created`.
2. `JsStaleInterrupt`: a late timer interrupts the runtime's next user.
3. `WatcherTombstone`: deletions during a broken watch never reach cache or script.
4. `ControllerKinds`: an admission with two kinds blocks the controller.
5. `JsonPatchOdd`: a string of a slice that a script empties is removed, one it
   fills is inserted, and so is what it puts into an empty map or slice of a slice
   (`walker.go:43`, `90`, `134`); the pod that is created is not the script's Result.

More follows from the same models and has no run of its own. `README.md:144`
has `state` read-only without `sync`, but it is stored after every call
(`jscontext.go:217`), the cause of 1 as well. The top level of a script runs in
the pool's factory under no timer (`jscontext.go:66`), so `EveryCallReturns` needs
the assumption named under [Fairness](#fairness). The server starts when the
informers have synced, which is before the admissions they listed are loaded
(`main.go:164`). A script that throws denies the request (`hook.go:120`), where
`README.md:175-180` says that only an answer of false does. And the limit of
`README.md:257` can be exceeded by pods created at once: `jsa_created` follows the
informers, not the requests.

## Not modelled

- The Go memory model: `IsValid` is written without the registry's lock and
  `State`'s pointer read without the context's; both are single words, so the
  models treat the accesses as atomic. `Export` of a result after its runtime went
  back to the pool is taken to read that result only.
- Scripts' values: objects, state and answers are abstracted as said above.
  Conversion to and from goja copies deeply, so calls share no objects.
- HTTP, TLS, JSON decoding of requests other than its failures, flags,
  environment, signals (the process exits), logging, discovery other than its
  failure, manifests. `types.go` declares types whose copies nobody makes.
- Of `jsonpatch`, what no caller reaches: structs and Go pointers, predicates,
  handlers and prefixes of the caller's, `IgnoreSliceOrder`, the three-way patch,
  `Match`. The escapes in pointers only keep them distinct. `Hook` takes no patch
  apart: that one cannot be made is its failure `"patch"`.
- Requests together with the cluster: `Hook` is given the codes `Find` returned, and
  what a script answers is free, so a verdict is not related to what the code has
  heard of.

## Plan

In this order; all of it is done.

1. `JsContext` and `AtomicState`, the state every admission depends on, and its
   proofs.
2. `Informers`, `Cache`, `Watcher`.
3. `Admissions`, `Controller`.
4. `Hook`.
5. `JsonPatch`: the walker over bounded documents, checked against applying the
   patch (RFC 6902).
6. `Enforcement`, an abstract specification of the controller, and `Controller`
   shown to implement it.
7. `WatcherProofs`: types, `CacheStableUnderLock`, then `CacheFollowsInformer`
   over the operations on queues (an append, a tail).
8. `ControllerProofs`: the mutexes exclude (`step`, `todo`), then `HooksInTurn` and
   `ViewMatchesCache`, strengthened with what `replay` and `todo` still owe;
   `NoSupersededCode`; `EventsFormHistory`; in `EnforcementProofs` the refinement.
9. `HookProofs`: `DenialIsFinal`, `ExecutionOrder` and `PatchTellsAll`.
10. `JsonPatchProofs`: `EmptyIffEqual` for all objects, `PatchYieldsModified` for those
    whose values the walker does not mistake.
11. `ConvergenceProofs`: the part of `AdmissionsConverge` that is no matter of fairness.
