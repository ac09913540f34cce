------------------------------- MODULE Watcher -------------------------------
(***************************************************************************)
(* watcher/watcher.go: a Watcher starts informers on demand and runs, for  *)
(* each notification, an event handler that updates the cache and calls    *)
(* the controller's action.  Its one mutex, mux, is taken by Add for as    *)
(* long as the informer needs to sync, by every event handler, and by any  *)
(* goroutine that calls LockResource: the locks per resource that the      *)
(* struct declares are commented out (watcher.go:138-150).                 *)
(*                                                                         *)
(* The module is instantiated twice by Controller, for the admissions and  *)
(* for the resources they are about; checked alone, it is driven by        *)
(* threads that call Add and LockResource at will.                         *)
(***************************************************************************)
EXTENDS Informers

CONSTANTS
  NamespaceOf, NoNamespace,  \* as in Cache
  Threads,                   \* the goroutines that call the watcher
  Nobody, NoResource, NoEvent

(* Goroutines and null values are told apart.                              *)
ASSUME WatcherAssumption ==
  /\ Threads \cap Resources = {}
  /\ Nobody \notin Threads \cup Resources
  /\ NoResource \notin Resources
  /\ NoEvent \notin Notifications

VARIABLES
  items,    \* Watcher.items
  mux,      \* who holds Watcher.mux: a thread, an informer's handler, Nobody
  adding,   \* the resource each thread is inside Add for
  event,    \* the notification each informer's handler is busy with
  stale     \* history: the objects whose deletion the handler refused

watcherVars == <<informerVars, items, mux, adding, event, stale>>

INSTANCE Cache

WatcherInit ==
  /\ InformersInit
  /\ CacheInit
  /\ mux = Nobody
  /\ adding = [t \in Threads |-> NoResource]
  /\ event = [r \in Resources |-> NoEvent]
  /\ stale = {}

-----------------------------------------------------------------------------
(* Mutant of AddStart: mux is released before the informer has synced.     *)
AddStartUnlocking(t, r) ==
  /\ mux = Nobody
  /\ informer[r] = "none"
  /\ adding' = [adding EXCEPT ![t] = r]
  /\ informer' = [informer EXCEPT ![r] = "starting"]
  /\ UNCHANGED <<cluster, written, indexer, queue, relists, items, mux, event, stale>>

(* Add: the resource is not watched yet.  Its informer is registered and   *)
(* started, and mux is kept while it syncs.                                *)
AddStart(t, r) ==
  /\ mux = Nobody
  /\ informer[r] = "none"
  /\ mux' = t
  /\ adding' = [adding EXCEPT ![t] = r]
  /\ informer' = [informer EXCEPT ![r] = "starting"]
  /\ UNCHANGED <<cluster, written, indexer, queue, relists, items, event, stale>>

(* Add: the resource has an informer already; nothing to do.               *)
AddExisting(t, r) ==
  /\ mux = Nobody
  /\ informer[r] # "none"
  /\ UNCHANGED watcherVars

(* Add: WaitForCacheSync returns.  What has synced is the indexer; the     *)
(* handlers of the initial notifications are still waiting for mux.        *)
AddDone(t) ==
  /\ adding[t] # NoResource
  /\ HasSynced(adding[t])
  /\ mux' = Nobody
  /\ adding' = [adding EXCEPT ![t] = NoResource]
  /\ UNCHANGED <<informerVars, items, event, stale>>

LockResource(t) ==
  /\ mux = Nobody
  /\ mux' = t
  /\ UNCHANGED <<informerVars, items, adding, event, stale>>

UnlockResource(t) ==
  /\ mux = t
  /\ adding[t] = NoResource
  /\ mux' = Nobody
  /\ UNCHANGED <<informerVars, items, adding, event, stale>>

-----------------------------------------------------------------------------
(* Mutant of Skipped: the test for an unchanged object inverted.           *)
SkippedIfChanged(n) == n.type = "tombstone" \/ (n.type = "update" /\ n.old # n.new)

(* The handlers' early returns: an update that does not change the         *)
(* resourceVersion, and a tombstone, which is no *unstructured.            *)
Skipped(n) == n.type = "tombstone" \/ (n.type = "update" /\ n.old = n.new)

(* The handler's goroutine of r's informer takes the next notification.    *)
Receive(r) ==
  /\ event[r] = NoEvent
  /\ queue[r] # <<>>
  /\ LET n == Head(queue[r]) IN
       /\ event' = [event EXCEPT ![r] = IF Skipped(n) THEN NoEvent ELSE n]
       /\ stale' = IF n.type = "tombstone" THEN stale \cup {n.obj} ELSE stale
  /\ queue' = [queue EXCEPT ![r] = Tail(@)]
  /\ UNCHANGED <<cluster, written, informer, indexer, relists, items, mux, adding>>

(* Mutant of HandlerLock: a lock of its own for each resource.             *)
HandlerLockOwn(r, types) ==
  /\ event[r] # NoEvent
  /\ event[r].type \in types
  /\ mux # r
  /\ mux' = r
  /\ stale' = stale \ {event[r].obj}
  /\ UNCHANGED <<informerVars, adding, event>>

(* The handler has the notification and takes mux.                         *)
HandlerLock(r, types) ==
  /\ event[r] # NoEvent
  /\ event[r].type \in types
  /\ mux = Nobody
  /\ mux' = r
  /\ stale' = stale \ {event[r].obj}
  /\ UNCHANGED <<informerVars, adding, event>>

(* AddFunc and UpdateFunc store the new object, DeleteFunc removes it; the *)
(* action is called next, still under mux.                                 *)
AddFunc(r)    == HandlerLock(r, {"add"})    /\ CacheAdd(event[r].obj, event[r].new)
UpdateFunc(r) == HandlerLock(r, {"update"}) /\ CacheAdd(event[r].obj, event[r].new)
DeleteFunc(r) == HandlerLock(r, {"delete"}) /\ CacheRemove(event[r].obj)

Handle(r) == AddFunc(r) \/ UpdateFunc(r) \/ DeleteFunc(r)

(* The action has returned: the deferred UnlockResource.                   *)
HandlerDone(r) ==
  /\ mux = r
  /\ mux' = Nobody
  /\ event' = [event EXCEPT ![r] = NoEvent]
  /\ UNCHANGED <<informerVars, items, adding, stale>>

GetResources(r, ns) == CacheFind(r, ns)

(* Steps of the environment that touch nothing of the Watcher's own.       *)
Environment ==
  /\ Users \/ \E r \in Resources : LoseWatch(r) \/ List(r)
  /\ UNCHANGED <<items, mux, adding, event, stale>>

-----------------------------------------------------------------------------
(* The Watcher alone, driven by threads that call it at will.              *)
Caller(t) ==
  \/ \E r \in Resources : AddStart(t, r) \/ AddExisting(t, r)
  \/ AddDone(t) \/ LockResource(t) \/ UnlockResource(t)

Next ==
  \/ Environment
  \/ \E t \in Threads : Caller(t)
  \/ \E r \in Resources : Receive(r) \/ Handle(r) \/ HandlerDone(r)

Spec == WatcherInit /\ [][Next]_watcherVars

(* An informer lists and relists until it succeeds, a handler's goroutine  *)
(* runs, whoever locked mux unlocks it, and a goroutine that waits for mux *)
(* gets it in the end (sync.Mutex turns to handing over in turn when one   *)
(* has waited for a millisecond), however often the others take it.        *)
FairSpec ==
  /\ Spec
  /\ \A r \in Resources :
       /\ WF_watcherVars(List(r) /\ UNCHANGED <<items, mux, adding, event, stale>>)
       /\ WF_watcherVars(Receive(r))
       /\ SF_watcherVars(Handle(r))
       /\ WF_watcherVars(HandlerDone(r))
  /\ \A t \in Threads : WF_watcherVars(AddDone(t)) /\ WF_watcherVars(UnlockResource(t))

-----------------------------------------------------------------------------
(* Types of the variables; a thread that is inside Add holds mux.          *)
TypeOK ==
  /\ cluster \in [Objects -> Versions]
  /\ written \in [Objects -> Versions]
  /\ informer \in [Resources -> {"none", "starting", "synced", "lost"}]
  /\ indexer \in [Objects -> Versions]
  /\ queue \in [Resources -> Seq(Notifications)]
  /\ relists \in 0..MaxRelists
  /\ items \in [Objects -> Versions]
  /\ mux \in Threads \cup Resources \cup {Nobody}
  /\ adding \in [Threads -> Resources \cup {NoResource}]
  /\ event \in [Resources -> Notifications \cup {NoEvent}]
  /\ stale \subseteq Objects
  /\ \A t \in Threads : adding[t] # NoResource => mux = t

(* The notifications of r that have not reached the cache.                 *)
OnItsWay(r) ==
  (IF event[r] # NoEvent /\ mux # r THEN <<event[r]>> ELSE <<>>) \o queue[r]

(* The notifications about o on path lead from one version of o to another *)
(* without a gap: v is the version before the first and after each of them.*)
Leads(path, o, from, to) ==
  \E v \in [0..Len(path) -> Versions] :
    /\ v[0] = from
    /\ v[Len(path)] = to
    /\ \A i \in 1..Len(path) :
         IF path[i].obj = o THEN path[i].old = v[i-1] /\ path[i].new = v[i]
                            ELSE v[i] = v[i-1]

(* The handler runs outside the informer's lock, at any time later and     *)
(* with early returns, yet what is on its way to it always leads, one      *)
(* version after the other, from what the cache holds to what the informer *)
(* was last told: no version is lost, repeated or out of order, and with   *)
(* nothing on its way the cache agrees with the informer.  Objects whose   *)
(* deletion DeleteFunc refused (watcher.go:91) are the exception.          *)
CacheFollowsInformer ==
  \A o \in Objects \ stale :
    Leads(OnItsWay(ResourceOf[o]), o, items[o], indexer[o])

(* The handlers of all informers and every caller of LockResource exclude  *)
(* each other: while a thread has locked a resource, or is inside Add, no  *)
(* cache entry changes (src/main.go:224, 252).                             *)
CacheStableUnderLock ==
  [][\A t \in Threads : mux = t => items' = items]_watcherVars

(* No notification of r is on its way or in hand.                          *)
Idle(r) == queue[r] = <<>> /\ event[r] = NoEvent

(* Once the users of the cluster stop, the cache of every watched resource *)
(* comes to agree with it, whatever watches broke in between and however   *)
(* often threads take the lock.  (Refused deletions excepted.)             *)
CacheConverges ==
  <>[](\A o \in Objects \ stale :
         informer[ResourceOf[o]] # "none" => items[o] = cluster[o])

(* The same without the exception: src/README.md:264 keeps "the number of  *)
(* existing pods", counting each deletion it is told of.                   *)
DeletionsArrive ==
  <>[](\A o \in Objects :
         informer[ResourceOf[o]] # "none" => items[o] = cluster[o])

=============================================================================
