------------------------------ MODULE Informers ------------------------------
(***************************************************************************)
(* What a Watcher stands on, neither of it code of this repository: the    *)
(* objects of the Kubernetes API server, and one client-go shared informer *)
(* per watched resource, which keeps the last version it was told of each  *)
(* object (its indexer) and queues notifications for the one goroutine     *)
(* that runs the event handler.  Modelled from how watcher/watcher.go      *)
(* uses them.                                                              *)
(*                                                                         *)
(* An object is its namespace and name; its content is its version, 0 when *)
(* it does not exist.  Versions of one object only grow.                   *)
(***************************************************************************)
EXTENDS Naturals, SequencesExt

CONSTANTS
  Resources,   \* the resources (pods, deployments, ...) one can watch
  Objects,     \* the objects the server may hold
  ResourceOf,  \* the resource of each object
  MaxVersion,  \* bound: how often an object is created or updated
  MaxRelists,  \* bound: how often a watch breaks and is replaced by a list
  Unlistable   \* the resources whose list the server refuses

ASSUME InformersAssumption ==
  /\ IsFiniteSet(Objects)
  /\ ResourceOf \in [Objects -> Resources]
  /\ MaxVersion \in Nat \ {0}
  /\ MaxRelists \in Nat
  /\ Unlistable \subseteq Resources

VARIABLES
  cluster,   \* the version of each object on the server
  written,   \* the last version given to each object
  informer,  \* "none", "starting", "synced" or "lost", per resource
  indexer,   \* the version of each object the informer was last told
  queue,     \* the notifications the handler has not taken, per resource
  relists    \* how many watches have broken

informerVars == <<cluster, written, informer, indexer, queue, relists>>

Versions == 0..MaxVersion

(* A deletion the informer saw happen is a "delete"; one that it missed    *)
(* and infers from a list is a DeletedFinalStateUnknown, a "tombstone".    *)
Notifications ==
  [type : {"add", "update", "delete", "tombstone"}, obj : Objects,
   old : Versions, new : Versions]

Notification(type, o, new) ==
  [type |-> type, obj |-> o, old |-> indexer[o], new |-> new]

InformersInit ==
  /\ cluster \in [Objects -> {0, 1}]
  /\ written = cluster
  /\ informer = [r \in Resources |-> "none"]
  /\ indexer = [o \in Objects |-> 0]
  /\ queue = [r \in Resources |-> <<>>]
  /\ relists = 0

HasSynced(r) == informer[r] \in {"synced", "lost"}

(* The watch delivers o's change to the informer, which queues it.         *)
Observe(o, v, type) ==
  IF informer[ResourceOf[o]] = "synced"
    THEN /\ queue' = [queue EXCEPT ![ResourceOf[o]] = Append(@, Notification(type, o, v))]
         /\ indexer' = [indexer EXCEPT ![o] = v]
    ELSE UNCHANGED <<queue, indexer>>

(* A user creates or updates o, or deletes it.                             *)
Write(o) ==
  /\ written[o] < MaxVersion
  /\ written' = [written EXCEPT ![o] = @ + 1]
  /\ cluster' = [cluster EXCEPT ![o] = written[o] + 1]
  /\ Observe(o, written[o] + 1, IF cluster[o] = 0 THEN "add" ELSE "update")
  /\ UNCHANGED <<informer, relists>>

Delete(o) ==
  /\ cluster[o] # 0
  /\ cluster' = [cluster EXCEPT ![o] = 0]
  /\ Observe(o, 0, "delete")
  /\ UNCHANGED <<written, informer, relists>>

(* The watch of r is closed as too old: changes go unseen until a relist.  *)
LoseWatch(r) ==
  /\ relists < MaxRelists
  /\ informer[r] = "synced"
  /\ informer' = [informer EXCEPT ![r] = "lost"]
  /\ relists' = relists + 1
  /\ UNCHANGED <<cluster, written, indexer, queue>>

(* One notification per object that is listed or was known before.         *)
Replacements(r) ==
  {Notification(IF cluster[o] = 0 THEN "tombstone"
                ELSE IF indexer[o] = 0 THEN "add" ELSE "update", o, cluster[o]) :
     o \in {p \in Objects : ResourceOf[p] = r /\ (cluster[p] # 0 \/ indexer[p] # 0)}}

(* The first list of a new informer, or the relist of one that lost its    *)
(* watch, in any order.                                                    *)
List(r) ==
  /\ informer[r] \in {"starting", "lost"}
  /\ r \notin Unlistable
  /\ informer' = [informer EXCEPT ![r] = "synced"]
  /\ \E batch \in SetToSeqs(Replacements(r)) :
       queue' = [queue EXCEPT ![r] = @ \o batch]
  /\ indexer' = [o \in Objects |-> IF ResourceOf[o] = r THEN cluster[o] ELSE indexer[o]]
  /\ UNCHANGED <<cluster, written, relists>>

Users == \E o \in Objects : Write(o) \/ Delete(o)

=============================================================================
