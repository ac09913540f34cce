----------------------------- MODULE Controller ------------------------------
(***************************************************************************)
(* main.go: the two watchers and the registry put together.                *)
(*                                                                         *)
(* The admissions watcher A watches the two custom resources; its handler, *)
(* admissionHandler, loads, replaces or removes the code of an admission   *)
(* and makes the resources watcher R watch what the admission is about.    *)
(* R's handler, resourceHandler, tells every valid code of each object     *)
(* that is created, updated or deleted.  A code is a function of the       *)
(* objects it has been told of, so its JavaScript is abstracted to that:   *)
(* view, the version of each object it last heard of.                      *)
(***************************************************************************)
EXTENDS Naturals, Sequences, FiniteSets

CONSTANTS
  \* the watched resources, as in Watcher
  Resources, Objects, ResourceOf, NamespaceOf, MaxVersion, MaxRelists, Unlistable,
  \* the admissions, as in Admissions
  Admissions, AdmNamespaceOf, KindsOf, MaxAdmVersion, MaxAdmRelists,
  ClusterCrd, NamespaceCrd,  \* the two resources they are
  Failures,  \* the steps that may fail
  Main,      \* the main goroutine
  NoNamespace, Nobody, NoResource, NoEvent

AllFailures == {"discovery", "compile", "init", "created", "event"}

VARIABLES
  \* resourcesWatcher
  cluster, written, informer, indexer, queue, relists, items, mux, adding, event, stale,
  \* admissionsWatcher
  aCluster, aWritten, aInformer, aIndexer, aQueue, aRelists, aItems, aMux, aAdding,
  aEvent, aStale,
  \* admissions
  registry, valid,
  \* the JavaScript side of the code last made for each admission
  initialised,  \* those whose jsa_init has succeeded
  view,         \* the version of each object it last heard of, 0 if not alive
  unresolved,   \* history: those whose last event discovery cut short
  missed,       \* history: the <<admission, object>> whose event hook failed
  \* control
  step,    \* where admissionHandler is; aMux admits one at a time
  left,    \* the kinds its current loop has left
  replay,  \* the objects it has left to report as created
  todo,    \* the codes, <<admission, version>>, resourceHandler has left to tell
  main     \* where the main goroutine is

Crds == {ClusterCrd, NamespaceCrd}
CrdOf == [a \in Admissions |->
            IF AdmNamespaceOf[a] = NoNamespace THEN ClusterCrd ELSE NamespaceCrd]

R == INSTANCE Watcher WITH Threads <- Crds

A == INSTANCE Watcher WITH
  Resources <- Crds, Objects <- Admissions, ResourceOf <- CrdOf,
  NamespaceOf <- AdmNamespaceOf, MaxVersion <- MaxAdmVersion,
  MaxRelists <- MaxAdmRelists, Unlistable <- {}, Threads <- {Main},
  cluster <- aCluster, written <- aWritten, informer <- aInformer,
  indexer <- aIndexer, queue <- aQueue, relists <- aRelists, items <- aItems,
  mux <- aMux, adding <- aAdding, event <- aEvent, stale <- aStale

INSTANCE Admissions

rVars    == <<cluster, written, informer, indexer, queue, relists, items, mux,
              adding, event, stale>>
aVars    == <<aCluster, aWritten, aInformer, aIndexer, aQueue, aRelists, aItems,
              aMux, aAdding, aEvent, aStale>>
jsVars   == <<initialised, view, missed, unresolved>>
ctrlVars == <<step, left, replay>>
vars     == <<rVars, aVars, registry, valid, jsVars, ctrlVars, todo, main>>

(* The bounds, and that resources, goroutines and null values are told     *)
(* apart.                                                                  *)
ASSUME ControllerAssumption ==
  /\ IsFiniteSet(Objects) /\ IsFiniteSet(Admissions)
  /\ ResourceOf \in [Objects -> Resources]
  /\ KindsOf \in [Admissions -> [1..MaxAdmVersion -> Seq(Resources)]]
  /\ AdmNamespaceOf \in [Admissions -> {NoNamespace} \cup {NamespaceOf[o] : o \in Objects}]
  /\ Failures \subseteq AllFailures
  /\ Unlistable \subseteq Resources
  /\ MaxVersion \in Nat \ {0} /\ MaxAdmVersion \in Nat \ {0}
  /\ MaxRelists \in Nat /\ MaxAdmRelists \in Nat
  /\ ClusterCrd # NamespaceCrd
  /\ Crds \cap Resources = {}
  /\ Main \notin Crds
  /\ Nobody \notin Resources \cup Crds \cup {Main}
  /\ NoResource \notin Resources \cup Crds
  /\ NoEvent \notin R!Notifications \cup A!Notifications

Steps == {"none", "resolving", "watching", "adding", "locking", "initialising",
          "replaying", "unlocking", "returning"}

Init ==
  /\ R!WatcherInit
  /\ A!WatcherInit
  /\ AdmissionsInit
  /\ initialised = {}
  /\ view = [a \in Admissions |-> [o \in Objects |-> 0]]
  /\ missed = {}
  /\ unresolved = {}
  /\ step = "none"
  /\ left = <<>>
  /\ replay = {}
  /\ todo = {}
  /\ main = "cluster"

-----------------------------------------------------------------------------
(* main: watch ClusterCrd, then NamespaceCrd, then start the server.       *)
AddCrd(here, crd) ==
  /\ main = here
  /\ A!AddStart(Main, crd)
  /\ UNCHANGED <<rVars, registry, valid, jsVars, ctrlVars, todo, main>>

CrdAdded(here, crd, next) ==
  /\ main = here
  /\ aAdding[Main] = crd
  /\ A!AddDone(Main)
  /\ main' = next
  /\ UNCHANGED <<rVars, registry, valid, jsVars, ctrlVars, todo>>

LoadClusterCrd   == \/ AddCrd("cluster", ClusterCrd)
                    \/ CrdAdded("cluster", ClusterCrd, "namespace")
LoadNamespaceCrd == \/ AddCrd("namespace", NamespaceCrd)
                    \/ CrdAdded("namespace", NamespaceCrd, "serving")

-----------------------------------------------------------------------------
(* admissionHandler, on the goroutine of the informer of c, under aMux.    *)
Adm(c)      == aEvent[c].obj
Deleted(c)  == aEvent[c].type = "delete"
Version(c)  == IF Deleted(c) THEN aEvent[c].old ELSE aEvent[c].new
SpecKinds(c) == KindsOf[Adm(c)][Version(c)]
At(c, s)    == aMux = c /\ step = s

(* The cache of admissions is updated and admissionHandler called.         *)
AdmissionEvent(c) ==
  /\ A!Handle(c)
  /\ step' = "resolving"
  /\ UNCHANGED <<rVars, registry, valid, jsVars, left, replay, todo, main>>

(* Discovery does not know one of the kinds: return, whatever the event.   *)
DiscoveryFails(c) ==
  /\ "discovery" \in Failures
  /\ At(c, "resolving")
  /\ SpecKinds(c) # <<>>
  /\ step' = "returning"
  /\ unresolved' = unresolved \cup {Adm(c)}
  /\ UNCHANGED <<rVars, aVars, registry, valid, initialised, view, missed, left,
                 replay, todo, main>>

RemoveAdmission(c) ==
  /\ At(c, "resolving")
  /\ Deleted(c)
  /\ Remove(Adm(c))
  /\ step' = "returning"
  /\ unresolved' = unresolved \ {Adm(c)}
  /\ UNCHANGED <<rVars, aVars, initialised, view, missed, left, replay, todo, main>>

KindsResolved(c) ==
  /\ At(c, "resolving")
  /\ ~Deleted(c)
  /\ step' = "watching"
  /\ left' = SpecKinds(c)
  /\ unresolved' = unresolved \ {Adm(c)}
  /\ UNCHANGED <<rVars, aVars, registry, valid, initialised, view, missed, replay,
                 todo, main>>

(* resourcesWatcher.Add for each kind, one after the other.                *)
WatchKind(c) ==
  /\ At(c, "watching")
  /\ left # <<>>
  /\ \/ /\ R!AddStart(c, Head(left))
        /\ step' = "adding"
        /\ UNCHANGED left
     \/ /\ R!AddExisting(c, Head(left))
        /\ left' = Tail(left)
        /\ UNCHANGED step
  /\ UNCHANGED <<aVars, registry, valid, jsVars, replay, todo, main>>

KindSynced(c) ==
  /\ At(c, "adding")
  /\ R!AddDone(c)
  /\ step' = "watching"
  /\ left' = Tail(left)
  /\ UNCHANGED <<aVars, registry, valid, jsVars, replay, todo, main>>

AllWatched(c) ==
  /\ At(c, "watching")
  /\ left = <<>>
  /\ step' = "locking"
  /\ left' = SpecKinds(c)
  /\ UNCHANGED <<rVars, aVars, registry, valid, jsVars, replay, todo, main>>

(* Mutant of LockKind: the resources are not locked.                       *)
LockNothing(c) ==
  /\ At(c, "locking")
  /\ left # <<>>
  /\ left' = Tail(left)
  /\ UNCHANGED <<rVars, aVars, registry, valid, jsVars, step, replay, todo, main>>

(* LockResource for each kind: the same mutex every time.                  *)
LockKind(c) ==
  /\ At(c, "locking")
  /\ left # <<>>
  /\ R!LockResource(c)
  /\ left' = Tail(left)
  /\ UNCHANGED <<aVars, registry, valid, jsVars, step, replay, todo, main>>

(* The old code is gone from here on, the new one not yet valid.           *)
UpsertAdmission(c) ==
  /\ At(c, "locking")
  /\ left = <<>>
  /\ \E compiles \in BOOLEAN :
       /\ compiles \/ "compile" \in Failures
       /\ Upsert(Adm(c), Version(c), compiles)
       /\ step' = IF compiles THEN "initialising" ELSE "unlocking"
       /\ initialised' = initialised \ {Adm(c)}
       /\ view' = [view EXCEPT ![Adm(c)] = [o \in Objects |-> 0]]
       /\ missed' = {m \in missed : m[1] # Adm(c)}
  /\ UNCHANGED <<rVars, aVars, unresolved, left, replay, todo, main>>

(* code.Init(), then the cached objects of each kind to be reported.       *)
InitCode(c) ==
  /\ At(c, "initialising")
  /\ \/ /\ initialised' = initialised \cup {Adm(c)}
        /\ replay' = UNION {R!GetResources(r, AdmNamespaceOf[Adm(c)]) :
                            r \in Kinds(Adm(c), Version(c))}
        /\ step' = "replaying"
     \/ /\ "init" \in Failures
        /\ step' = "unlocking"
        /\ UNCHANGED <<initialised, replay>>
  /\ UNCHANGED <<rVars, aVars, registry, valid, view, missed, unresolved, left, todo,
                 main>>

CreatedForAll(c) ==
  /\ At(c, "replaying")
  /\ \E o \in replay :
       \/ /\ view' = [view EXCEPT ![Adm(c)][o] = items[o]]
          /\ replay' = replay \ {o}
          /\ UNCHANGED step
       \/ /\ "created" \in Failures
          /\ replay' = {}
          /\ step' = "unlocking"
          /\ UNCHANGED view
  /\ UNCHANGED <<rVars, aVars, registry, valid, initialised, missed, unresolved, left,
                 todo, main>>

(* Mutant of MakeAdmissionValid: valid before all objects are reported.    *)
MakeAdmissionValidEarly(c) ==
  /\ At(c, "replaying")
  /\ MakeValid(Adm(c))
  /\ step' = "unlocking"
  /\ UNCHANGED <<rVars, aVars, jsVars, left, replay, todo, main>>

MakeAdmissionValid(c) ==
  /\ At(c, "replaying")
  /\ replay = {}
  /\ MakeValid(Adm(c))
  /\ step' = "unlocking"
  /\ UNCHANGED <<rVars, aVars, jsVars, left, replay, todo, main>>

(* The deferred UnlockResource, one if there was a kind to lock.           *)
UnlockKinds(c) ==
  /\ At(c, "unlocking")
  /\ IF mux = c THEN R!UnlockResource(c) ELSE UNCHANGED rVars
  /\ step' = "returning"
  /\ UNCHANGED <<aVars, registry, valid, jsVars, left, replay, todo, main>>

AdmissionEventDone(c) ==
  /\ At(c, "returning")
  /\ A!HandlerDone(c)
  /\ step' = "none"
  /\ UNCHANGED <<rVars, registry, valid, jsVars, left, replay, todo, main>>

-----------------------------------------------------------------------------
(* resourceHandler, on the goroutine of the informer of r, under mux.      *)
ResourceEvent(r) ==
  /\ R!Handle(r)
  /\ todo' = {<<a, registry[a]>> : a \in Find(r, NamespaceOf[event[r].obj])}
  /\ UNCHANGED <<aVars, registry, valid, jsVars, ctrlVars, main>>

(* Created, Updated or Deleted of one code; its error is ignored.  Codes   *)
(* share nothing, so the order Find gives them is left out.  A code that   *)
(* was removed or replaced meanwhile is told too, but nobody will find it. *)
TellCode(r) ==
  /\ mux = r
  /\ \E code \in todo :
       LET a == code[1]  o == event[r].obj IN
       /\ todo' = todo \ {code}
       /\ \/ registry[a] # code[2] /\ UNCHANGED <<view, missed>>
          \/ /\ registry[a] = code[2]
             /\ view' = [view EXCEPT ![a][o] = event[r].new]
             /\ UNCHANGED missed
          \/ /\ "event" \in Failures
             /\ registry[a] = code[2]
             /\ missed' = missed \cup {<<a, o>>}
             /\ UNCHANGED view
  /\ UNCHANGED <<rVars, aVars, registry, valid, initialised, unresolved, ctrlVars,
                 main>>

(* Mutant of ResourceEventDone: the hooks run on goroutines of their own.  *)
ResourceEventDoneAsync(r) ==
  /\ R!HandlerDone(r)
  /\ UNCHANGED <<aVars, registry, valid, jsVars, ctrlVars, todo, main>>

ResourceEventDone(r) ==
  /\ todo = {}
  /\ R!HandlerDone(r)
  /\ UNCHANGED <<aVars, registry, valid, jsVars, ctrlVars, todo, main>>

-----------------------------------------------------------------------------
ReceiveResource(r) ==
  /\ R!Receive(r)
  /\ UNCHANGED <<aVars, registry, valid, jsVars, ctrlVars, todo, main>>

ReceiveAdmission(c) ==
  /\ A!Receive(c)
  /\ UNCHANGED <<rVars, registry, valid, jsVars, ctrlVars, todo, main>>

Kubernetes ==
  /\ \/ R!Environment /\ UNCHANGED aVars
     \/ A!Environment /\ UNCHANGED rVars
  /\ UNCHANGED <<registry, valid, jsVars, ctrlVars, todo, main>>

Load(c) ==
  \/ RemoveAdmission(c) \/ KindsResolved(c)
  \/ WatchKind(c) \/ KindSynced(c) \/ AllWatched(c) \/ LockKind(c)
  \/ UpsertAdmission(c) \/ InitCode(c) \/ CreatedForAll(c) \/ MakeAdmissionValid(c)
  \/ UnlockKinds(c) \/ AdmissionEventDone(c)

Tell(r) == TellCode(r) \/ ResourceEventDone(r)

Next ==
  \/ Kubernetes
  \/ LoadClusterCrd \/ LoadNamespaceCrd
  \/ \E c \in Crds : AdmissionEvent(c) \/ DiscoveryFails(c) \/ Load(c) \/ ReceiveAdmission(c)
  \/ \E r \in Resources : ResourceEvent(r) \/ Tell(r) \/ ReceiveResource(r)

Spec == Init /\ [][Next]_vars

(* Kubernetes answers a list in the end; goroutines run; a goroutine that  *)
(* waits for a mutex gets it in the end (as in Watcher).                   *)
Lists ==
  \/ \E r \in Resources :
       R!List(r) /\ UNCHANGED <<items, mux, adding, event, stale, aVars>>
  \/ \E c \in Crds :
       A!List(c) /\ UNCHANGED <<aItems, aMux, aAdding, aEvent, aStale, rVars>>
ListingFairness ==
  WF_vars(Lists /\ UNCHANGED <<registry, valid, jsVars, ctrlVars, todo, main>>)

GoFairness ==
  /\ SF_vars(LoadClusterCrd) /\ SF_vars(LoadNamespaceCrd)
  /\ \A c \in Crds : /\ WF_vars(ReceiveAdmission(c))
                     /\ SF_vars(AdmissionEvent(c))
                     /\ SF_vars(Load(c))
  /\ \A r \in Resources : /\ WF_vars(ReceiveResource(r))
                          /\ SF_vars(ResourceEvent(r))
                          /\ WF_vars(Tell(r))

FairSpec == Spec /\ ListingFairness /\ GoFairness

-----------------------------------------------------------------------------
(* Types of the variables; admissionHandler and resourceHandler are at     *)
(* work only under the mutex of their watcher.                             *)
TypeOK ==
  /\ R!TypeOK
  /\ A!TypeOK
  /\ registry \in [Admissions -> 0..MaxAdmVersion]
  /\ valid \subseteq Admissions
  /\ initialised \subseteq Admissions
  /\ view \in [Admissions -> [Objects -> 0..MaxVersion]]
  /\ missed \subseteq Admissions \X Objects
  /\ unresolved \subseteq Admissions
  /\ step \in Steps
  /\ left \in Seq(Resources)
  /\ replay \subseteq Objects
  /\ todo \subseteq Admissions \X (1..MaxAdmVersion)
  /\ main \in {"cluster", "namespace", "serving"}
  /\ step # "none" <=> aMux \in Crds
  /\ todo # {} => mux \in Resources

(* The objects the registered code of a is about.                          *)
Matches(a, o) ==
  /\ registry[a] # 0
  /\ ResourceOf[o] \in Kinds(a, registry[a])
  /\ AdmNamespaceOf[a] \in {NamespaceOf[o], NoNamespace}

BeingTold(a, o) ==
  <<a, registry[a]>> \in todo /\ mux \in Resources /\ event[mux].obj = o

(* A code that a request or an event can find has been initialised, and    *)
(* has been told exactly what the cache holds: what was there when it was  *)
(* loaded (CreatedForAll) and every later event meet without a gap or an   *)
(* overlap, "synced by design as resources are locked" (src/main.go:252).  *)
(* Only an event under way, or one whose hook failed, makes a difference.  *)
ViewMatchesCache ==
  \A a \in valid :
    /\ a \in initialised
    /\ \A o \in Objects :
         Matches(a, o) /\ <<a, o>> \notin missed /\ ~BeingTold(a, o)
           => view[a][o] = items[o]

(* Seen from outside the handlers, loads and events are atomic, and only   *)
(* superseded codes are dropped: the controller implements Enforcement.  An *)
(* event under way counts as told, and so does one whose hook failed.      *)
Enforced(a) == IF a \in valid THEN registry[a] ELSE 0

Known(a, o) ==
  IF ~(a \in valid /\ Matches(a, o)) THEN 0
  ELSE IF BeingTold(a, o) \/ <<a, o>> \in missed THEN items[o] ELSE view[a][o]

E == INSTANCE Enforcement WITH
  Versions <- 0..MaxVersion, AdmVersions <- 0..MaxAdmVersion,
  About <- [a \in Admissions |-> [v \in 1..MaxAdmVersion |->
              {o \in Objects : /\ ResourceOf[o] \in Kinds(a, v)
                               /\ AdmNamespaceOf[a] \in {NamespaceOf[o], NoNamespace}}]],
  cache <- items, wanted <- aItems,
  enforced <- [a \in Admissions |-> Enforced(a)],
  known <- [a \in Admissions |-> [o \in Objects |-> Known(a, o)]]

EnforcementSpec == E!Spec

(* What JsContext takes for granted (MayCall): the event hooks of one code *)
(* never overlap, although three goroutines call them, and none is called  *)
(* before jsa_init has succeeded.                                          *)
HooksInTurn ==
  /\ step \in {"initialising", "replaying"} =>
       <<Adm(aMux), registry[Adm(aMux)]>> \notin todo
  /\ step = "replaying" => Adm(aMux) \in initialised
  /\ \A code \in todo : registry[code[1]] = code[2] => code[1] \in initialised

(* src/README.md:210-231: a code is told "created" of an object that is    *)
(* not alive for it, and "updated" and "deleted" of one that is, updated   *)
(* with the very version it was last told of as old.  (A re-created object *)
(* whose deletion the watcher refused is the exception, see Watcher.)      *)
EventsFormHistory ==
  [][\A a \in Admissions, o \in Objects :
       BeingTold(a, o) /\ todo' # todo /\ <<a, o>> \notin missed /\ MaxRelists = 0
         => view[a][o] = event[mux].old]_vars

(* Whatever fails while an update is loaded, the code it replaces is never *)
(* found again: outside its handler an admission has the code of the       *)
(* version the cache holds, or none.  (Where discovery fails, the handler   *)
(* returns before it looks at the registry.)                               *)
NoSupersededCode ==
  \A a \in Admissions \ unresolved :
    registry[a] \in {0, aItems[a]} \/ (aMux \in Crds /\ Adm(aMux) = a)

(* No watch is broken and no notification is on its way or in hand.        *)
Settled ==
  /\ \A r \in Resources : informer[r] \in {"none", "synced"} /\ R!Idle(r)
  /\ \A c \in Crds : aInformer[c] = "synced" /\ A!Idle(c)

(* What the controller has come to whenever it is settled, whatever it did *)
(* before and whatever failed: no admission is enforced in a version the   *)
(* cluster does not have, those that are enforced know the cluster's       *)
(* objects, and where no load fails all that exist are enforced.  Refused  *)
(* deletions, events discovery cut short and hooks that failed excepted.   *)
SettledConverges ==
  Settled =>
    \A a \in Admissions \ (aStale \cup unresolved) :
      /\ registry[a] \in {0, aCluster[a]}
      /\ a \in valid => \A o \in Objects \ stale :
           Matches(a, o) /\ <<a, o>> \notin missed => view[a][o] = cluster[o]
      /\ Failures \cap {"compile", "init", "created"} = {} =>
           registry[a] = aCluster[a] /\ (registry[a] # 0 => a \in valid)

(* Once nobody changes anything any more, the admissions that exist are    *)
(* those that are enforced, with their objects up to date.                 *)
AdmissionsConverge ==
  <>[](\A a \in Admissions \ aStale :
         /\ registry[a] = aCluster[a]
         /\ registry[a] # 0 =>
              /\ a \in valid
              /\ \A o \in Objects \ stale : Matches(a, o) => view[a][o] = cluster[o])

=============================================================================
