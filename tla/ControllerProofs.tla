-------------------------- MODULE ControllerProofs ---------------------------
(***************************************************************************)
(* What holds of the controller whatever admissions, resources and objects *)
(* there are.  Its two watchers are instances of Watcher, so everything    *)
(* WatcherProofs proves of a step of a Watcher is used here of both.       *)
(***************************************************************************)
EXTENDS Controller, TLAPS

RP == INSTANCE WatcherProofs WITH Threads <- Crds

AP == INSTANCE WatcherProofs WITH
  Resources <- Crds, Objects <- Admissions, ResourceOf <- CrdOf,
  NamespaceOf <- AdmNamespaceOf, MaxVersion <- MaxAdmVersion,
  MaxRelists <- MaxAdmRelists, Unlistable <- {}, Threads <- {Main},
  cluster <- aCluster, written <- aWritten, informer <- aInformer,
  indexer <- aIndexer, queue <- aQueue, relists <- aRelists, items <- aItems,
  mux <- aMux, adding <- aAdding, event <- aEvent, stale <- aStale

-----------------------------------------------------------------------------
(* What Watcher assumes of its constants holds of both of its instances,   *)
(* and what WatcherProofs calls a step is a step of R, or of A.            *)
LEMMA WatchersAssumed ==
  /\ RP!InformersAssumption /\ RP!WatcherAssumption
  /\ AP!InformersAssumption /\ AP!WatcherAssumption
<1>1. RP!InformersAssumption
  BY ControllerAssumption DEF RP!InformersAssumption, RP!IsFiniteSet, IsFiniteSet
<1>2. RP!WatcherAssumption
  BY ControllerAssumption
     DEF RP!WatcherAssumption, RP!Notifications, RP!Versions, R!Notifications, R!Versions
<1>3. AP!InformersAssumption
  BY ControllerAssumption
     DEF AP!InformersAssumption, AP!IsFiniteSet, IsFiniteSet, CrdOf, Crds
<1>4. AP!WatcherAssumption
  BY ControllerAssumption
     DEF AP!WatcherAssumption, AP!Notifications, AP!Versions, A!Notifications, A!Versions
<1>5. QED
  BY <1>1, <1>2, <1>3, <1>4

(* The types WatcherProofs speaks of are those of R, and of A.             *)
LEMMA SameTypes == (RP!TypeOK <=> R!TypeOK) /\ (AP!TypeOK <=> A!TypeOK)
BY DEF RP!TypeOK, RP!Versions, RP!Notifications, R!TypeOK, R!Versions, R!Notifications,
       AP!TypeOK, AP!Versions, AP!Notifications, A!TypeOK, A!Versions, A!Notifications

(* The steps WatcherProofs speaks of are those of R, and of A.             *)
LEMMA SameSteps == (RP!Next <=> R!Next) /\ (AP!Next <=> A!Next)
<1>1. RP!Next <=> R!Next
  BY DEF R!Next, R!Environment, R!Users, R!Write, R!Delete, R!Observe,
       R!Notification, R!LoseWatch, R!List, R!Replacements, R!Versions,
       R!Caller, R!AddStart, R!AddExisting, R!AddDone, R!LockResource,
       R!UnlockResource, R!HasSynced, R!Receive, R!Skipped, R!Handle,
       R!AddFunc, R!UpdateFunc, R!DeleteFunc, R!CacheAdd, R!CacheRemove,
       R!HandlerLock, R!HandlerDone, R!informerVars, R!watcherVars,
       R!SetToSeqs, R!Cardinality, R!Notifications, RP!Next, RP!Environment,
       RP!Users, RP!Write, RP!Delete, RP!Observe, RP!Notification,
       RP!LoseWatch, RP!List, RP!Replacements, RP!Versions, RP!Caller,
       RP!AddStart, RP!AddExisting, RP!AddDone, RP!LockResource,
       RP!UnlockResource, RP!HasSynced, RP!Receive, RP!Skipped, RP!Handle,
       RP!AddFunc, RP!UpdateFunc, RP!DeleteFunc, RP!CacheAdd, RP!CacheRemove,
       RP!HandlerLock, RP!HandlerDone, RP!informerVars, RP!watcherVars,
       RP!SetToSeqs, RP!Cardinality, RP!Notifications
<1>2. AP!Next <=> A!Next
  BY DEF A!Next, A!Environment, A!Users, A!Write, A!Delete, A!Observe,
       A!Notification, A!LoseWatch, A!List, A!Replacements, A!Versions,
       A!Caller, A!AddStart, A!AddExisting, A!AddDone, A!LockResource,
       A!UnlockResource, A!HasSynced, A!Receive, A!Skipped, A!Handle,
       A!AddFunc, A!UpdateFunc, A!DeleteFunc, A!CacheAdd, A!CacheRemove,
       A!HandlerLock, A!HandlerDone, A!informerVars, A!watcherVars,
       A!SetToSeqs, A!Cardinality, A!Notifications, AP!Next, AP!Environment,
       AP!Users, AP!Write, AP!Delete, AP!Observe, AP!Notification,
       AP!LoseWatch, AP!List, AP!Replacements, AP!Versions, AP!Caller,
       AP!AddStart, AP!AddExisting, AP!AddDone, AP!LockResource,
       AP!UnlockResource, AP!HasSynced, AP!Receive, AP!Skipped, AP!Handle,
       AP!AddFunc, AP!UpdateFunc, AP!DeleteFunc, AP!CacheAdd, AP!CacheRemove,
       AP!HandlerLock, AP!HandlerDone, AP!informerVars, AP!watcherVars,
       AP!SetToSeqs, AP!Cardinality, AP!Notifications
<1>3. QED
  BY <1>1, <1>2

(* So each watcher's own invariant is kept by whatever it does here.       *)
LEMMA WatchersKeep ==
  /\ RP!CacheInv /\ (R!Next \/ UNCHANGED rVars) => RP!CacheInv'
  /\ AP!CacheInv /\ (A!Next \/ UNCHANGED aVars) => AP!CacheInv'
<1>1. ASSUME RP!CacheInv, R!Next \/ UNCHANGED rVars PROVE RP!CacheInv'
  <2>1. [RP!Next]_(RP!watcherVars)
    BY <1>1, SameSteps DEF rVars, RP!watcherVars, RP!informerVars
  <2>2. QED
    BY <1>1, <2>1, WatchersAssumed, RP!CacheInvStep
<1>2. ASSUME AP!CacheInv, A!Next \/ UNCHANGED aVars PROVE AP!CacheInv'
  <2>1. [AP!Next]_(AP!watcherVars)
    BY <1>2, SameSteps DEF aVars, AP!watcherVars, AP!informerVars
  <2>2. QED
    BY <1>2, <2>1, WatchersAssumed, AP!CacheInvStep
<1>3. QED
  BY <1>1, <1>2

-----------------------------------------------------------------------------
(* A handler at work on an object or an admission: what it has in hand.    *)
LEMMA ResourceInHand ==
  ASSUME RP!CacheInv, NEW r \in Resources, event[r] # NoEvent
  PROVE  /\ event[r].obj \in Objects /\ ResourceOf[event[r].obj] = r
         /\ event[r].new \in 0..MaxVersion
         /\ mux = r => items[event[r].obj] = event[r].new
BY DEF RP!CacheInv, RP!TypeOK, RP!HandlersBusy, RP!NotificationsFit, RP!Fits,
       RP!Notifications, RP!Versions

(* The same of admissionHandler: a delete brings no new version.           *)
LEMMA AdmissionInHand ==
  ASSUME AP!CacheInv, NEW c \in Crds, aEvent[c] # NoEvent
  PROVE  /\ Adm(c) \in Admissions
         /\ Version(c) \in 1..MaxAdmVersion /\ SpecKinds(c) \in Seq(Resources)
         /\ aEvent[c].new = IF Deleted(c) THEN 0 ELSE Version(c)
         /\ aMux = c => aItems[Adm(c)] = aEvent[c].new
<1>1. /\ aEvent[c].obj \in Admissions
      /\ aEvent[c].type \in {"add", "update", "delete"}
      /\ aEvent[c].old \in 0..MaxAdmVersion /\ aEvent[c].new \in 0..MaxAdmVersion
      /\ aEvent[c].type = "delete" => aEvent[c].old # 0 /\ aEvent[c].new = 0
      /\ aEvent[c].type # "delete" => aEvent[c].new # 0
      /\ aMux = c => aItems[aEvent[c].obj] = aEvent[c].new
  BY DEF AP!CacheInv, AP!TypeOK, AP!HandlersBusy, AP!NotificationsFit, AP!Fits,
         AP!Notifications, AP!Versions
<1>2. Version(c) \in 1..MaxAdmVersion
  BY <1>1, ControllerAssumption DEF Version, Deleted
<1>3. SpecKinds(c) \in Seq(Resources)
  BY <1>1, <1>2, ControllerAssumption DEF SpecKinds, Adm
<1>4. QED
  BY <1>1, <1>2, <1>3 DEF Adm, Version, Deleted

-----------------------------------------------------------------------------
(* Every step of the controller is a step of R or leaves R alone, and the  *)
(* same of A.                                                              *)
LEMMA StepsOfWatchers ==
  ASSUME left \in Seq(Resources), [Next]_vars
  PROVE  /\ R!Next \/ UNCHANGED rVars
         /\ A!Next \/ UNCHANGED aVars
<1> USE DEF R!Next, R!Caller, A!Next, A!Caller
<1>1. CASE Kubernetes
  BY <1>1 DEF Kubernetes
<1>2. CASE LoadClusterCrd \/ LoadNamespaceCrd
  BY <1>2 DEF LoadClusterCrd, LoadNamespaceCrd, AddCrd, CrdAdded, Crds
<1>3. ASSUME NEW c \in Crds, AdmissionEvent(c) \/ AdmissionEventDone(c) \/ ReceiveAdmission(c)
      PROVE  (A!Next \/ UNCHANGED aVars) /\ UNCHANGED rVars
  BY <1>3 DEF AdmissionEvent, AdmissionEventDone, ReceiveAdmission
<1>4. ASSUME NEW c \in Crds, WatchKind(c)
      PROVE  (R!Next \/ UNCHANGED rVars) /\ UNCHANGED aVars
  <2>1. Head(left) \in Resources
    BY <1>4 DEF WatchKind
  <2>2. R!AddStart(c, Head(left)) \/ R!AddExisting(c, Head(left))
    BY <1>4 DEF WatchKind
  <2>3. QED
    BY <1>4, <2>1, <2>2 DEF WatchKind
<1>5. ASSUME NEW c \in Crds, KindSynced(c) \/ LockKind(c) \/ UnlockKinds(c)
      PROVE  (R!Next \/ UNCHANGED rVars) /\ UNCHANGED aVars
  BY <1>5 DEF KindSynced, LockKind, UnlockKinds
<1>6. ASSUME NEW c \in Crds,
             \/ DiscoveryFails(c) \/ RemoveAdmission(c) \/ KindsResolved(c) \/ AllWatched(c)
             \/ UpsertAdmission(c) \/ InitCode(c) \/ CreatedForAll(c) \/ MakeAdmissionValid(c)
      PROVE  UNCHANGED rVars /\ UNCHANGED aVars
  BY <1>6 DEF DiscoveryFails, RemoveAdmission, KindsResolved, AllWatched,
              UpsertAdmission, InitCode, CreatedForAll, MakeAdmissionValid
<1>7. ASSUME NEW r \in Resources,
             ResourceEvent(r) \/ TellCode(r) \/ ResourceEventDone(r) \/ ReceiveResource(r)
      PROVE  (R!Next \/ UNCHANGED rVars) /\ UNCHANGED aVars
  BY <1>7 DEF ResourceEvent, TellCode, ResourceEventDone, ReceiveResource
<1>8. CASE UNCHANGED vars
  BY <1>8 DEF vars
<1>9. QED
  BY <1>1, <1>2, <1>3, <1>4, <1>5, <1>6, <1>7, <1>8 DEF Next, Load, Tell

(* R's handler takes mux and stores what it has in hand; so does A's.      *)
LEMMA ResourceHandled ==
  ASSUME RP!CacheInv, NEW r \in Resources, R!Handle(r)
  PROVE  /\ event[r] # NoEvent /\ mux = Nobody /\ mux' = r
         /\ items' = [items EXCEPT ![event[r].obj] = event[r].new]
         /\ UNCHANGED <<event, adding>>
<1>1. /\ event[r] # NoEvent /\ mux = Nobody /\ mux' = r /\ UNCHANGED <<event, adding>>
  BY DEF R!Handle, R!AddFunc, R!UpdateFunc, R!DeleteFunc, R!HandlerLock
<1>2. event[r].type = "delete" => event[r].new = 0
  BY <1>1 DEF RP!CacheInv, RP!NotificationsFit, RP!Fits
<1>3. QED
  BY <1>1, <1>2
     DEF R!Handle, R!AddFunc, R!UpdateFunc, R!DeleteFunc, R!HandlerLock, R!CacheAdd, R!CacheRemove

(* The same of A.                                                          *)
LEMMA AdmissionHandled ==
  ASSUME AP!CacheInv, NEW c \in Crds, A!Handle(c)
  PROVE  /\ aEvent[c] # NoEvent /\ aMux = Nobody /\ aMux' = c
         /\ aItems' = [aItems EXCEPT ![Adm(c)] = aEvent[c].new]
         /\ UNCHANGED aEvent
<1>1. /\ aEvent[c] # NoEvent /\ aMux = Nobody /\ aMux' = c /\ UNCHANGED aEvent
  BY DEF A!Handle, A!AddFunc, A!UpdateFunc, A!DeleteFunc, A!HandlerLock
<1>2. aEvent[c].type = "delete" => aEvent[c].new = 0
  BY <1>1 DEF AP!CacheInv, AP!NotificationsFit, AP!Fits
<1>3. QED
  BY <1>1, <1>2
     DEF A!Handle, A!AddFunc, A!UpdateFunc, A!DeleteFunc, A!HandlerLock, A!CacheAdd, A!CacheRemove,
         Adm

(* What the steps that neither handler of the controller takes part in     *)
(* leave alone: all the controller's own state, both caches, the mutexes   *)
(* where handlers hold them, and what these have in hand.                  *)
Quiet ==
  /\ UNCHANGED <<registry, valid, jsVars, ctrlVars, todo, items, aItems, mux>>
  /\ mux \in Resources => event'[mux] = event[mux]
  /\ \/ UNCHANGED aMux /\ (aMux \in Crds => aEvent'[aMux] = aEvent[aMux])
     \/ aMux \notin Crds /\ aMux' \notin Crds

Bystanders ==
  \/ Kubernetes \/ LoadClusterCrd \/ LoadNamespaceCrd
  \/ \E c \in Crds : ReceiveAdmission(c)
  \/ \E r \in Resources : ReceiveResource(r)

(* A notification is received only where no handler is at work.            *)
LEMMA BystandersQuiet ==
  ASSUME RP!CacheInv, AP!CacheInv, Bystanders \/ UNCHANGED vars PROVE Quiet
<1>1. CASE Kubernetes
  BY <1>1 DEF Kubernetes, R!Environment, A!Environment, rVars, aVars, Quiet
<1>2. CASE LoadClusterCrd \/ LoadNamespaceCrd
  <2>1. (aMux = Nobody /\ aMux' = Main) \/ (aMux = Main /\ aMux' = Nobody)
    BY <1>2, ControllerAssumption
       DEF LoadClusterCrd, LoadNamespaceCrd, AddCrd, CrdAdded, A!AddStart, A!AddDone,
           AP!CacheInv, AP!TypeOK, Crds
  <2>2. UNCHANGED <<rVars, registry, valid, jsVars, ctrlVars, todo, aItems>>
    BY <1>2 DEF LoadClusterCrd, LoadNamespaceCrd, AddCrd, CrdAdded, A!AddStart, A!AddDone
  <2>3. Main \notin Crds /\ Nobody \notin Crds
    BY ControllerAssumption
  <2>4. QED
    BY <2>1, <2>2, <2>3 DEF Quiet, rVars
<1>3. ASSUME NEW c \in Crds, ReceiveAdmission(c) PROVE Quiet
  <2>1. /\ aEvent[c] = NoEvent /\ UNCHANGED <<aMux, aItems>>
        /\ \A d \in Crds : d # c => aEvent'[d] = aEvent[d]
    BY <1>3 DEF ReceiveAdmission, A!Receive, AP!CacheInv, AP!TypeOK
  <2>2. aMux # c
    BY <2>1 DEF AP!CacheInv, AP!HandlersBusy
  <2>3. QED
    BY <1>3, <2>1, <2>2 DEF ReceiveAdmission, Quiet, rVars
<1>4. ASSUME NEW r \in Resources, ReceiveResource(r) PROVE Quiet
  <2>1. /\ event[r] = NoEvent /\ UNCHANGED <<mux, items>>
        /\ \A s \in Resources : s # r => event'[s] = event[s]
    BY <1>4 DEF ReceiveResource, R!Receive, RP!CacheInv, RP!TypeOK
  <2>2. mux # r
    BY <2>1 DEF RP!CacheInv, RP!HandlersBusy
  <2>3. QED
    BY <1>4, <2>1, <2>2 DEF ReceiveResource, Quiet, aVars
<1>5. CASE UNCHANGED vars
  BY <1>5 DEF vars, rVars, aVars, Quiet
<1>6. QED
  BY <1>1, <1>2, <1>3, <1>4, <1>5 DEF Bystanders

-----------------------------------------------------------------------------
(* Types, and the watchers' own invariants.                                *)
Watched == RP!CacheInv /\ AP!CacheInv

OwnTypes ==
  /\ registry \in [Admissions -> 0..MaxAdmVersion]
  /\ valid \subseteq Admissions
  /\ initialised \subseteq Admissions
  /\ view \in [Admissions -> [Objects -> 0..MaxVersion]]
  /\ missed \subseteq Admissions \X Objects
  /\ unresolved \subseteq Admissions
  /\ step \in Steps
  /\ left \in Seq(Resources)
  /\ replay \subseteq Objects
  /\ todo \subseteq Admissions \X (1..MaxAdmVersion)
  /\ main \in {"cluster", "namespace", "serving"}
  /\ step # "none" <=> aMux \in Crds
  /\ todo # {} => mux \in Resources
  /\ step = "adding" => left # <<>>  \* so that KindSynced has a kind to cross off

(* The watchers' invariants include the types of their variables.          *)
LEMMA WhatTypesAre == Watched /\ OwnTypes => TypeOK
<1>1. Watched => R!TypeOK /\ A!TypeOK
  BY SameTypes DEF Watched, RP!CacheInv, AP!CacheInv
<1>2. QED
  BY <1>1 DEF TypeOK, OwnTypes

(* What ControllerAssumption says of the mutexes' holders, in short.       *)
LEMMA ApartFacts ==
  /\ Nobody \notin Resources /\ Nobody \notin Crds /\ Main \notin Crds /\ Main # Nobody
  /\ \A c \in Crds : c \notin Resources
BY ControllerAssumption

(* Telling a code of an object keeps the views views.                      *)
LEMMA ViewsAreTyped ==
  ASSUME view \in [Admissions -> [Objects -> 0..MaxVersion]],
         NEW a, NEW o, NEW v \in 0..MaxVersion
  PROVE  [view EXCEPT ![a][o] = v] \in [Admissions -> [Objects -> 0..MaxVersion]]
<1>1. ASSUME a \in Admissions PROVE [view[a] EXCEPT ![o] = v] \in [Objects -> 0..MaxVersion]
  <2>1. view[a] \in [Objects -> 0..MaxVersion]
    BY <1>1
  <2>2. QED
    BY <2>1
<1>2. QED
  BY <1>1

(* Both watchers start in their initial states.                            *)
LEMMA WatchedInit == Init => Watched
<1> SUFFICES ASSUME Init PROVE Watched
  OBVIOUS
<1>1. RP!WatcherInit
  BY DEF Init, R!WatcherInit, R!InformersInit, R!CacheInit,
         RP!WatcherInit, RP!InformersInit, RP!CacheInit
<1>2. AP!WatcherInit
  BY DEF Init, A!WatcherInit, A!InformersInit, A!CacheInit,
         AP!WatcherInit, AP!InformersInit, AP!CacheInit
<1>3. QED
  BY <1>1, <1>2, WatchersAssumed, RP!CacheInvInit, AP!CacheInvInit DEF Watched

(* Every step is a step of each watcher, or leaves it alone.               *)
LEMMA WatchedStep == ASSUME Watched, OwnTypes, [Next]_vars PROVE Watched'
BY StepsOfWatchers, WatchersKeep DEF Watched, OwnTypes

(* At the start nothing is loaded and nobody is at work.                   *)
LEMMA OwnTypesInit == Init => OwnTypes
<1> SUFFICES ASSUME Init PROVE OwnTypes
  OBVIOUS
<1>1. aMux = Nobody /\ Nobody \notin Crds
  BY ApartFacts DEF Init, A!WatcherInit
<1>2. 0 \in 0..MaxVersion /\ 0 \in 0..MaxAdmVersion
  BY ControllerAssumption
<1>3. QED
  BY <1>1, <1>2 DEF Init, OwnTypes, AdmissionsInit, Steps

(* One step for each action of a handler of the controller.                *)
LEMMA OwnTypesStep == ASSUME Watched, OwnTypes, [Next]_vars PROVE OwnTypes'
<1> USE DEF Watched, OwnTypes, Steps
<1>1. CASE Bystanders \/ UNCHANGED vars
  <2>1. Quiet
    BY <1>1, BystandersQuiet
  <2>2. main' \in {"cluster", "namespace", "serving"}
    BY <1>1 DEF Bystanders, Kubernetes, LoadClusterCrd, LoadNamespaceCrd, AddCrd, CrdAdded,
                ReceiveAdmission, ReceiveResource, vars
  <2>3. QED
    BY <2>1, <2>2 DEF Quiet, jsVars, ctrlVars
<1>2. ASSUME NEW c \in Crds, AdmissionEvent(c) PROVE OwnTypes'
  BY <1>2, AdmissionHandled DEF AdmissionEvent, jsVars, rVars
<1>3. ASSUME NEW c \in Crds, DiscoveryFails(c) PROVE OwnTypes'
  <2>1. Adm(c) \in Admissions
    BY <1>3, AdmissionInHand DEF DiscoveryFails, At, AP!CacheInv, AP!HandlersBusy
  <2>2. QED
    BY <1>3, <2>1 DEF DiscoveryFails, At, rVars, aVars
<1>4. ASSUME NEW c \in Crds, RemoveAdmission(c) PROVE OwnTypes'
  <2>1. 0 \in 0..MaxAdmVersion
    BY ControllerAssumption
  <2>2. QED
    BY <1>4, <2>1 DEF RemoveAdmission, Remove, At, rVars, aVars
<1>5. ASSUME NEW c \in Crds, KindsResolved(c) PROVE OwnTypes'
  <2>1. SpecKinds(c) \in Seq(Resources)
    BY <1>5, AdmissionInHand DEF KindsResolved, At, AP!CacheInv, AP!HandlersBusy
  <2>2. QED
    BY <1>5, <2>1 DEF KindsResolved, At, rVars, aVars
<1>6. ASSUME NEW c \in Crds, WatchKind(c) PROVE OwnTypes'
  <2>1. Tail(left) \in Seq(Resources)
    BY <1>6 DEF WatchKind
  <2>2. mux' = mux \/ mux = Nobody
    BY <1>6 DEF WatchKind, R!AddStart, R!AddExisting, R!watcherVars
  <2>3. todo' # {} => mux' \in Resources
    BY <1>6, <2>2, ApartFacts DEF WatchKind
  <2>4. QED
    BY <1>6, <2>1, <2>3 DEF WatchKind, At, jsVars, aVars
<1>7. ASSUME NEW c \in Crds, KindSynced(c) PROVE OwnTypes'
  <2>1. left # <<>> /\ Tail(left) \in Seq(Resources)
    BY <1>7 DEF KindSynced, At
  <2>2. \E t \in Crds : adding[t] # NoResource /\ mux = t
    BY <1>7 DEF KindSynced, R!AddDone, RP!CacheInv, RP!TypeOK
  <2>3. todo = {}
    BY <2>2, ApartFacts
  <2>4. QED
    BY <1>7, <2>1, <2>3 DEF KindSynced, At, jsVars, aVars
<1>8. ASSUME NEW c \in Crds, AllWatched(c) PROVE OwnTypes'
  <2>1. SpecKinds(c) \in Seq(Resources)
    BY <1>8, AdmissionInHand DEF AllWatched, At, AP!CacheInv, AP!HandlersBusy
  <2>2. QED
    BY <1>8, <2>1 DEF AllWatched, At, jsVars, rVars, aVars
<1>9. ASSUME NEW c \in Crds, LockKind(c) PROVE OwnTypes'
  <2>1. Tail(left) \in Seq(Resources)
    BY <1>9 DEF LockKind
  <2>2. todo = {}
    BY <1>9, ApartFacts DEF LockKind, R!LockResource
  <2>3. QED
    BY <1>9, <2>1, <2>2 DEF LockKind, At, jsVars, aVars
<1>10. ASSUME NEW c \in Crds, UpsertAdmission(c) PROVE OwnTypes'
  <2>1. Adm(c) \in Admissions /\ Version(c) \in 1..MaxAdmVersion
    BY <1>10, AdmissionInHand DEF UpsertAdmission, At, AP!CacheInv, AP!HandlersBusy
  <2>2. 0 \in 0..MaxAdmVersion /\ 0 \in 0..MaxVersion /\ Version(c) \in 0..MaxAdmVersion
    BY <2>1, ControllerAssumption
  <2>3. registry' \in [Admissions -> 0..MaxAdmVersion] /\ valid' \subseteq Admissions
    <3>1. PICK compiles \in BOOLEAN : Upsert(Adm(c), Version(c), compiles)
      BY <1>10 DEF UpsertAdmission
    <3>2. QED
      BY <2>1, <2>2, <3>1 DEF Upsert
  <2>4. view' \in [Admissions -> [Objects -> 0..MaxVersion]]
    <3>1. view' = [view EXCEPT ![Adm(c)] = [o \in Objects |-> 0]]
      BY <1>10 DEF UpsertAdmission
    <3>2. [o \in Objects |-> 0] \in [Objects -> 0..MaxVersion]
      BY <2>2
    <3>3. QED
      BY <3>1, <3>2
  <2>5. QED
    BY <1>10, <2>3, <2>4 DEF UpsertAdmission, At, rVars, aVars
<1>11. ASSUME NEW c \in Crds, InitCode(c) PROVE OwnTypes'
  <2>1. Adm(c) \in Admissions
    BY <1>11, AdmissionInHand DEF InitCode, At, AP!CacheInv, AP!HandlersBusy
  <2>2. replay' \subseteq Objects
    BY <1>11 DEF InitCode, R!GetResources, R!CacheFind
  <2>3. QED
    BY <1>11, <2>1, <2>2 DEF InitCode, At, rVars, aVars
<1>12. ASSUME NEW c \in Crds, CreatedForAll(c) PROVE OwnTypes'
  <2>1. items \in [Objects -> 0..MaxVersion]
    BY DEF RP!CacheInv, RP!TypeOK, RP!Versions
  <2>2. view' \in [Admissions -> [Objects -> 0..MaxVersion]] /\ replay' \subseteq Objects
    <3>1. CASE view' = view /\ replay' = {}
      BY <3>1
    <3>2. ASSUME NEW o \in replay,
                 view' = [view EXCEPT ![Adm(c)][o] = items[o]], replay' = replay \ {o}
          PROVE  view' \in [Admissions -> [Objects -> 0..MaxVersion]] /\ replay' \subseteq Objects
      <4>1. items[o] \in 0..MaxVersion
        BY <2>1
      <4>2. [view EXCEPT ![Adm(c)][o] = items[o]] \in [Admissions -> [Objects -> 0..MaxVersion]]
        BY <4>1, ViewsAreTyped
      <4>3. QED
        BY <3>2, <4>2
    <3>3. QED
      BY <1>12, <3>1, <3>2 DEF CreatedForAll
  <2>3. QED
    BY <1>12, <2>2 DEF CreatedForAll, At, rVars, aVars
<1>13. ASSUME NEW c \in Crds, MakeAdmissionValid(c) PROVE OwnTypes'
  <2>1. Adm(c) \in Admissions
    BY <1>13, AdmissionInHand DEF MakeAdmissionValid, At, AP!CacheInv, AP!HandlersBusy
  <2>2. QED
    BY <1>13, <2>1 DEF MakeAdmissionValid, MakeValid, At, jsVars, rVars, aVars
<1>14. ASSUME NEW c \in Crds, UnlockKinds(c) PROVE OwnTypes'
  <2>1. mux' = mux \/ (mux = c /\ mux' = Nobody)
    BY <1>14 DEF UnlockKinds, R!UnlockResource, rVars
  <2>2. todo' # {} => mux' \in Resources
    BY <1>14, <2>1, ApartFacts DEF UnlockKinds
  <2>3. QED
    BY <1>14, <2>2 DEF UnlockKinds, At, jsVars, aVars
<1>15. ASSUME NEW c \in Crds, AdmissionEventDone(c) PROVE OwnTypes'
  BY <1>15, ApartFacts DEF AdmissionEventDone, A!HandlerDone, At, jsVars, rVars
<1>16. ASSUME NEW r \in Resources, ResourceEvent(r) PROVE OwnTypes'
  <2>1. mux' = r
    BY <1>16, ResourceHandled DEF ResourceEvent
  <2>2. todo' \subseteq Admissions \X (1..MaxAdmVersion)
    BY <1>16 DEF ResourceEvent, Find
  <2>3. QED
    BY <1>16, <2>1, <2>2 DEF ResourceEvent, jsVars, ctrlVars, aVars
<1>17. ASSUME NEW r \in Resources, TellCode(r) PROVE OwnTypes'
  <2>1. PICK code \in todo :
          LET a == code[1]  o == event[r].obj IN
          /\ todo' = todo \ {code}
          /\ \/ UNCHANGED <<view, missed>>
             \/ view' = [view EXCEPT ![a][o] = event[r].new] /\ UNCHANGED missed
             \/ missed' = missed \cup {<<a, o>>} /\ UNCHANGED view
    BY <1>17 DEF TellCode
  <2>2. code[1] \in Admissions
    OBVIOUS
  <2>3. event[r].obj \in Objects /\ event[r].new \in 0..MaxVersion
    BY <1>17, ResourceInHand DEF TellCode, RP!CacheInv, RP!HandlersBusy
  <2>4. missed' \subseteq Admissions \X Objects
    BY <2>1, <2>2, <2>3
  <2>5. view' \in [Admissions -> [Objects -> 0..MaxVersion]]
    <3>1. [view EXCEPT ![code[1]][event[r].obj] = event[r].new]
            \in [Admissions -> [Objects -> 0..MaxVersion]]
      BY <2>3, ViewsAreTyped
    <3>2. QED
      BY <2>1, <3>1
  <2>6. QED
    BY <1>17, <2>1, <2>4, <2>5 DEF TellCode, ctrlVars, rVars, aVars
<1>18. ASSUME NEW r \in Resources, ResourceEventDone(r) PROVE OwnTypes'
  BY <1>18 DEF ResourceEventDone, R!HandlerDone, jsVars, ctrlVars, aVars
<1>19. QED
  BY <1>1, <1>2, <1>3, <1>4, <1>5, <1>6, <1>7, <1>8, <1>9, <1>10, <1>11, <1>12, <1>13,
     <1>14, <1>15, <1>16, <1>17, <1>18 DEF Bystanders, Next, Load, Tell

(* The variables keep their types; admissionHandler works only with the    *)
(* mutex of the admissions' watcher, resourceHandler with that of the      *)
(* resources'.                                                             *)
THEOREM Types == Spec => []TypeOK
<1>1. Init => Watched /\ OwnTypes
  BY WatchedInit, OwnTypesInit
<1>2. Watched /\ OwnTypes /\ [Next]_vars => (Watched /\ OwnTypes)'
  BY WatchedStep, OwnTypesStep
<1>3. QED
  BY <1>1, <1>2, WhatTypesAre, PTL DEF Spec

-----------------------------------------------------------------------------
(* While admissionHandler loads a code, the admission exists; from Upsert   *)
(* on it is that of the admission's version, not valid, and once there are *)
(* objects to report to it, initialised.                                   *)
LoadingFits ==
  aMux \in Crds =>
    /\ step \in {"watching", "adding", "locking", "initialising", "replaying"} => ~Deleted(aMux)
    /\ step \in {"initialising", "replaying"} =>
         registry[Adm(aMux)] = Version(aMux) /\ Adm(aMux) \notin valid
    /\ step = "replaying" => Adm(aMux) \in initialised

(* admissionHandler locks mux before it touches the registry, unless the   *)
(* admission is about no kind at all, and is the only thread that does.    *)
LockingFits ==
  /\ mux \in Crds => mux = aMux /\ step \in {"adding", "locking", "initialising", "replaying",
                                             "unlocking"}
  /\ step = "locking" => left = SpecKinds(aMux) \/ mux = aMux
  /\ step \in {"initialising", "replaying"} => SpecKinds(aMux) = <<>> \/ mux = aMux

(* A valid code is registered and initialised; a code that resourceHandler *)
(* has to tell is about some kind.                                         *)
CodesFit ==
  /\ \A a \in valid : a \in initialised /\ registry[a] # 0
  /\ \A code \in todo : KindsOf[code[1]][code[2]] # <<>>

LoadInv == LoadingFits /\ LockingFits /\ CodesFit /\ HooksInTurn

(* What NoSupersededCode says of the admission the handler has in hand,    *)
(* from Upsert on.                                                         *)
ReplacedFits ==
  step \in {"initialising", "replaying", "unlocking", "returning"} =>
    registry[Adm(aMux)] \in {0, aItems[Adm(aMux)]} \/ Adm(aMux) \in unresolved

(* The code being loaded knows nothing before it is initialised, then      *)
(* every object the cache has, but those still to be reported.             *)
LoadedViewFits ==
  /\ step = "initialising" => \A o \in Objects : view[Adm(aMux)][o] = 0
  /\ step = "replaying" =>
       \A o \in Objects \ replay :
         Matches(Adm(aMux), o) => view[Adm(aMux)][o] = items[o]

-----------------------------------------------------------------------------
(* What the handler of c has in hand while it is at work.                  *)
LEMMA AtWork ==
  ASSUME Watched, NEW c \in Crds, aMux = c
  PROVE  /\ Adm(c) \in Admissions
         /\ Version(c) \in 1..MaxAdmVersion
         /\ aItems[Adm(c)] = IF Deleted(c) THEN 0 ELSE Version(c)
         /\ SpecKinds(c) = KindsOf[Adm(c)][Version(c)]
<1>1. aEvent[c] # NoEvent
  BY DEF Watched, AP!CacheInv, AP!HandlersBusy
<1>2. QED
  BY <1>1, AdmissionInHand DEF Watched, SpecKinds

(* The steps of admissionHandler after which c is still at work with the   *)
(* same notification in hand.                                              *)
Works(c) ==
  \/ DiscoveryFails(c) \/ RemoveAdmission(c) \/ KindsResolved(c) \/ WatchKind(c)
  \/ KindSynced(c) \/ AllWatched(c) \/ LockKind(c) \/ UpsertAdmission(c) \/ InitCode(c)
  \/ CreatedForAll(c) \/ MakeAdmissionValid(c) \/ UnlockKinds(c)

(* Which keep aMux, the notification and the cache of admissions.          *)
LEMMA WorksOn == \A c \in Crds : Works(c) => aMux = c /\ UNCHANGED <<aMux, aEvent, aItems>>
BY DEF Works, DiscoveryFails, RemoveAdmission, KindsResolved, WatchKind, KindSynced,
       AllWatched, LockKind, UpsertAdmission, InitCode, CreatedForAll, MakeAdmissionValid,
       UnlockKinds, At, aVars

(* Every step of the controller is one of these.                           *)
LEMMA StepCases ==
  [Next]_vars =>
    \/ Bystanders \/ UNCHANGED vars
    \/ \E c \in Crds : AdmissionEvent(c) \/ Works(c) \/ AdmissionEventDone(c)
    \/ \E r \in Resources : ResourceEvent(r) \/ TellCode(r) \/ ResourceEventDone(r)
BY DEF Next, Load, Tell, Bystanders, Works

-----------------------------------------------------------------------------
(* Remove and Upsert make a code invalid; MakeAdmissionValid ends a load.  *)
LEMMA LoadingStep ==
  ASSUME Watched, OwnTypes, LoadingFits, [Next]_vars PROVE LoadingFits'
<1>1. CASE Bystanders \/ UNCHANGED vars
  <2>1. Quiet
    BY <1>1, BystandersQuiet DEF Watched
  <2>2. QED
    BY <2>1 DEF Quiet, LoadingFits, Adm, Version, Deleted, jsVars, ctrlVars
<1>2. ASSUME NEW c \in Crds, AdmissionEvent(c) PROVE LoadingFits'
  BY <1>2 DEF AdmissionEvent, LoadingFits
<1>3. ASSUME NEW c \in Crds, Works(c) PROVE LoadingFits'
  <2>1. /\ aMux = c /\ UNCHANGED <<aMux, aEvent>>
        /\ Adm(c)' = Adm(c) /\ Version(c)' = Version(c) /\ Deleted(c)' = Deleted(c)
    BY <1>3, WorksOn DEF Adm, Version, Deleted
  <2>2. Adm(c) \in Admissions
    BY <2>1, AtWork
  <2>3. LoadingFits' <=>
          /\ step' \in {"watching", "adding", "locking", "initialising", "replaying"} => ~Deleted(c)
          /\ step' \in {"initialising", "replaying"} =>
               registry'[Adm(c)] = Version(c) /\ Adm(c) \notin valid'
          /\ step' = "replaying" => Adm(c) \in initialised'
    BY <2>1 DEF LoadingFits
  <2>4. CASE DiscoveryFails(c) \/ RemoveAdmission(c) \/ MakeAdmissionValid(c) \/ UnlockKinds(c)
    BY <2>3, <2>4 DEF DiscoveryFails, RemoveAdmission, MakeAdmissionValid, UnlockKinds
  <2>5. CASE KindsResolved(c)
    BY <2>3, <2>5 DEF KindsResolved
  <2>6. CASE WatchKind(c) \/ KindSynced(c) \/ AllWatched(c) \/ LockKind(c)
    BY <2>1, <2>3, <2>6 DEF LoadingFits, WatchKind, KindSynced, AllWatched, LockKind, At
  <2>7. CASE UpsertAdmission(c)
    <3>1. PICK compiles \in BOOLEAN :
            /\ Upsert(Adm(c), Version(c), compiles)
            /\ step' = IF compiles THEN "initialising" ELSE "unlocking"
      BY <2>7 DEF UpsertAdmission
    <3>2. QED
      BY <2>1, <2>2, <2>3, <2>7, <3>1 DEF OwnTypes, LoadingFits, UpsertAdmission, Upsert, At
  <2>8. CASE InitCode(c)
    BY <2>1, <2>3, <2>8 DEF LoadingFits, InitCode, At
  <2>9. CASE CreatedForAll(c)
    BY <2>1, <2>3, <2>9 DEF LoadingFits, CreatedForAll, At
  <2>10. QED
    BY <1>3, <2>4, <2>5, <2>6, <2>7, <2>8, <2>9 DEF Works
<1>4. ASSUME NEW c \in Crds, AdmissionEventDone(c) PROVE LoadingFits'
  BY <1>4 DEF AdmissionEventDone, LoadingFits
<1>5. ASSUME NEW r \in Resources, ResourceEvent(r) \/ TellCode(r) \/ ResourceEventDone(r)
      PROVE  LoadingFits'
  <2>1. UNCHANGED <<aMux, aEvent, step, registry, valid, initialised>>
    BY <1>5 DEF ResourceEvent, TellCode, ResourceEventDone, aVars, jsVars, ctrlVars
  <2>2. QED
    BY <2>1 DEF LoadingFits, Adm, Version, Deleted
<1>6. QED
  BY <1>1, <1>2, <1>3, <1>4, <1>5, StepCases

(* A thread is inside Add, or has locked mux, only in these steps, and the *)
(* kinds of a code in hand do not change.                                  *)
LEMMA LockingStep ==
  ASSUME Watched, OwnTypes, LockingFits, [Next]_vars PROVE LockingFits'
<1>1. CASE Bystanders \/ UNCHANGED vars
  <2>1. Quiet
    BY <1>1, BystandersQuiet DEF Watched
  <2>2. aMux \notin Crds => step = "none" /\ mux \notin Crds
    BY DEF OwnTypes, LockingFits, Watched
  <2>3. QED
    BY <2>1, <2>2 DEF Quiet, LockingFits, SpecKinds, Adm, Version, Deleted, jsVars, ctrlVars, OwnTypes
<1>2. ASSUME NEW c \in Crds, AdmissionEvent(c) PROVE LockingFits'
  <2>1. aMux \notin Crds
    BY <1>2, AdmissionHandled, ApartFacts DEF AdmissionEvent, Watched
  <2>2. mux \notin Crds
    BY <2>1 DEF OwnTypes, LockingFits
  <2>3. QED
    BY <1>2, <2>2 DEF AdmissionEvent, LockingFits, rVars
<1>3. ASSUME NEW c \in Crds, Works(c) PROVE LockingFits'
  <2>1. /\ aMux = c /\ UNCHANGED <<aMux, aEvent>> /\ SpecKinds(c)' = SpecKinds(c)
    BY <1>3, WorksOn DEF SpecKinds, Adm, Version, Deleted
  <2>2. LockingFits' <=>
          /\ mux' \in Crds => mux' = c /\ step' \in {"adding", "locking", "initialising",
                                                     "replaying", "unlocking"}
          /\ step' = "locking" => left' = SpecKinds(c) \/ mux' = c
          /\ step' \in {"initialising", "replaying"} => SpecKinds(c) = <<>> \/ mux' = c
    BY <2>1 DEF LockingFits
  <2>3. CASE DiscoveryFails(c) \/ RemoveAdmission(c) \/ KindsResolved(c) \/ AllWatched(c)
    BY <2>1, <2>2, <2>3
       DEF DiscoveryFails, RemoveAdmission, KindsResolved, AllWatched, At, LockingFits, rVars
  <2>4. CASE WatchKind(c)
    BY <2>1, <2>2, <2>4 DEF WatchKind, At, LockingFits, R!AddStart, R!AddExisting, R!watcherVars
  <2>5. CASE KindSynced(c)
    BY <2>1, <2>2, <2>5, ApartFacts DEF KindSynced, At, LockingFits, R!AddDone
  <2>6. CASE LockKind(c)
    BY <2>1, <2>2, <2>6 DEF LockKind, At, LockingFits, R!LockResource
  <2>7. CASE UpsertAdmission(c) \/ InitCode(c) \/ CreatedForAll(c) \/ MakeAdmissionValid(c)
    BY <2>1, <2>2, <2>7
       DEF UpsertAdmission, InitCode, CreatedForAll, MakeAdmissionValid, At, LockingFits, rVars
  <2>8. CASE UnlockKinds(c)
    BY <2>1, <2>2, <2>8, ApartFacts
       DEF UnlockKinds, At, LockingFits, R!UnlockResource, rVars
  <2>9. QED
    BY <1>3, <2>3, <2>4, <2>5, <2>6, <2>7, <2>8 DEF Works
<1>4. ASSUME NEW c \in Crds, AdmissionEventDone(c) PROVE LockingFits'
  <2>1. mux \notin Crds
    BY <1>4 DEF AdmissionEventDone, At, LockingFits
  <2>2. QED
    BY <1>4, <2>1 DEF AdmissionEventDone, LockingFits, rVars
<1>5. ASSUME NEW r \in Resources, ResourceEvent(r) \/ TellCode(r) \/ ResourceEventDone(r)
      PROVE  LockingFits'
  <2>1. UNCHANGED <<aMux, aEvent, step, left>>
    BY <1>5 DEF ResourceEvent, TellCode, ResourceEventDone, aVars, ctrlVars
  <2>2. mux \notin Crds /\ mux' \notin Crds
    BY <1>5, ResourceHandled, ApartFacts
       DEF Watched, ResourceEvent, TellCode, ResourceEventDone, R!HandlerDone, rVars
  <2>3. QED
    BY <2>1, <2>2 DEF OwnTypes, LockingFits, SpecKinds, Adm, Version, Deleted
<1>6. QED
  BY <1>1, <1>2, <1>3, <1>4, <1>5, StepCases

-----------------------------------------------------------------------------
(* While a code is initialised or told of what exists, either it is about  *)
(* nothing or its loader excludes resourceHandler, which then has nothing  *)
(* to tell: no code in todo is the one being loaded.                       *)
LEMMA NotBeingTold ==
  /\ Watched /\ OwnTypes /\ LoadingFits /\ LockingFits /\ CodesFit
  /\ step \in {"initialising", "replaying"} \/ (step = "locking" /\ left = <<>>)
  => <<Adm(aMux), Version(aMux)>> \notin todo
<1> SUFFICES ASSUME Watched, OwnTypes, LoadingFits, LockingFits, CodesFit,
                    step \in {"initialising", "replaying"} \/ (step = "locking" /\ left = <<>>)
             PROVE  <<Adm(aMux), Version(aMux)>> \notin todo
  OBVIOUS
<1>1. aMux \in Crds
  BY DEF OwnTypes
<1>2. SpecKinds(aMux) = <<>> \/ mux = aMux
  BY DEF LockingFits
<1>3. CASE SpecKinds(aMux) = <<>>
  BY <1>1, <1>3, AtWork DEF CodesFit
<1>4. CASE mux = aMux
  BY <1>1, <1>4, ApartFacts DEF OwnTypes
<1>5. QED
  BY <1>2, <1>3, <1>4

(* resourceHandler is to tell valid codes that are about the resource.     *)
LEMMA FoundCodes ==
  ASSUME NEW r, NEW ns, NEW a \in Find(r, ns)
  PROVE  a \in valid /\ registry[a] # 0 /\ KindsOf[a][registry[a]] # <<>>
<1>1. a \in valid /\ registry[a] # 0 /\ r \in Range(KindsOf[a][registry[a]])
  BY DEF Find, Kinds
<1>2. KindsOf[a][registry[a]] # <<>>
  BY <1>1 DEF Range
<1>3. QED
  BY <1>1, <1>2

(* Only a code whose jsa_init has succeeded becomes valid, and only valid  *)
(* codes about the resource come into todo.                                *)
LEMMA CodesStep ==
  ASSUME Watched, OwnTypes, LoadingFits, CodesFit, [Next]_vars PROVE CodesFit'
<1>1. CASE Bystanders \/ UNCHANGED vars
  BY <1>1, BystandersQuiet DEF Watched, Quiet, CodesFit, jsVars
<1>2. ASSUME NEW c \in Crds, AdmissionEvent(c) \/ AdmissionEventDone(c) PROVE CodesFit'
  BY <1>2 DEF AdmissionEvent, AdmissionEventDone, CodesFit, jsVars
<1>3. ASSUME NEW c \in Crds, Works(c) PROVE CodesFit'
  <2>1. aMux = c /\ Adm(c) \in Admissions
    BY <1>3, WorksOn, AtWork
  <2>2. UNCHANGED todo
    BY <1>3 DEF Works, DiscoveryFails, RemoveAdmission, KindsResolved, WatchKind, KindSynced,
                AllWatched, LockKind, UpsertAdmission, InitCode, CreatedForAll,
                MakeAdmissionValid, UnlockKinds
  <2>3. ASSUME NEW a \in valid' PROVE a \in initialised' /\ registry'[a] # 0
    <3>1. CASE RemoveAdmission(c)
      BY <2>1, <2>3, <3>1 DEF RemoveAdmission, Remove, CodesFit, OwnTypes
    <3>2. CASE UpsertAdmission(c)
      <4>1. a \in valid /\ a # Adm(c) /\ registry'[a] = registry[a]
        BY <2>1, <2>3, <3>2 DEF UpsertAdmission, Upsert, OwnTypes
      <4>2. QED
        BY <3>2, <4>1 DEF UpsertAdmission, CodesFit
    <3>3. CASE MakeAdmissionValid(c)
      <4>1. /\ registry[Adm(c)] = Version(c) /\ Version(c) # 0 /\ Adm(c) \in initialised
        BY <2>1, <3>3, AtWork DEF MakeAdmissionValid, At, LoadingFits
      <4>2. QED
        BY <2>3, <3>3, <4>1 DEF MakeAdmissionValid, MakeValid, CodesFit, jsVars
    <3>4. CASE \/ DiscoveryFails(c) \/ KindsResolved(c) \/ WatchKind(c) \/ KindSynced(c)
               \/ AllWatched(c) \/ LockKind(c) \/ InitCode(c) \/ CreatedForAll(c)
               \/ UnlockKinds(c)
      BY <2>3, <3>4
         DEF DiscoveryFails, KindsResolved, WatchKind, KindSynced, AllWatched, LockKind,
             InitCode, CreatedForAll, UnlockKinds, CodesFit, jsVars
    <3>5. QED
      BY <1>3, <3>1, <3>2, <3>3, <3>4 DEF Works
  <2>4. QED
    BY <2>2, <2>3 DEF CodesFit
<1>4. ASSUME NEW r \in Resources, ResourceEvent(r) PROVE CodesFit'
  BY <1>4, FoundCodes DEF ResourceEvent, CodesFit, jsVars
<1>5. ASSUME NEW r \in Resources, TellCode(r) \/ ResourceEventDone(r) PROVE CodesFit'
  BY <1>5 DEF TellCode, ResourceEventDone, CodesFit, jsVars
<1>6. QED
  BY <1>1, <1>2, <1>3, <1>4, <1>5, StepCases

(* No step lets two goroutines call the hooks of one code, or calls one    *)
(* before jsa_init: a load locks mux or is about nothing, and todo is      *)
(* drawn from valid codes under mux.                                       *)
LEMMA HooksStep ==
  ASSUME Watched, OwnTypes, LoadInv, [Next]_vars PROVE HooksInTurn'
<1> USE DEF LoadInv
<1> DEFINE Told == \A code \in todo : registry[code[1]] = code[2] => code[1] \in initialised
<1>1. (LoadingFits /\ LockingFits /\ CodesFit /\ OwnTypes /\ Watched)'
  BY LoadingStep, LockingStep, CodesStep, OwnTypesStep, WatchedStep
<1>2. (step \in {"initialising", "replaying"} => <<Adm(aMux), Version(aMux)>> \notin todo)'
  BY <1>1, NotBeingTold, PTL
<1>3. (step \in {"initialising", "replaying"} => registry[Adm(aMux)] = Version(aMux))'
  BY <1>1 DEF OwnTypes, LoadingFits
<1>4. (step = "replaying" => Adm(aMux) \in initialised)'
  BY <1>1 DEF OwnTypes, LoadingFits
<1>5. Told'
  <2>1. CASE Bystanders \/ UNCHANGED vars
    BY <2>1, BystandersQuiet DEF Watched, Quiet, HooksInTurn, jsVars
  <2>2. ASSUME NEW c \in Crds, UpsertAdmission(c) PROVE Told'
    <3>1. aMux = c /\ Adm(c) \in Admissions /\ step = "locking" /\ left = <<>>
      BY <2>2, AtWork DEF UpsertAdmission, At
    <3>2. <<Adm(c), Version(c)>> \notin todo
      BY <3>1, NotBeingTold
    <3>3. ASSUME NEW code \in todo, registry'[code[1]] = code[2] PROVE code[1] \in initialised'
      <4>1. code \in Admissions \X (1..MaxAdmVersion) /\ code = <<code[1], code[2]>>
        BY DEF OwnTypes
      <4>2. CASE code[1] = Adm(c)
        <5>1. registry'[Adm(c)] \in {0, Version(c)}
          BY <2>2, <3>1 DEF UpsertAdmission, Upsert, OwnTypes
        <5>2. code[2] # 0
          BY <4>1, ControllerAssumption
        <5>3. QED
          BY <3>2, <3>3, <4>1, <4>2, <5>1, <5>2
      <4>3. CASE code[1] # Adm(c)
        <5>1. registry'[code[1]] = registry[code[1]]
          BY <2>2, <4>1, <4>3 DEF UpsertAdmission, Upsert, OwnTypes
        <5>2. initialised' = initialised \ {Adm(c)}
          BY <2>2 DEF UpsertAdmission
        <5>3. QED
          BY <3>3, <4>3, <5>1, <5>2 DEF HooksInTurn
      <4>4. QED
        BY <4>2, <4>3
    <3>4. QED
      BY <2>2, <3>3 DEF UpsertAdmission
  <2>3. ASSUME NEW c \in Crds, RemoveAdmission(c) PROVE Told'
    <3>1. Adm(c) \in Admissions
      BY <2>3, AtWork DEF RemoveAdmission, At
    <3>2. ASSUME NEW code \in todo, registry'[code[1]] = code[2] PROVE code[1] \in initialised
      <4>1. code[1] \in Admissions /\ code[2] # 0
        BY ControllerAssumption DEF OwnTypes
      <4>2. registry'[code[1]] = registry[code[1]]
        BY <2>3, <3>1, <3>2, <4>1 DEF RemoveAdmission, Remove, OwnTypes
      <4>3. QED
        BY <3>2, <4>2 DEF HooksInTurn
    <3>3. QED
      BY <2>3, <3>2 DEF RemoveAdmission
  <2>4. ASSUME NEW c \in Crds,
               \/ AdmissionEvent(c) \/ DiscoveryFails(c) \/ KindsResolved(c) \/ WatchKind(c)
               \/ KindSynced(c) \/ AllWatched(c) \/ LockKind(c) \/ InitCode(c)
               \/ CreatedForAll(c) \/ MakeAdmissionValid(c) \/ UnlockKinds(c)
               \/ AdmissionEventDone(c)
        PROVE  Told'
    BY <2>4
       DEF AdmissionEvent, DiscoveryFails, KindsResolved, WatchKind, KindSynced, AllWatched,
           LockKind, InitCode, CreatedForAll, MakeAdmissionValid, MakeValid, UnlockKinds,
           AdmissionEventDone, HooksInTurn, jsVars
  <2>5. ASSUME NEW r \in Resources, ResourceEvent(r) PROVE Told'
    BY <2>5, FoundCodes DEF ResourceEvent, CodesFit, jsVars
  <2>6. ASSUME NEW r \in Resources, TellCode(r) \/ ResourceEventDone(r) PROVE Told'
    BY <2>6 DEF TellCode, ResourceEventDone, HooksInTurn, jsVars
  <2>7. QED
    BY <2>1, <2>2, <2>3, <2>4, <2>5, <2>6, StepCases DEF Works
<1>6. QED
  BY <1>2, <1>3, <1>4, <1>5 DEF HooksInTurn

(* Nobody holds a mutex at the start.                                      *)
LEMMA LoadInvInit == Init => LoadInv
<1> SUFFICES ASSUME Init PROVE LoadInv
  OBVIOUS
<1>1. mux \notin Crds /\ aMux \notin Crds
  BY ApartFacts DEF Init, R!WatcherInit, A!WatcherInit
<1>2. QED
  BY <1>1 DEF Init, LoadInv, LoadingFits, LockingFits, CodesFit, HooksInTurn, AdmissionsInit

(* Everything that goes on around a load: the part of the invariant that   *)
(* the later theorems rest on.                                             *)
Inv == Watched /\ OwnTypes /\ LoadInv

(* It holds at the start.                                                  *)
LEMMA InvInit == Init => Inv
BY WatchedInit, OwnTypesInit, LoadInvInit DEF Inv

(* Every step keeps it.                                                    *)
LEMMA InvStep == Inv /\ [Next]_vars => Inv'
BY WatchedStep, OwnTypesStep, LoadingStep, LockingStep, CodesStep, HooksStep DEF Inv, LoadInv

(* So it holds of every state.                                             *)
LEMMA InvAlways == Spec => []Inv
BY InvInit, InvStep, PTL DEF Spec

(* The event hooks of one code never overlap, and none is called before    *)
(* jsa_init has succeeded, however many goroutines call them.              *)
THEOREM HooksAlone == Spec => []HooksInTurn
<1>1. Inv => HooksInTurn
  BY DEF Inv, LoadInv
<1>2. QED
  BY <1>1, InvAlways, PTL

-----------------------------------------------------------------------------
(* NoSupersededCode: the handler may leave an admission only with the code *)
(* of the cached version, with none, or marked unresolved.                 *)
CodeFollows == NoSupersededCode /\ ReplacedFits

(* Whatever fails, Upsert and Remove leave no other version; where         *)
(* discovery fails the admission is marked unresolved.                     *)
LEMMA CodeStep == Inv /\ CodeFollows /\ [Next]_vars => CodeFollows'
<1> SUFFICES ASSUME Inv, CodeFollows, [Next]_vars PROVE CodeFollows'
  OBVIOUS
<1>1. Watched /\ OwnTypes /\ LoadInv
  BY DEF Inv
<1>2. CASE Bystanders \/ UNCHANGED vars
  <2>1. Quiet
    BY <1>1, <1>2, BystandersQuiet DEF Watched
  <2>2. aMux \notin Crds => step = "none"
    BY <1>1 DEF OwnTypes
  <2>3. QED
    BY <2>1, <2>2 DEF Quiet, CodeFollows, NoSupersededCode, ReplacedFits, Adm, jsVars, ctrlVars
<1>3. ASSUME NEW c \in Crds, AdmissionEvent(c) PROVE CodeFollows'
  <2>1. /\ aMux \notin Crds /\ aMux' = c /\ UNCHANGED <<aEvent, registry, unresolved>>
        /\ aItems' = [aItems EXCEPT ![Adm(c)] = aEvent[c].new]
        /\ step' = "resolving"
    BY <1>1, <1>3, AdmissionHandled, ApartFacts DEF AdmissionEvent, Watched, jsVars
  <2>2. aItems \in [Admissions -> 0..MaxAdmVersion]
    BY <1>1 DEF Watched, AP!CacheInv, AP!TypeOK, AP!Versions
  <2>3. ASSUME NEW a \in Admissions \ unresolved, a # Adm(c)
        PROVE  registry[a] \in {0, aItems'[a]}
    BY <2>1, <2>2, <2>3 DEF CodeFollows, NoSupersededCode
  <2>4. QED
    BY <2>1, <2>3 DEF CodeFollows, NoSupersededCode, ReplacedFits, Adm
<1>4. ASSUME NEW c \in Crds, Works(c) PROVE CodeFollows'
  <2>1. /\ aMux = c /\ UNCHANGED <<aMux, aEvent, aItems>> /\ Adm(c)' = Adm(c)
        /\ Adm(c) \in Admissions
    BY <1>1, <1>4, WorksOn, AtWork DEF Adm
  <2>2. CASE DiscoveryFails(c)
    BY <2>1, <2>2 DEF DiscoveryFails, At, CodeFollows, NoSupersededCode, ReplacedFits
  <2>3. CASE RemoveAdmission(c)
    BY <1>1, <2>1, <2>3
       DEF RemoveAdmission, Remove, At, CodeFollows, NoSupersededCode, ReplacedFits, OwnTypes
  <2>4. CASE KindsResolved(c)
    BY <2>1, <2>4 DEF KindsResolved, At, CodeFollows, NoSupersededCode, ReplacedFits
  <2>5. CASE WatchKind(c) \/ KindSynced(c) \/ AllWatched(c) \/ LockKind(c)
    BY <2>1, <2>5
       DEF WatchKind, KindSynced, AllWatched, LockKind, At, CodeFollows, NoSupersededCode,
           ReplacedFits, jsVars
  <2>6. CASE UpsertAdmission(c)
    <3>1. /\ \A a \in Admissions : a # Adm(c) => registry'[a] = registry[a]
          /\ registry'[Adm(c)] \in {0, Version(c)}
      BY <1>1, <2>1, <2>6 DEF UpsertAdmission, Upsert, OwnTypes
    <3>2. aItems[Adm(c)] = Version(c)
      BY <1>1, <2>1, <2>6, AtWork DEF LoadInv, LoadingFits, UpsertAdmission, At
    <3>3. QED
      BY <2>1, <2>6, <3>1, <3>2 DEF UpsertAdmission, CodeFollows, NoSupersededCode, ReplacedFits
  <2>7. CASE InitCode(c) \/ CreatedForAll(c) \/ MakeAdmissionValid(c) \/ UnlockKinds(c)
    <3>1. /\ step \in {"initialising", "replaying", "unlocking"}
          /\ UNCHANGED <<registry, unresolved>>
      BY <2>7 DEF InitCode, CreatedForAll, MakeAdmissionValid, MakeValid, UnlockKinds, At, jsVars
    <3>2. QED
      BY <2>1, <3>1 DEF CodeFollows, NoSupersededCode, ReplacedFits
  <2>8. QED
    BY <1>4, <2>2, <2>3, <2>4, <2>5, <2>6, <2>7 DEF Works
<1>5. ASSUME NEW c \in Crds, AdmissionEventDone(c) PROVE CodeFollows'
  <2>1. aMux = c /\ step = "returning" /\ step' = "none" /\ UNCHANGED <<registry, unresolved, aItems>>
    BY <1>5 DEF AdmissionEventDone, At, A!HandlerDone, jsVars
  <2>2. QED
    BY <2>1 DEF CodeFollows, NoSupersededCode, ReplacedFits
<1>6. ASSUME NEW r \in Resources, ResourceEvent(r) \/ TellCode(r) \/ ResourceEventDone(r)
      PROVE  CodeFollows'
  <2>1. UNCHANGED <<aMux, aEvent, aItems, step, registry, unresolved>>
    BY <1>6 DEF ResourceEvent, TellCode, ResourceEventDone, aVars, jsVars, ctrlVars
  <2>2. QED
    BY <2>1 DEF CodeFollows, NoSupersededCode, ReplacedFits, Adm
<1>7. QED
  BY <1>2, <1>3, <1>4, <1>5, <1>6, StepCases

(* An admission never keeps the code of a version that is gone: whatever   *)
(* fails while the next one is loaded, the old code went first.            *)
THEOREM OldCodeGoes == Spec => []NoSupersededCode
<1>1. Init => CodeFollows
  BY DEF Init, AdmissionsInit, CodeFollows, NoSupersededCode, ReplacedFits
<1>2. CodeFollows => NoSupersededCode
  BY DEF CodeFollows
<1>3. QED
  BY <1>1, <1>2, CodeStep, InvAlways, PTL DEF Spec

-----------------------------------------------------------------------------
(* ViewMatchesCache of one code.                                           *)
Agrees(a) ==
  \A o \in Objects :
    Matches(a, o) /\ <<a, o>> \notin missed /\ ~BeingTold(a, o) => view[a][o] = items[o]

ViewInv == (\A a \in valid : Agrees(a)) /\ LoadedViewFits

(* With Inv it says what ViewMatchesCache does.                            *)
LEMMA ViewInvGives == Inv /\ ViewInv => ViewMatchesCache
BY DEF Inv, LoadInv, CodesFit, ViewInv, Agrees, ViewMatchesCache

(* A loader touches no object and no event, and passes mux on only to and  *)
(* from itself.                                                            *)
LEMMA LoadersLeave ==
  ASSUME Watched, OwnTypes, NEW c \in Crds, Works(c)
  PROVE  /\ UNCHANGED <<items, event, todo>>
         /\ mux' = mux \/ (mux \notin Resources /\ mux' \notin Resources)
<1>1. CASE WatchKind(c)
  BY <1>1, ApartFacts DEF WatchKind, R!AddStart, R!AddExisting, R!watcherVars
<1>2. CASE KindSynced(c)
  <2>1. \E t \in Crds : mux = t
    BY <1>2 DEF KindSynced, R!AddDone, Watched, RP!CacheInv, RP!TypeOK
  <2>2. QED
    BY <1>2, <2>1, ApartFacts DEF KindSynced, R!AddDone
<1>3. CASE LockKind(c)
  BY <1>3, ApartFacts DEF LockKind, R!LockResource
<1>4. CASE UnlockKinds(c)
  BY <1>4, ApartFacts DEF UnlockKinds, R!UnlockResource, rVars
<1>5. CASE \/ DiscoveryFails(c) \/ RemoveAdmission(c) \/ KindsResolved(c) \/ AllWatched(c)
           \/ UpsertAdmission(c) \/ InitCode(c) \/ CreatedForAll(c) \/ MakeAdmissionValid(c)
  BY <1>5 DEF DiscoveryFails, RemoveAdmission, KindsResolved, AllWatched, UpsertAdmission,
              InitCode, CreatedForAll, MakeAdmissionValid, rVars
<1>6. QED
  BY <1>1, <1>2, <1>3, <1>4, <1>5 DEF Works

(* A code that neither changes nor is told of anything still agrees.       *)
LEMMA StillAgrees ==
  ASSUME NEW a, Agrees(a), UNCHANGED <<items, event, todo>>,
         mux' = mux \/ (mux \notin Resources /\ mux' \notin Resources),
         registry'[a] = registry[a], view'[a] = view[a],
         \A o \in Objects : <<a, o>> \in missed => <<a, o>> \in missed'
  PROVE  Agrees(a)'
BY DEF Agrees, Matches, BeingTold

(* A code that is about nothing agrees with every cache.                   *)
LEMMA AboutNothing ==
  ASSUME NEW a, NEW o, Matches(a, o) PROVE KindsOf[a][registry[a]] # <<>>
<1>1. ResourceOf[o] \in Range(KindsOf[a][registry[a]])
  BY DEF Matches, Kinds
<1>2. QED
  BY <1>1 DEF Range

(* Loading a code ends with it knowing all there is.                       *)
LEMMA ViewStepLoad ==
  ASSUME Inv, ViewInv, NEW c \in Crds, Works(c) PROVE ViewInv'
<1>1. Watched /\ OwnTypes /\ LoadInv
  BY DEF Inv
<1>2. /\ aMux = c /\ UNCHANGED <<aMux, aEvent, aItems>> /\ Adm(c)' = Adm(c)
      /\ Adm(c) \in Admissions /\ Version(c) \in 1..MaxAdmVersion
  BY <1>1, WorksOn, AtWork DEF Adm
<1>3. /\ UNCHANGED <<items, event, todo>>
      /\ mux' = mux \/ (mux \notin Resources /\ mux' \notin Resources)
  BY <1>1, LoadersLeave
<1>4. CASE DiscoveryFails(c) \/ KindsResolved(c) \/ WatchKind(c) \/ KindSynced(c)
           \/ AllWatched(c) \/ LockKind(c) \/ UnlockKinds(c)
  <2>1. UNCHANGED <<registry, valid, view, missed>> /\ step' \notin {"initialising", "replaying"}
    BY <1>4 DEF DiscoveryFails, KindsResolved, WatchKind, KindSynced, AllWatched, LockKind,
                UnlockKinds, At, jsVars
  <2>2. QED
    BY <1>3, <2>1, StillAgrees DEF ViewInv, LoadedViewFits
<1>5. CASE RemoveAdmission(c)
  <2>1. ASSUME NEW a \in valid' PROVE Agrees(a)'
    <3>1. /\ a \in valid /\ registry'[a] = registry[a] /\ UNCHANGED <<view, missed>>
      BY <1>1, <1>2, <1>5, <2>1 DEF RemoveAdmission, Remove, OwnTypes
    <3>2. QED
      BY <1>3, <3>1, StillAgrees DEF ViewInv
  <2>2. QED
    BY <1>5, <2>1 DEF RemoveAdmission, ViewInv, LoadedViewFits
<1>6. CASE UpsertAdmission(c)
  <2>1. ASSUME NEW a \in valid' PROVE Agrees(a)'
    <3>1. /\ a \in valid /\ a # Adm(c) /\ registry'[a] = registry[a] /\ view'[a] = view[a]
      BY <1>1, <1>2, <1>6, <2>1 DEF UpsertAdmission, Upsert, OwnTypes
    <3>2. \A o \in Objects : <<a, o>> \in missed => <<a, o>> \in missed'
      BY <1>6, <3>1 DEF UpsertAdmission
    <3>3. QED
      BY <1>3, <3>1, <3>2, StillAgrees DEF ViewInv
  <2>2. LoadedViewFits'
    <3>1. view'[Adm(c)] = [o \in Objects |-> 0] /\ step' \in {"initialising", "unlocking"}
      BY <1>1, <1>2, <1>6 DEF UpsertAdmission, OwnTypes
    <3>2. QED
      BY <1>2, <3>1 DEF LoadedViewFits
  <2>3. QED
    BY <2>1, <2>2 DEF ViewInv
<1>7. CASE InitCode(c)
  <2>1. UNCHANGED <<registry, valid, view, missed>> /\ step = "initialising"
    BY <1>7 DEF InitCode, At
  <2>2. \A a \in valid' : Agrees(a)'
    BY <1>3, <2>1, StillAgrees DEF ViewInv
  <2>3. ASSUME step' = "replaying", NEW o \in Objects \ replay', Matches(Adm(c), o)'
        PROVE  view'[Adm(c)][o] = items'[o]
    <3>1. replay' = UNION {R!GetResources(r, AdmNamespaceOf[Adm(c)]) :
                             r \in Kinds(Adm(c), Version(c))}
      BY <1>7, <2>3 DEF InitCode
    <3>2. /\ ResourceOf[o] \in Kinds(Adm(c), Version(c))
          /\ AdmNamespaceOf[Adm(c)] \in {NamespaceOf[o], NoNamespace}
      BY <1>1, <1>2, <2>1, <2>3 DEF Matches, LoadInv, LoadingFits
    <3>3. o \notin R!GetResources(ResourceOf[o], AdmNamespaceOf[Adm(c)])
      BY <2>3, <3>1, <3>2
    <3>4. items[o] = 0
      BY <3>2, <3>3 DEF R!GetResources, R!CacheFind
    <3>5. view[Adm(c)][o] = 0
      BY <1>2, <2>1 DEF ViewInv, LoadedViewFits
    <3>6. QED
      BY <1>3, <2>1, <3>4, <3>5
  <2>4. step' # "initialising"
    BY <1>7 DEF InitCode
  <2>5. QED
    BY <1>2, <2>2, <2>3, <2>4 DEF ViewInv, LoadedViewFits
<1>8. CASE CreatedForAll(c)
  <2>1. UNCHANGED <<registry, valid, missed>> /\ step = "replaying" /\ Adm(c) \notin valid
    BY <1>1, <1>2, <1>8 DEF CreatedForAll, At, LoadInv, LoadingFits
  <2>2. \/ /\ UNCHANGED view /\ step' = "unlocking"
        \/ \E o \in replay : /\ view' = [view EXCEPT ![Adm(c)][o] = items[o]]
                             /\ replay' = replay \ {o} /\ step' = "replaying"
    BY <1>8, <2>1 DEF CreatedForAll
  <2>3. \A a \in Admissions : a # Adm(c) => view'[a] = view[a]
    BY <1>1, <2>2 DEF OwnTypes
  <2>4. ASSUME NEW a \in valid' PROVE Agrees(a)'
    <3>1. a \in valid /\ a # Adm(c) /\ a \in Admissions
      BY <1>1, <2>1, <2>4 DEF OwnTypes
    <3>2. QED
      BY <1>3, <2>1, <2>3, <3>1, StillAgrees DEF ViewInv
  <2>5. ASSUME step' = "replaying", NEW p \in Objects \ replay', Matches(Adm(c), p)'
        PROVE  view'[Adm(c)][p] = items'[p]
    <3>1. PICK o \in replay : /\ view' = [view EXCEPT ![Adm(c)][o] = items[o]]
                              /\ replay' = replay \ {o}
      BY <2>2, <2>5
    <3>2. Matches(Adm(c), p)
      BY <1>2, <2>1, <2>5 DEF Matches
    <3>3. view[Adm(c)] \in [Objects -> 0..MaxVersion]
      BY <1>1, <1>2 DEF OwnTypes
    <3>4. view'[Adm(c)] = [view[Adm(c)] EXCEPT ![o] = items[o]]
      BY <1>1, <1>2, <3>1 DEF OwnTypes
    <3>5. CASE p = o
      BY <1>3, <3>3, <3>4, <3>5
    <3>6. CASE p # o
      <4>1. view[Adm(c)][p] = items[p]
        BY <1>2, <2>1, <2>5, <3>1, <3>2, <3>6 DEF ViewInv, LoadedViewFits
      <4>2. QED
        BY <1>3, <3>3, <3>4, <3>6, <4>1
    <3>7. QED
      BY <3>5, <3>6
  <2>6. step' # "initialising"
    BY <2>2
  <2>7. QED
    BY <1>2, <2>4, <2>5, <2>6 DEF ViewInv, LoadedViewFits
<1>9. CASE MakeAdmissionValid(c)
  <2>1. /\ UNCHANGED <<registry, view, missed>> /\ valid' = valid \cup {Adm(c)}
        /\ step = "replaying" /\ replay = {} /\ step' = "unlocking"
    BY <1>9 DEF MakeAdmissionValid, MakeValid, At, jsVars
  <2>2. Agrees(Adm(c))
    BY <1>2, <2>1 DEF ViewInv, LoadedViewFits, Agrees
  <2>3. \A a \in valid' : Agrees(a)'
    BY <1>3, <2>1, <2>2, StillAgrees DEF ViewInv
  <2>4. QED
    BY <2>1, <2>3 DEF ViewInv, LoadedViewFits
<1>10. QED
  BY <1>4, <1>5, <1>6, <1>7, <1>8, <1>9 DEF Works

(* An event reaches every valid code it concerns; the loader of a code in  *)
(* hand, if that is about anything, keeps events out.                      *)
LEMMA ViewStepEvent ==
  ASSUME Inv, ViewInv, NEW r \in Resources, ResourceEvent(r) PROVE ViewInv'
<1> DEFINE obj == event[r].obj
<1>1. Watched /\ OwnTypes /\ LoadInv
  BY DEF Inv
<1>2. /\ event[r] # NoEvent /\ mux = Nobody /\ mux' = r
      /\ items' = [items EXCEPT ![obj] = event[r].new]
      /\ UNCHANGED <<event, aMux, aEvent, registry, valid, view, missed, step, replay>>
      /\ todo' = {<<a, registry[a]>> : a \in Find(r, NamespaceOf[obj])}
  BY <1>1, ResourceHandled DEF ResourceEvent, Watched, jsVars, ctrlVars, aVars
<1>3. obj \in Objects /\ ResourceOf[obj] = r
  BY <1>1, <1>2, ResourceInHand DEF Watched
<1>4. items \in [Objects -> 0..MaxVersion]
  BY <1>1 DEF Watched, RP!CacheInv, RP!TypeOK, RP!Versions
<1>5. \A o \in Objects : o # obj => items'[o] = items[o]
  BY <1>2, <1>4
<1>6. mux \notin Resources
  BY <1>2, ApartFacts
<1>7. ASSUME NEW a \in valid PROVE Agrees(a)'
  <2>1. ASSUME NEW o \in Objects, Matches(a, o), <<a, o>> \notin missed, ~BeingTold(a, o)'
        PROVE  view[a][o] = items'[o]
    <3>1. CASE o = obj
      <4>1. a \in Find(r, NamespaceOf[obj])
        BY <1>3, <2>1, <3>1 DEF Find, Matches
      <4>2. <<a, registry[a]>> \in todo'
        BY <1>2, <4>1
      <4>3. QED
        BY <1>2, <2>1, <3>1, <4>2 DEF BeingTold
    <3>2. CASE o # obj
      <4>1. ~BeingTold(a, o)
        BY <1>6 DEF BeingTold
      <4>2. QED
        BY <1>5, <2>1, <3>2, <4>1 DEF ViewInv, Agrees
    <3>3. QED
      BY <3>1, <3>2
  <2>2. QED
    BY <1>2, <2>1 DEF Agrees, Matches
<1>8. LoadedViewFits'
  <2>1. CASE step = "replaying"
    <3>1. aMux \in Crds /\ mux # aMux
      BY <1>1, <1>2, <2>1, ApartFacts DEF OwnTypes
    <3>2. SpecKinds(aMux) = <<>>
      BY <1>1, <2>1, <3>1 DEF LoadInv, LockingFits
    <3>3. KindsOf[Adm(aMux)][registry[Adm(aMux)]] = <<>>
      BY <1>1, <2>1, <3>1, <3>2 DEF LoadInv, LoadingFits, SpecKinds
    <3>4. \A o : ~Matches(Adm(aMux), o)
      BY <3>3, AboutNothing
    <3>5. QED
      BY <1>2, <2>1, <3>4 DEF LoadedViewFits, Adm, Matches
  <2>2. CASE step # "replaying"
    BY <1>2, <2>2 DEF LoadedViewFits, ViewInv, Adm
  <2>3. QED
    BY <2>1, <2>2
<1>9. QED
  BY <1>2, <1>7, <1>8 DEF ViewInv

(* Telling one code makes it agree about the one object in hand, unless    *)
(* its hook fails; no other code hears of it.                              *)
LEMMA ViewStepTell ==
  ASSUME Inv, ViewInv, NEW r \in Resources, TellCode(r) PROVE ViewInv'
<1> DEFINE obj == event[r].obj
<1>1. Watched /\ OwnTypes /\ LoadInv
  BY DEF Inv
<1>2. /\ mux = r /\ UNCHANGED <<mux, items, event, aMux, aEvent, registry, valid, step, replay>>
  BY <1>1 DEF TellCode, ctrlVars, rVars, aVars
<1>3. PICK code \in todo :
        /\ todo' = todo \ {code}
        /\ \/ registry[code[1]] # code[2] /\ UNCHANGED <<view, missed>>
           \/ /\ registry[code[1]] = code[2]
              /\ view' = [view EXCEPT ![code[1]][obj] = event[r].new]
              /\ UNCHANGED missed
           \/ /\ registry[code[1]] = code[2]
              /\ missed' = missed \cup {<<code[1], obj>>}
              /\ UNCHANGED view
  BY DEF TellCode
<1>4. /\ obj \in Objects /\ items[obj] = event[r].new /\ event[r].new \in 0..MaxVersion
  BY <1>1, <1>2, ResourceInHand DEF Watched, RP!CacheInv, RP!HandlersBusy
<1>5. code[1] \in Admissions /\ code = <<code[1], code[2]>>
  BY <1>1 DEF OwnTypes
<1>6. ASSUME NEW a \in Admissions, NEW o \in Objects
      PROVE  view'[a][o] = IF /\ a = code[1] /\ o = obj /\ registry[a] = code[2]
                              /\ view' # view
                             THEN items[o] ELSE view[a][o]
  <2>1. view \in [Admissions -> [Objects -> 0..MaxVersion]]
    BY <1>1 DEF OwnTypes
  <2>2. CASE view' = [view EXCEPT ![code[1]][obj] = event[r].new] /\ registry[code[1]] = code[2]
    <3>1. view'[a] = IF a = code[1] THEN [view[a] EXCEPT ![obj] = event[r].new] ELSE view[a]
      BY <2>1, <2>2
    <3>2. view[a] \in [Objects -> 0..MaxVersion]
      BY <2>1
    <3>3. view'[a][o] = IF a = code[1] /\ o = obj THEN items[o] ELSE view[a][o]
      BY <1>4, <3>1, <3>2
    <3>4. QED
      BY <2>2, <3>3
  <2>3. QED
    BY <1>3, <2>2
<1>7. ASSUME NEW a \in valid PROVE Agrees(a)'
  <2>1. a \in Admissions
    BY <1>1 DEF OwnTypes
  <2>2. ASSUME NEW o \in Objects, Matches(a, o), <<a, o>> \notin missed', ~BeingTold(a, o)'
        PROVE  view'[a][o] = items[o]
    <3>1. <<a, o>> \notin missed
      BY <1>3, <2>2
    <3>2. CASE BeingTold(a, o)
      <4>1. code = <<a, registry[a]>> /\ o = obj
        BY <1>2, <1>3, <2>2, <3>2 DEF BeingTold
      <4>2. code[1] = a /\ code[2] = registry[a]
        BY <4>1
      <4>3. view' = [view EXCEPT ![a][obj] = event[r].new]
        BY <1>3, <2>2, <4>1, <4>2
      <4>4. view[a] \in [Objects -> 0..MaxVersion] /\ view \in [Admissions -> [Objects -> 0..MaxVersion]]
        BY <1>1, <2>1 DEF OwnTypes
      <4>5. view'[a] = [view[a] EXCEPT ![obj] = event[r].new]
        BY <2>1, <4>3, <4>4
      <4>6. QED
        BY <1>4, <4>1, <4>4, <4>5
    <3>3. CASE ~BeingTold(a, o)
      <4>1. view[a][o] = items[o]
        BY <2>2, <3>1, <3>3 DEF ViewInv, Agrees
      <4>2. QED
        BY <1>6, <2>1, <4>1
    <3>4. QED
      BY <3>2, <3>3
  <2>3. QED
    BY <1>2, <2>2 DEF Agrees, Matches
<1>8. LoadedViewFits'
  <2>1. ASSUME step \in {"initialising", "replaying"}
        PROVE  Adm(aMux) \in Admissions /\ \A o \in Objects : view'[Adm(aMux)][o] = view[Adm(aMux)][o]
    <3>1. aMux \in Crds /\ Adm(aMux) \in Admissions
      BY <1>1, <2>1, AtWork DEF OwnTypes
    <3>2. code # <<Adm(aMux), registry[Adm(aMux)]>>
      BY <1>1, <2>1 DEF LoadInv, HooksInTurn
    <3>3. QED
      BY <1>5, <1>6, <3>1, <3>2
  <2>2. Adm(aMux)' = Adm(aMux)
    BY <1>2 DEF Adm
  <2>3. QED
    BY <1>2, <2>1, <2>2 DEF LoadedViewFits, ViewInv, Matches
<1>9. QED
  BY <1>2, <1>7, <1>8 DEF ViewInv

(* Every step keeps it: a load excludes events, an event reaches all       *)
(* codes.                                                                  *)
LEMMA ViewStep == Inv /\ ViewInv /\ [Next]_vars => ViewInv'
<1> SUFFICES ASSUME Inv, ViewInv, [Next]_vars PROVE ViewInv'
  OBVIOUS
<1>1. Watched /\ OwnTypes /\ LoadInv
  BY DEF Inv
<1>2. CASE Bystanders \/ UNCHANGED vars
  <2>1. Quiet
    BY <1>1, <1>2, BystandersQuiet DEF Watched
  <2>2. /\ UNCHANGED <<registry, valid, view, missed, step, replay, todo, items, mux>>
        /\ mux \in Resources => event'[mux] = event[mux]
    BY <2>1 DEF Quiet, jsVars, ctrlVars
  <2>3. \A a : Agrees(a) => Agrees(a)'
    BY <2>2 DEF Agrees, Matches, BeingTold
  <2>4. step # "none" => Adm(aMux)' = Adm(aMux)
    BY <1>1, <2>1 DEF OwnTypes, Quiet, Adm
  <2>5. LoadedViewFits'
    BY <2>2, <2>4 DEF ViewInv, LoadedViewFits, Matches
  <2>6. QED
    BY <2>2, <2>3, <2>5 DEF ViewInv
<1>3. ASSUME NEW c \in Crds, AdmissionEvent(c) \/ AdmissionEventDone(c) PROVE ViewInv'
  <2>1. /\ UNCHANGED <<rVars, registry, valid, view, missed, todo>>
        /\ step' \notin {"initialising", "replaying"}
    BY <1>3 DEF AdmissionEvent, AdmissionEventDone, jsVars
  <2>2. \A a : Agrees(a) => Agrees(a)'
    BY <2>1 DEF Agrees, Matches, BeingTold, rVars
  <2>3. QED
    BY <2>1, <2>2 DEF ViewInv, LoadedViewFits
<1>4. ASSUME NEW c \in Crds, Works(c) PROVE ViewInv'
  BY <1>4, ViewStepLoad
<1>5. ASSUME NEW r \in Resources, ResourceEvent(r) \/ TellCode(r) PROVE ViewInv'
  BY <1>5, ViewStepEvent, ViewStepTell
<1>6. ASSUME NEW r \in Resources, ResourceEventDone(r) PROVE ViewInv'
  <2>1. /\ UNCHANGED <<aMux, aEvent, items, registry, valid, view, missed, step, replay>>
        /\ todo = {} /\ todo' = {}
    BY <1>6 DEF ResourceEventDone, R!HandlerDone, aVars, jsVars, ctrlVars
  <2>2. \A a : Agrees(a) => Agrees(a)'
    BY <2>1 DEF Agrees, Matches, BeingTold
  <2>3. LoadedViewFits'
    BY <2>1 DEF ViewInv, LoadedViewFits, Matches, Adm
  <2>4. QED
    BY <2>1, <2>2, <2>3 DEF ViewInv
<1>7. QED
  BY <1>2, <1>3, <1>4, <1>5, <1>6, StepCases

(* So it holds of every state.                                             *)
LEMMA ViewInvAlways == Spec => []ViewInv
<1>1. Init => ViewInv
  BY DEF Init, AdmissionsInit, ViewInv, LoadedViewFits
<1>2. QED
  BY <1>1, ViewStep, InvAlways, PTL DEF Spec

(* A code that can be found has been told of exactly what the cache holds: *)
(* "synced by design as resources are locked" (src/main.go:252).           *)
THEOREM ViewsMatch == Spec => []ViewMatchesCache
BY ViewInvGives, InvAlways, ViewInvAlways, PTL

-----------------------------------------------------------------------------
(* EventsFormHistory: a code that is being told of an object last heard of *)
(* the version the event replaces.                                         *)
HistoryFits ==
  \A a \in Admissions, o \in Objects :
    BeingTold(a, o) /\ <<a, o>> \notin missed => view[a][o] = event[mux].old

(* A code that is loaded or removed is not being told of anything.         *)
LEMMA HistoryLoad ==
  ASSUME Inv, HistoryFits, NEW c \in Crds, Works(c) PROVE HistoryFits'
<1>1. Watched /\ OwnTypes /\ LoadInv
  BY DEF Inv
<1>2. /\ aMux = c /\ Adm(c) \in Admissions /\ Version(c) \in 1..MaxAdmVersion
  BY <1>1, <1>1, WorksOn, AtWork
<1>3. /\ UNCHANGED <<items, event, todo>>
      /\ mux' = mux \/ (mux \notin Resources /\ mux' \notin Resources)
  BY <1>1, LoadersLeave
<1>4. ASSUME NEW a \in Admissions, NEW o \in Objects, registry'[a] = registry[a],
             view'[a] = view[a], <<a, o>> \in missed => <<a, o>> \in missed',
             BeingTold(a, o)', <<a, o>> \notin missed'
      PROVE  view'[a][o] = event'[mux'].old
  BY <1>3, <1>4 DEF HistoryFits, BeingTold
<1>5. CASE \/ DiscoveryFails(c) \/ KindsResolved(c) \/ WatchKind(c) \/ KindSynced(c)
           \/ AllWatched(c) \/ LockKind(c) \/ InitCode(c) \/ MakeAdmissionValid(c)
           \/ UnlockKinds(c)
  <2>1. UNCHANGED <<registry, view, missed>>
    BY <1>5 DEF DiscoveryFails, KindsResolved, WatchKind, KindSynced, AllWatched, LockKind,
                InitCode, MakeAdmissionValid, MakeValid, UnlockKinds, jsVars
  <2>2. QED
    BY <1>4, <2>1 DEF HistoryFits
<1>6. CASE RemoveAdmission(c)
  <2>1. \A a \in Admissions : registry'[a] = IF a = Adm(c) THEN 0 ELSE registry[a]
    BY <1>1, <1>2, <1>6 DEF RemoveAdmission, Remove, OwnTypes
  <2>2. UNCHANGED <<view, missed>>
    BY <1>6 DEF RemoveAdmission
  <2>3. \A o : ~BeingTold(Adm(c), o)'
    <3>1. <<Adm(c), 0>> \notin todo
      BY <1>1, ControllerAssumption DEF OwnTypes
    <3>2. Adm(c)' = Adm(c) /\ registry'[Adm(c)] = 0
      BY <1>2, <1>6, <2>1 DEF RemoveAdmission, Adm, aVars
    <3>3. QED
      BY <1>3, <3>1, <3>2 DEF BeingTold
  <2>4. Adm(c)' = Adm(c)
    BY <1>6 DEF RemoveAdmission, Adm, aVars
  <2>5. QED
    BY <1>4, <2>1, <2>2, <2>3, <2>4 DEF HistoryFits
<1>7. CASE UpsertAdmission(c)
  <2>1. /\ \A a \in Admissions : a # Adm(c) => registry'[a] = registry[a] /\ view'[a] = view[a]
        /\ registry'[Adm(c)] \in {0, Version(c)}
    BY <1>1, <1>2, <1>7 DEF UpsertAdmission, Upsert, OwnTypes
  <2>2. \A a, o : a # Adm(c) /\ <<a, o>> \in missed => <<a, o>> \in missed'
    BY <1>7 DEF UpsertAdmission
  <2>3. <<Adm(c), 0>> \notin todo /\ <<Adm(c), Version(c)>> \notin todo
    <3>1. <<Adm(c), 0>> \notin todo
      BY <1>1, ControllerAssumption DEF OwnTypes
    <3>2. <<Adm(c), Version(c)>> \notin todo
      BY <1>1, <1>2, <1>7, NotBeingTold DEF UpsertAdmission, At, LoadInv
    <3>3. QED
      BY <3>1, <3>2
  <2>4. Adm(c)' = Adm(c)
    BY <1>7 DEF UpsertAdmission, Adm, aVars
  <2>5. \A o : ~BeingTold(Adm(c), o)'
    BY <1>3, <2>1, <2>3, <2>4 DEF BeingTold
  <2>6. QED
    BY <1>4, <2>1, <2>2, <2>4, <2>5 DEF HistoryFits
<1>8. CASE CreatedForAll(c)
  <2>1. /\ UNCHANGED <<registry, missed>> /\ step = "replaying"
        /\ \A a \in Admissions : a # Adm(c) => view'[a] = view[a]
    BY <1>1, <1>2, <1>8 DEF CreatedForAll, At, OwnTypes
  <2>2. <<Adm(c), registry[Adm(c)]>> \notin todo
    BY <1>1, <1>2, <2>1 DEF LoadInv, HooksInTurn
  <2>3. Adm(c)' = Adm(c)
    BY <1>8 DEF CreatedForAll, Adm, aVars
  <2>4. \A o : ~BeingTold(Adm(c), o)'
    BY <1>3, <2>1, <2>2, <2>3 DEF BeingTold
  <2>5. QED
    BY <1>4, <2>1, <2>3, <2>4 DEF HistoryFits
<1>9. QED
  BY <1>5, <1>6, <1>7, <1>8 DEF Works

(* The event's old version is the cached one, which every code found       *)
(* knows.                                                                  *)
LEMMA HistoryEvent ==
  ASSUME Inv, ViewInv, RP!AllSeen, NEW r \in Resources, ResourceEvent(r) PROVE HistoryFits'
<1> DEFINE obj == event[r].obj
<1>1. Watched /\ OwnTypes
  BY DEF Inv
<1>2. /\ event[r] # NoEvent /\ mux = Nobody /\ mux' = r
      /\ UNCHANGED <<event, registry, view, missed>>
      /\ todo' = {<<a, registry[a]>> : a \in Find(r, NamespaceOf[obj])}
  BY <1>1, ResourceHandled DEF ResourceEvent, Watched, jsVars
<1>3. obj \in Objects /\ ResourceOf[obj] = r
  BY <1>1, <1>2, ResourceInHand DEF Watched
<1>4. event[r].old = items[obj]
  BY <1>1, <1>2, ApartFacts, WatchersAssumed, RP!OldIsStored DEF Watched, RP!AllSeen
<1>5. ASSUME NEW a \in Admissions, NEW o \in Objects, BeingTold(a, o)', <<a, o>> \notin missed
      PROVE  view[a][o] = event[r].old
  <2>1. o = obj
    BY <1>2, <1>5 DEF BeingTold
  <2>2. PICK b \in Find(r, NamespaceOf[obj]) : <<a, registry[a]>> = <<b, registry[b]>>
    BY <1>2, <1>5 DEF BeingTold
  <2>3. a \in Find(r, NamespaceOf[obj])
    BY <2>2
  <2>4. a \in valid /\ Matches(a, obj)
    BY <1>3, <2>3 DEF Find, Matches
  <2>5. ~BeingTold(a, o)
    BY <1>2, ApartFacts DEF BeingTold
  <2>6. view[a][obj] = items[obj]
    BY <1>3, <1>5, <2>1, <2>4, <2>5 DEF ViewInv, Agrees
  <2>7. QED
    BY <1>4, <2>1, <2>6
<1>6. QED
  BY <1>2, <1>5 DEF HistoryFits

(* Telling one code leaves what the others last heard of alone.            *)
LEMMA HistoryTell ==
  ASSUME Inv, HistoryFits, NEW r \in Resources, TellCode(r) PROVE HistoryFits'
<1>1. OwnTypes
  BY DEF Inv
<1>2. UNCHANGED <<mux, event, registry>>
  BY DEF TellCode, rVars
<1>3. PICK code \in todo :
        /\ todo' = todo \ {code} /\ missed \subseteq missed'
        /\ \A a \in Admissions : <<a, registry[a]>> # code => view'[a] = view[a]
  <2>1. PICK code \in todo :
          /\ todo' = todo \ {code}
          /\ \/ registry[code[1]] # code[2] /\ UNCHANGED <<view, missed>>
             \/ /\ registry[code[1]] = code[2]
                /\ view' = [view EXCEPT ![code[1]][event[r].obj] = event[r].new]
                /\ UNCHANGED missed
             \/ /\ registry[code[1]] = code[2]
                /\ missed' = missed \cup {<<code[1], event[r].obj>>}
                /\ UNCHANGED view
    BY DEF TellCode
  <2>2. code = <<code[1], code[2]>>
    BY <1>1 DEF OwnTypes
  <2>3. ASSUME NEW a \in Admissions, <<a, registry[a]>> # code PROVE view'[a] = view[a]
    BY <1>1, <2>1, <2>2, <2>3 DEF OwnTypes
  <2>4. QED
    BY <2>1, <2>3
<1>4. ASSUME NEW a \in Admissions, NEW o \in Objects, BeingTold(a, o)', <<a, o>> \notin missed'
      PROVE  view'[a][o] = event[mux].old
  <2>1. BeingTold(a, o) /\ <<a, registry[a]>> # code
    BY <1>2, <1>3, <1>4 DEF BeingTold
  <2>2. QED
    BY <1>3, <1>4, <2>1 DEF HistoryFits
<1>5. QED
  BY <1>2, <1>4 DEF HistoryFits

(* Every step keeps it.                                                    *)
LEMMA HistoryStep ==
  Inv /\ ViewInv /\ RP!AllSeen /\ HistoryFits /\ [Next]_vars => HistoryFits'
<1> SUFFICES ASSUME Inv, ViewInv, RP!AllSeen, HistoryFits, [Next]_vars PROVE HistoryFits'
  OBVIOUS
<1>1. Watched /\ OwnTypes
  BY DEF Inv
<1>2. CASE Bystanders \/ UNCHANGED vars
  BY <1>1, <1>2, BystandersQuiet DEF Watched, Quiet, jsVars, HistoryFits, BeingTold
<1>3. ASSUME NEW c \in Crds, AdmissionEvent(c) \/ AdmissionEventDone(c) PROVE HistoryFits'
  BY <1>3 DEF AdmissionEvent, AdmissionEventDone, rVars, jsVars, HistoryFits, BeingTold
<1>4. ASSUME NEW r \in Resources, ResourceEventDone(r) PROVE HistoryFits'
  BY <1>4 DEF ResourceEventDone, HistoryFits, BeingTold
<1>5. QED
  BY <1>2, <1>3, <1>4, StepCases, HistoryLoad, HistoryEvent, HistoryTell

(* Where no watch breaks, the watcher skips no change.                     *)
LEMMA AllSeenAlways == MaxRelists = 0 => (Spec => []RP!AllSeen)
<1> SUFFICES ASSUME MaxRelists = 0 PROVE Spec => []RP!AllSeen
  OBVIOUS
<1>1. Init => RP!AllSeen
  <2>1. Init => RP!WatcherInit
    BY DEF Init, R!WatcherInit, R!InformersInit, R!CacheInit,
           RP!WatcherInit, RP!InformersInit, RP!CacheInit
  <2>2. QED
    BY <2>1, WatchersAssumed, RP!AllSeenInit
<1>2. Inv /\ RP!AllSeen /\ [Next]_vars => RP!AllSeen'
  <2> SUFFICES ASSUME Inv, RP!AllSeen, [Next]_vars PROVE RP!AllSeen'
    OBVIOUS
  <2>1. R!Next \/ UNCHANGED rVars
    BY StepsOfWatchers DEF Inv, OwnTypes
  <2>2. [RP!Next]_(RP!watcherVars)
    BY <2>1, SameSteps DEF rVars, RP!watcherVars, RP!informerVars
  <2>3. RP!TypeOK
    BY DEF Inv, Watched, RP!CacheInv
  <2>4. QED
    BY <2>2, <2>3, WatchersAssumed, RP!AllSeenStep
<1>3. QED
  BY <1>1, <1>2, InvAlways, PTL DEF Spec

(* The events a code is told of an object form a history: each begins      *)
(* where the one before ended, as src/README.md:210-231 lets a script      *)
(* expect.  (Where watches break, Watcher shows what is lost.)             *)
THEOREM History == Spec => EventsFormHistory
<1>1. CASE MaxRelists # 0
  <2>1. \A a \in Admissions, o \in Objects :
          BeingTold(a, o) /\ todo' # todo /\ <<a, o>> \notin missed /\ MaxRelists = 0
            => view[a][o] = event[mux].old
    BY <1>1
  <2>2. QED
    BY <2>1, PTL DEF EventsFormHistory
<1>2. CASE MaxRelists = 0
  <2>1. Spec => []RP!AllSeen
    BY <1>2, AllSeenAlways
  <2>2. Init => HistoryFits
    BY DEF Init, HistoryFits, BeingTold
  <2>3. Spec => []HistoryFits
    BY <2>1, <2>2, HistoryStep, InvAlways, ViewInvAlways, PTL DEF Spec
  <2>4. HistoryFits => \A a \in Admissions, o \in Objects :
          BeingTold(a, o) /\ todo' # todo /\ <<a, o>> \notin missed /\ MaxRelists = 0
            => view[a][o] = event[mux].old
    BY DEF HistoryFits
  <2>5. QED
    BY <2>3, <2>4, PTL DEF EventsFormHistory
<1>3. QED
  BY <1>1, <1>2

=============================================================================
