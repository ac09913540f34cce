-------------------------- MODULE EnforcementProofs --------------------------
(***************************************************************************)
(* The controller implements Enforcement, whatever admissions, resources   *)
(* and objects there are: each of its steps is one of the abstract steps,  *)
(* or changes nothing that shows.                                          *)
(***************************************************************************)
EXTENDS ControllerProofs

-----------------------------------------------------------------------------
(* The admissions' watcher tells of versions in the order they were given, *)
(* so the version the handler is to load is not the one registered.        *)
Fresh ==
  /\ AP!VersionsGrow
  /\ \A a \in Admissions : AP!Newer(a, registry[a])
  /\ step \in {"resolving", "watching", "adding", "locking"} /\ ~Deleted(aMux) =>
       registry[Adm(aMux)] # Version(aMux)

(* At the start no version has been given.                                 *)
LEMMA FreshInit == Init => Fresh
<1> SUFFICES ASSUME Init PROVE Fresh
  OBVIOUS
<1>1. Watched
  BY WatchedInit
<1>2. AP!WatcherInit
  BY DEF Init, A!WatcherInit, A!InformersInit, A!CacheInit,
         AP!WatcherInit, AP!InformersInit, AP!CacheInit
<1>3. AP!VersionsGrow
  BY <1>2, WatchersAssumed, AP!GrowInit
<1>4. ASSUME NEW a \in Admissions PROVE AP!Newer(a, registry[a])
  <2>1. AP!Newer(a, 0)
    BY <1>1, WatchersAssumed, AP!NewerThanNone DEF Watched, AP!CacheInv
  <2>2. registry[a] = 0
    BY DEF Init, AdmissionsInit
  <2>3. QED
    BY <2>1, <2>2
<1>5. QED
  BY <1>3, <1>4 DEF Fresh, Init

(* Every step keeps it: a version is registered by the handler of the very *)
(* notification it came with, and later ones bring later versions.         *)
LEMMA FreshStep == Inv /\ Fresh /\ [Next]_vars => Fresh'
<1> SUFFICES ASSUME Inv, Fresh, [Next]_vars PROVE Fresh'
  OBVIOUS
<1>1. Watched /\ OwnTypes /\ LoadInv
  BY DEF Inv
<1>2. /\ AP!TypeOK /\ AP!WatchesExactly /\ AP!NotificationsFit /\ AP!VersionsGrow
      /\ AP!InformersAssumption /\ AP!WatcherAssumption
  BY <1>1, WatchersAssumed DEF Watched, AP!CacheInv, Fresh
<1>3. [AP!Next]_(AP!watcherVars)
  <2>1. A!Next \/ UNCHANGED aVars
    BY <1>1, StepsOfWatchers DEF OwnTypes
  <2>2. QED
    BY <2>1, SameSteps DEF aVars, AP!watcherVars, AP!informerVars
<1>4. AP!VersionsGrow'
  BY <1>2, <1>3, AP!GrowStep
<1>5. ASSUME NEW a \in Admissions, NEW k \in 0..MaxAdmVersion, AP!Newer(a, k) PROVE AP!Newer(a, k)'
  BY <1>2, <1>3, <1>5, AP!NewerStep DEF AP!Versions
<1>6. \A a \in Admissions : registry[a] \in 0..MaxAdmVersion /\ AP!Newer(a, registry[a])
  BY <1>1 DEF OwnTypes, Fresh
<1>7. ASSUME UNCHANGED registry PROVE \A a \in Admissions : AP!Newer(a, registry[a])'
  <2>1. ASSUME NEW a \in Admissions PROVE AP!Newer(a, registry[a])'
    <3>1. PICK k \in 0..MaxAdmVersion : k = registry[a] /\ AP!Newer(a, k)
      BY <1>6
    <3>2. AP!Newer(a, k)' /\ registry'[a] = k
      BY <1>5, <1>7, <3>1
    <3>3. QED
      BY <3>2
  <2>2. QED
    BY <2>1
<1>8. CASE Bystanders \/ UNCHANGED vars
  <2>1. Quiet
    BY <1>1, <1>8, BystandersQuiet DEF Watched
  <2>2. aMux \notin Crds => step = "none"
    BY <1>1 DEF OwnTypes
  <2>3. /\ UNCHANGED <<registry, step>>
        /\ step # "none" => Adm(aMux)' = Adm(aMux) /\ Version(aMux)' = Version(aMux)
                            /\ Deleted(aMux)' = Deleted(aMux)
    BY <2>1, <2>2 DEF Quiet, ctrlVars, Adm, Version, Deleted
  <2>4. QED
    BY <1>4, <1>7, <2>3 DEF Fresh
<1>9. ASSUME NEW c \in Crds, AdmissionEvent(c) PROVE Fresh'
  <2>1. /\ aEvent[c] # NoEvent /\ aMux = Nobody /\ aMux' = c /\ UNCHANGED <<aEvent, registry>>
    BY <1>1, <1>9, AdmissionHandled DEF AdmissionEvent, Watched
  <2>2. ~Deleted(c) => registry[Adm(c)] # Version(c)
    <3>1. Adm(c) \in Admissions /\ Version(c) \in 1..MaxAdmVersion
          /\ aEvent[c].new = IF Deleted(c) THEN 0 ELSE Version(c)
      BY <1>1, <2>1, AdmissionInHand DEF Watched
    <3>2. PICK k \in 0..MaxAdmVersion : k = registry[Adm(c)] /\ AP!Newer(aEvent[c].obj, k)
      BY <1>6, <3>1 DEF Adm
    <3>3. aEvent[c].new # 0 => aEvent[c].new > k
      BY <1>2, <2>1, <3>2, ApartFacts, AP!NewerStored
    <3>4. QED
      BY <3>1, <3>2, <3>3, ControllerAssumption
  <2>3. /\ Adm(aMux)' = Adm(c) /\ Version(aMux)' = Version(c) /\ Deleted(aMux)' = Deleted(c)
    BY <2>1 DEF Adm, Version, Deleted
  <2>4. QED
    BY <1>4, <1>7, <2>1, <2>2, <2>3 DEF Fresh
<1>10. ASSUME NEW c \in Crds, Works(c) PROVE Fresh'
  <2>1. /\ aMux = c /\ UNCHANGED <<aMux, aEvent>> /\ Adm(c) \in Admissions
        /\ Adm(c)' = Adm(c) /\ Version(c)' = Version(c) /\ Deleted(c)' = Deleted(c)
        /\ Version(c) \in 1..MaxAdmVersion
    BY <1>1, <1>10, WorksOn, AtWork DEF Adm, Version, Deleted
  <2>2. CASE RemoveAdmission(c) \/ UpsertAdmission(c)
    <3>1. step' \notin {"resolving", "watching", "adding", "locking"}
      BY <2>2 DEF RemoveAdmission, UpsertAdmission
    <3>2. ASSUME NEW a \in Admissions
          PROVE  registry'[a] = registry[a] \/ registry'[a] = 0 \/
                 (a = Adm(c) /\ registry'[a] = Version(c) /\ ~Deleted(c))
      BY <1>1, <2>1, <2>2
         DEF RemoveAdmission, Remove, UpsertAdmission, Upsert, At, OwnTypes, LoadInv, LoadingFits
    <3>3. ASSUME NEW a \in Admissions PROVE \E k \in 0..MaxAdmVersion : k = registry'[a] /\ AP!Newer(a, k)
      <4>1. CASE registry'[a] = registry[a]
        BY <1>6, <4>1
      <4>2. CASE registry'[a] = 0
        BY <1>2, <4>2, ControllerAssumption, AP!NewerThanNone
      <4>3. CASE a = Adm(c) /\ registry'[a] = Version(c) /\ ~Deleted(c)
        <5>1. aEvent[c] # NoEvent
          BY <1>1, <2>1 DEF Watched, AP!CacheInv, AP!HandlersBusy
        <5>2. AP!Newer(aEvent[c].obj, aEvent[c].new)
          BY <1>2, <2>1, <5>1, AP!NewerStored
        <5>3. QED
          BY <2>1, <4>3, <5>2, ControllerAssumption DEF Adm, Version
      <4>4. QED
        BY <3>2, <4>1, <4>2, <4>3
    <3>4. ASSUME NEW a \in Admissions PROVE AP!Newer(a, registry[a])'
      <4>1. PICK k \in 0..MaxAdmVersion : k = registry'[a] /\ AP!Newer(a, k)
        BY <3>3
      <4>2. AP!Newer(a, k)'
        BY <1>5, <4>1
      <4>3. QED
        BY <4>1, <4>2
    <3>5. QED
      BY <1>4, <3>1, <3>4 DEF Fresh
  <2>3. CASE \/ DiscoveryFails(c) \/ KindsResolved(c) \/ WatchKind(c) \/ KindSynced(c)
             \/ AllWatched(c) \/ LockKind(c) \/ InitCode(c) \/ CreatedForAll(c)
             \/ MakeAdmissionValid(c) \/ UnlockKinds(c)
    <3>1. /\ UNCHANGED registry
          /\ step' \in {"resolving", "watching", "adding", "locking"} =>
               step \in {"resolving", "watching", "adding", "locking"}
      BY <2>3 DEF DiscoveryFails, KindsResolved, WatchKind, KindSynced, AllWatched, LockKind,
                  InitCode, CreatedForAll, MakeAdmissionValid, MakeValid, UnlockKinds, At
    <3>2. QED
      BY <1>4, <1>7, <2>1, <3>1 DEF Fresh
  <2>4. QED
    BY <1>10, <2>2, <2>3 DEF Works
<1>11. ASSUME NEW c \in Crds, AdmissionEventDone(c) PROVE Fresh'
  BY <1>4, <1>7, <1>11 DEF AdmissionEventDone, Fresh
<1>12. ASSUME NEW r \in Resources, ResourceEvent(r) \/ TellCode(r) \/ ResourceEventDone(r)
       PROVE  Fresh'
  <2>1. UNCHANGED <<aMux, aEvent, step, registry>>
    BY <1>12 DEF ResourceEvent, TellCode, ResourceEventDone, aVars, ctrlVars
  <2>2. QED
    BY <1>4, <1>7, <2>1 DEF Fresh, Adm, Version, Deleted
<1>13. QED
  BY <1>8, <1>9, <1>10, <1>11, <1>12, StepCases

(* It holds of every state.                                                *)
LEMMA FreshAlways == Spec => []Fresh
BY FreshInit, FreshStep, InvAlways, PTL DEF Spec

-----------------------------------------------------------------------------
(* What shows of the controller: which version of each admission is        *)
(* enforced, and what each of these knows.                                 *)
About ==
  [a \in Admissions |-> [v \in 1..MaxAdmVersion |->
     {o \in Objects : /\ ResourceOf[o] \in Kinds(a, v)
                      /\ AdmNamespaceOf[a] \in {NamespaceOf[o], NoNamespace}}]]

EnforcedNow == [a \in Admissions |-> Enforced(a)]
KnownNow == [a \in Admissions |-> [o \in Objects |-> Known(a, o)]]

Knowing(enforced, cache) ==
  [a \in Admissions |-> [o \in Objects |->
     IF enforced[a] # 0 /\ o \in About[a][enforced[a]] THEN cache[o] ELSE 0]]

(* An admission knows of the objects it is about what the cache holds.     *)
KnowsTheCache == KnownNow = Knowing(EnforcedNow, items)

(* ViewMatchesCache says so of what a code was told; an event under way or *)
(* failed counts as told.                                                  *)
LEMMA KnownIsCached == Inv /\ ViewInv => KnowsTheCache
<1> SUFFICES ASSUME Inv, ViewInv, NEW a \in Admissions, NEW o \in Objects
             PROVE  Known(a, o) = IF Enforced(a) # 0 /\ o \in About[a][Enforced(a)]
                                    THEN items[o] ELSE 0
  BY DEF KnowsTheCache, KnownNow, Knowing, EnforcedNow
<1>1. OwnTypes /\ CodesFit
  BY DEF Inv, LoadInv
<1>2. CASE a \in valid
  <2>1. Enforced(a) = registry[a] /\ registry[a] \in 1..MaxAdmVersion
    BY <1>1, <1>2, ControllerAssumption DEF Enforced, CodesFit, OwnTypes
  <2>2. o \in About[a][Enforced(a)] <=> Matches(a, o)
    BY <2>1, ControllerAssumption DEF About, Matches
  <2>3. Matches(a, o) => Known(a, o) = items[o]
    BY <1>2 DEF Known, ViewInv, Agrees
  <2>4. ~Matches(a, o) => Known(a, o) = 0
    BY DEF Known
  <2>5. QED
    BY <2>1, <2>2, <2>3, <2>4, ControllerAssumption
<1>3. CASE a \notin valid
  BY <1>3 DEF Enforced, Known
<1>4. QED
  BY <1>2, <1>3

(* The abstract steps in these terms: the start, steps that do not show,   *)
(* and each of the four that do.                                           *)
LEMMA StartSeen ==
  ASSUME items = [o \in Objects |-> 0], aItems = [a \in Admissions |-> 0],
         EnforcedNow = [a \in Admissions |-> 0],
         KnownNow = [a \in Admissions |-> [o \in Objects |-> 0]]
  PROVE  E!Init
BY DEF E!Init, E!Nothing, EnforcedNow, KnownNow

(* What does not change any of the four does not show.                     *)
LEMMA StutterSeen ==
  ASSUME UNCHANGED <<items, aItems, EnforcedNow, KnownNow>> PROVE UNCHANGED E!vars
BY DEF E!vars, EnforcedNow, KnownNow

(* The cache stores an object and all enforced admissions it concerns      *)
(* know.                                                                   *)
LEMMA ObjectChangesSeen ==
  ASSUME NEW o \in Objects, NEW version \in 0..MaxVersion,
         items' = [items EXCEPT ![o] = version],
         KnownNow' = [a \in Admissions |->
                        IF EnforcedNow[a] # 0 /\ o \in About[a][EnforcedNow[a]]
                          THEN [KnownNow[a] EXCEPT ![o] = version] ELSE KnownNow[a]],
         UNCHANGED <<aItems, EnforcedNow>>
  PROVE  E!Next
<1>1. E!ObjectChanges(o)
  BY DEF E!ObjectChanges, E!Concerned, EnforcedNow, KnownNow, About
<1>2. QED
  BY <1>1 DEF E!Next

(* The cache of admissions stores another version.                         *)
LEMMA AdmissionChangesSeen ==
  ASSUME NEW a \in Admissions, NEW version \in 0..MaxAdmVersion,
         aItems' = [aItems EXCEPT ![a] = version],
         UNCHANGED <<items, EnforcedNow, KnownNow>>
  PROVE  E!Next
BY DEF E!Next, E!AdmissionChanges, EnforcedNow, KnownNow

(* An admission becomes enforced with all it has to know.                  *)
LEMMA EnforceSeen ==
  ASSUME NEW a \in Admissions, aItems[a] # 0, EnforcedNow[a] = 0,
         EnforcedNow' = [EnforcedNow EXCEPT ![a] = aItems[a]],
         KnownNow' = [KnownNow EXCEPT ![a] =
                        [o \in Objects |-> IF o \in About[a][aItems[a]] THEN items[o] ELSE 0]],
         UNCHANGED <<items, aItems>>
  PROVE  E!Next
<1>1. E!Enforce(a)
  BY DEF E!Enforce, EnforcedNow, KnownNow, About
<1>2. QED
  BY <1>1 DEF E!Next

(* A superseded code is dropped.                                           *)
LEMMA DropSeen ==
  ASSUME NEW a \in Admissions, EnforcedNow[a] \notin {0, aItems[a]},
         EnforcedNow' = [EnforcedNow EXCEPT ![a] = 0],
         KnownNow' = [KnownNow EXCEPT ![a] = [o \in Objects |-> 0]],
         UNCHANGED <<items, aItems>>
  PROVE  E!Next
<1>1. E!Drop(a)
  BY DEF E!Drop, E!Nothing, EnforcedNow, KnownNow
<1>2. QED
  BY <1>1 DEF E!Next

-----------------------------------------------------------------------------
(* What the controller does in these terms.  Since what is known is a      *)
(* function of what is enforced and what is cached, it is enough to say    *)
(* what becomes of these two, and of the admissions' cache.                *)
LEMMA NothingShows ==
  ASSUME KnowsTheCache, KnowsTheCache',
         UNCHANGED <<items, aItems, EnforcedNow>>
  PROVE  UNCHANGED E!vars
<1>1. UNCHANGED KnownNow
  BY DEF KnowsTheCache, Knowing
<1>2. QED
  BY <1>1, StutterSeen

(* An object's event: all enforced admissions it concerns know at once.    *)
LEMMA EventsAtomic ==
  ASSUME Inv, KnowsTheCache, KnowsTheCache', NEW r \in Resources, ResourceEvent(r)
  PROVE  E!Next
<1> DEFINE obj == event[r].obj
<1>1. /\ items' = [items EXCEPT ![obj] = event[r].new]
      /\ obj \in Objects /\ event[r].new \in 0..MaxVersion
  BY ResourceHandled, ResourceInHand DEF ResourceEvent, Inv, Watched
<1>2. UNCHANGED <<aItems, registry, valid>>
  BY DEF ResourceEvent, aVars
<1>3. UNCHANGED EnforcedNow
  BY <1>2 DEF EnforcedNow, Enforced
<1>4. items \in [Objects -> 0..MaxVersion]
  BY DEF Inv, Watched, RP!CacheInv, RP!TypeOK, RP!Versions
<1>5. KnownNow' = [a \in Admissions |->
                     IF EnforcedNow[a] # 0 /\ obj \in About[a][EnforcedNow[a]]
                       THEN [KnownNow[a] EXCEPT ![obj] = event[r].new] ELSE KnownNow[a]]
  <2>1. ASSUME NEW a \in Admissions
        PROVE  KnownNow'[a] = IF EnforcedNow[a] # 0 /\ obj \in About[a][EnforcedNow[a]]
                                THEN [KnownNow[a] EXCEPT ![obj] = event[r].new]
                                ELSE KnownNow[a]
    <3>1. /\ KnownNow[a] = [o \in Objects |->
               IF EnforcedNow[a] # 0 /\ o \in About[a][EnforcedNow[a]] THEN items[o] ELSE 0]
          /\ KnownNow'[a] = [o \in Objects |->
               IF EnforcedNow[a] # 0 /\ o \in About[a][EnforcedNow[a]] THEN items'[o] ELSE 0]
      BY <1>3 DEF KnowsTheCache, Knowing
    <3>2. \A o \in Objects : items'[o] = IF o = obj THEN event[r].new ELSE items[o]
      BY <1>1, <1>4
    <3>3. QED
      BY <1>1, <3>1, <3>2
  <2>2. KnownNow' = [a \in Admissions |-> KnownNow'[a]]
    BY DEF KnowsTheCache, Knowing
  <2>3. QED
    BY <2>1, <2>2
<1>6. QED
  BY <1>1, <1>2, <1>3, <1>5, ObjectChangesSeen

(* An admission that goes from one set of enforced ones to another.        *)
LEMMA KnowingChanges ==
  ASSUME KnowsTheCache, KnowsTheCache',
         UNCHANGED items, NEW a \in Admissions, NEW v,
         EnforcedNow' = [EnforcedNow EXCEPT ![a] = v]
  PROVE  KnownNow' = [KnownNow EXCEPT ![a] =
                        [o \in Objects |-> IF v # 0 /\ o \in About[a][v] THEN items[o] ELSE 0]]
<1>1. \A b \in Admissions : EnforcedNow'[b] = IF b = a THEN v ELSE EnforcedNow[b]
  BY DEF EnforcedNow
<1>2. ASSUME NEW b \in Admissions
      PROVE  KnownNow'[b] =
               IF b = a THEN [o \in Objects |-> IF v # 0 /\ o \in About[a][v] THEN items[o] ELSE 0]
                        ELSE KnownNow[b]
  BY <1>1 DEF KnowsTheCache, Knowing
<1>3. KnownNow' = [b \in Admissions |-> KnownNow'[b]]
  BY DEF KnowsTheCache, Knowing
<1>4. KnownNow = [b \in Admissions |-> KnownNow[b]]
  BY DEF KnowsTheCache, Knowing
<1>5. QED
  BY <1>2, <1>3, <1>4

(* A code is no longer found from Remove or Upsert on: its version is not  *)
(* the one wanted any more.                                                *)
LEMMA OldCodesDropped ==
  ASSUME Inv, Fresh, KnowsTheCache, KnowsTheCache',
         NEW c \in Crds, RemoveAdmission(c) \/ UpsertAdmission(c)
  PROVE  E!Next \/ UNCHANGED E!vars
<1> DEFINE a == Adm(c)
<1>1. Watched /\ OwnTypes /\ LoadInv
  BY DEF Inv
<1>2. /\ aMux = c /\ a \in Admissions /\ Version(c) \in 1..MaxAdmVersion
      /\ aItems[a] = IF Deleted(c) THEN 0 ELSE Version(c)
  BY <1>1, AtWork DEF RemoveAdmission, UpsertAdmission, At
<1>3. UNCHANGED <<items, aItems>>
  BY DEF RemoveAdmission, UpsertAdmission, rVars, aVars
<1>4. /\ a \notin valid' /\ valid' = valid \ {a}
      /\ \A b \in Admissions : b # a => registry'[b] = registry[b]
  BY <1>1 DEF RemoveAdmission, Remove, UpsertAdmission, Upsert, OwnTypes
<1>5. EnforcedNow' = [EnforcedNow EXCEPT ![a] = 0]
  BY <1>2, <1>4 DEF EnforcedNow, Enforced
<1>6. CASE a \notin valid
  <2>1. EnforcedNow' = EnforcedNow
    BY <1>2, <1>5, <1>6 DEF EnforcedNow, Enforced
  <2>2. QED
    BY <1>3, <2>1, NothingShows
<1>7. CASE a \in valid
  <2>1. EnforcedNow[a] = registry[a] /\ registry[a] # 0
    BY <1>1, <1>2, <1>7 DEF EnforcedNow, Enforced, LoadInv, CodesFit
  <2>2. registry[a] # aItems[a]
    BY <1>2, <2>1 DEF Fresh, RemoveAdmission, UpsertAdmission, At
  <2>3. KnownNow' = [KnownNow EXCEPT ![a] = [o \in Objects |-> 0]]
    <3>1. KnownNow' = [KnownNow EXCEPT ![a] =
                         [o \in Objects |-> IF 0 # 0 /\ o \in About[a][0] THEN items[o] ELSE 0]]
      BY <1>2, <1>3, <1>5, KnowingChanges
    <3>2. [o \in Objects |-> IF 0 # 0 /\ o \in About[a][0] THEN items[o] ELSE 0]
            = [o \in Objects |-> 0]
      OBVIOUS
    <3>3. QED
      BY <3>1, <3>2
  <2>4. QED
    BY <1>2, <1>3, <1>5, <2>1, <2>2, <2>3, DropSeen
<1>8. QED
  BY <1>6, <1>7

(* A code becomes valid at once with all it has to know.                   *)
LEMMA LoadsAtomic ==
  ASSUME Inv, KnowsTheCache, KnowsTheCache',
         NEW c \in Crds, MakeAdmissionValid(c)
  PROVE  E!Next
<1> DEFINE a == Adm(c)
<1>1. Watched /\ OwnTypes /\ LoadInv
  BY DEF Inv
<1>2. /\ aMux = c /\ a \in Admissions /\ Version(c) # 0 /\ a \notin valid
      /\ registry[a] = Version(c) /\ aItems[a] = Version(c)
  BY <1>1, AtWork DEF MakeAdmissionValid, At, LoadInv, LoadingFits
<1>3. UNCHANGED <<items, aItems, registry>> /\ valid' = valid \cup {a}
  BY DEF MakeAdmissionValid, MakeValid, rVars, aVars
<1>4. EnforcedNow[a] = 0 /\ EnforcedNow' = [EnforcedNow EXCEPT ![a] = aItems[a]]
  BY <1>2, <1>3 DEF EnforcedNow, Enforced
<1>5. KnownNow' = [KnownNow EXCEPT ![a] =
                     [o \in Objects |-> IF o \in About[a][aItems[a]] THEN items[o] ELSE 0]]
  <2>1. KnownNow' = [KnownNow EXCEPT ![a] =
          [o \in Objects |-> IF aItems[a] # 0 /\ o \in About[a][aItems[a]] THEN items[o] ELSE 0]]
    BY <1>2, <1>3, <1>4, KnowingChanges
  <2>2. QED
    BY <1>2, <2>1
<1>6. QED
  BY <1>2, <1>3, <1>4, <1>5, EnforceSeen

(* So every step is an abstract step or does not show.                     *)
LEMMA Simulates ==
  Inv /\ ViewInv /\ Fresh /\ [Next]_vars /\ Inv' /\ ViewInv' => [E!Next]_(E!vars)
<1> SUFFICES ASSUME Inv, ViewInv, Fresh, [Next]_vars, Inv', ViewInv'
             PROVE  E!Next \/ UNCHANGED E!vars
  OBVIOUS
<1>1. KnowsTheCache
  BY KnownIsCached
<1>2. KnowsTheCache'
  BY KnownIsCached, PTL
<1>3. Watched /\ OwnTypes
  BY DEF Inv
<1>4. ASSUME UNCHANGED <<items, aItems, registry, valid>> PROVE UNCHANGED E!vars
  <2>1. UNCHANGED EnforcedNow
    BY <1>4 DEF EnforcedNow, Enforced
  <2>2. QED
    BY <1>1, <1>2, <1>4, <2>1, NothingShows
<1>5. CASE Bystanders \/ UNCHANGED vars
  BY <1>3, <1>4, <1>5, BystandersQuiet DEF Watched, Quiet
<1>6. ASSUME NEW c \in Crds, AdmissionEvent(c) PROVE E!Next
  <2>1. /\ aItems' = [aItems EXCEPT ![Adm(c)] = aEvent[c].new]
        /\ Adm(c) \in Admissions /\ aEvent[c].new \in 0..MaxAdmVersion
    <3>1. aEvent[c] # NoEvent /\ aItems' = [aItems EXCEPT ![Adm(c)] = aEvent[c].new]
      BY <1>3, <1>6, AdmissionHandled DEF AdmissionEvent, Watched
    <3>2. /\ Adm(c) \in Admissions /\ Version(c) \in 1..MaxAdmVersion
          /\ aEvent[c].new = IF Deleted(c) THEN 0 ELSE Version(c)
      BY <1>3, <3>1, AdmissionInHand DEF Watched
    <3>3. QED
      BY <3>1, <3>2, ControllerAssumption
  <2>2. UNCHANGED <<items, registry, valid>>
    BY <1>6 DEF AdmissionEvent, rVars
  <2>3. UNCHANGED EnforcedNow
    BY <2>2 DEF EnforcedNow, Enforced
  <2>4. UNCHANGED KnownNow
    BY <1>1, <1>2, <2>2, <2>3 DEF KnowsTheCache, Knowing
  <2>5. QED
    BY <2>1, <2>2, <2>3, <2>4, AdmissionChangesSeen
<1>7. ASSUME NEW c \in Crds, Works(c) PROVE E!Next \/ UNCHANGED E!vars
  <2>1. CASE RemoveAdmission(c) \/ UpsertAdmission(c)
    BY <1>1, <1>2, <2>1, OldCodesDropped
  <2>2. CASE MakeAdmissionValid(c)
    BY <1>1, <1>2, <2>2, LoadsAtomic
  <2>3. CASE \/ DiscoveryFails(c) \/ KindsResolved(c) \/ WatchKind(c) \/ KindSynced(c)
             \/ AllWatched(c) \/ LockKind(c) \/ InitCode(c) \/ CreatedForAll(c) \/ UnlockKinds(c)
    <3>1. UNCHANGED <<registry, valid>>
      BY <2>3 DEF DiscoveryFails, KindsResolved, WatchKind, KindSynced, AllWatched, LockKind,
                  InitCode, CreatedForAll, UnlockKinds
    <3>2. UNCHANGED <<items, aItems>>
      BY <1>3, <1>7, LoadersLeave, WorksOn
    <3>3. QED
      BY <1>4, <3>1, <3>2
  <2>4. QED
    BY <1>7, <2>1, <2>2, <2>3 DEF Works
<1>8. ASSUME NEW c \in Crds, AdmissionEventDone(c) PROVE UNCHANGED E!vars
  BY <1>4, <1>8 DEF AdmissionEventDone, A!HandlerDone, rVars
<1>9. ASSUME NEW r \in Resources, ResourceEvent(r) PROVE E!Next
  BY <1>1, <1>2, <1>9, EventsAtomic
<1>10. ASSUME NEW r \in Resources, TellCode(r) \/ ResourceEventDone(r) PROVE UNCHANGED E!vars
  BY <1>4, <1>10 DEF TellCode, ResourceEventDone, R!HandlerDone, rVars, aVars
<1>11. QED
  BY <1>5, <1>6, <1>7, <1>8, <1>9, <1>10, StepCases

(* At the start nothing is watched and nothing enforced.                   *)
LEMMA StartsNotEnforcing == Init => E!Init
<1> SUFFICES ASSUME Init PROVE E!Init
  OBVIOUS
<1>1. items = [o \in Objects |-> 0] /\ aItems = [a \in Admissions |-> 0]
  BY DEF Init, R!WatcherInit, R!CacheInit, A!WatcherInit, A!CacheInit
<1>2. valid = {}
  BY DEF Init, AdmissionsInit
<1>3. EnforcedNow = [a \in Admissions |-> 0]
  BY <1>2 DEF EnforcedNow, Enforced
<1>4. KnownNow = [a \in Admissions |-> [o \in Objects |-> 0]]
  BY <1>2 DEF KnownNow, Known
<1>5. QED
  BY <1>1, <1>3, <1>4, StartSeen

(* Loads and events appear atomic: the controller, with its two watchers,  *)
(* locks and hooks, implements Enforcement.                                *)
THEOREM Implements == Spec => EnforcementSpec
<1>1. Spec => E!Init /\ [][E!Next]_(E!vars)
  BY StartsNotEnforcing, Simulates, InvAlways, ViewInvAlways, FreshAlways, PTL DEF Spec
<1>2. QED
  BY <1>1 DEF EnforcementSpec, E!Spec

=============================================================================
