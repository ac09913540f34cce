--------------------------- MODULE ConvergenceProofs --------------------------
(***************************************************************************)
(* What the controller has come to whenever it is settled, whatever        *)
(* admissions, resources and objects there are: the part of                *)
(* AdmissionsConverge that is no matter of fairness.                       *)
(***************************************************************************)
EXTENDS ControllerProofs

-----------------------------------------------------------------------------
(* The resources a registered code is about are watched, for its loader    *)
(* has watched all of them before it replaced the code.                    *)
KindsWatched ==
  /\ \A a \in Admissions :
       registry[a] # 0 => \A r \in Kinds(a, registry[a]) : informer[r] # "none"
  /\ step \in {"watching", "adding"} =>
       \A r \in Range(SpecKinds(aMux)) : informer[r] # "none" \/ r \in Range(left)
  /\ step = "adding" => informer[Head(left)] # "none"
  /\ step = "locking" => \A r \in Range(SpecKinds(aMux)) : informer[r] # "none"

(* A version that exists is about resources.                               *)
LEMMA KindsAreResources ==
  ASSUME NEW a \in Admissions, NEW v \in 1..MaxAdmVersion
  PROVE  Kinds(a, v) \subseteq Resources
<1>1. KindsOf[a][v] \in Seq(Resources)
  BY ControllerAssumption
<1>2. QED
  BY <1>1 DEF Kinds, Range

(* What is left of a loop after its first kind.                            *)
LEMMA TailKinds ==
  ASSUME left \in Seq(Resources), left # <<>>
  PROVE  /\ Head(left) \in Resources
         /\ \A r \in Range(left) : r = Head(left) \/ r \in Range(Tail(left))
<1>1. \A i \in 1..Len(left) : i = 1 \/ (i - 1 \in 1..Len(Tail(left)) /\ Tail(left)[i - 1] = left[i])
  OBVIOUS
<1>2. DOMAIN left = 1..Len(left) /\ DOMAIN Tail(left) = 1..Len(Tail(left)) /\ Head(left) = left[1]
  OBVIOUS
<1>3. ASSUME NEW r \in Range(left) PROVE r = Head(left) \/ r \in Range(Tail(left))
  <2>1. PICK i \in 1..Len(left) : r = left[i]
    BY <1>2, <1>3 DEF Range
  <2>2. CASE i = 1
    BY <1>2, <2>1, <2>2
  <2>3. CASE i # 1
    BY <1>1, <1>2, <2>1, <2>3 DEF Range
  <2>4. QED
    BY <2>2, <2>3
<1>4. QED
  BY <1>3

(* An informer that was started is never taken back.                       *)
LEMMA WatchesStay ==
  ASSUME Watched, R!Next \/ UNCHANGED rVars
  PROVE  \A r \in Resources : informer[r] # "none" => informer'[r] # "none"
<1>1. informer \in [Resources -> {"none", "starting", "synced", "lost"}]
  BY DEF Watched, RP!CacheInv, RP!TypeOK
<1>2. CASE R!Environment
  BY <1>1, <1>2 DEF R!Environment, R!Users, R!Write, R!Delete, R!LoseWatch, R!List
<1>3. ASSUME NEW t \in Crds, R!Caller(t)
      PROVE  \A r \in Resources : informer[r] # "none" => informer'[r] # "none"
  BY <1>1, <1>3 DEF R!Caller, R!AddStart, R!AddExisting, R!AddDone, R!LockResource,
                    R!UnlockResource, R!watcherVars, R!informerVars
<1>4. ASSUME NEW r \in Resources, R!Receive(r) \/ R!Handle(r) \/ R!HandlerDone(r)
      PROVE  UNCHANGED informer
  BY <1>4 DEF R!Receive, R!Handle, R!AddFunc, R!UpdateFunc, R!DeleteFunc, R!HandlerLock,
              R!HandlerDone, R!informerVars
<1>5. CASE UNCHANGED rVars
  BY <1>5 DEF rVars
<1>6. QED
  BY <1>2, <1>3, <1>4, <1>5 DEF R!Next

(* Nobody but its loader changes what a code is about, and the loader only *)
(* once every kind has been watched.                                       *)
LEMMA KindsLoad ==
  ASSUME Inv, KindsWatched, NEW c \in Crds, Works(c) PROVE KindsWatched'
<1>1. Watched /\ OwnTypes /\ LoadInv
  BY DEF Inv
<1>2. /\ aMux = c /\ aMux' = c /\ SpecKinds(c)' = SpecKinds(c)
      /\ Adm(c) \in Admissions /\ Version(c) \in 1..MaxAdmVersion
      /\ SpecKinds(c) = KindsOf[Adm(c)][Version(c)]
  BY <1>1, WorksOn, AtWork DEF SpecKinds, Adm, Version, Deleted
<1>3. \A r \in Resources : informer[r] # "none" => informer'[r] # "none"
  BY <1>1, WatchesStay, StepsOfWatchers DEF OwnTypes, Next, Load, Works
<1>4. Range(SpecKinds(c)) \subseteq Resources
  BY <1>2, KindsAreResources DEF Kinds
<1>5. ASSUME UNCHANGED registry
      PROVE  \A a \in Admissions :
               registry'[a] # 0 => \A r \in Kinds(a, registry'[a]) : informer'[r] # "none"
  <2> TAKE a \in Admissions
  <2>1. registry[a] # 0 => registry[a] \in 1..MaxAdmVersion
    BY <1>1, ControllerAssumption DEF OwnTypes
  <2>2. QED
    BY <1>3, <1>5, <2>1, KindsAreResources DEF KindsWatched
<1>6. CASE KindsResolved(c)
  BY <1>2, <1>5, <1>6 DEF KindsResolved, KindsWatched
<1>7. CASE WatchKind(c)
  <2>1. Head(left) \in Resources /\ \A r \in Range(left) : r = Head(left) \/ r \in Range(Tail(left))
    BY <1>1, <1>7, TailKinds DEF OwnTypes, WatchKind
  <2>2. informer'[Head(left)] # "none"
    <3>1. informer \in [Resources -> {"none", "starting", "synced", "lost"}]
      BY <1>1 DEF Watched, RP!CacheInv, RP!TypeOK
    <3>2. QED
      BY <1>7, <2>1, <3>1 DEF WatchKind, R!AddStart, R!AddExisting, R!watcherVars, R!informerVars
  <2>3. \A r \in Range(SpecKinds(c)) : informer'[r] # "none" \/ r \in Range(left)
    BY <1>2, <1>3, <1>4, <1>7 DEF WatchKind, At, KindsWatched
  <2>4. CASE step' = "adding" /\ UNCHANGED left
    BY <1>2, <1>5, <1>7, <2>2, <2>3, <2>4 DEF WatchKind, KindsWatched
  <2>5. CASE left' = Tail(left) /\ UNCHANGED step
    BY <1>2, <1>5, <1>7, <2>1, <2>2, <2>3, <2>5 DEF WatchKind, At, KindsWatched
  <2>6. QED
    BY <1>7, <2>4, <2>5 DEF WatchKind
<1>8. CASE KindSynced(c)
  <2>1. \A r \in Range(left) : r = Head(left) \/ r \in Range(Tail(left))
    BY <1>1, <1>8, TailKinds DEF OwnTypes, KindSynced, At
  <2>2. UNCHANGED informer
    BY <1>8 DEF KindSynced, R!AddDone, R!informerVars
  <2>3. QED
    BY <1>2, <1>5, <1>8, <2>1, <2>2 DEF KindSynced, At, KindsWatched
<1>9. CASE AllWatched(c)
  <2>1. \A r \in Range(left) : FALSE
    BY <1>9 DEF AllWatched, Range
  <2>2. QED
    BY <1>2, <1>5, <1>9, <2>1 DEF AllWatched, At, KindsWatched, rVars
<1>10. CASE LockKind(c)
  <2>1. UNCHANGED informer
    BY <1>10 DEF LockKind, R!LockResource, R!informerVars
  <2>2. QED
    BY <1>2, <1>5, <1>10, <2>1 DEF LockKind, At, KindsWatched
<1>11. CASE UpsertAdmission(c)
  <2>1. /\ registry'[Adm(c)] \in {0, Version(c)} /\ UNCHANGED informer
        /\ \A a \in Admissions : a # Adm(c) => registry'[a] = registry[a]
        /\ step' \in {"initialising", "unlocking"}
    BY <1>1, <1>2, <1>11 DEF UpsertAdmission, Upsert, OwnTypes, rVars
  <2>2. \A r \in Kinds(Adm(c), Version(c)) : informer[r] # "none"
    BY <1>2, <1>11 DEF UpsertAdmission, At, KindsWatched, Kinds
  <2>3. ASSUME NEW a \in Admissions, registry'[a] # 0
        PROVE  \A r \in Kinds(a, registry'[a]) : informer'[r] # "none"
    BY <2>1, <2>2, <2>3 DEF KindsWatched
  <2>4. QED
    BY <2>1, <2>3 DEF KindsWatched
<1>12. CASE RemoveAdmission(c)
  <2>1. /\ registry'[Adm(c)] = 0 /\ UNCHANGED informer /\ step' = "returning"
        /\ \A a \in Admissions : a # Adm(c) => registry'[a] = registry[a]
    BY <1>1, <1>2, <1>12 DEF RemoveAdmission, Remove, OwnTypes, rVars
  <2>2. ASSUME NEW a \in Admissions, registry'[a] # 0
        PROVE  \A r \in Kinds(a, registry'[a]) : informer'[r] # "none"
    BY <2>1, <2>2 DEF KindsWatched
  <2>3. QED
    BY <2>1, <2>2 DEF KindsWatched
<1>13. CASE DiscoveryFails(c) \/ InitCode(c) \/ CreatedForAll(c) \/ MakeAdmissionValid(c)
            \/ UnlockKinds(c)
  <2>1. UNCHANGED registry /\ step' \in {"returning", "replaying", "unlocking"}
    BY <1>13 DEF DiscoveryFails, InitCode, CreatedForAll, MakeAdmissionValid, MakeValid, UnlockKinds, At
  <2>2. QED
    BY <1>5, <2>1 DEF KindsWatched
<1>14. QED
  BY <1>6, <1>7, <1>8, <1>9, <1>10, <1>11, <1>12, <1>13 DEF Works

(* Every step keeps it.                                                    *)
LEMMA KindsStep == Inv /\ KindsWatched /\ [Next]_vars => KindsWatched'
<1> SUFFICES ASSUME Inv, KindsWatched, [Next]_vars PROVE KindsWatched'
  OBVIOUS
<1>1. Watched /\ OwnTypes /\ LoadInv
  BY DEF Inv
<1>2. \A r \in Resources : informer[r] # "none" => informer'[r] # "none"
  BY <1>1, WatchesStay, StepsOfWatchers DEF OwnTypes
<1>3. ASSUME UNCHANGED registry
      PROVE  \A a \in Admissions :
               registry'[a] # 0 => \A r \in Kinds(a, registry'[a]) : informer'[r] # "none"
  <2> TAKE a \in Admissions
  <2>1. registry[a] # 0 => registry[a] \in 1..MaxAdmVersion
    BY <1>1, ControllerAssumption DEF OwnTypes
  <2>2. QED
    BY <1>2, <1>3, <2>1, KindsAreResources DEF KindsWatched
<1>4. ASSUME UNCHANGED <<registry, step, left>>,
             step \in {"watching", "adding", "locking"} => SpecKinds(aMux)' = SpecKinds(aMux)
      PROVE  KindsWatched'
  <2>1. step \in {"watching", "adding", "locking"} => Range(SpecKinds(aMux)) \subseteq Resources
    <3>1. step # "none" => aMux \in Crds
      BY <1>1 DEF OwnTypes
    <3>2. QED
      BY <1>1, <3>1, AtWork, KindsAreResources DEF Kinds
  <2>2. step = "adding" => Head(left) \in Resources
    BY <1>1, TailKinds DEF OwnTypes
  <2>3. QED
    BY <1>2, <1>3, <1>4, <2>1, <2>2 DEF KindsWatched
<1>5. CASE Bystanders \/ UNCHANGED vars
  <2>1. Quiet
    BY <1>1, <1>5, BystandersQuiet DEF Watched
  <2>2. step # "none" => aMux \in Crds
    BY <1>1 DEF OwnTypes
  <2>3. step # "none" => SpecKinds(aMux)' = SpecKinds(aMux)
    BY <2>1, <2>2 DEF Quiet, SpecKinds, Adm, Version, Deleted
  <2>4. QED
    BY <1>4, <2>1, <2>3 DEF Quiet, jsVars, ctrlVars
<1>6. ASSUME NEW c \in Crds, AdmissionEvent(c) \/ AdmissionEventDone(c) PROVE KindsWatched'
  <2>1. UNCHANGED registry /\ step' \in {"resolving", "none"}
    BY <1>6 DEF AdmissionEvent, AdmissionEventDone
  <2>2. QED
    BY <1>3, <2>1 DEF KindsWatched
<1>7. ASSUME NEW r \in Resources, ResourceEvent(r) \/ TellCode(r) \/ ResourceEventDone(r)
      PROVE  KindsWatched'
  <2>1. UNCHANGED <<registry, step, left, aMux, aEvent>>
    BY <1>7 DEF ResourceEvent, TellCode, ResourceEventDone, aVars, ctrlVars
  <2>2. SpecKinds(aMux)' = SpecKinds(aMux)
    BY <2>1 DEF SpecKinds, Adm, Version, Deleted
  <2>3. QED
    BY <1>4, <2>1, <2>2
<1>8. QED
  BY <1>5, <1>6, <1>7, StepCases, KindsLoad

-----------------------------------------------------------------------------
(* Where no load fails, an admission that is not in hand, or no longer, is *)
(* loaded if and only if the cache has it.                                 *)
LoadsSucceed == Failures \cap {"compile", "init", "created"} = {}

Loaded(a) == registry[a] = aItems[a] /\ (registry[a] # 0 => a \in valid)

LoadedFits ==
  \A a \in Admissions \ unresolved :
    \/ Loaded(a)
    \/ aMux \in Crds /\ Adm(aMux) = a /\ step \notin {"unlocking", "returning"}

(* The handler leaves an admission loaded, removed or marked unresolved.   *)
LEMMA LoadedLoad ==
  ASSUME LoadsSucceed, Inv, LoadedFits, NEW c \in Crds, Works(c) PROVE LoadedFits'
<1>1. Watched /\ OwnTypes /\ LoadInv
  BY DEF Inv
<1>2. /\ aMux = c /\ aMux' = c /\ UNCHANGED aItems /\ Adm(c)' = Adm(c) /\ Adm(c) \in Admissions
      /\ aItems[Adm(c)] = IF Deleted(c) THEN 0 ELSE Version(c)
  BY <1>1, WorksOn, AtWork DEF Adm
<1>3. ASSUME NEW a \in Admissions, a # Adm(c), a \notin unresolved' PROVE Loaded(a)'
  <2>1. Loaded(a)
    BY <1>2, <1>3
       DEF LoadedFits, Works, DiscoveryFails, RemoveAdmission, KindsResolved, WatchKind,
           KindSynced, AllWatched, LockKind, UpsertAdmission, InitCode, CreatedForAll,
           MakeAdmissionValid, UnlockKinds, jsVars
  <2>2. /\ registry'[a] = registry[a]
        /\ a \in valid' <=> a \in valid
    BY <1>1, <1>2, <1>3
       DEF Works, DiscoveryFails, RemoveAdmission, Remove, KindsResolved, WatchKind,
           KindSynced, AllWatched, LockKind, UpsertAdmission, Upsert, InitCode, CreatedForAll,
           MakeAdmissionValid, MakeValid, UnlockKinds, OwnTypes
  <2>3. QED
    BY <1>2, <2>1, <2>2 DEF Loaded
<1>4. CASE step' \notin {"unlocking", "returning"}
  BY <1>2, <1>3, <1>4 DEF LoadedFits
<1>5. CASE step' \in {"unlocking", "returning"}
  <2>1. Adm(c) \in unresolved' \/ Loaded(Adm(c))'
    <3>1. CASE DiscoveryFails(c)
      BY <1>2, <3>1 DEF DiscoveryFails
    <3>2. CASE RemoveAdmission(c)
      BY <1>1, <1>2, <3>2 DEF RemoveAdmission, Remove, Loaded, OwnTypes
    <3>3. CASE MakeAdmissionValid(c)
      <4>1. registry[Adm(c)] = Version(c) /\ ~Deleted(c)
        BY <1>1, <1>2, <3>3 DEF LoadInv, LoadingFits, MakeAdmissionValid, At
      <4>2. QED
        BY <1>2, <3>3, <4>1 DEF MakeAdmissionValid, MakeValid, Loaded
    <3>4. CASE UnlockKinds(c)
      BY <1>2, <3>4 DEF UnlockKinds, At, LoadedFits, Loaded, jsVars
    <3>5. CASE UpsertAdmission(c) \/ InitCode(c) \/ CreatedForAll(c)
      BY <1>5, <3>5 DEF UpsertAdmission, InitCode, CreatedForAll, At, LoadsSucceed
    <3>6. CASE \/ KindsResolved(c) \/ WatchKind(c) \/ KindSynced(c) \/ AllWatched(c)
               \/ LockKind(c)
      BY <1>5, <3>6 DEF KindsResolved, WatchKind, KindSynced, AllWatched, LockKind, At
    <3>7. QED
      BY <3>1, <3>2, <3>3, <3>4, <3>5, <3>6 DEF Works
  <2>2. QED
    BY <1>2, <1>3, <2>1 DEF LoadedFits, Loaded
<1>6. QED
  BY <1>4, <1>5

(* Every step keeps it.                                                    *)
LEMMA LoadedStep == LoadsSucceed /\ Inv /\ LoadedFits /\ [Next]_vars => LoadedFits'
<1> SUFFICES ASSUME LoadsSucceed, Inv, LoadedFits, [Next]_vars PROVE LoadedFits'
  OBVIOUS
<1>1. Watched /\ OwnTypes /\ LoadInv
  BY DEF Inv
<1>2. CASE Bystanders \/ UNCHANGED vars
  <2>1. Quiet
    BY <1>1, <1>2, BystandersQuiet DEF Watched
  <2>2. QED
    BY <2>1 DEF Quiet, LoadedFits, Loaded, Adm, jsVars, ctrlVars
<1>3. ASSUME NEW c \in Crds, AdmissionEvent(c) PROVE LoadedFits'
  <2>1. /\ aMux \notin Crds /\ aMux' = c /\ UNCHANGED <<aEvent, registry, valid, unresolved>>
        /\ aItems' = [aItems EXCEPT ![Adm(c)] = aEvent[c].new]
        /\ step' = "resolving"
    BY <1>1, <1>3, AdmissionHandled, ApartFacts DEF AdmissionEvent, Watched, jsVars
  <2>2. aItems \in [Admissions -> 0..MaxAdmVersion]
    BY <1>1 DEF Watched, AP!CacheInv, AP!TypeOK, AP!Versions
  <2>3. QED
    BY <2>1, <2>2 DEF LoadedFits, Loaded, Adm
<1>4. ASSUME NEW c \in Crds, AdmissionEventDone(c) PROVE LoadedFits'
  <2>1. /\ aMux = c /\ step = "returning"
        /\ UNCHANGED <<registry, valid, unresolved, aItems>>
    BY <1>4 DEF AdmissionEventDone, At, A!HandlerDone, jsVars
  <2>2. QED
    BY <2>1 DEF LoadedFits, Loaded
<1>5. ASSUME NEW r \in Resources, ResourceEvent(r) \/ TellCode(r) \/ ResourceEventDone(r)
      PROVE  LoadedFits'
  <2>1. UNCHANGED <<aMux, aEvent, aItems, step, registry, valid, unresolved>>
    BY <1>5 DEF ResourceEvent, TellCode, ResourceEventDone, aVars, jsVars, ctrlVars
  <2>2. Adm(aMux)' = Adm(aMux) /\ \A a \in Admissions : Loaded(a)' <=> Loaded(a)
    BY <2>1 DEF Adm, Loaded
  <2>3. QED
    BY <2>1, <2>2 DEF LoadedFits
<1>6. QED
  BY <1>2, <1>3, <1>4, <1>5, StepCases, LoadedLoad

-----------------------------------------------------------------------------
(* A settled controller has no admission and no object in hand.            *)
LEMMA NobodyAtWork ==
  ASSUME Watched, Settled PROVE aMux \notin Crds /\ mux \notin Resources
BY DEF Watched, RP!CacheInv, RP!HandlersBusy, AP!CacheInv, AP!HandlersBusy,
       Settled, R!Idle, A!Idle

(* Then the registry agrees with the admissions' cache, this with the      *)
(* cluster, and the codes' views with the other cache and the cluster.     *)
LEMMA SettledHolds ==
  Inv /\ CodeFollows /\ ViewInv /\ KindsWatched /\ (LoadsSucceed => LoadedFits)
    => SettledConverges
<1> SUFFICES ASSUME Inv, CodeFollows, ViewInv, KindsWatched, LoadsSucceed => LoadedFits,
                    Settled, NEW a \in Admissions \ (aStale \cup unresolved)
             PROVE  /\ registry[a] \in {0, aCluster[a]}
                    /\ a \in valid => \A o \in Objects \ stale :
                         Matches(a, o) /\ <<a, o>> \notin missed => view[a][o] = cluster[o]
                    /\ LoadsSucceed =>
                         registry[a] = aCluster[a] /\ (registry[a] # 0 => a \in valid)
  BY DEF SettledConverges, LoadsSucceed
<1>1. Watched /\ OwnTypes
  BY DEF Inv
<1>2. aMux \notin Crds /\ mux \notin Resources
  BY <1>1, NobodyAtWork
<1>3. aItems[a] = aCluster[a]
  <2>1. CrdOf[a] \in Crds
    BY DEF CrdOf, Crds
  <2>2. aInformer[CrdOf[a]] = "synced" /\ AP!Idle(CrdOf[a])
    BY <2>1 DEF Settled, A!Idle, AP!Idle
  <2>3. QED
    BY <1>1, <2>2, WatchersAssumed, AP!IdleAgrees DEF Watched
<1>4. registry[a] \in {0, aCluster[a]}
  BY <1>2, <1>3 DEF CodeFollows, NoSupersededCode
<1>5. ASSUME a \in valid, NEW o \in Objects \ stale, Matches(a, o), <<a, o>> \notin missed
      PROVE  view[a][o] = cluster[o]
  <2>1. view[a][o] = items[o]
    BY <1>2, <1>5 DEF ViewInv, Agrees, BeingTold
  <2>2. ResourceOf[o] \in Resources /\ informer[ResourceOf[o]] # "none"
    BY <1>5, ControllerAssumption DEF Matches, KindsWatched
  <2>3. informer[ResourceOf[o]] = "synced" /\ RP!Idle(ResourceOf[o])
    BY <2>2 DEF Settled, R!Idle, RP!Idle
  <2>4. items[o] = cluster[o]
    BY <1>1, <2>3, WatchersAssumed, RP!IdleAgrees DEF Watched
  <2>5. QED
    BY <2>1, <2>4
<1>6. LoadsSucceed => registry[a] = aCluster[a] /\ (registry[a] # 0 => a \in valid)
  BY <1>2, <1>3 DEF LoadedFits, Loaded
<1>7. QED
  BY <1>4, <1>5, <1>6

(* At the start nothing is loaded.                                         *)
LEMMA ConvergenceInit == Init => CodeFollows /\ KindsWatched /\ LoadedFits
<1> SUFFICES ASSUME Init PROVE CodeFollows /\ KindsWatched /\ LoadedFits
  OBVIOUS
<1>1. CodeFollows
  BY DEF Init, AdmissionsInit, CodeFollows, NoSupersededCode, ReplacedFits
<1>2. KindsWatched
  BY DEF Init, AdmissionsInit, KindsWatched
<1>3. LoadedFits
  BY DEF Init, AdmissionsInit, A!WatcherInit, A!CacheInit, LoadedFits, Loaded
<1>4. QED
  BY <1>1, <1>2, <1>3

(* Whatever admissions, objects and failures there are and whatever was    *)
(* delayed, replaced or retried before: a controller with nothing on its   *)
(* way enforces what the cluster has, and its codes know what exists.      *)
THEOREM SettledIsRight == Spec => []SettledConverges
<1>1. CASE LoadsSucceed
  <2>1. Inv /\ CodeFollows /\ ViewInv /\ KindsWatched /\ LoadedFits => SettledConverges
    BY SettledHolds
  <2>2. LoadedFits /\ Inv /\ [Next]_vars => LoadedFits'
    BY <1>1, LoadedStep
  <2>3. QED
    BY <2>1, <2>2, ConvergenceInit, CodeStep, KindsStep, InvAlways, ViewInvAlways, PTL DEF Spec
<1>2. CASE ~LoadsSucceed
  <2>1. Inv /\ CodeFollows /\ ViewInv /\ KindsWatched => SettledConverges
    BY <1>2, SettledHolds
  <2>2. QED
    BY <2>1, ConvergenceInit, CodeStep, KindsStep, InvAlways, ViewInvAlways, PTL DEF Spec
<1>3. QED
  BY <1>1, <1>2

-----------------------------------------------------------------------------
(* Without failures nothing is excepted but refused deletions.             *)
NothingMissed == missed = {} /\ unresolved = {}

(* Every step keeps it.                                                    *)
LEMMA MissedStep == Failures = {} /\ NothingMissed /\ [Next]_vars => NothingMissed'
<1> SUFFICES ASSUME Failures = {}, NothingMissed, [Next]_vars PROVE NothingMissed'
  OBVIOUS
<1>1. CASE Bystanders \/ UNCHANGED vars
  BY <1>1 DEF Bystanders, Kubernetes, LoadClusterCrd, LoadNamespaceCrd, AddCrd, CrdAdded,
              ReceiveAdmission, ReceiveResource, vars, jsVars, NothingMissed
<1>2. ASSUME NEW c \in Crds, AdmissionEvent(c) \/ Works(c) \/ AdmissionEventDone(c)
      PROVE  NothingMissed'
  BY <1>2 DEF AdmissionEvent, AdmissionEventDone, Works, DiscoveryFails, RemoveAdmission,
              KindsResolved, WatchKind, KindSynced, AllWatched, LockKind, UpsertAdmission,
              InitCode, CreatedForAll, MakeAdmissionValid, UnlockKinds, jsVars, NothingMissed
<1>3. ASSUME NEW r \in Resources, ResourceEvent(r) \/ TellCode(r) \/ ResourceEventDone(r)
      PROVE  NothingMissed'
  BY <1>3 DEF ResourceEvent, TellCode, ResourceEventDone, jsVars, NothingMissed
<1>4. QED
  BY <1>1, <1>2, <1>3, StepCases

(* So if nothing fails, a controller that settles for good has converged:  *)
(* all that fairness adds to AdmissionsConverge is that it settles.        *)
THEOREM SettlingConverges ==
  Failures = {} => (Spec /\ <>[]Settled => AdmissionsConverge)
<1> SUFFICES ASSUME Failures = {} PROVE Spec /\ <>[]Settled => AdmissionsConverge
  OBVIOUS
<1>1. Init => NothingMissed
  BY DEF Init, NothingMissed
<1>2. NothingMissed /\ [Next]_vars => NothingMissed'
  BY MissedStep
<1>3. SettledConverges /\ NothingMissed /\ Settled =>
        \A a \in Admissions \ aStale :
          /\ registry[a] = aCluster[a]
          /\ registry[a] # 0 =>
               /\ a \in valid
               /\ \A o \in Objects \ stale : Matches(a, o) => view[a][o] = cluster[o]
  BY DEF SettledConverges, NothingMissed
<1>4. QED
  BY <1>1, <1>2, <1>3, SettledIsRight, PTL DEF Spec, AdmissionsConverge

=============================================================================
