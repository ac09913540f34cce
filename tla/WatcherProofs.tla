---------------------------- MODULE WatcherProofs ----------------------------
(***************************************************************************)
(* What holds of a Watcher whatever its resources and objects, and however *)
(* many threads call it.                                                   *)
(***************************************************************************)
EXTENDS Watcher, FiniteSetTheorems, SequenceTheorems, TLAPS

-----------------------------------------------------------------------------
(* The lists an informer may deliver a set in: each element has one place. *)
LEMMA ListsAll ==
  ASSUME NEW S, IsFiniteSet(S), NEW s \in SetToSeqs(S)
  PROVE  /\ s \in Seq(S)
         /\ \A x \in S : \E i \in 1..Len(s) : s[i] = x
         /\ \A i, j \in 1..Len(s) : s[i] = s[j] => i = j
<1>1. Cardinality(S) \in Nat
  BY FS_CardinalityType
<1>2. /\ s \in [1..Cardinality(S) -> S]
      /\ \A i, j \in 1..Cardinality(S) : i # j => s[i] # s[j]
  BY DEF SetToSeqs
<1>3. s \in Injection(1..Cardinality(S), S)
  BY <1>2 DEF Injection, IsInjective
<1>4. IsFiniteSet(1..Cardinality(S)) /\ Cardinality(1..Cardinality(S)) = Cardinality(S)
  BY <1>1, FS_Interval
<1>5. s \in Surjection(1..Cardinality(S), S)
  BY <1>3, <1>4, FS_Injection
<1>6. s \in Seq(S) /\ Len(s) = Cardinality(S)
  BY <1>1, <1>2
<1>7. QED
  BY <1>2, <1>5, <1>6 DEF Surjection

(* A list of the informer of r names each object of r at most once, and    *)
(* has what happened to it since the informer was last told.               *)
LEMMA ReplacementsOfOne ==
  ASSUME TypeOK, NEW r \in Resources, NEW batch \in SetToSeqs(Replacements(r))
  PROVE  /\ batch \in Seq(Notifications)
         /\ \A i \in 1..Len(batch) :
              /\ batch[i].obj \in Objects
              /\ ResourceOf[batch[i].obj] = r
              /\ batch[i].type # "delete"
              /\ batch[i].type # "tombstone" => batch[i].new # 0
              /\ batch[i].old = indexer[batch[i].obj]
              /\ batch[i].new = cluster[batch[i].obj]
              /\ batch[i].type = "add" => batch[i].old = 0
              /\ batch[i].type = "tombstone" => batch[i].old # 0
         /\ \A o \in Objects :
              ResourceOf[o] = r /\ (cluster[o] # 0 \/ indexer[o] # 0) =>
                \E i \in 1..Len(batch) : batch[i].obj = o
         /\ \A i, j \in 1..Len(batch) : batch[i].obj = batch[j].obj => i = j
<1> DEFINE P == {p \in Objects : ResourceOf[p] = r /\ (cluster[p] # 0 \/ indexer[p] # 0)}
           N(o) == Notification(IF cluster[o] = 0 THEN "tombstone"
                                ELSE IF indexer[o] = 0 THEN "add" ELSE "update",
                                o, cluster[o])
           f == [o \in P |-> N(o)]
<1>1. Replacements(r) = {N(o) : o \in P}
  BY DEF Replacements
<1>2. \A o \in P : /\ N(o) \in Notifications /\ N(o).obj = o /\ N(o).type # "delete"
                   /\ N(o).type # "tombstone" => N(o).new # 0
                   /\ N(o).old = indexer[o] /\ N(o).new = cluster[o]
                   /\ N(o).type = "add" => N(o).old = 0
                   /\ N(o).type = "tombstone" => N(o).old # 0
  BY DEF TypeOK, Notification, Notifications
<1> HIDE DEF N
<1>3. IsFiniteSet(P)
  BY InformersAssumption, FS_Subset
<1>4. f \in Surjection(P, Replacements(r))
  BY <1>1 DEF Surjection
<1> HIDE DEF f
<1>5. IsFiniteSet(Replacements(r))
  BY <1>3, <1>4, FS_Surjection
<1>6. /\ batch \in Seq(Replacements(r))
      /\ \A n \in Replacements(r) : \E i \in 1..Len(batch) : batch[i] = n
      /\ \A i, j \in 1..Len(batch) : batch[i] = batch[j] => i = j
  BY <1>5, ListsAll
<1>7. \A i \in 1..Len(batch) : \E o \in P : batch[i] = N(o)
  BY <1>1, <1>6, ElementOfSeq
<1>8. batch \in Seq(Notifications)
  BY <1>1, <1>2, <1>6, SeqMonotonic
<1>9. \A i \in 1..Len(batch) : batch[i].obj \in P /\ batch[i] = N(batch[i].obj)
  BY <1>2, <1>7
<1>10. \A o \in P : \E i \in 1..Len(batch) : batch[i].obj = o
  <2>1. \A o \in P : \E i \in 1..Len(batch) : batch[i] = N(o)
    BY <1>1, <1>6
  <2>2. QED
    BY <1>2, <2>1
<1>11. \A i, j \in 1..Len(batch) : batch[i].obj = batch[j].obj => i = j
  BY <1>6, <1>9
<1>12. QED
  BY <1>2, <1>8, <1>9, <1>10, <1>11

-----------------------------------------------------------------------------
(* A single notification leads from its old version to its new one.        *)
LEMMA LeadsOne ==
  ASSUME NEW n, NEW o, NEW a \in Versions, NEW b \in Versions,
         IF n.obj = o THEN n.old = a /\ n.new = b ELSE a = b
  PROVE  Leads(<<n>>, o, a, b)
<1> DEFINE v == [i \in 0..1 |-> IF i = 0 THEN a ELSE b]
<1>1. v \in [0..1 -> Versions] /\ v[0] = a /\ v[1] = b
  OBVIOUS
<1>2. Len(<<n>>) = 1 /\ <<n>>[1] = n /\ \A i \in 1..1 : i = 1 /\ i - 1 = 0
  OBVIOUS
<1> HIDE DEF v
<1>3. QED
  BY <1>1, <1>2 DEF Leads

(* With nothing on its way, what is held is what was told.                 *)
LEMMA LeadsNothing ==
  ASSUME NEW o, NEW a \in Versions PROVE Leads(<<>>, o, a, a)
<1> DEFINE v == [i \in 0..0 |-> a]
<1>1. v \in [0..0 -> Versions] /\ v[0] = a
  OBVIOUS
<1>2. Len(<<>>) = 0
  OBVIOUS
<1> HIDE DEF v
<1>3. QED
  BY <1>1, <1>2 DEF Leads

(* What leads on from where another path ends may follow it: what an       *)
(* informer queues behind what it queued before.                           *)
LEMMA LeadsOn ==
  ASSUME NEW p \in Seq(Notifications), NEW q \in Seq(Notifications), NEW o,
         NEW a, NEW b, NEW c, Leads(p, o, a, b), Leads(q, o, b, c)
  PROVE  Leads(p \o q, o, a, c)
<1> DEFINE s == p \o q
           m == Len(p)
           n == Len(q)
<1>1. /\ m \in Nat /\ n \in Nat /\ Len(s) = m + n
      /\ \A i \in 1..m : s[i] = p[i]
      /\ \A i \in m+1..m+n : i - m \in 1..n /\ s[i] = q[i - m]
  BY ConcatProperties, LenProperties
<1>2. PICK f \in [0..m -> Versions] :
        /\ f[0] = a /\ f[m] = b
        /\ \A i \in 1..m : IF p[i].obj = o THEN p[i].old = f[i-1] /\ p[i].new = f[i]
                                           ELSE f[i] = f[i-1]
  BY DEF Leads
<1>3. PICK g \in [0..n -> Versions] :
        /\ g[0] = b /\ g[n] = c
        /\ \A i \in 1..n : IF q[i].obj = o THEN q[i].old = g[i-1] /\ q[i].new = g[i]
                                           ELSE g[i] = g[i-1]
  BY DEF Leads
<1> DEFINE h == [i \in 0..m+n |-> IF i <= m THEN f[i] ELSE g[i - m]]
<1> HIDE DEF s, m, n
<1>4. h \in [0..m+n -> Versions] /\ h[0] = a /\ h[m + n] = c
  BY <1>1, <1>2, <1>3
<1>5. ASSUME NEW i \in 1..m+n
      PROVE  IF s[i].obj = o THEN s[i].old = h[i-1] /\ s[i].new = h[i]
                             ELSE h[i] = h[i-1]
  <2>1. CASE i <= m
    <3>1. i \in 1..m /\ s[i] = p[i]
      BY <1>1, <2>1
    <3>2. h[i] = f[i] /\ h[i-1] = f[i-1]
      BY <1>1, <2>1
    <3>3. QED
      BY <1>2, <3>1, <3>2
  <2>2. CASE i = m + 1
    <3>1. i - m = 1 /\ i - 1 = m /\ 1 \in 1..n /\ s[i] = q[1]
      <4>1. i \in m+1..m+n /\ i - m = 1 /\ i - 1 = m
        BY <1>1, <2>2
      <4>2. i - m \in 1..n /\ s[i] = q[i - m]
        BY <1>1, <4>1
      <4>3. QED
        BY <4>1, <4>2
    <3>2. h[i] = g[1] /\ h[i-1] = g[0]
      BY <1>1, <1>2, <1>3, <2>2, <3>1
    <3>3. IF q[1].obj = o THEN q[1].old = g[0] /\ q[1].new = g[1] ELSE g[1] = g[0]
      <4>1. 1 - 1 = 0
        OBVIOUS
      <4>2. QED
        BY <1>3, <3>1, <4>1
    <3>4. QED
      BY <3>1, <3>2, <3>3
  <2>3. CASE i > m + 1
    <3>1. i - m \in 1..n /\ (i - m) - 1 = (i - 1) - m /\ s[i] = q[i - m]
      BY <1>1, <2>3
    <3>2. h[i] = g[i - m] /\ h[i-1] = g[(i - m) - 1]
      BY <1>1, <2>3
    <3>3. QED
      BY <1>3, <3>1, <3>2
  <2>4. QED
    BY <1>1, <2>1, <2>2, <2>3
<1> HIDE DEF h
<1>6. h \in [0..Len(s) -> Versions] /\ h[Len(s)] = c
        /\ \A i \in 1..Len(s) :
             IF s[i].obj = o THEN s[i].old = h[i-1] /\ s[i].new = h[i] ELSE h[i] = h[i-1]
  BY <1>1, <1>4, <1>5
<1>7. Leads(s, o, a, c)
  BY <1>4, <1>6 DEF Leads
<1> QED BY <1>7 DEF s

(* What is left of a path when its first notification is taken.            *)
LEMMA LeadsFrom ==
  ASSUME NEW n \in Notifications, NEW q \in Seq(Notifications), NEW o,
         NEW a, NEW c, Leads(<<n>> \o q, o, a, c)
  PROVE  IF n.obj = o THEN n.old = a /\ Leads(q, o, n.new, c) ELSE Leads(q, o, a, c)
<1> DEFINE s == <<n>> \o q
           m == Len(q)
<1>1. /\ m \in Nat /\ Len(s) = m + 1 /\ s[1] = n
      /\ \A i \in 1..m : s[i + 1] = q[i]
  BY ConcatProperties, LenProperties
<1>2. PICK f \in [0..Len(s) -> Versions] :
        /\ f[0] = a /\ f[Len(s)] = c
        /\ \A i \in 1..Len(s) : IF s[i].obj = o THEN s[i].old = f[i-1] /\ s[i].new = f[i]
                                           ELSE f[i] = f[i-1]
  BY DEF Leads
<1> DEFINE g == [i \in 0..m |-> f[i + 1]]
<1> HIDE DEF s, m
<1>3. g \in [0..m -> Versions] /\ g[m] = c /\ g[0] = f[1]
  BY <1>1, <1>2
<1>4. \A i \in 1..m : IF q[i].obj = o THEN q[i].old = g[i-1] /\ q[i].new = g[i]
                                      ELSE g[i] = g[i-1]
  BY <1>1, <1>2
<1> HIDE DEF g
<1>5. Leads(q, o, f[1], c)
  BY <1>3, <1>4 DEF Leads, m
<1>6. IF n.obj = o THEN n.old = a /\ n.new = f[1] ELSE f[1] = a
  BY <1>1, <1>2
<1> QED BY <1>5, <1>6

-----------------------------------------------------------------------------
(* A notification of r's informer is about an object of r; a deletion      *)
(* leaves no version of one there was, an addition or an update leaves one.*)
Fits(r, n) ==
  /\ ResourceOf[n.obj] = r
  /\ n.type = "delete" => n.old # 0 /\ n.new = 0
  /\ n.type \in {"add", "update"} => n.new # 0

NotificationsFit ==
  \A r \in Resources :
    /\ \A i \in 1..Len(queue[r]) : Fits(r, queue[r][i])
    /\ event[r] # NoEvent => Fits(r, event[r]) /\ event[r].type # "tombstone"

(* A handler that has mux has stored what it is busy with.                 *)
HandlersBusy ==
  \A r \in Resources : mux = r => event[r] # NoEvent /\ items[event[r].obj] = event[r].new

(* An informer that watches knows what there is.                           *)
WatchesExactly ==
  \A o \in Objects : informer[ResourceOf[o]] = "synced" => indexer[o] = cluster[o]

(* CacheFollowsInformer is no invariant by itself: once the deletion of an *)
(* object was refused, what is on its way starts from a version the cache  *)
(* does not hold, and the object is no exception any more when the next    *)
(* notification about it is handled.  So every object has a version from   *)
(* which what is on its way leads on.                                      *)
PathLeads(o) ==
  \E from \in Versions :
    /\ o \notin stale => from = items[o]
    /\ Leads(OnItsWay(ResourceOf[o]), o, from, indexer[o])

PathsLead == \A o \in Objects : PathLeads(o)

CacheInv == TypeOK /\ WatchesExactly /\ HandlersBusy /\ NotificationsFit /\ PathsLead

-----------------------------------------------------------------------------
(* The types hold at first ...                                             *)
LEMMA TypeInit == WatcherInit => TypeOK
<1> SUFFICES ASSUME WatcherInit PROVE TypeOK
  OBVIOUS
<1>1. 0 \in Versions /\ 1 \in Versions /\ 0 \in 0..MaxRelists
  BY InformersAssumption DEF Versions
<1>2. cluster \in [Objects -> Versions]
  BY <1>1 DEF WatcherInit, InformersInit
<1>3. queue \in [Resources -> Seq(Notifications)]
  BY EmptySeq DEF WatcherInit, InformersInit
<1>4. QED
  BY <1>1, <1>2, <1>3 DEF WatcherInit, InformersInit, CacheInit, TypeOK

(* ... and what users and informers do keeps the server's and the          *)
(* informers' variables in their types.                                    *)
LEMMA EnvironmentTypes ==
  ASSUME TypeOK, Environment PROVE TypeOK'
<1> USE DEF Environment
<1>1. ASSUME NEW o \in Objects, NEW v \in Versions, NEW type \in {"add", "update", "delete"},
             Observe(o, v, type)
      PROVE  /\ queue' \in [Resources -> Seq(Notifications)]
             /\ indexer' \in [Objects -> Versions]
  <2>1. Notification(type, o, v) \in Notifications
    BY DEF Notification, Notifications, TypeOK
  <2>2. Append(queue[ResourceOf[o]], Notification(type, o, v)) \in Seq(Notifications)
    BY <2>1, InformersAssumption, AppendProperties DEF TypeOK
  <2>3. QED
    BY <1>1, <2>2 DEF Observe, TypeOK
<1>2. ASSUME NEW o \in Objects, Write(o) PROVE TypeOK'
  <2>1. written[o] + 1 \in Versions
    BY <1>2, InformersAssumption DEF Write, TypeOK, Versions
  <2>2. /\ queue' \in [Resources -> Seq(Notifications)]
        /\ indexer' \in [Objects -> Versions]
    <3>1. (IF cluster[o] = 0 THEN "add" ELSE "update") \in {"add", "update", "delete"}
      OBVIOUS
    <3>2. Observe(o, written[o] + 1, IF cluster[o] = 0 THEN "add" ELSE "update")
      BY <1>2 DEF Write
    <3>3. QED
      BY <1>1, <2>1, <3>1, <3>2
  <2>3. QED
    BY <1>2, <2>1, <2>2 DEF Write, TypeOK
<1>3. ASSUME NEW o \in Objects, Delete(o) PROVE TypeOK'
  <2>1. 0 \in Versions
    BY InformersAssumption DEF Versions
  <2>2. /\ queue' \in [Resources -> Seq(Notifications)]
        /\ indexer' \in [Objects -> Versions]
    BY <1>1, <1>3, <2>1 DEF Delete
  <2>3. QED
    BY <1>3, <2>1, <2>2 DEF Delete, TypeOK
<1>4. ASSUME NEW r \in Resources, LoseWatch(r) PROVE TypeOK'
  <2>1. relists' \in 0..MaxRelists
    BY <1>4, InformersAssumption DEF LoseWatch, TypeOK
  <2>2. QED
    BY <1>4, <2>1 DEF LoseWatch, TypeOK
<1>5. ASSUME NEW r \in Resources, List(r) PROVE TypeOK'
  <2>1. PICK batch \in SetToSeqs(Replacements(r)) : queue' = [queue EXCEPT ![r] = @ \o batch]
    BY <1>5 DEF List
  <2>2. batch \in Seq(Notifications)
    BY <2>1, ReplacementsOfOne
  <2>3. queue' \in [Resources -> Seq(Notifications)]
    BY <2>1, <2>2, ConcatProperties DEF TypeOK
  <2>4. indexer' \in [Objects -> Versions]
    BY <1>5 DEF List, TypeOK
  <2>5. QED
    BY <1>5, <2>3, <2>4 DEF List, TypeOK
<1>6. QED
  BY <1>2, <1>3, <1>4, <1>5 DEF Users

(* One step for each operation of the Watcher.                             *)
LEMMA TypeStep ==
  ASSUME TypeOK, [Next]_watcherVars PROVE TypeOK'
<1> USE DEF TypeOK, informerVars
<1>1. CASE Environment
  BY <1>1, EnvironmentTypes
<1>2. ASSUME NEW t \in Threads, NEW r \in Resources, AddStart(t, r) PROVE TypeOK'
  BY <1>2, WatcherAssumption DEF AddStart
<1>3. ASSUME NEW t \in Threads, AddDone(t) PROVE TypeOK'
  BY <1>3, WatcherAssumption DEF AddDone
<1>4. ASSUME NEW t \in Threads, LockResource(t) PROVE TypeOK'
  BY <1>4, WatcherAssumption DEF LockResource
<1>5. ASSUME NEW t \in Threads, UnlockResource(t) PROVE TypeOK'
  BY <1>5, WatcherAssumption DEF UnlockResource
<1>6. ASSUME NEW r \in Resources, Receive(r) PROVE TypeOK'
  <2>1. Head(queue[r]) \in Notifications /\ Tail(queue[r]) \in Seq(Notifications)
    BY <1>6, HeadTailProperties DEF Receive
  <2>2. Head(queue[r]).obj \in Objects
    BY <2>1 DEF Notifications
  <2>3. QED
    BY <1>6, <2>1, <2>2 DEF Receive
<1>7. ASSUME NEW r \in Resources, Handle(r) PROVE TypeOK'
  <2>1. event[r] \in Notifications /\ 0 \in Versions
    BY <1>7, InformersAssumption
       DEF Handle, AddFunc, UpdateFunc, DeleteFunc, HandlerLock, Versions
  <2>2. event[r].obj \in Objects /\ event[r].new \in Versions
    BY <2>1 DEF Notifications
  <2>3. items' \in [Objects -> Versions]
    BY <1>7, <2>1, <2>2 DEF Handle, AddFunc, UpdateFunc, DeleteFunc, CacheAdd, CacheRemove
  <2>4. mux = Nobody /\ mux' = r /\ stale' \subseteq Objects /\ UNCHANGED <<informerVars, adding, event>>
    BY <1>7 DEF Handle, AddFunc, UpdateFunc, DeleteFunc, HandlerLock
  <2>5. QED
    BY <2>3, <2>4, WatcherAssumption
<1>8. ASSUME NEW r \in Resources, HandlerDone(r) PROVE TypeOK'
  BY <1>8, WatcherAssumption DEF HandlerDone
<1>9. CASE UNCHANGED watcherVars
  BY <1>9 DEF watcherVars
<1>10. QED
  BY <1>1, <1>2, <1>3, <1>4, <1>5, <1>6, <1>7, <1>8, <1>9
     DEF Next, Caller, AddExisting

(* The variables keep their types, and a thread inside Add holds mux: for  *)
(* any number of threads, resources and objects.                           *)
THEOREM Types == Spec => []TypeOK
<1>1. QED
  BY TypeInit, TypeStep, PTL DEF Spec

-----------------------------------------------------------------------------
(* The handlers, and whoever else takes mux, exclude each other: no thread *)
(* ever sees the cache change while it has locked a resource.              *)
THEOREM LockHolds == Spec => CacheStableUnderLock
<1>1. [Next]_watcherVars => [\A t \in Threads : mux = t => items' = items]_watcherVars
  <2> SUFFICES ASSUME Next, NEW t \in Threads, mux = t PROVE items' = items
    BY DEF watcherVars
  <2>1. ASSUME NEW r \in Resources, Handle(r) PROVE FALSE
    BY <2>1, WatcherAssumption DEF Handle, AddFunc, UpdateFunc, DeleteFunc, HandlerLock
  <2>2. QED
    BY <2>1 DEF Next, Environment, Caller, AddStart, AddExisting, AddDone, LockResource,
                UnlockResource, Receive, HandlerDone, watcherVars
<1>2. QED
  BY <1>1, PTL DEF Spec, CacheStableUnderLock

-----------------------------------------------------------------------------
(* The list of a new informer, or the one that replaces a broken watch,    *)
(* leads from what it was told of each object before to what the server    *)
(* holds.                                                                  *)
LEMMA ListLeads ==
  ASSUME TypeOK, NEW r \in Resources, NEW batch \in SetToSeqs(Replacements(r)),
         NEW o \in Objects, ResourceOf[o] = r
  PROVE  Leads(batch, o, indexer[o], cluster[o])
<1>1. indexer[o] \in Versions /\ cluster[o] \in Versions /\ Len(batch) \in Nat
  BY ReplacementsOfOne, LenProperties DEF TypeOK
<1>2. CASE \E k \in 1..Len(batch) : batch[k].obj = o
  <2>1. PICK k \in 1..Len(batch) : batch[k].obj = o
    BY <1>2
  <2> DEFINE v == [i \in 0..Len(batch) |-> IF i < k THEN indexer[o] ELSE cluster[o]]
  <2>2. v \in [0..Len(batch) -> Versions] /\ v[0] = indexer[o] /\ v[Len(batch)] = cluster[o]
    BY <1>1
  <2>3. ASSUME NEW i \in 1..Len(batch)
        PROVE  IF batch[i].obj = o THEN batch[i].old = v[i-1] /\ batch[i].new = v[i]
                                   ELSE v[i] = v[i-1]
    <3>1. CASE batch[i].obj = o
      <4>1. i = k /\ batch[i].old = indexer[o] /\ batch[i].new = cluster[o]
        BY <2>1, <3>1, ReplacementsOfOne
      <4>2. v[i] = cluster[o] /\ v[i-1] = indexer[o]
        BY <1>1, <4>1
      <4>3. QED
        BY <3>1, <4>1, <4>2
    <3>2. CASE batch[i].obj # o
      <4>1. i # k
        BY <2>1, <3>2
      <4>2. v[i] = v[i-1]
        BY <1>1, <4>1
      <4>3. QED
        BY <3>2, <4>2
    <3>3. QED
      BY <3>1, <3>2
  <2> HIDE DEF v
  <2>4. QED
    BY <2>2, <2>3 DEF Leads
<1>3. CASE ~\E k \in 1..Len(batch) : batch[k].obj = o
  <2>1. cluster[o] = 0 /\ indexer[o] = 0
    BY <1>3, ReplacementsOfOne
  <2> DEFINE v == [i \in 0..Len(batch) |-> indexer[o]]
  <2>2. v \in [0..Len(batch) -> Versions] /\ v[0] = indexer[o] /\ v[Len(batch)] = cluster[o]
    BY <1>1, <2>1
  <2>3. \A i \in 1..Len(batch) : batch[i].obj # o /\ v[i] = v[i-1]
    BY <1>1, <1>3
  <2> HIDE DEF v
  <2>4. QED
    BY <2>2, <2>3 DEF Leads
<1>4. QED
  BY <1>2, <1>3

-----------------------------------------------------------------------------
(* What an informer that watches was told is what there is.                *)
LEMMA WatchStep ==
  ASSUME TypeOK, WatchesExactly, [Next]_watcherVars PROVE WatchesExactly'
<1> USE InformersAssumption DEF TypeOK, WatchesExactly, informerVars
<1>1. ASSUME NEW o \in Objects, Write(o) PROVE WatchesExactly'
  BY <1>1 DEF Write, Observe
<1>2. ASSUME NEW o \in Objects, Delete(o) PROVE WatchesExactly'
  BY <1>2 DEF Delete, Observe
<1>3. ASSUME NEW r \in Resources, LoseWatch(r) PROVE WatchesExactly'
  BY <1>3 DEF LoseWatch
<1>4. ASSUME NEW r \in Resources, List(r) PROVE WatchesExactly'
  BY <1>4 DEF List
<1>5. ASSUME NEW r \in Resources, Receive(r) PROVE WatchesExactly'
  BY <1>5 DEF Receive
<1>6. ASSUME NEW r \in Resources, Handle(r) PROVE WatchesExactly'
  BY <1>6 DEF Handle, AddFunc, UpdateFunc, DeleteFunc, HandlerLock
<1>7. ASSUME NEW r \in Resources, HandlerDone(r) PROVE WatchesExactly'
  BY <1>7 DEF HandlerDone
<1>8. ASSUME NEW t \in Threads, Caller(t) PROVE WatchesExactly'
  BY <1>8 DEF Caller, AddStart, AddExisting, AddDone, LockResource, UnlockResource, watcherVars
<1>9. CASE UNCHANGED watcherVars
  BY <1>9 DEF watcherVars
<1>10. QED
  BY <1>1, <1>2, <1>3, <1>4, <1>5, <1>6, <1>7, <1>8, <1>9 DEF Next, Environment, Users

(* What each informer queues, and each handler works on, is its own.       *)
LEMMA FitStep ==
  ASSUME TypeOK, WatchesExactly, HandlersBusy, NotificationsFit, [Next]_watcherVars
  PROVE  HandlersBusy' /\ NotificationsFit'
<1> USE DEF informerVars
<1>1. ASSUME NEW o \in Objects, NEW v \in Versions, NEW type,
             type = "delete" => indexer[o] # 0 /\ v = 0, type # "delete" => v # 0,
             Observe(o, v, type), UNCHANGED <<event, mux, items>>
      PROVE  HandlersBusy' /\ NotificationsFit'
  <2> DEFINE n == Notification(type, o, v)
  <2>1. Fits(ResourceOf[o], n)
    BY <1>1 DEF Fits, Notification
  <2>2. ResourceOf[o] \in Resources /\ queue[ResourceOf[o]] \in Seq(Notifications)
    BY InformersAssumption DEF TypeOK
  <2>3. \/ queue' = queue
        \/ queue' = [queue EXCEPT ![ResourceOf[o]] = Append(@, n)]
    BY <1>1 DEF Observe
  <2> HIDE DEF n
  <2>4. ASSUME NEW r \in Resources, NEW i \in 1..Len(queue'[r]) PROVE Fits(r, queue'[r][i])
    <3>1. CASE queue'[r] = queue[r]
      BY <2>4, <3>1 DEF NotificationsFit
    <3>2. CASE queue'[r] # queue[r]
      <4>1. r = ResourceOf[o] /\ queue'[r] = Append(queue[r], n)
        BY <2>2, <2>3, <3>2 DEF TypeOK
      <4>2. CASE i = Len(queue[r]) + 1
        BY <2>1, <2>2, <4>1, <4>2
      <4>3. CASE i # Len(queue[r]) + 1
        <5>1. i \in 1..Len(queue[r]) /\ queue'[r][i] = queue[r][i]
          BY <2>2, <2>4, <4>1, <4>3
        <5>2. QED
          BY <5>1 DEF NotificationsFit
      <4>4. QED
        BY <4>2, <4>3
    <3>3. QED
      BY <3>1, <3>2
  <2>5. QED
    BY <1>1, <2>4 DEF HandlersBusy, NotificationsFit
<1>2. ASSUME NEW o \in Objects, Write(o), UNCHANGED <<event, mux, items>>
      PROVE  HandlersBusy' /\ NotificationsFit'
  <2>1. written[o] + 1 \in Versions /\ written[o] + 1 # 0
    BY <1>2, InformersAssumption DEF Write, TypeOK, Versions
  <2>2. Observe(o, written[o] + 1, IF cluster[o] = 0 THEN "add" ELSE "update")
    BY <1>2 DEF Write
  <2>3. (IF cluster[o] = 0 THEN "add" ELSE "update") # "delete"
    OBVIOUS
  <2>4. QED
    BY <1>1, <1>2, <2>1, <2>2, <2>3
<1>3. ASSUME NEW o \in Objects, Delete(o), UNCHANGED <<event, mux, items>>
      PROVE  HandlersBusy' /\ NotificationsFit'
  <2>1. CASE informer[ResourceOf[o]] = "synced"
    <3>1. indexer[o] # 0 /\ 0 \in Versions /\ Observe(o, 0, "delete")
      BY <1>3, <2>1, InformersAssumption DEF Delete, WatchesExactly, Versions
    <3>2. QED
      BY <1>1, <1>3, <3>1
  <2>2. CASE informer[ResourceOf[o]] # "synced"
    BY <1>3, <2>2 DEF Delete, Observe, HandlersBusy, NotificationsFit
  <2>3. QED
    BY <2>1, <2>2
<1>4. ASSUME NEW r \in Resources, List(r), UNCHANGED <<event, mux, items>>
      PROVE  HandlersBusy' /\ NotificationsFit'
  <2>1. PICK batch \in SetToSeqs(Replacements(r)) : queue' = [queue EXCEPT ![r] = @ \o batch]
    BY <1>4 DEF List
  <2>2. batch \in Seq(Notifications) /\ \A i \in 1..Len(batch) : Fits(r, batch[i])
    BY ReplacementsOfOne DEF Fits
  <2>3. ASSUME NEW s \in Resources, NEW i \in 1..Len(queue'[s]) PROVE Fits(s, queue'[s][i])
    <3>1. CASE s # r
      BY <2>1, <2>3, <3>1 DEF NotificationsFit, TypeOK
    <3>2. CASE s = r
      <4>1. queue'[r] = queue[r] \o batch /\ queue[r] \in Seq(Notifications)
        BY <2>1 DEF TypeOK
      <4>2. \/ i \in 1..Len(queue[r]) /\ queue'[r][i] = queue[r][i]
            \/ \E j \in 1..Len(batch) : queue'[r][i] = batch[j]
        BY <2>2, <2>3, <3>2, <4>1, ConcatProperties
      <4>3. QED
        BY <2>2, <3>2, <4>2 DEF NotificationsFit
    <3>3. QED
      BY <3>1, <3>2
  <2>4. QED
    BY <1>4, <2>3 DEF HandlersBusy, NotificationsFit
<1>5. ASSUME NEW r \in Resources, Receive(r) PROVE HandlersBusy' /\ NotificationsFit'
  <2>1. /\ queue[r] \in Seq(Notifications) /\ queue[r] # <<>>
        /\ Head(queue[r]) = queue[r][1] /\ 1 \in 1..Len(queue[r])
    BY <1>5 DEF Receive, TypeOK
  <2>2. Fits(r, Head(queue[r]))
    BY <2>1 DEF NotificationsFit
  <2>3. \A i \in 1..Len(Tail(queue[r])) : i + 1 \in 1..Len(queue[r]) /\ Tail(queue[r])[i] = queue[r][i + 1]
    BY <2>1, HeadTailProperties
  <2>4. \A i \in 1..Len(Tail(queue[r])) : Fits(r, Tail(queue[r])[i])
    BY <2>3 DEF NotificationsFit
  <2>5. \A s \in Resources : queue'[s] = IF s = r THEN Tail(queue[r]) ELSE queue[s]
    BY <1>5 DEF Receive, TypeOK
  <2>6. \A s \in Resources : event'[s] # NoEvent =>
          \/ event'[s] = event[s]
          \/ s = r /\ event'[s] = Head(queue[r]) /\ Head(queue[r]).type # "tombstone"
    BY <1>5 DEF Receive, TypeOK, Skipped
  <2>7. NotificationsFit'
    BY <2>2, <2>4, <2>5, <2>6 DEF NotificationsFit
  <2>8. HandlersBusy'
    BY <1>5 DEF Receive, TypeOK, HandlersBusy
  <2>9. QED
    BY <2>7, <2>8
<1>6. ASSUME NEW r \in Resources, Handle(r) PROVE HandlersBusy' /\ NotificationsFit'
  <2>1. /\ event[r] # NoEvent /\ mux' = r /\ UNCHANGED <<queue, event>>
    BY <1>6 DEF Handle, AddFunc, UpdateFunc, DeleteFunc, HandlerLock
  <2>2. event[r] \in Notifications /\ Fits(r, event[r])
    BY <2>1 DEF TypeOK, NotificationsFit
  <2>3. event[r].obj \in Objects
    BY <2>2 DEF Notifications
  <2>4. items'[event[r].obj] = event[r].new
    BY <1>6, <2>2, <2>3
       DEF Handle, AddFunc, UpdateFunc, DeleteFunc, HandlerLock, CacheAdd, CacheRemove, Fits, TypeOK
  <2>5. QED
    BY <2>1, <2>4 DEF HandlersBusy, NotificationsFit
<1>7. ASSUME NEW r \in Resources, HandlerDone(r) PROVE HandlersBusy' /\ NotificationsFit'
  BY <1>7, WatcherAssumption DEF HandlerDone, HandlersBusy, NotificationsFit, TypeOK
<1>8. ASSUME NEW t \in Threads, Caller(t) PROVE HandlersBusy' /\ NotificationsFit'
  BY <1>8, WatcherAssumption
     DEF Caller, AddStart, AddExisting, AddDone, LockResource, UnlockResource, watcherVars,
         HandlersBusy, NotificationsFit
<1>9. ASSUME NEW r \in Resources, LoseWatch(r), UNCHANGED <<event, mux, items>>
      PROVE  HandlersBusy' /\ NotificationsFit'
  BY <1>9 DEF LoseWatch, HandlersBusy, NotificationsFit
<1>10. CASE UNCHANGED watcherVars
  BY <1>10 DEF watcherVars, HandlersBusy, NotificationsFit
<1>11. QED
  BY <1>2, <1>3, <1>4, <1>5, <1>6, <1>7, <1>8, <1>9, <1>10 DEF Next, Environment, Users

-----------------------------------------------------------------------------
Taken(r) == IF event[r] # NoEvent /\ mux # r THEN <<event[r]>> ELSE <<>>

(* What is on its way from an informer are notifications.                  *)
LEMMA OnItsWayIsPath ==
  ASSUME TypeOK, NEW r \in Resources
  PROVE  /\ Taken(r) \in Seq(Notifications) /\ queue[r] \in Seq(Notifications)
         /\ OnItsWay(r) = Taken(r) \o queue[r]
         /\ OnItsWay(r) \in Seq(Notifications)
<1>1. event[r] \in Notifications \cup {NoEvent} /\ queue[r] \in Seq(Notifications)
  BY DEF TypeOK
<1>2. Taken(r) \in Seq(Notifications)
  BY <1>1, EmptySeq DEF Taken
<1>3. QED
  BY <1>1, <1>2, ConcatProperties DEF OnItsWay, Taken

(* A step that leaves the path, the cache and the informer alone where o   *)
(* is concerned.                                                           *)
LEMMA PathKept ==
  ASSUME NEW o \in Objects, PathLeads(o), OnItsWay(ResourceOf[o])' = OnItsWay(ResourceOf[o]),
         indexer'[o] = indexer[o], items'[o] = items[o], o \notin stale' => o \notin stale
  PROVE  PathLeads(o)'
BY DEF PathLeads

(* The informer queues more, behind what is on its way already.            *)
LEMMA PathGrows ==
  ASSUME TypeOK, NEW r \in Resources, NEW o \in Objects, ResourceOf[o] = r, PathLeads(o),
         NEW more \in Seq(Notifications), queue'[r] = queue[r] \o more,
         UNCHANGED <<event, mux, items, stale>>,
         Leads(more, o, indexer[o], indexer'[o])
  PROVE  PathLeads(o)'
<1>1. PICK from \in Versions : /\ o \notin stale => from = items[o]
                               /\ Leads(OnItsWay(r), o, from, indexer[o])
  BY DEF PathLeads
<1>2. OnItsWay(r)' = Taken(r) \o (queue[r] \o more)
  BY DEF OnItsWay, Taken
<1>3. OnItsWay(r)' = OnItsWay(r) \o more
  <2>1. /\ Taken(r) \in Seq(Notifications) /\ queue[r] \in Seq(Notifications)
        /\ OnItsWay(r) = Taken(r) \o queue[r]
    BY OnItsWayIsPath
  <2>2. \A s, t, u \in Seq(Notifications) : (s \o t) \o u = s \o (t \o u)
    BY ConcatAssociative
  <2>3. (Taken(r) \o queue[r]) \o more = Taken(r) \o (queue[r] \o more)
    BY <2>1, <2>2
  <2>4. QED
    BY <1>2, <2>1, <2>3
<1>4. Leads(OnItsWay(r) \o more, o, from, indexer'[o])
  BY <1>1, OnItsWayIsPath, LeadsOn
<1>5. QED
  BY <1>1, <1>3, <1>4 DEF PathLeads

(* A user's change reaches an informer that watches, and no other.         *)
LEMMA PathObserves ==
  ASSUME TypeOK, NEW w \in Objects, NEW v \in Versions,
         NEW type \in {"add", "update", "delete"}, Observe(w, v, type),
         UNCHANGED <<event, mux, items, stale>>, NEW o \in Objects, PathLeads(o)
  PROVE  PathLeads(o)'
<1> DEFINE r == ResourceOf[w]
           n == Notification(type, w, v)
<1>1. r \in Resources /\ ResourceOf[o] \in Resources /\ queue[r] \in Seq(Notifications)
  BY InformersAssumption DEF TypeOK
<1>2. n \in Notifications /\ n.obj = w /\ n.old = indexer[w] /\ n.new = v
  BY DEF Notification, Notifications, TypeOK
<1>3. CASE informer[r] = "synced" /\ ResourceOf[o] = r
  <2>1. queue'[r] = Append(queue[r], n) /\ indexer' = [indexer EXCEPT ![w] = v]
    BY <1>1, <1>3 DEF Observe, TypeOK
  <2>2. queue'[r] = queue[r] \o <<n>>
    BY <1>1, <1>2, <2>1, AppendIsConcat
  <2>3. /\ indexer[o] \in Versions /\ indexer'[o] \in Versions
        /\ IF w = o THEN indexer'[o] = v ELSE indexer'[o] = indexer[o]
    BY <2>1 DEF TypeOK
  <2> HIDE DEF n
  <2>4. IF n.obj = o THEN n.old = indexer[o] /\ n.new = indexer'[o] ELSE indexer[o] = indexer'[o]
    BY <1>2, <2>3
  <2>5. Leads(<<n>>, o, indexer[o], indexer'[o])
    BY <2>3, <2>4, LeadsOne
  <2>6. <<n>> \in Seq(Notifications)
    BY <1>2
  <2>7. QED
    BY <1>1, <1>3, <2>2, <2>5, <2>6, PathGrows
<1>4. CASE ~(informer[r] = "synced" /\ ResourceOf[o] = r)
  <2>1. queue'[ResourceOf[o]] = queue[ResourceOf[o]] /\ indexer'[o] = indexer[o]
    BY <1>1, <1>4 DEF Observe, TypeOK
  <2>2. QED
    BY <1>1, <2>1, PathKept DEF OnItsWay
<1>5. QED
  BY <1>3, <1>4

(* The handler's goroutine takes the next notification: an update it skips *)
(* changes nothing, a deletion it refuses makes the object stale.          *)
LEMMA PathReceives ==
  ASSUME TypeOK, HandlersBusy, NEW r \in Resources, Receive(r), NEW o \in Objects, PathLeads(o)
  PROVE  PathLeads(o)'
<1> DEFINE n == Head(queue[r])
           q == Tail(queue[r])
<1>1. ResourceOf[o] \in Resources
  BY InformersAssumption
<1>2. /\ queue[r] \in Seq(Notifications) /\ queue[r] # <<>>
      /\ n \in Notifications /\ q \in Seq(Notifications)
  BY HeadTailProperties DEF Receive, TypeOK
<1>3. queue[r] = <<n>> \o q
  BY <1>2, HeadTailProperties
<1>4. event[r] = NoEvent /\ mux # r /\ mux' = mux /\ indexer' = indexer /\ items' = items
  BY DEF Receive, HandlersBusy
<1>5. OnItsWay(r) = <<n>> \o q
  BY <1>2, <1>3, <1>4, ConcatEmptySeq DEF OnItsWay
<1>6. queue'[r] = q /\ event'[r] = IF Skipped(n) THEN NoEvent ELSE n
  BY DEF Receive, TypeOK
<1>7. CASE ResourceOf[o] # r
  <2>1. OnItsWay(ResourceOf[o])' = OnItsWay(ResourceOf[o])
    BY <1>1, <1>7 DEF Receive, OnItsWay, TypeOK
  <2>2. stale \subseteq stale'
    BY DEF Receive
  <2>3. QED
    BY <1>4, <2>1, <2>2, PathKept
<1>8. CASE ResourceOf[o] = r
  <2>1. PICK from \in Versions : /\ o \notin stale => from = items[o]
                                 /\ Leads(OnItsWay(r), o, from, indexer[o])
    BY <1>8 DEF PathLeads
  <2>2. stale' = IF n.type = "tombstone" THEN stale \cup {n.obj} ELSE stale
    BY DEF Receive
  <2> HIDE DEF n, q
  <2>3. CASE ~Skipped(n)
    <3>1. OnItsWay(r)' = <<n>> \o q
      BY <1>2, <1>4, <1>6, <2>3, WatcherAssumption DEF OnItsWay
    <3>2. stale' = stale
      BY <2>2, <2>3 DEF Skipped
    <3>3. QED
      BY <1>4, <1>5, <1>8, <3>1, <3>2, PathKept
  <2>4. CASE Skipped(n)
    <3>1. OnItsWay(r)' = q
      BY <1>2, <1>6, <2>4, ConcatEmptySeq DEF OnItsWay
    <3>2. IF n.obj = o THEN n.old = from /\ Leads(q, o, n.new, indexer[o])
                       ELSE Leads(q, o, from, indexer[o])
      BY <1>2, <1>5, <2>1, LeadsFrom
    <3>3. CASE n.obj # o
      BY <1>4, <1>8, <2>1, <2>2, <3>1, <3>2, <3>3 DEF PathLeads
    <3>4. CASE n.obj = o /\ n.type = "tombstone"
      <4>1. n.new \in Versions /\ o \in stale'
        BY <1>2, <2>2, <3>4 DEF Notifications
      <4>2. QED
        BY <1>4, <1>8, <3>1, <3>2, <3>4, <4>1 DEF PathLeads
    <3>5. CASE n.obj = o /\ n.type # "tombstone"
      <4>1. n.old = n.new /\ stale' = stale
        BY <2>2, <2>4, <3>5 DEF Skipped
      <4>2. QED
        BY <1>4, <1>8, <2>1, <3>1, <3>2, <3>5, <4>1 DEF PathLeads
    <3>6. QED
      BY <3>3, <3>4, <3>5
  <2>5. QED
    BY <2>3, <2>4
<1>9. QED
  BY <1>7, <1>8

(* The handler takes mux and stores what it was told.                      *)
LEMMA PathHandled ==
  ASSUME TypeOK, NotificationsFit, NEW r \in Resources, Handle(r), NEW o \in Objects, PathLeads(o)
  PROVE  PathLeads(o)'
<1> DEFINE n == event[r]
<1>1. ResourceOf[o] \in Resources /\ queue[r] \in Seq(Notifications)
  BY InformersAssumption DEF TypeOK
<1>2. /\ n # NoEvent /\ mux = Nobody /\ mux' = r /\ stale' = stale \ {n.obj}
      /\ UNCHANGED <<queue, event, indexer>>
  BY DEF Handle, AddFunc, UpdateFunc, DeleteFunc, HandlerLock, informerVars
<1>3. n \in Notifications /\ Fits(r, n)
  BY <1>2 DEF TypeOK, NotificationsFit
<1>4. n.obj \in Objects /\ n.new \in Versions /\ ResourceOf[n.obj] = r
  BY <1>3 DEF Notifications, Fits
<1>5. items' = [items EXCEPT ![n.obj] = n.new]
  BY <1>3 DEF Handle, AddFunc, UpdateFunc, DeleteFunc, HandlerLock, CacheAdd, CacheRemove, Fits
<1>6. CASE ResourceOf[o] # r
  <2>1. OnItsWay(ResourceOf[o])' = OnItsWay(ResourceOf[o])
    BY <1>1, <1>2, <1>6, WatcherAssumption DEF OnItsWay
  <2>2. items'[o] = items[o] /\ (o \notin stale' => o \notin stale)
    BY <1>2, <1>4, <1>5, <1>6 DEF TypeOK
  <2>3. QED
    BY <1>2, <2>1, <2>2, PathKept
<1>7. CASE ResourceOf[o] = r
  <2>1. PICK from \in Versions : /\ o \notin stale => from = items[o]
                                 /\ Leads(OnItsWay(r), o, from, indexer[o])
    BY <1>7 DEF PathLeads
  <2>2. OnItsWay(r) = <<n>> \o queue[r] /\ OnItsWay(r)' = queue[r]
    BY <1>1, <1>2, WatcherAssumption, ConcatEmptySeq DEF OnItsWay
  <2> HIDE DEF n
  <2>3. IF n.obj = o THEN n.old = from /\ Leads(queue[r], o, n.new, indexer[o])
                     ELSE Leads(queue[r], o, from, indexer[o])
    BY <1>1, <1>3, <2>1, <2>2, LeadsFrom
  <2>4. CASE n.obj = o
    <3>1. items'[o] = n.new
      BY <1>5, <2>4 DEF TypeOK
    <3>2. QED
      BY <1>2, <1>4, <1>7, <2>2, <2>3, <2>4, <3>1 DEF PathLeads
  <2>5. CASE n.obj # o
    <3>1. items'[o] = items[o] /\ (o \notin stale' => o \notin stale)
      BY <1>2, <1>5, <2>5 DEF TypeOK
    <3>2. QED
      BY <1>2, <1>7, <2>1, <2>2, <2>3, <2>5, <3>1 DEF PathLeads
  <2>6. QED
    BY <2>4, <2>5
<1>8. QED
  BY <1>6, <1>7

(* No step breaks a path: one step for each that changes what is on its    *)
(* way, what the cache holds or what the informer was told.                *)
LEMMA PathStep ==
  ASSUME TypeOK, HandlersBusy, NotificationsFit, [Next]_watcherVars, NEW o \in Objects, PathLeads(o)
  PROVE  PathLeads(o)'
<1> USE DEF informerVars
<1>1. ResourceOf[o] \in Resources
  BY InformersAssumption
<1>2. ASSUME NEW w \in Objects, Write(w), UNCHANGED <<event, mux, items, stale>> PROVE PathLeads(o)'
  <2>1. written[w] + 1 \in Versions
    BY <1>2, InformersAssumption DEF Write, TypeOK, Versions
  <2>2. Observe(w, written[w] + 1, IF cluster[w] = 0 THEN "add" ELSE "update")
    BY <1>2 DEF Write
  <2>3. (IF cluster[w] = 0 THEN "add" ELSE "update") \in {"add", "update", "delete"}
    OBVIOUS
  <2>4. QED
    BY <1>2, <2>1, <2>2, <2>3, PathObserves
<1>3. ASSUME NEW w \in Objects, Delete(w), UNCHANGED <<event, mux, items, stale>> PROVE PathLeads(o)'
  <2>1. 0 \in Versions /\ Observe(w, 0, "delete")
    BY <1>3, InformersAssumption DEF Delete, Versions
  <2>2. QED
    BY <1>3, <2>1, PathObserves
<1>4. ASSUME NEW r \in Resources, List(r), UNCHANGED <<event, mux, items, stale>> PROVE PathLeads(o)'
  <2>1. PICK batch \in SetToSeqs(Replacements(r)) : queue' = [queue EXCEPT ![r] = @ \o batch]
    BY <1>4 DEF List
  <2>2. indexer'[o] = IF ResourceOf[o] = r THEN cluster[o] ELSE indexer[o]
    BY <1>4 DEF List
  <2>3. CASE ResourceOf[o] = r
    <3>1. batch \in Seq(Notifications) /\ Leads(batch, o, indexer[o], indexer'[o])
      BY <2>2, <2>3, ReplacementsOfOne, ListLeads
    <3>2. queue'[r] = queue[r] \o batch
      BY <2>1 DEF TypeOK
    <3>3. QED
      BY <1>4, <2>3, <3>1, <3>2, PathGrows
  <2>4. CASE ResourceOf[o] # r
    <3>1. queue'[ResourceOf[o]] = queue[ResourceOf[o]]
      BY <1>1, <2>1, <2>4 DEF TypeOK
    <3>2. QED
      BY <1>4, <2>2, <2>4, <3>1, PathKept DEF OnItsWay
  <2>5. QED
    BY <2>3, <2>4
<1>5. ASSUME NEW r \in Resources, LoseWatch(r), UNCHANGED <<event, mux, items, stale>> PROVE PathLeads(o)'
  BY <1>5, PathKept DEF LoseWatch, OnItsWay
<1>6. ASSUME NEW r \in Resources, Receive(r) PROVE PathLeads(o)'
  BY <1>6, PathReceives
<1>7. ASSUME NEW r \in Resources, Handle(r) PROVE PathLeads(o)'
  BY <1>7, PathHandled
<1>8. ASSUME NEW r \in Resources, HandlerDone(r) PROVE PathLeads(o)'
  <2>1. event'[r] = NoEvent /\ mux = r /\ \A s \in Resources \ {r} : event'[s] = event[s]
    BY <1>8 DEF HandlerDone, TypeOK
  <2>2. mux' = Nobody /\ queue' = queue
    BY <1>8 DEF HandlerDone
  <2>3. Taken(ResourceOf[o])' = Taken(ResourceOf[o])
    <3>1. CASE ResourceOf[o] = r
      BY <2>1, <3>1 DEF Taken
    <3>2. CASE ResourceOf[o] # r
      BY <1>1, <2>1, <2>2, <3>2, WatcherAssumption DEF Taken
    <3>3. QED
      BY <3>1, <3>2
  <2>4. OnItsWay(ResourceOf[o])' = OnItsWay(ResourceOf[o])
    BY <2>2, <2>3 DEF OnItsWay, Taken
  <2>5. QED
    BY <1>8, <2>4, PathKept DEF HandlerDone
<1>9. ASSUME NEW t \in Threads, Caller(t) PROVE PathLeads(o)'
  <2>1. /\ mux' = mux \/ (mux \notin Resources /\ mux' \notin Resources)
        /\ UNCHANGED <<queue, indexer, items, event, stale>>
    BY <1>9, WatcherAssumption
       DEF Caller, AddStart, AddExisting, AddDone, LockResource, UnlockResource, watcherVars, TypeOK
  <2>2. (mux' # ResourceOf[o]) = (mux # ResourceOf[o])
    BY <1>1, <2>1
  <2>3. OnItsWay(ResourceOf[o])' = OnItsWay(ResourceOf[o])
    BY <2>1, <2>2 DEF OnItsWay
  <2>4. QED
    BY <2>1, <2>3, PathKept
<1>10. CASE UNCHANGED watcherVars
  BY <1>10, PathKept DEF watcherVars, OnItsWay
<1>11. QED
  BY <1>2, <1>3, <1>4, <1>5, <1>6, <1>7, <1>8, <1>9, <1>10 DEF Next, Environment, Users

(* At first nothing is on its way and nobody was told of anything.         *)
LEMMA CacheInvInit == WatcherInit => CacheInv
<1> SUFFICES ASSUME WatcherInit PROVE CacheInv
  OBVIOUS
<1>1. TypeOK
  BY TypeInit
<1>2. WatchesExactly /\ HandlersBusy /\ NotificationsFit
  BY WatcherAssumption, InformersAssumption
     DEF WatcherInit, InformersInit, WatchesExactly, HandlersBusy, NotificationsFit
<1>3. ASSUME NEW o \in Objects PROVE PathLeads(o)
  <2>1. ResourceOf[o] \in Resources /\ 0 \in Versions
    BY InformersAssumption DEF Versions
  <2>2. OnItsWay(ResourceOf[o]) = <<>>
    BY <2>1, EmptySeq, ConcatEmptySeq DEF OnItsWay, WatcherInit, InformersInit
  <2>3. items[o] = 0 /\ indexer[o] = 0
    BY DEF WatcherInit, InformersInit, CacheInit
  <2>4. QED
    BY <2>1, <2>2, <2>3, LeadsNothing DEF PathLeads
<1>4. QED
  BY <1>1, <1>2, <1>3 DEF CacheInv, PathsLead

(* Every step keeps the invariant.                                         *)
LEMMA CacheInvStep == ASSUME CacheInv, [Next]_watcherVars PROVE CacheInv'
BY TypeStep, WatchStep, FitStep, PathStep DEF CacheInv, PathsLead

(* Whatever the number of resources, objects and callers, however handlers *)
(* are delayed and watches break: the cache is behind its informers by     *)
(* exactly the notifications on their way, refused deletions excepted.     *)
THEOREM CacheFollows == Spec => []CacheFollowsInformer
<1>1. CacheInv => CacheFollowsInformer
  BY DEF CacheInv, PathsLead, PathLeads, CacheFollowsInformer
<1>2. QED
  BY <1>1, CacheInvInit, CacheInvStep, PTL DEF Spec

(* So where nothing is on its way from an informer whose watch is whole,   *)
(* the cache holds what there is.                                          *)
LEMMA IdleAgrees ==
  ASSUME CacheInv, NEW o \in Objects \ stale, informer[ResourceOf[o]] = "synced",
         Idle(ResourceOf[o])
  PROVE  items[o] = cluster[o]
<1>1. OnItsWay(ResourceOf[o]) = <<>>
  BY DEF Idle, OnItsWay
<1>2. indexer[o] = cluster[o]
  BY DEF CacheInv, WatchesExactly
<1>3. Leads(<<>>, o, items[o], indexer[o])
  BY <1>1 DEF CacheInv, PathsLead, PathLeads
<1>4. items[o] = indexer[o]
  BY <1>3 DEF Leads
<1>5. QED
  BY <1>2, <1>4

-----------------------------------------------------------------------------
(* A notification that tells the cache of a version of o.                  *)
Tells(n, o) == n.obj = o /\ n.new # 0 /\ ~Skipped(n)

(* What the server has yet to tell of o, and what is queued about it after *)
(* place m, is newer than version k.                                       *)
Later(o, k, m) ==
  LET q == queue[ResourceOf[o]] IN
  /\ k <= written[o]
  /\ cluster[o] \in {0, indexer[o]} \/ cluster[o] > k
  /\ \A j \in 1..Len(q) : j > m /\ Tells(q[j], o) => q[j].new > k

(* So is all that is on its way, what the handler has yet to store too.    *)
Newer(o, k) ==
  LET r == ResourceOf[o] IN
  /\ Later(o, k, 0)
  /\ event[r] # NoEvent /\ mux # r /\ event[r].obj = o /\ event[r].new # 0 => event[r].new > k

(* Versions are told in the order they were given: each is older than all  *)
(* that are told of the same object later.                                 *)
VersionsGrow ==
  /\ \A o \in Objects : cluster[o] <= written[o]
  /\ \A r \in Resources :
       /\ event[r] # NoEvent => Later(event[r].obj, event[r].new, 0)
       /\ \A i \in 1..Len(queue[r]) : Later(queue[r][i].obj, queue[r][i].new, i)

(* What users and informers do to the versions of an object ...            *)
LEMMA EnvironmentVersions ==
  ASSUME TypeOK, Environment, NEW o \in Objects, cluster[o] <= written[o]
  PROVE  /\ written[o] <= written'[o] /\ cluster'[o] <= written'[o]
         /\ cluster'[o] \in {0, cluster[o]} \/ cluster'[o] > written[o]
         /\ indexer'[o] \in {indexer[o], cluster'[o]}
<1> USE DEF TypeOK, Versions
<1>0. MaxVersion \in Nat
  BY InformersAssumption
<1>1. ASSUME NEW w \in Objects, Write(w)
      PROVE  /\ written[o] <= written'[o] /\ cluster'[o] <= written'[o]
             /\ cluster'[o] \in {0, cluster[o]} \/ cluster'[o] > written[o]
             /\ indexer'[o] \in {indexer[o], cluster'[o]}
  BY <1>0, <1>1 DEF Write, Observe
<1>2. ASSUME NEW w \in Objects, Delete(w)
      PROVE  /\ written[o] <= written'[o] /\ cluster'[o] <= written'[o]
             /\ cluster'[o] \in {0, cluster[o]} \/ cluster'[o] > written[o]
             /\ indexer'[o] \in {indexer[o], cluster'[o]}
  BY <1>0, <1>2 DEF Delete, Observe
<1>3. ASSUME NEW r \in Resources, LoseWatch(r) \/ List(r)
      PROVE  /\ written[o] <= written'[o] /\ cluster'[o] <= written'[o]
             /\ cluster'[o] \in {0, cluster[o]} \/ cluster'[o] > written[o]
             /\ indexer'[o] \in {indexer[o], cluster'[o]}
  BY <1>0, <1>3 DEF LoseWatch, List
<1>4. QED
  BY <1>1, <1>2, <1>3 DEF Environment, Users

(* ... and what informers queue of it: at most one notification about each *)
(* object, of what the server holds.                                       *)
Queued(r, more) ==
  /\ queue'[r] = queue[r] \o more
  /\ \A i \in 1..Len(more) :
       /\ more[i].obj \in Objects /\ ResourceOf[more[i].obj] = r
       /\ more[i].old = indexer[more[i].obj]
       /\ more[i].new = cluster'[more[i].obj]
       /\ indexer'[more[i].obj] = cluster'[more[i].obj]
       /\ ~Skipped(more[i]) => more[i].old # more[i].new
  /\ \A i, j \in 1..Len(more) : more[i].obj = more[j].obj => i = j

(* Whatever the users do, and however an informer lists, so it is.         *)
LEMMA EnvironmentQueues ==
  ASSUME TypeOK, WatchesExactly, Environment, \A o \in Objects : cluster[o] <= written[o],
         NEW r \in Resources
  PROVE  \E more \in Seq(Notifications) : Queued(r, more)
<1> DEFINE Goal == \E more \in Seq(Notifications) : Queued(r, more)
<1> USE DEF Queued
<1>1. queue[r] \in Seq(Notifications)
  BY DEF TypeOK
<1>2. ASSUME queue'[r] = queue[r] PROVE Goal
  <2> DEFINE none == <<>>
  <2>1. /\ none \in Seq(Notifications) /\ queue'[r] = queue[r] \o none
        /\ \A i \in 1..Len(none) : FALSE
    BY <1>1, <1>2, ConcatEmptySeq, EmptySeq
  <2> HIDE DEF none
  <2>2. QED
    BY <2>1
<1>3. ASSUME NEW o \in Objects, NEW v \in Versions, NEW type \in {"add", "update", "delete"},
             Observe(o, v, type), cluster' = [cluster EXCEPT ![o] = v], cluster[o] # v
      PROVE  Goal
  <2>1. CASE informer[ResourceOf[o]] = "synced" /\ ResourceOf[o] = r
    <3> DEFINE n == Notification(type, o, v)
    <3>1. n \in Notifications /\ n.obj = o /\ n.old = indexer[o] /\ n.new = v
      BY DEF Notification, Notifications, TypeOK
    <3>2. queue'[r] = Append(queue[r], n) /\ indexer'[o] = v /\ cluster'[o] = v /\ indexer[o] = cluster[o]
      BY <1>3, <2>1 DEF Observe, TypeOK, WatchesExactly
    <3> HIDE DEF n
    <3>3. queue'[r] = queue[r] \o <<n>>
      BY <1>1, <3>1, <3>2, AppendIsConcat
    <3> DEFINE one == <<n>>
    <3>4. one \in Seq(Notifications) /\ \A i \in 1..Len(one) : i = 1 /\ one[i] = n
      BY <3>1
    <3>5. queue'[r] = queue[r] \o one
      BY <3>3
    <3> HIDE DEF one
    <3>6. Queued(r, one)
      BY <1>3, <2>1, <3>1, <3>2, <3>4, <3>5
    <3>7. QED
      BY <3>4, <3>6
  <2>2. CASE ~(informer[ResourceOf[o]] = "synced" /\ ResourceOf[o] = r)
    BY <1>2, <1>3, <2>2 DEF Observe, TypeOK
  <2>3. QED
    BY <2>1, <2>2
<1>4. ASSUME NEW o \in Objects, Write(o) PROVE Goal
  <2>1. /\ written[o] + 1 \in Versions /\ cluster[o] # written[o] + 1
        /\ (IF cluster[o] = 0 THEN "add" ELSE "update") \in {"add", "update", "delete"}
    BY <1>4, InformersAssumption DEF Write, TypeOK, Versions
  <2>2. /\ Observe(o, written[o] + 1, IF cluster[o] = 0 THEN "add" ELSE "update")
        /\ cluster' = [cluster EXCEPT ![o] = written[o] + 1]
    BY <1>4 DEF Write
  <2> HIDE DEF Goal
  <2>3. QED
    BY <1>3, <2>1, <2>2
<1>5. ASSUME NEW o \in Objects, Delete(o) PROVE Goal
  <2>1. 0 \in Versions /\ Observe(o, 0, "delete") /\ cluster' = [cluster EXCEPT ![o] = 0] /\ cluster[o] # 0
    BY <1>5, InformersAssumption DEF Delete, Versions
  <2> HIDE DEF Goal
  <2>2. QED
    BY <1>3, <2>1
<1>6. ASSUME NEW s \in Resources, LoseWatch(s) PROVE Goal
  <2> HIDE DEF Goal
  <2>1. QED
    BY <1>2, <1>6 DEF LoseWatch
<1>7. ASSUME NEW s \in Resources, List(s) PROVE Goal
  <2>1. PICK batch \in SetToSeqs(Replacements(s)) : queue' = [queue EXCEPT ![s] = @ \o batch]
    BY <1>7 DEF List
  <2>2. CASE s # r
    <3> HIDE DEF Goal
    <3>1. QED
      BY <1>2, <2>1, <2>2 DEF TypeOK
  <2>3. CASE s = r
    <3>1. queue'[r] = queue[r] \o batch /\ batch \in Seq(Notifications)
      BY <2>1, <2>3, ReplacementsOfOne DEF TypeOK
    <3>2. /\ cluster' = cluster
          /\ \A o \in Objects : ResourceOf[o] = r => indexer'[o] = cluster[o]
      BY <1>7, <2>3 DEF List
    <3>3. ASSUME NEW i \in 1..Len(batch)
          PROVE  /\ batch[i].obj \in Objects /\ ResourceOf[batch[i].obj] = r
                 /\ batch[i].old = indexer[batch[i].obj]
                 /\ batch[i].new = cluster[batch[i].obj]
                 /\ ~Skipped(batch[i]) => batch[i].old # batch[i].new
      <4>1. /\ batch[i].obj \in Objects /\ ResourceOf[batch[i].obj] = r
            /\ batch[i].old = indexer[batch[i].obj]
            /\ batch[i].new = cluster[batch[i].obj]
        BY <2>3, ReplacementsOfOne
      <4>2. /\ batch[i].type # "delete"
            /\ batch[i].type # "tombstone" => batch[i].new # 0
            /\ batch[i].type = "add" => batch[i].old = 0
        BY <2>3, ReplacementsOfOne
      <4>3. batch[i].type \in {"add", "update", "delete", "tombstone"}
        <5>1. batch[i] \in Notifications
          BY <3>1, ElementOfSeq
        <5>2. QED
          BY <5>1 DEF Notifications
      <4>4. QED
        BY <4>1, <4>2, <4>3 DEF Skipped
    <3>4. \A i, j \in 1..Len(batch) : batch[i].obj = batch[j].obj => i = j
      BY <2>3, ReplacementsOfOne
    <3>5. QED
      BY <3>1, <3>2, <3>3, <3>4
  <2>4. QED
    BY <2>2, <2>3
<1>8. QED
  BY <1>4, <1>5, <1>6, <1>7 DEF Environment, Users

(* So what is queued stays in order.                                       *)
LEMMA LaterKept ==
  ASSUME TypeOK, WatchesExactly, \A w \in Objects : cluster[w] <= written[w], Environment,
         NEW o \in Objects, NEW k \in Versions, NEW m \in Nat,
         m <= Len(queue[ResourceOf[o]]), Later(o, k, m)
  PROVE  Later(o, k, m)'
<1> DEFINE r == ResourceOf[o]
<1>1. r \in Resources /\ queue[r] \in Seq(Notifications)
  BY InformersAssumption DEF TypeOK
<1>2. /\ written[o] \in Nat /\ cluster[o] \in Nat /\ indexer[o] \in Nat /\ k \in Nat
      /\ written'[o] \in Nat /\ cluster'[o] \in Nat
  BY InformersAssumption, EnvironmentTypes DEF TypeOK, Versions
<1>3. /\ written[o] <= written'[o]
      /\ cluster'[o] \in {0, cluster[o]} \/ cluster'[o] > written[o]
      /\ indexer'[o] \in {indexer[o], cluster'[o]}
  BY EnvironmentVersions
<1>4. k <= written[o] /\ (cluster[o] \in {0, indexer[o]} \/ cluster[o] > k)
  BY DEF Later
<1>5. k <= written'[o] /\ (cluster'[o] \in {0, indexer'[o]} \/ cluster'[o] > k)
  BY <1>2, <1>3, <1>4
<1>6. PICK more \in Seq(Notifications) : Queued(r, more)
  BY <1>1, EnvironmentQueues
<1>7. /\ Len(queue[r]) \in Nat /\ Len(more) \in Nat
      /\ Len(queue'[r]) = Len(queue[r]) + Len(more)
      /\ \A j \in 1..Len(queue[r]) : queue'[r][j] = queue[r][j]
      /\ \A j \in Len(queue[r])+1..Len(queue[r])+Len(more) :
           j - Len(queue[r]) \in 1..Len(more) /\ queue'[r][j] = more[j - Len(queue[r])]
  BY <1>1, <1>6, ConcatProperties, LenProperties DEF Queued
<1>8. ASSUME NEW j \in 1..Len(queue'[r]), j > m, Tells(queue'[r][j], o)
      PROVE  queue'[r][j].new > k
  <2>1. CASE j \in 1..Len(queue[r])
    BY <1>7, <1>8, <2>1 DEF Later
  <2>2. CASE j \notin 1..Len(queue[r])
    <3>1. j \in Len(queue[r])+1..Len(queue[r])+Len(more)
      BY <1>7, <2>2
    <3>2. PICK i \in 1..Len(more) : queue'[r][j] = more[i]
      BY <1>7, <3>1
    <3>3. /\ more[i].new = cluster'[o] /\ cluster'[o] # 0 /\ indexer[o] # cluster'[o]
      BY <1>6, <1>8, <3>2 DEF Tells, Queued
    <3>4. cluster'[o] > k
      BY <1>2, <1>3, <1>4, <3>3
    <3>5. QED
      BY <3>2, <3>3, <3>4
  <2>3. QED
    BY <2>1, <2>2
<1>9. QED
  BY <1>5, <1>8 DEF Later

(* Taking the first notification of a queue leaves the others in order.    *)
LEMMA LaterTaken ==
  ASSUME NEW r \in Resources, queue[r] \in Seq(Notifications), queue[r] # <<>>,
         queue'[r] = Tail(queue[r]), UNCHANGED <<cluster, written, indexer>>,
         NEW o, ResourceOf[o] = r, NEW k, NEW m \in Nat, Later(o, k, m + 1)
  PROVE  Later(o, k, m)'
<1>1. \A j \in 1..Len(Tail(queue[r])) :
        j + 1 \in 1..Len(queue[r]) /\ Tail(queue[r])[j] = queue[r][j + 1]
  BY HeadTailProperties
<1>2. ASSUME NEW j \in 1..Len(queue'[r]), j > m, Tells(queue'[r][j], o)
      PROVE  queue'[r][j].new > k
  <2>1. j \in Nat /\ j + 1 > m + 1
    BY <1>2
  <2>2. QED
    BY <1>1, <1>2, <2>1 DEF Later
<1>3. QED
  BY <1>2 DEF Later

(* At the start no version has been given.                                 *)
LEMMA GrowInit == WatcherInit => VersionsGrow
<1> SUFFICES ASSUME WatcherInit PROVE VersionsGrow
  OBVIOUS
<1>1. \A o \in Objects : cluster[o] <= written[o]
  BY DEF WatcherInit, InformersInit
<1>2. QED
  BY <1>1 DEF WatcherInit, InformersInit, VersionsGrow

(* No step tells of a version that is not newer than all before it.        *)
LEMMA GrowStep ==
  ASSUME TypeOK, WatchesExactly, NotificationsFit, VersionsGrow, [Next]_watcherVars
  PROVE  VersionsGrow'
<1> USE DEF informerVars
<1>1. \A r \in Resources : queue[r] \in Seq(Notifications)
  BY DEF TypeOK
<1>2. ASSUME NEW r \in Resources, NEW i \in 1..Len(queue[r])
      PROVE  /\ queue[r][i].obj \in Objects /\ queue[r][i].new \in Versions
             /\ ResourceOf[queue[r][i].obj] = r
  <2>1. queue[r][i] \in Notifications
    BY <1>1, ElementOfSeq
  <2>2. QED
    BY <2>1 DEF Notifications, NotificationsFit, Fits
<1>3. ASSUME NEW r \in Resources, event[r] # NoEvent
      PROVE  event[r].obj \in Objects /\ event[r].new \in Versions /\ ResourceOf[event[r].obj] = r
  BY <1>3 DEF TypeOK, Notifications, NotificationsFit, Fits
<1>4. CASE Environment
  <2>1. \A o \in Objects : cluster[o] <= written[o]
    BY DEF VersionsGrow
  <2>2. \A o \in Objects : cluster'[o] <= written'[o]
    BY <1>4, <2>1, EnvironmentVersions
  <2>3. ASSUME NEW r \in Resources, event'[r] # NoEvent PROVE Later(event[r].obj, event[r].new, 0)'
    <3>1. event' = event /\ Later(event[r].obj, event[r].new, 0)
      BY <1>4, <2>3 DEF Environment, VersionsGrow
    <3>2. PICK o \in Objects, k \in Versions : o = event[r].obj /\ k = event[r].new /\ ResourceOf[o] = r
      BY <1>3, <2>3, <3>1
    <3>3. 0 <= Len(queue[r])
      BY <1>1, LenProperties
    <3>4. Later(o, k, 0)'
      BY <1>4, <2>1, <3>1, <3>2, <3>3, LaterKept
    <3>5. QED
      BY <3>1, <3>2, <3>4
  <2>4. ASSUME NEW r \in Resources, NEW i \in 1..Len(queue'[r])
        PROVE  Later(queue[r][i].obj, queue[r][i].new, i)'
    <3>1. PICK more \in Seq(Notifications) : Queued(r, more)
      BY <1>4, <2>1, EnvironmentQueues
    <3>2. /\ Len(queue[r]) \in Nat /\ Len(more) \in Nat
          /\ Len(queue'[r]) = Len(queue[r]) + Len(more)
          /\ \A j \in 1..Len(queue[r]) : queue'[r][j] = queue[r][j]
          /\ \A j \in Len(queue[r])+1..Len(queue[r])+Len(more) :
               j - Len(queue[r]) \in 1..Len(more) /\ queue'[r][j] = more[j - Len(queue[r])]
      BY <1>1, <3>1, ConcatProperties, LenProperties DEF Queued
    <3>3. CASE i \in 1..Len(queue[r])
      <4>1. queue'[r][i] = queue[r][i] /\ Later(queue[r][i].obj, queue[r][i].new, i)
        BY <3>2, <3>3 DEF VersionsGrow
      <4>2. PICK o \in Objects, k \in Versions :
              o = queue[r][i].obj /\ k = queue[r][i].new /\ ResourceOf[o] = r
        BY <1>2, <3>3
      <4>3. i \in Nat /\ i <= Len(queue[r])
        BY <3>2, <3>3
      <4>4. Later(o, k, i)'
        BY <1>4, <2>1, <4>1, <4>2, <4>3, LaterKept
      <4>5. QED
        BY <4>1, <4>2, <4>4
    <3>4. CASE i \notin 1..Len(queue[r])
      <4>1. i \in Len(queue[r])+1..Len(queue[r])+Len(more)
        BY <2>4, <3>2, <3>4
      <4>2. PICK l \in 1..Len(more) : l = i - Len(queue[r]) /\ queue'[r][i] = more[l]
        BY <3>2, <4>1
      <4>3. PICK o, k : o \in Objects /\ o = queue'[r][i].obj /\ k = queue'[r][i].new
        BY <3>1, <4>2 DEF Queued
      <4>4. ResourceOf[o] = r /\ more[l].obj = o /\ k = cluster'[o] /\ indexer'[o] = cluster'[o]
        BY <3>1, <4>2, <4>3 DEF Queued
      <4>5. ASSUME NEW j \in 1..Len(queue'[r]), j > i PROVE ~Tells(queue'[r][j], o)
        <5>1. i \in Int /\ j \in Int /\ j \in Len(queue[r])+1..Len(queue[r])+Len(more)
          BY <3>2, <4>1, <4>5
        <5>2. j - Len(queue[r]) \in 1..Len(more) /\ queue'[r][j] = more[j - Len(queue[r])]
          BY <3>2, <5>1
        <5>3. j - Len(queue[r]) # l
          BY <3>2, <4>2, <4>5, <5>1
        <5>4. QED
          BY <3>1, <4>4, <5>2, <5>3 DEF Tells, Queued
      <4>6. k <= written'[o]
        BY <2>2, <4>3, <4>4
      <4>7. Later(o, k, i)'
        BY <4>4, <4>5, <4>6 DEF Later
      <4>8. QED
        BY <4>3, <4>7
    <3>5. QED
      BY <3>3, <3>4
  <2>5. QED
    BY <2>2, <2>3, <2>4 DEF VersionsGrow
<1>5. ASSUME NEW r \in Resources, Receive(r) PROVE VersionsGrow'
  <2>1. /\ UNCHANGED <<cluster, written, indexer>> /\ queue[r] # <<>>
        /\ queue[r] \in Seq(Notifications)
        /\ \A s \in Resources : queue'[s] = IF s = r THEN Tail(queue[r]) ELSE queue[s]
        /\ \A s \in Resources : event'[s] \in {event[s], NoEvent} \/ (s = r /\ event'[s] = queue[r][1])
        /\ 1 \in 1..Len(queue[r])
    BY <1>1, <1>5 DEF Receive, TypeOK
  <2>2. \A i \in 1..Len(Tail(queue[r])) :
          /\ i \in Nat /\ i + 1 \in 1..Len(queue[r]) /\ Tail(queue[r])[i] = queue[r][i + 1]
    BY <2>1, HeadTailProperties
  <2>3. ASSUME NEW s \in Resources, s # r, NEW o, ResourceOf[o] = s, NEW k, NEW m, Later(o, k, m)
        PROVE  Later(o, k, m)'
    BY <2>1, <2>3 DEF Later
  <2>4. ASSUME NEW o, ResourceOf[o] = r, NEW k, NEW m \in Nat, Later(o, k, m + 1)
        PROVE  Later(o, k, m)'
    BY <2>1, <2>4, LaterTaken
  <2>5. ASSUME NEW o, ResourceOf[o] = r, NEW k, Later(o, k, 0) PROVE Later(o, k, 0)'
    <3>1. Later(o, k, 0 + 1)
      BY <2>1, <2>5 DEF Later
    <3>2. QED
      BY <2>4, <2>5, <3>1
  <2>6. ASSUME NEW s \in Resources, event'[s] # NoEvent PROVE Later(event[s].obj, event[s].new, 0)'
    <3>1. CASE event'[s] = event[s]
      <4>1. ResourceOf[event[s].obj] = s /\ Later(event[s].obj, event[s].new, 0)
        BY <1>3, <2>6, <3>1 DEF VersionsGrow
      <4>2. PICK o, k : o = event[s].obj /\ k = event[s].new
        OBVIOUS
      <4>3. Later(o, k, 0)'
        BY <2>3, <2>5, <4>1, <4>2
      <4>4. QED
        BY <3>1, <4>2, <4>3
    <3>2. CASE s = r /\ event'[s] = queue[r][1]
      <4>1. ResourceOf[queue[r][1].obj] = r /\ Later(queue[r][1].obj, queue[r][1].new, 0 + 1)
        BY <1>2, <2>1 DEF VersionsGrow
      <4>2. PICK o, k : o = queue[r][1].obj /\ k = queue[r][1].new
        OBVIOUS
      <4>3. Later(o, k, 0)'
        BY <2>4, <4>1, <4>2
      <4>4. QED
        BY <3>2, <4>2, <4>3
    <3>3. QED
      BY <2>1, <2>6, <3>1, <3>2
  <2>7. ASSUME NEW s \in Resources, NEW i \in 1..Len(queue'[s])
        PROVE  Later(queue[s][i].obj, queue[s][i].new, i)'
    <3>1. CASE s # r
      <4>1. queue'[s] = queue[s] /\ ResourceOf[queue[s][i].obj] = s
            /\ Later(queue[s][i].obj, queue[s][i].new, i)
        BY <1>2, <2>1, <2>7, <3>1 DEF VersionsGrow
      <4>2. PICK o, k : o = queue[s][i].obj /\ k = queue[s][i].new
        OBVIOUS
      <4>3. Later(o, k, i)'
        BY <2>3, <3>1, <4>1, <4>2
      <4>4. QED
        BY <4>1, <4>2, <4>3
    <3>2. CASE s = r
      <4>1. i \in Nat /\ i + 1 \in 1..Len(queue[r]) /\ queue'[s][i] = queue[r][i + 1]
        BY <2>1, <2>2, <2>7, <3>2
      <4>2. ResourceOf[queue[r][i + 1].obj] = r /\ Later(queue[r][i + 1].obj, queue[r][i + 1].new, i + 1)
        BY <1>2, <4>1 DEF VersionsGrow
      <4>3. PICK o, k : o = queue[r][i + 1].obj /\ k = queue[r][i + 1].new
        OBVIOUS
      <4>4. Later(o, k, i)'
        BY <2>4, <4>1, <4>2, <4>3
      <4>5. QED
        BY <4>1, <4>3, <4>4
    <3>3. QED
      BY <3>1, <3>2
  <2>8. QED
    BY <2>1, <2>6, <2>7 DEF VersionsGrow
<1>6. CASE \/ \E r \in Resources : Handle(r) \/ HandlerDone(r)
           \/ \E t \in Threads : Caller(t)
           \/ UNCHANGED watcherVars
  <2>1. /\ UNCHANGED <<cluster, written, indexer, queue>>
        /\ \A s \in Resources : event'[s] \in {event[s], NoEvent}
    BY <1>6
       DEF Handle, AddFunc, UpdateFunc, DeleteFunc, HandlerLock, HandlerDone, Caller, AddStart,
           AddExisting, AddDone, LockResource, UnlockResource, watcherVars, TypeOK
  <2>2. \A o, k, m : Later(o, k, m) => Later(o, k, m)'
    BY <2>1 DEF Later
  <2>3. ASSUME NEW s \in Resources, event'[s] # NoEvent PROVE Later(event[s].obj, event[s].new, 0)'
    <3>1. event'[s] = event[s] /\ Later(event[s].obj, event[s].new, 0)
      BY <2>1, <2>3 DEF VersionsGrow
    <3>2. PICK o, k : o = event[s].obj /\ k = event[s].new
      OBVIOUS
    <3>3. Later(o, k, 0)'
      BY <2>2, <3>1, <3>2
    <3>4. QED
      BY <3>1, <3>2, <3>3
  <2>4. ASSUME NEW s \in Resources, NEW i \in 1..Len(queue'[s])
        PROVE  Later(queue[s][i].obj, queue[s][i].new, i)'
    <3>1. queue' = queue /\ Later(queue[s][i].obj, queue[s][i].new, i)
      BY <2>1, <2>4 DEF VersionsGrow
    <3>2. PICK o, k : o = queue[s][i].obj /\ k = queue[s][i].new
      OBVIOUS
    <3>3. Later(o, k, i)'
      BY <2>2, <3>1, <3>2
    <3>4. QED
      BY <3>1, <3>2, <3>3
  <2>5. QED
    BY <2>1, <2>3, <2>4 DEF VersionsGrow
<1>7. QED
  BY <1>4, <1>5, <1>6 DEF Next

(* Whatever is newer than a version stays so until it is stored.           *)
LEMMA NewerStep ==
  ASSUME TypeOK, WatchesExactly, NotificationsFit, VersionsGrow, [Next]_watcherVars,
         NEW o \in Objects, NEW k \in Versions, Newer(o, k)
  PROVE  Newer(o, k)'
<1> USE DEF informerVars
<1> DEFINE r == ResourceOf[o]
<1>1. r \in Resources /\ queue[r] \in Seq(Notifications)
  BY InformersAssumption DEF TypeOK
<1>2. Later(o, k, 0)
  BY DEF Newer
<1>3. CASE Environment
  <2>1. \A w \in Objects : cluster[w] <= written[w]
    BY DEF VersionsGrow
  <2>2. 0 <= Len(queue[r])
    BY <1>1, LenProperties
  <2>3. Later(o, k, 0)'
    BY <1>2, <1>3, <2>1, <2>2, LaterKept
  <2>4. QED
    BY <1>3, <2>3 DEF Newer, Environment
<1>4. ASSUME NEW s \in Resources, Receive(s) PROVE Newer(o, k)'
  <2>1. CASE s # r
    BY <1>1, <1>4, <2>1 DEF Receive, Newer, Later, TypeOK
  <2>2. CASE s = r
    <3>1. /\ UNCHANGED <<cluster, written, indexer>> /\ queue[r] # <<>>
          /\ queue'[r] = Tail(queue[r])
          /\ event'[r] = NoEvent \/ (event'[r] = queue[r][1] /\ ~Skipped(queue[r][1]))
          /\ 1 \in 1..Len(queue[r])
      BY <1>1, <1>4, <2>2 DEF Receive, TypeOK
    <3>2. Later(o, k, 0 + 1)
      BY <1>1, <1>2 DEF Later
    <3>3. Later(o, k, 0)'
      BY <1>1, <3>1, <3>2, LaterTaken
    <3>4. Tells(queue[r][1], o) => queue[r][1].new > k
      BY <1>2, <3>1 DEF Later
    <3>5. QED
      BY <3>1, <3>3, <3>4 DEF Newer, Tells
  <2>3. QED
    BY <2>1, <2>2
<1>5. CASE \/ \E s \in Resources : Handle(s) \/ HandlerDone(s)
           \/ \E t \in Threads : Caller(t)
           \/ UNCHANGED watcherVars
  <2>1. /\ UNCHANGED <<cluster, written, indexer, queue>>
        /\ event'[r] \in {event[r], NoEvent}
        /\ mux = r => mux' = r \/ event'[r] = NoEvent
    BY <1>1, <1>5, WatcherAssumption
       DEF Handle, AddFunc, UpdateFunc, DeleteFunc, HandlerLock, HandlerDone, Caller, AddStart,
           AddExisting, AddDone, LockResource, UnlockResource, watcherVars, TypeOK
  <2>2. QED
    BY <2>1 DEF Newer, Later
<1>6. QED
  BY <1>3, <1>4, <1>5 DEF Next

(* Every version there is, is newer than none.                             *)
LEMMA NewerThanNone ==
  ASSUME TypeOK, NotificationsFit, NEW o \in Objects PROVE Newer(o, 0)
<1> DEFINE r == ResourceOf[o]
<1>1. r \in Resources /\ queue[r] \in Seq(Notifications) /\ MaxVersion \in Nat
  BY InformersAssumption DEF TypeOK
<1>2. written[o] \in 0..MaxVersion /\ cluster[o] \in 0..MaxVersion
  BY DEF TypeOK, Versions
<1>3. ASSUME NEW n \in Notifications, n.new # 0 PROVE n.new > 0
  BY <1>1, <1>3 DEF Notifications, Versions
<1>4. \A i \in 1..Len(queue[r]) : queue[r][i] \in Notifications
  BY <1>1, ElementOfSeq
<1>5. event[r] # NoEvent => event[r] \in Notifications
  BY <1>1 DEF TypeOK
<1>6. QED
  BY <1>1, <1>2, <1>3, <1>4, <1>5 DEF Newer, Later, Tells

(* What a handler stores is newer than what came before it, and older than *)
(* what is still on its way.                                               *)
LEMMA NewerStored ==
  ASSUME TypeOK, NotificationsFit, VersionsGrow, NEW r \in Resources, event[r] # NoEvent
  PROVE  /\ mux = r => Newer(event[r].obj, event[r].new)
         /\ \A k : mux # r /\ Newer(event[r].obj, k) /\ event[r].new # 0 => event[r].new > k
<1>1. ResourceOf[event[r].obj] = r
  BY DEF NotificationsFit, Fits
<1>2. QED
  BY <1>1 DEF Newer, VersionsGrow

(* Versions are told in the order they were given, whatever is delayed,    *)
(* lost or listed again.                                                   *)
LEMMA GrowAlways == Spec => []VersionsGrow
<1>1. CacheInv => TypeOK /\ WatchesExactly /\ NotificationsFit
  BY DEF CacheInv
<1>2. QED
  BY <1>1, GrowInit, GrowStep, CacheInvInit, CacheInvStep, PTL DEF Spec

-----------------------------------------------------------------------------
(* What the handler is about to store replaces what the cache holds.       *)
LEMMA OldIsStored ==
  ASSUME CacheInv, NEW r \in Resources, event[r] # NoEvent, mux # r, event[r].obj \notin stale
  PROVE  event[r].old = items[event[r].obj]
<1> DEFINE n == event[r]
           o == event[r].obj
<1>1. n \in Notifications /\ o \in Objects /\ ResourceOf[o] = r /\ queue[r] \in Seq(Notifications)
  <2>1. n \in Notifications /\ queue[r] \in Seq(Notifications)
    BY DEF CacheInv, TypeOK
  <2>2. ResourceOf[o] = r
    BY DEF CacheInv, NotificationsFit, Fits
  <2>3. o \in Objects
    BY <2>1 DEF Notifications
  <2>4. QED
    BY <2>1, <2>2, <2>3
<1>2. PICK from \in Versions : from = items[o] /\ Leads(OnItsWay(r), o, from, indexer[o])
  BY <1>1 DEF CacheInv, PathsLead, PathLeads
<1>3. OnItsWay(r) = <<n>> \o queue[r]
  BY DEF OnItsWay
<1> HIDE DEF n
<1>4. IF n.obj = o THEN n.old = from /\ Leads(queue[r], o, n.new, indexer[o])
                   ELSE Leads(queue[r], o, from, indexer[o])
  BY <1>1, <1>2, <1>3, LeadsFrom
<1>5. QED
  BY <1>2, <1>4 DEF n

(* If no watch ever breaks, no deletion is missed and none is refused.     *)
AllSeen ==
  /\ stale = {}
  /\ \A r \in Resources : informer[r] # "lost"
  /\ \A o \in Objects : informer[ResourceOf[o]] # "synced" => indexer[o] = 0
  /\ \A r \in Resources : \A i \in 1..Len(queue[r]) : queue[r][i].type # "tombstone"

(* At the start nothing is watched.                                        *)
LEMMA AllSeenInit == WatcherInit => AllSeen
BY InformersAssumption DEF WatcherInit, InformersInit, AllSeen

(* Every step keeps it where no watch breaks.                              *)
LEMMA AllSeenStep ==
  ASSUME MaxRelists = 0, TypeOK, AllSeen, [Next]_watcherVars PROVE AllSeen'
<1> USE InformersAssumption DEF informerVars
<1>1. \A r \in Resources : queue[r] \in Seq(Notifications)
  BY DEF TypeOK
<1>2. ASSUME NEW o \in Objects, NEW v, NEW type \in {"add", "update", "delete"},
             Observe(o, v, type), UNCHANGED <<stale, informer>>
      PROVE  AllSeen'
  <2> DEFINE n == Notification(type, o, v)
  <2>1. n.type # "tombstone"
    BY DEF Notification
  <2>2. \/ UNCHANGED <<queue, indexer>>
        \/ /\ informer[ResourceOf[o]] = "synced" /\ indexer' = [indexer EXCEPT ![o] = v]
           /\ queue' = [queue EXCEPT ![ResourceOf[o]] = Append(@, n)]
    BY <1>2 DEF Observe
  <2> HIDE DEF n
  <2>3. ASSUME NEW r \in Resources, NEW i \in 1..Len(queue'[r]) PROVE queue'[r][i].type # "tombstone"
    <3>1. CASE queue'[r] = queue[r]
      BY <2>3, <3>1 DEF AllSeen
    <3>2. CASE queue'[r] # queue[r]
      <4>1. queue'[r] = Append(queue[r], n)
        BY <2>2, <3>2 DEF TypeOK
      <4>2. (i \in 1..Len(queue[r]) /\ queue'[r][i] = queue[r][i]) \/ queue'[r][i] = n
        BY <1>1, <2>3, <4>1
      <4>3. QED
        BY <2>1, <4>2 DEF AllSeen
    <3>3. QED
      BY <3>1, <3>2
  <2>4. \A w \in Objects : informer[ResourceOf[w]] # "synced" => indexer'[w] = 0
    BY <2>2 DEF AllSeen, TypeOK
  <2>5. QED
    BY <1>2, <2>3, <2>4 DEF AllSeen
<1>3. ASSUME NEW o \in Objects, Write(o), UNCHANGED stale PROVE AllSeen'
  <2>1. /\ (IF cluster[o] = 0 THEN "add" ELSE "update") \in {"add", "update", "delete"}
        /\ Observe(o, written[o] + 1, IF cluster[o] = 0 THEN "add" ELSE "update")
    BY <1>3 DEF Write
  <2>2. QED
    BY <1>2, <1>3, <2>1 DEF Write
<1>4. ASSUME NEW o \in Objects, Delete(o), UNCHANGED stale PROVE AllSeen'
  BY <1>2, <1>4 DEF Delete
<1>5. ASSUME NEW r \in Resources, LoseWatch(r) PROVE AllSeen'
  BY <1>5 DEF LoseWatch, TypeOK
<1>6. ASSUME NEW r \in Resources, List(r), UNCHANGED stale PROVE AllSeen'
  <2>1. PICK batch \in SetToSeqs(Replacements(r)) : queue' = [queue EXCEPT ![r] = @ \o batch]
    BY <1>6 DEF List
  <2>2. informer[r] = "starting" /\ informer' = [informer EXCEPT ![r] = "synced"]
        /\ indexer' = [o \in Objects |-> IF ResourceOf[o] = r THEN cluster[o] ELSE indexer[o]]
    BY <1>6 DEF List, AllSeen
  <2>3. batch \in Seq(Notifications) /\ \A i \in 1..Len(batch) : batch[i].type # "tombstone"
    <3>1. /\ batch \in Seq(Notifications)
          /\ \A i \in 1..Len(batch) :
               /\ batch[i].obj \in Objects /\ ResourceOf[batch[i].obj] = r
               /\ batch[i].old = indexer[batch[i].obj]
               /\ batch[i].type = "tombstone" => batch[i].old # 0
      BY ReplacementsOfOne
    <3>2. QED
      BY <2>2, <3>1 DEF AllSeen
  <2>4. ASSUME NEW s \in Resources, NEW i \in 1..Len(queue'[s]) PROVE queue'[s][i].type # "tombstone"
    <3>1. CASE s # r
      BY <2>1, <2>4, <3>1 DEF AllSeen, TypeOK
    <3>2. CASE s = r
      <4>1. queue'[r] = queue[r] \o batch
        BY <2>1 DEF TypeOK
      <4>2. \/ i \in 1..Len(queue[r]) /\ queue'[r][i] = queue[r][i]
            \/ \E j \in 1..Len(batch) : queue'[r][i] = batch[j]
        BY <1>1, <2>3, <2>4, <3>2, <4>1, ConcatProperties
      <4>3. QED
        BY <2>3, <3>2, <4>2 DEF AllSeen
    <3>3. QED
      BY <3>1, <3>2
  <2>5. /\ \A s \in Resources : informer'[s] # "lost"
        /\ \A o \in Objects : informer'[ResourceOf[o]] # "synced" => indexer'[o] = 0
    BY <2>2 DEF AllSeen, TypeOK
  <2>6. QED
    BY <1>6, <2>4, <2>5 DEF AllSeen
<1>7. ASSUME NEW r \in Resources, Receive(r) PROVE AllSeen'
  <2>1. /\ queue[r] \in Seq(Notifications) /\ queue[r] # <<>> /\ Head(queue[r]) = queue[r][1]
        /\ 1 \in 1..Len(queue[r])
        /\ \A i \in 1..Len(Tail(queue[r])) :
             i + 1 \in 1..Len(queue[r]) /\ Tail(queue[r])[i] = queue[r][i + 1]
    BY <1>1, <1>7, HeadTailProperties DEF Receive
  <2>2. stale' = {}
    BY <1>7, <2>1 DEF Receive, AllSeen
  <2>3. \A i \in 1..Len(Tail(queue[r])) : Tail(queue[r])[i].type # "tombstone"
    BY <2>1 DEF AllSeen
  <2>4. \A s \in Resources : queue'[s] = IF s = r THEN Tail(queue[r]) ELSE queue[s]
    BY <1>7 DEF Receive, TypeOK
  <2>5. QED
    BY <1>7, <2>2, <2>3, <2>4 DEF Receive, AllSeen
<1>8. ASSUME NEW r \in Resources, Handle(r) \/ HandlerDone(r) PROVE AllSeen'
  BY <1>8 DEF Handle, AddFunc, UpdateFunc, DeleteFunc, HandlerLock, HandlerDone, AllSeen
<1>9. ASSUME NEW t \in Threads, Caller(t) PROVE AllSeen'
  BY <1>9 DEF Caller, AddStart, AddExisting, AddDone, LockResource, UnlockResource, watcherVars,
              AllSeen, TypeOK
<1>10. CASE UNCHANGED watcherVars
  BY <1>10 DEF watcherVars, AllSeen
<1>11. QED
  BY <1>3, <1>4, <1>5, <1>6, <1>7, <1>8, <1>9, <1>10 DEF Next, Environment, Users

=============================================================================
