-------------------------------- MODULE Cache --------------------------------
(***************************************************************************)
(* store/cache.go: the controller's own copy of the watched objects, three *)
(* nested maps (kind, namespace, name) under one lock.  An entry is an     *)
(* object and the version last stored under its name; 0 is no entry.       *)
(***************************************************************************)
CONSTANTS Objects, ResourceOf, NamespaceOf, NoNamespace

VARIABLE items

CacheInit == items = [o \in Objects |-> 0]

(* Add creates the inner maps it lacks and overwrites an older entry.      *)
CacheAdd(o, version) == items' = [items EXCEPT ![o] = version]

(* Remove of an entry that is not there does nothing.                      *)
CacheRemove(o) == items' = [items EXCEPT ![o] = 0]

(* The entries of one kind, in one namespace or, if it is "", in all.      *)
CacheFind(r, ns) ==
  {o \in Objects : /\ items[o] # 0
                   /\ ResourceOf[o] = r
                   /\ ns = NoNamespace \/ ns = NamespaceOf[o]}

=============================================================================
