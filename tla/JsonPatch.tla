------------------------------ MODULE JsonPatch ------------------------------
(***************************************************************************)
(* jsonpatch/: CreateJSONPatch(modified, current), as hook.go calls it: no *)
(* options, on the generic maps, slices and scalars of two JSON objects.   *)
(* The walker goes through both at once and emits RFC 6902 operations; the *)
(* API server applies them, in that order, to the object it has.           *)
(*                                                                         *)
(* The walker's recursion is an agenda: what it still has to walk or emit. *)
(* Go's maps come in any order.  A pointer is the sequence of its elements *)
(* (String escapes them, so no two pointers have the same text), and the   *)
(* elements of a slice count from 1.                                       *)
(***************************************************************************)
EXTENDS Naturals, SequencesExt

CONSTANTS
  Values,     \* what encoding/json decodes to, and the parts of it
  Modifieds,  \* the objects admissions may return
  Currents    \* the objects requests may carry

VARIABLES
  modified, current,  \* the arguments
  agenda,             \* what the walker has left to do
  patchList,          \* walker.patchList
  failed,             \* walk has returned an error
  object              \* external: the object with patchList applied to it

vars == <<modified, current, agenda, patchList, failed, object>>

(* A value has a reflect.Kind, a text if it is a scalar and parts if it is *)
(* a map (by key) or a slice.  null is the Kind "invalid".                 *)
Value(kind, text, parts) == [kind |-> kind, text |-> text, parts |-> parts]
Absent == Value("absent", "", <<>>)
Null   == Value("invalid", "", <<>>)
EmptyString == Value("string", "", <<>>)

(* A map has a value for each of finitely many keys, none of them a number. *)
ASSUME JsonPatchAssumption ==
  /\ Modifieds \cup Currents \subseteq Values
  /\ \A value \in Values :
       /\ value = Value(value.kind, value.text, value.parts)
       /\ value.kind # "absent"
       /\ value.kind = "invalid" => value = Null
       /\ value.kind = "map" => /\ value.text = ""
                               /\ IsFiniteSet(DOMAIN value.parts)
                               /\ value.parts \in [DOMAIN value.parts -> Values]
                               /\ \A key \in DOMAIN value.parts : key \notin Nat
       /\ value.kind = "slice" => value.text = "" /\ value.parts \in Seq(Values)
       /\ value.kind \notin {"map", "slice"} => value.parts = <<>>

Item(do, pointer, new, old) == [do |-> do, pointer |-> pointer, new |-> new, old |-> old]
Child(item, key, do, new, old) == Item(do, Append(item.pointer, key), new, old)

Init ==
  /\ modified \in Modifieds
  /\ current \in Currents
  /\ agenda = <<Item("walk", <<>>, modified, current)>>
  /\ patchList = <<>>
  /\ failed = FALSE
  /\ object = current

-----------------------------------------------------------------------------
(* Mutant of WalkString: unequal or not.                                   *)
WalkStringAlways(item) == <<[item EXCEPT !.do = "replace"]>>

(* walk, of two strings: an empty one is taken for one that is not there.  *)
WalkString(item) ==
  IF item.new = item.old THEN <<>>
  ELSE <<[item EXCEPT !.do = IF item.new = EmptyString THEN "remove"
                             ELSE IF item.old = EmptyString THEN "add" ELSE "replace"]>>

(* walk, of two numbers or booleans, or of two nulls.                      *)
WalkScalar(item) ==
  IF item.new = item.old THEN <<>> ELSE <<[item EXCEPT !.do = "replace"]>>

(* A map or slice that was empty is added as a whole.                      *)
WasEmpty(item) == item.new.parts # <<>> /\ item.old.parts = <<>>
AddWhole(item) == <<[item EXCEPT !.do = "add"]>>

(* processMap: first the keys of modified, then those that are gone.       *)
MapItems(item, kept, gone) ==
  LET new == item.new.parts
      old == item.old.parts
      Kept(k) == IF k \in DOMAIN old THEN Child(item, k, "walk", new[k], old[k])
                                     ELSE Child(item, k, "add", new[k], Absent)
      Gone(k) == Child(item, k, "remove", Absent, old[k])
  IN  [i \in DOMAIN kept |-> Kept(kept[i])] \o [i \in DOMAIN gone |-> Gone(gone[i])]

ProcessMap(item) ==
  {MapItems(item, kept, gone) :
     kept \in SetToSeqs(DOMAIN item.new.parts),
     gone \in SetToSeqs(DOMAIN item.old.parts \ DOMAIN item.new.parts)}

(* Mutant of Removals: from the first to the last.                         *)
RemovalsForward(item) ==
  [i \in 1..(Len(item.old.parts) - Len(item.new.parts)) |->
     Child(item, Len(item.new.parts) + i, "remove", Absent,
           item.old.parts[Len(item.new.parts) + i])]

(* The elements of the old slice beyond the new one's, from the last on.   *)
Removals(item) ==
  [i \in 1..(Len(item.old.parts) - Len(item.new.parts)) |->
     Child(item, Len(item.old.parts) + 1 - i, "remove", Absent,
           item.old.parts[Len(item.old.parts) + 1 - i])]

(* processSlice: what both have, then what one has more.                   *)
ProcessSlice(item) ==
  LET new == item.new.parts
      old == item.old.parts
      both == IF Len(new) < Len(old) THEN Len(new) ELSE Len(old)
  IN  [i \in 1..both |-> Child(item, i, "walk", new[i], old[i])]
      \o [i \in 1..(Len(new) - both) |-> Child(item, both + i, "add", new[both + i], Absent)]
      \o Removals(item)

Expansions(item) ==
  CASE item.new.kind \in {"map", "slice"} /\ WasEmpty(item) -> {AddWhole(item)}
    [] item.new.kind = "map" /\ ~WasEmpty(item)   -> ProcessMap(item)
    [] item.new.kind = "slice" /\ ~WasEmpty(item) -> {ProcessSlice(item)}
    [] item.new.kind = "string"                   -> {WalkString(item)}
    [] OTHER                                      -> {WalkScalar(item)}

(* walk: two values of different kinds, null included, are an error.       *)
Walk ==
  /\ agenda # <<>> /\ Head(agenda).do = "walk"
  /\ LET item == Head(agenda) IN
       IF item.new.kind # item.old.kind
         THEN failed' = TRUE /\ agenda' = <<>>
         ELSE /\ \E items \in Expansions(item) : agenda' = items \o Tail(agenda)
              /\ UNCHANGED failed
  /\ UNCHANGED <<modified, current, patchList, object>>

-----------------------------------------------------------------------------
(* RFC 6902, external.  An operation that cannot be applied breaks the     *)
(* object: one without a target, and an add without a value.               *)
Broken == Value("broken", "", <<>>)

(* A value with op applied to its part at key.                             *)
Edited(value, op, key) ==
  LET parts == value.parts
      new == CASE op.op = "add" /\ value.kind = "slice" -> InsertAt(parts, key, op.value)
               [] op.op = "add" /\ value.kind = "map" ->
                    [k \in DOMAIN parts \cup {key} |-> IF k = key THEN op.value ELSE parts[k]]
               [] op.op = "replace" -> [parts EXCEPT ![key] = op.value]
               [] op.op = "remove" /\ value.kind = "slice" -> RemoveAt(parts, key)
               [] OTHER -> Restrict(parts, DOMAIN parts \ {key})
  IN  [value EXCEPT !.parts = new]

Known(value, key) == value.kind \in {"map", "slice"} /\ key \in DOMAIN value.parts
Part(value, key) == IF Known(value, key) THEN value.parts[key] ELSE Absent

(* What op edits is there, or there is room for it.                        *)
Accepts(value, op, key) ==
  \/ Known(value, key)
  \/ op.op = "add" /\ value.kind = "map"
  \/ op.op = "add" /\ value.kind = "slice" /\ key \in 1..(Len(value.parts) + 1)

(* The values that a path goes through, from the whole one to its target.  *)
Along(value, path) ==
  LET at[i \in 0..Len(path)] ==
        IF i = 0 THEN value ELSE Part(at[i - 1], path[i])
  IN  at

(* The same values with op applied, the target left out.                   *)
Rebuilt(at, op, path) ==
  LET new[i \in 0..(Len(path) - 1)] ==
        IF i = Len(path) - 1 THEN Edited(at[i], op, path[i + 1])
        ELSE [at[i] EXCEPT !.parts[path[i + 1]] = new[i + 1]]
  IN  new

Patched(value, op) ==
  LET at == Along(value, op.path)
      last == Len(op.path)
  IN  IF op.op # "remove" /\ op.value = Absent THEN Broken
      ELSE IF op.path = <<>> THEN op.value
      ELSE IF Accepts(at[last - 1], op, op.path[last]) THEN Rebuilt(at, op, op.path)[0]
      ELSE Broken

(* JSONPatch as it is serialised: a null Value is left out (omitempty).    *)
Operation(item) ==
  [op |-> item.do, path |-> item.pointer,
   value |-> IF item.do = "remove" \/ item.new = Null THEN Absent ELSE item.new]

(* add, replace, remove; the default Predicate lets everything through.    *)
Emit ==
  /\ agenda # <<>> /\ Head(agenda).do # "walk"
  /\ LET op == Operation(Head(agenda)) IN
       /\ patchList' = Append(patchList, op)
       /\ object' = Patched(object, op)
  /\ agenda' = Tail(agenda)
  /\ UNCHANGED <<modified, current, failed>>

Next == Walk \/ Emit

Spec == Init /\ [][Next]_vars

-----------------------------------------------------------------------------
Created == agenda = <<>> /\ ~failed

(* The pairs of values that the walker does not mistake, closed under the  *)
(* pairs it goes on to: no string is emptied, no null is added, and an     *)
(* empty element of a slice stays as it is.                                *)
Empty(value) ==
  value = EmptyString \/ (value.kind \in {"map", "slice"} /\ value.parts = <<>>)
PlainPairs(pairs) ==
  \A pair \in pairs :
    LET new == pair[1]
        old == pair[2]
    IN  new.kind = old.kind =>
          /\ new = EmptyString => old = EmptyString
          /\ \A key \in DOMAIN new.parts :
               IF key \in DOMAIN old.parts
                 THEN /\ <<new.parts[key], old.parts[key]>> \in pairs
                      /\ new.kind = "slice" /\ Empty(old.parts[key])
                           => new.parts[key] = old.parts[key]
                 ELSE old.parts = <<>> \/ new.parts[key] # Null

(* src/README.md:181 and jsonpatch/patch.go:52: the patch that comes from  *)
(* comparing the object with an admission's Result turns the one into the  *)
(* other, whatever order maps come in and however operations on a slice    *)
(* shift the indexes of those that follow.                                 *)
PatchYieldsModified == Created => object = modified

(* The patch is empty for equal objects and for no others.  hook.go:151    *)
(* relies on the annotation it sets to make them differ: an empty patch    *)
(* has no Raw, but is sent with a PatchType.                               *)
EmptyIffEqual == Created => (patchList = <<>> <=> modified = current)

=============================================================================
