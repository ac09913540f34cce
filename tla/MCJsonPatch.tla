----------------------------- MODULE MCJsonPatch -----------------------------
(* Objects with up to three levels: scalars of every kind, maps over two   *)
(* keys, slices of up to three scalars and of up to two maps.              *)
EXTENDS JsonPatch

CONSTANTS k1, k2, created

a   == Value("string", "a", <<>>)
b   == Value("string", "b", <<>>)
one == Value("int64", "1", <<>>)
two == Value("int64", "2", <<>>)
half == Value("float64", "0.5", <<>>)
yes == Value("bool", "true", <<>>)

MapsOver(keys, values) ==
  {Value("map", "", f) : f \in UNION {[S -> values] : S \in SUBSET keys}}
SlicesUpTo(n, values) == {Value("slice", "", s) : s \in UNION {[1..m -> values] : m \in 0..n}}

(* Values with their parts.                                                *)
WithParts(values) ==
  values \cup UNION {{value.parts[k] : k \in DOMAIN value.parts} : value \in values}

Filled(values) == {v \in values : v.parts # <<>>}

Inner == MapsOver({k1, k2}, {a, b})
Parts == {a, one, two, half, yes} \cup Inner \cup SlicesUpTo(3, {a, b})
           \cup SlicesUpTo(2, Filled(MapsOver({k1}, {a, b}) \cup SlicesUpTo(1, {one, two})))

(* Every object has a null of its own, as creationTimestamp.               *)
Fresh(values) ==
  {Value("map", "", [k \in DOMAIN v.parts \cup {created} |->
                       IF k = created THEN Null ELSE v.parts[k]]) : v \in values}

(* Objects without the values that the walker mistakes: empty strings, and *)
(* empty maps and slices in a slice.                                       *)
PlainObjects == Fresh(MapsOver({k1}, Parts) \cup MapsOver({k1, k2}, {a, two}))

(* Nulls may be in the object of the request, to be removed or kept out.   *)
PlainCurrents == PlainObjects \cup Fresh(MapsOver({k1, k2}, {a, Null}))

(* The walker mistakes none of their pairs, nor of the pairs of their parts. *)
Inners == WithParts(WithParts(Parts))
ASSUME PlainAssumption ==
  PlainPairs((PlainObjects \X PlainCurrents) \cup (Inners \X (Inners \cup {Null}))
               \cup {<<Null, Null>>})

(* Objects with those values.                                              *)
OddObjects == MapsOver({k1}, SlicesUpTo(2, {a, EmptyString, Value("map", "", <<>>)} \cup Inner))

(* All that the objects of a run are made of.                               *)
PlainValues == WithParts(WithParts(WithParts(PlainCurrents)))
OddValues == WithParts(WithParts(WithParts(OddObjects)))

=============================================================================
