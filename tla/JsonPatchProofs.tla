--------------------------- MODULE JsonPatchProofs ---------------------------
(***************************************************************************)
(* What holds of the patch of any two objects, however deep they are and   *)
(* in whatever order their maps come.  The argument: each item of the      *)
(* agenda changes one object into another, the first of them is the object *)
(* as patched so far, the last one is modified.                            *)
(***************************************************************************)
EXTENDS JsonPatch, FiniteSetTheorems, SequenceTheorems, WellFoundedInduction, TLAPS

(* Induction over the positions of a path, from its start.                 *)
LEMMA FromStart ==
  ASSUME NEW n \in Nat, NEW T, 0 \in T, \A i \in 1..n : i - 1 \in T => i \in T
  PROVE  \A i \in 0..n : i \in T
<1> SUFFICES ASSUME \E i \in 0..n : i \notin T PROVE FALSE
  OBVIOUS
<1> DEFINE R == {pair \in Nat \X Nat : pair[1] < pair[2]}
           S == {i \in 0..n : i \notin T}
<1>1. IsWellFoundedOn(R, Nat)
  BY NatLessThanWellFounded DEF OpToRel
<1>2. S \subseteq Nat /\ S # {}
  OBVIOUS
<1>3. PICK i \in S : \A j \in S : <<j, i>> \notin R
  <2> HIDE DEF R, S
  <2>1. QED
    BY <1>1, <1>2, WFMin
<1>4. i \in 1..n
  OBVIOUS
<1>5. i - 1 \in S
  BY <1>4
<1>6. <<i - 1, i>> \in R
  BY <1>4
<1>7. QED
  BY <1>3, <1>5, <1>6

(* From its end.                                                           *)
LEMMA FromEnd ==
  ASSUME NEW n \in Nat, NEW T, n \in T, \A i \in 1..n : i \in T => i - 1 \in T
  PROVE  \A i \in 0..n : i \in T
<1> DEFINE U == {i \in 0..n : n - i \in T}
<1>1. 0 \in U
  OBVIOUS
<1>2. ASSUME NEW i \in 1..n, i - 1 \in U PROVE i \in U
  <2>1. n - (i - 1) \in 1..n /\ n - (i - 1) \in T
    BY <1>2
  <2>2. n - (i - 1) - 1 \in T
    BY <2>1
  <2>3. n - (i - 1) - 1 = n - i
    OBVIOUS
  <2>4. QED
    BY <2>2, <2>3
<1> HIDE DEF U
<1>3. \A i \in 0..n : i \in U
  BY <1>1, <1>2, FromStart
<1>4. ASSUME NEW i \in 0..n PROVE i \in T
  <2>1. n - i \in 0..n /\ n - (n - i) = i
    OBVIOUS
  <2>2. n - (n - i) \in T
    BY <1>3, <2>1 DEF U
  <2>3. QED
    BY <2>1, <2>2
<1>5. QED
  BY <1>4

-----------------------------------------------------------------------------
(* A map or a slice, none of whose parts is absent.                        *)
Container(x) ==
  /\ x = Value(x.kind, x.text, x.parts)
  /\ x.kind \in {"map", "slice"}
  /\ x.parts = [k \in DOMAIN x.parts |-> x.parts[k]]
  /\ \A k \in DOMAIN x.parts : x.parts[k] # Absent

(* A container with y at k, or with nothing there if y is absent.          *)
With(x, k, y) ==
  Value(x.kind, x.text,
        IF y = Absent THEN [j \in DOMAIN x.parts \ {k} |-> x.parts[j]]
                      ELSE [j \in DOMAIN x.parts \cup {k} |-> IF j = k THEN y ELSE x.parts[j]])

(* What With puts at a key is there, and the container is one still.       *)
LEMMA PartWith ==
  ASSUME NEW x, Container(x), NEW k, NEW y
  PROVE  /\ Container(With(x, k, y))
         /\ Part(With(x, k, y), k) = y
         /\ With(x, k, y).kind = x.kind
<1> DEFINE less == [j \in DOMAIN x.parts \ {k} |-> x.parts[j]]
           more == [j \in DOMAIN x.parts \cup {k} |-> IF j = k THEN y ELSE x.parts[j]]
<1>1. CASE y = Absent
  <2>1. With(x, k, y) = Value(x.kind, x.text, less)
    BY <1>1 DEF With
  <2>2. DOMAIN less = DOMAIN x.parts \ {k} /\ \A j \in DOMAIN less : less[j] = x.parts[j]
    OBVIOUS
  <2>3. less = [j \in DOMAIN less |-> less[j]]
    OBVIOUS
  <2> HIDE DEF less
  <2>4. QED
    BY <1>1, <2>1, <2>2, <2>3 DEF Container, Value, Part, Known
<1>2. CASE y # Absent
  <2>1. With(x, k, y) = Value(x.kind, x.text, more)
    BY <1>2 DEF With
  <2>2. /\ DOMAIN more = DOMAIN x.parts \cup {k} /\ more[k] = y
        /\ \A j \in DOMAIN more : more[j] = IF j = k THEN y ELSE x.parts[j]
    OBVIOUS
  <2>3. more = [j \in DOMAIN more |-> more[j]]
    OBVIOUS
  <2> HIDE DEF more
  <2>4. QED
    BY <1>2, <2>1, <2>2, <2>3 DEF Container, Value, Part, Known
<1>3. QED
  BY <1>1, <1>2

(* It replaces what was put there before.                                  *)
LEMMA WithWith ==
  ASSUME NEW x, NEW k, NEW y, NEW z
  PROVE  With(With(x, k, y), k, z) = With(x, k, z)
<1> DEFINE w == With(x, k, y)
           d == DOMAIN x.parts
<1>1. w.kind = x.kind /\ w.text = x.text
  BY DEF With, Value
<1>2. /\ DOMAIN w.parts \ {k} = d \ {k}
      /\ DOMAIN w.parts \cup {k} = d \cup {k}
      /\ \A j \in d \ {k} : w.parts[j] = x.parts[j]
  BY DEF With, Value
<1> HIDE DEF w, d
<1>3. [j \in DOMAIN w.parts \ {k} |-> w.parts[j]] = [j \in d \ {k} |-> x.parts[j]]
  BY <1>2
<1>4. [j \in DOMAIN w.parts \cup {k} |-> IF j = k THEN z ELSE w.parts[j]]
        = [j \in d \cup {k} |-> IF j = k THEN z ELSE x.parts[j]]
  BY <1>2
<1>5. With(w, k, z) = With(x, k, z)
  BY <1>1, <1>3, <1>4 DEF With, d
<1>6. QED
  BY <1>5 DEF w

(* What is there already changes nothing.                                  *)
LEMMA WithPart ==
  ASSUME NEW x, Container(x), NEW k
  PROVE  With(x, k, Part(x, k)) = x
<1> DEFINE f == x.parts
<1>1. x = Value(x.kind, x.text, f) /\ f = [j \in DOMAIN f |-> f[j]]
  BY DEF Container
<1>2. CASE k \in DOMAIN f
  <2>1. Part(x, k) = f[k] /\ f[k] # Absent
    BY <1>2 DEF Container, Part, Known
  <2>2. [j \in DOMAIN f \cup {k} |-> IF j = k THEN f[k] ELSE f[j]] = [j \in DOMAIN f |-> f[j]]
    BY <1>2
  <2> HIDE DEF f
  <2>3. QED
    BY <1>1, <2>1, <2>2 DEF With, f
<1>3. CASE k \notin DOMAIN f
  <2>1. Part(x, k) = Absent
    BY <1>3 DEF Part, Known
  <2>2. [j \in DOMAIN f \ {k} |-> f[j]] = [j \in DOMAIN f |-> f[j]]
    BY <1>3
  <2>3. QED
    BY <1>1, <2>1, <2>2 DEF With
<1>4. QED
  BY <1>2, <1>3

(* The maps and slices among the values are containers.                    *)
LEMMA ValuesContainers ==
  ASSUME NEW x \in Values
  PROVE  /\ x # Absent
         /\ x.kind \in {"map", "slice"} => /\ Container(x) /\ x.text = ""
                                           /\ \A k \in DOMAIN x.parts : x.parts[k] \in Values
<1>1. \A y \in Values : y.kind # "absent"
  BY JsonPatchAssumption
<1>2. \A y \in Values : y # Absent
  <2>1. Absent.kind = "absent"
    BY DEF Absent, Value
  <2>2. QED
    BY <1>1, <2>1
<1>3. ASSUME x.kind = "map"
      PROVE  Container(x) /\ x.text = "" /\ \A k \in DOMAIN x.parts : x.parts[k] \in Values
  <2>1. /\ x = Value(x.kind, x.text, x.parts) /\ x.text = ""
        /\ x.parts \in [DOMAIN x.parts -> Values]
    BY <1>3, JsonPatchAssumption
  <2>2. QED
    BY <1>2, <1>3, <2>1 DEF Container
<1>4. ASSUME x.kind = "slice"
      PROVE  Container(x) /\ x.text = "" /\ \A k \in DOMAIN x.parts : x.parts[k] \in Values
  <2>1. x = Value(x.kind, x.text, x.parts) /\ x.text = "" /\ x.parts \in Seq(Values)
    BY <1>4, JsonPatchAssumption
  <2>2. x.parts \in [1..Len(x.parts) -> Values] /\ DOMAIN x.parts = 1..Len(x.parts)
    BY <2>1, LenProperties
  <2>3. QED
    BY <1>2, <1>4, <2>1, <2>2 DEF Container
<1>5. QED
  BY <1>2, <1>3, <1>4

-----------------------------------------------------------------------------
Keys == UNION {DOMAIN x.parts : x \in Values}
Items == [do : {"walk", "add", "replace", "remove"}, pointer : Seq(Keys),
          new : Values \cup {Absent}, old : Values \cup {Absent}]

(* The place where an operation puts y: any key of a map, but of a slice   *)
(* only the last element may go and only the end may grow.                 *)
Fits(x, k, y) ==
  \/ x.kind = "map"
  \/ x.kind = "slice" /\ \E n \in Nat : /\ DOMAIN x.parts = 1..n
                                        /\ k \in 1..(n + 1)
                                        /\ y = Absent => k = n

(* s goes down a path through containers, t goes up it again, putting what *)
(* it has found below into what s went through.                            *)
Down(s, p) == \A i \in 1..Len(p) : Container(s[i - 1]) /\ s[i] = Part(s[i - 1], p[i])
Up(t, s, p) == \A i \in 1..Len(p) : t[i - 1] = With(s[i - 1], p[i], t[i])

(* An item stands for a change of b into a: from old to new at its pointer. *)
Changes(b, a, item) ==
  \E s, t : /\ Down(s, item.pointer) /\ s[0] = b /\ s[Len(item.pointer)] = item.old
            /\ Up(t, s, item.pointer) /\ t[0] = a /\ t[Len(item.pointer)] = item.new
            /\ Len(item.pointer) > 0 => Fits(s[Len(item.pointer) - 1],
                                             item.pointer[Len(item.pointer)], item.new)

(* Items that change b into a one after the other.                         *)
Chain(b, a, items) ==
  \E v : /\ v[0] = b /\ v[Len(items)] = a
         /\ \A i \in 1..Len(items) : Changes(v[i - 1], v[i], items[i])

(* Any value can be put at the end of a path.                              *)
LEMMA UpExists ==
  ASSUME NEW p \in Seq(Keys), NEW s
  PROVE  \A x : \E t : Up(t, s, p) /\ t[Len(p)] = x
<1> SUFFICES ASSUME NEW x PROVE \E t : Up(t, s, p) /\ t[Len(p)] = x
  OBVIOUS
<1> DEFINE n == Len(p)
           IsUp(t, i) == /\ \A j \in (i + 1)..n : t[j - 1] = With(s[j - 1], p[j], t[j])
                         /\ t[n] = x
           T == {i \in 0..n : \E t : IsUp(t, i)}
<1>1. n \in Nat
  BY LenProperties
<1>2. n \in T
  <2> DEFINE t == [j \in {n} |-> x]
  <2>1. t[n] = x /\ (n + 1)..n = {}
    BY <1>1
  <2> HIDE DEF t
  <2>2. IsUp(t, n)
    BY <2>1
  <2> HIDE DEF IsUp
  <2>3. QED
    BY <1>1, <2>2
<1>3. ASSUME NEW i \in 1..n, i \in T PROVE i - 1 \in T
  <2>1. PICK u : IsUp(u, i)
    BY <1>3
  <2> DEFINE t == [j \in (i - 1)..n |-> IF j = i - 1 THEN With(s[i - 1], p[i], u[i]) ELSE u[j]]
  <2>2. /\ t[i - 1] = With(s[i - 1], p[i], u[i])
        /\ \A j \in i..n : t[j] = u[j]
    BY <1>1
  <2> HIDE DEF t
  <2>3. t[n] = x
    BY <1>1, <2>1, <2>2
  <2>4. ASSUME NEW j \in i..n PROVE t[j - 1] = With(s[j - 1], p[j], t[j])
    <3>1. CASE j = i
      BY <2>2, <3>1, <1>1
    <3>2. CASE j # i
      <4>1. j - 1 \in i..n /\ j \in (i + 1)..n
        BY <1>1, <3>2
      <4>2. u[j - 1] = With(s[j - 1], p[j], u[j])
        BY <2>1, <4>1
      <4>3. QED
        BY <2>2, <4>1, <4>2
    <3>3. QED
      BY <3>1, <3>2
  <2>5. IsUp(t, i - 1)
    <3>1. (i - 1) + 1 = i
      BY <1>1
    <3>2. QED
      BY <2>3, <2>4, <3>1
  <2> HIDE DEF IsUp
  <2>6. QED
    BY <1>1, <2>5
<1> HIDE DEF T
<1>4. 0 \in T
  BY <1>1, <1>2, <1>3, FromEnd
<1>5. PICK t : IsUp(t, 0)
  BY <1>4 DEF T
<1>6. Up(t, s, p) /\ t[n] = x
  BY <1>5, <1>1 DEF Up
<1>7. QED
  BY <1>6

(* In one way only.                                                        *)
LEMMA UpUnique ==
  ASSUME NEW p \in Seq(Keys), NEW s, NEW t, NEW u, Up(t, s, p), Up(u, s, p),
         t[Len(p)] = u[Len(p)]
  PROVE  t[0] = u[0]
<1> DEFINE n == Len(p)
           T == {i \in 0..n : t[i] = u[i]}
<1>1. n \in Nat /\ n \in T
  BY LenProperties
<1>2. ASSUME NEW i \in 1..n, i \in T PROVE i - 1 \in T
  <2>1. t[i - 1] = With(s[i - 1], p[i], t[i]) /\ u[i - 1] = With(s[i - 1], p[i], u[i])
    BY DEF Up
  <2>2. t[i] = u[i] /\ i - 1 \in 0..n
    BY <1>1, <1>2
  <2>3. QED
    BY <2>1, <2>2
<1> HIDE DEF T
<1>3. 0 \in T
  BY <1>1, <1>2, FromEnd
<1>4. QED
  BY <1>3 DEF T

(* What went down goes up again unchanged.                                 *)
LEMMA DownUp ==
  ASSUME NEW p \in Seq(Keys), NEW s, Down(s, p)
  PROVE  Up(s, s, p)
BY WithPart DEF Down, Up

(* A change at the end of a path that goes one key further.                *)
LEMMA Deeper ==
  ASSUME NEW p \in Seq(Keys), NEW s, NEW t, NEW u, Down(s, p), Up(t, s, p), Up(u, s, p),
         NEW k \in Keys, NEW item, item.pointer = Append(p, k),
         Container(t[Len(p)]), item.old = Part(t[Len(p)], k),
         u[Len(p)] = With(t[Len(p)], k, item.new), Fits(t[Len(p)], k, item.new)
  PROVE  Changes(t[0], u[0], item)
<1> DEFINE n == Len(p)
           q == Append(p, k)
           d == [i \in 0..(n + 1) |-> IF i = n + 1 THEN item.old ELSE t[i]]
           e == [i \in 0..(n + 1) |-> IF i = n + 1 THEN item.new ELSE u[i]]
<1>1. n \in Nat /\ Len(q) = n + 1 /\ q[n + 1] = k /\ \A i \in 1..n : q[i] = p[i]
  BY LenProperties, AppendProperties
<1>2. /\ d[n + 1] = item.old /\ \A i \in 0..n : d[i] = t[i]
      /\ e[n + 1] = item.new /\ \A i \in 0..n : e[i] = u[i]
  BY <1>1
<1> HIDE DEF d, e
<1>3. ASSUME NEW i \in 1..(n + 1)
      PROVE  Container(d[i - 1]) /\ d[i] = Part(d[i - 1], q[i]) /\ e[i - 1] = With(d[i - 1], q[i], e[i])
  <2>1. CASE i = n + 1
    <3>1. d[i - 1] = t[n] /\ e[i - 1] = u[n] /\ q[i] = k /\ d[i] = item.old /\ e[i] = item.new
      BY <1>1, <1>2, <2>1
    <3>2. QED
      BY <3>1
  <2>2. CASE i # n + 1
    <3>1. /\ i \in 1..n /\ d[i - 1] = t[i - 1] /\ d[i] = t[i] /\ q[i] = p[i]
          /\ e[i - 1] = u[i - 1] /\ e[i] = u[i]
      BY <1>1, <1>2, <2>2
    <3>2. /\ Container(s[i - 1])
          /\ t[i - 1] = With(s[i - 1], p[i], t[i]) /\ u[i - 1] = With(s[i - 1], p[i], u[i])
      BY <3>1 DEF Down, Up
    <3>3. With(t[i - 1], p[i], u[i]) = With(s[i - 1], p[i], u[i])
      BY <3>2, WithWith
    <3>4. QED
      BY <3>1, <3>2, <3>3, PartWith
  <2>3. QED
    BY <2>1, <2>2
<1>4. Down(d, q) /\ Up(e, d, q)
  BY <1>1, <1>3 DEF Down, Up
<1>5. d[0] = t[0] /\ e[0] = u[0] /\ Fits(d[n], k, item.new)
  BY <1>1, <1>2
<1>6. QED
  <2> HIDE DEF q
  <2>1. /\ Down(d, q) /\ d[0] = t[0] /\ d[Len(q)] = item.old
        /\ Up(e, d, q) /\ e[0] = u[0] /\ e[Len(q)] = item.new
        /\ Fits(d[Len(q) - 1], q[Len(q)], item.new)
    BY <1>1, <1>2, <1>4, <1>5
  <2>2. item.pointer = q
    BY DEF q
  <2>3. QED
    BY <2>1, <2>2 DEF Changes

(* Items that turn old into new part by part, through containers, make the *)
(* change that the item they come from stands for.                         *)
LEMMA ChildrenChain ==
  ASSUME NEW item, item.pointer \in Seq(Keys), NEW b, NEW a, Changes(b, a, item),
         NEW items, Len(items) \in Nat, NEW x, x[0] = item.old, x[Len(items)] = item.new,
         \A j \in 0..Len(items) : Container(x[j]),
         \A j \in 1..Len(items) : \E k \in Keys :
           /\ items[j].pointer = Append(item.pointer, k)
           /\ items[j].old = Part(x[j - 1], k)
           /\ x[j] = With(x[j - 1], k, items[j].new)
           /\ Fits(x[j - 1], k, items[j].new)
  PROVE  Chain(b, a, items)
<1> DEFINE p == item.pointer
           n == Len(p)
           m == Len(items)
<1>0. p \in Seq(Keys)
  OBVIOUS
<1>1. PICK s, t : /\ Down(s, p) /\ s[0] = b /\ s[n] = item.old
                  /\ Up(t, s, p) /\ t[0] = a /\ t[n] = item.new
  BY DEF Changes
<1> HIDE DEF p
<1>2. \A y : \E w : Up(w, s, p) /\ w[n] = y
  BY <1>0, UpExists
<1> HIDE DEF n
<1> DEFINE u == [j \in 0..m |-> CHOOSE w : Up(w, s, p) /\ w[n] = x[j]]
           v == [j \in 0..m |-> u[j][0]]
<1>3. ASSUME NEW j \in 0..m PROVE Up(u[j], s, p) /\ u[j][n] = x[j]
  <2>1. \E w : Up(w, s, p) /\ w[n] = x[j]
    BY <1>2
  <2>2. u[j] = CHOOSE w : Up(w, s, p) /\ w[n] = x[j]
    OBVIOUS
  <2> HIDE DEF u
  <2>3. QED
    BY <2>1, <2>2
<1>4. \A j \in 0..m : v[j] = u[j][0]
  OBVIOUS
<1> HIDE DEF u, v
<1>5. v[0] = b
  <2>1. Up(u[0], s, p) /\ u[0][n] = s[n] /\ v[0] = u[0][0]
    BY <1>1, <1>3, <1>4
  <2>2. Up(s, s, p)
    BY <1>0, <1>1, DownUp
  <2>3. u[0][0] = s[0]
    BY <1>0, <2>1, <2>2, UpUnique DEF n
  <2>4. QED
    BY <1>1, <2>1, <2>3
<1>6. v[m] = a
  <2>1. Up(u[m], s, p) /\ u[m][n] = t[n] /\ v[m] = u[m][0]
    BY <1>1, <1>3, <1>4
  <2>2. u[m][0] = t[0]
    BY <1>0, <1>1, <2>1, UpUnique DEF n
  <2>3. QED
    BY <1>1, <2>1, <2>2
<1>7. ASSUME NEW j \in 1..m PROVE Changes(v[j - 1], v[j], items[j])
  <2>1. j \in 0..m /\ j - 1 \in 0..m
    OBVIOUS
  <2>2. PICK k \in Keys : /\ items[j].pointer = Append(p, k)
                          /\ items[j].old = Part(x[j - 1], k)
                          /\ x[j] = With(x[j - 1], k, items[j].new)
                          /\ Fits(x[j - 1], k, items[j].new)
    BY DEF p
  <2>3. /\ Up(u[j - 1], s, p) /\ u[j - 1][n] = x[j - 1]
        /\ Up(u[j], s, p) /\ u[j][n] = x[j] /\ Container(x[j - 1])
    BY <1>3, <2>1
  <2>4. Changes(u[j - 1][0], u[j][0], items[j])
    BY <1>0, <1>1, <2>2, <2>3, Deeper DEF n
  <2>5. QED
    BY <1>4, <2>1, <2>4
<1>8. QED
  BY <1>5, <1>6, <1>7 DEF Chain

(* One item alone is a chain.                                              *)
LEMMA ChainOne ==
  ASSUME NEW item, NEW b, NEW a, Changes(b, a, item)
  PROVE  Chain(b, a, <<item>>)
<1> DEFINE v == [i \in 0..1 |-> IF i = 0 THEN b ELSE a]
           one == <<item>>
<1>1. v[0] = b /\ v[1] = a /\ Len(one) = 1 /\ one[1] = item
  OBVIOUS
<1> HIDE DEF v, one
<1>2. \A i \in 1..Len(one) : Changes(v[i - 1], v[i], one[i])
  BY <1>1
<1>3. Chain(b, a, one)
  BY <1>1, <1>2 DEF Chain
<1>4. QED
  BY <1>3 DEF one

(* Two chains, the second going on from where the first ends.              *)
LEMMA ChainOn ==
  ASSUME NEW p \in Seq(Items), NEW q \in Seq(Items), NEW b, NEW c, NEW a,
         Chain(b, c, p), Chain(c, a, q)
  PROVE  Chain(b, a, p \o q)
<1> DEFINE m == Len(p)
           n == Len(q)
           all == p \o q
<1>1. /\ m \in Nat /\ n \in Nat /\ Len(all) = m + n
      /\ \A i \in 1..m : all[i] = p[i]
      /\ \A i \in (m + 1)..(m + n) : all[i] = q[i - m]
  BY LenProperties, ConcatProperties
<1> HIDE DEF all
<1>2. PICK v : v[0] = b /\ v[m] = c /\ \A i \in 1..m : Changes(v[i - 1], v[i], p[i])
  BY DEF Chain
<1>3. PICK w : w[0] = c /\ w[n] = a /\ \A i \in 1..n : Changes(w[i - 1], w[i], q[i])
  BY DEF Chain
<1> DEFINE z == [i \in 0..(m + n) |-> IF i <= m THEN v[i] ELSE w[i - m]]
<1>4. (\A i \in 0..m : z[i] = v[i]) /\ (\A i \in 0..n : z[m + i] = w[i])
  BY <1>1, <1>2, <1>3
<1> HIDE DEF z
<1>5. z[0] = b /\ z[m + n] = a
  BY <1>1, <1>2, <1>3, <1>4
<1>6. ASSUME NEW i \in 1..(m + n) PROVE Changes(z[i - 1], z[i], all[i])
  <2>1. CASE i <= m
    BY <1>1, <1>2, <1>4, <2>1
  <2>2. CASE ~(i <= m)
    <3>1. i - m \in 1..n /\ (i - m) - 1 \in 0..n /\ i \in (m + 1)..(m + n)
      BY <1>1, <2>2
    <3>2. m + (i - m) = i /\ m + ((i - m) - 1) = i - 1 /\ i - m \in 0..n
      <4>1. m + (i - m) = i /\ m + ((i - m) - 1) = i - 1
        BY <1>1
      <4>2. QED
        BY <1>1, <3>1, <4>1
    <3>3. all[i] = q[i - m]
      BY <1>1, <3>1
    <3>4. z[m + (i - m)] = w[i - m] /\ z[m + ((i - m) - 1)] = w[(i - m) - 1]
      BY <1>4, <3>1, <3>2
    <3>5. QED
      BY <1>3, <3>1, <3>2, <3>3, <3>4
  <2>3. QED
    BY <2>1, <2>2
<1>7. Chain(b, a, all)
  BY <1>1, <1>5, <1>6 DEF Chain
<1>8. QED
  BY <1>7 DEF all

(* The first item of a chain, and the chain of the others.                 *)
LEMMA ChainFrom ==
  ASSUME NEW items \in Seq(Items), items # <<>>, NEW b, NEW a, Chain(b, a, items)
  PROVE  \E c : Changes(b, c, Head(items)) /\ Chain(c, a, Tail(items))
<1> DEFINE n == Len(items)
           rest == Tail(items)
<1>1. n \in Nat \ {0} /\ Len(rest) = n - 1 /\ \A i \in 1..(n - 1) : rest[i] = items[i + 1]
  BY HeadTailProperties, LenProperties, EmptySeq
<1>2. Head(items) = items[1]
  BY HeadTailProperties
<1> HIDE DEF rest
<1>3. PICK v : v[0] = b /\ v[n] = a /\ \A i \in 1..n : Changes(v[i - 1], v[i], items[i])
  BY DEF Chain
<1> DEFINE w == [i \in 0..(n - 1) |-> v[i + 1]]
<1>4. \A i \in 0..(n - 1) : w[i] = v[i + 1]
  OBVIOUS
<1> HIDE DEF w
<1>5. w[0] = v[1] /\ w[n - 1] = a
  BY <1>1, <1>3, <1>4
<1>6. ASSUME NEW i \in 1..(n - 1) PROVE Changes(w[i - 1], w[i], rest[i])
  <2>1. i + 1 \in 1..n /\ w[i - 1] = v[(i + 1) - 1] /\ w[i] = v[i + 1] /\ rest[i] = items[i + 1]
    BY <1>1, <1>4
  <2>2. Changes(v[(i + 1) - 1], v[i + 1], items[i + 1])
    BY <1>3, <2>1
  <2>3. QED
    BY <2>1, <2>2
<1>7. Chain(v[1], a, rest)
  BY <1>1, <1>5, <1>6 DEF Chain
<1>8. Changes(b, v[1], Head(items))
  <2>1. 1 \in 1..n /\ 1 - 1 = 0
    BY <1>1
  <2>2. Changes(v[1 - 1], v[1], items[1])
    BY <1>3, <2>1
  <2>3. QED
    BY <1>2, <1>3, <2>1, <2>2
<1>9. QED
  BY <1>7, <1>8 DEF rest

(* An item that is not to change anything does not.                        *)
LEMMA ChainNothing ==
  ASSUME NEW item, item.pointer \in Seq(Keys), NEW b, NEW a, Changes(b, a, item),
         item.new = item.old
  PROVE  Chain(b, a, <<>>)
<1>1. a = b
  BY DownUp, UpUnique DEF Changes
<1> DEFINE v == [i \in {0} |-> b]
           none == <<>>
<1>2. v[0] = b /\ Len(none) = 0
  OBVIOUS
<1> HIDE DEF v, none
<1>3. Chain(b, a, none)
  BY <1>1, <1>2 DEF Chain
<1>4. QED
  BY <1>3 DEF none

-----------------------------------------------------------------------------
(* A container on its way from old to new, the keys in C being done.       *)
Mixed(new, old, C) ==
  Value(old.kind, old.text,
        [k \in (DOMAIN old.parts \ C) \cup (DOMAIN new.parts \cap C) |->
           IF k \in C THEN new.parts[k] ELSE old.parts[k]])

Alike(new, old) ==
  Container(new) /\ Container(old) /\ new.kind = old.kind /\ new.text = old.text

(* It starts as old and ends as new.                                       *)
LEMMA MixedEnds ==
  ASSUME NEW new, NEW old, Alike(new, old), NEW C, DOMAIN new.parts \cup DOMAIN old.parts \subseteq C
  PROVE  Mixed(new, old, {}) = old /\ Mixed(new, old, C) = new
<1> DEFINE f == new.parts
           g == old.parts
<1>1. /\ new = Value(old.kind, old.text, f) /\ f = [k \in DOMAIN f |-> f[k]]
      /\ old = Value(old.kind, old.text, g) /\ g = [k \in DOMAIN g |-> g[k]]
  BY DEF Alike, Container
<1> HIDE DEF f, g
<1>2. [k \in (DOMAIN g \ {}) \cup (DOMAIN f \cap {}) |-> IF k \in {} THEN f[k] ELSE g[k]]
        = [k \in DOMAIN g |-> g[k]]
  OBVIOUS
<1>3. [k \in (DOMAIN g \ C) \cup (DOMAIN f \cap C) |-> IF k \in C THEN f[k] ELSE g[k]]
        = [k \in DOMAIN f |-> f[k]]
  <2>1. (DOMAIN g \ C) \cup (DOMAIN f \cap C) = DOMAIN f /\ \A k \in DOMAIN f : k \in C
    BY DEF f, g
  <2>2. QED
    BY <2>1
<1>4. QED
  BY <1>1, <1>2, <1>3 DEF Mixed, f, g

(* It stays a container, and has the old part at a key not done yet.       *)
LEMMA MixedPart ==
  ASSUME NEW new, NEW old, Alike(new, old), NEW C
  PROVE  /\ Container(Mixed(new, old, C))
         /\ \A k : k \notin C => Part(Mixed(new, old, C), k) = Part(old, k)
<1> DEFINE f == new.parts
           g == old.parts
           h == [k \in (DOMAIN g \ C) \cup (DOMAIN f \cap C) |-> IF k \in C THEN f[k] ELSE g[k]]
<1>1. /\ DOMAIN h = (DOMAIN g \ C) \cup (DOMAIN f \cap C)
      /\ \A k \in DOMAIN h : h[k] = IF k \in C THEN f[k] ELSE g[k]
      /\ h = [k \in DOMAIN h |-> h[k]]
  OBVIOUS
<1>2. /\ Mixed(new, old, C) = Value(old.kind, old.text, h)
      /\ old.kind \in {"map", "slice"}
      /\ \A k \in DOMAIN f : f[k] # Absent
      /\ \A k \in DOMAIN g : g[k] # Absent
  BY DEF Mixed, Alike, Container
<1>3. Mixed(new, old, C).kind = old.kind /\ Mixed(new, old, C).parts = h
  BY <1>2 DEF Value
<1> HIDE DEF h
<1>4. Container(Mixed(new, old, C))
  BY <1>1, <1>2 DEF Container, Value
<1>5. ASSUME NEW k, k \notin C PROVE Part(Mixed(new, old, C), k) = Part(old, k)
  <2>1. /\ k \in DOMAIN h <=> k \in DOMAIN g
        /\ k \in DOMAIN h => h[k] = g[k]
    BY <1>1, <1>5
  <2>2. QED
    BY <1>2, <1>3, <2>1 DEF Part, Known
<1>6. QED
  BY <1>4, <1>5

(* Doing one key more puts the new part there.                             *)
LEMMA MixedWith ==
  ASSUME NEW new, NEW old, Alike(new, old), NEW C, NEW k, k \notin C
  PROVE  Mixed(new, old, C \cup {k}) = With(Mixed(new, old, C), k, Part(new, k))
<1> DEFINE f == new.parts
           g == old.parts
           D == (DOMAIN g \ C) \cup (DOMAIN f \cap C)
           E == (DOMAIN g \ (C \cup {k})) \cup (DOMAIN f \cap (C \cup {k}))
           h == [j \in D |-> IF j \in C THEN f[j] ELSE g[j]]
           e == [j \in E |-> IF j \in C \cup {k} THEN f[j] ELSE g[j]]
           w == Mixed(new, old, C)
<1>1. w.kind = old.kind /\ w.text = old.text /\ w.parts = h
  BY DEF Mixed, Value
<1>2. Mixed(new, old, C \cup {k}) = Value(old.kind, old.text, e)
  BY DEF Mixed
<1>3. DOMAIN h = D /\ \A j \in D : h[j] = IF j \in C THEN f[j] ELSE g[j]
  OBVIOUS
<1>4. /\ Part(new, k) = IF k \in DOMAIN f THEN f[k] ELSE Absent
      /\ k \in DOMAIN f => f[k] # Absent
  BY DEF Part, Known, Alike, Container
<1> HIDE DEF h, w
<1>5. CASE k \in DOMAIN f
  <2>1. E = D \cup {k}
    BY <1>5
  <2>2. e = [j \in DOMAIN h \cup {k} |-> IF j = k THEN f[k] ELSE h[j]]
    BY <1>3, <2>1
  <2>3. With(w, k, f[k]) = Value(old.kind, old.text, e)
    BY <1>1, <1>4, <1>5, <2>2 DEF With
  <2>4. QED
    BY <1>2, <1>4, <1>5, <2>3 DEF w
<1>6. CASE k \notin DOMAIN f
  <2>1. E = D \ {k}
    BY <1>6
  <2>2. e = [j \in DOMAIN h \ {k} |-> h[j]]
    BY <1>3, <2>1
  <2>3. With(w, k, Absent) = Value(old.kind, old.text, e)
    BY <1>1, <2>2 DEF With
  <2>4. QED
    BY <1>2, <1>4, <1>6, <2>3 DEF w
<1>7. QED
  BY <1>5, <1>6

(* What the walker goes on to at key k of a pair of maps or slices.        *)
ChildAt(item, k) ==
  Child(item, k, IF k \notin DOMAIN item.new.parts THEN "remove"
                 ELSE IF k \in DOMAIN item.old.parts THEN "walk" ELSE "add",
        Part(item.new, k), Part(item.old, k))

(* Items that do all keys, in the order of c, each of them once.           *)
DoKeys(items, item, c) ==
  /\ items \in Seq(Items) /\ c \in [1..Len(items) -> DOMAIN item.new.parts \cup DOMAIN item.old.parts]
  /\ \A i, j \in 1..Len(items) : i # j => c[i] # c[j]
  /\ \A k \in DOMAIN item.new.parts \cup DOMAIN item.old.parts : \E i \in 1..Len(items) : c[i] = k
  /\ \A j \in 1..Len(items) : items[j] = ChildAt(item, c[j])

(* Each where an operation can put it, when those before it are done.      *)
AllFit(items, item, c) ==
  \A j \in 1..Len(items) :
    Fits(Mixed(item.new, item.old, {c[i] : i \in 1..(j - 1)}), c[j], Part(item.new, c[j]))

(* Doing all keys makes the change that the pair stands for.               *)
LEMMA KeysChain ==
  ASSUME NEW item, item.pointer \in Seq(Keys), NEW b, NEW a, Changes(b, a, item),
         item.new \in Values, item.old \in Values, Alike(item.new, item.old),
         NEW items, NEW c, DoKeys(items, item, c), AllFit(items, item, c)
  PROVE  Chain(b, a, items)
<1> DEFINE m == Len(items)
           new == item.new
           old == item.old
           done == [j \in 0..m |-> {c[i] : i \in 1..j}]
           x == [j \in 0..m |-> Mixed(new, old, done[j])]
<1>0. m \in Nat
  BY LenProperties DEF DoKeys
<1>1. \A j \in 0..m : x[j] = Mixed(new, old, done[j])
  OBVIOUS
<1>2. \A j \in 0..m : done[j] = {c[i] : i \in 1..j}
  OBVIOUS
<1> HIDE DEF x, done
<1>3. done[0] = {} /\ DOMAIN new.parts \cup DOMAIN old.parts \subseteq done[m]
  BY <1>0, <1>2 DEF DoKeys
<1>4. ASSUME NEW j \in 1..m
      PROVE  /\ c[j] \notin done[j - 1] /\ done[j] = done[j - 1] \cup {c[j]}
             /\ Fits(Mixed(new, old, done[j - 1]), c[j], items[j].new)
  <2>1. /\ j \in 0..m /\ j - 1 \in 0..m /\ 1..j = (1..(j - 1)) \cup {j}
        /\ \A i \in 1..(j - 1) : i \in 1..m /\ i # j
    BY <1>0
  <2>2. done[j - 1] = {c[i] : i \in 1..(j - 1)} /\ done[j] = {c[i] : i \in 1..j}
    BY <1>2, <2>1
  <2>3. QED
    <3>1. c[j] \notin done[j - 1] /\ done[j] = done[j - 1] \cup {c[j]}
      BY <2>1, <2>2 DEF DoKeys
    <3>2. items[j] = ChildAt(item, c[j]) /\ items[j].new = Part(new, c[j])
      BY DEF DoKeys, ChildAt, Child, Item
    <3>3. Fits(Mixed(new, old, done[j - 1]), c[j], Part(new, c[j]))
      BY <2>2 DEF AllFit
    <3>4. QED
      BY <3>1, <3>2, <3>3
<1>5. Alike(new, old)
  OBVIOUS
<1> HIDE DEF new, old
<1>6. x[0] = old /\ x[m] = new
  <2>1. 0 \in 0..m /\ m \in 0..m
    BY <1>0
  <2>2. x[0] = Mixed(new, old, done[0]) /\ x[m] = Mixed(new, old, done[m])
    BY <1>1, <2>1
  <2>3. QED
    BY <1>3, <1>5, <2>2, MixedEnds
<1>7. \A j \in 0..m : Container(x[j])
  BY <1>1, <1>5, MixedPart
<1>8. ASSUME NEW j \in 1..m
      PROVE  \E k \in Keys : /\ items[j].pointer = Append(item.pointer, k)
                             /\ items[j].old = Part(x[j - 1], k)
                             /\ x[j] = With(x[j - 1], k, items[j].new)
                             /\ Fits(x[j - 1], k, items[j].new)
  <2>1. j \in 0..m /\ j - 1 \in 0..m
    BY <1>0
  <2>2. /\ c[j] \in Keys /\ items[j].pointer = Append(item.pointer, c[j])
        /\ items[j].old = Part(old, c[j]) /\ items[j].new = Part(new, c[j])
    <3>1. c[j] \in DOMAIN new.parts \cup DOMAIN old.parts /\ items[j] = ChildAt(item, c[j])
      BY DEF DoKeys, new, old
    <3>2. c[j] \in Keys
      BY <3>1 DEF Keys, new, old
    <3>3. QED
      BY <3>1, <3>2 DEF ChildAt, Child, Item, new, old
  <2>3. x[j - 1] = Mixed(new, old, done[j - 1]) /\ x[j] = Mixed(new, old, done[j - 1] \cup {c[j]})
    BY <1>1, <1>4, <2>1
  <2>4. x[j] = With(x[j - 1], c[j], items[j].new)
    BY <1>4, <1>5, <2>2, <2>3, MixedWith
  <2>5. items[j].old = Part(x[j - 1], c[j])
    BY <1>4, <1>5, <2>2, <2>3, MixedPart
  <2>6. Fits(x[j - 1], c[j], items[j].new)
    BY <1>4, <2>3
  <2>7. QED
    BY <2>2, <2>4, <2>5, <2>6
<1>9. QED
  BY <1>0, <1>6, <1>7, <1>8, ChildrenChain DEF new, old

-----------------------------------------------------------------------------
(* What an operation needs is there: a value to put, or one to replace or  *)
(* to take away; the whole object stays.                                   *)
Sound(item) ==
  /\ item \in Items
  /\ item.do # "remove" => item.new \in Values
  /\ item.do \in {"walk", "replace", "remove"} => item.old \in Values
  /\ item.pointer = <<>> => item.new \in Values

(* Two maps or two slices.                                                 *)
Pair(item) ==
  /\ item \in Items /\ item.new \in Values /\ item.old \in Values
  /\ item.new.kind \in {"map", "slice"} /\ item.new.kind = item.old.kind

(* Its two sides are containers of values, alike but for their parts.      *)
LEMMA PairAlike ==
  ASSUME NEW item, Pair(item)
  PROVE  /\ Alike(item.new, item.old)
         /\ \A k \in DOMAIN item.new.parts : Part(item.new, k) = item.new.parts[k]
                                               /\ item.new.parts[k] \in Values
         /\ \A k \in DOMAIN item.old.parts : Part(item.old, k) = item.old.parts[k]
                                               /\ item.old.parts[k] \in Values
         /\ \A k : k \notin DOMAIN item.new.parts => Part(item.new, k) = Absent
         /\ \A k : k \notin DOMAIN item.old.parts => Part(item.old, k) = Absent
BY ValuesContainers DEF Pair, Alike, Part, Known

(* The items for their keys are sound.                                     *)
LEMMA ChildSound ==
  ASSUME NEW item, Pair(item), NEW k \in DOMAIN item.new.parts \cup DOMAIN item.old.parts
  PROVE  /\ Sound(ChildAt(item, k))
         /\ ChildAt(item, k).pointer = Append(item.pointer, k)
         /\ ChildAt(item, k).new = Part(item.new, k)
         /\ ChildAt(item, k).old = Part(item.old, k)
         /\ ChildAt(item, k).do = IF k \notin DOMAIN item.new.parts THEN "remove"
                                  ELSE IF k \in DOMAIN item.old.parts THEN "walk" ELSE "add"
<1> DEFINE i == ChildAt(item, k)
           do == IF k \notin DOMAIN item.new.parts THEN "remove"
                 ELSE IF k \in DOMAIN item.old.parts THEN "walk" ELSE "add"
<1>1. i = [do |-> do, pointer |-> Append(item.pointer, k),
           new |-> Part(item.new, k), old |-> Part(item.old, k)]
  BY DEF ChildAt, Child, Item
<1>2. k \in Keys /\ item.pointer \in Seq(Keys)
  BY DEF Pair, Items, Keys
<1>3. Append(item.pointer, k) \in Seq(Keys) /\ Len(Append(item.pointer, k)) = Len(item.pointer) + 1
  BY <1>2, AppendProperties
<1>4. Append(item.pointer, k) # <<>>
  BY <1>2, <1>3, LenProperties, EmptySeq
<1>5. /\ Part(item.new, k) \in Values \cup {Absent} /\ (do # "remove" => Part(item.new, k) \in Values)
      /\ Part(item.old, k) \in Values \cup {Absent} /\ (do # "add" => Part(item.old, k) \in Values)
  BY PairAlike
<1>6. do \in {"remove", "walk", "add"}
  OBVIOUS
<1> HIDE DEF do
<1>7. /\ i.do = do /\ i.pointer = Append(item.pointer, k)
      /\ i.new = Part(item.new, k) /\ i.old = Part(item.old, k) /\ i \in Items
  BY <1>1, <1>3, <1>5, <1>6 DEF Items
<1> HIDE DEF i
<1>8. Sound(i)
  BY <1>4, <1>5, <1>6, <1>7 DEF Sound
<1>9. QED
  BY <1>7, <1>8 DEF do, i

(* SetToSeqs lists a finite set, each member once.                         *)
LEMMA Lists ==
  ASSUME NEW S, IsFiniteSet(S), NEW s \in SetToSeqs(S)
  PROVE  /\ s \in Seq(S) /\ Len(s) \in Nat /\ DOMAIN s = 1..Len(s)
         /\ \A i, j \in 1..Len(s) : i # j => s[i] # s[j]
         /\ \A e \in S : \E i \in 1..Len(s) : s[i] = e
<1> DEFINE n == Cardinality(S)
<1>1. n \in Nat
  BY FS_CardinalityType
<1>2. s \in [1..n -> S] /\ \A i, j \in 1..n : i # j => s[i] # s[j]
  BY DEF SetToSeqs
<1>3. s \in Seq(S) /\ Len(s) = n
  BY <1>1, <1>2
<1>4. s \in Injection(1..n, S)
  BY <1>2 DEF Injection, IsInjective
<1>5. s \in Surjection(1..n, S)
  BY <1>1, <1>4, FS_Interval, FS_Injection
<1>6. \A e \in S : \E i \in 1..n : s[i] = e
  BY <1>5 DEF Surjection
<1>7. QED
  BY <1>1, <1>2, <1>3, <1>6

(* processMap does all keys, in any order that has modified's first.       *)
LEMMA MapDoesKeys ==
  ASSUME NEW item, Pair(item), item.new.kind = "map", NEW items \in ProcessMap(item)
  PROVE  \E c : DoKeys(items, item, c)
<1> DEFINE new == item.new.parts
           old == item.old.parts
           left == DOMAIN old \ DOMAIN new
           all == DOMAIN new \cup DOMAIN old
<1>1. IsFiniteSet(DOMAIN new) /\ IsFiniteSet(left)
  <2>1. IsFiniteSet(DOMAIN new) /\ IsFiniteSet(DOMAIN old)
    BY JsonPatchAssumption DEF Pair
  <2>2. QED
    BY <2>1, FS_Difference
<1>2. PICK kept \in SetToSeqs(DOMAIN new), gone \in SetToSeqs(left) : items = MapItems(item, kept, gone)
  BY DEF ProcessMap
<1> DEFINE K == [i \in DOMAIN kept |->
                   IF kept[i] \in DOMAIN old
                     THEN Child(item, kept[i], "walk", new[kept[i]], old[kept[i]])
                     ELSE Child(item, kept[i], "add", new[kept[i]], Absent)]
           G == [i \in DOMAIN gone |-> Child(item, gone[i], "remove", Absent, old[gone[i]])]
           m == Len(kept)
           n == Len(gone)
           c == kept \o gone
<1>3. items = K \o G
  BY <1>2 DEF MapItems
<1>4. /\ kept \in Seq(DOMAIN new) /\ m \in Nat /\ DOMAIN kept = 1..m
      /\ \A i, j \in 1..m : i # j => kept[i] # kept[j]
      /\ \A e \in DOMAIN new : \E i \in 1..m : kept[i] = e
  BY <1>1, Lists
<1>5. \A k : k \in left <=> k \in DOMAIN old /\ k \notin DOMAIN new
  OBVIOUS
<1> HIDE DEF left
<1>6. /\ gone \in Seq(left) /\ n \in Nat /\ DOMAIN gone = 1..n
      /\ \A i, j \in 1..n : i # j => gone[i] # gone[j]
      /\ \A e \in left : \E i \in 1..n : gone[i] = e
  BY <1>1, Lists
<1>7. (\A i \in 1..m : kept[i] \in DOMAIN new) /\ (\A i \in 1..n : gone[i] \in left)
  BY <1>4, <1>6, ElementOfSeq
<1>8. \A i \in 1..m : K[i] = ChildAt(item, kept[i])
  BY <1>4, <1>7, PairAlike DEF ChildAt
<1>9. \A i \in 1..n : G[i] = ChildAt(item, gone[i])
  BY <1>5, <1>6, <1>7, PairAlike DEF ChildAt
<1>10. DOMAIN K = 1..m /\ DOMAIN G = 1..n
  BY <1>4, <1>6
<1>11. K = [i \in 1..m |-> K[i]] /\ G = [i \in 1..n |-> G[i]]
  BY <1>4, <1>6
<1> HIDE DEF K, G
<1>12. (\A i \in 1..m : K[i] \in Items) /\ (\A i \in 1..n : G[i] \in Items)
  BY <1>5, <1>7, <1>8, <1>9, ChildSound DEF Sound
<1>13. K \in Seq(Items) /\ Len(K) = m
  <2>1. K \in [1..m -> Items]
    BY <1>11, <1>12
  <2>2. QED
    BY <1>4, <2>1
<1>14. G \in Seq(Items) /\ Len(G) = n
  <2>1. G \in [1..n -> Items]
    BY <1>11, <1>12
  <2>2. QED
    BY <1>6, <2>1
<1>15. /\ items \in Seq(Items) /\ Len(items) = m + n
       /\ \A i \in 1..(m + n) : items[i] = IF i <= m THEN K[i] ELSE G[i - m]
  <2> HIDE DEF m, n
  <2>1. K \in Seq(Items) /\ G \in Seq(Items)
    BY <1>13, <1>14
  <2>2. K \o G \in Seq(Items) /\ Len(K \o G) = Len(K) + Len(G)
    BY <2>1, ConcatProperties
  <2>3. \A i \in 1..(Len(K) + Len(G)) :
          (K \o G)[i] = IF i <= Len(K) THEN K[i] ELSE G[i - Len(K)]
    BY <2>1, ConcatProperties
  <2>4. QED
    BY <1>3, <1>13, <1>14, <2>2, <2>3
<1>16. /\ c \in Seq(all) /\ Len(c) = m + n
       /\ \A i \in 1..(m + n) : c[i] = IF i <= m THEN kept[i] ELSE gone[i - m]
  <2>1. kept \in Seq(all)
    BY <1>4, SeqMonotonic
  <2>2. left \subseteq all
    BY <1>5
  <2>3. gone \in Seq(all)
    BY <1>6, <2>2, SeqMonotonic
  <2>4. QED
    BY <2>1, <2>3, ConcatProperties
<1> HIDE DEF c, m, n
<1>17. c \in [1..(m + n) -> all]
  BY <1>16, LenProperties
<1>18. ASSUME NEW i \in 1..(m + n)
       PROVE  /\ i <= m => /\ c[i] = kept[i] /\ c[i] \in DOMAIN new /\ i \in 1..m
                           /\ items[i] = ChildAt(item, c[i])
              /\ ~(i <= m) => /\ c[i] = gone[i - m] /\ c[i] \in left /\ i - m \in 1..n
                              /\ items[i] = ChildAt(item, c[i])
  <2>1. CASE i <= m
    <3>1. i \in 1..m
      BY <1>4, <2>1
    <3>2. QED
      BY <1>7, <1>8, <1>15, <1>16, <2>1, <3>1
  <2>2. CASE ~(i <= m)
    <3>1. i - m \in 1..n
      BY <1>4, <1>6, <2>2
    <3>2. QED
      BY <1>7, <1>9, <1>15, <1>16, <2>2, <3>1
  <2>3. QED
    BY <2>1, <2>2
<1>19. \A j \in 1..(m + n) : items[j] = ChildAt(item, c[j])
  BY <1>18
<1>20. ASSUME NEW i \in 1..(m + n), NEW j \in 1..(m + n), i # j PROVE c[i] # c[j]
  <2>1. CASE i <= m /\ j <= m
    BY <1>4, <1>18, <1>20, <2>1
  <2>2. CASE ~(i <= m) /\ ~(j <= m)
    <3>1. i - m # j - m
      BY <1>4, <1>20
    <3>2. QED
      BY <1>6, <1>18, <2>2, <3>1
  <2>3. CASE (i <= m) # (j <= m)
    BY <1>5, <1>18, <2>3
  <2>4. QED
    BY <2>1, <2>2, <2>3
<1>21. ASSUME NEW k \in all PROVE \E i \in 1..(m + n) : c[i] = k
  <2>1. CASE k \in DOMAIN new
    <3>1. PICK i \in 1..m : kept[i] = k
      BY <1>4, <2>1
    <3>2. i \in 1..(m + n) /\ i <= m
      BY <1>4, <1>6
    <3>3. QED
      BY <1>16, <3>1, <3>2
  <2>2. CASE k \notin DOMAIN new
    <3>1. PICK i \in 1..n : gone[i] = k
      BY <1>5, <1>6, <2>2
    <3>2. m + i \in 1..(m + n) /\ ~(m + i <= m) /\ (m + i) - m = i
      BY <1>4, <1>6
    <3>3. c[m + i] = k
      BY <1>16, <3>1, <3>2
    <3>4. QED
      BY <3>2, <3>3
  <2>3. QED
    BY <2>1, <2>2
<1>22. DoKeys(items, item, c)
  BY <1>15, <1>17, <1>19, <1>20, <1>21 DEF DoKeys
<1>23. QED
  BY <1>22

(* Items over an interval are a list.                                      *)
LEMMA IsList ==
  ASSUME NEW n \in Nat, NEW f, f = [i \in 1..n |-> f[i]], \A i \in 1..n : f[i] \in Items
  PROVE  f \in Seq(Items) /\ Len(f) = n
<1>1. f \in [1..n -> Items]
  OBVIOUS
<1>2. QED
  BY <1>1

(* What is where in two lists, one after the other.                        *)
LEMMA Joined ==
  ASSUME NEW f \in Seq(Items), NEW g \in Seq(Items)
  PROVE  /\ f \o g \in Seq(Items) /\ Len(f \o g) = Len(f) + Len(g)
         /\ \A i \in 1..Len(f) : (f \o g)[i] = f[i]
         /\ \A i \in 1..Len(g) : (f \o g)[Len(f) + i] = g[i]
<1> DEFINE m == Len(f)
           n == Len(g)
           h == f \o g
<1>1. m \in Nat /\ n \in Nat
  BY LenProperties
<1>2. h \in Seq(Items) /\ Len(h) = m + n
  BY ConcatProperties
<1>3. \A i \in 1..(m + n) : h[i] = IF i <= m THEN f[i] ELSE g[i - m]
  BY ConcatProperties
<1> HIDE DEF m, n, h
<1>4. ASSUME NEW i \in 1..m PROVE h[i] = f[i]
  BY <1>1, <1>3
<1>5. ASSUME NEW i \in 1..n PROVE h[m + i] = g[i]
  <2>1. m + i \in 1..(m + n) /\ ~(m + i <= m) /\ (m + i) - m = i
    BY <1>1
  <2>2. QED
    BY <1>3, <2>1
<1>6. QED
  BY <1>2, <1>4, <1>5 DEF m, n, h

(* The indexes of two slices.                                              *)
LEMMA SliceIndexes ==
  ASSUME NEW item, Pair(item), item.new.kind = "slice"
  PROVE  /\ Len(item.new.parts) \in Nat /\ DOMAIN item.new.parts = 1..Len(item.new.parts)
         /\ Len(item.old.parts) \in Nat /\ DOMAIN item.old.parts = 1..Len(item.old.parts)
<1>1. item.new.parts \in Seq(Values) /\ item.old.parts \in Seq(Values)
  BY JsonPatchAssumption DEF Pair
<1>2. QED
  BY <1>1, LenProperties

(* processSlice does all indexes: those of the shorter slice, then upwards *)
(* those that are new, or downwards those that are gone.                   *)
LEMMA SliceGrows ==
  ASSUME NEW item, Pair(item), item.new.kind = "slice", Len(item.new.parts) > Len(item.old.parts)
  PROVE  \E c : DoKeys(ProcessSlice(item), item, c) /\ AllFit(ProcessSlice(item), item, c)
<1> DEFINE new == item.new.parts
           old == item.old.parts
           N == Len(new)
           O == Len(old)
           A == [i \in 1..O |-> Child(item, i, "walk", new[i], old[i])]
           B == [i \in 1..(N - O) |-> Child(item, O + i, "add", new[O + i], Absent)]
           c == [j \in 1..N |-> j]
           items == ProcessSlice(item)
<1>1. N \in Nat /\ DOMAIN new = 1..N /\ O \in Nat /\ DOMAIN old = 1..O /\ N > O
  BY SliceIndexes
<1>2. items = A \o B \o Removals(item)
  <2>1. ~(N < O)
    BY <1>1
  <2>2. QED
    BY <2>1 DEF ProcessSlice
<1>3. Removals(item) \in Seq(Items) /\ Len(Removals(item)) = 0
  <2> DEFINE R(i) == Child(item, O + 1 - i, "remove", Absent, old[O + 1 - i])
  <2>1. Removals(item) = [i \in 1..(O - N) |-> R(i)]
    BY DEF Removals
  <2> HIDE DEF R, N, O
  <2>2. 1..(O - N) = 1..0 /\ \A i \in 1..0 : FALSE
    BY <1>1
  <2>3. Removals(item) = [i \in 1..0 |-> Removals(item)[i]]
    BY <2>1, <2>2
  <2>4. QED
    BY <2>2, <2>3, IsList
<1>4. \A i \in 1..O : i \in DOMAIN new /\ i \in DOMAIN old
  BY <1>1
<1>5. \A i \in 1..(N - O) : O + i \in DOMAIN new /\ O + i \notin DOMAIN old
  BY <1>1
<1>6. \A i \in 1..O : A[i] = ChildAt(item, i)
  BY <1>4, PairAlike DEF ChildAt
<1>7. \A i \in 1..(N - O) : B[i] = ChildAt(item, O + i)
  BY <1>5, PairAlike DEF ChildAt
<1>8. \A i \in DOMAIN new \cup DOMAIN old : ChildAt(item, i) \in Items
  BY ChildSound DEF Sound
<1>9. A = [i \in 1..O |-> A[i]] /\ B = [i \in 1..(N - O) |-> B[i]]
  OBVIOUS
<1> HIDE DEF A, B, items
<1> HIDE DEF N, O
<1>10. A \in Seq(Items) /\ Len(A) = O /\ B \in Seq(Items) /\ Len(B) = N - O
  <2>1. \A i \in 1..O : A[i] \in Items
    BY <1>4, <1>6, <1>8
  <2>2. \A i \in 1..(N - O) : B[i] \in Items
    BY <1>5, <1>7, <1>8
  <2>3. N - O \in Nat
    BY <1>1
  <2>4. A \in Seq(Items) /\ Len(A) = O
    BY <1>1, <1>9, <2>1, IsList
  <2>5. B \in Seq(Items) /\ Len(B) = N - O
    BY <1>9, <2>2, <2>3, IsList
  <2>6. QED
    BY <2>4, <2>5
<1> DEFINE AB == A \o B
<1>11. /\ AB \in Seq(Items) /\ Len(AB) = N
       /\ \A i \in 1..O : AB[i] = A[i]
       /\ \A i \in 1..(N - O) : AB[O + i] = B[i]
  <2>1. AB \in Seq(Items) /\ Len(AB) = Len(A) + Len(B)
    BY <1>10, Joined
  <2>2. \A i \in 1..Len(A) : AB[i] = A[i]
    BY <1>10, Joined
  <2>3. \A i \in 1..Len(B) : AB[Len(A) + i] = B[i]
    BY <1>10, Joined
  <2>4. O + (N - O) = N
    BY <1>1
  <2> HIDE DEF AB
  <2>5. QED
    BY <1>10, <2>1, <2>2, <2>3, <2>4
<1>12. items = AB \o Removals(item)
  BY <1>2
<1> HIDE DEF AB
<1>13. items \in Seq(Items) /\ Len(items) = N /\ \A i \in 1..N : items[i] = AB[i]
  <2>1. items \in Seq(Items) /\ Len(items) = Len(AB) + Len(Removals(item))
    BY <1>3, <1>11, <1>12, Joined
  <2>2. \A i \in 1..Len(AB) : items[i] = AB[i]
    BY <1>3, <1>11, <1>12, Joined
  <2>3. N + 0 = N
    BY <1>1
  <2>4. QED
    BY <1>3, <1>11, <2>1, <2>2, <2>3
<1>14. ASSUME NEW j \in 1..N PROVE items[j] = ChildAt(item, j)
  <2>1. CASE j <= O
    <3>1. j \in 1..O
      BY <1>1, <2>1
    <3>2. QED
      BY <1>6, <1>11, <1>13, <3>1
  <2>2. CASE ~(j <= O)
    <3>1. j - O \in 1..(N - O) /\ O + (j - O) = j
      BY <1>1, <2>2
    <3>2. QED
      BY <1>7, <1>11, <1>13, <3>1
  <2>3. QED
    BY <2>1, <2>2
<1>15. c \in [1..N -> DOMAIN new \cup DOMAIN old] /\ \A j \in 1..N : c[j] = j
  BY <1>1
<1>16. DOMAIN new \cup DOMAIN old = 1..N
  BY <1>1
<1> HIDE DEF c
<1>17. DoKeys(items, item, c)
  BY <1>13, <1>14, <1>15, <1>16 DEF DoKeys
<1>18. ASSUME NEW j \in 1..N
       PROVE  Fits(Mixed(item.new, item.old, {c[i] : i \in 1..(j - 1)}), c[j], Part(item.new, c[j]))
  <2> DEFINE done == {c[i] : i \in 1..(j - 1)}
             x == Mixed(item.new, item.old, done)
             d == IF j <= O THEN O ELSE j - 1
  <2>1. done = 1..(j - 1)
    BY <1>1, <1>15
  <2>2. d \in Nat /\ j \in 1..(d + 1)
    BY <1>1
  <2>3. (1..O \ 1..(j - 1)) \cup (1..N \cap 1..(j - 1)) = 1..d
    BY <1>1
  <2>4. x.kind = "slice" /\ DOMAIN x.parts = 1..d
    BY <1>1, <2>1, <2>3 DEF Mixed, Value, Pair
  <2>5. Part(item.new, j) # Absent
    <3>1. j \in DOMAIN item.new.parts
      BY <1>1
    <3>2. Part(item.new, j) \in Values
      BY <3>1, PairAlike
    <3>3. QED
      BY <3>2, ValuesContainers
  <2> HIDE DEF x, d
  <2>6. Fits(x, j, Part(item.new, j))
    BY <2>2, <2>4, <2>5 DEF Fits
  <2>7. QED
    BY <1>15, <2>6 DEF x
<1>19. AllFit(items, item, c)
  BY <1>13, <1>18 DEF AllFit
<1>20. QED
  BY <1>17, <1>19 DEF items

(* And when the new slice is not the longer one.                           *)
LEMMA SliceShrinks ==
  ASSUME NEW item, Pair(item), item.new.kind = "slice", Len(item.new.parts) <= Len(item.old.parts)
  PROVE  \E c : DoKeys(ProcessSlice(item), item, c) /\ AllFit(ProcessSlice(item), item, c)
<1> DEFINE new == item.new.parts
           old == item.old.parts
           N == Len(new)
           O == Len(old)
           A == [i \in 1..N |-> Child(item, i, "walk", new[i], old[i])]
           B == [i \in 1..(N - N) |-> Child(item, N + i, "add", new[N + i], Absent)]
           R == [i \in 1..(O - N) |-> Child(item, O + 1 - i, "remove", Absent, old[O + 1 - i])]
           c == [j \in 1..O |-> IF j <= N THEN j ELSE O + 1 - (j - N)]
           items == ProcessSlice(item)
<1>1. N \in Nat /\ DOMAIN new = 1..N /\ O \in Nat /\ DOMAIN old = 1..O /\ N <= O
  BY SliceIndexes
<1>2. items = A \o B \o R
  <2>1. CASE N < O
    BY <2>1 DEF ProcessSlice, Removals
  <2>2. CASE ~(N < O)
    <3>1. N = O
      BY <1>1, <2>2
    <3>2. QED
      BY <2>2, <3>1 DEF ProcessSlice, Removals
  <2>3. QED
    BY <2>1, <2>2
<1>3. \A i \in 1..N : i \in DOMAIN new /\ i \in DOMAIN old
  BY <1>1
<1>4. \A i \in 1..(O - N) : O + 1 - i \in DOMAIN old /\ O + 1 - i \notin DOMAIN new
  BY <1>1
<1>5. \A i \in 1..N : A[i] = ChildAt(item, i)
  BY <1>3, PairAlike DEF ChildAt
<1>6. \A i \in 1..(O - N) : R[i] = ChildAt(item, O + 1 - i)
  BY <1>4, PairAlike DEF ChildAt
<1>7. \A i \in DOMAIN new \cup DOMAIN old : ChildAt(item, i) \in Items
  BY ChildSound DEF Sound
<1>8. A = [i \in 1..N |-> A[i]] /\ B = [i \in 1..(N - N) |-> B[i]] /\ R = [i \in 1..(O - N) |-> R[i]]
  OBVIOUS
<1> HIDE DEF A, B, R, items
<1> HIDE DEF N, O
<1>9. /\ A \in Seq(Items) /\ Len(A) = N /\ B \in Seq(Items) /\ Len(B) = 0
      /\ R \in Seq(Items) /\ Len(R) = O - N
  <2>1. \A i \in 1..N : A[i] \in Items
    BY <1>3, <1>5, <1>7
  <2>2. \A i \in 1..(O - N) : R[i] \in Items
    BY <1>4, <1>6, <1>7
  <2>3. N - N = 0 /\ O - N \in Nat /\ \A i \in 1..0 : FALSE
    BY <1>1
  <2>4. A \in Seq(Items) /\ Len(A) = N
    BY <1>1, <1>8, <2>1, IsList
  <2>5. R \in Seq(Items) /\ Len(R) = O - N
    BY <1>8, <2>2, <2>3, IsList
  <2>6. B = [i \in 1..0 |-> B[i]]
    BY <1>8, <2>3
  <2>7. B \in Seq(Items) /\ Len(B) = 0
    BY <2>3, <2>6, IsList
  <2>8. QED
    BY <2>4, <2>5, <2>7
<1> DEFINE AB == A \o B
<1>10. AB \in Seq(Items) /\ Len(AB) = N /\ \A i \in 1..N : AB[i] = A[i]
  <2>1. AB \in Seq(Items) /\ Len(AB) = Len(A) + Len(B)
    BY <1>9, Joined
  <2>2. \A i \in 1..Len(A) : AB[i] = A[i]
    BY <1>9, Joined
  <2>3. N + 0 = N
    BY <1>1
  <2> HIDE DEF AB
  <2>4. QED
    BY <1>9, <2>1, <2>2, <2>3
<1>11. /\ items \in Seq(Items) /\ Len(items) = O
       /\ \A i \in 1..N : items[i] = A[i]
       /\ \A i \in 1..(O - N) : items[N + i] = R[i]
  <2>1. items = AB \o R
    BY <1>2
  <2> HIDE DEF AB
  <2>2. items \in Seq(Items) /\ Len(items) = Len(AB) + Len(R)
    BY <1>9, <1>10, <2>1, Joined
  <2>3. \A i \in 1..Len(AB) : items[i] = AB[i]
    BY <1>9, <1>10, <2>1, Joined
  <2>4. \A i \in 1..Len(R) : items[Len(AB) + i] = R[i]
    BY <1>9, <1>10, <2>1, Joined
  <2>5. N + (O - N) = O
    BY <1>1
  <2>6. QED
    BY <1>9, <1>10, <2>2, <2>3, <2>4, <2>5
<1>12. /\ \A j \in 1..O : c[j] = IF j <= N THEN j ELSE O + 1 - (j - N)
       /\ c \in [1..O -> 1..O] /\ DOMAIN new \cup DOMAIN old = 1..O
  BY <1>1
<1> HIDE DEF c
<1>13. ASSUME NEW j \in 1..O PROVE items[j] = ChildAt(item, c[j])
  <2>1. CASE j <= N
    <3>1. j \in 1..N /\ c[j] = j
      BY <1>1, <1>12, <2>1
    <3>2. QED
      BY <1>5, <1>11, <3>1
  <2>2. CASE ~(j <= N)
    <3>1. j - N \in 1..(O - N) /\ N + (j - N) = j /\ c[j] = O + 1 - (j - N)
      BY <1>1, <1>12, <2>2
    <3>2. QED
      BY <1>6, <1>11, <3>1
  <2>3. QED
    BY <2>1, <2>2
<1>14. ASSUME NEW i \in 1..O, NEW j \in 1..O, i # j PROVE c[i] # c[j]
  <2>1. CASE i <= N /\ j <= N
    BY <1>12, <1>14, <2>1
  <2>2. CASE i <= N /\ ~(j <= N)
    BY <1>1, <1>12, <2>2
  <2>3. CASE ~(i <= N) /\ j <= N
    BY <1>1, <1>12, <2>3
  <2>4. CASE ~(i <= N) /\ ~(j <= N)
    BY <1>1, <1>12, <1>14, <2>4
  <2>5. QED
    BY <2>1, <2>2, <2>3, <2>4
<1>15. ASSUME NEW k \in 1..O PROVE \E i \in 1..O : c[i] = k
  <2>1. CASE k <= N
    BY <1>1, <1>12, <2>1
  <2>2. CASE ~(k <= N)
    <3>1. /\ N + (O + 1 - k) \in 1..O /\ ~(N + (O + 1 - k) <= N)
          /\ O + 1 - ((N + (O + 1 - k)) - N) = k
      BY <1>1, <2>2
    <3>2. QED
      BY <1>12, <3>1
  <2>3. QED
    BY <2>1, <2>2
<1>16. DoKeys(items, item, c)
  BY <1>11, <1>12, <1>13, <1>14, <1>15 DEF DoKeys
<1>17. ASSUME NEW j \in 1..O
       PROVE  Fits(Mixed(item.new, item.old, {c[i] : i \in 1..(j - 1)}), c[j], Part(item.new, c[j]))
  <2> DEFINE done == {c[i] : i \in 1..(j - 1)}
             x == Mixed(item.new, item.old, done)
             d == IF j <= N THEN O ELSE O + 1 - (j - N)
  <2>1. d \in Nat /\ c[j] \in 1..(d + 1) /\ (~(j <= N) => c[j] = d)
    BY <1>1, <1>12
  <2>2. ASSUME NEW k \in 1..O PROVE k \in (1..O \ done) \cup (1..N \cap done) <=> k <= d
    <3>1. CASE k <= N
      BY <1>1, <1>12, <3>1
    <3>2. CASE ~(k <= N) /\ j <= N
      BY <1>1, <1>12, <3>2
    <3>3. CASE ~(k <= N) /\ ~(j <= N)
      <4>1. ASSUME k <= d PROVE k \notin done
        <5>1. ASSUME NEW i \in 1..(j - 1) PROVE c[i] # k
          <6>1. i \in 1..O /\ i < j /\ k <= O + 1 - (j - N)
            BY <1>1, <3>3, <4>1
          <6>2. CASE i <= N
            BY <1>1, <1>12, <3>3, <6>1, <6>2
          <6>3. CASE ~(i <= N)
            BY <1>1, <1>12, <6>1, <6>3
          <6>4. QED
            BY <6>2, <6>3
        <5>2. QED
          BY <5>1
      <4>2. ASSUME ~(k <= d) PROVE k \in done
        <5>1. /\ N + (O + 1 - k) \in 1..(j - 1) /\ N + (O + 1 - k) \in 1..O
              /\ ~(N + (O + 1 - k) <= N) /\ O + 1 - ((N + (O + 1 - k)) - N) = k
          BY <1>1, <3>3, <4>2
        <5>2. c[N + (O + 1 - k)] = k
          BY <1>12, <5>1
        <5>3. QED
          BY <5>1, <5>2
      <4>3. QED
        BY <1>1, <3>3, <4>1, <4>2
    <3>4. QED
      BY <3>1, <3>2, <3>3
  <2>3. d <= O /\ 1..N \subseteq 1..O
    BY <1>1
  <2> HIDE DEF done, d
  <2>4. (1..O \ done) \cup (1..N \cap done) = 1..d
    BY <1>1, <2>1, <2>2, <2>3
  <2>5. x.kind = "slice" /\ DOMAIN x.parts = 1..d
    BY <1>1, <2>4 DEF Mixed, Value, Pair
  <2>6. j <= N => Part(item.new, c[j]) # Absent
    <3>1. j <= N => c[j] \in DOMAIN item.new.parts
      BY <1>1, <1>12
    <3>2. j <= N => Part(item.new, c[j]) \in Values
      BY <3>1, PairAlike
    <3>3. QED
      BY <3>2, ValuesContainers
  <2> HIDE DEF x
  <2>7. Fits(x, c[j], Part(item.new, c[j]))
    BY <2>1, <2>5, <2>6 DEF Fits
  <2>8. QED
    BY <2>7 DEF x, done
<1>18. AllFit(items, item, c)
  BY <1>11, <1>17 DEF AllFit
<1>19. QED
  BY <1>16, <1>18 DEF items

-----------------------------------------------------------------------------
(* An operation on the two values as a whole.                              *)
Whole(item, do) ==
  /\ do \in {"add", "replace", "remove"}
  /\ item.new # item.old /\ item.new # Null
  /\ do = "add" => Empty(item.old)
  /\ do = "remove" => item.new = EmptyString

(* What becomes of a pair of values of the same kind: nothing, if they are *)
(* equal, one operation, or the items for all keys.                        *)
LEMMA Expanded ==
  ASSUME NEW item, Sound(item), item.do = "walk", item.new.kind = item.old.kind,
         NEW items \in Expansions(item)
  PROVE  \/ items = <<>> /\ item.new = item.old
         \/ \E do : Whole(item, do) /\ items = <<[item EXCEPT !.do = do]>>
         \/ /\ Pair(item) /\ ~WasEmpty(item)
            /\ \E c : DoKeys(items, item, c) /\ AllFit(items, item, c)
<1>1. item.new \in Values /\ item.old \in Values /\ item \in Items
  BY DEF Sound
<1>2. Null.kind = "invalid" /\ EmptyString.kind = "string"
  BY DEF Null, EmptyString, Value
<1>3. CASE item.new.kind \in {"map", "slice"} /\ WasEmpty(item)
  <2>1. items = <<[item EXCEPT !.do = "add"]>>
    BY <1>3 DEF Expansions, AddWhole
  <2>2. Whole(item, "add")
    BY <1>2, <1>3 DEF WasEmpty, Whole, Empty
  <2>3. QED
    BY <2>1, <2>2
<1>4. CASE item.new.kind \in {"map", "slice"} /\ ~WasEmpty(item)
  <2>1. Pair(item)
    BY <1>1, <1>4 DEF Pair
  <2>2. CASE item.new.kind = "map"
    <3>1. items \in ProcessMap(item)
      BY <1>4, <2>2 DEF Expansions
    <3>2. PICK c : DoKeys(items, item, c)
      BY <2>1, <2>2, <3>1, MapDoesKeys
    <3>3. AllFit(items, item, c)
      BY <2>1, <2>2 DEF AllFit, Fits, Mixed, Value, Pair
    <3>4. QED
      BY <1>4, <2>1, <3>2, <3>3
  <2>3. CASE item.new.kind = "slice"
    <3>1. items = ProcessSlice(item)
      BY <1>4, <2>3 DEF Expansions
    <3>2. Len(item.new.parts) > Len(item.old.parts) \/ Len(item.new.parts) <= Len(item.old.parts)
      BY <2>1, <2>3, SliceIndexes
    <3>3. QED
      BY <1>4, <2>1, <2>3, <3>1, <3>2, SliceGrows, SliceShrinks
  <2>4. QED
    BY <1>4, <2>2, <2>3
<1>5. CASE item.new.kind = "string"
  <2>1. items = WalkString(item)
    BY <1>5 DEF Expansions
  <2>2. CASE item.new = item.old
    BY <2>1, <2>2 DEF WalkString
  <2>3. CASE item.new # item.old
    <3> DEFINE do == IF item.new = EmptyString THEN "remove"
                     ELSE IF item.old = EmptyString THEN "add" ELSE "replace"
    <3>1. items = <<[item EXCEPT !.do = do]>>
      BY <2>1, <2>3 DEF WalkString
    <3>2. Whole(item, do)
      BY <1>2, <1>5, <2>3 DEF Whole, Empty
    <3>3. QED
      BY <3>1, <3>2
  <2>4. QED
    BY <2>2, <2>3
<1>6. CASE item.new.kind \notin {"map", "slice", "string"}
  <2>1. items = WalkScalar(item)
    BY <1>6 DEF Expansions
  <2>2. CASE item.new = item.old
    BY <2>1, <2>2 DEF WalkScalar
  <2>3. CASE item.new # item.old
    <3>1. items = <<[item EXCEPT !.do = "replace"]>>
      BY <2>1, <2>3 DEF WalkScalar
    <3>2. item.new # Null
      BY <1>1, <1>2, <2>3, JsonPatchAssumption
    <3>3. Whole(item, "replace")
      BY <2>3, <3>2 DEF Whole
    <3>4. QED
      BY <3>1, <3>3
  <2>4. QED
    BY <2>2, <2>3
<1>7. QED
  BY <1>3, <1>4, <1>5, <1>6

(* A pair of equal values.                                                 *)
Same(item) == item.do = "walk" /\ item.new = item.old

(* Walking a pair leaves the change of the whole object what it is, and    *)
(* leaves sound items; of equal values, only pairs of equal values.        *)
LEMMA WalkExpands ==
  ASSUME NEW item, Sound(item), item.do = "walk", item.new.kind = item.old.kind,
         NEW items \in Expansions(item)
  PROVE  /\ items \in Seq(Items)
         /\ \A i \in 1..Len(items) : Sound(items[i])
         /\ item.new = item.old => \A i \in 1..Len(items) : Same(items[i])
         /\ \A b, a : Changes(b, a, item) => Chain(b, a, items)
<1>1. item \in Items /\ item.pointer \in Seq(Keys) /\ item.new \in Values /\ item.old \in Values
  BY DEF Sound, Items
<1>2. CASE items = <<>> /\ item.new = item.old
  <2>1. items \in Seq(Items) /\ Len(items) = 0
    BY <1>2
  <2>2. \A b, a : Changes(b, a, item) => Chain(b, a, items)
    BY <1>1, <1>2, ChainNothing
  <2>3. QED
    BY <2>1, <2>2
<1>3. ASSUME NEW do, Whole(item, do), items = <<[item EXCEPT !.do = do]>>
      PROVE  /\ items \in Seq(Items)
             /\ \A i \in 1..Len(items) : Sound(items[i])
             /\ item.new = item.old => \A i \in 1..Len(items) : Same(items[i])
             /\ \A b, a : Changes(b, a, item) => Chain(b, a, items)
  <2> DEFINE one == [item EXCEPT !.do = do]
  <2>1. /\ one \in Items /\ one.do = do /\ one.pointer = item.pointer
        /\ one.new = item.new /\ one.old = item.old
    BY <1>1, <1>3 DEF Items, Whole
  <2>2. items = <<one>>
    BY <1>3
  <2> HIDE DEF one
  <2>3. Sound(one)
    BY <1>1, <2>1 DEF Sound
  <2>4. items \in Seq(Items) /\ Len(items) = 1 /\ items[1] = one
    BY <2>1, <2>2
  <2>5. ASSUME NEW b, NEW a, Changes(b, a, item) PROVE Chain(b, a, items)
    <3>1. Changes(b, a, one)
      BY <2>1, <2>5 DEF Changes
    <3>2. QED
      BY <2>2, <3>1, ChainOne
  <2>6. item.new # item.old
    BY <1>3 DEF Whole
  <2>7. QED
    BY <2>3, <2>4, <2>5, <2>6
<1>4. ASSUME Pair(item), NEW c, DoKeys(items, item, c), AllFit(items, item, c)
      PROVE  /\ items \in Seq(Items)
             /\ \A i \in 1..Len(items) : Sound(items[i])
             /\ item.new = item.old => \A i \in 1..Len(items) : Same(items[i])
             /\ \A b, a : Changes(b, a, item) => Chain(b, a, items)
  <2>1. /\ items \in Seq(Items)
        /\ \A i \in 1..Len(items) : /\ items[i] = ChildAt(item, c[i])
                                    /\ c[i] \in DOMAIN item.new.parts \cup DOMAIN item.old.parts
    BY <1>4 DEF DoKeys
  <2>2. ASSUME NEW i \in 1..Len(items)
        PROVE  Sound(items[i]) /\ (item.new = item.old => Same(items[i]))
    BY <1>4, <2>1, ChildSound DEF Same
  <2>3. ASSUME NEW b, NEW a, Changes(b, a, item) PROVE Chain(b, a, items)
    BY <1>1, <1>4, <2>3, PairAlike, KeysChain
  <2>4. QED
    BY <2>1, <2>2, <2>3
<1>5. QED
  BY <1>2, <1>3, <1>4, Expanded

-----------------------------------------------------------------------------
Ops == [op : {"walk", "add", "replace", "remove"}, path : Seq(Keys), value : Values \cup {Absent}]

TypeOK ==
  /\ modified \in Values /\ current \in Values
  /\ agenda \in Seq(Items) /\ \A i \in 1..Len(agenda) : Sound(agenda[i])
  /\ patchList \in Seq(Ops)
  /\ failed \in BOOLEAN

(* The agenda of two equal objects has only pairs of equal values.         *)
EqualSoFar ==
  modified = current => patchList = <<>> /\ \A i \in 1..Len(agenda) : Same(agenda[i])

(* What is left to do turns the object, as it has been patched, into       *)
(* modified.                                                               *)
Leads == ~failed => Chain(object, modified, agenda)

(* As long as there is no operation, it turns current into modified.       *)
LeadsFromCurrent == patchList = <<>> => object = current /\ Leads

(* They hold at the start: the agenda has only the two objects.            *)
LEMMA InitTypeOK ==
  ASSUME Init PROVE TypeOK /\ EqualSoFar /\ Leads
<1> DEFINE first == Item("walk", <<>>, modified, current)
           one == <<first>>
           none == <<>>
<1>1. modified \in Values /\ current \in Values
  BY JsonPatchAssumption DEF Init
<1>2. first = [do |-> "walk", pointer |-> none, new |-> modified, old |-> current]
  BY DEF Item
<1>3. none \in Seq(Keys) /\ none \in Seq(Ops) /\ Len(none) = 0
  OBVIOUS
<1> HIDE DEF none, first
<1>4. /\ first \in Items /\ first.do = "walk" /\ first.pointer = none
      /\ first.new = modified /\ first.old = current
  BY <1>1, <1>2, <1>3 DEF Items
<1>5. agenda = one /\ patchList = none /\ failed = FALSE /\ object = current
  BY DEF Init, first, none
<1>6. one \in Seq(Items) /\ Len(one) = 1 /\ one[1] = first
  BY <1>4
<1> HIDE DEF one
<1>7. Sound(first)
  BY <1>1, <1>4 DEF Sound
<1>8. TypeOK
  <2>1. agenda \in Seq(Items) /\ \A i \in 1..Len(agenda) : Sound(agenda[i])
    BY <1>5, <1>6, <1>7
  <2>2. QED
    BY <1>1, <1>3, <1>5, <2>1 DEF TypeOK
<1>9. EqualSoFar
  BY <1>4, <1>5, <1>6 DEF EqualSoFar, Same, none
<1>10. Changes(object, modified, first)
  <2> DEFINE s == [i \in {0} |-> object]
             t == [i \in {0} |-> modified]
  <2>1. s[0] = object /\ t[0] = modified
    OBVIOUS
  <2> HIDE DEF s, t
  <2>2. Len(first.pointer) = 0 /\ first.new = t[0] /\ first.old = s[0]
    BY <1>3, <1>4, <1>5, <2>1
  <2>3. Down(s, first.pointer) /\ Up(t, s, first.pointer)
    BY <2>2 DEF Down, Up
  <2>4. QED
    BY <2>1, <2>2, <2>3 DEF Changes
<1>11. Leads
  BY <1>5, <1>10, ChainOne DEF Leads, one
<1>12. QED
  BY <1>8, <1>9, <1>11

(* What is in two sequences, one after the other, is in one of them.       *)
LEMMA FromEither ==
  ASSUME NEW p \in Seq(Items), NEW q \in Seq(Items)
  PROVE  \A i \in 1..Len(p \o q) : \/ \E j \in 1..Len(p) : (p \o q)[i] = p[j]
                                   \/ \E j \in 1..Len(q) : (p \o q)[i] = q[j]
<1> DEFINE m == Len(p)
           n == Len(q)
           all == p \o q
<1>1. m \in Nat /\ n \in Nat /\ Len(all) = m + n
  BY ConcatProperties, LenProperties
<1>2. \A i \in 1..(m + n) : all[i] = IF i <= m THEN p[i] ELSE q[i - m]
  BY ConcatProperties
<1> HIDE DEF all, m, n
<1>3. ASSUME NEW i \in 1..(m + n)
      PROVE  (\E j \in 1..m : all[i] = p[j]) \/ (\E j \in 1..n : all[i] = q[j])
  <2>1. CASE i <= m
    BY <1>1, <1>2, <2>1
  <2>2. CASE ~(i <= m)
    <3>1. i - m \in 1..n
      BY <1>1, <2>2
    <3>2. QED
      BY <1>2, <2>2, <3>1
  <2>3. QED
    BY <2>1, <2>2
<1>4. QED
  BY <1>1, <1>3 DEF all, m, n

(* Walk leaves on the agenda the items of a pair in the place of the pair. *)
LEMMA WalkStep ==
  ASSUME TypeOK, Walk
  PROVE  /\ TypeOK'
         /\ EqualSoFar => EqualSoFar'
         /\ Leads => Leads'
         /\ UNCHANGED <<modified, current, patchList, object>>
<1> DEFINE item == Head(agenda)
           rest == Tail(agenda)
<1>1. /\ agenda # <<>> /\ item.do = "walk"
      /\ UNCHANGED <<modified, current, patchList, object>>
  BY DEF Walk
<1>2. /\ agenda \in Seq(Items) /\ Len(agenda) \in Nat \ {0} /\ item = agenda[1] /\ rest \in Seq(Items)
      /\ Len(rest) = Len(agenda) - 1 /\ \A i \in 1..Len(rest) : rest[i] = agenda[i + 1]
  BY <1>1, HeadTailProperties, LenProperties, EmptySeq DEF TypeOK
<1>3. Sound(item) /\ (EqualSoFar /\ modified = current => item.new = item.old)
  BY <1>2 DEF TypeOK, EqualSoFar, Same
<1>4. CASE item.new.kind # item.old.kind
  <2>1. failed' = TRUE /\ agenda' = <<>>
    BY <1>4 DEF Walk
  <2>2. agenda' \in Seq(Items) /\ Len(agenda') = 0
    BY <2>1
  <2>3. TypeOK'
    BY <1>1, <2>1, <2>2 DEF TypeOK
  <2>4. EqualSoFar => EqualSoFar'
    BY <1>1, <2>2 DEF EqualSoFar
  <2>5. Leads'
    BY <2>1 DEF Leads
  <2>6. QED
    BY <1>1, <2>3, <2>4, <2>5
<1>5. CASE item.new.kind = item.old.kind
  <2>1. PICK items \in Expansions(item) : agenda' = items \o rest
    BY <1>5 DEF Walk
  <2>2. failed' = failed
    BY <1>5 DEF Walk
  <2>3. /\ items \in Seq(Items)
        /\ \A i \in 1..Len(items) : Sound(items[i])
        /\ item.new = item.old => \A i \in 1..Len(items) : Same(items[i])
        /\ \A b, a : Changes(b, a, item) => Chain(b, a, items)
    BY <1>1, <1>3, <1>5, <2>1, WalkExpands
  <2> DEFINE m == Len(items)
             n == Len(rest)
  <2>4. agenda' \in Seq(Items) /\ Len(agenda') = m + n /\ m \in Nat /\ n \in Nat
    BY <1>2, <2>1, <2>3, ConcatProperties, LenProperties
  <2>5. ASSUME NEW i \in 1..Len(agenda')
        PROVE  \/ \E j \in 1..m : agenda'[i] = items[j]
               \/ \E j \in 1..Len(agenda) : agenda'[i] = agenda[j]
    <3>1. \/ \E j \in 1..m : agenda'[i] = items[j]
          \/ \E j \in 1..n : agenda'[i] = rest[j]
      <4>1. items \in Seq(Items) /\ rest \in Seq(Items)
        BY <1>2, <2>3
      <4> HIDE DEF rest
      <4>2. QED
        BY <2>1, <4>1, FromEither
    <3>2. \A j \in 1..n : j + 1 \in 1..Len(agenda) /\ rest[j] = agenda[j + 1]
      BY <1>2
    <3>3. QED
      BY <3>1, <3>2
  <2>6. \A i \in 1..Len(agenda') : Sound(agenda'[i])
    BY <2>3, <2>5 DEF TypeOK
  <2>7. TypeOK'
    BY <1>1, <2>2, <2>4, <2>6 DEF TypeOK
  <2>8. EqualSoFar => EqualSoFar'
    BY <1>1, <1>3, <2>3, <2>5 DEF EqualSoFar
  <2>9. ASSUME Leads, ~failed PROVE Chain(object, modified, agenda')
    <3>1. PICK c : Changes(object, c, item) /\ Chain(c, modified, rest)
      BY <1>1, <1>2, <2>9, ChainFrom DEF Leads
    <3>2. QED
      BY <1>2, <2>1, <2>3, <3>1, ChainOn
  <2>10. Leads => Leads'
    BY <1>1, <2>2, <2>9 DEF Leads
  <2>11. QED
    BY <1>1, <2>7, <2>8, <2>10
<1>6. QED
  BY <1>4, <1>5

(* Emit takes one operation off the agenda and adds it to the patch.       *)
LEMMA EmitStep ==
  ASSUME TypeOK, Emit
  PROVE  /\ TypeOK'
         /\ EqualSoFar => EqualSoFar'
         /\ patchList' # <<>>
<1> DEFINE item == Head(agenda)
           rest == Tail(agenda)
           op == Operation(item)
<1>1. /\ agenda # <<>> /\ item.do # "walk" /\ agenda' = rest /\ patchList' = Append(patchList, op)
      /\ UNCHANGED <<modified, current, failed>>
  BY DEF Emit
<1>2. /\ agenda \in Seq(Items) /\ Len(agenda) \in Nat \ {0} /\ item = agenda[1] /\ rest \in Seq(Items)
      /\ Len(rest) = Len(agenda) - 1 /\ \A i \in 1..Len(rest) : rest[i] = agenda[i + 1]
  BY <1>1, HeadTailProperties, LenProperties, EmptySeq DEF TypeOK
<1>3. Sound(item) /\ item \in Items
  BY <1>2 DEF TypeOK, Sound
<1>4. op \in Ops
  BY <1>3 DEF Operation, Ops, Items
<1> HIDE DEF op
<1>5. patchList' \in Seq(Ops) /\ patchList' # <<>>
  BY <1>1, <1>4, AppendProperties, EmptySeq, LenProperties DEF TypeOK
<1>6. \A i \in 1..Len(rest) : Sound(rest[i])
  <2>1. ASSUME NEW i \in 1..Len(rest) PROVE Sound(rest[i])
    <3>1. i + 1 \in 1..Len(agenda) /\ rest[i] = agenda[i + 1]
      BY <1>2
    <3>2. QED
      BY <3>1 DEF TypeOK
  <2>2. QED
    BY <2>1
<1>7. TypeOK'
  BY <1>1, <1>2, <1>5, <1>6 DEF TypeOK
<1>8. EqualSoFar => modified # current
  BY <1>1, <1>2 DEF EqualSoFar, Same
<1>9. QED
  BY <1>1, <1>5, <1>7, <1>8 DEF EqualSoFar

(* A chain of nothing leads nowhere else.                                  *)
LEMMA ChainEnd ==
  ASSUME NEW b, NEW a, Chain(b, a, <<>>)
  PROVE  b = a
<1> DEFINE none == <<>>
<1>1. Len(none) = 0
  OBVIOUS
<1> HIDE DEF none
<1>2. Chain(b, a, none)
  BY DEF none
<1>3. QED
  BY <1>1, <1>2 DEF Chain

EmptyInv == TypeOK /\ EqualSoFar /\ LeadsFromCurrent

(* The invariant of the patch that is still empty, step by step.           *)
LEMMA EmptyInductive ==
  EmptyInv /\ [Next]_vars => EmptyInv'
<1> SUFFICES ASSUME EmptyInv, [Next]_vars PROVE EmptyInv'
  OBVIOUS
<1> USE DEF EmptyInv
<1>1. CASE Walk
  <2>1. /\ TypeOK' /\ EqualSoFar' /\ (Leads => Leads')
        /\ UNCHANGED <<current, patchList, object>>
    BY <1>1, WalkStep
  <2>2. LeadsFromCurrent'
    BY <2>1 DEF LeadsFromCurrent
  <2>3. QED
    BY <2>1, <2>2
<1>2. CASE Emit
  <2>1. TypeOK' /\ EqualSoFar' /\ patchList' # <<>>
    BY <1>2, EmitStep
  <2>2. LeadsFromCurrent'
    BY <2>1 DEF LeadsFromCurrent
  <2>3. QED
    BY <2>1, <2>2
<1>3. CASE UNCHANGED vars
  BY <1>3 DEF vars, TypeOK, EqualSoFar, LeadsFromCurrent, Leads
<1>4. QED
  BY <1>1, <1>2, <1>3 DEF Next

(* For any two objects, however the walker mistakes what is in them, the   *)
(* patch is empty just when they are equal: what hook.go sends with a      *)
(* PatchType is never an empty patch for objects that differ.              *)
THEOREM EmptyMeansEqual == Spec => []EmptyIffEqual
<1>1. Init => EmptyInv
  BY InitTypeOK DEF EmptyInv, LeadsFromCurrent, Init
<1>2. EmptyInv /\ [Next]_vars => EmptyInv'
  BY EmptyInductive
<1>3. EmptyInv => EmptyIffEqual
  <2> SUFFICES ASSUME EmptyInv, Created PROVE patchList = <<>> <=> modified = current
    BY DEF EmptyIffEqual
  <2>1. patchList = <<>> => object = current /\ Chain(object, modified, <<>>)
    BY DEF EmptyInv, LeadsFromCurrent, Leads, Created
  <2>2. patchList = <<>> => modified = current
    BY <2>1, ChainEnd
  <2>3. modified = current => patchList = <<>>
    BY DEF EmptyInv, EqualSoFar
  <2>4. QED
    BY <2>2, <2>3
<1>4. QED
  BY <1>1, <1>2, <1>3, PTL DEF Spec

-----------------------------------------------------------------------------
(* A function with y at k, and without k.                                  *)
Put(f, k, y) == [j \in DOMAIN f \cup {k} |-> IF j = k THEN y ELSE f[j]]
Cut(f, k) == [j \in DOMAIN f \ {k} |-> f[j]]

(* RFC 6902 at the end of a slice: an element more.                        *)
LEMMA AddedLast ==
  ASSUME NEW S, NEW m \in Nat, NEW f \in [1..m -> S], NEW y \in S
  PROVE  InsertAt(f, m + 1, y) = Put(f, m + 1, y)
<1> DEFINE one == <<y>>
           g == InsertAt(f, m + 1, y)
           h == [j \in 1..(m + 1) |-> IF j = m + 1 THEN y ELSE f[j]]
<1>1. f \in Seq(S) /\ Len(f) = m /\ one \in Seq(S) /\ Len(one) = 1 /\ one[1] = y
  OBVIOUS
<1> HIDE DEF one
<1>2. SubSeq(f, 1, Len(f)) = f /\ SubSeq(f, m + 1, m) = <<>>
  <2>1. SubSeq(f, 1, Len(f)) = f
    BY <1>1, SubSeqFull
  <2>2. SubSeq(f, m + 1, m) = <<>>
    BY <1>1, SubSeqEmpty
  <2>3. QED
    BY <2>1, <2>2
<1>3. g = f \o one
  <2>1. (m + 1) - 1 = m /\ g = SubSeq(f, 1, (m + 1) - 1) \o one \o SubSeq(f, m + 1, Len(f))
    BY DEF InsertAt, one
  <2>2. f \o one \in Seq(S)
    BY <1>1, ConcatProperties
  <2>3. (f \o one) \o <<>> = f \o one
    BY <2>2, ConcatEmptySeq
  <2>4. QED
    BY <1>1, <1>2, <2>1, <2>3
<1> HIDE DEF g
<1>4. /\ g \in Seq(S) /\ Len(g) = m + 1
      /\ \A i \in 1..(m + 1) : g[i] = IF i <= m THEN f[i] ELSE one[i - m]
  <2>1. f \o one \in Seq(S) /\ Len(f \o one) = Len(f) + Len(one)
    BY <1>1, ConcatProperties
  <2>2. \A i \in 1..(Len(f) + Len(one)) :
          (f \o one)[i] = IF i <= Len(f) THEN f[i] ELSE one[i - Len(f)]
    BY <1>1, ConcatProperties
  <2>3. QED
    BY <1>1, <1>3, <2>1, <2>2
<1>5. g \in [1..(m + 1) -> S] /\ \A i \in 1..(m + 1) : g[i] = h[i]
  <2>1. g \in [1..(m + 1) -> S]
    BY <1>4, LenProperties
  <2>2. ASSUME NEW i \in 1..(m + 1) PROVE g[i] = h[i]
    BY <1>1, <1>4
  <2>3. QED
    BY <2>1, <2>2
<1>6. g = h
  BY <1>5
<1>7. DOMAIN f \cup {m + 1} = 1..(m + 1)
  OBVIOUS
<1>8. QED
  BY <1>6, <1>7 DEF g, Put

(* And one less.                                                           *)
LEMMA RemovedLast ==
  ASSUME NEW S, NEW m \in Nat \ {0}, NEW f \in [1..m -> S]
  PROVE  RemoveAt(f, m) = Cut(f, m)
<1> DEFINE head == SubSeq(f, 1, m - 1)
<1>1. f \in Seq(S) /\ Len(f) = m /\ m - 1 \in 0..m
  OBVIOUS
<1>2. head = [j \in 1..(m - 1) |-> f[j]]
  BY <1>1, SubSeqRestrict DEF Restrict
<1>3. head \in Seq(S)
  BY <1>2
<1> HIDE DEF head
<1>4. RemoveAt(f, m) = head
  <2>1. SubSeq(f, m + 1, m) = <<>>
    BY SubSeqEmpty
  <2>2. head \o <<>> = head
    BY <1>3, ConcatEmptySeq
  <2>3. QED
    BY <1>1, <2>1, <2>2 DEF RemoveAt, head
<1>5. DOMAIN f \ {m} = 1..(m - 1)
  OBVIOUS
<1>6. QED
  BY <1>2, <1>4, <1>5 DEF Cut

(* Along goes down as an item's change does.                               *)
LEMMA AlongDown ==
  ASSUME NEW p \in Seq(Keys), NEW s, Down(s, p)
  PROVE  \A i \in 0..Len(p) : Along(s[0], p)[i] = s[i]
<1> DEFINE n == Len(p)
           f == [i \in 0..n |-> s[i]]
           at == Along(s[0], p)
           IsAlong(g) == g = [i \in 0..n |-> IF i = 0 THEN s[0] ELSE Part(g[i - 1], p[i])]
<1>1. n \in Nat
  BY LenProperties
<1>2. IsAlong(f)
  <2>1. ASSUME NEW i \in 0..n PROVE f[i] = IF i = 0 THEN s[0] ELSE Part(f[i - 1], p[i])
    <3>1. CASE i = 0
      BY <3>1
    <3>2. CASE i # 0
      <4>1. i \in 1..n /\ i - 1 \in 0..n
        BY <1>1, <3>2
      <4>2. QED
        BY <3>2, <4>1 DEF Down
    <3>3. QED
      BY <3>1, <3>2
  <2>2. QED
    BY <2>1
<1>3. IsAlong(at)
  <2>1. at = CHOOSE g : IsAlong(g)
    BY DEF Along
  <2> HIDE DEF IsAlong, at
  <2>2. QED
    BY <1>2, <2>1
<1> DEFINE T == {i \in 0..n : at[i] = s[i]}
<1> HIDE DEF at
<1>4. 0 \in T
  BY <1>1, <1>3
<1>5. ASSUME NEW i \in 1..n, i - 1 \in T PROVE i \in T
  <2>1. at[i] = Part(at[i - 1], p[i])
    BY <1>1, <1>3
  <2>2. at[i - 1] = s[i - 1] /\ s[i] = Part(s[i - 1], p[i])
    BY <1>5 DEF Down
  <2>3. QED
    BY <2>1, <2>2
<1> HIDE DEF T
<1>6. \A i \in 0..n : i \in T
  BY <1>1, <1>4, <1>5, FromStart
<1>7. QED
  BY <1>6 DEF T, at

(* Rebuilt goes up as an item's change does, if op edits the end of the    *)
(* path as the change does.                                                *)
LEMMA RebuiltUp ==
  ASSUME NEW p \in Seq(Keys), p # <<>>, NEW s, NEW t, Down(s, p), Up(t, s, p),
         NEW at, \A i \in 0..Len(p) : at[i] = s[i],
         NEW op, Edited(s[Len(p) - 1], op, p[Len(p)]) = t[Len(p) - 1]
  PROVE  Rebuilt(at, op, p)[0] = t[0]
<1> DEFINE n == Len(p)
           m == n - 1
           f == [i \in 0..m |-> t[i]]
           new == Rebuilt(at, op, p)
           IsRebuilt(g) == g = [i \in 0..(n - 1) |->
                                  IF i = n - 1 THEN Edited(at[i], op, p[i + 1])
                                  ELSE [at[i] EXCEPT !.parts[p[i + 1]] = g[i + 1]]]
<1>1. n \in Nat /\ m \in Nat /\ n = m + 1
  BY LenProperties, EmptySeq
<1>2. Edited(at[m], op, p[m + 1]) = t[m]
  BY <1>1
<1>3. ASSUME NEW i \in 0..m, i # m
      PROVE  [at[i] EXCEPT !.parts[p[i + 1]] = t[i + 1]] = t[i]
  <2>1. i + 1 \in 1..n /\ i + 2 \in 1..n /\ (i + 1) - 1 = i /\ (i + 2) - 1 = i + 1
    BY <1>1, <1>3
  <2> DEFINE x == s[i]
             k == p[i + 1]
             y == t[i + 1]
  <2>2. /\ Container(x) /\ s[i + 1] = Part(x, k) /\ t[i] = With(x, k, y) /\ at[i] = x
    BY <1>1, <2>1 DEF Down, Up
  <2>3. Container(s[i + 1]) /\ y = With(s[i + 1], p[i + 2], t[i + 2])
    BY <2>1 DEF Down, Up
  <2>4. Container(y)
    BY <2>3, PartWith
  <2>5. ~Container(Absent)
    BY DEF Container, Absent, Value
  <2> HIDE DEF x, k, y
  <2>6. k \in DOMAIN x.parts /\ y # Absent
    BY <2>2, <2>3, <2>4, <2>5 DEF Part, Known
  <2>7. [x EXCEPT !.parts[k] = y] = With(x, k, y)
    <3> DEFINE g == x.parts
    <3>1. x = Value(x.kind, x.text, g)
      BY <2>2 DEF Container
    <3>2. [x EXCEPT !.parts[k] = y] = Value(x.kind, x.text, [g EXCEPT ![k] = y])
      <4>1. \A h : [x EXCEPT !.parts = h] = Value(x.kind, x.text, h)
        BY <3>1 DEF Value
      <4>2. [x EXCEPT !.parts[k] = y] = [x EXCEPT !.parts = [g EXCEPT ![k] = y]]
        OBVIOUS
      <4>3. QED
        BY <4>1, <4>2
    <3>3. [g EXCEPT ![k] = y] = [j \in DOMAIN g \cup {k} |-> IF j = k THEN y ELSE g[j]]
      BY <2>2, <2>6 DEF Container
    <3>4. QED
      BY <2>6, <3>2, <3>3 DEF With
  <2>8. QED
    BY <2>2, <2>7 DEF y, k
<1>4. IsRebuilt(f)
  <2>1. ASSUME NEW i \in 0..m
        PROVE  f[i] = IF i = m THEN Edited(at[i], op, p[i + 1])
                      ELSE [at[i] EXCEPT !.parts[p[i + 1]] = f[i + 1]]
    <3>1. CASE i = m
      BY <1>2, <3>1
    <3>2. CASE i # m
      <4>1. i + 1 \in 0..m
        <5> HIDE DEF n, m
        <5>1. QED
          BY <1>1, <3>2
      <4>2. f[i] = t[i] /\ f[i + 1] = t[i + 1]
        BY <4>1
      <4> HIDE DEF f
      <4>3. QED
        BY <1>3, <3>2, <4>2
    <3>3. QED
      BY <3>1, <3>2
  <2>2. QED
    BY <2>1
<1>5. IsRebuilt(new)
  <2>1. new = CHOOSE g : IsRebuilt(g)
    BY DEF Rebuilt
  <2> HIDE DEF IsRebuilt, new
  <2>2. QED
    BY <1>4, <2>1
<1> DEFINE T == {i \in 0..m : new[i] = t[i]}
<1> HIDE DEF new
<1>6. m \in T
  BY <1>1, <1>2, <1>5
<1>7. ASSUME NEW i \in 1..m, i \in T PROVE i - 1 \in T
  <2>1. i - 1 \in 0..m /\ i - 1 # m /\ (i - 1) + 1 = i
    <3> HIDE DEF n, m, T
    <3>1. QED
      BY <1>1
  <2>2. new[i - 1] = [at[i - 1] EXCEPT !.parts[p[(i - 1) + 1]] = new[(i - 1) + 1]]
    BY <1>5, <2>1
  <2>3. new[(i - 1) + 1] = t[(i - 1) + 1]
    BY <1>7, <2>1
  <2>4. new[i - 1] = t[i - 1]
    BY <1>3, <2>1, <2>2, <2>3
  <2>5. QED
    BY <2>1, <2>4
<1> HIDE DEF T
<1>8. 0 \in T
  BY <1>1, <1>6, <1>7, FromEnd
<1>9. QED
  BY <1>8 DEF T, new

-----------------------------------------------------------------------------
(* An item whose pair the walker does not mistake, or whose operation the  *)
(* API server takes for what the item means: an add to a slice is one at   *)
(* its end, and no value is a null.                                        *)
InSlice(item) == item.pointer # <<>> /\ item.pointer[Len(item.pointer)] \in Nat

Plain(item, pairs) ==
  /\ item.do = "walk" => /\ <<item.new, item.old>> \in pairs
                         /\ InSlice(item) /\ Empty(item.old) => item.new = item.old
  /\ item.do = "add" /\ InSlice(item) => item.old = Absent
  /\ item.do = "remove" => item.new = Absent
  /\ item.do \in {"add", "replace"} => item.new # Null

(* One operation, at a key of a map or slice.                              *)
LEMMA EditedWith ==
  ASSUME NEW do \in {"add", "replace", "remove"}, NEW op, op.op = do,
         NEW x, Container(x), NEW k, NEW y, Fits(x, k, y),
         do = "remove" => y = Absent /\ Part(x, k) # Absent,
         do = "replace" => y # Absent /\ op.value = y /\ Part(x, k) # Absent,
         do = "add" => y # Absent /\ op.value = y /\ (k \in Nat => Part(x, k) = Absent)
  PROVE  Accepts(x, op, k) /\ Edited(x, op, k) = With(x, k, y)
<1> DEFINE f == x.parts
           put == Put(f, k, y)
           cut == Cut(f, k)
           Edit(g) == [x EXCEPT !.parts = g]
<1>1. x = Value(x.kind, x.text, f) /\ f = [j \in DOMAIN f |-> f[j]] /\ x.kind \in {"map", "slice"}
  BY DEF Container
<1>2. \A g : Edit(g) = Value(x.kind, x.text, g)
  BY <1>1 DEF Value
<1>3. With(x, k, y) = IF y = Absent THEN Edit(cut) ELSE Edit(put)
  BY <1>2 DEF With, Put, Cut
<1>4. Part(x, k) = Absent <=> k \notin DOMAIN f
  BY DEF Part, Known, Container
<1>5. ASSUME x.kind = "slice"
      PROVE  \E m \in Nat : \E S : /\ DOMAIN f = 1..m /\ Len(f) = m /\ k \in 1..(m + 1)
                                   /\ (y = Absent => k = m) /\ y \in S /\ f \in [1..m -> S]
  <2>1. PICK m \in Nat : DOMAIN f = 1..m /\ k \in 1..(m + 1) /\ (y = Absent => k = m)
    BY <1>5 DEF Fits
  <2> DEFINE S == {f[j] : j \in DOMAIN f} \cup {y}
  <2>2. y \in S /\ \A j \in DOMAIN f : f[j] \in S
    OBVIOUS
  <2> HIDE DEF S, f
  <2>3. f \in [1..m -> S]
    BY <1>1, <2>1, <2>2
  <2>4. Len(f) = m
    BY <2>3
  <2>5. QED
    BY <2>1, <2>2, <2>3, <2>4 DEF f
<1> HIDE DEF Edit
<1>6. CASE do = "add" /\ x.kind = "slice"
  <2>1. PICK m \in Nat : \E S : /\ DOMAIN f = 1..m /\ Len(f) = m /\ k \in 1..(m + 1)
                                /\ y \in S /\ f \in [1..m -> S]
    BY <1>5, <1>6
  <2>2. k = m + 1
    BY <1>4, <1>6, <2>1
  <2>3. InsertAt(f, k, y) = put
    <3> HIDE DEF f
    <3>1. PICK S : y \in S /\ f \in [1..m -> S]
      BY <2>1
    <3>2. InsertAt(f, m + 1, y) = Put(f, m + 1, y)
      BY <3>1, AddedLast
    <3>3. QED
      BY <2>2, <3>2
  <2>4. Edited(x, op, k) = Edit(InsertAt(f, k, op.value))
    BY <1>6 DEF Edited, Edit
  <2>5. Accepts(x, op, k)
    BY <1>6, <2>1 DEF Accepts
  <2>6. QED
    BY <1>3, <1>6, <2>3, <2>4, <2>5
<1>7. CASE do = "add" /\ x.kind = "map"
  <2>1. Accepts(x, op, k)
    BY <1>7 DEF Accepts
  <2>2. Edited(x, op, k) = Edit([j \in DOMAIN f \cup {k} |-> IF j = k THEN op.value ELSE f[j]])
    BY <1>7 DEF Edited, Edit
  <2>3. QED
    BY <1>3, <1>7, <2>1, <2>2 DEF Put
<1>8. CASE do = "replace"
  <2>1. k \in DOMAIN f
    BY <1>4, <1>8
  <2>2. Accepts(x, op, k)
    BY <1>1, <2>1 DEF Accepts, Known
  <2>3. Edited(x, op, k) = Edit([f EXCEPT ![k] = y])
    BY <1>8 DEF Edited, Edit
  <2>4. [f EXCEPT ![k] = y] = put
    <3> HIDE DEF f
    <3>1. QED
      BY <1>1, <2>1 DEF Put
  <2>5. QED
    BY <1>3, <1>8, <2>2, <2>3, <2>4
<1>9. CASE do = "remove" /\ x.kind = "slice"
  <2>1. PICK m \in Nat : \E S : DOMAIN f = 1..m /\ k = m /\ f \in [1..m -> S]
    BY <1>5, <1>9
  <2>2. k \in DOMAIN f
    BY <1>4, <1>9
  <2>3. RemoveAt(f, k) = cut
    <3> HIDE DEF f
    <3>1. PICK S : f \in [1..m -> S]
      BY <2>1
    <3>2. m \in Nat \ {0}
      BY <2>1, <2>2
    <3>3. RemoveAt(f, m) = Cut(f, m)
      BY <3>1, <3>2, RemovedLast
    <3>4. QED
      BY <2>1, <3>3
  <2>4. Edited(x, op, k) = Edit(RemoveAt(f, k))
    BY <1>9 DEF Edited, Edit
  <2>5. Accepts(x, op, k)
    BY <1>1, <2>2 DEF Accepts, Known
  <2>6. QED
    BY <1>3, <1>9, <2>3, <2>4, <2>5
<1>10. CASE do = "remove" /\ x.kind = "map"
  <2>1. k \in DOMAIN f
    BY <1>4, <1>10
  <2>2. Accepts(x, op, k)
    BY <1>1, <2>1 DEF Accepts, Known
  <2>3. Edited(x, op, k) = Edit(Restrict(f, DOMAIN f \ {k}))
    BY <1>10 DEF Edited, Edit
  <2>4. QED
    BY <1>3, <1>10, <2>2, <2>3 DEF Restrict, Cut
<1>11. QED
  BY <1>1, <1>6, <1>7, <1>8, <1>9, <1>10

(* The operation of an item makes the change that the item stands for.     *)
LEMMA Applied ==
  ASSUME NEW pairs, NEW item, Sound(item), Plain(item, pairs), item.do # "walk",
         NEW b, NEW a, Changes(b, a, item)
  PROVE  Patched(b, Operation(item)) = a
<1> DEFINE op == Operation(item)
           p == item.pointer
           n == Len(p)
           do == item.do
<1>1. /\ op.op = do /\ op.path = p
      /\ op.value = IF do = "remove" \/ item.new = Null THEN Absent ELSE item.new
  BY DEF Operation
<1>2. /\ p \in Seq(Keys) /\ do \in {"add", "replace", "remove"}
      /\ (do # "remove" => item.new \in Values /\ item.new # Absent)
      /\ (do \in {"replace", "remove"} => item.old # Absent)
      /\ (p = <<>> => item.new # Absent)
  BY ValuesContainers DEF Sound, Items
<1>3. do # "remove" => op.value = item.new
  BY <1>1, <1>2 DEF Plain
<1>4. do = "remove" => item.new = Absent
  BY DEF Plain
<1>5. ~(op.op # "remove" /\ op.value = Absent)
  BY <1>1, <1>2, <1>3
<1> HIDE DEF op
<1>6. PICK s, t : /\ Down(s, p) /\ s[0] = b /\ s[n] = item.old
                  /\ Up(t, s, p) /\ t[0] = a /\ t[n] = item.new
                  /\ n > 0 => Fits(s[n - 1], p[n], item.new)
  BY DEF Changes
<1>7. CASE p = <<>>
  <2>1. a = item.new /\ do # "remove"
    BY <1>2, <1>4, <1>6, <1>7
  <2>2. Patched(b, op) = op.value
    BY <1>1, <1>5, <1>7 DEF Patched
  <2>3. QED
    BY <1>3, <2>1, <2>2 DEF op
<1>8. CASE p # <<>>
  <2> DEFINE x == s[n - 1]
             k == p[n]
             at == Along(b, p)
  <2>1. n \in Nat \ {0} /\ n \in 1..n /\ n - 1 \in 0..n
    BY <1>2, <1>8, LenProperties, EmptySeq
  <2>2. /\ Container(x) /\ item.old = Part(x, k) /\ Fits(x, k, item.new)
        /\ t[n - 1] = With(x, k, item.new)
    BY <1>6, <2>1 DEF Down, Up
  <2>3. do = "add" /\ k \in Nat => item.old = Absent
    BY <1>8 DEF Plain, InSlice
  <2> HIDE DEF x, k, n, do
  <2>4. Accepts(x, op, k) /\ Edited(x, op, k) = With(x, k, item.new)
    BY <1>1, <1>2, <1>3, <1>4, <2>2, <2>3, EditedWith
  <2>5. \A i \in 0..n : at[i] = s[i]
    BY <1>2, <1>6, AlongDown DEF n
  <2> HIDE DEF at
  <2>6. at[n - 1] = x
    BY <2>1, <2>5 DEF x
  <2>7. Rebuilt(at, op, p)[0] = a
    BY <1>2, <1>6, <1>8, <2>2, <2>4, <2>5, RebuiltUp DEF n, x, k
  <2>8. Patched(b, op) = Rebuilt(at, op, p)[0]
    BY <1>1, <1>5, <1>8, <2>4, <2>6 DEF Patched, at, n, k
  <2>9. QED
    BY <2>7, <2>8 DEF op
<1>9. QED
  BY <1>7, <1>8

(* The items of a pair that the walker does not mistake are such pairs and *)
(* operations: strings are not emptied, so none is taken away, nothing     *)
(* empty in a slice is added again, and no null is added.                  *)
LEMMA PlainExpands ==
  ASSUME NEW pairs, PlainPairs(pairs), NEW item, Sound(item), Plain(item, pairs),
         item.do = "walk", item.new.kind = item.old.kind, NEW items \in Expansions(item)
  PROVE  \A i \in 1..Len(items) : Plain(items[i], pairs)
<1>1. item.new \in Values /\ item.old \in Values /\ <<item.new, item.old>> \in pairs
  BY DEF Sound, Plain
<1>2. /\ item.new = EmptyString => item.old = EmptyString
      /\ \A key \in DOMAIN item.new.parts :
           IF key \in DOMAIN item.old.parts
             THEN /\ <<item.new.parts[key], item.old.parts[key]>> \in pairs
                  /\ item.new.kind = "slice" /\ Empty(item.old.parts[key])
                       => item.new.parts[key] = item.old.parts[key]
             ELSE item.old.parts = <<>> \/ item.new.parts[key] # Null
  BY <1>1 DEF PlainPairs
<1>3. CASE items = <<>>
  BY <1>3
<1>4. ASSUME NEW do, Whole(item, do), items = <<[item EXCEPT !.do = do]>>
      PROVE  \A i \in 1..Len(items) : Plain(items[i], pairs)
  <2> DEFINE one == [item EXCEPT !.do = do]
  <2>1. /\ one.do = do /\ one.pointer = item.pointer
        /\ one.new = item.new /\ one.old = item.old
    BY DEF Sound, Items
  <2>2. Len(items) = 1 /\ items[1] = one
    BY <1>4
  <2> HIDE DEF one
  <2>3. InSlice(one) <=> InSlice(item)
    BY <2>1 DEF InSlice
  <2>4. Plain(one, pairs)
    BY <1>2, <1>4, <2>1, <2>3 DEF Plain, Whole
  <2>5. QED
    BY <2>2, <2>4
<1>5. ASSUME Pair(item), ~WasEmpty(item), NEW c, DoKeys(items, item, c)
      PROVE  \A i \in 1..Len(items) : Plain(items[i], pairs)
  <2> SUFFICES ASSUME NEW i \in 1..Len(items) PROVE Plain(items[i], pairs)
    OBVIOUS
  <2> DEFINE k == c[i]
             new == item.new.parts
             old == item.old.parts
             child == ChildAt(item, k)
  <2>1. items[i] = child /\ k \in DOMAIN new \cup DOMAIN old
    BY <1>5 DEF DoKeys
  <2> HIDE DEF k, child
  <2>2. /\ child.pointer = Append(item.pointer, k)
        /\ child.new = Part(item.new, k) /\ child.old = Part(item.old, k)
        /\ child.do = IF k \notin DOMAIN new THEN "remove"
                      ELSE IF k \in DOMAIN old THEN "walk" ELSE "add"
    BY <1>5, <2>1, ChildSound DEF child
  <2>3. /\ k \in DOMAIN new => child.new = new[k]
        /\ k \in DOMAIN old => child.old = old[k]
        /\ k \notin DOMAIN new => child.new = Absent
        /\ k \notin DOMAIN old => child.old = Absent
    BY <1>5, <2>2, PairAlike
  <2>4. InSlice(child) => item.new.kind = "slice"
    <3>1. child.pointer[Len(child.pointer)] = k
      BY <1>5, <2>1, <2>2, AppendProperties DEF Pair, Items, Keys
    <3>2. item.new.kind = "map" => k \notin Nat
      BY <1>5, <2>1, JsonPatchAssumption DEF Pair
    <3>3. QED
      BY <1>5, <3>1, <3>2 DEF InSlice, Pair
  <2>5. CASE k \in DOMAIN new /\ k \in DOMAIN old
    BY <1>2, <2>1, <2>2, <2>3, <2>4, <2>5 DEF Plain
  <2>6. CASE k \in DOMAIN new /\ k \notin DOMAIN old
    <3>1. new # <<>>
      BY <2>6
    <3>2. old # <<>>
      BY <1>5, <3>1 DEF WasEmpty
    <3>3. new[k] # Null
      BY <1>2, <2>6, <3>2
    <3>4. QED
      BY <2>1, <2>2, <2>3, <2>6, <3>3 DEF Plain
  <2>7. CASE k \notin DOMAIN new
    BY <2>1, <2>2, <2>3, <2>7 DEF Plain
  <2>8. QED
    BY <2>5, <2>6, <2>7
<1>6. QED
  BY <1>3, <1>4, <1>5, Expanded

PlainAgenda(pairs) == \A i \in 1..Len(agenda) : Plain(agenda[i], pairs)
YieldsInv(pairs) == TypeOK /\ Leads /\ PlainAgenda(pairs)

(* It holds of the agenda that has only the two objects.                   *)
LEMMA InitYields ==
  ASSUME NEW pairs, Modifieds \X Currents \subseteq pairs
  PROVE  Init => YieldsInv(pairs)
<1> SUFFICES ASSUME Init PROVE YieldsInv(pairs)
  OBVIOUS
<1> DEFINE first == Item("walk", <<>>, modified, current)
           one == <<first>>
<1>1. /\ first.do = "walk" /\ first.pointer = <<>>
      /\ first.new = modified /\ first.old = current
  BY DEF Item
<1>2. <<modified, current>> \in pairs
  BY DEF Init
<1> HIDE DEF first
<1>3. Plain(first, pairs)
  BY <1>1, <1>2 DEF Plain, InSlice
<1>4. \A i \in 1..Len(one) : one[i] = first
  OBVIOUS
<1>5. agenda = one
  BY DEF Init, first
<1> HIDE DEF one
<1>6. PlainAgenda(pairs)
  BY <1>3, <1>4, <1>5 DEF PlainAgenda
<1>7. QED
  BY <1>6, InitTypeOK DEF YieldsInv

(* The invariant of the patch of such objects, step by step.               *)
LEMMA YieldsInductive ==
  ASSUME NEW pairs, PlainPairs(pairs)
  PROVE  YieldsInv(pairs) /\ [Next]_vars => YieldsInv(pairs)'
<1> SUFFICES ASSUME YieldsInv(pairs), [Next]_vars PROVE YieldsInv(pairs)'
  OBVIOUS
<1> DEFINE item == Head(agenda)
           rest == Tail(agenda)
<1>1. TypeOK /\ Leads /\ PlainAgenda(pairs)
  BY DEF YieldsInv
<1>2. ASSUME agenda # <<>>
      PROVE  /\ agenda \in Seq(Items) /\ rest \in Seq(Items) /\ Sound(item) /\ Plain(item, pairs)
             /\ \A i \in 1..Len(rest) : Plain(rest[i], pairs)
  <2>1. /\ agenda \in Seq(Items) /\ Len(agenda) \in Nat \ {0} /\ item = agenda[1] /\ rest \in Seq(Items)
        /\ Len(rest) = Len(agenda) - 1 /\ \A i \in 1..Len(rest) : rest[i] = agenda[i + 1]
    BY <1>1, <1>2, HeadTailProperties, LenProperties, EmptySeq DEF TypeOK
  <2>2. 1 \in 1..Len(agenda) /\ \A i \in 1..Len(rest) : i + 1 \in 1..Len(agenda)
    BY <2>1
  <2>3. QED
    BY <1>1, <2>1, <2>2 DEF TypeOK, PlainAgenda
<1> HIDE DEF item, rest
<1>3. CASE Walk
  <2>1. TypeOK' /\ Leads'
    BY <1>1, <1>3, WalkStep
  <2>2. agenda # <<>> /\ item.do = "walk"
    BY <1>3 DEF Walk, item
  <2>3. CASE item.new.kind # item.old.kind
    <3>1. agenda' = <<>>
      BY <1>3, <2>3 DEF Walk, item
    <3>2. PlainAgenda(pairs)'
      BY <3>1 DEF PlainAgenda
    <3>3. QED
      BY <2>1, <3>2 DEF YieldsInv
  <2>4. CASE item.new.kind = item.old.kind
    <3>1. PICK items \in Expansions(item) : agenda' = items \o rest
      BY <1>3, <2>4 DEF Walk, item, rest
    <3>2. items \in Seq(Items) /\ \A i \in 1..Len(items) : Plain(items[i], pairs)
      BY <1>2, <2>2, <2>4, <3>1, WalkExpands, PlainExpands
    <3>3. \A i \in 1..Len(agenda') : \/ \E j \in 1..Len(items) : agenda'[i] = items[j]
                                     \/ \E j \in 1..Len(rest) : agenda'[i] = rest[j]
      BY <1>2, <2>2, <3>1, <3>2, FromEither
    <3>4. PlainAgenda(pairs)'
      BY <1>2, <2>2, <3>2, <3>3 DEF PlainAgenda
    <3>5. QED
      BY <2>1, <3>4 DEF YieldsInv
  <2>5. QED
    BY <2>3, <2>4
<1>4. CASE Emit
  <2>1. TypeOK'
    BY <1>1, <1>4, EmitStep
  <2>2. /\ agenda # <<>> /\ item.do # "walk" /\ agenda' = rest
        /\ object' = Patched(object, Operation(item)) /\ UNCHANGED <<modified, failed>>
    BY <1>4 DEF Emit, item, rest
  <2>3. PlainAgenda(pairs)'
    BY <1>2, <2>2 DEF PlainAgenda
  <2>4. ASSUME ~failed PROVE Chain(object', modified, rest)
    <3>1. PICK c : Changes(object, c, item) /\ Chain(c, modified, rest)
      BY <1>1, <1>2, <2>2, <2>4, ChainFrom DEF Leads, item, rest
    <3>2. object' = c
      BY <1>2, <2>2, <3>1, Applied
    <3>3. QED
      BY <3>1, <3>2
  <2>5. Leads'
    BY <2>2, <2>4 DEF Leads
  <2>6. QED
    BY <2>1, <2>3, <2>5 DEF YieldsInv
<1>5. CASE UNCHANGED vars
  BY <1>1, <1>5 DEF vars, YieldsInv, TypeOK, Leads, PlainAgenda
<1>6. QED
  BY <1>3, <1>4, <1>5 DEF Next

(* Whatever order the maps come in and however deep the objects are: if    *)
(* the walker mistakes none of the values in them, the API server turns    *)
(* the object of the request into the one that the admission returned.     *)
THEOREM PlainPatchYields ==
  ASSUME NEW pairs, PlainPairs(pairs), Modifieds \X Currents \subseteq pairs
  PROVE  Spec => []PatchYieldsModified
<1>1. Init => YieldsInv(pairs)
  BY InitYields
<1>2. YieldsInv(pairs) /\ [Next]_vars => YieldsInv(pairs)'
  BY YieldsInductive
<1>3. YieldsInv(pairs) => PatchYieldsModified
  <2> SUFFICES ASSUME YieldsInv(pairs), Created PROVE object = modified
    BY DEF PatchYieldsModified
  <2>1. Chain(object, modified, <<>>)
    BY DEF YieldsInv, Leads, Created
  <2>2. QED
    BY <2>1, ChainEnd
<1>4. QED
  BY <1>1, <1>2, <1>3, PTL DEF Spec

=============================================================================
