----------------------------- MODULE HookProofs ------------------------------
(***************************************************************************)
(* What holds of a request whatever admissions there are, in whatever      *)
(* order of names, and whatever their scripts answer.                      *)
(***************************************************************************)
EXTENDS Hook, FiniteSetTheorems, SequenceTheorems, TLAPS

(* The admissions one request can find.                                    *)
Findable(S) ==
  /\ S \subseteq Admissions
  /\ \A a, b \in S : \/ AdmNamespaceOf[a] = AdmNamespaceOf[b]
                     \/ NoNamespace \in {AdmNamespaceOf[a], AdmNamespaceOf[b]}

(* Among them ComesFirst is an order: names are told apart in a namespace, *)
(* and only two namespaces take part, the object's own and none.           *)
LEMMA ComesFirstOrders ==
  ASSUME NEW S, Findable(S)
  PROVE  /\ \A a \in S : ~ComesFirst(a, a)
         /\ \A a, b \in S : a # b => ComesFirst(a, b) \/ ComesFirst(b, a)
         /\ \A a, b, c \in S : ComesFirst(a, b) /\ ComesFirst(b, c) => ComesFirst(a, c)
<1>1. \A a \in S : NameOrder[a] \in Nat
  BY HookAssumption DEF Findable
<1>2. \A a, b \in S : AdmNamespaceOf[a] = AdmNamespaceOf[b] /\ NameOrder[a] = NameOrder[b] => a = b
  BY HookAssumption DEF Findable
<1>3. \A a \in S : ~ComesFirst(a, a)
  BY <1>1 DEF ComesFirst
<1>4. \A a, b \in S : a # b => ComesFirst(a, b) \/ ComesFirst(b, a)
  BY <1>1, <1>2 DEF ComesFirst, Findable
<1>5. \A a, b, c \in S : ComesFirst(a, b) /\ ComesFirst(b, c) => ComesFirst(a, c)
  BY <1>1, <1>2 DEF ComesFirst, Findable
<1>6. QED
  BY <1>3, <1>4, <1>5

(* They can be put in that order: the place of each is one more than the   *)
(* number of those that come before it, and no two have the same.          *)
LEMMA OrderExists ==
  ASSUME NEW S, Findable(S)
  PROVE  \E s \in SetToSeqs(S) : \A i, j \in DOMAIN s : i < j => ~ComesFirst(s[j], s[i])
<1> DEFINE n == Cardinality(S)
           Before(a) == {b \in S : ComesFirst(b, a)}
           rank == [a \in S |-> Cardinality(Before(a)) + 1]
<1>1. IsFiniteSet(S) /\ n \in Nat
  BY HookAssumption, FS_Subset, FS_CardinalityType DEF Findable
<1>2. ASSUME NEW a \in S
      PROVE  IsFiniteSet(Before(a)) /\ Cardinality(Before(a)) \in Nat /\ Cardinality(Before(a)) < n
  <2>1. IsFiniteSet(Before(a)) /\ Cardinality(Before(a)) \in Nat /\ Cardinality(Before(a)) <= n
    BY <1>1, FS_Subset, FS_CardinalityType
  <2>2. a \in S /\ a \notin Before(a)
    BY ComesFirstOrders
  <2>3. Before(a) \in SUBSET S /\ Before(a) # S
    BY <2>2
  <2>4. Cardinality(Before(a)) # n
    BY <1>1, <2>3, FS_Subset
  <2>5. QED
    BY <1>1, <2>1, <2>4
<1>3. ASSUME NEW a \in S, NEW b \in S, ComesFirst(a, b)
      PROVE  Cardinality(Before(a)) < Cardinality(Before(b))
  <2>1. Before(a) \in SUBSET Before(b)
    BY <1>3, ComesFirstOrders
  <2>2. a \in Before(b) /\ a \notin Before(a)
    BY <1>3, ComesFirstOrders
  <2>3. Before(a) # Before(b)
    BY <2>2
  <2>4. Cardinality(Before(a)) <= Cardinality(Before(b)) /\ Cardinality(Before(a)) # Cardinality(Before(b))
    BY <1>2, <2>1, <2>3, FS_Subset
  <2>5. QED
    BY <1>2, <2>4
<1> HIDE DEF Before
<1>4. rank \in [S -> 1..n]
  BY <1>1, <1>2
<1>5. \A a, b \in S : ComesFirst(a, b) => rank[a] < rank[b]
  BY <1>2, <1>3
<1> HIDE DEF rank
<1>6. \A a, b \in S : rank[a] = rank[b] => a = b
  BY <1>1, <1>4, <1>5, ComesFirstOrders
<1>7. rank \in Injection(S, 1..n)
  BY <1>4, <1>6 DEF Injection, IsInjective
<1>8. IsFiniteSet(1..n) /\ Cardinality(1..n) = n
  BY <1>1, FS_Interval
<1>9. rank \in Surjection(S, 1..n)
  BY <1>7, <1>8, FS_Injection
<1> DEFINE s == [i \in 1..n |-> CHOOSE a \in S : rank[a] = i]
<1>10. \A i \in 1..n : s[i] \in S /\ rank[s[i]] = i
  BY <1>9 DEF Surjection
<1>11. s \in [1..n -> S] /\ DOMAIN s = 1..n
  BY <1>10
<1> HIDE DEF s
<1>12. \A i, j \in 1..n : i # j => s[i] # s[j]
  BY <1>10
<1>13. s \in SetToSeqs(S)
  BY <1>11, <1>12 DEF SetToSeqs
<1>14. \A i, j \in 1..n : i < j => ~ComesFirst(s[j], s[i])
  BY <1>1, <1>5, <1>10
<1>15. QED
  BY <1>11, <1>13, <1>14

(* So Find's order has each admission once, in the order of ComesFirst.    *)
LEMMA SortedInOrder ==
  ASSUME NEW S, Findable(S)
  PROVE  /\ Sorted(S) \in Seq(S)
         /\ \A a \in S : \E i \in 1..Len(Sorted(S)) : Sorted(S)[i] = a
         /\ \A i, j \in 1..Len(Sorted(S)) : i < j => ComesFirst(Sorted(S)[i], Sorted(S)[j])
<1> DEFINE s == Sorted(S)
           n == Cardinality(S)
<1>1. s \in SetToSeqs(S) /\ \A i, j \in DOMAIN s : i < j => ~ComesFirst(s[j], s[i])
  BY OrderExists DEF Sorted, InOrder
<1> HIDE DEF s
<1>2. IsFiniteSet(S) /\ n \in Nat
  BY HookAssumption, FS_Subset, FS_CardinalityType DEF Findable
<1>3. s \in [1..n -> S] /\ \A i, j \in 1..n : i # j => s[i] # s[j]
  BY <1>1 DEF SetToSeqs
<1>4. s \in Seq(S) /\ Len(s) = n
  BY <1>2, <1>3
<1>5. s \in Injection(1..n, S)
  BY <1>3 DEF Injection, IsInjective
<1>6. s \in Surjection(1..n, S)
  BY <1>2, <1>5, FS_Interval, FS_Injection
<1>7. \A a \in S : \E i \in 1..n : s[i] = a
  BY <1>6 DEF Surjection
<1>8. ASSUME NEW i \in 1..n, NEW j \in 1..n, i < j PROVE ComesFirst(s[i], s[j])
  <2>1. s[i] \in S /\ s[j] \in S /\ s[i] # s[j] /\ ~ComesFirst(s[j], s[i])
    BY <1>1, <1>3, <1>8
  <2>2. QED
    BY <2>1, ComesFirstOrders
<1>9. Sorted(S) = s
  BY DEF s
<1>10. QED
  BY <1>4, <1>7, <1>8, <1>9

-----------------------------------------------------------------------------
Responses ==
  [verdict : {"pending", "allowed", "denied"}, patch : Seq(found), annotation : Seq(found)]

(* The answers that are made of nothing.                                   *)
LEMMA PlainResponses ==
  /\ Pending \in Responses /\ Allow \in Responses /\ Deny \in Responses
  /\ Pending.verdict = "pending" /\ Allow.verdict = "allowed" /\ Deny.verdict = "denied"
  /\ Allow.patch = <<>> /\ Allow.annotation = <<>>
BY EmptySeq DEF Pending, Allow, Deny, Responses

(* The server starts with no request at hand.                              *)
LEMMA TypeInit == Init => TypeOK /\ Findable(found)
<1> SUFFICES ASSUME Init PROVE TypeOK /\ Findable(found)
  OBVIOUS
<1>1. Findable(found)
  BY DEF Init, Findable
<1>2. adms \in Seq(found)
  BY <1>1, SortedInOrder DEF Init
<1>3. response \in Responses
  BY PlainResponses DEF Init
<1>4. QED
  BY <1>1, <1>2, <1>3, EmptySeq DEF Init, TypeOK, Findable, Responses

(* A call that denies leaves the object alone, any other one hands on what *)
(* Applied says.                                                           *)
CallDenied(answer) == Denies(answer) /\ response' = Deny /\ UNCHANGED <<object, mutations>>

CallPassed(answer) ==
  /\ ~Denies(answer)
  /\ object' = Applied(Head(adms), answer)
  /\ mutations' = IF handler = "mutate" /\ answer.result # "absent"
                    THEN Append(mutations, Head(adms)) ELSE mutations
  /\ UNCHANGED response

(* One step of the loop over the codes.                                    *)
LEMMA OneCall ==
  ASSUME TypeOK, CallCode
  PROVE  /\ Head(adms) \in found /\ Tail(adms) \in Seq(found) /\ adms' = Tail(adms)
         /\ Len(adms) > 0 /\ Len(adms') = Len(adms) - 1 /\ adms[1] = Head(adms)
         /\ \A k \in 1..Len(adms') : adms'[k] = adms[k + 1]
         /\ response = Pending /\ UNCHANGED <<handler, found>>
         /\ \E answer \in Answers \cup {Error} :
              /\ calls' = Append(calls, [adm |-> Head(adms), got |-> object, answer |-> answer])
              /\ CallDenied(answer) \/ CallPassed(answer)
<1>1. adms \in Seq(found) /\ adms # <<>>
  BY DEF TypeOK, CallCode
<1>2. /\ Head(adms) \in found /\ Tail(adms) \in Seq(found) /\ Len(Tail(adms)) = Len(adms) - 1
      /\ \A k \in 1..Len(Tail(adms)) : Tail(adms)[k] = adms[k + 1]
  BY <1>1, HeadTailProperties
<1>3. Len(adms) > 0 /\ adms[1] = Head(adms)
  BY <1>1
<1>4. \E answer \in Answers \cup {Error} :
              /\ calls' = Append(calls, [adm |-> Head(adms), got |-> object, answer |-> answer])
              /\ CallDenied(answer) \/ CallPassed(answer)
  BY DEF CallCode, CallDenied, CallPassed
<1>5. QED
  BY <1>2, <1>3, <1>4 DEF CallCode

(* Every step keeps the types.                                             *)
LEMMA TypeStep == ASSUME TypeOK, [Next]_vars PROVE TypeOK'
<1>1. CASE ServeFails
  BY <1>1, PlainResponses DEF ServeFails, TypeOK, Responses
<1>2. CASE DecodeFails
  BY <1>2, PlainResponses DEF DecodeFails, TypeOK, Responses
<1>3. CASE CallCode
  <2>1. PICK answer \in Answers \cup {Error} :
          /\ calls' = Append(calls, [adm |-> Head(adms), got |-> object, answer |-> answer])
          /\ CallDenied(answer) \/ CallPassed(answer)
    BY <1>3, OneCall
  <2>2. /\ Head(adms) \in found /\ Tail(adms) \in Seq(found) /\ adms' = Tail(adms)
        /\ UNCHANGED <<handler, found>>
    BY <1>3, OneCall
  <2> DEFINE C == [adm : found, got : Seq(found), answer : Answers \cup {Error}]
             call == [adm |-> Head(adms), got |-> object, answer |-> answer]
  <2>3. calls' \in Seq(C)
    <3>1. call \in C /\ calls \in Seq(C)
      BY <2>2 DEF TypeOK
    <3> HIDE DEF C, call
    <3>2. Append(calls, call) \in Seq(C)
      BY <3>1, AppendProperties
    <3>3. QED
      BY <2>1, <3>2 DEF call
  <2>4. object' \in Seq(found) /\ mutations' \in Seq(found)
    <3>1. object \in Seq(found) /\ mutations \in Seq(found)
      BY DEF TypeOK
    <3>2. /\ Append(object, Head(adms)) \in Seq(found)
          /\ Append(mutations, Head(adms)) \in Seq(found)
          /\ <<Head(adms)>> \in Seq(found)
      BY <2>2, <3>1, AppendProperties
    <3>3. QED
      BY <2>1, <3>1, <3>2 DEF CallDenied, CallPassed, Applied
  <2>5. response' \in Responses
    BY <2>1, PlainResponses DEF CallDenied, CallPassed, TypeOK, Responses
  <2>6. QED
    BY <2>2, <2>3, <2>4, <2>5 DEF TypeOK, Responses
<1>4. CASE Respond
  <2>1. response' \in Responses
    BY <1>4, PlainResponses DEF Respond, TypeOK, Responses, Allow, Pending
  <2>2. QED
    BY <1>4, <2>1 DEF Respond, TypeOK, Responses
<1>5. CASE UNCHANGED vars
  BY <1>5 DEF vars, TypeOK
<1>6. QED
  BY <1>1, <1>2, <1>3, <1>4, <1>5 DEF Next

(* The variables keep their types.                                         *)
THEOREM Types == Spec => []TypeOK
<1>1. Init => TypeOK
  BY TypeInit
<1>2. QED
  BY <1>1, TypeStep, PTL DEF Spec

-----------------------------------------------------------------------------
(* Only a call that did not deny leaves the response open.                 *)
LEMMA DenialStep == ASSUME TypeOK, DenialIsFinal, [Next]_vars PROVE DenialIsFinal'
<1> USE DEF DenialIsFinal
<1>1. CASE ServeFails
  BY <1>1, PlainResponses DEF ServeFails
<1>2. CASE DecodeFails
  BY <1>2, PlainResponses DEF DecodeFails
<1>3. CASE CallCode
  <2>1. PICK answer \in Answers \cup {Error} :
          /\ calls' = Append(calls, [adm |-> Head(adms), got |-> object, answer |-> answer])
          /\ CallDenied(answer) \/ CallPassed(answer)
    BY <1>3, OneCall
  <2>2. calls \in Seq([adm : found, got : Seq(found), answer : Answers \cup {Error}])
    BY DEF TypeOK
  <2>3. \A i \in DOMAIN calls : calls[i].answer.allowed \notin {"false", "error"}
    BY <1>3, OneCall, PlainResponses
  <2>4. /\ Len(calls') = Len(calls) + 1 /\ DOMAIN calls' = 1..Len(calls')
        /\ calls'[Len(calls')].answer = answer
        /\ \A i \in 1..Len(calls) : i \in DOMAIN calls /\ calls'[i] = calls[i]
    BY <2>1, <2>2
  <2>5. \A i \in DOMAIN calls' : i = Len(calls') \/ i \in 1..Len(calls)
    BY <2>2, <2>4
  <2>6. answer.allowed \in {"false", "error"} => response'.verdict = "denied"
    BY <2>1, PlainResponses DEF CallDenied, CallPassed, Denies
  <2>7. QED
    BY <2>3, <2>4, <2>5, <2>6
<1>4. CASE Respond
  <2>1. \A i \in DOMAIN calls : calls[i].answer.allowed \notin {"false", "error"}
    BY <1>4, PlainResponses DEF Respond
  <2>2. QED
    BY <1>4, <2>1 DEF Respond
<1>5. CASE UNCHANGED vars
  BY <1>5 DEF vars
<1>6. QED
  BY <1>1, <1>2, <1>3, <1>4, <1>5 DEF Next

(* However many admissions apply and whatever they answer, the first that  *)
(* denies or fails is the last that is called, and its denial stands.      *)
THEOREM DenialStands == Spec => []DenialIsFinal
<1>1. Init => DenialIsFinal
  BY DEF Init, DenialIsFinal
<1>2. QED
  BY <1>1, Types, DenialStep, PTL DEF Spec

-----------------------------------------------------------------------------
(* The calls made and those still to be made are Find's list, in order; an *)
(* allowed request that made a call made them all.                         *)
InSequence ==
  /\ Len(calls) + Len(adms) = Len(Sorted(found))
  /\ \A i \in 1..Len(calls) : calls[i].adm = Sorted(found)[i]
  /\ \A k \in 1..Len(adms) : adms[k] = Sorted(found)[Len(calls) + k]
  /\ response.verdict = "allowed" /\ calls # <<>> => adms = <<>>

(* Every step keeps it: a call moves its admission from those left to      *)
(* those called.                                                           *)
LEMMA InSequenceStep ==
  ASSUME TypeOK, Findable(found), InSequence, [Next]_vars PROVE InSequence'
<1>1. CASE ServeFails
  BY <1>1, PlainResponses DEF ServeFails, InSequence
<1>2. CASE DecodeFails
  BY <1>2 DEF DecodeFails, InSequence
<1>3. CASE CallCode
  <2>1. PICK answer \in Answers \cup {Error} :
          /\ calls' = Append(calls, [adm |-> Head(adms), got |-> object, answer |-> answer])
          /\ CallDenied(answer) \/ CallPassed(answer)
    BY <1>3, OneCall
  <2>2. /\ calls \in Seq([adm : found, got : Seq(found), answer : Answers \cup {Error}])
        /\ Sorted(found) \in Seq(found) /\ adms \in Seq(found)
    BY SortedInOrder DEF TypeOK
  <2>3. /\ Len(calls') = Len(calls) + 1
        /\ calls'[Len(calls) + 1].adm = Head(adms)
        /\ \A i \in 1..Len(calls) : calls'[i] = calls[i]
    BY <2>1, <2>2
  <2>4. /\ Len(adms) > 0 /\ Len(adms') = Len(adms) - 1 /\ adms[1] = Head(adms)
        /\ \A k \in 1..Len(adms') : adms'[k] = adms[k + 1]
        /\ found' = found /\ response = Pending
    BY <1>3, OneCall
  <2>5. Sorted(found)' = Sorted(found)
    BY <2>4 DEF Sorted, InOrder
  <2>6. Len(calls) \in Nat /\ Len(adms) \in Nat
    BY <2>2, LenProperties
  <2> HIDE DEF TypeOK
  <2>7. Len(calls') + Len(adms') = Len(Sorted(found)')
    <3>1. Len(calls) + Len(adms) = Len(Sorted(found))
      BY DEF InSequence
    <3>2. (Len(calls) + 1) + (Len(adms) - 1) = Len(calls) + Len(adms)
      BY <2>6
    <3>3. QED
      BY <2>3, <2>4, <2>5, <3>1, <3>2
  <2>8. ASSUME NEW i \in 1..Len(calls') PROVE calls'[i].adm = Sorted(found)'[i]
    <3>1. CASE i = Len(calls) + 1
      BY <2>3, <2>4, <2>5, <2>6, <3>1 DEF InSequence
    <3>2. CASE i # Len(calls) + 1
      <4>1. i \in 1..Len(calls)
        BY <2>3, <2>6, <2>8, <3>2
      <4>2. QED
        BY <2>3, <2>5, <4>1 DEF InSequence
    <3>3. QED
      BY <3>1, <3>2
  <2>9. ASSUME NEW k \in 1..Len(adms') PROVE adms'[k] = Sorted(found)'[Len(calls') + k]
    <3>1. k + 1 \in 1..Len(adms) /\ Len(calls) + (k + 1) = Len(calls') + k /\ adms'[k] = adms[k + 1]
      BY <2>3, <2>4, <2>6, <2>9
    <3>2. adms[k + 1] = Sorted(found)[Len(calls) + (k + 1)]
      BY <3>1 DEF InSequence
    <3>3. QED
      BY <2>5, <3>1, <3>2
  <2>10. response'.verdict # "allowed"
    BY <2>1, <2>4, PlainResponses DEF CallDenied, CallPassed
  <2>11. QED
    BY <2>7, <2>8, <2>9, <2>10 DEF InSequence
<1>4. CASE Respond
  BY <1>4 DEF Respond, InSequence
<1>5. CASE UNCHANGED vars
  BY <1>5 DEF vars, InSequence
<1>6. QED
  BY <1>1, <1>2, <1>3, <1>4, <1>5 DEF Next

(* What a request can find does not change.                                *)
LEMMA FindableStep == ASSUME Findable(found), [Next]_vars PROVE Findable(found)'
<1>1. found' = found
  BY DEF Next, vars, ServeFails, DecodeFails, CallCode, Respond
<1>2. QED
  BY <1>1 DEF Findable

(* The admissions of the namespace are called before those of the cluster, *)
(* each kind in the order of names, and a request is allowed only when all *)
(* that apply were called: for any admissions, names and answers.          *)
THEOREM CalledInOrder == Spec => []ExecutionOrder
<1>1. Init => TypeOK /\ Findable(found) /\ InSequence
  <2> SUFFICES ASSUME Init PROVE InSequence
    BY TypeInit
  <2>1. adms = Sorted(found) /\ calls = <<>>
    BY DEF Init
  <2>2. Sorted(found) \in Seq(found)
    BY TypeInit, SortedInOrder
  <2> HIDE DEF Sorted
  <2>3. Len(calls) = 0 /\ Len(adms) = Len(Sorted(found)) /\ Len(adms) \in Nat
    BY <2>1, <2>2, LenProperties
  <2>4. \A k \in 1..Len(adms) : 0 + k = k
    BY <2>3
  <2>5. QED
    BY <2>1, <2>3, <2>4 DEF InSequence
<1>2. TypeOK /\ Findable(found) /\ InSequence => ExecutionOrder
  <2> SUFFICES ASSUME TypeOK, Findable(found), InSequence PROVE ExecutionOrder
    OBVIOUS
  <2> DEFINE s == Sorted(found)
  <2>1. /\ s \in Seq(found)
        /\ \A a \in found : \E i \in 1..Len(s) : s[i] = a
        /\ \A i, j \in 1..Len(s) : i < j => ComesFirst(s[i], s[j])
    BY SortedInOrder
  <2>2. /\ Len(calls) \in Nat /\ Len(adms) \in Nat /\ DOMAIN calls = 1..Len(calls)
        /\ \A i \in DOMAIN calls : calls[i].adm \in found
    <3> DEFINE C == [adm : found, got : Seq(found), answer : Answers \cup {Error}]
    <3>1. calls \in Seq(C) /\ adms \in Seq(found) /\ \A call \in C : call.adm \in found
      BY DEF TypeOK
    <3> HIDE DEF C
    <3>2. QED
      BY <3>1, LenProperties, ElementOfSeq
  <2>3. /\ Len(calls) + Len(adms) = Len(s)
        /\ \A i \in 1..Len(calls) : calls[i].adm = s[i]
    BY DEF InSequence
  <2> HIDE DEF s
  <2>4. ASSUME NEW i \in DOMAIN calls, NEW j \in DOMAIN calls, i < j
        PROVE  ComesFirst(calls[i].adm, calls[j].adm)
    <3>1. i \in 1..Len(s) /\ j \in 1..Len(s)
      BY <2>2, <2>3
    <3>2. QED
      BY <2>1, <2>2, <2>3, <2>4, <3>1
  <2>5. ASSUME NEW i \in DOMAIN calls, NEW j \in DOMAIN calls, i < j
        PROVE  \/ /\ AdmNamespaceOf[calls[j].adm] = NoNamespace
                  /\ AdmNamespaceOf[calls[i].adm] # NoNamespace
               \/ /\ AdmNamespaceOf[calls[i].adm] = AdmNamespaceOf[calls[j].adm]
                  /\ NameOrder[calls[i].adm] < NameOrder[calls[j].adm]
    BY <2>4, <2>5 DEF ComesFirst
  <2>6. ASSUME response.verdict = "allowed", calls # <<>>
        PROVE  {calls[i].adm : i \in DOMAIN calls} = found
    <3>1. Len(adms) = 0
      BY <2>6 DEF InSequence
    <3>2. DOMAIN calls = 1..Len(s)
      BY <2>2, <2>3, <3>1
    <3>3. QED
      BY <2>1, <2>2, <2>3, <3>2
  <2>7. QED
    BY <2>5, <2>6 DEF ExecutionOrder
<1>3. TypeOK /\ Findable(found) /\ InSequence /\ [Next]_vars
        => (TypeOK /\ Findable(found) /\ InSequence)'
  BY TypeStep, FindableStep, InSequenceStep
<1>4. QED
  BY <1>1, <1>2, <1>3, PTL DEF Spec

-----------------------------------------------------------------------------
(* PatchTellsAll speaks of requests that are allowed in the end.  Until    *)
(* then what the patch will lead to is object, and the names it will have  *)
(* are mutations; a request that is denied has no use for either.          *)
Told ==
  /\ response.verdict # "denied" => GivenOn(object) /\ NamesAll(mutations)
  /\ response.verdict = "allowed" =>
       response.patch = object /\ response.annotation = mutations

(* Without a call there is no change and no name.                          *)
LEMMA NoCallNoChange ==
  ASSUME TypeOK, calls = <<>>, GivenOn(object), NamesAll(mutations)
  PROVE  object = <<>> /\ mutations = <<>>
<1>1. Len(calls) = 0
  OBVIOUS
<1>2. object = <<>>
  BY <1>1 DEF GivenOn, Given
<1>3. PICK place \in [1..Len(mutations) -> 1..Len(calls)] : TRUE
  BY DEF NamesAll
<1>4. mutations \in Seq(found) /\ Len(mutations) \in Nat
  BY LenProperties DEF TypeOK
<1>5. ~(1 \in 1..Len(mutations))
  BY <1>1, <1>3
<1>6. QED
  BY <1>2, <1>4, <1>5

(* A call that passes hands on what it was given, as Applied says.         *)
LEMMA GivenStep ==
  ASSUME TypeOK, CallCode, GivenOn(object), NEW answer \in Answers \cup {Error},
         calls' = Append(calls, [adm |-> Head(adms), got |-> object, answer |-> answer]),
         CallPassed(answer)
  PROVE  GivenOn(object)'
<1> DEFINE c == [adm |-> Head(adms), got |-> object, answer |-> answer]
<1>1. PICK m \in Nat : m = Len(calls)
  BY LenProperties DEF TypeOK
<1>2. /\ Len(calls') = m + 1 /\ calls'[m + 1] = c
      /\ \A i \in 1..m : calls'[i] = calls[i]
  BY <1>1 DEF TypeOK
<1>3. c.adm = Head(adms) /\ c.got = object /\ c.answer = answer
  OBVIOUS
<1>4. handler' = handler /\ object' = Applied(Head(adms), answer)
  BY DEF CallCode, CallPassed
<1>5. answer.result \in {"absent", "altered", "fresh"}
  <2>1. CASE answer \in Answers
    BY <2>1 DEF Answers
  <2>2. CASE answer = Error
    BY <2>2 DEF Error
  <2>3. QED
    BY <2>1, <2>2
<1> HIDE DEF c
<1>6. ASSUME NEW i \in 1..m + 1 PROVE Given(i, object)' = Given(i, object)
  <2>1. CASE i = m + 1
    <3>1. Given(i, object)' = c.got
      BY <1>2, <2>1 DEF Given
    <3>2. Given(i, object) = object
      BY <1>1, <2>1 DEF Given
    <3>3. QED
      BY <1>3, <3>1, <3>2
  <2>2. CASE i # m + 1
    <3>1. i \in 1..m /\ ~(i > m) /\ ~(i > m + 1)
      BY <1>1, <2>2
    <3>2. QED
      BY <1>1, <1>2, <3>1 DEF Given
  <2>3. QED
    BY <2>1, <2>2
<1>7. Given(1, object)' = <<>>
  BY <1>1, <1>6 DEF GivenOn
<1>8. Given(m + 2, object)' = object'
  BY <1>1, <1>2 DEF Given
<1>9. HandedOn(c) = Applied(Head(adms), answer)
  <2>1. CASE handler = "validate" \/ answer.result = "absent"
    BY <1>3, <2>1 DEF HandedOn, Applied
  <2>2. CASE ~(handler = "validate" \/ answer.result = "absent")
    BY <1>3, <1>5, <2>2 DEF HandedOn, Applied
  <2>3. QED
    BY <2>1, <2>2
<1>10. ASSUME NEW i \in 1..m + 1 PROVE Given(i + 1, object)' = HandedOn(calls[i])'
  <2>1. CASE i = m + 1
    <3>1. HandedOn(calls[i])' = HandedOn(c)
      BY <1>2, <1>4, <2>1 DEF HandedOn
    <3>2. i + 1 = m + 2
      BY <2>1, <1>1
    <3>3. QED
      BY <1>4, <1>8, <1>9, <3>1, <3>2
  <2>2. CASE i # m + 1
    <3>1. i \in 1..m /\ i + 1 \in 1..m + 1 /\ calls'[i] = calls[i]
      BY <1>1, <1>2, <2>2
    <3>2. HandedOn(calls[i])' = HandedOn(calls[i])
      BY <1>4, <3>1 DEF HandedOn
    <3>3. Given(i + 1, object)' = Given(i + 1, object)
      BY <1>6, <3>1
    <3>4. Given(i + 1, object) = HandedOn(calls[i])
      BY <1>1, <3>1 DEF GivenOn
    <3>5. QED
      BY <3>2, <3>3, <3>4
  <2>3. QED
    BY <2>1, <2>2
<1>11. QED
  BY <1>2, <1>7, <1>10 DEF GivenOn

(* ... and is named if it returned a Result.                               *)
LEMMA NamesStep ==
  ASSUME TypeOK, CallCode, NamesAll(mutations), NEW answer \in Answers \cup {Error},
         calls' = Append(calls, [adm |-> Head(adms), got |-> object, answer |-> answer]),
         CallPassed(answer)
  PROVE  NamesAll(mutations)'
<1> DEFINE m == Len(calls)
           n == Len(mutations)
           c == [adm |-> Head(adms), got |-> object, answer |-> answer]
           named == handler = "mutate" /\ answer.result # "absent"
<1>1. /\ m \in Nat /\ Len(calls') = m + 1 /\ calls'[m + 1] = c
      /\ \A i \in 1..m : calls'[i] = calls[i]
  BY LenProperties DEF TypeOK
<1>2. c.adm = Head(adms) /\ c.answer = answer /\ handler' = handler
  BY DEF CallCode
<1>3. n \in Nat /\ mutations \in Seq(found)
  BY LenProperties DEF TypeOK
<1>4. mutations' = IF named THEN Append(mutations, Head(adms)) ELSE mutations
  BY DEF CallPassed
<1>5. PICK place \in [1..n -> 1..m] :
        /\ \A k \in 1..n : mutations[k] = calls[place[k]].adm
        /\ \A k, l \in 1..n : k < l => place[k] < place[l]
        /\ \A i \in 1..m : (\E k \in 1..n : place[k] = i)
                              <=> handler = "mutate" /\ calls[i].answer.result # "absent"
  BY DEF NamesAll
<1> HIDE DEF m, c
<1>6. CASE ~named
  <2>1. mutations' = mutations /\ Len(mutations') = n
    BY <1>4, <1>6
  <2> HIDE DEF n
  <2>2. place \in [1..n -> 1..m + 1]
    BY <1>1, <1>5
  <2>3. \A k \in 1..n : mutations'[k] = calls'[place[k]].adm
    BY <1>1, <1>5, <2>1
  <2>4. ASSUME NEW i \in 1..m + 1
        PROVE  (\E k \in 1..n : place[k] = i)
                 <=> handler' = "mutate" /\ calls'[i].answer.result # "absent"
    <3>1. CASE i = m + 1
      <4>1. ~\E k \in 1..n : place[k] = i
        BY <1>1, <1>5, <3>1
      <4>2. QED
        BY <1>1, <1>2, <1>6, <3>1, <4>1
    <3>2. CASE i # m + 1
      BY <1>1, <1>2, <1>5, <3>2
    <3>3. QED
      BY <3>1, <3>2
  <2>5. /\ place \in [1..Len(mutations') -> 1..Len(calls')]
        /\ \A k \in 1..Len(mutations') : mutations'[k] = calls'[place[k]].adm
        /\ \A k, l \in 1..Len(mutations') : k < l => place[k] < place[l]
        /\ \A i \in 1..Len(calls') : (\E k \in 1..Len(mutations') : place[k] = i)
                              <=> handler' = "mutate" /\ calls'[i].answer.result # "absent"
    BY <1>1, <1>5, <2>1, <2>2, <2>3, <2>4
  <2>6. QED
    BY <2>5 DEF NamesAll
<1>7. CASE named
  <2>1. /\ Len(mutations') = n + 1 /\ mutations'[n + 1] = Head(adms)
        /\ \A k \in 1..n : mutations'[k] = mutations[k]
    BY <1>3, <1>4, <1>7
  <2> DEFINE place2 == [k \in 1..n + 1 |-> IF k = n + 1 THEN m + 1 ELSE place[k]]
  <2> HIDE DEF n
  <2>2. /\ place2 \in [1..n + 1 -> 1..m + 1] /\ place2[n + 1] = m + 1
        /\ \A k \in 1..n : place2[k] = place[k] /\ place[k] \in 1..m
    BY <1>1, <1>3, <1>5
  <2> HIDE DEF place2
  <2>3. ASSUME NEW k \in 1..n + 1 PROVE mutations'[k] = calls'[place2[k]].adm
    <3>1. CASE k = n + 1
      BY <1>1, <1>2, <2>1, <2>2, <3>1
    <3>2. CASE k # n + 1
      <4>1. k \in 1..n
        BY <1>3, <3>2
      <4>2. QED
        BY <1>1, <1>5, <2>1, <2>2, <4>1
    <3>3. QED
      BY <3>1, <3>2
  <2>4. ASSUME NEW k \in 1..n + 1, NEW l \in 1..n + 1, k < l PROVE place2[k] < place2[l]
    <3>1. k \in 1..n
      BY <1>3, <2>4
    <3>2. CASE l = n + 1
      BY <1>1, <2>2, <3>1, <3>2
    <3>3. CASE l # n + 1
      <4>1. l \in 1..n
        BY <1>3, <3>3
      <4>2. QED
        BY <1>5, <2>2, <2>4, <3>1, <4>1
    <3>4. QED
      BY <3>2, <3>3
  <2>5. ASSUME NEW i \in 1..m + 1
        PROVE  (\E k \in 1..n + 1 : place2[k] = i)
                 <=> handler' = "mutate" /\ calls'[i].answer.result # "absent"
    <3>1. CASE i = m + 1
      <4>1. \E k \in 1..n + 1 : place2[k] = i
        BY <1>3, <2>2, <3>1
      <4>2. QED
        BY <1>1, <1>2, <1>7, <3>1, <4>1
    <3>2. CASE i # m + 1
      <4>1. i \in 1..m /\ calls'[i] = calls[i]
        BY <1>1, <3>2
      <4>2. (\E k \in 1..n + 1 : place2[k] = i) <=> (\E k \in 1..n : place[k] = i)
        BY <1>1, <1>3, <2>2, <3>2
      <4>3. QED
        BY <1>2, <1>5, <4>1, <4>2
    <3>3. QED
      BY <3>1, <3>2
  <2>6. /\ place2 \in [1..Len(mutations') -> 1..Len(calls')]
        /\ \A k \in 1..Len(mutations') : mutations'[k] = calls'[place2[k]].adm
        /\ \A k, l \in 1..Len(mutations') : k < l => place2[k] < place2[l]
        /\ \A i \in 1..Len(calls') : (\E k \in 1..Len(mutations') : place2[k] = i)
                              <=> handler' = "mutate" /\ calls'[i].answer.result # "absent"
    BY <1>1, <2>1, <2>2, <2>3, <2>4, <2>5
  <2>7. QED
    BY <2>6 DEF NamesAll
<1>8. QED
  BY <1>6, <1>7

(* Every step keeps it: each Result is recorded with the patch it makes.   *)
LEMMA ToldStep == ASSUME TypeOK, Told, [Next]_vars PROVE Told'
<1>1. CASE ServeFails
  BY <1>1, PlainResponses DEF ServeFails, Told
<1>2. CASE DecodeFails
  <2>1. response = Pending /\ calls = <<>> /\ UNCHANGED <<handler, object, mutations, calls>>
    BY <1>2 DEF DecodeFails
  <2>2. GivenOn(object) /\ NamesAll(mutations)
    BY <2>1, PlainResponses DEF Told
  <2>3. GivenOn(object)' /\ NamesAll(mutations)'
    BY <2>1, <2>2 DEF GivenOn, Given, HandedOn, NamesAll
  <2>4. object' = <<>> /\ mutations' = <<>>
    BY <2>1, <2>2, NoCallNoChange
  <2>5. response' \in {Allow, Deny}
    BY <1>2 DEF DecodeFails
  <2>6. QED
    BY <2>3, <2>4, <2>5, PlainResponses DEF Told
<1>3. CASE CallCode
  <2>1. PICK answer \in Answers \cup {Error} :
          /\ calls' = Append(calls, [adm |-> Head(adms), got |-> object, answer |-> answer])
          /\ CallDenied(answer) \/ CallPassed(answer)
    BY <1>3, OneCall
  <2>2. response = Pending
    BY <1>3 DEF CallCode
  <2>3. CASE CallDenied(answer)
    BY <2>3, PlainResponses DEF CallDenied, Told
  <2>4. CASE CallPassed(answer)
    <3>1. response' = Pending
      BY <2>2, <2>4 DEF CallPassed
    <3>2. GivenOn(object)' /\ NamesAll(mutations)'
      BY <1>3, <2>1, <2>2, <2>4, PlainResponses, GivenStep, NamesStep DEF Told
    <3>3. QED
      BY <3>1, <3>2, PlainResponses DEF Told
  <2>5. QED
    BY <2>1, <2>3, <2>4
<1>4. CASE Respond
  <2>1. response = Pending /\ UNCHANGED <<handler, object, mutations, calls>>
    BY <1>4 DEF Respond
  <2>2. GivenOn(object)' /\ NamesAll(mutations)'
    BY <2>1, PlainResponses DEF GivenOn, Given, HandedOn, NamesAll, Told
  <2>3. \/ response'.patch = object /\ response'.annotation = mutations
        \/ response'.verdict = "denied"
    BY <1>4, PlainResponses DEF Respond, Allow, Pending
  <2>4. QED
    BY <1>4, <2>1, <2>2, <2>3, PlainResponses DEF Told, Respond, Allow, Pending
<1>5. CASE UNCHANGED vars
  BY <1>5 DEF vars, Told, GivenOn, Given, HandedOn, NamesAll
<1>6. QED
  BY <1>1, <1>2, <1>3, <1>4, <1>5 DEF Next

(* Whatever the scripts answer, the patch of an allowed request is where   *)
(* their Results lead, one given to the next, and the annotation names     *)
(* those that returned one, all of them and in order.                      *)
THEOREM PatchTells == Spec => []PatchTellsAll
<1>1. Init => Told
  <2> SUFFICES ASSUME Init PROVE Told
    OBVIOUS
  <2>1. calls = <<>> /\ object = <<>> /\ mutations = <<>> /\ response = Pending
    BY DEF Init
  <2>2. Len(calls) = 0 /\ Len(mutations) = 0
    BY <2>1
  <2>3. GivenOn(object)
    BY <2>1, <2>2 DEF GivenOn, Given
  <2>4. NamesAll(mutations)
    <3> DEFINE place == [k \in 1..0 |-> 0]
    <3>1. place \in [1..0 -> 1..0]
      OBVIOUS
    <3> HIDE DEF place
    <3>2. /\ place \in [1..Len(mutations) -> 1..Len(calls)]
          /\ ~\E k \in 1..Len(mutations) : TRUE
          /\ ~\E i \in 1..Len(calls) : TRUE
      BY <2>2, <3>1
    <3>3. QED
      BY <3>2 DEF NamesAll
  <2>5. QED
    BY <2>1, <2>3, <2>4, PlainResponses DEF Told
<1>2. Told => PatchTellsAll
  BY DEF Told, PatchTellsAll
<1>3. QED
  BY <1>1, <1>2, Types, ToldStep, PTL DEF Spec

=============================================================================
