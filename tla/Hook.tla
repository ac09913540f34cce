-------------------------------- MODULE Hook ---------------------------------
(***************************************************************************)
(* hook.go: one admission request, served by mutate or validate.  The      *)
(* codes that Find returned are called one after the other; each may deny, *)
(* and in mutate each may replace the object the next one gets.            *)
(*                                                                         *)
(* What a script answers is any value: its Allowed field may be absent or  *)
(* no boolean, its Result absent, made from the object it was given, or    *)
(* made from nothing.  An object is abstracted to the admissions whose     *)
(* changes it carries, in order.                                           *)
(***************************************************************************)
EXTENDS Naturals, SequencesExt

CONSTANTS
  Admissions,      \* the admissions whose code is valid
  AdmNamespaceOf,  \* the namespace of each, NoNamespace if of the cluster
  NameOrder,       \* the place of each one's name in the order of strings
  NoNamespace,
  Failures         \* what may go wrong: "request", "decode", "list", "throw", "patch"

ASSUME HookAssumption ==
  /\ IsFiniteSet(Admissions)
  /\ NameOrder \in [Admissions -> Nat]
  /\ \A a, b \in Admissions :
       AdmNamespaceOf[a] = AdmNamespaceOf[b] /\ NameOrder[a] = NameOrder[b] => a = b
  /\ Failures \subseteq {"request", "decode", "list", "throw", "patch"}

VARIABLES
  handler,    \* "mutate" or "validate"
  found,      \* the admissions whose code applies to the request
  adms,       \* those not called yet, in order
  object,     \* newUObj: the changes it carries
  mutations,  \* the admissions that returned a Result
  calls,      \* history: the calls made, with what each got and answered
  response    \* the AdmissionResponse, or Pending

vars == <<handler, found, adms, object, mutations, calls, response>>

Answers ==
  [allowed : {"true", "false", "no boolean", "absent"},
   result  : {"absent", "altered", "fresh"}]
Error == [allowed |-> "error", result |-> "absent"]

Pending == [verdict |-> "pending", patch |-> <<>>, annotation |-> <<>>]
Allow   == [Pending EXCEPT !.verdict = "allowed"]
Deny    == [Pending EXCEPT !.verdict = "denied"]

(* Find's order: namespace before cluster, then by name.                   *)
ComesFirst(a, b) ==
  IF AdmNamespaceOf[a] = AdmNamespaceOf[b] THEN NameOrder[a] < NameOrder[b]
                                           ELSE AdmNamespaceOf[b] = NoNamespace

(* What sort.Slice leaves: none is less than one before it.                *)
InOrder(list) == \A i, j \in DOMAIN list : i < j => ~ComesFirst(list[j], list[i])

(* Mutants of Sorted: the admissions of all namespaces, and one list in    *)
(* name order.                                                             *)
SortedAll(S) == CHOOSE list \in SetToSeqs(Admissions) : InOrder(list)
SortedByName(S) ==
  CHOOSE list \in SetToSeqs(S) :
    \A i, j \in DOMAIN list : i < j => NameOrder[list[i]] <= NameOrder[list[j]]

Sorted(S) == CHOOSE list \in SetToSeqs(S) : InOrder(list)

(* A request sees one namespace's admissions and the cluster's.            *)
Init ==
  /\ handler \in {"mutate", "validate"}
  /\ found \in {S \in SUBSET Admissions :
                  \A a, b \in S : \/ AdmNamespaceOf[a] = AdmNamespaceOf[b]
                                  \/ NoNamespace \in {AdmNamespaceOf[a], AdmNamespaceOf[b]}}
  /\ adms = Sorted(found)
  /\ object = <<>>
  /\ mutations = <<>>
  /\ calls = <<>>
  /\ response = Pending

(* serve gives up: the content type is wrong, or the body is no review.    *)
(* No usable response is a denial, the webhook's failurePolicy being Fail. *)
ServeFails ==
  /\ "request" \in Failures
  /\ response = Pending /\ calls = <<>>
  /\ response' = Deny
  /\ UNCHANGED <<handler, found, adms, object, mutations, calls>>

(* Without an object to decode (its JSON is empty or has no kind) uObj is  *)
(* nil and the handler panics, which leaves no response either.  An object *)
(* that has items of its own is decoded as a list, and allowed.            *)
DecodeFails ==
  /\ response = Pending /\ calls = <<>> /\ adms # <<>>
  /\ \/ "decode" \in Failures /\ response' = Deny
     \/ "list" \in Failures /\ response' = Allow
  /\ UNCHANGED <<handler, found, adms, object, mutations, calls>>

(* Mutant of Applied: each code gets the object as it was requested.       *)
AppliedToOriginal(a, answer) ==
  IF handler = "validate" \/ answer.result = "absent" THEN object ELSE <<a>>

(* A Result replaces the object; validate looks at Allowed alone.          *)
Applied(a, answer) ==
  IF handler = "validate" \/ answer.result = "absent" THEN object
  ELSE IF answer.result = "altered" THEN Append(object, a)
  ELSE <<a>>

(* Mutant of Denies: an error is passed over.                              *)
DeniesIfFalse(answer) == answer.allowed = "false"

Denies(answer) == answer.allowed \in {"false", "error"}

(* Call the next code; an error and an Allowed that is false end it all.   *)
CallCode ==
  /\ response = Pending
  /\ adms # <<>>
  /\ \E answer \in Answers \cup (IF "throw" \in Failures THEN {Error} ELSE {}) :
       /\ calls' = Append(calls, [adm |-> Head(adms), got |-> object, answer |-> answer])
       /\ IF Denies(answer)
            THEN /\ response' = Deny
                 /\ UNCHANGED <<object, mutations>>
            ELSE /\ object' = Applied(Head(adms), answer)
                 /\ mutations' = IF handler = "mutate" /\ answer.result # "absent"
                                   THEN Append(mutations, Head(adms)) ELSE mutations
                 /\ UNCHANGED response
  /\ adms' = Tail(adms)
  /\ UNCHANGED <<handler, found>>

(* The answer when no code denied: a patch if one returned a Result.       *)
Respond ==
  /\ response = Pending
  /\ adms = <<>>
  /\ \/ response' = [Allow EXCEPT !.patch = object, !.annotation = mutations]
     \/ "patch" \in Failures /\ mutations # <<>> /\ response' = Deny
  /\ UNCHANGED <<handler, found, adms, object, mutations, calls>>

Next == ServeFails \/ DecodeFails \/ CallCode \/ Respond

Spec == Init /\ [][Next]_vars

-----------------------------------------------------------------------------
(* Types of the variables.                                                 *)
TypeOK ==
  /\ handler \in {"mutate", "validate"}
  /\ found \subseteq Admissions
  /\ adms \in Seq(found)
  /\ object \in Seq(found)
  /\ mutations \in Seq(found)
  /\ calls \in Seq([adm : found, got : Seq(found), answer : Answers \cup {Error}])
  /\ response \in [verdict : {"pending", "allowed", "denied"},
                   patch : Seq(found), annotation : Seq(found)]

(* A denial ends the request: no admission is called after one that denied *)
(* or failed, and no other answer overrules it.                            *)
DenialIsFinal ==
  \A i \in DOMAIN calls :
    calls[i].answer.allowed \in {"false", "error"} =>
      i = Len(calls) /\ response.verdict = "denied"

(* src/README.md:381: namespace admissions are executed before cluster     *)
(* admissions, in name order; and a request that is allowed was shown to   *)
(* every admission that applies to it, unless to none (DecodeFails).       *)
ExecutionOrder ==
  /\ \A i, j \in DOMAIN calls :
       i < j => \/ AdmNamespaceOf[calls[j].adm] = NoNamespace
                   /\ AdmNamespaceOf[calls[i].adm] # NoNamespace
                \/ AdmNamespaceOf[calls[i].adm] = AdmNamespaceOf[calls[j].adm]
                   /\ NameOrder[calls[i].adm] < NameOrder[calls[j].adm]
  /\ response.verdict = "allowed" /\ calls # <<>> => {calls[i].adm : i \in DOMAIN calls} = found

(* The object each call was given; after the last one, where it all led.   *)
Given(i, last) == IF i > Len(calls) THEN last ELSE calls[i].got

(* A Result is what a call hands on.                                       *)
HandedOn(call) ==
  IF handler = "validate" \/ call.answer.result = "absent" THEN call.got
  ELSE IF call.answer.result = "fresh" THEN <<call.adm>>
  ELSE Append(call.got, call.adm)

GivenOn(last) ==
  /\ Given(1, last) = <<>>
  /\ \A i \in 1..Len(calls) : Given(i + 1, last) = HandedOn(calls[i])

(* Those that returned a Result, in order: place[k] is the call that gave  *)
(* the k-th name.                                                          *)
NamesAll(names) ==
  \E place \in [1..Len(names) -> 1..Len(calls)] :
    /\ \A k \in 1..Len(names) : names[k] = calls[place[k]].adm
    /\ \A k, l \in 1..Len(names) : k < l => place[k] < place[l]
    /\ \A i \in 1..Len(calls) :
         (\E k \in 1..Len(names) : place[k] = i)
           <=> handler = "mutate" /\ calls[i].answer.result # "absent"

(* src/README.md:181-183, 382: the patch leads to the Result of the last   *)
(* admission that returned one, each having been given the Result of the   *)
(* one before; the annotation names just those, in that order; and         *)
(* validate patches nothing.                                               *)
PatchTellsAll ==
  response.verdict = "allowed" => GivenOn(response.patch) /\ NamesAll(response.annotation)

=============================================================================
