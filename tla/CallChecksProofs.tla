-------------------------- MODULE CallChecksProofs --------------------------
(* The properties of CallChecks, for every policy, request and interface. *)
EXTENDS CallChecks, TLAPS, WellFoundedInduction

\* What a request has passed: the policy from the lookup of its interface on,
\* and, once SAP is called, the mapping of exactly its own parameters.
Passed ==
    /\ at \in {"interface", "map", "called"} => Authorized
    /\ at = "called" =>
         /\ ~Unknown /\ ~Missing
         /\ call_kwargs = [n \in Known \cap Provided |-> Item(n)]

\* The request is never changed.
Inv == request \in Requests /\ Passed

\* A parameter dictionary is a sequence of items.
LEMMA ParametersAreItems ==
    ASSUME NEW r \in Requests
    PROVE  /\ r.parameters \in Seq(Items)
           /\ \A i \in DOMAIN r.parameters : r.parameters[i].key[1] \in Params
<1>1. r.parameters \in Parameters
  BY DEF Requests
<1>2. PICK n \in 0..MaxKeys : r.parameters \in [1..n -> Items]
  BY <1>1 DEF Parameters, SeqOf
<1>3. r.parameters \in Seq(Items)
  BY <1>2, MaxKeysAssumption
<1>4. \A i \in DOMAIN r.parameters : r.parameters[i] \in Items
  BY <1>2
<1>5. \A i \in DOMAIN r.parameters : r.parameters[i].key \in Params \X Cases
  BY <1>4 DEF Items, Keys
<1> QED
  BY <1>3, <1>5

\* The expressions Passed is made of depend on settings, request and interface.
LEMMA PassedStable ==
    ASSUME UNCHANGED <<settings, request, interface>>
    PROVE  /\ Authorized' = Authorized
           /\ Unknown' = Unknown
           /\ Missing' = Missing
           /\ [n \in Known \cap Provided |-> Item(n)]'
                = [n \in Known \cap Provided |-> Item(n)]
  BY DEF Authorized, TargetTable, FunctionAllowed, Unknown, Missing, Known,
         Provided, Item, LastItem, Spellings

\* Only the lookup of the interface changes it, and the policy does not look
\* at it.
LEMMA AuthorizedStable ==
    ASSUME UNCHANGED <<settings, request>>
    PROVE  Authorized' = Authorized
  BY DEF Authorized, TargetTable, FunctionAllowed, LastItem, Spellings

LEMMA InitInv == Init => Inv
  BY DEF Init, Inv, Passed

LEMMA NextInv == Inv /\ [Next]_vars => Inv'
<1> SUFFICES ASSUME Inv, [Next]_vars PROVE Inv'
  OBVIOUS
<1>1. CASE Authorize
  BY <1>1, AuthorizedStable DEF Authorize, Inv, Passed
<1>2. ASSUME NEW i \in Interfaces, GetInterface(i) PROVE Inv'
  BY <1>2, AuthorizedStable DEF GetInterface, Inv, Passed
<1>3. CASE RefuseParameters
  BY <1>3 DEF RefuseParameters, Inv, Passed
<1>4. CASE MapParameters
  <2>1. call_kwargs' = [n \in Known \cap Provided |-> Item(n)]
    BY <1>4 DEF MapParameters
  <2>2. Authorized /\ ~Unknown /\ ~Missing
    BY <1>4 DEF MapParameters, Inv, Passed
  <2> QED
    BY <1>4, <2>1, <2>2, PassedStable DEF MapParameters, Inv, Passed
<1>5. CASE UNCHANGED vars
  BY <1>5, PassedStable DEF vars, Inv, Passed
<1> QED
  BY <1>1, <1>2, <1>3, <1>4, <1>5 DEF Next

LEMMA Invariance == Spec => []Inv
  BY InitInv, NextInv, PTL DEF Spec

\* The table a generic table reader is called with is the one the policy has
\* checked, however often and in whatever spelling the request names it.
THEOREM CheckedTableRead == Spec => []CheckedTableIsRead
<1>1. Inv => CheckedTableIsRead
  <2> SUFFICES ASSUME Inv, at = "called",
                      request.function \in settings.readers,
                      QueryTable \in DOMAIN call_kwargs
               PROVE  call_kwargs[QueryTable] \notin settings.tableDeny
    BY DEF CheckedTableIsRead
  <2>1. QueryTable \in Known \cap Provided
        /\ call_kwargs[QueryTable] = Item(QueryTable)
    BY DEF Inv, Passed
  <2>2. TargetTable = Item(QueryTable)
    BY <2>1 DEF TargetTable, Item, Provided
  <2> QED
    BY <2>1, <2>2 DEF Inv, Passed, Authorized
<1> QED
  BY <1>1, Invariance, PTL

\* Every parameter that a request names is passed on to SAP, with one value if it
\* is spelled twice, and every one that the interface requires is there.
THEOREM ParametersKept == Spec => []NothingDropped
<1>1. Inv => NothingDropped
  <2> SUFFICES ASSUME Inv, at = "called"
               PROVE  /\ \A i \in DOMAIN request.parameters :
                           request.parameters[i].key[1] \in DOMAIN call_kwargs
                      /\ \A n \in DOMAIN interface :
                           interface[n] = "required" => n \in DOMAIN call_kwargs
    BY DEF NothingDropped
  <2>1. /\ DOMAIN call_kwargs = Known \cap Provided
        /\ Provided \subseteq Known
        /\ \A n \in Known : interface[n] = "required" => n \in Provided
    BY DEF Inv, Passed, Unknown, Missing
  <2>2. ASSUME NEW i \in DOMAIN request.parameters
        PROVE  request.parameters[i].key[1] \in Provided
    BY <2>2, ParametersAreItems DEF Inv, Provided, Spellings
  <2> QED
    BY <2>1, <2>2 DEF Known
<1> QED
  BY <1>1, Invariance, PTL

-----------------------------------------------------------------------------

\* Of a nonempty set of numbers up to a bound, one is the greatest: its
\* distance to the bound is minimal for <, which is well-founded.
LEMMA LessThan ==
    \E R : IsWellFoundedOn(R, Nat) /\ \A x, y \in Nat : <<y, x>> \in R <=> y < x
<1>1. IsWellFoundedOn(OpToRel(<, Nat), Nat)
  BY Zenon, NatLessThanWellFounded
<1>2. \A x, y \in Nat : <<y, x>> \in OpToRel(<, Nat) <=> y < x
  BY Zenon DEF OpToRel
<1> QED
  BY Zenon, <1>1, <1>2

LEMMA Greatest ==
    ASSUME NEW max \in Nat, NEW S \in SUBSET (1..max), S /= {}
    PROVE  \E i \in S : \A j \in S : j <= i
<1> DEFINE T == {max - i : i \in S}
<1>1. T \in SUBSET Nat /\ T /= {}
  <2>1. \A i \in S : max - i \in Nat
    OBVIOUS
  <2>2. PICK i \in S : TRUE
    OBVIOUS
  <2>3. max - i \in T
    BY <2>2
  <2> QED
    BY <2>1, <2>3
<1>2. PICK R : IsWellFoundedOn(R, Nat) /\ \A x, y \in Nat : <<y, x>> \in R <=> y < x
  BY LessThan
<1> HIDE DEF T
<1>3. PICK d \in T : \A e \in T : <<e, d>> \notin R
  BY <1>1, <1>2, WFMin
<1>4. \A e \in T : ~(e < d)
  BY <1>1, <1>2, <1>3
<1>5. PICK i \in S : d = max - i
  BY DEF T
<1>6. \A j \in S : ~(max - j < max - i)
  BY <1>4, <1>5 DEF T
<1> QED
  BY <1>6

\* A parameter that a request names has a last spelling in it, which carries
\* the value.
LEMMA ItemIsValue ==
    ASSUME request \in Requests, NEW n \in Provided
    PROVE  LastItem(n) \in Spellings(n) /\ Item(n) \in Values
<1>1. PICK max \in 0..MaxKeys : request.parameters \in [1..max -> Items]
  BY DEF Requests, Parameters, SeqOf
<1>2. Spellings(n) \in SUBSET (1..max) /\ Spellings(n) /= {} /\ max \in Nat
  BY <1>1, MaxKeysAssumption DEF Spellings, Provided
<1>3. \E i \in Spellings(n) : \A j \in Spellings(n) : j <= i
  BY <1>2, Greatest
<1>4. LastItem(n) \in Spellings(n)
  BY <1>3 DEF LastItem
<1>5. request.parameters[LastItem(n)] \in Items
  BY <1>1, <1>2, <1>4
<1> QED
  BY <1>4, <1>5 DEF Item, Items

\* What a request is checked against and what SAP is called with keep their
\* types: every parameter passed on is one that exists, with a value that the
\* request has for it.
THEOREM TypeCorrect == Spec => []TypeOK
<1>1. Init => TypeOK
  <2>1. NoValues \in [{} -> {"required", "optional"}]
    BY DEF NoValues
  <2>2. {} \in SUBSET Params
    OBVIOUS
  <2>3. NoValues \in Interfaces /\ DOMAIN NoValues = {}
    BY <2>1, <2>2 DEF Interfaces, NoValues
  <2> QED
    BY <2>3 DEF Init, TypeOK
<1>2. ASSUME TypeOK, [Next]_vars PROVE TypeOK'
  <2>1. CASE Authorize
    BY <1>2, <2>1 DEF Authorize, TypeOK
  <2>2. ASSUME NEW i \in Interfaces, GetInterface(i) PROVE TypeOK'
    BY <1>2, <2>2 DEF GetInterface, TypeOK
  <2>3. CASE RefuseParameters
    BY <1>2, <2>3 DEF RefuseParameters, TypeOK
  <2>4. CASE MapParameters
    <3>1. call_kwargs' = [n \in Known \cap Provided |-> Item(n)]
      BY <2>4 DEF MapParameters
    <3>2. \A n \in Known \cap Provided : n \in Params /\ Item(n) \in Values
      BY <1>2, ItemIsValue DEF TypeOK, Provided
    <3> QED
      BY <1>2, <2>4, <3>1, <3>2 DEF MapParameters, TypeOK
  <2>5. CASE UNCHANGED vars
    BY <1>2, <2>5 DEF vars, TypeOK
  <2> QED
    BY <1>2, <2>1, <2>2, <2>3, <2>4, <2>5 DEF Next
<1> QED
  BY <1>1, <1>2, PTL DEF Spec
=============================================================================
