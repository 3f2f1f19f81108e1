------------------------- MODULE SourceReadingProofs -------------------------
(* The safety properties of SourceReading, for any classes and any number of    *)
(* retries.                                                                     *)
EXTENDS SourceReading, TLAPS, SequenceTheorems

USE MaxRetriesAssumption, MaxIncludesAssumption

Answers == {"ok", "refused", "unavailable", "broken"}
Parts == Includes \X {"source", "note"}

\* A request that is not under way has left nothing behind.
IdleInv ==
    at \in {"idle", "rejected"} =>
      ~rfc /\ answers = <<>> /\ listed = <<>> /\ parts = <<>>

\* While ADT is asked, every answer so far may pass, and there is an attempt
\* left; RFC has not been touched.
RetryInv ==
    /\ at = "adt" =>
         /\ adt /\ ~rfc
         /\ Len(answers) <= MaxRetries
         /\ \A i \in 1..Len(answers) : answers[i] = "unavailable"
    /\ at \in {"adt", "rfc"} => listed = <<>> /\ parts = <<>>
    /\ at \in {"rfc", "includes"} => rfc

\* The parts follow the list of the includes and are never ahead of it.
PartsInv ==
    /\ Len(parts) <= Len(listed)
    /\ \A i \in 1..Len(parts) : parts[i][1] = listed[i]
    /\ at = "includes" => Len(parts) < Len(listed)
    /\ at = "done" /\ rfc /\ kind = "class" => Len(parts) = Len(listed)

Inv == TypeOK /\ IdleInv /\ RetryInv /\ AdtFirst /\ PartsInv

-----------------------------------------------------------------------------
(* Bounded sequences *)

LEMMA BoundedSequence ==
    ASSUME NEW S, NEW n \in Nat, NEW s
    PROVE  s \in SeqOf(S, n) <=> s \in Seq(S) /\ Len(s) <= n
<1>1. ASSUME s \in SeqOf(S, n) PROVE s \in Seq(S) /\ Len(s) <= n
  <2>1. PICK m \in 0..n : s \in [1..m -> S]
    BY <1>1 DEF SeqOf
  <2> QED
    BY <2>1
<1>2. ASSUME s \in Seq(S), Len(s) <= n PROVE s \in SeqOf(S, n)
  <2>1. s \in [1..Len(s) -> S] /\ Len(s) \in 0..n
    BY <1>2
  <2> QED
    BY <2>1 DEF SeqOf
<1> QED
  BY <1>1, <1>2

\* TypeOK without the bounds of the sequences.
LEMMA Typed ==
    TypeOK <=>
      /\ adt \in BOOLEAN
      /\ at \in {"idle", "rejected", "adt", "rfc", "includes", "done", "failed"}
      /\ kind \in ObjectTypes
      /\ answers \in Seq(Answers) /\ Len(answers) <= MaxRetries + 1
      /\ rfc \in BOOLEAN
      /\ listed \in Seq(Includes) /\ Len(listed) <= MaxIncludes /\ IsInjective(listed)
      /\ parts \in Seq(Parts) /\ Len(parts) <= MaxIncludes
<1>1. answers \in SeqOf(Answers, MaxRetries + 1)
        <=> answers \in Seq(Answers) /\ Len(answers) <= MaxRetries + 1
  BY BoundedSequence
<1>2. parts \in SeqOf(Parts, MaxIncludes) <=> parts \in Seq(Parts) /\ Len(parts) <= MaxIncludes
  BY BoundedSequence
<1>3. listed \in SeqOf(Includes, MaxIncludes)
        <=> listed \in Seq(Includes) /\ Len(listed) <= MaxIncludes
  BY BoundedSequence
<1> QED
  BY <1>1, <1>2, <1>3 DEF TypeOK, Answers, Parts, IncludeLists

\* The same of the next state.
LEMMA TypedNext ==
    ASSUME adt' \in BOOLEAN,
           at' \in {"idle", "rejected", "adt", "rfc", "includes", "done", "failed"},
           kind' \in ObjectTypes,
           answers' \in Seq(Answers), Len(answers') <= MaxRetries + 1,
           rfc' \in BOOLEAN,
           listed' \in Seq(Includes), Len(listed') <= MaxIncludes, IsInjective(listed'),
           parts' \in Seq(Parts), Len(parts') <= MaxIncludes
    PROVE  TypeOK'
<1>1. answers' \in SeqOf(Answers, MaxRetries + 1) /\ parts' \in SeqOf(Parts, MaxIncludes)
      /\ listed' \in SeqOf(Includes, MaxIncludes)
  BY BoundedSequence
<1> QED
  BY <1>1 DEF TypeOK, Answers, Parts, IncludeLists

\* Nothing is read yet.
LEMMA NothingRead ==
    /\ <<>> \in Seq(Answers) /\ <<>> \in Seq(Includes) /\ <<>> \in Seq(Parts)
    /\ Len(<<>>) = 0 /\ DOMAIN <<>> = {} /\ IsInjective(<<>>)
<1>1. /\ <<>> \in Seq(Answers) /\ <<>> \in Seq(Includes) /\ <<>> \in Seq(Parts)
      /\ Len(<<>>) = 0 /\ DOMAIN <<>> = {}
  BY EmptySeq
<1> QED
  BY <1>1 DEF IsInjective

-----------------------------------------------------------------------------
(* The steps *)

LEMMA InitInv == Init => Inv
<1> SUFFICES ASSUME Init PROVE Inv
  OBVIOUS
<1>1. TypeOK
  <2>1. adt \in BOOLEAN /\ rfc \in BOOLEAN
    BY Zenon DEF Init
  <2>2. /\ at = "idle" /\ kind \in ObjectTypes
        /\ answers = <<>> /\ listed = <<>> /\ parts = <<>>
    BY DEF Init, ObjectTypes
  <2>3. 0 <= MaxRetries + 1 /\ 0 <= MaxIncludes
    OBVIOUS
  <2> QED
    BY <2>1, <2>2, <2>3, NothingRead, Typed
<1>2. IdleInv /\ RetryInv /\ AdtFirst /\ PartsInv
  BY NothingRead DEF Init, IdleInv, RetryInv, AdtFirst, PartsInv
<1> QED
  BY <1>1, <1>2 DEF Inv

LEMMA RequestInv ==
    ASSUME Inv, Reject \/ Finish \/ \E k \in ObjectTypes : Request(k)
    PROVE  Inv'
<1>1. /\ adt \in BOOLEAN /\ adt' = adt /\ kind' \in ObjectTypes
      /\ answers' = <<>> /\ listed' = <<>> /\ parts' = <<>>
      /\ \/ at' \in {"idle", "rejected"} /\ rfc' = FALSE
         \/ at' = "adt" /\ adt /\ rfc' = FALSE
         \/ at' = "rfc" /\ ~adt /\ rfc' = TRUE
  BY Typed DEF Inv, IdleInv, Reject, Finish, Request, ObjectTypes
<1>2. TypeOK'
  <2>1. adt' \in BOOLEAN /\ rfc' \in BOOLEAN
    BY Zenon, <1>1
  <2>2. 0 <= MaxRetries + 1 /\ 0 <= MaxIncludes
    OBVIOUS
  <2>3. at' \in {"idle", "rejected", "adt", "rfc", "includes", "done", "failed"}
    BY <1>1
  <2> QED
    BY <1>1, <2>1, <2>2, <2>3, NothingRead, TypedNext
<1>3. IdleInv' /\ RetryInv' /\ AdtFirst' /\ PartsInv'
  BY <1>1, NothingRead DEF IdleInv, RetryInv, AdtFirst, PartsInv
<1> QED
  BY <1>2, <1>3 DEF Inv

\* One more answer of ADT.
LEMMA AnsweredInv ==
    ASSUME Inv, at = "adt", NEW answer \in Answers, Answered(answer),
           UNCHANGED <<adt, kind, listed, parts>>
    PROVE  /\ answers' \in Seq(Answers) /\ Len(answers') = Len(answers) + 1
           /\ Len(answers') \in 1..(MaxRetries + 1)
           /\ answers'[Len(answers')] = answer
           /\ \A i \in 1..(Len(answers') - 1) : answers'[i] = "unavailable"
           /\ adt /\ ~rfc /\ listed' = <<>> /\ parts' = <<>>
<1>1. /\ answers \in Seq(Answers) /\ Len(answers) \in Nat /\ Len(answers) <= MaxRetries
      /\ \A i \in 1..Len(answers) : answers[i] = "unavailable"
      /\ adt /\ ~rfc /\ listed = <<>> /\ parts = <<>>
  BY Typed DEF Inv, RetryInv
<1> QED
  BY <1>1 DEF Answered

LEMMA AdtInv ==
    ASSUME Inv, Adt
    PROVE  Inv'
<1>1. PICK answer \in Answers :
        /\ at = "adt" /\ Answered(answer)
        /\ UNCHANGED <<adt, kind, listed, parts>>
        /\ \/ answer = "ok" /\ at' = "done" /\ rfc' = rfc
           \/ answer = "refused" /\ at' = "rfc" /\ rfc' = TRUE
           \/ answer = "unavailable" /\ Len(answers) < MaxRetries /\ at' = at /\ rfc' = rfc
           \/ answer = "unavailable" /\ ~(Len(answers) < MaxRetries) /\ at' = "rfc" /\ rfc' = TRUE
           \/ answer = "broken" /\ at' = "failed" /\ rfc' = rfc
  <2>1. CASE AdtServes \/ AdtRefuses \/ AdtBreaks
    BY <2>1 DEF AdtServes, AdtRefuses, AdtBreaks, FallBack, Answers
  <2>2. CASE AdtUnavailable
    BY <2>2 DEF AdtUnavailable, FallBack, RetriesLeft, Answers
  <2> QED
    BY <2>1, <2>2 DEF Adt
<1>2. /\ answers' \in Seq(Answers) /\ Len(answers') = Len(answers) + 1
      /\ Len(answers') \in 1..(MaxRetries + 1)
      /\ answers'[Len(answers')] = answer
      /\ \A i \in 1..(Len(answers') - 1) : answers'[i] = "unavailable"
      /\ adt /\ ~rfc /\ listed' = <<>> /\ parts' = <<>>
  BY <1>1, AnsweredInv
<1>3. Len(answers) \in Nat /\ kind \in ObjectTypes /\ adt \in BOOLEAN /\ rfc \in BOOLEAN
  BY Typed DEF Inv
<1>4. TypeOK'
  <2>1. adt' \in BOOLEAN /\ rfc' \in BOOLEAN
    BY Zenon, <1>1, <1>3
  <2>2. 0 <= MaxIncludes /\ Len(answers') <= MaxRetries + 1
    BY <1>2
  <2>3. at' \in {"idle", "rejected", "adt", "rfc", "includes", "done", "failed"}
    BY <1>1
  <2> QED
    BY <1>1, <1>2, <1>3, <2>1, <2>2, <2>3, NothingRead, TypedNext
<1>5. \A i \in 1..Len(answers') : i \in 1..(Len(answers') - 1) \/ i = Len(answers')
  BY <1>2
<1>6. RetryInv'
  BY <1>1, <1>2, <1>3, <1>5 DEF RetryInv
<1>7. AdtFirst'
  BY <1>1, <1>2, <1>3 DEF AdtFirst, Last
<1>8. IdleInv' /\ PartsInv'
  BY <1>1, <1>2, NothingRead DEF IdleInv, PartsInv
<1> QED
  BY <1>4, <1>6, <1>7, <1>8 DEF Inv

LEMMA RfcInv ==
    ASSUME Inv, RfcFails \/ RfcServes \/ IncludeFails
                \/ \E names \in IncludeLists : ListIncludes(names)
    PROVE  Inv'
<1>1. /\ UNCHANGED <<adt, kind, answers, rfc, parts>> /\ rfc
      /\ \/ at' = "failed" /\ listed' = listed
         \/ at' = "done" /\ kind /= "class" /\ listed' = listed
         \/ /\ listed' \in IncludeLists /\ parts = <<>>
            /\ at' = IF listed' = <<>> THEN "done" ELSE "includes"
  BY DEF Inv, RetryInv, RfcFails, RfcServes, IncludeFails, ListIncludes
<1>2. /\ listed' \in Seq(Includes) /\ Len(listed') <= MaxIncludes /\ IsInjective(listed')
      /\ Len(listed') \in Nat
  <2>1. CASE listed' = listed
    BY <2>1, Typed DEF Inv
  <2>2. CASE listed' \in IncludeLists
    BY <2>2, BoundedSequence DEF IncludeLists
  <2> QED
    BY <1>1, <2>1, <2>2
<1>3. TypeOK'
  <2>1. /\ adt \in BOOLEAN /\ kind \in ObjectTypes /\ answers \in Seq(Answers)
        /\ Len(answers) <= MaxRetries + 1 /\ rfc \in BOOLEAN
        /\ parts \in Seq(Parts) /\ Len(parts) <= MaxIncludes
    BY Typed DEF Inv
  <2> QED
    BY <1>1, <1>2, <2>1, TypedNext
<1>4. IdleInv' /\ RetryInv' /\ AdtFirst'
  BY <1>1 DEF Inv, IdleInv, RetryInv, AdtFirst
<1>5. PartsInv'
  <2>1. CASE listed' = listed
    BY <1>1, <2>1 DEF Inv, PartsInv
  <2>2. CASE parts = <<>>
    <3>1. Len(parts) = 0 /\ (listed' /= <<>> => Len(listed') > 0)
      BY <1>2, <2>2, EmptySeq, NothingRead
    <3> QED
      BY <1>1, <1>2, <2>2, <3>1, NothingRead DEF PartsInv
  <2> QED
    BY <1>1, <2>1, <2>2
<1> QED
  BY <1>3, <1>4, <1>5 DEF Inv

LEMMA PartInv ==
    ASSUME Inv, IncludeRead \/ IncludeUnreadable
    PROVE  Inv'
<1>1. PICK content \in {"source", "note"} :
        at = "includes" /\ AddPart(content) /\ UNCHANGED <<adt, kind, answers, rfc, listed>>
  BY DEF IncludeRead, IncludeUnreadable
<1>2. /\ adt \in BOOLEAN /\ kind \in ObjectTypes /\ answers \in Seq(Answers)
      /\ Len(answers) <= MaxRetries + 1 /\ rfc \in BOOLEAN
      /\ listed \in Seq(Includes) /\ Len(listed) <= MaxIncludes /\ IsInjective(listed)
      /\ parts \in Seq(Parts) /\ Len(parts) < Len(listed) /\ rfc
      /\ Len(parts) \in Nat /\ Len(listed) \in Nat
  BY <1>1, Typed DEF Inv, PartsInv, RetryInv
<1> DEFINE part == <<listed[Len(parts) + 1], content>>
<1>3. part \in Parts /\ part[1] = listed[Len(parts) + 1]
  <2>1. listed[Len(parts) + 1] \in Includes
    BY <1>2
  <2> QED
    BY <2>1 DEF Parts
<1>4. parts' = Append(parts, part)
      /\ at' = IF Len(parts) + 1 = Len(listed) THEN "done" ELSE "includes"
  BY <1>1 DEF AddPart, NextInclude
<1> HIDE DEF part
<1>5. /\ parts' \in Seq(Parts) /\ Len(parts') = Len(parts) + 1
      /\ \A i \in 1..Len(parts) : parts'[i] = parts[i]
      /\ parts'[Len(parts) + 1] = part
  BY <1>2, <1>3, <1>4
<1>6. TypeOK'
  BY <1>1, <1>2, <1>4, <1>5, TypedNext
<1>7. IdleInv' /\ RetryInv' /\ AdtFirst'
  BY <1>1, <1>2, <1>4 DEF Inv, IdleInv, RetryInv, AdtFirst
<1>8. PartsInv'
  <2>1. \A i \in 1..Len(parts') : i \in 1..Len(parts) \/ i = Len(parts) + 1
    BY <1>2, <1>5
  <2>2. \A i \in 1..Len(parts') : parts'[i][1] = listed[i]
    BY <1>3, <1>5, <2>1 DEF Inv, PartsInv
  <2> QED
    BY <1>1, <1>2, <1>4, <1>5, <2>2 DEF PartsInv
<1> QED
  BY <1>6, <1>7, <1>8 DEF Inv

LEMMA StepInv == Inv /\ [Next]_vars => Inv'
<1> SUFFICES ASSUME Inv, [Next]_vars PROVE Inv'
  OBVIOUS
<1>1. CASE UNCHANGED vars
  BY <1>1 DEF vars, Inv, TypeOK, IdleInv, RetryInv, AdtFirst, PartsInv
<1> QED
  BY <1>1, RequestInv, AdtInv, RfcInv, PartInv DEF Next, Serve, Rfc

LEMMA Invariance == Spec => []Inv
  BY InitInv, StepInv, PTL DEF Spec

-----------------------------------------------------------------------------
(* The properties *)

\* The answers, the include list and the parts have their types, and are within
\* their bounds: the retry loop of _get_with_retry() makes max_retries + 1
\* attempts at most.
THEOREM TypeCorrect == Spec => []TypeOK
<1>1. Inv => TypeOK
  BY DEF Inv
<1> QED
  BY <1>1, Invariance, PTL

\* RFC takes over from ADT only where read_abap_source means it to: after a
\* refusal or after the last retry.
THEOREM AdtComesFirst == Spec => []AdtFirst
<1>1. Inv => AdtFirst
  BY DEF Inv
<1> QED
  BY <1>1, Invariance, PTL

\* read_class_source() returns a part for every include SAP listed, in order.
THEOREM ClassesComplete == Spec => []ClassComplete
<1>1. Inv => ClassComplete
  <2>1. Inv => DOMAIN parts = 1..Len(parts)
    BY Typed DEF Inv
  <2> QED
    BY <2>1 DEF Inv, PartsInv, ClassComplete
<1> QED
  BY <1>1, Invariance, PTL
=============================================================================
