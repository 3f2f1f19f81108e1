--------------------------- MODULE SourceReading ---------------------------
(***************************************************************************)
(* The read_abap_source tool: mcp/tools_source.py, with the retries of     *)
(* adt/client.py and the RFC fallback of execution/source_reader.py.       *)
(*                                                                         *)
(* One worker thread serves one request after another.  ADT is tried first *)
(* when it is configured; an ADTError falls back to RFC.  A class is read  *)
(* over RFC in two phases: its include list, then every include.  How each *)
(* HTTP request and each RFC call ends is a free choice: an RFC call that  *)
(* the policy denies is one that fails, and since the policy is fixed and  *)
(* every include is read by the same function, it is the first one.        *)
(***************************************************************************)
EXTENDS Naturals, SequencesExt

CONSTANTS Includes,    \* names of includes
          MaxIncludes, \* bound: includes of a class
          MaxRetries   \* ADTConnectionSettings.max_retries

ASSUME MaxRetriesAssumption == MaxRetries \in Nat
ASSUME MaxIncludesAssumption == MaxIncludes \in Nat

VARIABLES adt,       \* app.adt_client is not None
          at,        \* where the request is
          kind,      \* its object_type
          answers,   \* how the HTTP requests of this read ended
          rfc,       \* _read_via_rfc() was entered
          listed,    \* include_names
          parts      \* parts: <<include, source or note>>

vars == <<adt, at, kind, answers, rfc, listed, parts>>

ObjectTypes == {"program", "class", "function_module"}

\* INCLUDE_TAB of a class pool.
IncludeLists == {s \in SeqOf(Includes, MaxIncludes) : IsInjective(s)}

Init ==
    /\ adt \in BOOLEAN
    /\ at = "idle"
    /\ kind = "program"
    /\ answers = <<>>
    /\ rfc = FALSE
    /\ listed = <<>>
    /\ parts = <<>>

-----------------------------------------------------------------------------
(* The request *)

\* function_group is required for a function module.
Reject ==
    /\ at = "idle"
    /\ kind' = "function_module"
    /\ at' = "rejected"
    /\ UNCHANGED <<adt, answers, rfc, listed, parts>>

Request(k) ==
    /\ at = "idle"
    /\ kind' = k
    /\ at' = IF adt THEN "adt" ELSE "rfc"
    /\ rfc' = ~adt
    /\ UNCHANGED <<adt, answers, listed, parts>>

\* The answer is on its way to the client.
Finish ==
    /\ at \in {"done", "failed", "rejected"}
    /\ at' = "idle"
    /\ kind' = "program"
    /\ answers' = <<>>
    /\ rfc' = FALSE
    /\ listed' = <<>>
    /\ parts' = <<>>
    /\ UNCHANGED adt

-----------------------------------------------------------------------------
(* _get_with_retry() *)

Answered(answer) == answers' = Append(answers, answer)

FallBack == at' = "rfc" /\ rfc' = TRUE    \* except ADTError

RetriesLeftOneMore == Len(answers) <= MaxRetries  \* mutant: one attempt more
RetriesLeft == Len(answers) < MaxRetries          \* attempt < max_retries

AdtServes ==
    /\ at = "adt"
    /\ Answered("ok")
    /\ at' = "done"
    /\ UNCHANGED <<adt, kind, rfc, listed, parts>>

\* Mutant: a 4xx is retried like any other failure.
AdtRefusesRetrying ==
    /\ at = "adt"
    /\ Answered("refused")
    /\ IF RetriesLeft THEN UNCHANGED <<at, rfc>> ELSE FallBack
    /\ UNCHANGED <<adt, kind, listed, parts>>

\* A status below 500 fails the same way every time: it is not retried.
AdtRefuses ==
    /\ at = "adt"
    /\ Answered("refused")
    /\ FallBack
    /\ UNCHANGED <<adt, kind, listed, parts>>

\* Mutant: the last failure starts the attempts over.
AdtUnavailableForever ==
    /\ at = "adt"
    /\ answers' = IF RetriesLeft THEN Append(answers, "unavailable") ELSE <<>>
    /\ UNCHANGED <<adt, at, kind, rfc, listed, parts>>

\* A 5xx or a transport error: again after a pause, or give up.
AdtUnavailable ==
    /\ at = "adt"
    /\ Answered("unavailable")
    /\ IF RetriesLeft THEN UNCHANGED <<at, rfc>> ELSE FallBack
    /\ UNCHANGED <<adt, kind, listed, parts>>

\* Any other exception of httpx, such as DecodingError for a body that does not
\* match its Content-Encoding, is a RequestError but no TransportError: nothing
\* on the way to the client catches it.
AdtBreaks ==
    /\ at = "adt"
    /\ Answered("broken")
    /\ at' = "failed"
    /\ UNCHANGED <<adt, kind, rfc, listed, parts>>

-----------------------------------------------------------------------------
(* source_reader *)

\* The first RFC call: denied, or it raised.
RfcFails ==
    /\ at = "rfc"
    /\ at' = "failed"
    /\ UNCHANGED <<adt, kind, answers, rfc, listed, parts>>

\* read_program_source() and read_function_module_source().
RfcServes ==
    /\ at = "rfc"
    /\ kind /= "class"
    /\ at' = "done"
    /\ UNCHANGED <<adt, kind, answers, rfc, listed, parts>>

\* The class pool and its include list; without includes it is the source.
ListIncludes(names) ==
    /\ at = "rfc"
    /\ kind = "class"
    /\ listed' = names
    /\ at' = IF names = <<>> THEN "done" ELSE "includes"
    /\ UNCHANGED <<adt, kind, answers, rfc, parts>>

NextInclude == listed[Len(parts) + 1]

\* parts.append(), and on to the next include.
AddPart(content) ==
    /\ parts' = Append(parts, <<NextInclude, content>>)
    /\ at' = IF Len(parts) + 1 = Len(listed) THEN "done" ELSE "includes"

IncludeRead ==
    /\ at = "includes"
    /\ AddPart("source")
    /\ UNCHANGED <<adt, kind, answers, rfc, listed>>

\* Mutant: the loop is left at the first include that cannot be read.
IncludeEndsRead ==
    /\ at = "includes"
    /\ parts' = Append(parts, <<NextInclude, "note">>)
    /\ at' = "done"
    /\ UNCHANGED <<adt, kind, answers, rfc, listed>>

\* except SAPError: a note takes the place of the source.
IncludeUnreadable ==
    /\ at = "includes"
    /\ AddPart("note")
    /\ UNCHANGED <<adt, kind, answers, rfc, listed>>

\* Any other error, such as a result over its limit, ends the read.
IncludeFails ==
    /\ at = "includes"
    /\ at' = "failed"
    /\ UNCHANGED <<adt, kind, answers, rfc, listed, parts>>

-----------------------------------------------------------------------------

Adt == AdtServes \/ AdtRefuses \/ AdtUnavailable \/ AdtBreaks

Rfc ==
    \/ RfcFails \/ RfcServes
    \/ \E names \in IncludeLists : ListIncludes(names)
    \/ IncludeRead \/ IncludeUnreadable \/ IncludeFails

Serve == Adt \/ Rfc \/ Finish

Next == Reject \/ (\E k \in ObjectTypes : Request(k)) \/ Serve

\* A request that is being served is served on: HTTP requests and RFC calls
\* end, by a timeout if need be.
Spec == Init /\ [][Next]_vars /\ WF_vars(Serve)

-----------------------------------------------------------------------------
(* Properties *)

TypeOK ==
    /\ adt \in BOOLEAN
    /\ at \in {"idle", "rejected", "adt", "rfc", "includes", "done", "failed"}
    /\ kind \in ObjectTypes
    /\ answers \in SeqOf({"ok", "refused", "unavailable", "broken"}, MaxRetries + 1)
    /\ rfc \in BOOLEAN
    /\ listed \in IncludeLists
    /\ parts \in SeqOf(Includes \X {"source", "note"}, MaxIncludes)

\* ADT is asked again only after a failure that may pass, RFC is used with ADT
\* configured only when ADT refused or had every retry, and a read that ADT
\* served never touched RFC.
AdtFirst ==
    /\ \A i \in 1..(Len(answers) - 1) : answers[i] = "unavailable"
    /\ rfc /\ adt =>
         \/ Last(answers) = "refused"
         \/ Last(answers) = "unavailable" /\ Len(answers) = MaxRetries + 1
    /\ ~rfc /\ at = "done" => Last(answers) = "ok"

\* A class that was read over RFC holds every include SAP listed, once and in
\* SAP's order, the ones that could not be read as a note: an include is never
\* silently missing, and one bad include does not cost the others.
ClassComplete ==
    at = "done" /\ rfc /\ kind = "class" =>
      /\ Len(parts) = Len(listed)
      /\ \A i \in DOMAIN parts : parts[i][1] = listed[i]

\* Every request is answered, whatever ADT and SAP do: the retries and the walk
\* over the includes end.
ReadEnds == at /= "idle" ~> at = "idle"

\* tools_source.py, module docstring: the tool "falls back to RFC automatically
\* on ANY ADT failure ... and only raises if both paths fail".
FallsBack == at = "failed" => rfc
=============================================================================
