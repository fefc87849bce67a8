--------------------------- MODULE StreamResponse ---------------------------
(***************************************************************************)
(* POST /v1/responses with "stream": true, from the provider's chunks to   *)
(* the client's frames: the stream() of the three provider adapters, the   *)
(* executor between them and CreateResponse.stream, and the generator      *)
(* events() of api/routes/responses.py.  They are one chain of             *)
(* generators, so one coroutine stands at one await of one of them.        *)
(*                                                                         *)
(* Which route is called, how often, and what is reported when none        *)
(* serves, is module ProviderExecutor; here a call that failed before the  *)
(* first event is followed by another one, or is not.                      *)
(***************************************************************************)
EXTENDS Naturals, Sequences

CONSTANTS
    MaxChunks,   \* bound: chunks read from one provider call
    MaxTries,    \* bound: provider calls
    MaxDbFaults  \* bound: database failures

ASSUME StreamAssumption ==
    MaxChunks \in Nat /\ MaxTries \in Nat \ {0} /\ MaxDbFaults \in Nat

VARIABLES
    at,         \* the await the request stands at, or how it ended
    idReused,   \* usage_records has a row with this request's X-Request-ID
    dialect,    \* the provider of the current call
    hasId,      \* the adapter has read a response id
    assembled,  \* the adapter's pieces of text so far
    tokens,     \* the token counts it holds
    sent,       \* pieces of text the client has been sent, as response.delta
    row,        \* usage_records: no row, a row without counts, or with them
    audited,    \* audit_events has the row of this request
    cut,        \* history: the connection of the current call broke off
    chunks, tries, dbFaults  \* what has happened so far

adapter == <<dialect, hasId, assembled, tokens, cut, chunks>>
stores == <<row, audited>>
vars == <<at, idReused, adapter, sent, stores, tries, dbFaults>>

Awaits == {"admit", "open", "read", "usage", "audit"}
Rejections == {"rejected", "refused", "unavailable", "invalid"}
Endings == Rejections \cup {"completed", "error", "aborted", "closed", "crashed"}

(* A piece of text is blank or not: a message must not be.                 *)
Pieces == {"word", "blank"}
IsBlank(pieces) == \A n \in 1..Len(pieces) : pieces[n] = "blank"
Counts == {"input", "output"}

(* What an adapter makes of a chunk: it takes an id, a piece of text or    *)
(* token counts, raises a ProviderError, or passes over it.  A chunk with  *)
(* several of them is read as several chunks, in this order.  An error     *)
(* object that a provider sends in its stream is passed over by all three. *)
AnyProvider == {"id", "invalid", "passed over"} \cup Pieces
OpenAIChunks == AnyProvider \cup {"both", "null"}
AnthropicChunks == AnyProvider \cup Counts
GeminiChunks == AnyProvider \cup {"both"}
Chunks == [openai |-> OpenAIChunks, anthropic |-> AnthropicChunks, gemini |-> GeminiChunks]

TokensAfter(chunk) ==
    CASE chunk = "both"    -> Counts
      [] chunk = "null"    -> {}
      [] chunk \in Counts  -> tokens \cup {chunk}
      [] OTHER             -> tokens

Started == sent # <<>>

Init ==
    /\ at = "admit"
    /\ idReused \in BOOLEAN
    /\ dialect \in DOMAIN Chunks
    /\ hasId = FALSE /\ assembled = <<>> /\ tokens = {} /\ cut = FALSE /\ chunks = 0
    /\ sent = <<>>
    /\ row = "none" /\ audited = FALSE
    /\ tries = 0 /\ dbFaults = 0

-----------------------------------------------------------------------------
(* An Idempotency-Key is rejected, then the rate limit is asked.           *)
Admit ==
    /\ at = "admit"
    /\ at' \in {"open", "rejected"}
    /\ UNCHANGED <<idReused, adapter, sent, stores, tries, dbFaults>>

(* The next provider call; or no route is left that policy and registry    *)
(* allow, or the quota is exceeded.                                        *)
Open ==
    /\ at = "open"
    /\ tries < MaxTries
    /\ tries' = tries + 1
    /\ at' = "read"
    /\ dialect' \in DOMAIN Chunks
    /\ hasId' = FALSE /\ assembled' = <<>> /\ tokens' = {} /\ cut' = FALSE /\ chunks' = 0
    /\ UNCHANGED <<idReused, sent, stores, dbFaults>>

OpenRefused ==
    /\ at = "open"
    /\ at' = "refused"
    /\ UNCHANGED <<idReused, adapter, sent, stores, tries, dbFaults>>

(* A ProviderError: before the first event the executor may call again, or *)
(* the client gets a JSON error; after it, events() sends response.error.  *)
\* Variant: events() lets the ProviderError of a started stream escape.
RaiseEscapes ==
    \/ ~Started /\ at' \in {"open", "unavailable"}
    \/ Started /\ at' = "aborted"

Raise ==
    \/ ~Started /\ at' \in {"open", "unavailable"}
    \/ Started /\ at' = "error"

(* Any other exception: events() does not catch it.                        *)
Escape == at' = IF Started THEN "aborted" ELSE "invalid"

-----------------------------------------------------------------------------
(* The adapter reads a chunk; a piece of text goes to the client at once.  *)
Chunk(c) ==
    /\ at = "read"
    /\ chunks < MaxChunks
    /\ chunks' = chunks + 1
    /\ c \in Chunks[dialect]
    /\ hasId' = (hasId \/ c = "id")
    /\ tokens' = TokensAfter(c)
    /\ \/ /\ c = "invalid" \/ (c \in Pieces /\ ~hasId)
          /\ Raise
          /\ UNCHANGED <<assembled, sent>>
       \/ /\ c \in Pieces /\ hasId
          /\ assembled' = Append(assembled, c)
          /\ sent' = Append(sent, c)
          /\ UNCHANGED at
       \/ /\ c \notin Pieces \cup {"invalid"}
          /\ UNCHANGED <<at, assembled, sent>>
    /\ UNCHANGED <<idReused, dialect, cut, stores, tries, dbFaults>>

(* After the last chunk, the adapter builds the response.  Only Anthropic  *)
(* sends its two counts apart; one without the other is an error.          *)
\* Variant: Anthropic's counts are recorded only if both are there.
IncompletePasses == ~hasId
Incomplete == ~hasId \/ tokens \notin {{}, Counts}

\* Variant: response.completed is sent before the usage row is written.
FinishUnrecorded ==
    \/ Incomplete /\ Raise
    \/ ~Incomplete /\ IsBlank(assembled) /\ Escape
    \/ ~Incomplete /\ ~IsBlank(assembled) /\ at' = "completed"

Finish ==
    \/ Incomplete /\ Raise
    \/ ~Incomplete /\ IsBlank(assembled) /\ Escape
    \/ ~Incomplete /\ ~IsBlank(assembled) /\ at' = "usage"

(* The end of the body, or OpenAI's [DONE], which is not waited for.       *)
EndOfStream ==
    /\ at = "read"
    /\ Finish
    /\ UNCHANGED <<idReused, adapter, sent, stores, tries, dbFaults>>

(* An HTTP status of 400 or more, or an httpx.HTTPError.                   *)
Cut ==
    /\ at = "read"
    /\ cut' = TRUE
    /\ Raise
    /\ UNCHANGED <<idReused, dialect, hasId, assembled, tokens, chunks, sent, stores,
                   tries, dbFaults>>

-----------------------------------------------------------------------------
(* CreateResponse.stream: the usage row, the audit event, and only then    *)
(* the completed response goes on to the client.                           *)
Row == IF tokens = {} THEN "uncounted" ELSE "counted"

RecordUsage ==
    /\ at = "usage"
    /\ ~idReused
    /\ row' = Row
    /\ at' = "audit"
    /\ UNCHANGED <<idReused, adapter, sent, audited, tries, dbFaults>>

RecordUsageFails ==
    /\ at = "usage"
    /\ \/ idReused /\ UNCHANGED <<row, dbFaults>>
       \/ /\ dbFaults < MaxDbFaults
          /\ dbFaults' = dbFaults + 1
          /\ row' \in {row} \cup (IF idReused THEN {} ELSE {Row})
    /\ Escape
    /\ UNCHANGED <<idReused, adapter, sent, audited, tries>>

Audit ==
    /\ at = "audit"
    /\ audited' = TRUE
    /\ at' = "completed"
    /\ UNCHANGED <<idReused, adapter, sent, row, tries, dbFaults>>

AuditFails ==
    /\ at = "audit"
    /\ dbFaults < MaxDbFaults
    /\ dbFaults' = dbFaults + 1
    /\ audited' \in BOOLEAN
    /\ Escape
    /\ UNCHANGED <<idReused, adapter, sent, row, tries>>

-----------------------------------------------------------------------------
(* A client that disconnects is noticed once the response has started, and *)
(* the coroutine is cancelled at its await; a process can end at any.  A   *)
(* commit in progress takes effect or not.                                 *)
Cancel(ending) ==
    /\ at' = ending
    /\ row' \in {row} \cup (IF at = "usage" /\ ~idReused THEN {Row} ELSE {})
    /\ audited' \in {audited} \cup (IF at = "audit" THEN {TRUE} ELSE {})
    /\ UNCHANGED <<idReused, adapter, sent, tries, dbFaults>>

Disconnect == at \in Awaits /\ Started /\ Cancel("closed")
Crash == at \in Awaits /\ Cancel("crashed")

Idle == at \in Endings /\ UNCHANGED vars

Next ==
    \/ Admit \/ Open \/ OpenRefused
    \/ (\E c \in UNION {Chunks[d] : d \in DOMAIN Chunks} : Chunk(c))
    \/ EndOfStream \/ Cut
    \/ RecordUsage \/ RecordUsageFails \/ Audit \/ AuditFails
    \/ Disconnect \/ Crash \/ Idle

Spec == Init /\ [][Next]_vars

-----------------------------------------------------------------------------
(* Properties.                                                             *)
TypeOK ==
    /\ at \in Awaits \cup Endings
    /\ idReused \in BOOLEAN
    /\ dialect \in DOMAIN Chunks
    /\ hasId \in BOOLEAN
    /\ assembled \in Seq(Pieces)
    /\ tokens \in SUBSET Counts
    /\ sent \in Seq(Pieces)
    /\ row \in {"none", "uncounted", "counted"}
    /\ audited \in BOOLEAN
    /\ cut \in BOOLEAN
    /\ chunks \in 0..MaxChunks
    /\ tries \in 0..MaxTries
    /\ dbFaults \in 0..MaxDbFaults

(* response.completed carries the text the client was sent piece by piece, *)
(* whatever calls failed before, and it is billed and audited by then, as  *)
(* the docstring of CreateResponse.stream has it: a client that goes away  *)
(* at the event has been billed.  docs/foundation/api-design.md puts the   *)
(* row after the event; the code writes it first.                          *)
CompletedIsStreamedAndBilled ==
    at = "completed" => /\ sent = assembled
                        /\ row = Row
                        /\ audited

(* What is billed is a stream its provider ended: no call that broke off,  *)
(* none whose client was told response.error or got a JSON error, and no   *)
(* Anthropic stream that stopped between its two token counts.             *)
BilledStreamIsWhole ==
    row # "none" => /\ ~cut
                    /\ at \notin Rejections \cup {"error"}
                    /\ dialect = "anthropic" => tokens \in {{}, Counts}

(* A started stream that ends without any last event has given its client  *)
(* all of a response that its provider brought to an end: it is blank, or  *)
(* only its recording failed.  It is billed although it failed only if a   *)
(* database failure came with the row or after it, and never without text; *)
(* and it is audited only if it is billed.                                 *)
AbortedStreamIsWhole ==
    at = "aborted" =>
        /\ sent = assembled /\ ~cut /\ ~Incomplete
        /\ IsBlank(assembled) \/ idReused \/ dbFaults > 0
        /\ row # "none" => ~IsBlank(assembled) /\ ~idReused /\ dbFaults > 0
        /\ audited => row # "none"

-----------------------------------------------------------------------------
(* ADR 0004: "After the first SSE frame, failures are emitted as           *)
(* event: response.error."  A started stream that fails while its client   *)
(* and its process are there ends with that event.                         *)
FailureIsReported == Started => at # "aborted"
=============================================================================
