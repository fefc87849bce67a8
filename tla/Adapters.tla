------------------------------ MODULE Adapters ------------------------------
(***************************************************************************)
(* generate of the three provider adapters (providers/*/adapter.py): what  *)
(* becomes of a request, given what the provider's HTTP API answers.  The  *)
(* three differ in the requests that they can translate; in the answers,   *)
(* each asks of its own fields what the others ask of theirs.              *)
(***************************************************************************)
EXTENDS Naturals

CONSTANT Statuses   \* bound: the HTTP statuses of answers

Unreachable == 0    \* in place of a status: httpx raised an HTTPError
RetryableStatuses == {429, 500, 502, 503, 504}

(* A request is special if it has only messages of the system, or a tool   *)
(* call whose arguments are not a JSON object.  OpenAI takes both as they  *)
(* are.                                                                    *)
Requests == {"plain", "special"}
Translates(provider, request) == provider = "openai" \/ request = "plain"

(* Fields of a body, by what is checked of them; usage may be left out.  A *)
(* body that is not a JSON object fails like one without a usable id.      *)
Bodies == [id    : {"given", "missing"},
           text  : {"words", "blank", "invalid"},
           calls : {"none", "valid", "invalid"},
           usage : {"valid", "invalid"}]

Usable(body) ==
    /\ body.id = "given"
    /\ body.text # "invalid" /\ body.calls # "invalid" /\ body.usage # "invalid"
    /\ body.text = "words" \/ body.calls = "valid"

NoBody == [id |-> "missing", text |-> "invalid", calls |-> "none", usage |-> "valid"]
Answers == {[status |-> s, body |-> NoBody] : s \in Statuses \cup {Unreachable}}
           \cup {[status |-> 200, body |-> b] : b \in Bodies}
IsComplete(answer) == answer.status \in 200..399

\* Variant: what cannot be read is taken for a failure that may pass.
OutcomeHopeful(provider, request, answer) ==
    IF ~Translates(provider, request) THEN "final"
    ELSE IF answer.status \in RetryableStatuses \cup {Unreachable} THEN "transient"
    ELSE IF answer.status >= 400 THEN "final"
    ELSE IF Usable(answer.body) THEN "served" ELSE "transient"

(* The response, or a ProviderError that is retryable or is not.           *)
Outcome(provider, request, answer) ==
    IF ~Translates(provider, request) THEN "final"
    ELSE IF answer.status \in RetryableStatuses \cup {Unreachable} THEN "transient"
    ELSE IF answer.status >= 400 THEN "final"
    ELSE IF Usable(answer.body) THEN "served" ELSE "final"
=============================================================================
