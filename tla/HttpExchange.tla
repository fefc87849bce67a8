---------------------------- MODULE HttpExchange ----------------------------
(***************************************************************************)
(* One call of the Python SDK (AIRuntime.responses and .prompts) and the   *)
(* request it makes of the API: the SDK's checks, head, body and errors;   *)
(* the connection between the two, with the load balancer on it; and the   *)
(* layers around a route in the server: ServerErrorMiddleware,             *)
(* RequestContextMiddleware, the exception handlers, the door of           *)
(* api/dependencies.py, and events() of a streamed response.               *)
(*                                                                         *)
(* What a route does inside is modelled elsewhere (CreateResponse,         *)
(* StreamResponse, Preparation, ApiKeys); here it succeeds, raises one of  *)
(* its errors, or raises something that nobody handles.                    *)
(***************************************************************************)
EXTENDS EventStream

CONSTANTS
    Pieces,     \* pieces of text a provider may produce
    MaxDeltas   \* bound: response.delta events of one stream

ASSUME ExchangeAssumption == MaxDeltas \in Nat \ {0}

VARIABLES
    call,     \* the SDK call: its method and arguments
    at,       \* the point of the SDK the call has reached
    parser,   \* its SseParser
    read,     \* lines of the stream it has read
    given,    \* what its caller has been given
    outcome,  \* how the call ended for its caller
    link,     \* the connection: up, silent, broken, closed by the SDK, or
              \* answered by the load balancer
    page,     \* that answer, or NoPage
    srv,      \* the point of the server the request has reached
    id,       \* the correlation id that was given to it
    failure,  \* the error that its route has raised
    status,   \* status_code of RequestContextMiddleware
    head,     \* the response head that was sent
    produced, \* the frames or the body that were sent
    ended,    \* the last part of the body was sent
    logged    \* the statuses of its request_completed records

client == <<at, parser, read, given, outcome>>
network == <<link, page>>
server == <<srv, id, failure, status, head, produced, ended, logged>>
vars == <<call, client, network, server>>

-----------------------------------------------------------------------------
(* The call.  "malformed" stands for an X-Request-ID or Idempotency-Key    *)
(* that the API's pattern does not match.                                  *)
ResponseCalls ==
    [method : {"create", "stream"},
     input : {"messages", "prompt", "both", "neither", "empty"},
     tools : BOOLEAN,
     key : {"absent", "fit", "malformed"},
     requestId : {"absent", "fit", "malformed"}]

(* The input of list() is a name: one that validate_prompt_name accepts or *)
(* not, or, quoted in the path, one that the server finds to be no segment *)
(* of it (an empty one) or several ("a/b").                                *)
PromptInputs(method) ==
    IF method = "create_prompt" THEN {"messages", "empty"}
    ELSE {"fit name", "unfit name", "no segment", "several segments"}

PromptCalls ==
    UNION {[method : {m}, input : PromptInputs(m), tools : {FALSE}, key : {"absent"},
            requestId : {"absent", "fit", "malformed"}] : m \in {"create_prompt", "list_prompts"}}

(* stream() takes no idempotency_key.                                      *)
SdkCalls ==
    PromptCalls \cup {c \in ResponseCalls : c.method = "stream" => c.key = "absent"}

(* build_response_payload, build_prompt_payload; list sends no body.       *)
Buildable(c) == c.method # "list_prompts" => c.input \in {"messages", "prompt"}

(* GenerationRequest and _parse_idempotency_key refuse these with 422,     *)
(* after the request has been prepared; validate_prompt_name at once.      *)
Refused(c) ==
    \/ c.method = "stream" /\ c.tools
    \/ c.key = "malformed"
    \/ c.input = "unfit name"

(* What the router makes of a path that is none of the API's: it redirects *)
(* to the path without the last slash, or finds nothing.  (No call has the *)
(* wrong method for its path.)                                             *)
Routable(c) == c.input \notin {"no segment", "several segments"}

(* resolve_request_id                                                      *)
ResolveRequestId(c) == IF c.requestId = "fit" THEN "client's id" ELSE "generated id"

(* The exceptions of a request and what their handlers make of them.       *)
Failure(s, code) == [status |-> s, code |-> code]
NoFailure == Failure(0, "none")
InvalidRequest == Failure(422, "invalid_request")
Unexpected == Failure(500, "internal_error")

AtTheDoor == {Failure(401, "unauthorized"), Failure(403, "forbidden"), InvalidRequest}
NotFound == Failure(404, "prompt_not_found")
OfCreation == {Failure(409, "conflict"), InvalidRequest}
OfPreparation == {NotFound, Failure(422, "context_length_exceeded"), InvalidRequest}
OfGeneration == {Failure(429, "rate_limited"), Failure(429, "quota_exceeded"),
                 Failure(403, "model_not_available"), Failure(400, "unsupported_model"),
                 Failure(409, "conflict"), Failure(502, "provider_error"),
                 Failure(503, "provider_error"), InvalidRequest}
Redirected == Failure(307, "redirected")
NotRouted == Failure(404, "not routed")
OfRouter(c) == IF c.input = "no segment" THEN Redirected ELSE NotRouted
Failures == {Redirected, NotRouted, Unexpected}
            \cup AtTheDoor \cup OfCreation \cup OfPreparation \cup OfGeneration

FailuresOf(c) ==
    CASE c.method = "create_prompt" -> OfCreation
      [] c.method = "list_prompts"  -> {IF Refused(c) THEN InvalidRequest ELSE NotFound}
      [] OTHER -> (OfPreparation \ (IF c.input = "prompt" THEN {} ELSE {NotFound}))
                  \cup (IF Refused(c) THEN {} ELSE OfGeneration)

HeadOf(s, type) == [status |-> s, type |-> type, id |-> id, retryAfter |-> s = 429]
NoHead == [status |-> 0, type |-> "none", id |-> NoId, retryAfter |-> FALSE]
PageHead == [status |-> page.status, type |-> "page", id |-> NoId, retryAfter |-> FALSE]

Completed == Len(produced) > 0 /\ produced[Len(produced)].event = "response.completed"
TextOf(frames) == [n \in 1..Len(frames) |-> frames[n].body.text[1]]

Pages == [status : {200, 503}, body : {Page, GarbledPage}]
NoPage == [status |-> 0, body |-> Page]

NotYet == [kind |-> "none"]
Waiting == {"head", "body", "events"}
Working == {"door", "route", "answer", "answer body", "events", "end", "teardown",
            "outer", "outer body"}
Over == {"done", "aborted", "left", "crashed", "hung"}

Init ==
    /\ call \in SdkCalls
    /\ at = "calling" /\ parser = Fresh /\ read = 0 /\ given = <<>> /\ outcome = NotYet
    /\ link = "up" /\ page = NoPage
    /\ srv = "away" /\ id = NoId /\ failure = NoFailure
    /\ status = 500
    /\ head = NoHead /\ produced = <<>> /\ ended = FALSE /\ logged = <<>>

-----------------------------------------------------------------------------
(* The server.  The request reaches it, even if the call has ended.        *)
Receive ==
    /\ srv = "away" /\ at # "calling"
    /\ outcome.kind # "refused"
    /\ id' = ResolveRequestId(call)
    /\ srv' = "door"
    /\ UNCHANGED <<call, client, network, failure, status, head, produced, ended, logged>>

(* log_request_completed                                                   *)
\* Variant: it counts on being called once.
LogTwice(code) == logged' = Append(logged, code)
Log(code) == logged' = IF logged = <<>> THEN Append(logged, code) ELSE logged

Raise(f) ==
    /\ failure' = f
    /\ srv' = "answer"
    /\ UNCHANGED <<id, status, head, produced, ended, logged>>

(* No handler below RequestContextMiddleware takes the exception: it logs  *)
(* the request, and ServerErrorMiddleware answers it.                      *)
Escape ==
    /\ failure' = Unexpected
    /\ srv' = "outer"
    /\ Log(status)
    /\ UNCHANGED <<id, status, head, produced, ended>>

(* The router answers before any code of the API, and below the middleware *)
(* that gives the answer its id and logs it.                               *)
Misroute ==
    /\ srv = "door" /\ ~Routable(call)
    /\ Raise(OfRouter(call))
    /\ UNCHANGED <<call, client, network>>

(* get_authenticated_principal and the validation of the body              *)
Door ==
    /\ srv = "door" /\ Routable(call)
    /\ \/ \E f \in AtTheDoor : Raise(f)
       \/ Escape
       \/ srv' = "route" /\ UNCHANGED <<id, failure, status, head, produced, ended, logged>>
    /\ UNCHANGED <<call, client, network>>

(* The route.  A streamed response is begun only when its first event is   *)
(* there, which is a piece of text.                                        *)
RouteFails ==
    /\ srv = "route"
    /\ \/ \E f \in FailuresOf(call) : Raise(f)
       \/ Escape
    /\ UNCHANGED <<call, client, network>>

RouteSucceeds ==
    /\ srv = "route"
    /\ ~Refused(call)
    /\ srv' = "answer"
    /\ UNCHANGED <<call, client, network, id, failure, status, head, produced, ended, logged>>

(* http.response.start, through send_with_request_id or around it.         *)
Streams == call.method = "stream" /\ failure = NoFailure
Success == HeadOf(IF call.method = "create_prompt" THEN 201 ELSE 200,
                  IF Streams THEN "events" ELSE "json")

SendHead ==
    /\ srv = "answer"
    /\ head' = IF failure = NoFailure THEN Success ELSE HeadOf(failure.status, "json")
    /\ status' = head'.status
    /\ srv' = IF Streams THEN "events" ELSE "answer body"
    /\ UNCHANGED <<call, client, network, id, failure, produced, ended, logged>>

SendOuterHead ==
    /\ srv = "outer"
    /\ head' = HeadOf(failure.status, "json")
    /\ srv' = "outer body"
    /\ UNCHANGED <<call, client, network, id, failure, status, produced, ended, logged>>

(* The body of a JSON answer, and its end.                                 *)
BodyFrame ==
    CASE failure = NoFailure  -> CompletedFrame(<<>>)
      [] failure = Redirected -> Frame("response.error", Nothing)
      [] failure = NotRouted  -> Frame("response.error", Detail)
      [] OTHER                -> ErrorFrame(failure.code, id)

SendBody ==
    /\ srv \in {"answer body", "outer body"}
    /\ produced' = <<BodyFrame>>
    /\ ended' = TRUE
    /\ IF srv = "answer body"
       THEN srv' = "teardown" /\ Log(status)
       ELSE srv' = "done" /\ UNCHANGED logged
    /\ UNCHANGED <<call, client, network, id, failure, status, head>>

(* events(): the first piece of text, more of them, the completed          *)
(* response, or the failure of the provider.                               *)
SendDelta(p) == produced' = Append(produced, DeltaFrame(p))

NextDelta ==
    /\ srv = "events"
    /\ Len(produced) < MaxDeltas
    /\ \E p \in Pieces : SendDelta(p)
    /\ UNCHANGED <<call, client, network, srv, id, failure, status, head, ended, logged>>

Complete ==
    /\ srv = "events" /\ produced # <<>>
    /\ produced' = Append(produced, CompletedFrame(TextOf(produced)))
    /\ srv' = "end"
    /\ UNCHANGED <<call, client, network, id, failure, status, head, ended, logged>>

StreamFails ==
    /\ srv = "events" /\ produced # <<>>
    /\ produced' = Append(produced, ErrorFrame("provider_error", id))
    /\ srv' = "end"
    /\ UNCHANGED <<call, client, network, id, failure, status, head, ended, logged>>

(* Any other exception: the server closes the connection on its client.    *)
StreamEscapes ==
    /\ srv = "events" /\ produced # <<>>
    /\ Log(status)
    /\ srv' = "aborted"
    /\ UNCHANGED <<call, client, network, id, failure, status, head, produced, ended>>

EndStream ==
    /\ srv = "end"
    /\ ended' = TRUE
    /\ Log(status)
    /\ srv' = "teardown"
    /\ UNCHANGED <<call, client, network, id, failure, status, head, produced>>

(* get_db_session closes its session; should that fail, the exception      *)
(* passes through the middleware once more.                                *)
Teardown ==
    /\ srv = "teardown"
    /\ srv' = "done"
    /\ Log(status) \/ UNCHANGED logged
    /\ UNCHANGED <<call, client, network, id, failure, status, head, produced, ended>>

(* A streamed response watches for the disconnection of its client and is  *)
(* cancelled by it, or its next send raises and is logged.                 *)
NoticeDisconnect ==
    /\ srv \in {"events", "end"} /\ link \in {"broken", "closed"}
    /\ srv' = "left"
    /\ Log(status) \/ UNCHANGED logged
    /\ UNCHANGED <<call, client, network, id, failure, status, head, produced, ended>>

Crash ==
    /\ srv \in Working
    /\ srv' = "crashed"
    /\ UNCHANGED <<call, client, network, id, failure, status, head, produced, ended, logged>>

(* An await never returns: Redis and the database are awaited without a    *)
(* timeout, and so is a client that stops reading.                         *)
Hang ==
    /\ srv \in Working
    /\ srv' = "hung"
    /\ UNCHANGED <<call, client, network, id, failure, status, head, produced, ended, logged>>

-----------------------------------------------------------------------------
(* The connection: reset; silent, so that nothing arrives any more; or     *)
(* answered by the load balancer (or whatever else stands at base_url)     *)
(* before the server's head has come through.                              *)
Break ==
    /\ link = "up" /\ at \in Waiting
    /\ link' \in {"broken", "silent"}
    /\ UNCHANGED <<call, client, page, server>>

AnswerPage ==
    /\ link = "up" /\ at = "head"
    /\ link' = "page"
    /\ page' \in Pages
    /\ UNCHANGED <<call, client, server>>

-----------------------------------------------------------------------------
(* The SDK.  It ends with an error, an answer, or at its caller's wish.    *)
End(result) ==
    /\ at' = "over"
    /\ outcome' = result

Close == link' = "closed" /\ UNCHANGED page

(* The arguments are checked before anything is sent; then the connection  *)
(* is made or not.                                                         *)
Call ==
    /\ at = "calling"
    /\ IF Buildable(call)
       THEN \/ at' = "head" /\ UNCHANGED <<outcome, network>>
            \/ End(ConnectionError) /\ Close
       ELSE End([kind |-> "refused"]) /\ Close
    /\ UNCHANGED <<call, parser, read, given, server>>

Arrived ==
    CASE link = "up"   -> head
      [] link = "page" -> PageHead
      [] OTHER         -> NoHead

(* The head decides how the body is read: line by line only for a stream   *)
(* that succeeds, and _require_event_stream lets it.                       *)
ReadHead ==
    /\ at = "head" /\ Arrived # NoHead
    /\ IF call.method # "stream" \/ Arrived.status >= 400
       THEN at' = "body" /\ UNCHANGED <<outcome, network>>
       ELSE IF Arrived.type = "events"
       THEN at' = "events" /\ UNCHANGED <<outcome, network>>
       ELSE End(Invalid(Arrived.status, Arrived.id)) /\ Close
    /\ UNCHANGED <<call, parser, read, given, server>>

(* _raise_for_status, _json_object and _parse_model, once the whole body   *)
(* is there.                                                               *)
Body == IF link = "page" THEN page.body ELSE produced[1].body
BodyIsThere == link = "page" \/ (link = "up" /\ ended)

ReadBody ==
    /\ at = "body" /\ BodyIsThere
    /\ IF Undecodable(Body)
       THEN End(Escaped) /\ UNCHANGED given
       ELSE IF Arrived.status >= 400
       THEN /\ End(ErrorFromBody(Body, Arrived.status, Arrived.id, Arrived.retryAfter))
            /\ UNCHANGED given
       ELSE IF Body.shape # "response"
       THEN End(Invalid(Arrived.status, Arrived.id)) /\ UNCHANGED given
       ELSE /\ End([kind |-> "returned", id |-> Arrived.id])
            /\ given' = <<CompletedFrame(Body.text)>>
    /\ Close
    /\ UNCHANGED <<call, parser, read, server>>

LinesThere == link = "up" /\ read < LinesPerFrame * Len(produced)

(* _iter_frames and parse_stream_frame: one line, and the frame that it    *)
(* completes, if any.                                                      *)
ReadLine ==
    /\ at = "events" /\ LinesThere
    /\ read' = read + 1
    /\ parser' = Feed(parser, produced, read')
    /\ IF ~Completes(parser, read')
       THEN UNCHANGED <<at, given, outcome, network>>
       ELSE IF IsItem(parser)
       THEN given' = Append(given, ItemOf(parser)) /\ UNCHANGED <<at, outcome, network>>
       ELSE End(FrameError(parser, head.id)) /\ Close /\ UNCHANGED given
    /\ UNCHANGED <<call, server>>

(* The end of the body, with or without a frame in progress.               *)
EndOfBody ==
    /\ at = "events" /\ link = "up" /\ ended /\ ~LinesThere
    /\ parser' = Finish(parser)
    /\ IF parser.data = <<>>
       THEN End([kind |-> "stopped", id |-> head.id]) /\ UNCHANGED given
       ELSE IF IsItem(parser)
       THEN End([kind |-> "stopped", id |-> head.id]) /\ given' = Append(given, ItemOf(parser))
       ELSE End(FrameError(parser, head.id)) /\ UNCHANGED given
    /\ Close
    /\ UNCHANGED <<call, read, server>>

(* An httpx.HTTPError: the connection broke, or the server closed it in    *)
(* the middle of the response; or nothing came for too long.               *)
NothingComes ==
    CASE at = "head"   -> Arrived = NoHead
      [] at = "body"   -> ~BodyIsThere
      [] at = "events" -> ~LinesThere /\ ~(link = "up" /\ ended)
      [] OTHER         -> FALSE

\* Variant: the end of the connection is taken for the end of the stream.
LoseConnectionQuietly ==
    /\ at \in Waiting /\ NothingComes
    /\ link = "broken" \/ (link = "up" /\ srv \in {"aborted", "crashed"})
    /\ End(IF at = "events" THEN [kind |-> "stopped", id |-> head.id] ELSE ConnectionError)
    /\ Close
    /\ UNCHANGED <<call, parser, read, given, server>>

LoseConnection ==
    /\ at \in Waiting /\ NothingComes
    /\ link = "broken" \/ (link = "up" /\ srv \in {"aborted", "crashed"})
    /\ End(ConnectionError)
    /\ Close
    /\ UNCHANGED <<call, parser, read, given, server>>

\* Variant: a stream that has begun is read without a timeout.
TimeOutOfHead ==
    /\ at \in {"head", "body"} /\ NothingComes
    /\ End(ConnectionError)
    /\ Close
    /\ UNCHANGED <<call, parser, read, given, server>>

TimeOut ==
    /\ at \in Waiting /\ NothingComes
    /\ End(ConnectionError)
    /\ Close
    /\ UNCHANGED <<call, parser, read, given, server>>

(* The caller leaves: it closes the iterator between two items, or its     *)
(* task is cancelled at an await of the asynchronous client.               *)
Leave ==
    /\ at \in Waiting
    /\ End([kind |-> "left"])
    /\ Close
    /\ UNCHANGED <<call, parser, read, given, server>>

-----------------------------------------------------------------------------
ServerStep ==
    \/ Misroute \/ Door \/ RouteFails \/ RouteSucceeds
    \/ SendHead \/ SendOuterHead \/ SendBody
    \/ NextDelta \/ Complete \/ StreamFails \/ StreamEscapes \/ EndStream
    \/ Teardown

ClientStep ==
    Call \/ ReadHead \/ ReadBody \/ ReadLine \/ EndOfBody \/ LoseConnection \/ TimeOut

Idle == at = "over" /\ srv \in Over \cup {"away"} /\ UNCHANGED vars

Next ==
    \/ Receive \/ ServerStep \/ NoticeDisconnect \/ Crash \/ Hang
    \/ Break \/ AnswerPage
    \/ ClientStep \/ Leave
    \/ Idle

Spec == Init /\ [][Next]_vars

(* The client takes its next step because its httpx timeouts end every     *)
(* wait.  The server takes its own while its awaits return: where one does *)
(* not, it hangs, which it may do anywhere.                                *)
FairSpec == Spec /\ WF_vars(ServerStep) /\ WF_vars(ClientStep)

-----------------------------------------------------------------------------
(* Properties.                                                             *)
Points == {"calling", "over"} \cup Waiting
Ids == {NoId, "client's id", "generated id"}
Statuses == {0, 200, 201, 500, 503} \cup {f.status : f \in Failures}
Heads == [status : Statuses, type : {"none", "page", "json", "events"}, id : Ids,
          retryAfter : BOOLEAN]
Events == {"response.delta", "response.completed", "response.error"}

TypeOK ==
    /\ call \in SdkCalls
    /\ at \in Points
    /\ parser.event \in Events \cup {"message"}
    /\ Len(parser.data) <= 1
    /\ read \in Nat
    /\ outcome.kind \in {"none", "refused", "returned", "stopped", "raised", "escaped",
                        "left"}
    /\ link \in {"up", "silent", "broken", "closed", "page"}
    /\ page \in Pages \cup {NoPage}
    /\ srv \in {"away"} \cup Working \cup Over
    /\ id \in Ids
    /\ failure \in Failures \cup {NoFailure}
    /\ status \in Statuses
    /\ head \in Heads
    /\ Len(produced) <= MaxDeltas + 1
    /\ \A n \in 1..Len(produced) : produced[n].event \in Events
    /\ ended \in BOOLEAN
    /\ logged \in Seq(Statuses)

(* The caller is given what the server has sent, frame by frame and in     *)
(* order: nothing twice, nothing cut off, nothing joined, and no error as  *)
(* if it were an item.                                                     *)
GivenIsSent ==
    /\ Len(given) <= Len(produced)
    /\ \A n \in 1..Len(given) : /\ given[n] = produced[n]
                               /\ given[n].event # "response.error"

(* A call that returns, or an iterator that stops without an error, has    *)
(* given its caller a completed response, of the text in its deltas, with  *)
(* the id that the request had in the server: a connection that ends       *)
(* early, or a failure of the provider, never looks like success.          *)
SuccessIsWhole ==
    outcome.kind \in {"returned", "stopped"} =>
        /\ ended /\ failure = NoFailure
        /\ given = produced
        /\ Completed
        /\ given[Len(given)].body.text = TextOf(SubSeq(given, 1, Len(given) - 1))
        /\ outcome.id = id /\ id # NoId

(* An error that names a status is the one that the server raised for this *)
(* request, with its code, its id and Retry-After exactly on a 429; or the *)
(* router's answer to a name that is no segment of a path, which the SDK   *)
(* does not tell from a broken server; or it tells of the page that came   *)
(* in its place.  Nothing but a page that is not UTF-8 makes the SDK raise *)
(* what is not one of its errors.                                          *)
FromServer(error) ==
    \/ /\ failure \notin {NoFailure, Redirected, NotRouted}
       /\ error = Error(failure.code, failure.status, id, failure.status = 429)
    \/ /\ error = Error("provider_error", 200, id, FALSE)
       /\ produced # <<>> /\ produced[Len(produced)] = ErrorFrame("provider_error", id)

FromRouter(error) ==
    \/ failure = Redirected /\ error = Invalid(307, id)
    \/ failure = NotRouted /\ error = Error("internal_error", 404, id, FALSE)

FromPage(error) ==
    \/ page.status = 200 /\ error = Invalid(200, NoId)
    \/ page.status = 503 /\ error = Error("internal_error", 503, NoId, FALSE)

ErrorsAreTrue ==
    /\ outcome.kind = "raised" => \/ outcome = ConnectionError
                                  \/ id # NoId /\ (FromServer(outcome) \/ FromRouter(outcome))
                                  \/ FromPage(outcome)
    /\ outcome.kind = "escaped" => page # NoPage /\ Undecodable(page.body)

(* A request that is over in the server has one request_completed record,  *)
(* unless the process ended, hung or the client left; its status is that in*)
(* the head that was sent, an unexpected error or a stream that was cut    *)
(* off included.                                                           *)
LoggedAsSent ==
    /\ Len(logged) <= 1
    /\ srv \in {"teardown", "done", "aborted"} => logged # <<>>
    /\ logged # <<>> /\ head # NoHead => logged[1] = head.status

(* Every call ends for its caller, also of a server that hangs; and every  *)
(* request that has reached the server ends there or hangs at an await,    *)
(* whatever becomes of the connection.                                     *)
EveryExchangeEnds ==
    /\ <>(at = "over")
    /\ srv # "away" ~> srv \in Over
=============================================================================
