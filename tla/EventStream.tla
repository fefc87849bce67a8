----------------------------- MODULE EventStream -----------------------------
(***************************************************************************)
(* The wire form of a streamed response and how the Python SDK reads it:   *)
(* _sse_message of api/routes/responses.py on one side; SseParser,         *)
(* parse_stream_frame and error_from_body of the SDK on the other.         *)
(*                                                                         *)
(* JSON is abstracted to the shape that decoding a body finds, and what    *)
(* the SDK takes out of it.  Text is a sequence of pieces.                 *)
(***************************************************************************)
EXTENDS Integers, Sequences

(* What a body is, once decoded: an event's delta, a response, an error    *)
(* envelope, JSON of the router that is no envelope, nothing, a page that  *)
(* is no JSON at all, or one whose bytes are not even UTF-8.               *)
DeltaBody(piece) == [shape |-> "delta", text |-> <<piece>>]
ResponseBody(text) == [shape |-> "response", text |-> text]
Envelope(code, id) == [shape |-> "error", code |-> code, id |-> id]
Detail == [shape |-> "detail"]
Nothing == [shape |-> "nothing"]
Page == [shape |-> "page"]
GarbledPage == [shape |-> "garbled page"]

Frame(event, body) == [event |-> event, body |-> body]
DeltaFrame(piece) == Frame("response.delta", DeltaBody(piece))
CompletedFrame(text) == Frame("response.completed", ResponseBody(text))
ErrorFrame(code, id) == Frame("response.error", Envelope(code, id))

(* _sse_message: each frame is three lines, the third one blank.           *)
LinesPerFrame == 3
FrameOfLine(frames, n) == frames[((n - 1) \div LinesPerFrame) + 1]
FieldOfLine(n) ==
    CASE n % LinesPerFrame = 1 -> "event"
      [] n % LinesPerFrame = 2 -> "data"
      [] OTHER                 -> "blank"

-----------------------------------------------------------------------------
(* SseParser: feed() keeps the event name and the data lines of the frame  *)
(* in progress; a blank line completes it if it has data, and resets both. *)
Fresh == [event |-> "message", data |-> <<>>]

\* Variant: the data lines of the last frame are kept.
FinishKeepsData(parser) == [parser EXCEPT !.event = "message"]
Finish(parser) == Fresh

Completes(parser, n) == FieldOfLine(n) = "blank" /\ parser.data # <<>>

Feed(parser, frames, n) ==
    CASE FieldOfLine(n) = "event" -> [parser EXCEPT !.event = FrameOfLine(frames, n).event]
      [] FieldOfLine(n) = "data"  -> [parser EXCEPT !.data = Append(@, FrameOfLine(frames, n).body)]
      [] OTHER                    -> Finish(parser)

-----------------------------------------------------------------------------
(* AIRuntimeError, and AIRuntimeConnectionError, which has no status.      *)
NoId == "no id"
Error(code, status, id, retryAfter) ==
    [kind |-> "raised", code |-> code, status |-> status, id |-> id, retryAfter |-> retryAfter]
ConnectionError == Error("connection_error", 0, NoId, FALSE)
Invalid(status, id) == Error("invalid_response", status, id, FALSE)

(* response.json() raises a UnicodeDecodeError, which is none of the       *)
(* SDK's errors and is not caught.                                         *)
Undecodable(body) == body.shape = "garbled page"
Escaped == [kind |-> "escaped"]

(* error_from_body: the envelope's code and id if it is one, or else what  *)
(* is known from the response head.                                        *)
ErrorFromBody(body, status, id, retryAfter) ==
    IF body.shape = "error"
    THEN Error(body.code, status, body.id, retryAfter)
    ELSE Error("internal_error", status, id, retryAfter)

(* parse_stream_frame.  Several data lines are joined by line breaks, and  *)
(* what was JSON in each is not JSON together.                             *)
IsJson(parser) == Len(parser.data) = 1
\* Variant: every event with a JSON body is an item.
IsAnyEvent(parser) == IsJson(parser)
IsItem(parser) ==
    /\ IsJson(parser)
    /\ \/ parser.event = "response.delta" /\ parser.data[1].shape = "delta"
       \/ parser.event = "response.completed" /\ parser.data[1].shape = "response"
ItemOf(parser) == Frame(parser.event, parser.data[1])

FrameError(parser, id) ==
    IF IsJson(parser) /\ parser.event = "response.error"
    THEN ErrorFromBody(parser.data[1], 200, id, FALSE)
    ELSE Invalid(200, id)
=============================================================================
