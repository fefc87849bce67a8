------------------------- MODULE HttpExchange_proofs -------------------------
(***************************************************************************)
(* The safety properties of HttpExchange for streams of any length and     *)
(* any text.  The invariant has a half for the server, which does not      *)
(* depend on the client, and one for the client, which survives whatever   *)
(* the server does because what was sent is only ever continued.           *)
(***************************************************************************)
EXTENDS HttpExchange, TLAPS

Codes == {f.code : f \in Failures}
RouterBodies == {Detail, Nothing}
Bodies ==
    {DeltaBody(p) : p \in Pieces} \cup {ResponseBody(t) : t \in Seq(Pieces)}
    \cup (UNION {{Envelope(c, i) : i \in Ids} : c \in Codes})
    \cup RouterBodies
Frames == [event : Events, body : Bodies]

IsDelta(frame) == \E p \in Pieces : frame = DeltaFrame(p)
IsFailed(frame) == frame = ErrorFrame("provider_error", id)

-----------------------------------------------------------------------------
(* The server's half.                                                      *)
ServerTypes ==
    /\ call \in SdkCalls
    /\ srv \in {"away"} \cup Working \cup Over
    /\ id \in Ids
    /\ failure \in Failures \cup {NoFailure}
    /\ status \in Statuses
    /\ head \in Heads
    /\ produced \in Seq(Frames)
    /\ Len(produced) <= MaxDeltas + 1
    /\ ended \in BOOLEAN
    /\ logged \in Seq(Statuses)

(* What has not happened yet at each point.                                *)
PointInv ==
    /\ srv = "away" <=> id = NoId
    /\ srv \in {"away", "door", "route"} => failure = NoFailure
    /\ srv \in {"away", "door", "route", "answer", "outer"} => head = NoHead
    /\ srv \in {"outer", "outer body"} => failure = Unexpected
    /\ srv \in {"answer body", "outer body"} => head # NoHead /\ ~Streams /\ produced = <<>>
    /\ srv \in {"events", "end"} => head # NoHead /\ Streams /\ ~ended
    /\ ended => srv \in {"teardown", "done", "crashed", "hung"}

HeadInv ==
    head # NoHead =>
        head = IF failure = NoFailure THEN Success ELSE HeadOf(failure.status, "json")

(* A stream is pieces of text and what ended it; any other body is whole.  *)
BodyInv ==
    /\ head = NoHead => produced = <<>> /\ ~ended
    /\ head # NoHead /\ ~Streams =>
         /\ produced = <<>> \/ produced = <<BodyFrame>>
         /\ ended => produced # <<>>
    /\ head # NoHead /\ Streams =>
         /\ \A n \in 1..Len(produced) :
              \/ IsDelta(produced[n])
              \/ /\ n = Len(produced) /\ srv # "events"
                 /\ \/ IsFailed(produced[n])
                    \/ produced[n] = CompletedFrame(TextOf(SubSeq(produced, 1, n - 1)))
         /\ srv = "events" => Len(produced) <= MaxDeltas
         /\ (srv = "end" \/ ended) => /\ produced # <<>>
                                     /\ ~IsDelta(produced[Len(produced)])

LogInv ==
    /\ logged = <<>> \/ logged = <<status>>
    /\ head = NoHead => status = 500
    /\ head # NoHead => status = head.status
    /\ srv \in {"away", "door", "route", "answer", "answer body", "events", "end"} => logged = <<>>
    /\ srv \in {"teardown", "done", "aborted", "outer", "outer body"} => logged # <<>>

ServerInv == ServerTypes /\ PointInv /\ HeadInv /\ BodyInv /\ LogInv

-----------------------------------------------------------------------------
(* The client's half.                                                      *)
ClientTypes ==
    /\ at \in Points
    /\ parser \in [event : Events \cup {"message"}, data : {<<>>} \cup {<<b>> : b \in Bodies}]
    /\ read \in Nat
    /\ given \in Seq(Frames)
    /\ outcome.kind \in {"none", "refused", "returned", "stopped", "raised", "escaped",
                        "left"}
    /\ link \in {"up", "silent", "broken", "closed", "page"}
    /\ page \in Pages \cup {NoPage}

(* What has arrived at each point.                                         *)
ArrivalInv ==
    /\ at # "over" => outcome = NotYet
    /\ at \in {"calling", "head", "body"} => given = <<>> /\ read = 0 /\ parser = Fresh
    /\ link = "page" => page \in Pages /\ at \in {"head", "body"}
    /\ at = "body" /\ link = "page" => call.method # "stream" \/ page.status >= 400
    /\ at = "body" /\ link = "up" => head.type = "json"
    /\ at = "events" => head.type = "events" /\ link # "page"

(* Between two lines: k frames are given, and the parser holds what was    *)
(* read of the next one.                                                   *)
Between(k) ==
    \/ read = 3 * k /\ parser = Fresh
    \/ /\ read = 3 * k + 1 /\ k < Len(produced)
       /\ parser = [event |-> produced[k + 1].event, data |-> <<>>]
    \/ /\ read = 3 * k + 2 /\ k < Len(produced)
       /\ parser = [event |-> produced[k + 1].event, data |-> <<produced[k + 1].body>>]

LineInv == at = "events" => Between(Len(given))

ClientInv ==
    /\ ClientTypes /\ ArrivalInv /\ LineInv
    /\ GivenIsSent /\ SuccessIsWhole /\ ErrorsAreTrue

ExchangeInv == ServerInv /\ ClientInv

(* What the server may do to what a client has seen.                       *)
Onward ==
    /\ UNCHANGED <<call, client, network>>
    /\ id # NoId => id' = id
    /\ failure # NoFailure => failure' = failure
    /\ head # NoHead => head' = head
    /\ ended => UNCHANGED <<id, failure, produced, ended>>
    /\ produced' = produced \/ \E x \in Frames : produced' = Append(produced, x)
    /\ produced # <<>> /\ IsFailed(produced[Len(produced)]) => produced' = produced

ServerActs == Receive \/ ServerStep \/ NoticeDisconnect \/ Crash \/ Hang
ClientActs == Break \/ AnswerPage \/ ClientStep \/ Leave

(* Each frame is three lines: its event, its data, and a blank one.        *)
LEMMA LineFacts ==
    ASSUME NEW k \in Nat
    PROVE  /\ FieldOfLine(3 * k + 1) = "event"
           /\ FieldOfLine(3 * k + 2) = "data"
           /\ FieldOfLine(3 * k + 3) = "blank"
           /\ \A frames : /\ FrameOfLine(frames, 3 * k + 1) = frames[k + 1]
                          /\ FrameOfLine(frames, 3 * k + 2) = frames[k + 1]
<1>1. /\ (3 * k + 1) % 3 = 1
      /\ (3 * k + 2) % 3 = 2
      /\ (3 * k + 3) % 3 = 0
  OBVIOUS
<1>2. /\ ((3 * k + 1) - 1) \div 3 = k
      /\ ((3 * k + 2) - 1) \div 3 = k
  OBVIOUS
<1> QED
  BY <1>1, <1>2 DEF FieldOfLine, FrameOfLine, LinesPerFrame

(* Every failure but a redirection has a status that a client takes for an *)
(* error.                                                                  *)
LEMMA FailureFacts ==
    /\ \A f \in Failures : /\ f.status \in Statuses /\ f.status # 0
                           /\ f # Redirected => f.status >= 400
                           /\ f # NoFailure
    /\ Redirected.status = 307 /\ NotRouted.status = 404 /\ NotRouted # Redirected
    /\ \A c : OfRouter(c) \in Failures
    /\ AtTheDoor \subseteq Failures /\ Unexpected \in Failures
    /\ Unexpected # NoFailure /\ Unexpected.status = 500
    /\ \A c : FailuresOf(c) \subseteq Failures
    /\ {0, 200, 201, 500, 503} \subseteq Statuses
<1>1. \A f \in Failures : f.status # 0 /\ (f # Redirected => f.status >= 400)
  <2>1. \A f \in {NotRouted, Unexpected} \cup AtTheDoor \cup OfCreation \cup OfPreparation :
          f.status # 0 /\ f.status >= 400
    <3>1. /\ NotRouted.status = 404 /\ Unexpected.status = 500
          /\ InvalidRequest.status = 422 /\ NotFound.status = 404
      BY DEF NotRouted, Unexpected, InvalidRequest, NotFound, Failure
    <3>2. \A f \in AtTheDoor : f.status \in {401, 403, 422}
      BY <3>1 DEF AtTheDoor, Failure
    <3>3. \A f \in OfCreation : f.status \in {409, 422}
      BY <3>1 DEF OfCreation, Failure
    <3>4. \A f \in OfPreparation : f.status \in {404, 422}
      BY <3>1 DEF OfPreparation, Failure
    <3> QED
      BY <3>1, <3>2, <3>3, <3>4
  <2>2. \A f \in OfGeneration : f.status # 0 /\ f.status >= 400
    BY DEF OfGeneration, Failure, InvalidRequest
  <2>3. Redirected.status # 0
    BY DEF Redirected, Failure
  <2> QED
    BY <2>1, <2>2, <2>3 DEF Failures
<1>2. \A c : FailuresOf(c) \subseteq Failures
  <2> TAKE c
  <2>1. InvalidRequest \in Failures /\ NotFound \in Failures /\ OfGeneration \subseteq Failures
        /\ OfCreation \subseteq Failures /\ OfPreparation \subseteq Failures
    BY DEF Failures, AtTheDoor, OfPreparation
  <2>2. CASE c.method = "create_prompt"
    <3>1. FailuresOf(c) = OfCreation
      BY <2>2, Zenon DEF FailuresOf
    <3> QED
      BY <2>1, <3>1
  <2>3. CASE c.method = "list_prompts"
    <3>1. c.method # "create_prompt"
      BY <2>3
    <3>2. FailuresOf(c) = {IF Refused(c) THEN InvalidRequest ELSE NotFound}
      BY <2>3, <3>1, Zenon DEF FailuresOf
    <3> QED
      BY <2>1, <3>2
  <2>4. CASE c.method \notin {"create_prompt", "list_prompts"}
    <3>1. FailuresOf(c) = (OfPreparation \ (IF c.input = "prompt" THEN {} ELSE {NotFound}))
                          \cup (IF Refused(c) THEN {} ELSE OfGeneration)
      BY <2>4, Zenon DEF FailuresOf
    <3> QED
      BY <2>1, <3>1
  <2> QED
    BY <2>2, <2>3, <2>4
<1>3. /\ Redirected.status = 307 /\ NotRouted.status = 404 /\ NotRouted # Redirected
      /\ \A c : OfRouter(c) \in Failures
  BY DEF Redirected, NotRouted, Failure, OfRouter, Failures
<1>4. {f.status : f \in Failures} \subseteq Statuses
      /\ {0, 200, 201, 500, 503} \subseteq Statuses
  BY DEF Statuses
<1>5. /\ AtTheDoor \subseteq Failures /\ Unexpected \in Failures
      /\ Unexpected # NoFailure /\ Unexpected.status = 500
      /\ NoFailure.status = 0
  BY DEF Failures, Unexpected, NoFailure, Failure
<1> QED
  BY <1>1, <1>2, <1>3, <1>4, <1>5

(* What is sent is a frame, and only a piece of text is a delta.           *)
LEMMA FrameFacts ==
    /\ \A p \in Pieces : DeltaFrame(p) \in Frames /\ IsDelta(DeltaFrame(p))
    /\ \A t \in Seq(Pieces) : /\ CompletedFrame(t) \in Frames
                              /\ ~IsDelta(CompletedFrame(t))
    /\ \A c \in Codes, i \in Ids : /\ ErrorFrame(c, i) \in Frames
                                   /\ ~IsDelta(ErrorFrame(c, i))
    /\ "provider_error" \in Codes
    /\ \A b \in RouterBodies : Frame("response.error", b) \in Frames
<1>1. \A p \in Pieces : DeltaFrame(p) \in Frames
  BY DEF DeltaFrame, Frame, Frames, Bodies, Events
<1>2. \A t \in Seq(Pieces) : CompletedFrame(t) \in Frames
  BY DEF CompletedFrame, Frame, Frames, Bodies, Events
<1>3. \A c \in Codes, i \in Ids : ErrorFrame(c, i) \in Frames
  <2>1. \A c \in Codes, i \in Ids : Envelope(c, i) \in Bodies
    <3> TAKE c \in Codes, i \in Ids
    <3>1. Envelope(c, i) \in {Envelope(c, j) : j \in Ids}
      OBVIOUS
    <3>2. Envelope(c, i) \in UNION {{Envelope(x, j) : j \in Ids} : x \in Codes}
      BY <3>1
    <3> QED
      BY <3>2, Zenon DEF Bodies
  <2> QED
    BY <2>1 DEF ErrorFrame, Frame, Frames, Events
<1>4. /\ \A t : ~IsDelta(CompletedFrame(t))
      /\ \A c, i : ~IsDelta(ErrorFrame(c, i))
  BY DEF IsDelta, DeltaFrame, CompletedFrame, ErrorFrame, Frame
<1>5. "provider_error" \in Codes
  <2>1. Failure(502, "provider_error") \in Failures
    BY DEF Failures, OfGeneration
  <2> QED  BY <2>1 DEF Codes, Failure
<1>6. \A b \in RouterBodies : Frame("response.error", b) \in Frames
  <2>1. \A b \in RouterBodies : b \in Bodies
    BY Zenon DEF Bodies
  <2> QED
    BY <2>1 DEF Frame, Frames, Events
<1> QED
  BY <1>1, <1>2, <1>3, <1>4, <1>5, <1>6 DEF IsDelta

(* The text of a stream so far is a sequence of pieces.                    *)
LEMMA TextFacts ==
    ASSUME NEW frames \in Seq(Frames), \A n \in 1..Len(frames) : IsDelta(frames[n])
    PROVE  TextOf(frames) \in Seq(Pieces)
<1>1. \A n \in 1..Len(frames) : frames[n].body.text[1] \in Pieces
  <2> TAKE n \in 1..Len(frames)
  <2> PICK p \in Pieces : frames[n] = DeltaFrame(p)
    BY DEF IsDelta
  <2> QED  BY DEF DeltaFrame, Frame, DeltaBody
<1>2. TextOf(frames) \in [1..Len(frames) -> Pieces]
  BY <1>1 DEF TextOf
<1> QED
  BY <1>2

(* What was there stays where it is when something is appended.            *)
LEMMA PrefixFacts ==
    ASSUME NEW S, NEW s \in Seq(S), NEW x \in S
    PROVE  /\ Append(s, x) \in Seq(S)
           /\ Len(Append(s, x)) = Len(s) + 1
           /\ Append(s, x)[Len(s) + 1] = x
           /\ \A n \in 1..Len(s) : Append(s, x)[n] = s[n]
           /\ \A n \in 0..Len(s) : SubSeq(Append(s, x), 1, n) = SubSeq(s, 1, n)
           /\ SubSeq(s, 1, Len(s)) = s
OBVIOUS

(* Nothing has happened yet.                                               *)
LEMMA InitHasInv == Init => ExchangeInv
<1> SUFFICES ASSUME Init PROVE ExchangeInv
  OBVIOUS
<1>1. ServerTypes
  <2>1. NoHead \in Heads
    BY FailureFacts DEF NoHead, Heads, Ids
  <2>2. produced \in Seq(Frames) /\ logged \in Seq(Statuses) /\ Len(produced) <= MaxDeltas + 1
    BY ExchangeAssumption DEF Init
  <2>3. status \in Statuses
    BY FailureFacts DEF Init
  <2> QED
    BY <2>1, <2>2, <2>3 DEF Init, ServerTypes, Ids
<1>2. PointInv /\ HeadInv /\ BodyInv /\ LogInv
  BY DEF Init, PointInv, HeadInv, BodyInv, LogInv
<1>3. ClientTypes
  BY DEF Init, ClientTypes, Points, Fresh, NotYet
<1>4. ArrivalInv /\ LineInv
  BY DEF Init, ArrivalInv, LineInv, Fresh, NotYet
<1>5. GivenIsSent /\ SuccessIsWhole /\ ErrorsAreTrue
  BY DEF Init, GivenIsSent, SuccessIsWhole, ErrorsAreTrue, NotYet
<1> QED
  BY <1>1, <1>3, <1>5, <1>2, <1>4 DEF ExchangeInv, ServerInv, ClientInv

(* What the one body of a JSON answer is.                                  *)
LEMMA BodyFacts ==
    /\ failure = NoFailure => BodyFrame = CompletedFrame(<<>>)
    /\ failure = Redirected => BodyFrame = Frame("response.error", Nothing)
    /\ failure = NotRouted => BodyFrame = Frame("response.error", Detail)
    /\ failure \notin {NoFailure, Redirected, NotRouted} =>
         BodyFrame = ErrorFrame(failure.code, id)
<1>1. NoFailure # Redirected /\ NoFailure # NotRouted /\ NotRouted # Redirected
  BY DEF NoFailure, Redirected, NotRouted, Failure
<1>2. failure = NoFailure => BodyFrame = CompletedFrame(<<>>)
  BY <1>1, Zenon DEF BodyFrame
<1>3. failure = Redirected => BodyFrame = Frame("response.error", Nothing)
  BY <1>1, Zenon DEF BodyFrame
<1>4. failure = NotRouted => BodyFrame = Frame("response.error", Detail)
  BY <1>1, Zenon DEF BodyFrame
<1>5. failure # NoFailure /\ failure # Redirected /\ failure # NotRouted =>
        BodyFrame = ErrorFrame(failure.code, id)
  BY Zenon DEF BodyFrame
<1> QED
  BY <1>2, <1>3, <1>4, <1>5

(* What is sent first is a head, and what a JSON answer sends is a frame.  *)
LEMMA HeadFacts ==
    ASSUME ServerTypes
    PROVE  /\ Success \in Heads /\ Success # NoHead
           /\ \A f \in Failures : /\ HeadOf(f.status, "json") \in Heads
                                  /\ HeadOf(f.status, "json") # NoHead
           /\ \A s, t : HeadOf(s, t).status = s /\ HeadOf(s, t).type = t
           /\ BodyFrame \in Frames
<1>1. /\ \A s \in Statuses, t \in {"json", "events"} : HeadOf(s, t) \in Heads
      /\ \A s, t : HeadOf(s, t).status = s /\ HeadOf(s, t).type = t
  BY DEF ServerTypes, HeadOf, Heads
<1>2. \A s \in Statuses, t \in {"json", "events"} : s # 0 => HeadOf(s, t) # NoHead
  BY DEF HeadOf, NoHead
<1>3. BodyFrame \in Frames
  <2>1. <<>> \in Seq(Pieces)
    OBVIOUS
  <2>2. failure # NoFailure => failure.code \in Codes
    BY DEF ServerTypes, Codes
  <2> QED
    BY <2>1, <2>2, FrameFacts, BodyFacts DEF ServerTypes, RouterBodies
<1> QED
  BY <1>1, <1>2, <1>3, FailureFacts DEF Success

(* Every server step keeps the types of what the server has.               *)
LEMMA ServerTypesStep ==
    ASSUME ServerInv, ServerActs
    PROVE  ServerTypes'
<1> USE DEF server, client, network
<1> DEFINE Same == UNCHANGED <<call, id, failure, status, head, produced, ended, logged>>
<1>0. Unexpected \in Failures
  BY FailureFacts
<1>1. ASSUME NEW s \in Statuses, Log(s) PROVE logged' \in Seq(Statuses)
  BY <1>1 DEF Log, ServerInv, ServerTypes
<1>2. CASE Receive
  BY <1>2 DEF Receive, ServerInv, ServerTypes, ResolveRequestId, Ids, Working
<1>18. ASSUME NEW f \in Failures, Raise(f), UNCHANGED call PROVE ServerTypes'
  BY <1>18 DEF Raise, ServerInv, ServerTypes, Working
<1>19. ASSUME Escape, UNCHANGED call PROVE ServerTypes'
  BY <1>19, <1>0, <1>1 DEF Escape, ServerInv, ServerTypes, Working
<1>20. CASE Misroute
  BY <1>20, <1>18, FailureFacts DEF Misroute
<1>3. CASE Door
  <2>1. CASE \E f \in AtTheDoor : Raise(f)
    BY <1>3, <2>1, <1>18, FailureFacts DEF Door
  <2>2. CASE Escape
    BY <1>3, <2>2, <1>19 DEF Door
  <2>3. CASE srv' = "route" /\ UNCHANGED <<id, failure, status, head, produced, ended, logged>>
    BY <1>3, <2>3 DEF Door, ServerInv, ServerTypes, Working
  <2> QED
    BY <1>3, <2>1, <2>2, <2>3 DEF Door
<1>4. CASE RouteFails
  BY <1>4, <1>18, <1>19, FailureFacts DEF RouteFails
<1>5. CASE RouteSucceeds
  BY <1>5 DEF RouteSucceeds, ServerInv, ServerTypes, Working
<1>6. CASE SendHead
  BY <1>6, HeadFacts DEF SendHead, ServerInv, ServerTypes, Working, Heads
<1>7. CASE SendOuterHead
  BY ZenonT(40), <1>7, HeadFacts, FailureFacts
     DEF SendOuterHead, ServerInv, ServerTypes, Working, PointInv
<1>8. CASE SendBody
  <2>1. produced' \in Seq(Frames) /\ Len(produced') <= MaxDeltas + 1
    <3>1. BodyFrame \in Frames
      BY HeadFacts DEF ServerInv
    <3>2. <<BodyFrame>> \in Seq(Frames) /\ Len(<<BodyFrame>>) = 1
      BY <3>1
    <3> QED
      <4>1. produced' = <<BodyFrame>>
        BY <1>8 DEF SendBody
      <4> QED
        BY <4>1, <3>2, ExchangeAssumption
  <2> QED
    BY <1>8, <2>1, <1>1 DEF SendBody, ServerInv, ServerTypes, Working, Over
<1>9. CASE NextDelta
  BY <1>9, FrameFacts, ExchangeAssumption DEF NextDelta, SendDelta, ServerInv, ServerTypes
<1>10. ASSUME srv = "events" PROVE Len(produced) <= MaxDeltas /\ TextOf(produced) \in Seq(Pieces)
  BY <1>10, TextFacts DEF ServerInv, ServerTypes, PointInv, BodyInv, IsFailed
<1>11. CASE Complete
  BY <1>11, <1>10, FrameFacts, ExchangeAssumption DEF Complete, ServerInv, ServerTypes, Working
<1>12. CASE StreamFails
  BY <1>12, <1>10, FrameFacts, ExchangeAssumption DEF StreamFails, ServerInv, ServerTypes, Working
<1>13. CASE StreamEscapes
  BY <1>13, <1>1 DEF StreamEscapes, ServerInv, ServerTypes, Over
<1>14. CASE EndStream
  BY <1>14, <1>1 DEF EndStream, ServerInv, ServerTypes, Working
<1>15. CASE Teardown
  BY <1>15, <1>1 DEF Teardown, ServerInv, ServerTypes, Over
<1>16. CASE NoticeDisconnect
  BY <1>16, <1>1 DEF NoticeDisconnect, ServerInv, ServerTypes, Over
<1>17. CASE Crash \/ Hang
  BY <1>17 DEF Crash, Hang, ServerInv, ServerTypes, Over
<1> QED
  BY <1>2, <1>3, <1>4, <1>5, <1>6, <1>7, <1>8, <1>9, <1>11, <1>12, <1>13, <1>14, <1>15,
     <1>16, <1>17, <1>20 DEF ServerActs, ServerStep


(* Logging is done once, with the status at that time.                     *)
LEMMA LogFacts ==
    ASSUME LogInv, Log(status)
    PROVE  logged' = <<status>>
<1>1. Append(<<>>, status) = <<status>>
  OBVIOUS
<1> QED
  BY <1>1 DEF LogInv, Log

(* Every server step leads to a point with what belongs to it.             *)
LEMMA PointStep ==
    ASSUME ServerInv, ServerActs
    PROVE  PointInv' /\ LogInv'
<1> USE DEF server, client, network, Streams, PointInv, LogInv
<1>0. PointInv /\ LogInv /\ (head = NoHead => produced = <<>> /\ ~ended)
  BY DEF ServerInv, BodyInv
<1>1. CASE Receive
  BY <1>0, <1>1 DEF Receive, ResolveRequestId, NoId
<1>2. ASSUME NEW f \in Failures, Raise(f), srv \in {"door", "route"}, UNCHANGED call
      PROVE PointInv' /\ LogInv'
  BY ZenonT(40), <1>0, <1>2 DEF Raise
<1>3. ASSUME Escape, srv \in {"door", "route"}, UNCHANGED call
      PROVE PointInv' /\ LogInv'
  <2>1. logged' = <<status>>
    BY <1>3, LogFacts DEF Escape, ServerInv
  <2> QED
    BY <1>0, <1>3, <2>1 DEF Escape
<1>18. AtTheDoor \subseteq Failures /\ \A c : FailuresOf(c) \subseteq Failures
  BY FailureFacts
<1>19. CASE Misroute
  <2>1. Raise(OfRouter(call)) /\ srv = "door" /\ UNCHANGED call
    BY <1>19 DEF Misroute
  <2>2. OfRouter(call) \in Failures
    BY FailureFacts
  <2> QED
    BY <1>2, <2>1, <2>2
<1>4. CASE Door
  <2>1. CASE \E f \in AtTheDoor : Raise(f)
    BY <1>4, <2>1, <1>2, <1>18 DEF Door
  <2>2. CASE srv' = "route" /\ UNCHANGED <<id, failure, status, head, produced, ended, logged>>
    BY <1>0, <1>4, <2>2 DEF Door
  <2> QED
    BY <1>4, <1>3, <2>1, <2>2 DEF Door
<1>5. CASE RouteFails
  BY <1>5, <1>2, <1>3, <1>18 DEF RouteFails
<1>6. CASE RouteSucceeds
  BY <1>0, <1>6 DEF RouteSucceeds
<1>7. CASE SendHead
  <2>1. head' # NoHead /\ status' = head'.status
    BY <1>7, HeadFacts DEF SendHead, ServerInv, ServerTypes
  <2>2. PointInv'
    BY <1>0, <1>7, <2>1 DEF SendHead
  <2>3. srv' \in {"events", "answer body"} /\ logged' = logged /\ logged = <<>>
    BY <1>0, <1>7 DEF SendHead
  <2>4. LogInv'
    BY <2>1, <2>3
  <2> QED
    BY <2>2, <2>4
<1>8. CASE SendOuterHead
  <2>1. failure = Unexpected
    BY <1>0, <1>8 DEF SendOuterHead
  <2>2. head' # NoHead /\ head'.status = 500 /\ failure # NoFailure
    <3> HIDE DEF PointInv, LogInv, Streams
    <3>1. head' = HeadOf(Unexpected.status, "json")
      BY <1>8, <2>1 DEF SendOuterHead
    <3> QED
      BY <2>1, <3>1, HeadFacts, FailureFacts DEF ServerInv
  <2> QED
    BY <1>0, <1>8, <2>1, <2>2 DEF SendOuterHead
<1>9. CASE SendBody
  <2>1. CASE srv = "answer body"
    <3>1. logged' = <<status>>
      BY <1>9, <2>1, LogFacts DEF SendBody, ServerInv
    <3> QED
      BY <1>0, <1>9, <2>1, <3>1 DEF SendBody
  <2>2. CASE srv = "outer body"
    BY <1>0, <1>9, <2>2 DEF SendBody
  <2> QED
    BY <1>9, <2>1, <2>2 DEF SendBody
<1>10. CASE NextDelta
  BY <1>0, <1>10 DEF NextDelta, SendDelta
<1>11. CASE Complete
  BY <1>0, <1>11 DEF Complete
<1>12. CASE StreamFails
  BY <1>0, <1>12 DEF StreamFails
<1>13. CASE StreamEscapes
  <2>1. logged' = <<status>>
    BY <1>13, LogFacts DEF StreamEscapes, ServerInv
  <2> QED
    BY <1>0, <1>13, <2>1 DEF StreamEscapes
<1>14. CASE EndStream
  <2>1. logged' = <<status>>
    BY <1>14, LogFacts DEF EndStream, ServerInv
  <2> QED
    BY <1>0, <1>14, <2>1 DEF EndStream
<1>15. CASE Teardown
  <2>1. logged' = <<status>>
    BY <1>0, <1>15, LogFacts DEF Teardown, ServerInv
  <2> QED
    BY <1>0, <1>15, <2>1 DEF Teardown
<1>16. CASE NoticeDisconnect
  <2>1. logged' = <<status>> \/ logged' = logged
    BY <1>16, LogFacts DEF NoticeDisconnect, ServerInv
  <2> QED
    BY <1>0, <1>16, <2>1 DEF NoticeDisconnect
<1>17. CASE Crash \/ Hang
  <2>0. /\ srv # "away" /\ srv' \in {"crashed", "hung"}
        /\ UNCHANGED <<call, id, failure, status, head, produced, ended, logged>>
    BY <1>17 DEF Crash, Hang, Working
  <2>1. PointInv'
    BY <1>0, <2>0
  <2>2. LogInv'
    <3> HIDE DEF PointInv, Streams
    <3> QED
      BY <1>0, <2>0
  <2> QED
    BY <2>1, <2>2
<1> QED
  BY <1>1, <1>4, <1>5, <1>6, <1>7, <1>8, <1>9, <1>10, <1>11, <1>12, <1>13,
     <1>14, <1>15, <1>16, <1>17, <1>19 DEF ServerActs, ServerStep


(* What is answered depends on nothing else.                               *)
LEMMA SameAnswer ==
    ASSUME UNCHANGED <<call, id, failure>>
    PROVE  /\ Success' = Success /\ BodyFrame' = BodyFrame
           /\ HeadOf(failure.status, "json")' = HeadOf(failure.status, "json")
           /\ Streams' <=> Streams
<1>1. HeadOf(failure.status, "json")' = HeadOf(failure.status, "json")
  BY DEF HeadOf
<1>2. Streams' <=> Streams
  BY DEF Streams
<1>3. Success' = Success
  BY <1>2 DEF Success, HeadOf
<1>4. BodyFrame' = BodyFrame
  BY Zenon DEF BodyFrame, ErrorFrame
<1> QED
  BY <1>1, <1>3, <1>2, <1>4

(* The head is sent once, and what it answers with does not change.        *)
LEMMA HeadStep ==
    ASSUME ServerInv, ServerActs
    PROVE  HeadInv'
<1> USE DEF server, client, network, PointInv, HeadInv
<1>1. CASE head' = NoHead
  BY <1>1
<1>2. CASE SendHead
  BY <1>2, SameAnswer DEF SendHead, ServerInv
<1>3. CASE SendOuterHead
  <2>1. failure # NoFailure
    BY ZenonT(40), <1>3, FailureFacts DEF SendOuterHead, ServerInv
  <2> QED
    BY <1>3, <2>1, SameAnswer DEF SendOuterHead, ServerInv
<1>4. CASE head' # NoHead /\ ~SendHead /\ ~SendOuterHead
  <2>1. head' = head
    BY <1>4 DEF ServerActs, ServerStep, Receive, Misroute, Door, RouteFails, RouteSucceeds, Raise,
                Escape, SendBody, NextDelta, Complete, StreamFails, StreamEscapes, EndStream,
                Teardown, NoticeDisconnect, Crash, Hang
  <2>2. srv \notin {"away", "door", "route"}
    BY <1>4, <2>1 DEF ServerInv
  <2>3. UNCHANGED <<call, id, failure>>
    BY <1>4, <2>2 DEF ServerActs, ServerStep, Receive, Misroute, Door, RouteFails, RouteSucceeds,
                      SendBody, NextDelta, Complete, StreamFails, StreamEscapes, EndStream,
                      Teardown, NoticeDisconnect, Crash, Hang
  <2> QED
    BY <2>1, <2>3, SameAnswer DEF ServerInv
<1> QED
  BY <1>1, <1>3, <1>2, <1>4

(* What a step adds to what was sent.                                      *)
LEMMA BodyStep ==
    ASSUME ServerInv, ServerActs
    PROVE  BodyInv'
<1> USE DEF server, client, network
<1>0. /\ PointInv /\ BodyInv /\ PointInv'
      /\ produced \in Seq(Frames) /\ MaxDeltas \in Nat
  BY PointStep, ExchangeAssumption DEF ServerInv, ServerTypes
<1>1. CASE srv \in {"away", "door", "route", "answer", "outer"}
  <2>1. produced = <<>> /\ ~ended
    BY <1>0, <1>1 DEF PointInv, BodyInv
  <2>2. produced' = produced /\ ended' = ended /\ srv' \notin {"end"}
    BY <1>1 DEF ServerActs, ServerStep, Receive, Misroute, Door, RouteFails, RouteSucceeds, Raise,
                Escape, SendHead, SendOuterHead, SendBody, NextDelta, Complete,
                StreamFails, StreamEscapes, EndStream, Teardown, NoticeDisconnect, Crash, Hang
  <2> QED
    BY <1>0, <2>1, <2>2 DEF BodyInv
<1>2. CASE SendBody
  <2>1. Streams' <=> Streams
    BY <1>2, SameAnswer DEF SendBody
  <2>2. BodyFrame' = BodyFrame
    BY <1>2, SameAnswer DEF SendBody
  <2> QED
    BY <1>0, <1>2, <2>1, <2>2 DEF SendBody, BodyInv, PointInv
<1>3. ASSUME srv \notin {"away", "door", "route", "answer", "outer"}, ~SendBody
      PROVE  /\ UNCHANGED <<call, head, id, failure>>
             /\ Streams' <=> Streams
             /\ BodyFrame' = BodyFrame
  <2>1. UNCHANGED <<call, head, id, failure>>
    BY <1>3 DEF ServerActs, ServerStep, Receive, Misroute, Door, RouteFails, RouteSucceeds,
                SendHead, SendOuterHead, NextDelta, Complete, StreamFails, StreamEscapes, EndStream,
                Teardown, NoticeDisconnect, Crash, Hang
  <2> QED
    BY <2>1, SameAnswer
<1>4. ASSUME NEW x \in Frames, produced' = Append(produced, x),
             srv = "events", ~SendBody, ~ended', head # NoHead, Streams,
             \/ srv' = "events" /\ IsDelta(x) /\ Len(produced) < MaxDeltas
             \/ /\ srv' = "end" /\ ~IsDelta(x)
                /\ IsFailed(x) \/ x = CompletedFrame(TextOf(produced))
      PROVE BodyInv'
  <2>1. UNCHANGED <<head, id>> /\ Streams'
    BY <1>3, <1>4
  <2>2. /\ Len(produced') = Len(produced) + 1
        /\ produced'[Len(produced) + 1] = x
        /\ \A n \in 1..Len(produced) : produced'[n] = produced[n]
        /\ SubSeq(produced', 1, Len(produced)) = produced
    BY <1>0, <1>4, PrefixFacts
  <2>3. \A n \in 1..Len(produced) : IsDelta(produced[n])
    BY <1>0, <1>4 DEF BodyInv
  <2>4. IsFailed(x)' <=> IsFailed(x)
    BY <2>1 DEF IsFailed
  <2>5. ASSUME NEW n \in 1..Len(produced')
        PROVE  \/ IsDelta(produced'[n])
               \/ /\ n = Len(produced') /\ srv' # "events"
                  /\ \/ produced'[n] = ErrorFrame("provider_error", id')
                     \/ produced'[n] = CompletedFrame(TextOf(SubSeq(produced', 1, n - 1)))
    <3>1. CASE n \in 1..Len(produced)
      BY <2>2, <2>3, <3>1
    <3>2. CASE n = Len(produced) + 1
      <4>1. n - 1 = Len(produced) /\ SubSeq(produced', 1, n - 1) = produced
        BY <1>0, <2>2, <3>2
      <4>2. CASE IsDelta(x)
        BY <2>2, <3>2, <4>2
      <4>3. CASE srv' = "end" /\ IsFailed(x)
        BY <2>1, <2>2, <3>2, <4>3 DEF IsFailed
      <4>4. CASE srv' = "end" /\ x = CompletedFrame(TextOf(produced))
        BY <2>2, <3>2, <4>1, <4>4
      <4> QED
        BY <1>4, <4>2, <4>3, <4>4
    <3> QED
      BY <1>0, <2>2, <3>1, <3>2
  <2>6. produced' # <<>> /\ produced'[Len(produced')] = x
    BY <1>0, <1>4, <2>2
  <2>7. srv' = "events" => Len(produced') <= MaxDeltas
    BY <1>0, <1>4, <2>2
  <2> QED
    <3>1. (\A n \in 1..Len(produced) :
              \/ IsDelta(produced[n])
              \/ /\ n = Len(produced) /\ srv # "events"
                 /\ \/ IsFailed(produced[n])
                    \/ produced[n] = CompletedFrame(TextOf(SubSeq(produced, 1, n - 1))))'
      BY <2>5 DEF IsFailed
    <3> QED
      BY <1>4, <2>1, <2>6, <2>7, <3>1 DEF BodyInv
<1>5. CASE NextDelta
  BY <1>0, <1>4, <1>5, FrameFacts DEF NextDelta, SendDelta, PointInv, SendBody
<1>6. CASE Complete \/ StreamFails
  <2>1. TextOf(produced) \in Seq(Pieces) /\ id \in Ids
    BY <1>0, <1>6, TextFacts DEF Complete, StreamFails, PointInv, BodyInv, ServerInv, ServerTypes
  <2> QED
    BY <1>0, <1>4, <1>6, <2>1, FrameFacts DEF Complete, StreamFails, PointInv, SendBody, IsFailed
<1>7. CASE /\ StreamEscapes \/ EndStream \/ Teardown \/ NoticeDisconnect \/ Crash \/ Hang
           /\ srv \notin {"away", "door", "route", "answer", "outer"}
  <2>1. /\ srv' \notin {"events", "end"}
        /\ ended' => ended \/ srv = "end"
        /\ produced' = produced /\ srv' # "away"
    BY <1>7 DEF StreamEscapes, EndStream, Teardown, NoticeDisconnect, Crash, Hang
  <2>2. ~SendBody
    BY <1>7, <2>1 DEF SendBody, StreamEscapes, EndStream, Teardown, NoticeDisconnect, Crash, Hang
  <2> QED
    BY <1>0, <1>3, <1>7, <2>1, <2>2 DEF BodyInv, PointInv, IsFailed
<1> QED
  BY <1>1, <1>2, <1>5, <1>6, <1>7
     DEF ServerActs, ServerStep, Receive, Misroute, Door, RouteFails, RouteSucceeds, SendHead,
         SendOuterHead, StreamEscapes, EndStream, Teardown

(* The server only continues what it has begun.                            *)
LEMMA OnwardStep ==
    ASSUME ServerInv, ServerActs
    PROVE  Onward
<1> USE DEF server
<1>0. PointInv /\ produced \in Seq(Frames)
  BY DEF ServerInv, ServerTypes
<1>1. UNCHANGED <<call, client, network>>
  BY DEF ServerActs, ServerStep, Receive, Misroute, Door, RouteFails, RouteSucceeds, SendHead,
         SendOuterHead, SendBody, NextDelta, Complete, StreamFails, StreamEscapes, EndStream,
         Teardown, NoticeDisconnect, Crash, Hang
<1>2. id # NoId => id' = id
  <2>1. ~Receive => id' = id
    BY DEF ServerActs, ServerStep, Misroute, Door, RouteFails, RouteSucceeds, Raise, Escape,
           SendHead, SendOuterHead, SendBody, NextDelta, Complete, StreamFails, StreamEscapes,
           EndStream, Teardown, NoticeDisconnect, Crash, Hang
  <2>2. Receive => id = NoId
    BY DEF Receive, ServerInv, PointInv
  <2> QED
    BY <2>1, <2>2
<1>3. failure # NoFailure => failure' = failure
  BY <1>0 DEF PointInv, ServerActs, ServerStep, Receive, Misroute, Door, RouteFails, RouteSucceeds,
              SendHead, SendOuterHead, SendBody, NextDelta, Complete, StreamFails,
              StreamEscapes, EndStream, Teardown, NoticeDisconnect, Crash, Hang
<1>4. head # NoHead => head' = head
  BY <1>0 DEF PointInv, ServerActs, ServerStep, Receive, Misroute, Door, RouteFails, RouteSucceeds,
              Raise, Escape, SendHead, SendOuterHead, SendBody, NextDelta, Complete, StreamFails,
              StreamEscapes, EndStream, Teardown, NoticeDisconnect, Crash, Hang
<1>5. ended => UNCHANGED <<id, failure, produced, ended>>
  BY <1>0 DEF PointInv, ServerActs, ServerStep, Receive, Misroute, Door, RouteFails, RouteSucceeds,
              SendHead, SendOuterHead, SendBody, NextDelta, Complete, StreamFails,
              StreamEscapes, EndStream, Teardown, NoticeDisconnect, Crash, Hang
<1>6. CASE SendBody
  <2>1. produced = <<>> /\ BodyFrame \in Frames
    BY <1>0, <1>6, HeadFacts DEF SendBody, PointInv, ServerInv
  <2>2. produced' = Append(produced, BodyFrame)
    <3>1. Append(<<>>, BodyFrame) = <<BodyFrame>>
      OBVIOUS
    <3> QED
      BY <1>6, <2>1, <3>1 DEF SendBody
  <2> QED
    BY <1>1, <1>3, <1>5, <2>2, <1>2, <1>4, <2>1 DEF Onward
<1>7. CASE NextDelta \/ Complete \/ StreamFails
  <2>1. srv = "events"
    BY <1>7 DEF NextDelta, Complete, StreamFails
  <2>2. \A n \in 1..Len(produced) : IsDelta(produced[n])
    BY <2>1 DEF ServerInv, PointInv, BodyInv
  <2>3. TextOf(produced) \in Seq(Pieces) /\ id \in Ids
    BY <1>0, <2>2, TextFacts DEF ServerInv, ServerTypes
  <2>4. \E x \in Frames : produced' = Append(produced, x)
    BY <1>7, <2>3, FrameFacts DEF NextDelta, SendDelta, Complete, StreamFails
  <2>5. ~(produced # <<>> /\ IsFailed(produced[Len(produced)]))
    BY <1>0, <2>2, <2>3, FrameFacts DEF IsFailed
  <2> QED
    BY <1>1, <1>3, <1>5, <2>5, <1>2, <1>4, <2>4 DEF Onward
<1>8. CASE ~SendBody /\ ~NextDelta /\ ~Complete /\ ~StreamFails
  <2>1. produced' = produced
    BY <1>8 DEF ServerActs, ServerStep, Receive, Misroute, Door, RouteFails, RouteSucceeds, Raise,
                Escape, SendHead, SendOuterHead, StreamEscapes, EndStream, Teardown,
                NoticeDisconnect, Crash, Hang
  <2> QED
    BY <1>1, <1>3, <1>5, <1>2, <1>4, <2>1 DEF Onward
<1> QED
  BY <1>6, <1>7, <1>8

(* What a head that was sent says.                                         *)
LEMMA SentHead ==
    ASSUME ServerInv, head # NoHead
    PROVE  /\ id # NoId /\ head.id = id
           /\ head.type = IF Streams THEN "events" ELSE "json"
           /\ failure = NoFailure => head.status \in {200, 201}
           /\ Streams => head.status = 200
           /\ failure # NoFailure => /\ head.status = failure.status
                                     /\ failure # Redirected => head.status >= 400
                                     /\ failure = Redirected => head.status = 307
                                     /\ head.retryAfter = (failure.status = 429)
<1>1. id # NoId
  BY DEF ServerInv, PointInv
<1>2. CASE failure = NoFailure
  <2>1. head = Success
    BY <1>2 DEF ServerInv, HeadInv
  <2> QED
    BY <1>1, <1>2, <2>1 DEF Success, HeadOf, Streams
<1>3. CASE failure # NoFailure
  <2>1. head = HeadOf(failure.status, "json") /\ ~Streams
    BY <1>3 DEF ServerInv, HeadInv, Streams
  <2>2. /\ failure # Redirected => failure.status >= 400
        /\ failure = Redirected => failure.status = 307
    BY <1>3, FailureFacts DEF ServerInv, ServerTypes
  <2> QED
    BY <1>1, <1>3, <2>1, <2>2 DEF HeadOf
<1> QED
  BY <1>2, <1>3

-----------------------------------------------------------------------------
(* Whatever the server does, what a client has seen of it stays true.      *)
LEMMA ClientKept ==
    ASSUME ServerInv, ClientInv, Onward
    PROVE  ClientInv'
<1> USE DEF client, network
<1>1. /\ UNCHANGED <<call, at, parser, read, given, outcome, link, page>>
      /\ produced \in Seq(Frames) /\ produced' \in Seq(Frames)
      /\ Len(produced) <= Len(produced')
      /\ \A n \in 1..Len(produced) : produced'[n] = produced[n]
  <2>1. produced \in Seq(Frames)
    BY DEF ServerInv, ServerTypes
  <2> QED
    BY <2>1, PrefixFacts DEF Onward
<1>2. ClientTypes'
  BY <1>1 DEF ClientInv, ClientTypes
<1>3. head # NoHead => head' = head
  BY DEF Onward
<1>4. ArrivalInv'
  BY <1>1, <1>3 DEF ClientInv, ArrivalInv, NoHead
<1>5. GivenIsSent'
  BY <1>1 DEF ClientInv, ClientTypes, GivenIsSent
<1>6. LineInv'
  <2>1. Len(given) \in Nat
    BY DEF ClientInv, ClientTypes
  <2> QED
    BY <1>1, <2>1 DEF ClientInv, LineInv, Between
<1>7. SuccessIsWhole'
  <2>1. ended => UNCHANGED <<id, failure, produced, ended>>
    BY DEF Onward
  <2> QED
    BY <1>1, <2>1 DEF ClientInv, SuccessIsWhole, Completed
<1>8. ErrorsAreTrue'
  <2>1. ASSUME id # NoId, FromServer(outcome) PROVE FromServer(outcome)' /\ id' # NoId
    <3>1. id' = id
      BY <2>1 DEF Onward
    <3>2. CASE /\ failure \notin {NoFailure, Redirected, NotRouted}
               /\ outcome = Error(failure.code, failure.status, id, failure.status = 429)
      <4>1. failure' = failure /\ outcome' = outcome
        BY <1>1, <3>2 DEF Onward
      <4> QED
        BY <2>1, <3>1, <3>2, <4>1 DEF FromServer
    <3>3. CASE /\ produced # <<>> /\ IsFailed(produced[Len(produced)])
               /\ outcome = Error("provider_error", 200, id, FALSE)
      BY <2>1, <1>1, <3>1, <3>3 DEF Onward, FromServer, IsFailed
    <3> QED
      BY <2>1, <3>2, <3>3 DEF FromServer, IsFailed
  <2>2. FromPage(outcome) => FromPage(outcome)'
    BY <1>1 DEF FromPage
  <2>3. ASSUME id # NoId, FromRouter(outcome) PROVE FromRouter(outcome)' /\ id' # NoId
    <3>1. NoFailure # Redirected /\ NoFailure # NotRouted
      BY DEF NoFailure, Redirected, NotRouted, Failure
    <3>2. id' = id /\ failure' = failure /\ outcome' = outcome
      BY <1>1, <2>3, <3>1 DEF Onward, FromRouter
    <3> QED
      BY <2>3, <3>2 DEF FromRouter
  <2> QED
    BY <1>1, <2>1, <2>2, <2>3 DEF ClientInv, ErrorsAreTrue
<1> QED
  BY <1>2, <1>5, <1>7, <1>4, <1>6, <1>8 DEF ClientInv

(* Steps that change nothing the server has.                               *)
LEMMA ServerKept ==
    ASSUME ServerInv, UNCHANGED <<call, server>>
    PROVE  ServerInv'
<1> USE DEF server
<1>1. ServerTypes' /\ PointInv'
  BY DEF ServerInv, ServerTypes, PointInv, Streams
<1>2. HeadInv' /\ BodyInv'
  BY SameAnswer DEF ServerInv, HeadInv, BodyInv, IsFailed
<1>3. LogInv'
  BY DEF ServerInv, LogInv
<1> QED
  BY <1>1, <1>2, <1>3 DEF ServerInv

(* A call that ends without an answer of the server.                       *)
LEMMA EndsWithout ==
    ASSUME ClientInv, at # "over", UNCHANGED <<call, server, given, read, parser>>, Close,
           NEW r, End(r), r = ConnectionError \/ r = [kind |-> "left"] \/ r = [kind |-> "refused"]
    PROVE  ClientInv'
<1> USE DEF server, Close, End
<1>1. r.kind \in {"raised", "left", "refused"} /\ (r.kind = "raised" => r = ConnectionError)
  BY DEF ConnectionError, Error
<1>2. ClientTypes'
  BY <1>1 DEF ClientInv, ClientTypes, Points
<1>3. ArrivalInv' /\ LineInv'
  BY DEF ArrivalInv, LineInv
<1>4. GivenIsSent' /\ SuccessIsWhole' /\ ErrorsAreTrue'
  BY <1>1 DEF ClientInv, GivenIsSent, SuccessIsWhole, ErrorsAreTrue
<1> QED
  BY <1>2, <1>3, <1>4 DEF ClientInv

(* A call that goes on.                                                    *)
LEMMA GoesOn ==
    ASSUME ClientInv, at # "over", at' # "over", UNCHANGED <<call, server, outcome>>,
           ClientTypes', ArrivalInv', LineInv', GivenIsSent'
    PROVE  ClientInv'
<1>1. outcome.kind = "none"
  BY DEF ClientInv, ArrivalInv, NotYet
<1> QED
  BY <1>1 DEF ClientInv, SuccessIsWhole, ErrorsAreTrue

(* The connection takes nothing from what was read.                        *)
LEMMA NetworkStep ==
    ASSUME ServerInv, ClientInv, Break \/ AnswerPage
    PROVE  ClientInv'
<1> USE DEF server, client, Waiting
<1>1. at # "over" /\ at' = at /\ UNCHANGED <<call, server, outcome, given, read, parser>>
  BY DEF Break, AnswerPage
<1>2. ClientTypes'
  BY <1>1 DEF ClientInv, ClientTypes, Break, AnswerPage
<1>3. ArrivalInv'
  BY <1>1 DEF ClientInv, ArrivalInv, Break, AnswerPage
<1>4. LineInv' /\ GivenIsSent'
  BY <1>1 DEF ClientInv, LineInv, Between, GivenIsSent
<1> QED
  BY <1>1, <1>3, <1>2, <1>4, GoesOn

(* The arguments are checked, and the connection is made or not.           *)
LEMMA CallStep ==
    ASSUME ServerInv, ClientInv, Call
    PROVE  ClientInv'
<1> USE DEF client, network, Call
<1>1. CASE at' = "head"
  <2>1. UNCHANGED <<outcome, network>>
    BY <1>1 DEF End
  <2>2. ClientTypes' /\ ArrivalInv' /\ LineInv' /\ GivenIsSent'
    BY <1>1, <2>1 DEF ClientInv, ClientTypes, ArrivalInv, LineInv, GivenIsSent, server,
                      Points, Waiting
  <2> QED
    BY <1>1, <2>1, <2>2, GoesOn
<1>2. CASE at' # "head"
  BY <1>2, EndsWithout
<1> QED
  BY <1>1, <1>2

(* The head tells a stream from an answer or a page.                       *)
LEMMA ReadHeadStep ==
    ASSUME ServerInv, ClientInv, ReadHead
    PROVE  ClientInv'
<1> USE DEF client, network, ReadHead, Waiting
<1>1. /\ UNCHANGED <<call, server, given, read, parser>>
      /\ at = "head" /\ given = <<>> /\ read = 0 /\ parser = Fresh
      /\ link = "page" => page \in Pages
  BY DEF ClientInv, ClientTypes, ArrivalInv
<1>2. \/ link = "page" /\ Arrived = PageHead
      \/ link = "up" /\ Arrived = head /\ head # NoHead
  BY DEF Arrived
<1>3. CASE at' \in {"body", "events"} /\ UNCHANGED <<outcome, network>>
  <2>1. ClientTypes' /\ LineInv' /\ GivenIsSent'
    BY <1>1, <1>3 DEF ClientInv, ClientTypes, Points, LineInv, Between, GivenIsSent
  <2>2. call.method # "stream" \/ Arrived.status >= 400 <=> at' = "body"
    BY <1>3 DEF End
  <2>3. at' = "events" => Arrived.type = "events"
    BY <1>3, <2>2 DEF End
  <2>4. ArrivalInv'
    <3>1. CASE link = "page" /\ Arrived = PageHead
      BY <1>1, <1>3, <2>2, <2>3, <3>1 DEF ArrivalInv, ClientInv, PageHead
    <3>2. CASE link = "up" /\ Arrived = head /\ head # NoHead
      <4>1. at' = "body" => head.type = "json"
        BY <2>2, <3>2, SentHead DEF Streams
      <4> QED
        BY <1>1, <1>3, <2>2, <2>3, <3>2, <4>1 DEF ArrivalInv, ClientInv, server
    <3> QED
      BY <1>2, <3>1, <3>2
  <2> QED
    BY <1>1, <1>3, <2>1, <2>4, GoesOn
<1>4. CASE at' = "over"
  <2>1. /\ call.method = "stream" /\ ~(Arrived.status >= 400) /\ Arrived.type # "events"
        /\ outcome' = Invalid(Arrived.status, Arrived.id) /\ link' = "closed" /\ page' = page
    BY <1>4 DEF End, Close
  <2>2. outcome'.kind = "raised"
    BY <2>1 DEF Invalid, Error
  <2>3. ErrorsAreTrue'
    <3>1. CASE link = "page" /\ Arrived = PageHead
      <4>1. page.status = 200
        BY <1>1, <2>1, <3>1 DEF PageHead, Pages
      <4>2. outcome' = Invalid(200, NoId)
        BY <2>1, <3>1, <4>1 DEF PageHead
      <4> QED
        BY <2>1, <2>2, <4>1, <4>2 DEF ErrorsAreTrue, FromPage
    <3>2. CASE link = "up" /\ Arrived = head /\ head # NoHead
      <4>1. failure = Redirected /\ head.status = 307 /\ head.id = id /\ id # NoId
        BY <2>1, <3>2, SentHead DEF Streams
      <4>2. outcome' = Invalid(307, id) /\ failure' = failure /\ id' = id
        BY <1>1, <2>1, <3>2, <4>1 DEF server
      <4> QED
        BY <2>2, <4>1, <4>2 DEF ErrorsAreTrue, FromRouter
    <3> QED
      BY <1>2, <3>1, <3>2
  <2>5. ClientTypes'
    BY <1>1, <1>4, <2>1, <2>2 DEF ClientInv, ClientTypes, Points
  <2>6. ArrivalInv' /\ LineInv' /\ GivenIsSent'
    BY <1>1, <1>4, <2>1 DEF ClientInv, ArrivalInv, LineInv, GivenIsSent, server
  <2>7. SuccessIsWhole'
    BY <2>2 DEF SuccessIsWhole
  <2> QED
    BY <2>3, <2>5, <2>6, <2>7 DEF ClientInv
<1> QED
  BY <1>3, <1>4 DEF End

(* An answer that is read to its end.                                      *)
LEMMA ReadBodyStep ==
    ASSUME ServerInv, ClientInv, ReadBody
    PROVE  ClientInv'
<1> USE DEF client, network, ReadBody, Waiting
<1>1. /\ UNCHANGED <<call, server, read, parser>>
      /\ at = "body" /\ at' = "over" /\ given = <<>>
      /\ link = "page" => page \in Pages
      /\ link' = "closed" /\ page' = page
  BY DEF ClientInv, ClientTypes, ArrivalInv, End, Close
<1>2. ArrivalInv' /\ LineInv'
  BY <1>1 DEF ArrivalInv, LineInv
<1>3. CASE link = "page"
  <2>1. /\ Arrived.status = page.status /\ Arrived.id = NoId /\ ~Arrived.retryAfter
        /\ Body = page.body
        /\ page \in Pages /\ page.status \in {200, 503}
        /\ page.body.shape \notin {"error", "response"}
    <3>1. page \in Pages /\ page.status \in {200, 503} /\ page.body \in {Page, GarbledPage}
      BY <1>1, <1>3 DEF Pages
    <3>2. Arrived = PageHead /\ Body = page.body
      BY <1>3, Zenon DEF Arrived, Body
    <3>3. /\ PageHead.status = page.status /\ PageHead.id = NoId
          /\ PageHead.retryAfter = FALSE
      BY DEF PageHead
    <3>4. Page.shape = "page" /\ GarbledPage.shape = "garbled page"
      BY DEF Page, GarbledPage
    <3>5. page.body.shape \notin {"error", "response"}
      BY <3>1, <3>4
    <3> QED
      BY <3>1, <3>2, <3>3, <3>5
  <2>2. /\ given' = given /\ outcome'.kind \in {"raised", "escaped"}
        /\ outcome'.kind = "raised" => FromPage(outcome)'
        /\ outcome'.kind = "escaped" => Undecodable(page.body)
    <3>1. CASE Undecodable(Body)
      <4>1. outcome' = Escaped /\ given' = given
        BY <3>1 DEF End
      <4> QED
        BY <2>1, <3>1, <4>1 DEF Escaped
    <3>2. CASE ~Undecodable(Body) /\ page.status = 200
      <4>1. outcome' = Invalid(200, NoId) /\ given' = given
        BY <2>1, <3>2 DEF End
      <4> QED
        BY <1>1, <3>2, <4>1 DEF FromPage, Invalid, Error
    <3>3. CASE ~Undecodable(Body) /\ page.status = 503
      <4>1. outcome' = Error("internal_error", 503, NoId, FALSE) /\ given' = given
        <5>1. outcome' = ErrorFromBody(Body, 503, NoId, Arrived.retryAfter) /\ given' = given
          BY <2>1, <3>3 DEF End
        <5>2. Arrived.retryAfter = FALSE
          <6>1. Arrived = PageHead
            BY <1>3, Zenon DEF Arrived
          <6> QED
            BY <6>1 DEF PageHead
        <5> QED
          BY ZenonT(40), <2>1, <5>1, <5>2 DEF ErrorFromBody
      <4> QED
        BY <1>1, <3>3, <4>1 DEF FromPage, Error
    <3> QED
      BY <2>1, <3>1, <3>2, <3>3
  <2>3. ClientTypes'
    BY <1>1, <2>2 DEF ClientInv, ClientTypes, Points
  <2>4. GivenIsSent' /\ SuccessIsWhole' /\ ErrorsAreTrue'
    <3>1. page # NoPage
      BY <2>1 DEF NoPage
    <3>2. ErrorsAreTrue'
      BY <1>1, <2>2, <3>1 DEF ErrorsAreTrue
    <3> QED
      BY <1>1, <2>2, <3>2 DEF ClientInv, GivenIsSent, SuccessIsWhole, server
  <2> QED
    BY <1>2, <2>3, <2>4 DEF ClientInv
<1>4. CASE link # "page"
  <2>1. /\ link = "up" /\ ended /\ Arrived = head /\ head # NoHead
        /\ head.type = "json" /\ ~Streams /\ produced = <<BodyFrame>> /\ Body = BodyFrame.body
    <3>1. link = "up" /\ ended /\ Arrived = head
      BY <1>4 DEF BodyIsThere, Arrived
    <3>2. head # NoHead
      BY <3>1 DEF ServerInv, BodyInv
    <3>3. head.type = "json" /\ ~Streams
      BY <1>1, <3>1, <3>2, SentHead DEF ClientInv, ArrivalInv
    <3>4. produced = <<BodyFrame>>
      BY <3>1, <3>2, <3>3 DEF ServerInv, BodyInv
    <3> QED
      BY <1>4, <3>2, <3>4, <3>1, <3>3 DEF Body
  <2>2. CASE failure # NoFailure
    <3>1. /\ head.status = failure.status /\ head.id = id /\ id # NoId
          /\ head.retryAfter = (failure.status = 429)
          /\ failure # Redirected => head.status >= 400
          /\ failure = Redirected => head.status = 307
      BY <2>1, <2>2, SentHead
    <3>2. given' = given /\ (FromServer(outcome)' \/ FromRouter(outcome)')
          /\ outcome'.kind = "raised"
      <4>0. failure' = failure /\ id' = id
        BY <1>1 DEF server
      <4>1. CASE failure = Redirected
        <5>1. Body.shape = "nothing"
          BY <2>1, <4>1, BodyFacts DEF Frame, Nothing
        <5>2. outcome' = Invalid(307, id) /\ given' = given
          BY <2>1, <3>1, <4>1, <5>1 DEF End, Undecodable
        <5> QED
          BY <4>0, <4>1, <5>2 DEF FromRouter, Invalid, Error
      <4>2. CASE failure = NotRouted
        <5>1. Body.shape = "detail"
          BY <2>1, <4>2, BodyFacts DEF Frame, Detail
        <5>2. head.status = 404 /\ head.status >= 400
          <6>1. failure.status = 404
            BY <4>2, FailureFacts
          <6> QED
            BY <3>1, <6>1
        <5>3. outcome' = ErrorFromBody(Body, 404, id, head.retryAfter) /\ given' = given
          BY <2>1, <3>1, <5>1, <5>2 DEF End, Undecodable
        <5>4. head.retryAfter = FALSE
          <6>1. failure.status # 429
            BY <3>1, <5>2
          <6>2. (failure.status = 429) = FALSE
            BY <6>1
          <6> QED
            BY <3>1, <6>2, Zenon
        <5>5. outcome' = Error("internal_error", 404, id, FALSE)
          BY <5>1, <5>3, <5>4 DEF ErrorFromBody
        <5>6. outcome'.kind = "raised"
          BY <5>5 DEF Error
        <5>7. FromRouter(outcome)'
          BY <4>0, <4>2, <5>5 DEF FromRouter
        <5> QED
          BY <5>3, <5>6, <5>7
      <4>3. CASE failure \notin {NoFailure, Redirected, NotRouted}
        <5>1. Body = Envelope(failure.code, id)
          BY <2>1, <4>3, BodyFacts DEF ErrorFrame, Frame
        <5>2. /\ outcome' = ErrorFromBody(Body, head.status, head.id, head.retryAfter)
              /\ given' = given
          <6>1. ~Undecodable(Body) /\ head.status >= 400
            BY <3>1, <4>3, <5>1 DEF Undecodable, Envelope
          <6> QED
            BY <2>1, <6>1 DEF End
        <5>3. outcome' = Error(failure.code, failure.status, id, failure.status = 429)
          BY <3>1, <5>1, <5>2 DEF ErrorFromBody, Envelope
        <5>4. outcome'.kind = "raised"
          BY <5>3 DEF Error
        <5> QED
          BY <4>0, <4>3, <5>2, <5>3, <5>4 DEF FromServer
      <4> QED
        BY <2>2, <4>1, <4>2, <4>3
    <3>3. ClientTypes'
      BY <1>1, <3>2 DEF ClientInv, ClientTypes, Points
    <3>4. GivenIsSent' /\ SuccessIsWhole'
      BY <1>1, <3>2 DEF ClientInv, GivenIsSent, SuccessIsWhole, server
    <3>5. ErrorsAreTrue'
      <4>1. id' # NoId
        BY <1>1, <3>1 DEF server
      <4> QED
        BY <3>2, <4>1 DEF ErrorsAreTrue
    <3> QED
      BY <1>2, <3>3, <3>4, <3>5 DEF ClientInv
  <2>3. CASE failure = NoFailure
    <3>1. BodyFrame = CompletedFrame(<<>>) /\ Body = ResponseBody(<<>>)
      BY <2>1, <2>3, BodyFacts DEF CompletedFrame, Frame
    <3>2. ~(head.status >= 400) /\ head.id = id /\ id # NoId
      BY <2>1, <2>3, SentHead
    <3>3. outcome' = [kind |-> "returned", id |-> id] /\ given' = produced
      <4>1. Body.shape = "response" /\ Body.text = <<>>
        BY <3>1 DEF ResponseBody
      <4>2. outcome' = [kind |-> "returned", id |-> id] /\ given' = <<CompletedFrame(Body.text)>>
        BY <2>1, <3>2, <4>1 DEF End, Undecodable
      <4> QED
        BY <2>1, <3>1, <4>1, <4>2
    <3>4. ClientTypes'
      BY <1>1, <3>3 DEF ClientInv, ClientTypes, Points, ServerInv, ServerTypes
    <3>5. produced[1].event = "response.completed" /\ Len(produced) = 1
          /\ produced[1].body.text = <<>>
      BY <2>1, <3>1 DEF CompletedFrame, Frame, ResponseBody
    <3>6. GivenIsSent' /\ ErrorsAreTrue'
      BY <1>1, <3>3, <3>5 DEF GivenIsSent, ErrorsAreTrue, server
    <3>7. TextOf(SubSeq(produced, 1, 0)) = <<>>
      BY DEF TextOf, ServerInv, ServerTypes
    <3>8. SuccessIsWhole'
      BY <1>1, <2>1, <2>3, <3>2, <3>3, <3>5, <3>7 DEF SuccessIsWhole, Completed, server
    <3> QED
      BY <1>2, <3>4, <3>6, <3>8 DEF ClientInv
  <2> QED
    BY <2>2, <2>3
<1> QED
  BY <1>3, <1>4

(* The frame that is being read.                                           *)
LEMMA CurrentFrame ==
    ASSUME ServerInv, ClientInv, at = "events", LinesThere, NEW k, k = Len(given)
    PROVE  /\ k \in Nat /\ k < Len(produced)
           /\ k + 1 \in 1..Len(produced) /\ produced[k + 1] \in Frames
           /\ Between(k) /\ Streams /\ head # NoHead
<1>1. k \in Nat /\ Len(produced) \in Nat /\ read \in Nat
  BY DEF ServerInv, ServerTypes, ClientInv, ClientTypes
<1>2. Between(k) /\ read < 3 * Len(produced)
  BY DEF ClientInv, LineInv, LinesThere, LinesPerFrame
<1>3. k < Len(produced)
  BY <1>1, <1>2 DEF Between
<1>4. head.type = "events" /\ head # NoHead
  BY DEF ClientInv, ArrivalInv, NoHead
<1>5. Streams
  BY <1>4, SentHead
<1> QED
  BY <1>1, <1>3, <1>5, <1>2, <1>4 DEF ServerInv, ServerTypes

(* A line moves the parser within the frame, or past its end.              *)
LEMMA ReadLineStep ==
    ASSUME ServerInv, ClientInv, ReadLine
    PROVE  ClientInv'
<1> USE DEF client, network, Waiting
<1> DEFINE k == Len(given)
           frame == produced[k + 1]
<1>1. /\ UNCHANGED <<call, server>> /\ at = "events" /\ LinesThere
      /\ read' = read + 1 /\ parser' = Feed(parser, produced, read')
  BY DEF ReadLine
<1>2. /\ k \in Nat /\ k < Len(produced) /\ k + 1 \in 1..Len(produced) /\ frame \in Frames
      /\ Between(k) /\ Streams /\ head # NoHead
  BY <1>1, CurrentFrame
<1>3. /\ produced \in Seq(Frames) /\ given \in Seq(Frames) /\ read \in Nat
      /\ link = "up" /\ outcome = NotYet
  BY <1>1 DEF ServerInv, ServerTypes, ClientInv, ClientTypes, ArrivalInv, LinesThere
<1>4. frame.event \in Events /\ frame.body \in Bodies /\ frame = Frame(frame.event, frame.body)
  BY <1>2 DEF Frames, Frame
<1> HIDE DEF k, frame
<1>5. CASE read = 3 * k /\ parser = Fresh
  <2>1. FieldOfLine(read') = "event" /\ FrameOfLine(produced, read') = frame
    BY <1>1, <1>2, <1>5, LineFacts DEF frame
  <2>2. parser' = [event |-> frame.event, data |-> <<>>] /\ read' = 3 * k + 1
    BY <1>1, <1>5, <2>1 DEF Feed, Fresh
  <2>3. UNCHANGED <<at, given, outcome, network>>
    BY <2>1 DEF ReadLine, Completes
  <2>4. ClientTypes'
    BY <1>2, <1>3, <1>4, <2>2, <2>3 DEF ClientInv, ClientTypes
  <2>5. LineInv'
    BY <1>1, <1>2, <2>2, <2>3 DEF LineInv, Between, k, frame, server
  <2>6. ArrivalInv' /\ GivenIsSent'
    BY <1>1, <2>3 DEF ClientInv, ArrivalInv, GivenIsSent, server
  <2> QED
    BY <1>1, <2>4, <2>6, <2>3, <2>5, GoesOn
<1>6. CASE read = 3 * k + 1 /\ parser = [event |-> frame.event, data |-> <<>>]
  <2>1. FieldOfLine(read') = "data" /\ FrameOfLine(produced, read') = frame
    <3>1. read' = 3 * k + 2
      BY <1>1, <1>2, <1>6
    <3> QED
      BY <1>2, <3>1, LineFacts DEF frame
  <2>2. parser' = [event |-> frame.event, data |-> <<frame.body>>] /\ read' = 3 * k + 2
    <3>1. Append(<<>>, frame.body) = <<frame.body>>
      OBVIOUS
    <3> QED
      BY <1>1, <1>2, <1>6, <2>1, <3>1 DEF Feed
  <2>3. UNCHANGED <<at, given, outcome, network>>
    BY <2>1 DEF ReadLine, Completes
  <2>4. ClientTypes'
    BY <1>2, <1>3, <1>4, <2>2, <2>3 DEF ClientInv, ClientTypes
  <2>5. LineInv'
    BY <1>1, <1>2, <2>2, <2>3 DEF LineInv, Between, k, frame, server
  <2>6. ArrivalInv' /\ GivenIsSent'
    BY <1>1, <2>3 DEF ClientInv, ArrivalInv, GivenIsSent, server
  <2> QED
    BY <1>1, <2>4, <2>6, <2>3, <2>5, GoesOn
<1>7. CASE read = 3 * k + 2 /\ parser = [event |-> frame.event, data |-> <<frame.body>>]
  <2>1. FieldOfLine(read') = "blank" /\ read' = 3 * (k + 1)
    <3>1. read' = 3 * k + 3
      BY <1>1, <1>2, <1>7
    <3> QED
      BY <1>2, <3>1, LineFacts
  <2>2. parser' = Fresh /\ Completes(parser, read')
    BY <1>1, <1>7, <2>1 DEF Feed, Finish, Completes
  <2>3. ItemOf(parser) = frame /\ IsJson(parser)
    BY <1>4, <1>7 DEF ItemOf, IsJson
  <2>4. CASE IsItem(parser)
    <3>1. given' = Append(given, frame) /\ UNCHANGED <<at, outcome, network>>
      BY <2>2, <2>3, <2>4 DEF ReadLine
    <3>2. /\ given' \in Seq(Frames) /\ Len(given') = k + 1 /\ given'[k + 1] = frame
          /\ \A n \in 1..k : given'[n] = given[n]
      BY <1>2, <1>3, <3>1, PrefixFacts DEF k
    <3>3. ClientTypes'
      BY <1>1, <1>3, <2>2, <3>1, <3>2 DEF ClientInv, ClientTypes, Fresh
    <3>4. LineInv'
      BY <2>1, <2>2, <3>2 DEF LineInv, Between
    <3>5. frame.event # "response.error"
      BY <1>7, <2>4 DEF IsItem
    <3>6. GivenIsSent'
      BY <1>1, <1>2, <3>2, <3>5 DEF ClientInv, GivenIsSent, k, frame, server
    <3>7. ArrivalInv'
      BY <1>1, <3>1 DEF ClientInv, ArrivalInv, server
    <3> QED
      BY <1>1, <3>1, <3>3, <3>4, <3>6, <3>7, GoesOn
  <2>5. CASE ~IsItem(parser)
    <3>1. /\ at' = "over" /\ outcome' = FrameError(parser, head.id)
          /\ given' = given /\ link' = "closed" /\ page' = page
      BY <2>2, <2>5 DEF ReadLine, End, Close
    <3>2. k + 1 = Len(produced) /\ IsFailed(frame)
      <4>1. \/ IsDelta(frame)
            \/ k + 1 = Len(produced) /\ IsFailed(frame)
            \/ \E t : frame = CompletedFrame(t)
        BY <1>2 DEF ServerInv, BodyInv, frame
      <4>2. ~IsDelta(frame)
        BY <1>7, <2>3, <2>5 DEF IsItem, IsDelta, DeltaFrame, DeltaBody, Frame
      <4>3. ~\E t : frame = CompletedFrame(t)
        BY <1>7, <2>3, <2>5 DEF IsItem, CompletedFrame, ResponseBody, Frame
      <4> QED
        BY <4>1, <4>2, <4>3
    <3>3. outcome' = Error("provider_error", 200, id, FALSE)
      BY <1>7, <2>3, <3>1, <3>2
         DEF FrameError, IsFailed, ErrorFrame, Frame, ErrorFromBody, Envelope
    <3>4. id # NoId /\ id' = id /\ produced' = produced
      BY <1>1, <1>2, SentHead DEF server
    <3>5. FromServer(outcome)' /\ outcome'.kind = "raised"
      BY <1>2, <3>2, <3>3, <3>4 DEF FromServer, IsFailed, Error, frame
    <3>6. ClientTypes'
      BY <1>3, <2>1, <2>2, <3>1, <3>5, <1>1 DEF ClientInv, ClientTypes, Points, Fresh
    <3>7. ArrivalInv' /\ LineInv'
      BY <3>1 DEF ArrivalInv, LineInv
    <3>8. GivenIsSent' /\ SuccessIsWhole' /\ ErrorsAreTrue'
      BY <3>1, <3>4, <3>5 DEF ClientInv, GivenIsSent, SuccessIsWhole, ErrorsAreTrue
    <3> QED
      BY <3>6, <3>7, <3>8 DEF ClientInv
  <2> QED
    BY <2>4, <2>5
<1> QED
  BY <1>2, <1>5, <1>6, <1>7 DEF Between, frame

(* A body that ends has been read up to its last frame.                    *)
LEMMA EndOfBodyStep ==
    ASSUME ServerInv, ClientInv, EndOfBody
    PROVE  ClientInv'
<1> USE DEF client, network, EndOfBody, Waiting
<1>1. /\ UNCHANGED <<call, read>> /\ UNCHANGED server /\ at = "events" /\ ended
      /\ parser' = Fresh
  BY DEF Finish
<1>2. /\ produced \in Seq(Frames) /\ given \in Seq(Frames) /\ read \in Nat
  BY DEF ServerInv, ServerTypes, ClientInv, ClientTypes
<1>3. Len(given) = Len(produced) /\ parser = Fresh
  <2>1. Len(given) <= Len(produced) /\ Between(Len(given)) /\ ~(read < 3 * Len(produced))
    BY <1>1 DEF ClientInv, GivenIsSent, LineInv, LinesThere, LinesPerFrame
  <2> QED
    BY <1>2, <2>1 DEF Between
<1>4. given = produced /\ \A n \in 1..Len(produced) : produced[n].event # "response.error"
  BY <1>2, <1>3 DEF ClientInv, GivenIsSent
<1>5. /\ at' = "over" /\ outcome' = [kind |-> "stopped", id |-> head.id]
      /\ given' = given /\ link' = "closed" /\ page' = page
  BY <1>3 DEF Fresh, End, Close
<1>6. head # NoHead /\ Streams /\ head.id = id /\ id # NoId
  <2>1. head # NoHead /\ head.type = "events"
    BY <1>1 DEF ClientInv, ArrivalInv, NoHead
  <2> QED
    BY <2>1, SentHead
<1>7. produced # <<>> /\ Len(produced) \in 1..Len(produced)
      /\ produced[Len(produced)] = CompletedFrame(TextOf(SubSeq(produced, 1, Len(produced) - 1)))
  <2>1. produced # <<>> /\ ~IsDelta(produced[Len(produced)])
    BY <1>1, <1>6 DEF ServerInv, BodyInv
  <2>2. Len(produced) \in 1..Len(produced)
    BY <1>2, <2>1
  <2>3. ~IsFailed(produced[Len(produced)])
    BY <1>4, <2>2 DEF IsFailed, ErrorFrame, Frame
  <2> QED
    BY <1>6, <2>1, <2>2, <2>3 DEF ServerInv, BodyInv
<1>8. /\ Completed
      /\ produced[Len(produced)].body.text = TextOf(SubSeq(produced, 1, Len(produced) - 1))
  BY <1>2, <1>7 DEF Completed, CompletedFrame, Frame, ResponseBody
<1>9. ClientTypes'
  BY <1>1, <1>2, <1>5 DEF ClientInv, ClientTypes, Points, Fresh
<1>10. ArrivalInv' /\ LineInv'
  BY <1>5 DEF ArrivalInv, LineInv
<1>11. GivenIsSent' /\ ErrorsAreTrue'
  BY <1>1, <1>5 DEF ClientInv, GivenIsSent, ErrorsAreTrue, server
<1>12. SuccessIsWhole'
  BY <1>1, <1>4, <1>5, <1>6, <1>8 DEF SuccessIsWhole, Completed, Streams, server
<1> QED
  BY <1>9, <1>11, <1>10, <1>12 DEF ClientInv

(* The other ways in which a call ends.                                    *)
LEMMA EndingStep ==
    ASSUME ServerInv, ClientInv, LoseConnection \/ TimeOut \/ Leave
    PROVE  ClientInv'
<1>1. at # "over" /\ UNCHANGED <<call, server, given, read, parser>> /\ Close
      /\ (End(ConnectionError) \/ End([kind |-> "left"]))
  BY DEF LoseConnection, TimeOut, Leave, Waiting
<1> QED
  BY <1>1, EndsWithout

-----------------------------------------------------------------------------
(* The conjunction of both halves is an invariant: a server step keeps its *)
(* own half and continues what the client has seen, and any other step     *)
(* leaves the server's half as it was.                                     *)
THEOREM ExchangeInvariance == Spec => []ExchangeInv
<1>1. ExchangeInv /\ [Next]_vars => ExchangeInv'
  <2> SUFFICES ASSUME ServerInv, ClientInv, [Next]_vars PROVE ServerInv' /\ ClientInv'
    BY DEF ExchangeInv
  <2>1. CASE ServerActs
    BY <2>1, ServerTypesStep, PointStep, HeadStep, BodyStep, OnwardStep, ClientKept DEF ServerInv
  <2>2. CASE ClientActs
    <3>1. UNCHANGED <<call, server>>
      BY <2>2 DEF ClientActs, ClientStep, Break, AnswerPage, Call, ReadHead, ReadBody,
                  ReadLine, EndOfBody, LoseConnection, TimeOut, Leave, server
    <3>2. ClientInv'
      BY <2>2, NetworkStep, CallStep, ReadHeadStep, ReadBodyStep, ReadLineStep, EndOfBodyStep,
         EndingStep DEF ClientActs, ClientStep
    <3> QED
      BY <3>1, <3>2, ServerKept
  <2>3. CASE UNCHANGED vars
    <3>1. UNCHANGED <<call, client, network>> /\ UNCHANGED server
      BY <2>3 DEF vars
    <3>2. Onward
      BY <3>1 DEF Onward, server
    <3> QED
      BY <3>1, <3>2, ServerKept, ClientKept
  <2> QED
    BY <2>1, <2>2, <2>3 DEF Next, ServerActs, ClientActs, Idle
<1> QED
  BY InitHasInv, <1>1, PTL DEF Spec

(* Types, of every string that a stream or a body may be made of.          *)
THEOREM ExchangeTypeCorrect == Spec => []TypeOK
<1>1. ExchangeInv => TypeOK
  <2> SUFFICES ASSUME ServerInv, ClientInv PROVE TypeOK
    BY DEF ExchangeInv
  <2>1. \A n \in 1..Len(produced) : produced[n].event \in Events
    <3>1. \A x \in Frames : x.event \in Events
      BY DEF Frames
    <3> QED
      BY <3>1 DEF ServerInv, ServerTypes
  <2>2. parser.event \in Events \cup {"message"} /\ Len(parser.data) <= 1
    <3>1. Len(<<>>) <= 1 /\ \A b \in Bodies : Len(<<b>>) <= 1
      OBVIOUS
    <3>2. parser.data = <<>> \/ \E b \in Bodies : parser.data = <<b>>
      BY DEF ClientInv, ClientTypes
    <3>3. Len(parser.data) <= 1
      BY <3>1, <3>2, Zenon
    <3> QED
      BY <3>3 DEF ClientInv, ClientTypes
  <2> QED
    BY <2>1, <2>2 DEF TypeOK, ServerInv, ServerTypes, ClientInv, ClientTypes
<1> QED
  BY ExchangeInvariance, <1>1, PTL

(* SseParser and _iter_frames: for a stream of any length, what the caller *)
(* is given is a prefix of what was sent, without an error in it.          *)
THEOREM EveryPrefixIsSent == Spec => []GivenIsSent
<1>1. ExchangeInv => GivenIsSent
  BY DEF ExchangeInv, ClientInv
<1> QED
  BY ExchangeInvariance, <1>1, PTL

(* stream(), create() and the methods of prompts: a call that ends well    *)
(* has the whole response, whatever happened to server and connection.     *)
THEOREM NoFalseSuccess == Spec => []SuccessIsWhole
<1>1. ExchangeInv => SuccessIsWhole
  BY DEF ExchangeInv, ClientInv
<1> QED
  BY ExchangeInvariance, <1>1, PTL

(* exception_handlers.py and error_from_body: an error with a status is    *)
(* the one that was raised for this request, the router's answer to its    *)
(* path, or a page's; only a page that is not UTF-8 raises anything else.  *)
THEOREM NoFalseError == Spec => []ErrorsAreTrue
<1>1. ExchangeInv => ErrorsAreTrue
  BY DEF ExchangeInv, ClientInv
<1> QED
  BY ExchangeInvariance, <1>1, PTL

(* RequestContextMiddleware: one record for a request, with the status     *)
(* that was sent.                                                          *)
THEOREM LogIsTrue == Spec => []LoggedAsSent
<1>1. ExchangeInv => LoggedAsSent
  <2> SUFFICES ASSUME ServerInv PROVE LoggedAsSent
    BY DEF ExchangeInv
  <2>1. Len(<<>>) <= 1 /\ Len(<<status>>) <= 1 /\ <<status>>[1] = status
    OBVIOUS
  <2>2. LogInv /\ (logged # <<>> => logged = <<status>>)
    BY DEF ServerInv, LogInv
  <2>3. Len(logged) <= 1
    BY <2>1, <2>2, Zenon
  <2>4. logged # <<>> /\ head # NoHead => logged[1] = head.status
    BY <2>1, <2>2 DEF LogInv
  <2> QED
    BY <2>2, <2>3, <2>4 DEF LogInv, LoggedAsSent
<1> QED
  BY ExchangeInvariance, <1>1, PTL
====
