--------------------------------- MODULE Wire ---------------------------------
(***************************************************************************)
(* One connection between a client and the coordinator: Client::request    *)
(* and the typed calls around it, frames, TcpConnection, serve and         *)
(* dispatch of the server.                                                 *)
(*                                                                         *)
(* A stream is a sequence of chunks, the headers and payloads of frames.   *)
(* What arrives may be damaged, and the connection may break.  CRC-32 is   *)
(* taken to tell damaged bytes from intact ones.  Handlers of the          *)
(* coordinator succeed or fail; what they do is in module Coordinator.     *)
(* Messages have every shape that WireFormat knows for their layout.       *)
(***************************************************************************)
EXTENDS MessageCodecs, FiniteSets

CONSTANTS
  MaxRequests,   \* bound: requests on the connection
  MaxDamages,    \* bound: damaged chunks
  Repeated,      \* bound: the types that are sent more than once, and damaged
  None

ASSUME BoundsAssumption == MaxRequests \in Nat /\ MaxDamages \in Nat /\ IsFiniteSet(Repeated)

VARIABLES
  open,       \* whether the connection is open
  c2s, s2c,   \* the two streams
  sent,       \* the number of requests so far, the last correlation given out
  asked,      \* the last request: [type, shape, correlation], or None
  handled,    \* what the server made of the last frame it dispatched, or None
  answered,   \* the reply it made: [type, shape], or None
  result,     \* what the call returned: "none" yet, "ok", "error" of the server, "failed"
  received,   \* the reply as the client decoded it, or None
  damages,    \* history: chunks damaged so far
  image       \* the last record of a state image written and read: [type, shape, outcome], or None

vars == <<open, c2s, s2c, sent, asked, handled, answered, result, received, damages, image>>

-----------------------------------------------------------------------------
(***************************************************************************)
(* Message types.                                                          *)
(***************************************************************************)
MessageType ==
  <<"HELLO", "HELLO_ACK", "REGISTER_WORKER", "REGISTER_ACK", "CLAIM_TRIAL", "CLAIM_RESULT",
    "PUBLISH_OBSERVATION", "PUBLISH_ARTIFACT", "COMMIT_TRIAL", "FAIL_TRIAL", "HEARTBEAT", "ACK",
    "CREATE_EXPERIMENT", "CREATE_TRIAL", "CANCEL_TRIAL", "CANCEL_EXPERIMENT", "FINALIZE_EXPERIMENT",
    "ROLLBACK", "QUERY", "QUERY_RESULT", "SHUTDOWN", "ERROR_REPLY", "FORK_BRANCH",
    "CREATE_HYPOTHESIS", "REVISE_HYPOTHESIS">>

kMaxMessageType == Len(MessageType)

Number(type) == CHOOSE n \in DOMAIN MessageType : MessageType[n] = type

\* The calls of Client, and of ef_ctl through Client::request: the payload they send,
\* the type they wait for and how they decode it.
Calling(encode, reply, decode) == [encode |-> encode, reply |-> reply, decode |-> decode]

ClientCalls ==
  [HELLO |-> Calling(<< >>, "HELLO_ACK", decode_value_reply),
   REGISTER_WORKER |-> Calling(encode_RegisterWorkerRequest, "REGISTER_ACK", decode_register_reply),
   CLAIM_TRIAL |-> Calling(encode_ClaimTrialRequest, "CLAIM_RESULT", decode_claim_reply),
   PUBLISH_OBSERVATION |-> Calling(encode_PublishObservationRequest, "ACK", decode_status),
   PUBLISH_ARTIFACT |-> Calling(encode_PublishArtifactRequest, "ACK", decode_status),
   COMMIT_TRIAL |-> Calling(encode_CommitTrialRequest, "ACK", decode_status),
   FAIL_TRIAL |-> Calling(encode_FailTrialRequest, "ACK", decode_status),
   HEARTBEAT |-> Calling(encode_HeartbeatRequest, "ACK", decode_status),
   CANCEL_TRIAL |-> Calling(encode_CancelTrialRequest, "ACK", decode_status),
   CANCEL_EXPERIMENT |-> Calling(encode_CancelExperimentRequest, "ACK", decode_status),
   ROLLBACK |-> Calling(encode_RollbackRequest, "ACK", decode_status),
   CREATE_TRIAL |-> Calling(encode_CreateTrialRequest, "CREATE_TRIAL", decode_value_reply),
   FORK_BRANCH |-> Calling(encode_ForkBranchRequest, "FORK_BRANCH", decode_value_reply),
   REVISE_HYPOTHESIS |-> Calling(encode_ReviseHypothesisRequest, "REVISE_HYPOTHESIS", decode_value_reply),
   FINALIZE_EXPERIMENT |->
     Calling(encode_FinalizeExperimentRequest, "FINALIZE_EXPERIMENT", decode_decision_reply),
   QUERY |-> Calling(encode_query_request, "QUERY_RESULT", decode_query_result),
   SHUTDOWN |-> Calling(<< >>, "ACK", decode_status),
   CREATE_EXPERIMENT |-> Calling(<< >>, "CREATE_EXPERIMENT", decode_value_reply),
   CREATE_HYPOTHESIS |-> Calling(<< >>, "CREATE_HYPOTHESIS", decode_value_reply)]

\* The cases of dispatch: how the request is decoded, whether its handler can fail, the
\* type and the payload of the reply to a success.
Serving(decode, fails, reply, encode) ==
  [decode |-> decode, fails |-> fails, reply |-> reply, encode |-> encode]

WorkerCases ==
  [HELLO |-> Serving(<< >>, FALSE, "HELLO_ACK", encode_ValueReply),
   REGISTER_WORKER |-> Serving(decode_register_worker, TRUE, "REGISTER_ACK", encode_RegisterWorkerReply),
   CLAIM_TRIAL |-> Serving(decode_claim_trial, TRUE, "CLAIM_RESULT", encode_ClaimTrialReply),
   PUBLISH_OBSERVATION |-> Serving(decode_publish_observation, TRUE, "ACK", encode_Status),
   PUBLISH_ARTIFACT |-> Serving(decode_publish_artifact, TRUE, "ACK", encode_Status),
   COMMIT_TRIAL |-> Serving(decode_commit_trial, TRUE, "ACK", encode_Status),
   FAIL_TRIAL |-> Serving(decode_fail_trial, TRUE, "ACK", encode_Status),
   HEARTBEAT |-> Serving(decode_heartbeat, TRUE, "ACK", encode_Status)]

OperatorCases ==
  [CANCEL_TRIAL |-> Serving(decode_cancel_trial, TRUE, "ACK", encode_Status),
   CANCEL_EXPERIMENT |-> Serving(decode_cancel_experiment, TRUE, "ACK", encode_Status),
   ROLLBACK |-> Serving(decode_rollback, TRUE, "ACK", encode_Status),
   CREATE_TRIAL |-> Serving(decode_create_trial, TRUE, "CREATE_TRIAL", encode_ValueReply),
   FORK_BRANCH |-> Serving(decode_fork_branch, TRUE, "FORK_BRANCH", encode_ValueReply),
   REVISE_HYPOTHESIS |-> Serving(decode_revise_hypothesis, TRUE, "REVISE_HYPOTHESIS", encode_ValueReply),
   FINALIZE_EXPERIMENT |->
     Serving(decode_finalize_experiment, TRUE, "FINALIZE_EXPERIMENT", encode_decision_reply),
   QUERY |-> Serving(decode_query_request, FALSE, "QUERY_RESULT", encode_QueryResult),
   SHUTDOWN |-> Serving(<< >>, FALSE, "ACK", encode_Status)]

ServerCases == WorkerCases @@ OperatorCases

-----------------------------------------------------------------------------
(***************************************************************************)
(* Frames.                                                                 *)
(***************************************************************************)
kProtocolVersion == 1

\* crc32 of some bytes; another value never matches.
crc32(bytes) == [of |-> bytes, other |-> FALSE]

Covered(h) == <<h.magic, h.version, h.type, h.correlation, h.length, h.payload_crc>>

encode_frame_header(type, correlation, payload) ==
  LET h == [magic |-> 1, version |-> kProtocolVersion, type |-> Number(type),
            correlation |-> correlation, length |-> Size(payload), payload_crc |-> crc32(payload)]
  IN  [part |-> "header", spoiled |-> FALSE,
       h |-> h @@ [header_crc |-> crc32(Covered(h)), reserved |-> 0]]

\* encode_frame refuses a payload above the limit.
Fits(payload) == Size(payload) <= max_frame_payload_bytes

encode_frame(type, correlation, payload) ==
  <<encode_frame_header(type, correlation, payload)>>
    \o IF payload = << >> THEN << >> ELSE <<[part |-> "payload", spoiled |-> FALSE, p |-> payload]>>

\* parse_frame_header with a mistake: the checksum of the header is not compared.
parse_unchecked(chunk) ==
  /\ chunk.part = "header"
  /\ chunk.h.magic = 1 /\ chunk.h.version = kProtocolVersion
  /\ chunk.h.type \in DOMAIN MessageType /\ chunk.h.reserved = 0
  /\ chunk.h.length <= max_frame_payload_bytes

\* Whether the 32 bytes are a header this side accepts.  The reserved word is not covered
\* by the checksum.
parse_frame_header(chunk) ==
  /\ chunk.part = "header"
  /\ chunk.h.header_crc = crc32(Covered(chunk.h))
  /\ chunk.h.magic = 1 /\ chunk.h.version = kProtocolVersion
  /\ chunk.h.type \in DOMAIN MessageType /\ chunk.h.reserved = 0
  /\ chunk.h.length <= max_frame_payload_bytes

\* receive_frame: the frame and how many chunks it took, or a refusal.  After a bad
\* header the payload stays in the stream.
receive_frame(stream) ==
  LET h == stream[1].h
      payload == IF h.length = 0 THEN << >> ELSE stream[2].p
      taken == IF h.length = 0 THEN 1 ELSE 2
  IN  IF ~parse_frame_header(stream[1]) THEN [ok |-> FALSE, taken |-> 1]
      ELSE IF h.length # 0 /\ Len(stream) < 2 THEN [ok |-> FALSE, taken |-> 1]
      ELSE IF Size(payload) # h.length \/ crc32(payload) # h.payload_crc
           THEN [ok |-> FALSE, taken |-> taken]
      ELSE [ok |-> TRUE, taken |-> taken, type |-> MessageType[h.type],
            correlation |-> h.correlation, payload |-> payload,
            spoiled |-> \E i \in 1 .. taken : stream[i].spoiled]

Rest(stream, frame) == SubSeq(stream, frame.taken + 1, Len(stream))

-----------------------------------------------------------------------------
Init ==
  /\ open = TRUE /\ c2s = << >> /\ s2c = << >>
  /\ sent = 0 /\ asked = None /\ handled = None /\ answered = None
  /\ result = "none" /\ received = None /\ damages = 0 /\ image = None

Payload(layout, shape) == Write(layout, Sample(layout, shape))

Idle == asked = None \/ result # "none"

Small == [kind |-> "small", of |-> ""]

\* Requests of every shape are sent once; several requests, and damage, are tried with
\* plain requests of a few types.
Plain(request) == request.type \in Repeated /\ request.shape = Small

\* A call begins: the frame is encoded and sent.
Send(type, shape) ==
  LET payload == Payload(ClientCalls[type].encode, shape)
      goes == open /\ Fits(payload)
  IN  /\ Idle /\ sent < MaxRequests
      /\ sent > 0 => Plain(asked) /\ Plain([type |-> type, shape |-> shape])
      /\ sent' = sent + 1
      /\ asked' = [type |-> type, shape |-> shape, correlation |-> sent + 1]
      /\ handled' = None /\ answered' = None /\ received' = None /\ image' = None
      /\ result' = IF goes THEN "none" ELSE "failed"
      /\ c2s' = IF goes THEN c2s \o encode_frame(type, sent + 1, payload) ELSE c2s
      /\ UNCHANGED <<open, s2c, damages>>

CloseConnection == open' = FALSE /\ c2s' = << >>

\* Reply with a mistake: a reply that does not fit is dropped, and the connection kept.
ReplyDropped(frame, type, layout, shape) ==
  LET payload == Payload(layout, shape)
  IN  /\ s2c' = IF Fits(payload) THEN s2c \o encode_frame(type, frame.correlation, payload) ELSE s2c
      /\ answered' = [type |-> type, shape |-> shape]
      /\ c2s' = Rest(c2s, frame) /\ UNCHANGED open

\* Reply with a mistake: the reply has the next request's correlation.
ReplyAhead(frame, type, layout, shape) ==
  LET payload == Payload(layout, shape)
  IN  /\ answered' = [type |-> type, shape |-> shape]
      /\ \/ /\ Fits(payload)
            /\ s2c' = s2c \o encode_frame(type, frame.correlation + 1, payload)
            /\ c2s' = Rest(c2s, frame) /\ UNCHANGED open
         \/ /\ ~Fits(payload) /\ CloseConnection /\ UNCHANGED s2c

\* send_frame of the reply.  When it does not fit a frame, serve returns and the
\* connection is closed, although the handler has run.
Reply(frame, type, layout, shape) ==
  LET payload == Payload(layout, shape)
  IN  /\ answered' = [type |-> type, shape |-> shape]
      /\ \/ /\ Fits(payload)
            /\ s2c' = s2c \o encode_frame(type, frame.correlation, payload)
            /\ c2s' = Rest(c2s, frame) /\ UNCHANGED open
         \/ /\ ~Fits(payload) /\ CloseConnection /\ UNCHANGED s2c

\* Replies of every shape are tried on the first request.
ReplyShapes(layout) == IF sent = 1 /\ asked.shape = Small THEN Shapes(layout) ELSE {Small}

\* make_error_frame.
ErrorReply(frame) ==
  \E shape \in ReplyShapes(encode_ErrorReply) : Reply(frame, "ERROR_REPLY", encode_ErrorReply, shape)

\* dispatch.
Dispatch(frame) ==
  IF frame.type \notin DOMAIN ServerCases
  THEN ErrorReply(frame) /\ UNCHANGED handled
  ELSE LET case == ServerCases[frame.type]
           outcome == Decode(case.decode, frame.payload)
       IN  /\ handled' = [type |-> frame.type, correlation |-> frame.correlation,
                          spoiled |-> frame.spoiled, outcome |-> outcome]
           /\ \/ /\ outcome.ok
                 /\ \E shape \in ReplyShapes(case.encode) : Reply(frame, case.reply, case.encode, shape)
              \/ (~outcome.ok \/ case.fails) /\ ErrorReply(frame)

\* serve: a frame that is refused ends the connection.
Serve ==
  /\ open /\ c2s # << >>
  /\ LET frame == receive_frame(c2s)
     IN  \/ /\ ~frame.ok /\ CloseConnection /\ UNCHANGED <<s2c, handled, answered>>
         \/ frame.ok /\ Dispatch(frame)
  /\ UNCHANGED <<sent, asked, result, received, damages, image>>

max_explanation_lines == 4096

\* unwrap_query_lines refuses more lines than the client shows.
Shown(type, outcome) ==
  type = "QUERY" /\ outcome.ok => outcome.value.lines.count <= max_explanation_lines

\* Correlated with a mistake: no call compares the correlation.
CorrelationIgnored(frame) == TRUE

\* Whether the frame answers the outstanding request; Client::shutdown does not compare
\* the correlation.
Correlated(frame) == frame.correlation = asked.correlation \/ asked.type = "SHUTDOWN"

\* Client::request and the typed call around it, when a reply has arrived.
Returned(frame) ==
  LET call == ClientCalls[asked.type]
      outcome == Decode(call.decode, frame.payload)
      wrong == Decode(decode_error_reply, frame.payload)
  IN  IF ~frame.ok \/ ~Correlated(frame) THEN "failed"
      ELSE IF frame.type = "ERROR_REPLY" /\ asked.type # "SHUTDOWN"
           THEN IF wrong.ok THEN "error" ELSE "failed"
      ELSE IF frame.type = call.reply /\ outcome.ok /\ Shown(asked.type, outcome) THEN "ok"
      ELSE "failed"

Receive ==
  /\ asked # None /\ result = "none"
  /\ \/ /\ s2c # << >>
        /\ LET frame == receive_frame(s2c)
           IN  /\ s2c' = Rest(s2c, frame)
               /\ result' = Returned(frame)
               /\ received' = IF Returned(frame) = "ok"
                              THEN [value |-> Decode(ClientCalls[asked.type].decode, frame.payload).value,
                                    correlation |-> frame.correlation, spoiled |-> frame.spoiled]
                              ELSE None
     \/ /\ s2c = << >> /\ ~open
        /\ result' = "failed" /\ UNCHANGED <<s2c, received>>
  /\ UNCHANGED <<open, c2s, sent, asked, handled, answered, damages, image>>

-----------------------------------------------------------------------------
(***************************************************************************)
(* The network, and a state image that is written and read back.           *)
(***************************************************************************)
Spoilt(chunk) ==
  IF chunk.part = "payload"
  THEN {[chunk EXCEPT !.spoiled = TRUE, !.p[i].value[2] = @ + 1] : i \in {1, Len(chunk.p)}}
  ELSE {[chunk EXCEPT !.spoiled = TRUE, !.h[f] = @ + 1] :
          f \in {"magic", "version", "type", "correlation", "length", "reserved"}}
       \cup {[chunk EXCEPT !.spoiled = TRUE, !.h[f].other = TRUE] : f \in {"payload_crc", "header_crc"}}

DamageRequest ==
  /\ asked # None /\ Plain(asked)
  /\ damages < MaxDamages /\ damages' = damages + 1
  /\ \E i \in DOMAIN c2s : \E chunk \in Spoilt(c2s[i]) : c2s' = [c2s EXCEPT ![i] = chunk]
  /\ UNCHANGED <<open, s2c, sent, asked, handled, answered, result, received, image>>

DamageReply ==
  /\ asked # None /\ Plain(asked)
  /\ damages < MaxDamages /\ damages' = damages + 1
  /\ \E i \in DOMAIN s2c : \E chunk \in Spoilt(s2c[i]) : s2c' = [s2c EXCEPT ![i] = chunk]
  /\ UNCHANGED <<open, c2s, sent, asked, handled, answered, result, received, image>>

\* The connection breaks and takes with it what was on the way.
Break ==
  /\ open /\ CloseConnection /\ s2c' = << >>
  /\ UNCHANGED <<sent, asked, handled, answered, result, received, damages, image>>

\* A record of this type is written to a state image and read back.
Reload(type, shape) ==
  /\ sent = 0
  /\ image' = [type |-> type, shape |-> shape,
               outcome |-> Decode(deserialize[type], Payload(serialize[type], shape))]
  /\ UNCHANGED <<open, c2s, s2c, sent, asked, handled, answered, result, received, damages>>

-----------------------------------------------------------------------------
Next ==
  \/ \E type \in DOMAIN ClientCalls : \E shape \in Shapes(ClientCalls[type].encode) : Send(type, shape)
  \/ Serve \/ Receive \/ DamageRequest \/ DamageReply \/ Break
  \/ \E type \in DOMAIN serialize : \E shape \in Shapes(serialize[type]) : Reload(type, shape)

Spec == Init /\ [][Next]_vars

-----------------------------------------------------------------------------
(***************************************************************************)
(* Properties.                                                             *)
(***************************************************************************)

\* What was sent is what is understood: texts cut to their bounds, a vector above its
\* bound refused as a whole.
Understood(layout, shape, outcome) ==
  IF Acceptable(layout, shape)
  THEN outcome.ok /\ outcome.value = Expected(layout, shape)
  ELSE ~outcome.ok

\* encode and decode_ of each message agree on fields, order and bounds: every request that
\* the server dispatches is decoded to what the client encoded, and every reply that a call
\* returns is what the server encoded.
MessagesUnderstood ==
  /\ handled # None /\ handled.correlation = asked.correlation =>
       /\ handled.type = asked.type
       /\ Understood(ClientCalls[asked.type].encode, asked.shape, handled.outcome)
  /\ result = "ok" /\ received.correlation = asked.correlation =>
       /\ answered.type = ClientCalls[asked.type].reply
       /\ LET layout == ServerCases[asked.type].encode
          IN  Acceptable(layout, answered.shape) /\ received.value = Expected(layout, answered.shape)

\* A call fails only for a reason: the connection was lost, a chunk was damaged, the
\* request or the reply was above a bound.  In particular no reply of the server has a
\* type that the call does not expect.
FailsForAReason ==
  result = "failed" =>
    \/ ~open \/ damages > 0
    \/ ~Fits(Payload(ClientCalls[asked.type].encode, asked.shape))
    \/ answered # None /\ ~Acceptable(ServerCases[asked.type].encode, answered.shape)

\* No damaged frame reaches a handler, and none is returned by a call.
DamageNeverDelivered ==
  /\ handled # None => ~handled.spoiled
  /\ received # None => ~received.spoiled

\* A call that succeeds was handled, and the reply is the one to this call and not to an
\* earlier one, also on a connection whose stream lost step after a bad header.  shutdown
\* is left out: it does not compare the correlation.
AnswersThisCall ==
  result = "ok" /\ asked.type # "SHUTDOWN" =>
    /\ handled # None /\ handled.outcome.ok
    /\ handled.correlation = asked.correlation /\ received.correlation = asked.correlation

\* A message has no proper beginning and no continuation that is a message: a reader
\* never takes part of a payload for the whole.
Whole(decode, chunk) ==
  chunk.part = "payload" /\ ~chunk.spoiled =>
    /\ \A n \in 0 .. Len(chunk.p) - 1 : ~Decode(decode, SubSeq(chunk.p, 1, n)).ok
    /\ \A t \in Range(chunk.p) : ~Decode(decode, Append(chunk.p, t)).ok

\* decode_ of every request and every reply of the first exchange accepts only whole
\* payloads: need and expect_end.
NoPartIsWhole ==
  sent = 1 =>
    /\ \A i \in DOMAIN c2s : Whole(ServerCases[asked.type].decode, c2s[i])
    /\ \A i \in DOMAIN s2c :
         Whole(IF answered.type = "ERROR_REPLY" THEN decode_error_reply ELSE ClientCalls[asked.type].decode,
               s2c[i])

\* Every record of a state image is read back by load as save wrote it; one with a vector
\* above its bound, which the writer does not enforce, or without an identity is refused.
ImageUnderstood ==
  image # None => Understood(deserialize[image.type], image.shape, image.outcome)

\* The client and the server never wait for each other: while a call is outstanding there
\* is a request for the server to read, a reply for the client to read, or the connection
\* is closed and the call fails.  This rests on serve answering every frame it accepts,
\* and closing the connection when it cannot.
NobodyWaitsForNothing ==
  asked # None /\ result = "none" => c2s # << >> \/ s2c # << >> \/ ~open
=============================================================================
