----------------------------- MODULE MCMessages -----------------------------
(* The components that make and read messages, one at a time: `component`   *)
(* says which of them moves.  BodyStream keeps its own variables, v1, v2, ... *)
(* are those of the others in the order they declare them.                   *)
EXTENDS MCBodyStream

VARIABLES component, v1, v2, v3, v4, v5, v6, v7, v8, v9, v10

\* Each component takes its data from its MC module.
ResponseData == INSTANCE MCStreamResponse WITH
  req <- v1, resp <- v2, w <- v3, at <- v4, n <- v5, wrote <- v6, honest <- v7, up <- v8,
  Setups <- {}, MaxWrites <- 0, HookFails <- FALSE
Response == INSTANCE StreamResponse WITH
  req <- v1, resp <- v2, w <- v3, at <- v4, n <- v5, wrote <- v6, honest <- v7, up <- v8,
  Setups <- ResponseData!CarefulSetups, MaxWrites <- 2, HookFails <- FALSE

FormData == INSTANCE MCMultipart WITH
  message <- v1, cut <- v2, content <- v3, readers <- v4, part <- v5, chunk <- v6, size <- v7, pc <- v8, got <- v9,
  Messages <- {}, Sizes <- {}, MayBeCut <- FALSE, LeavesLines <- FALSE
Form == INSTANCE Multipart WITH
  message <- v1, cut <- v2, content <- v3, readers <- v4, part <- v5, chunk <- v6, size <- v7, pc <- v8, got <- v9,
  Messages <- FormData!SomeMessages, Sizes <- {4, 5}, MayBeCut <- TRUE, LeavesLines <- FALSE

FramingData == INSTANCE MCRequestFraming WITH
  req <- v1, body <- v2, at <- v3, left <- v4, avail <- v5, taken <- v6, w <- v7, owed <- v8, updates <- v9, sends <- v10,
  Arguments <- {}, Bodies <- {}, CHUNK <- 0, MaxUpdates <- 0, MaxSends <- 0
Framing == INSTANCE RequestFraming WITH
  req <- v1, body <- v2, at <- v3, left <- v4, avail <- v5, taken <- v6, w <- v7, owed <- v8, updates <- v9, sends <- v10,
  Arguments <- FramingData!Careful, Bodies <- FramingData!SomeBodies, CHUNK <- 2, MaxUpdates <- 1, MaxSends <- 2

FrameData == INSTANCE MCWebSocketReader WITH
  frames <- v1, sent <- v2, r <- v3, Streams <- {}, MaxMsgSize <- 0, Compress <- FALSE
Frames == INSTANCE WebSocketReader WITH
  frames <- v1, sent <- v2, r <- v3, Streams <- FrameData!SomeStreams, MaxMsgSize <- 4, Compress <- TRUE

OfferData == INSTANCE WebSocketHandshake WITH
  request <- v1, response <- v2, client <- v3, server <- v4, Protocols <- {}, Windows <- {}, Offers <- {}, Keys <- {}
Offer == OfferData!Plain
SomeOffers ==
  {Offer, [Offer EXCEPT !.other = TRUE], [Offer EXCEPT !.window = 10], [Offer EXCEPT !.window = 8],
   [Offer EXCEPT !.window = -1, !.noTakeover = TRUE], [Offer EXCEPT !.clientWindow = 11, !.clientNoTakeover = TRUE],
   [Offer EXCEPT !.clientWindow = 8]}
Handshake == INSTANCE WebSocketHandshake WITH
  request <- v1, response <- v2, client <- v3, server <- v4,
  Protocols <- {"chat", "mqtt"}, Windows <- {0, 9, 15}, Offers <- SomeOffers, Keys <- {"key"}

others == <<v1, v2, v3, v4, v5, v6, v7, v8, v9, v10>>
From5 == v5 = 0 /\ v6 = 0 /\ v7 = 0 /\ v8 = 0 /\ v9 = 0 /\ v10 = 0

\* A body that does not move.
Still == Init /\ mode = (CHOOSE m \in Modes : TRUE) /\ sizes = (CHOOSE b \in Bodies : TRUE)
MessagesInit ==
  \/ component = "body" /\ Init /\ v1 = 0 /\ v2 = 0 /\ v3 = 0 /\ v4 = 0 /\ From5
  \/ component = "response" /\ Still /\ Response!Init /\ v9 = 0 /\ v10 = 0
  \/ component = "form" /\ Still /\ Form!Init /\ v10 = 0
  \/ component = "framing" /\ Still /\ Framing!Init
  \/ component = "frames" /\ Still /\ Frames!Init /\ v4 = 0 /\ From5
  \/ component = "handshake" /\ Still /\ Handshake!Init /\ From5

MessagesNext ==
  \/ component = "body" /\ Next /\ UNCHANGED <<component, others>>
  \/ component = "response" /\ Response!Next /\ UNCHANGED <<component, vars, v9, v10>>
  \/ component = "form" /\ Form!Next /\ UNCHANGED <<component, vars, v10>>
  \/ component = "framing" /\ Framing!Next /\ UNCHANGED <<component, vars>>
  \/ component = "frames" /\ Frames!Next /\ UNCHANGED <<component, vars, v4, v5, v6, v7, v8, v9, v10>>
  \/ component = "handshake" /\ Handshake!Next /\ UNCHANGED <<component, vars, v5, v6, v7, v8, v9, v10>>

MessagesSpec == MessagesInit /\ [][MessagesNext]_<<component, vars, others>>
-----------------------------------------------------------------------------
\* The client makes of the bytes of a response what the server meant.
ClientAgrees ==
  component = "response" => Response!TypeOK /\ Response!NeverContradicts /\ Response!Framed /\ Response!ClientAgrees

\* A range request gets the range, and the headers say which.
RangeExact == component = "response" => Response!RangeExact

\* What a multipart reader returns is what was written.
PartsIntact == component = "form" => Form!PartsIntact

\* The server gets the body of a request as it is, or learns that it is cut.
BodyArrives == component = "framing" => Framing!BodyArrives

\* WebSocket messages arrive whole, and never longer than max_msg_size.
MessagesIntact == component = "frames" => Frames!MessagesIntact /\ Frames!SizeLimited

\* Both ends of a WebSocket handshake agree on what they negotiated.
EndsAgree == component = "handshake" => Handshake!EndsAgree /\ Handshake!AnswerFitsOffer
=============================================================================
