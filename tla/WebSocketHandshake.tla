------------------------- MODULE WebSocketHandshake -------------------------
(***************************************************************************)
(* The opening handshake of a WebSocket: ClientSession._ws_connect() of    *)
(* aiohttp/client.py, WebSocketResponse._handshake() with _pre_start() of  *)
(* aiohttp/web_ws.py, and the permessage-deflate headers of                *)
(* aiohttp/_websocket/helpers.py.  Either end may be another program.      *)
(*                                                                         *)
(* A header is what it says: an extension header is a sequence of offers,  *)
(* each with the parameters it names; server_max_window_bits is 0 when     *)
(* absent and -1 without a value.  A key is valid or not, and the accept   *)
(* value of a key is the key itself.                                       *)
(***************************************************************************)
EXTENDS Integers, Sequences, SequencesExt

CONSTANTS
  Protocols,  \* subprotocols
  Windows,    \* values of the compress= of a client, 0 for none
  Offers,     \* offers of other programs
  Keys        \* keys of requests; the others are invalid

VARIABLES
  request,    \* the request under way, or "none"
  response,   \* its response, or "none"
  client,     \* what the client makes of it: its options, then its end of the socket
  server      \* likewise

vars == <<request, response, client, server>>

None == [status |-> 0]
Ordered(ps) == SetToSeqs(ps)
Lists == UNION {Ordered(ps) : ps \in SUBSET Protocols}

Plain == [other |-> FALSE, noTakeover |-> FALSE, clientNoTakeover |-> FALSE, window |-> 0, clientWindow |-> 0]
-----------------------------------------------------------------------------
(* ws_ext_gen() and ws_ext_parse()                                         *)

ExtGen_NoWindow(compress, notakeover) ==  \* mutant: the window is not named
  <<[Plain EXCEPT !.noTakeover = notakeover]>>

ExtGen(compress, notakeover) ==
  <<[Plain EXCEPT !.window = IF compress < 15 THEN compress ELSE 0, !.noTakeover = notakeover]>>

Supported(window) == window \in 9..15

\* The server takes the first offer it can serve.
Usable(o) == ~o.other /\ (o.window > 0 => Supported(o.window))
ServerExt(offers) ==
  LET usable == SelectSeq(offers, Usable)
  IN  IF usable = <<>> THEN [compress |-> 0, notakeover |-> FALSE]
      ELSE LET o == Head(usable)
           IN  [compress |-> IF o.window > 0 THEN o.window ELSE 15, notakeover |-> o.noTakeover]

\* The client takes the answer or fails; server_max_window_bits is not looked at.
ClientExtFails(o) == o.other \/ (o.clientWindow > 0 /\ ~Supported(o.clientWindow))
ClientExt(o) ==
  [compress |-> IF o.clientWindow > 0 THEN o.clientWindow ELSE 15, notakeover |-> o.clientNoTakeover]
-----------------------------------------------------------------------------
\* The client's options are chosen, and the server's.
Init ==
  /\ request = None /\ response = None
  /\ client \in [protocols : Lists, compress : Windows, notakeover : {FALSE}, state : {"new"}]
  /\ server \in [protocols : Lists, compress : BOOLEAN, state : {"new"}]

Request(upgrade, version, key, protocols, extensions) ==
  [status |-> 1, upgrade |-> upgrade, version |-> version, key |-> key,
   protocols |-> protocols, extensions |-> extensions]

\* _ws_connect() up to its request.
Asks ==
  /\ client.state = "new" /\ request = None
  /\ client' = [client EXCEPT !.state = "asked"]
  /\ request' = Request(TRUE, 13, CHOOSE k \in Keys : TRUE, client.protocols,
                        IF client.compress = 0 THEN <<>> ELSE ExtGen(client.compress, FALSE))
  /\ UNCHANGED <<response, server>>

\* A request of another program.
OtherAsks ==
  /\ client.state = "new" /\ request = None
  /\ client' = [client EXCEPT !.state = "other"]
  /\ \E upgrade \in BOOLEAN, version \in {8, 12, 13}, key \in Keys \cup {"short"},
        os \in {<<a, b>> : a \in Offers, b \in Offers} :
       request' = Request(upgrade, version, key, client.protocols, os)
  /\ UNCHANGED <<response, server>>

\* _handshake() refuses.
Refuses ==
  /\ request # None /\ response = None
  /\ ~request.upgrade \/ request.version \notin {13, 8, 7} \/ request.key \notin Keys
  /\ response' = [status |-> 400, upgrade |-> FALSE, accept |-> "none", protocols |-> <<>>, extensions |-> <<>>]
  /\ server' = [server EXCEPT !.state = "refused"]
  /\ UNCHANGED <<request, client>>

\* The subprotocol: the first of the client's that the server knows.
Chosen(asked, known) == SelectSeq(asked, LAMBDA p : Contains(known, p))
First(ps) == IF ps = <<>> THEN "none" ELSE Head(ps)

\* _handshake() and _pre_start(): the response and the server's end.
Answers ==
  /\ request # None /\ response = None
  /\ request.upgrade /\ request.version \in {13, 8, 7} /\ request.key \in Keys
  /\ LET ext == IF server.compress THEN ServerExt(request.extensions) ELSE [compress |-> 0, notakeover |-> FALSE]
         protocol == First(Chosen(request.protocols, server.protocols))
     IN  /\ server' = [state |-> "open", protocol |-> protocol, compress |-> ext.compress,
                       notakeover |-> ext.notakeover]
         /\ response' = [status |-> 101, upgrade |-> TRUE, accept |-> request.key,
                         protocols |-> IF protocol = "none" THEN <<>> ELSE <<protocol>>,
                         extensions |-> IF ext.compress = 0 THEN <<>> ELSE ExtGen(ext.compress, ext.notakeover)]
  /\ UNCHANGED <<request, client>>

\* A response of another program.
OtherAnswers ==
  /\ client.state = "asked" /\ response = None
  /\ \E status \in {101, 200}, upgrade \in BOOLEAN, accept \in {request.key, "other"}, o \in Offers :
       response' = [status |-> status, upgrade |-> upgrade, accept |-> accept,
                    protocols |-> server.protocols, extensions |-> <<o>>]
  /\ server' = [server EXCEPT !.state = "other"]
  /\ UNCHANGED <<request, client>>

Acceptable ==
  /\ response.status = 101 /\ response.upgrade /\ response.accept = request.key
  /\ client.compress > 0 /\ response.extensions # <<>> => ~ClientExtFails(Head(response.extensions))

\* _ws_connect() checks the response: its end of the socket, or an error.
Connects_KeepsCompress ==  \* mutant: a server that does not compress is not noticed
  /\ client.state = "asked" /\ response # None /\ Acceptable
  /\ client' = [state |-> "open", protocol |-> First(Chosen(response.protocols, client.protocols)),
                compress |-> client.compress, notakeover |-> FALSE]
  /\ UNCHANGED <<request, response, server>>

Connects ==
  /\ client.state = "asked" /\ response # None /\ Acceptable
  /\ LET ext == IF client.compress = 0 \/ response.extensions = <<>> THEN [compress |-> 0, notakeover |-> FALSE]
                ELSE ClientExt(Head(response.extensions))
     IN  client' = [state |-> "open", protocol |-> First(Chosen(response.protocols, client.protocols)),
                    compress |-> ext.compress, notakeover |-> ext.notakeover]
  /\ UNCHANGED <<request, response, server>>

Fails ==
  /\ client.state = "asked" /\ response # None /\ ~Acceptable
  /\ client' = [client EXCEPT !.state = "failed"]
  /\ UNCHANGED <<request, response, server>>

Next == Asks \/ OtherAsks \/ Refuses \/ Answers \/ OtherAnswers \/ Connects \/ Fails
Spec == Init /\ [][Next]_vars
-----------------------------------------------------------------------------
(* Properties.                                                             *)

\* With this program at both ends, a client whose call succeeds has the
\* server's subprotocol; each end compresses only what the other inflates.
EndsAgree ==
  client.state = "open" /\ server.state # "other" =>
    /\ server.state = "open" /\ client.protocol = server.protocol
    /\ (client.compress > 0) = (server.compress > 0)

\* The server's answer fits an offer that was made (RFC 7692): a window and a
\* promise to drop the context that the offer asks for are in the answer, and
\* the server compresses with that window.
AnswerFitsOffer ==
  response # None /\ server.state = "open" =>
    \A i \in DOMAIN response.extensions :
      LET a == response.extensions[i]
      IN  /\ server.compress = (IF a.window > 0 THEN a.window ELSE 15) /\ server.notakeover = a.noTakeover
          /\ \E j \in DOMAIN request.extensions :
               LET o == request.extensions[j]
               IN  /\ o.window > 0 => a.window \in 1..o.window \/ (o.window = 15 /\ a.window = 0)
                   /\ o.noTakeover => a.noTakeover
                   /\ ~o.other
=============================================================================
