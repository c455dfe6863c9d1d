# aiohttp, specified in TLA+

TLA+ models of aiohttp: on the client the connection pool with its DNS throttle,
the life of a request with redirects and its retry, request bodies, cookies; on
the server the connection with pipelining, keep-alive and orderly shutdown, the
writing of responses, routing, the life of an application; on both ends bodies
with their flow control, multipart, and WebSockets from the handshake to the
frame parser. TLC checks the models on small instances; the main safety
properties of the pool, of host lookups, of the client's requests and their digest
authentication, of the server's connection, of both ends of a WebSocket and of its
writer are proved with TLAPS for all instances.

Everything runs on one asyncio event loop, so the interleaving that matters is
not that of instructions: a *step* is the code that a task or a callback runs
between two suspension points (`await` of something unfinished, or return to
the loop), and hazards live in what may happen between two steps of one
operation. Line numbers are those of `src/aiohttp`.

## 1. The system

### Inventory

| component | state | operations | hard because |
|---|---|---|---|
| Connection pool `connector.py` `BaseConnector`, `Connection` | `_conns`, `_acquired`, `_acquired_per_host`, `_waiters`, `_cleanup_handle`, `_cleanup_closed_transports`, `_closed` | `connect`, `_wait_for_available_connection`, `_get`, `_release_waiter`, `_release`, `_cleanup`, `close` | a wake-up and the woken task are two steps; cancellation, time-outs, trace signals and `close()` at every await; two limits |
| Host lookups `TCPConnector._resolve_host`, `_DNSCacheTable` | `_addrs_rr`, `_timestamps`, `_throttle_dns_futures`, `_resolve_host_tasks` | resolve, add, next, evict, `clear_dns_cache`, `close` | callers share a lookup but not their cancellation |
| Body receiving `streams.py`, `http_parser.py`/`_http_parser.pyx`, `compression_utils.py`, `base_protocol.py`, `client_proto.py` | buffer, cursor and chunk ends of `StreamReader`, the parser's tail and pause flag, output held by the decompressor, pause flags of the protocol, `sock_read` timer | `data_received`, `feed_data`, `feed_eof`, `read*`, `pause_reading`, `resume_reading`, `connection_lost` | a read re-enters the parser, which feeds the stream that is being read and may pause it again |
| Server connection `web_protocol.py`, with `web_server.py`, `web_runner.py` | `_messages`, `_waiter`, `_msg_queue_paused`, `_close`, `_force_close`, `_keepalive_handle`, `_handler_waiter`, `_task_handler`, the parser's count of queued requests | `data_received`, `start`, `_handle_request`, `_process_keepalive`, `connection_lost`, `close`, `shutdown` | two reasons to pause one transport; idling, disconnect, close and cancellation in every state of `start()` |
| Client session `client.py` | `_retry_connection`, the running request's history, headers and timer | `_request`, redirects, retry, `close` | a reused connection may be dead; every exit must release; credentials across origins |
| Client request/response `client_reqrep.py` | writer task, connection, state of the body | `_send`, `start`, `read`, `release`, `close`, `update_body` | response may end before the request is written; a body is sent again |
| Response writing `http_writer.py`, drain of `base_protocol.py` | pending headers, chunked/compress flags, length, `_drain_waiter`, `_paused` | `write`, `write_eof`, `set_eof`, `drain`, `pause_writing`, `connection_lost` | headers wait for the first bytes; writers share one drain future |
| Server request/response `web_request.py`, `web_response.py`, `web_fileresponse.py` | prepared, `_eof_sent`, keep-alive, body | `prepare`, `write`, `write_eof`, range and conditional requests, errors after the head | framing decided in four places |
| Message heads `http_parser.py` | lines collected, upgrade flag | `parse_message`, `parse_headers` | what ends a body |
| WebSockets `client_ws.py`, `web_ws.py`, `_websocket/` | `_closing`, `_closed`, `_waiting`, `_close_wait`, heartbeat timers; frame reader's state, fragments and tail; writer's lock and compressor | `receive`, `close`, heartbeat callbacks, `feed_data`, `send_frame`, handshake | `close()` against a concurrent `receive()`, time-outs and the peer's close; frames split anywhere |
| Application `web_app.py`, `web_middlewares.py` | subapplications, signals, frozen flags, cleanup contexts | `freeze`, `add_subapp`, `startup`, `shutdown`, `cleanup` | one of several contexts failing or cancelled |
| Sites, runners, workers `web_runner.py`, `web.py`, `worker.py` | sites, signals | `setup`, `start`, `cleanup`, `run_app` | order of the shutdown, a second signal in it |
| Routing `web_urldispatcher.py` | resources, index, matched subapplications | `add_route`, `add_static`, mounting, `resolve` | index must agree with the order of registration, also when it is moved under a prefix |
| Cookies `cookiejar.py`, `_cookie_helpers.py` | cookies by domain and path, cached values, host-only flags, expirations, heap | `update_cookies`, `filter_cookies`, `clear`, `save`, `load` | lazily cleaned heap with stale entries; five tables that must agree |
| Multipart, payloads `multipart.py`, `formdata.py`, `payload.py` | previous chunk, lines put back; position and size of a file | `next`, `read_chunk`, `readline`, `write_with_length` | boundary split over chunks; a body read twice |
| Digest authentication `client_middleware_digest_auth.py` | `_origin`, `_challenge`, `_protection_space`, `_last_nonce_bytes`, `_nonce_count` | `__call__`, `_encode`, `_authenticate` | one middleware for all requests of a session, which awaits a response and the bytes of a body |
| Tracing, resolvers, helpers | signals | | little state |

Interactions: `ClientSession._request` calls `BaseConnector.connect`, which
resolves through `_resolve_host` and returns a `Connection`; the response is
read through `StreamReader`, and its EOF releases the connection to the pool. On
the server, `RequestHandler.data_received` runs the parser, which queues
requests and feeds bodies; `start()` takes requests off, runs handlers and
resumes the transport. An upgraded response hands its connection to
`ClientWebSocketResponse`, which reads messages from `WebSocketDataQueue` and sends
through `WebSocketWriter`. `BaseRunner.cleanup` calls `Server.pre_shutdown` (every
connection's `close()`), the application's signals, and `Server.shutdown`.

### What makes each part correct

*Pool*: one owner per transport; limits; exact accounting on every exit; nobody
waits while a slot is free; what is idle is timed; what is open is owned.
*Lookups*: one lookup per host, entry and lookup live equally long; cancelling
one caller does not hurt another; everybody returns.
*Bodies*: bounded buffer; EOF after the last byte and never before; no reader
waits for what is already there; every wait for the peer is timed; chunk ends
in the right place.
*Server connection*: responses in order; the transport is paused exactly for a
reason; no request or body is withheld from one who waits; every path closes
the transport; no request in hand is dropped.
*Client request*: a connection is reused only after a complete exchange; a closed
response, and a request that is over, have given up connection and timer;
credentials stay with their origin; what is sent is framed as its head says.
*Response*: a client finds the end of each body, and gets the range it asked for.
*WebSocket*: what is sent can be decompressed and is in the order of the calls;
every send ends; one reader at most; one CLOSE; close() returns and gives the
connection up; an open socket has a live heartbeat; messages come out whole
however they are split; both ends agree on what they negotiated. *Application*:
what was started is unwound in reverse, and a site serves only what is started.
*Routing*: the most explicit route is found. *Cookies*: nothing expires early or stays
late, nothing is sent to where it does not belong. *Multipart*: parts come out as
they were written.

## 2. Modules

| module | models | abstract specification / proofs |
|---|---|---|
| `Connector` | `BaseConnector` with `Connection`, to the awaits | implements `ConnectionLease`; `ConnectorProofs` |
| `ConnectionLease` | the promise of the pool: a connection is leased to one task at a time, to a task that asked for its host, and goes from pool to task only while open | |
| `DnsCache` | `_resolve_host`, `_resolve_host_with_throttle`, `_DNSCacheTable` | `SessionProofs` |
| `BodyStream` | payload parsers, inflation, `StreamReader`, pausing, `sock_read` | `BodyStreamProofs` |
| `RequestHandler` | `RequestHandler`, the request parsers' accounting, request bodies, keep-alive timer, `close()`, `shutdown()` | `RequestHandlerProofs` |
| `ClientRequest` | `ClientSession._request`, `ClientResponse`, the writer task of `ClientRequest`, timers; over the pool as `ConnectionLease` promises it | `ClientRequestProofs` |
| `RequestFraming` | framing headers of a request, `update_body`, what each `Payload` writes; on `StreamWriter`, `HttpParser` | |
| `StreamResponse` | `StreamResponse`, `Response`, `FileResponse`, `finish_response`, `handle_error`; on `StreamWriter`, `HttpParser` | |
| `StreamWriter`, `HttpParser` | the methods of `StreamWriter` and what a head decides, as operators | |
| `Cookies` | `CookieJar`, parser of `Set-Cookie`, cookies of a response | |
| `DigestAuth` | `DigestAuthMiddleware`, shared by concurrent requests | `SessionProofs` |
| `Multipart` | `MultipartWriter`, `MultipartReader`, `BodyPartReader` | |
| `WebSocketWriter` | `WebSocketWriter` over the write flow control of `BaseProtocol` | `WebSocketWriterProofs` |
| `ClientWebSocket`, `ServerWebSocket` | `ClientWebSocketResponse`, `WebSocketResponse` with their heartbeats, over `WebSocketDataQueue` | `WebSocketProofs` |
| `WebSocketReader` | the frame parser | `Messages` is what a stream of frames means |
| `WebSocketHandshake` | both ends of the handshake and of `permessage-deflate` | |
| `AppLifecycle` | applications, cleanup contexts, runner, sites, `run_app`, worker | |
| `Routing` | `UrlDispatcher`, resources, mounting, `normalize_path_middleware` | `Expected` is a linear scan to compare with |
| `MCClient`, `MCMessages`, `MCServer` | joint instances: several components side by side, one of which moves in a behaviour | |
| `QueueLemmas` | lemmas on queues of callers and on induction, for the proofs | |
| `MC*` (others) | constants, symmetry, samples and scripts of the runs | |

**Connector.** One program counter per caller: `idle`, `waiting` (in
`_wait_for_available_connection`), `creating` (in `_create_connection`),
`created` and `reusing` (in a trace signal), `holding` (has its `Connection`).
`acquired` holds, as the code does, either the placeholder of a call (the task
itself) or the protocol. `ConnectReuse`/`ConnectCreate`/`ConnectWait` are the
three ways out of the first step of `connect()`; `WaitCancelled`/`WaitAgain`/
`WaitDone` are what a task does when it is woken; `Created`/`CreateFail`/
`CreateTraceEnd` and `ReuseTraceEnd`/`ReuseTraceFail` the rest. `WakeNobody`
and `WakeFirst` are `_release_waiter`, whose random order of hosts is an
existential choice.

**DnsCache.** A caller is `joining` (in a trace signal before it waits),
`waiting` for its future, or `leading` (awaits the shielded task). A lookup is
`spawned`, `running`, `cancelling`, and with lazily started tasks
(Python < 3.12, `eager = FALSE`) it may be cancelled before its first step.

**BodyStream** and **RequestHandler.** The handlers are re-entrant:
`read()` calls `resume_reading()`, which calls `data_received(b"")`, which runs
the parser, which calls `feed_data()` and perhaps `pause_reading()`. A next-state
formula cannot call another, so the state that they share is one record and a
handler is an operator from record to record; an action applies the handlers
one turn of the loop runs. The two parsers (`http_parser.py` and
`_http_parser.pyx`) differ in when they look at a pause and in what they count;
both are modelled, chosen in `Init`. In `BodyStream` bytes are counted and the
wire is a sequence of tokens; in `RequestHandler` a request is a head and a
number of body pieces. `start()` is `pc` (`waiter`, `handler`, `linger`,
`ended`), the task of the request is `h`, `shutdown()` is `shut`.

**WebSocketWriter.** A call of `send_frame()` is a member of `sends`: its `pc`
says what it awaits (`lock`, `shield`, `drain`; `written` and `ready` are woken),
its `job` where the shielded task of a large message is (`lock`, `executor`).
`holder` and `waiters` are `_send_lock`. The compressor is `history`, the messages
its window may refer to; a frame on the `wire` carries the window it was
compressed with, so that `Decodable` can compare it with what the peer's
decompressor has seen. Frames have a size of one or two, the socket takes a
write at once or not at all. Pings, pongs and CLOSE, from whichever task, are
calls like the others. `compress=` of a single message is in the model, but the
run leaves it out (`Overrides = FALSE`): see section 6.

**ClientWebSocket**, **ServerWebSocket.** A task calls `receive()` or `close()` again
and again. Between two awaits a call is a chain of small actions; `cpu` is the
task that is in one, and nothing else happens until it awaits or returns. `ready`
is asyncio's FIFO of woken tasks (`Schedule` puts every task behind it whose
future has just been completed): here the order matters, for a `receive()` that
was told to stop and the `close()` that told it run in this order. `fut`
distinguishes a result from an exception of the queue (`failed`), which is raised
although a message may have been queued since. The server marks itself closed
and sends its CLOSE before it breaks a `receive()`, and one timeout spans all
that its `close()` reads. Left out: autoping off (the application then sees
pings as messages), `sock_read`, a second ping of the heartbeat while the first
drains. A CLOSE without a code leaves 0 in the client's `_close_code`, which its `close()`
takes for no code and reads on for (`PeerCodes`); the server's does not look.

**ClientRequest.** `pc` is where the caller's task is (`connect`, `start`,
`status`, `redirect`, `read`, `held`, ...), `x` has one exchange per connection,
because the exchange of a redirect or a retry ends by itself while the next runs:
lease, response, writer task (`expect`, `write`, `flush`), the callback that
releases when it is done, what was answered. `gen` is the one iterator a body may
be, shared by the hops. The pool is what `ConnectionLease` promises one task.

**RequestFraming**, **StreamResponse.** A writer is a record; its methods are the
operators of `StreamWriter`, and the wire a sequence of pieces. `Init` chooses
the arguments of the request, or the request and the response of the handler;
the actions are the calls of `_send`, `write_bytes`, middlewares, or of the handler,
`finish_response` and `handle_error`. At the end the pieces are read as
`HttpParser` reads them, and compared with what was meant.

**WebSocketReader**, **Multipart.** `Init` chooses the messages; an action delivers
any number of further bytes (`Deliver`), or reads a chunk, so that every split
occurs. **WebSocketHandshake** is one exchange, in which either end may be another
program with a header of its own.

**AppLifecycle.** `todo` is the list of calls the startup or the shutdown has still to
make: the callbacks of nested signals and contexts in their order; each returns or
raises, and a cancellation arrives at any of them. `mode` is what drives it:
`run_app`, the gunicorn worker, or a program with a runner.

**Routing.** The actions register, mount and freeze, in any order; `Resolve` and
`Redirect` are operators, applied in the properties to every target.

**Cookies.** `jar` has the five tables of the code as they are. `Update` takes a
header that `Parsed` parsed; time moves on freely.

**DigestAuth.** A call of the middleware runs between its awaits: to the response
(`sent`, `passed`) or to the bytes of a body that is hashed (`hash`); meanwhile other
requests change the challenge and the nonce count it shares with them.

**Joint instances.** `MCClient`, `MCMessages` and `MCServer` put components side by
side and let one of them move, chosen in `Init` (`component`); the others have
their variables fixed. This checks each of them exactly as by itself. A property
such as `TreeUnwinds` is a conjunction about one component; its parts are
definitions of the component's module, each with its own comment.

The order in which ready callbacks run is left open in all other models, where
asyncio runs them in FIFO order: this over-approximates. Where a property depended on
it, the guard says so: `ConnectionLost` of `RequestHandler` (a woken task runs
before it), and `~Failed` in `NothingWithheld` of `BodyStream`. For every run
that expects a violation, the counterexample was replayed against the FIFO
order by hand.

## 3. Runs

| run | question | bounds |
|---|---|---|
| `connector` | queue, ownership, accounting, timer, refinement | 3 callers, 2 hosts (one TLS), 3 transports, limits 2/1, trace signals, cancellation |
| `connector_hosts` | the limits against each other; lost wake-ups; leaked transports | 4 callers, 3 hosts, limits 2/1 |
| `connector_progress` | every waiter is served, every expired connection is closed | 3 callers that connect once, no cancellation |
| `client` | what a request leaves behind (`ClientRequest`); lookups (`DnsCache`); which cookies are sent (`Cookies`); digest authentication (`DigestAuth`) | 2 connections, up to 2 redirects between 2 origins, one of them with a netrc entry, a caller's credentials and cookies for the other, bodies of bytes or an iterator of 1 chunk; 2 callers, 2 hosts, cache of 1; 4 hosts, 3 paths, 4 headers and those a server makes of two calls, clock to 3, 2 calls; 2 requests, 2 nonces |
| `messages` | flow control and ends of bodies (`BodyStream`); framing (`StreamResponse`, `RequestFraming`); `Multipart`, `WebSocketReader`, `WebSocketHandshake` | both parsers, 3 kinds of body, 3 codecs, bodies 1-1-1-1-1 and 5-1, `read_bufsize` 2; all framings with up to 2 writes; files of 0 to 3 bytes with all ranges; bodies of 0 to 4 bytes sent twice, chunks of 2; 3 parts, chunks of 4 and 5; 3 frames (2 if masked), `max_msg_size` 4 |
| `server` | order, pausing, queue, closing, idling (`RequestHandler`); the life of an application (`AppLifecycle`); `Routing` | both parsers, four scripts of up to 5 requests, queue of 2, buffer of 1; 3 applications, 2 contexts, 1 callback, 2 sites, one failure, 2 signals; 3 applications, 3 paths, 3 calls |
| `ws_writer` | every frame decodable and in order, every send ends | 3 calls by 3 tasks, one cancelled, low mark 0, high mark 1 |
| `ws_client_close` | one reader, one CLOSE, closed is released; an open socket has a live heartbeat; `close()` returns | 2 tasks that are cancellable or have a heartbeat, one with both; queue of 1 |
| `ws_server_live` | one reader, one CLOSE, closed is released; `close()` returns, a dead peer is noticed | 2 tasks, one cancellable, heartbeat; queue of 1 |
| `connector_cancel`, `body_hang`, `server_stuck` | code bugs of section 6 | as small as shows them |

*Why the bounds are enough.* Pool: a lost wake-up needs a holder, a waiter and a
newcomer, a conflict of limits needs more hosts than the total limit, and four
callers with limit 2 give both. The limits are also proved for every value.
Requests: two connections let an old exchange end while the next one runs, two
redirects leave an origin and come back (`max_redirects` is 3, and the third is an
error). Cache: one entry makes each insertion
evict. Cookies: two calls set a cookie again, or delete one of two. Bodies: five
one-byte chunks exceed the limit on chunk ends (4), the five-byte chunk exceeds
the high-water mark (2 * 2), a compressed byte inflates to three, more than one
read takes; the network may deliver any number of tokens at a time, so every
split occurs. `Unlimited` (BodyStream) stands for `sys.maxsize`. Files: with three
bytes a range may be empty, inner, at either end, and exceed. Multipart: a
boundary has four symbols, so that chunks of 4 and 5 cut it everywhere. Frames:
a fragment, a control frame and the last fragment are three. Server: a queue of
2 makes full, low-water (1) and refilled states reachable within five requests,
and four pieces exceed the body's mark several times. Application: two contexts
show an order, a subapplication nests. Routing: three calls register a route,
mount it, and mount that again. WebSocket writer: a large message in the
executor, a second that waits for the lock and a small one behind it are three
calls; one cancellation hits any of them at any await. WebSockets: the races are
of a receiver and a closer, or of two closers, and the heartbeat; a queue limit
of one message pauses and resumes at once.

*What the inputs leave out.* `CarefulSetups` (`messages`) leaves out responses that
compress where there is no body or towards HTTP/1.0 chunks, for which the code
sends bytes under a head that has none; `Careful` declares no length longer than
the body; `HookFails = FALSE` has no `on_response_prepare` that raises, after which
the error response is written with the first one's chunking; `LeavesLines = FALSE`
leaves no part in the middle of a line. These are named in section 6.

*Fairness.* `connector_progress` assumes weak fairness of what the event loop
guarantees (a ready task runs, a due timer fires), that creating a connection
ends (`sock_connect`), and that a caller gives its connection back. `ws_writer`
assumes that the executor ends and that the peer reads (a peer that never reads
keeps a drain waiting by design), `ws_client_close` and `ws_server_live` that
timers fire, drains end and a closing transport is lost. Fairness is weak but in one
place: the server's `close()` has one timer for all it reads, which expires although
each read that ends in time takes its wait away for a moment. `CloseReturns` of the client speaks of behaviours in which the peer falls
silent at some time (`Quiet`), because the timeout of its `close()` starts again
with each message; the server's does not. `connector_progress`
lets each task connect once: when callers reconnect for ever, newcomers may
always take a free slot ahead of a woken waiter, which then queues again (with
`move_to_end(last=False)`, but the newcomers do not queue), so `WaiterServed`
is not a property of the code without that bound.

Two further configurations check liveness of a component by itself: `DnsCache.cfg`
(module `DnsCache`: every lookup returns, if the resolver answers or fails) and
`AppLifecycle.cfg` (module `MCAppLifecycle`: an application that is told to stop ends).

`CHECK_DEADLOCK FALSE` is set everywhere: callers may be done, a response read,
a connection closed.

## 4. Properties

Each property's comment in its module says what it states. The ones with most
behind them:

* `AcquiredExact`: what the limits are computed from is exact on every exit of
  every call, including a trace signal that raises.
* `PerHostLimit`, `OpensUnderLimit`: a wake-up is only a hint; a woken task must
  look again.
* `NoLostWakeup`, `WaiterServed`: safety and liveness sides of the queue.
* `LeaseSpec`: refinement of `ConnectionLease` through `Owner`.
* `Isolation` (MCClient): requests share a lookup and not their fates; the throttle
  and the cache stay exact; who waits is among those that will be woken. They share a
  digest middleware: a repeated request answers the challenge of its own response
  (`RetryAnswersItsChallenge`) and nonces are counted as they are sent (`CountsInOrder`).
* `CleanReuse`: a connection goes back to the pool after a whole exchange only,
  although writer, response, caller, timer and garbage collection each may end it.
* `GivesUp`: a closed response gives up its connection by itself, and no timer of a
  request that is over stays armed.
* `CredentialsStay`: credentials and cookies in a request are marked with the origin they
  were given for, and that is always the origin the request goes to, through redirects that leave an origin and come
  back, with credentials in the URL, in the headers or from netrc at any hop; and netrc is
  looked up again when the credentials of the last origin have been dropped.
* `SentIsRight`: the five tables of the jar agree, a request gets the cookies that
  match and no others, saving and loading changes nothing, and of two calls
  `set_cookie`/`del_cookie` on the server the client obeys the last.
* `NothingWithheld` (BodyStream): no reader and peer wait for each other.
* `EndIsExact`: EOF comes after the last byte and not before (`EofExact`), waiting for
  the peer is timed (`TimerGuards`), and an orderly close loses nothing of a body that
  ends with the connection (`CleanCloseComplete`). The last excludes the
  pure-Python parser with zstd: there `decompress` may say that nothing is left
  without a look at the pause flag, and `feed_eof` at the connection's end then
  stops at that flag and loses output the decompressor holds (TLC shows it when
  the exclusion is removed).
* `ClientAgrees`, `RangeExact`, `BodyArrives`, `EndsAgree`: one end's bytes are read with
  the other end's rules (`HttpParser`, `ClientExt`), which is where an error shows.
* `PartsIntact`, `MessagesIntact`: against a reference that sees the whole input.
* `Fed` (RequestHandler): two readers undo two pauses of one transport and
  re-enter the parser.
* `OrderKept`: responses in the order of requests, and no exit of `start()` leaves the
  transport open.
* `ClosesNothingInHand`: the keep-alive timer and `close()` never drop a request
  that has been received.
* `TreeUnwinds`: contexts of nested applications are exited in reverse and all, a
  site serves only what has started, errors are raised after the rest.
* `FindsInOrder`: the index and its prefixes find what a linear scan in the order that the
  comments of `resolve()` give finds: domains, then the most explicit path, then the
  order of registration. For domains docs/web_reference.rst gives another order
  (`DomainsComeLast`, section 6). And a normalized path has a route.
* `Decodable`, `CallOrder`: the lock, the shield and the executor together; a
  cancelled large message is still sent, at its place.
* `DrainIsWoken`, `SendEnds`: the drain future that all writers share.
* `SocketSound`: the assertion in `WebSocketDataQueue.read` (one reader), which holds
  because `close()` breaks a `receive()` before it reads; one CLOSE; every exit of
  `close()` gives the connection up. It is true as it stands of two tasks, and of any
  number that are not cancelled; for three see section 6.
* `DeadPeerNoticed`: a receiver does not wait for ever on a peer that does not answer
  the heartbeat; `HeartbeatArmed`: an open socket has a timer that will look.

Each property has a mutation of the code that breaks it, in the module before the
definition it replaces (`ResumeReading_Always` replaces `ResumeReading`). A
property that is a conjunction has further ones, which break its other parts:

| property | mutations |
|---|---|
| `QueueOK` | `EndCall_KeepsProtocol` |
| `GivesUp` | `WriterDone_StaysCancelled`, `Fails_KeepsTimer` |
| `Isolation` | `AddEntry_KeepsStamp`, `Return_KeepsFuture`, `Complete_LeaderOnly`, `Finish_KeepsEntry`, `Hashed_Latest`, `Counted_Ahead` |
| `SentIsRight` | `Deleted_KeepsCache`, `Saved_NoFlag`, `SetCookie_KeepsExpires` |
| `EndIsExact` | `ResumeReading_NoTimer`, `ResumeReading_NoParser`, `ReadNowaitChunk_KeepsSize` |
| `ClientAgrees` | `EofWritten_KeepsHeld`, `WritePlain_Unclamped`, `LastPieces_NoTerminator` |
| `MessagesIntact`, `EndsAgree` | `TooBig_Alone`; `ExtGen_NoWindow` |
| `SocketSound` | `Receive_AnyNumber` (both ends), `CloseReadCancelled_KeepsOpen`, `NotWaiting_Kept` |
| `OrderKept`, `Fed` | `Exit_Open`, `TaskEnds_InProgress`; `ResumeMsgQueueReading_NoReparse` |
| `TreeUnwinds` | `StartupSteps_RootOnly`, `Raised_InPlace`, `Left_Registered`, `FinishSteps_Own`, `ExitFailed_Raises` |
| `FindsInOrder` | `Prepared_FixFirst`, `Anchored_Not` |
| `Decodable` | `CancelLock_StaysQueued` |
| `StopEnds` (`AppLifecycle.cfg`) | `Cancels_Never` |

## 5. Proofs

Each proof is about every value of the constants: any number of callers, hosts,
connections, tasks and calls, all limits. The only assumptions are those named in the
modules (`ConnectorAssumption`, `WriterAssumption`, ...), which TLC evaluates on the
runs; that of `Connector` says that a caller is none of the protocols and is not called
`"pool"` or `"nobody"`, because `Owner` may answer with any of them. Where a theorem has
a hypothesis (`~Traced => ...`), the code breaks the property without it, and the text
below says how. Every proof has the same plan: an invariant `I` that is inductive, with
`Init => I` and one lemma per action for `I /\ [Next]_vars => I'`.

### The pool

`ConnectorProofs`, with or without tracing, cancellation and force-close:

| theorem | property | argument |
|---|---|---|
| `TypeCorrect` | `TypeOK`, a part of `QueueOK` | inductive as it stands |
| `OwnershipCorrect` | `ExclusiveOwnership` | inductive with `TypeOK`: a protocol moves pool -> task -> pool, and `FreshProto` takes one nobody has |
| `AccountingCorrect` | `AcquiredExact` | inductive invariant `Accounting == AcquiredExact /\ PerHostCovered`; rests on ownership (`SlotsDisjoint`: two calls never have the same thing in use, so giving one back leaves the others') |
| `PerHostLimitCorrect` | `PerHostLimit` | inductive invariant `PerHostBounded`, on `_acquired_per_host` with the idle connections, with `PerHostCovered`; a new connection is opened only when `AvailableConnections` is positive, which means room (`AvailableMeansRoom`) |
| `OpensUnderLimitCorrect` | `OpensUnderLimit` | action property, from the same lemma `AvailableMeansRoom` |
| `QueueCorrect` | `QueueOK` | `Queues` states it by members instead of positions, which a removal does not shift |
| `NoLostWakeupCorrect` | `NoLostWakeup` | with the accounting: a full host means that somebody uses a slot (`FullMeansUsed`), and who gives it back wakes somebody or finds a full host again (`ReleaseWakes`). Under `Cancellable = {}`: a cancelled waiter takes the wake-up with it (`connector_cancel`). `close()` cancels too, hence `OnlyCloseCancels` |

`AcquiredExact` alone does not give the per-host limit: it says nothing once the
connector is closed, while `close()` clears `_acquired` but not
`_acquired_per_host` and later calls go on using it; `PerHostCovered` says that
the per-host set then still covers what is in use. Without ownership two calls
could hold one protocol, and the first release would take the slot of both.

And, in the same module, what the pool promises as a whole:

| theorem | property | argument |
|---|---|---|
| `LeaseCorrect` | `LeaseSpec` | the pool implements `ConnectionLease`: by lemmas `...Refines` each action is one abstract action or a stutter. `OwnersRight` says what the `CHOOSE` in the refinement mapping comes to under ownership; `HeldAlive` (until `close()` the pool closes no transport that a call holds) is what `Return` needs |
| `ClosedEmptyCorrect` | | after `close()` the pool stays empty, whatever comes back late |
| `TransportsOwnedCorrect` | `EveryTransportOwned` | an open transport is in the pool or in a call's hands, and `close()` leaves none. Under `~Traced`: a trace signal that raises after the connection is made leaves its transport open |

### The server's connection

`RequestHandlerProofs`, for every script of requests, either parser, and any limits of
the queue and of a body's buffer:

| theorem | property | argument |
|---|---|---|
| `OrderHolds` | `OrderKept` | the queue goes on where `start()` is (`Upcoming`), what is handled comes next (`Handled`); who leaves `start()` closes the transport, or a shutdown will (`Open`) |
| `FeedHolds` | `Fed` | the pause flag of the transport against its two reasons (`PausedFor`, `OnlyFor`), and `Resumed`: a parser that waits for no reader has parsed all that arrived, unless the queue is full or it counts requests that are not in it |
| `ClosingHolds` | `ClosesNothingInHand` | action property: `Phases` ties `start()` to the request's task, `Waiting` its waiter to the queue |

The invariant is `Sound(c)`, a conjunction of named parts. None of the three properties is
inductive, nor can they be separated: that nobody waits for what has been received
needs `Resumed`, which needs that the parser's count of queued requests is not short
(`Counts`), and that a paused queue is more than half full (`Full`), so that the request which
resumes it is still to come; the order needs to know where in the script the parser
stands (`Position`) and which bodies have ended (`Bodies`, `Behind`). A malformed request is
the exception everywhere: its 400 may come before the requests parsed with it
(`Failed`, and the second disjunct in `Queued`).

The state is one record, as the connection is one object, and a method is an operator
from record to record. A lemma per method says which fields it may change (`Same`) and
what they become; the actions follow from those lemmas. The parser runs until it has
to stop, which is a recursion whose length the data bounds: `Parse` is a recursive
function over `Turns(s)` turns, and `ParseRests` of the proof follows by
`BoundedInduction` from what one turn (`ParseTurn`) keeps.

### Bodies

`BodyStreamProofs`, for every body, parser, framing, codec and ratio of inflating, every
`read_bufsize`, any mix of read calls and any way the network cuts the body up:

| theorem | property | argument |
|---|---|---|
| `TypeCorrect` | `TypeOK` | what was fed is what was read plus what is buffered, block by block |
| `BackpressureHolds` | `Backpressure` | `Pauses`: above a mark the transport is paused, and `ResumeReading` is reached below both only; `Top`: the parser does not inflate above the mark without a look at the pause (`Room`, `Roomy`), so a block is the most it overshoots. `connection_lost()` takes the limit of the decompressor away, hence `Bounded` |
| `EndExact` | `EndIsExact` | `Fed`: what was fed and what the decompressor holds are the bytes before the token the parser is at, inflated; `Between`: it holds nothing when the parser is at a line; `Timed`: who opens the transport arms the timer; `Ended`, below |
| `NothingIsWithheld` | `NothingWithheld`, but for chunks with the Python parser (`Quick`) | `Served`: where a reader finds nothing, reading is not paused and the parser has not stopped; `Waits`: who waits has found nothing |

The invariant is `Sound(s)` of the one record that protocol, parser and stream are. It holds
after every turn of the event loop, and in a read call between one block and the next, which
is where the parser is re-entered. While the parser runs it does not hold; what does is
`Core` (whatever it does) and `Parsing` (after each turn of its loop), and `ParsedRests`
leads back to `Sound`. Every loop of the code, six of them in three layers (inflating,
parsing, reading), is a recursive function over its turns, and a lemma per loop (`DrainIs`,
`ParseIs`, ...) says that it is a run of turns, so that what a turn keeps the loop keeps.
`Wire` is recursive as well, and what is needed of it (`Given`: it ends in `last`, lines
and bytes follow each other as they must, and its bytes are those of the body) is proved of
every body first.

`Ended` is where the parsers differ. A body that ends with the connection is completed
only if nothing is left to inflate at that moment or the parser may inflate it, that is,
if it does not find a pause that is over; `Quiet` says so of every parser and codec
but the Python parser with zstd, for which it is false (section 4).

`NothingWithheld` needs the most of all three layers. A reader empties the buffer in one call
(`ReadUpToSound` and `DrainedSound` count the bytes a turn takes), so the last block it takes
must resume the parser: too few bytes are no obstacle, and two chunk ends that are still ahead
have a byte between them (`Ordered`, and `LowChunks` is at least two). The parser then goes on
from where it stopped, and when it returns it has eaten all that has arrived, or it has paused
again over bytes it has just fed (`Grown`, `Tracked`, `Stopped`). That it eats everything follows
from the wire: every turn takes a token, because the parser is always at a token that it
knows (`Aligned`, `Hungry`). `Tracked` is what the Python parser breaks in chunked bodies, where it
may stop without having fed anything; the theorem excludes that case and the run `body_hang`
shows it.

### A request

`ClientRequestProofs`, for any number of connections, redirects and kinds of body:

| theorem | property |
|---|---|
| `CleanReuseCorrect` | `CleanReuse` |
| `CredentialsStayCorrect` | `CredentialsStay` |
| `GivesUpCorrect` | `GivesUp` |
| `IsolationCorrect` | `Isolation`, of the joint specification of `MCClient`: the invariants of the next two sections, carried over to its instances |

The invariant is a statement `Sound(e)` about one exchange, `Written(e) /\ Pooled(e) /\
GivenUp(e)`, for every exchange. The writer's callback, the response's end, `release()`
and `close()` are operators on an exchange, and each has a lemma that it keeps `Sound`;
the actions then have nothing to prove but which of them they apply. `CleanReuse` speaks
of connections in the pool only. What makes it inductive is `Written`: a writer that has
ended on a connection that is still leased has written the body, was not to write it, or
has made the connection useless. `Owned` says who will stop the timer of the request.

`CredentialsStay` is proved by itself, for any origins, netrc entries and callers: it is
inductive, with the types of what a request carries (`AuthType`). `Dropped` takes away
what was given for another origin before `Auth` looks at the new one, so that what `Auth`
finds or adds is of that origin (`AuthCarries`); only the start, a hop and the
retry change a request (`RequestChanges`).

### WebSockets

`WebSocketProofs`, for any number of tasks, the client's end:

| theorem | property | argument |
|---|---|---|
| `SocketCorrect` | parts of `SocketSound` | all tasks may be cancelled: at most one `receive()` reads and the next message wakes it; one CLOSE; a closed socket gives its connection up |
| `SocketSoundCorrect` | `SocketSound` | under `use.cancellable = {}`, a `close()` that waits for the peer's CLOSE is woken by it as well |
| `HeartbeatCorrect` | `HeartbeatArmed` | a timer, a deferred reset or a pong deadline; each handler that clears one leaves another |

The invariant is `Sound`: `Control` ties a task's place to `cpu`, `ready` and its
future, `Reading` the queue's waiter to the task that reads, `Closing` and `Frames` the
flags to the frames sent. With cancellation and three tasks the whole of `SocketSound`
is false (section 6), which the attempt to prove it has shown. That two cancellable
tasks do keep it is only checked: it needs that there are two, a count the invariant
does not have.

and the server's (the instance `Server` in its second half), all of whose tasks may be
cancelled at every await, with or without heartbeat and for any limit of the queue:

| theorem | property | argument |
|---|---|---|
| `ServerSocketSoundCorrect` | `SocketSound` of the server | who waits for a message is the one it wakes; `receive()` and `close()` never wait side by side; one CLOSE; a closed socket gives its transport up |

The invariant says who may be where: one task at most is in `receive()` past its guard
(`OneReceives`), one at most in `close()` past the CLOSE, which reads only once no
`receive()` does (`OneCloses`), the queue's waiter is a task that waits for it
(`WaiterReads`), and a closed transport is somebody's duty (`GivesUp`). `MoveKeeps` proves
once that a task which moves keeps it, by the place it moves to; the lemmas about the
actions only say where each one goes. The server's end needs no hypothesis on
cancellation where the client's does (above): a second `close()` finds the socket closed and
returns before it can read.

`WebSocketWriterProofs`, for any number of calls, tasks and cancellations and all limits
of the flow control:

| theorem | property | argument |
|---|---|---|
| `WriterCorrect` | `Inv` | the inductive invariant of the other three |
| `DecodableCorrect` | `Decodable` with its `TypeOK` | `StreamInv`: the shared compressor has seen what is on the wire and then the message of the lock's owner, whose window is what is on the wire; so the window of a frame is that of the peer when it is read |
| `CallOrderCorrect` | `CallOrder` | `OrderInv`: whatever is on the wire was sent before everything that waits for the lock or is in the executor; `LockInv`: the lock's queue is in the order of the calls and behind its owner |
| `DrainIsWokenCorrect` | `DrainIsWoken` | inductive with the types |

`Decodable` is proved under `~Overrides`, `CallOrder` unless there are overrides on a
connection without compression: section 6 has the counterexamples. That the peer has seen
exactly the frames before the one it reads (`SeenIsIds`) is an induction over the wire.

### Host lookups

`SessionProofs`, for any number of callers, hosts and lookups and every size of the
cache:

| theorem | property | argument |
|---|---|---|
| `LookupsCorrect` | the first part of `Isolation` of `client`: `TypeOK`, `ThrottleExact`, `CacheExact`, `Isolation`, `WaiterIsAnswered` | `CacheStep` for the cache, `CallStep` for the callers; `Begun` (a lookup has a host exactly while it is on, and only `close()` cancels one) and `Suspended` make them inductive together |

`FinishKeeps` is the heart of it: a lookup completes the futures of its set and its
leader's shield, so that whoever still waits waits for another one.

### Digest authentication

`SessionProofs`, for any number of requests that share a middleware and any nonces:

| theorem | property | argument |
|---|---|---|
| `DigestCorrect` | `TypeOK`, `RetryAnswersItsChallenge` and `CountsInOrder`, the second part of `Isolation` | `LastIsCounted`: the middleware has the nonce and the count of what was sent last; `Hashing`: a request that waits for the bytes of its body has taken the challenge along |

### Common lemmas

`QueueLemmas` has what these proofs share: what is in a queue after `RemoveAt`, `Tail`,
`Append` and `SubSeq`, that an ordered queue stays ordered, and `SetInduction`: a set
with 0 in it, and with each number its successor, has all numbers. The induction
theorems of the library take an operator as a parameter, which the installed provers
cannot instantiate; a set they can, and the lemma follows from the theorem that every set
of numbers has a least one. This proves what a recursive *function* computes.
`BoundedRecursion` does the same for a definition: a function on `0..n` whose value at
`i` is given by the one at `i - 1` exists and satisfies its equation.
`BoundedInduction` carries a fact up to `n`.

### Only model-checked

Everything temporal (`WaiterServed`, `ExpiredClosed`, `CloseReturns`,
`DeadPeerNoticed`, `SendEnds`): liveness under fairness is outside TLAPS here.
`Multipart`, `Routing` and `WebSocketReader` walk their input with RECURSIVE operators, as
the code does; the prover cannot reason in a module that has one, or that instantiates one, as
`MCMessages` and `MCServer` do. Of `BodyStream` that leaves `ChunkEnds`, for which
the invariant would have to say which chunks the chunk ends are of. `Cookies` (`SentIsRight`),
`StreamResponse`, `RequestFraming`, `WebSocketHandshake` and `AppLifecycle` have no
RECURSIVE operator, and no proof either.

`SelectSeq` is recursive inside and opaque to the provers: `CancelLock` of
`WebSocketWriter` and `Without` of `DnsCache` therefore remove an element by its
position, as `asyncio.Lock` and the `OrderedDict` do. Where a module is proved about,
what runs until it has to stop is a recursive function with as many turns as there is data
(`Parse` of `RequestHandler`, the loops of `BodyStream`).

## 6. Where code and documents disagree

The first three are runs that expect a violation:

* `connector_cancel`: a waiter cancelled after it was woken and before it runs
  takes the wake-up with it (`connector.py:663`).
* `body_hang`: the Python parser stops a chunked body at a pause that is over
  (`http_parser.py:1016`). `messages` therefore runs the Python parser on the
  other kinds of body only.
* `server_stuck`: the extension counts a request as queued that has been handled
  (`_http_parser.pyx:573`, `917`).

The next are stated as properties in the modules, but no run has them; TLC
violates each in the run named here when it is added to its cfg:

* `ResultForAll` (`DnsCache.cfg`): a waiter reads the cache again instead of using the
  result; an entry evicted or cleared between raises `KeyError` out of a request
  whose host was resolved (`connector.py:1106`, comment at `1089`).
* `NoTimerAfterEof` (`messages`, as in `BodyStream`): a resume that completes the body arms `sock_read` on
  a connection that is idle in the pool (`client_proto.py:201`,
  `CHANGES/12953.bugfix.rst`).
* `BodyWhileClosing` (`server`): `close()` drops the rest of a body that a handler
  reads, and the handler waits for it until `shutdown_timeout`
  (`web_protocol.py:461`, `docs/web_advanced.rst:1095`).
* `OnlyTheCancelled` (`ws_writer`): the writers that drain await one future without
  a shield, so that cancelling one of them raises `CancelledError` in all
  (`base_protocol.py:140`, `CHANGES.rst:5733`).
* `CloseTimesOut` (`ws_client_close`): `ws_close` limits the wait for each message,
  not `close()`: a peer that goes on sending keeps it from returning
  (`client_ws.py:352`, `docs/client_reference.rst:2224`). The server's `close()`
  puts its timeout around the loop.
* `Decodable` with `Overrides = TRUE` (`ws_writer`): a message sent with `compress=`
  has a compressor of its own, whose frame enters the peer's window but not that
  of the shared compressor; with context takeover the peer cannot decompress the
  messages after it (`writer.py:175`). `CallOrder` there: on a connection without
  compression a message sent with `compress=` takes the lock or goes to the executor,
  and the plain messages behind it, which take no lock, overtake it.

* `UnsentIsNotReused` (`client`): a writer cancelled while it
  waits for 100-continue leaves its connection in the pool with the body unsent
  (`client_reqrep.py:1482`, comment at 1503). `CleanReuse` allows just this.
* `RedirectReplays` (`client`): a redirect that comes while
  an iterator is being sent sends the rest of it to the new URL
  (`client.py:773`, `payload.py:1066`).

TLC violates the next with a configuration of their own: `CookieLeak.cfg`, `AppCleanup.cfg`
(`tlc -config CookieLeak.cfg MCCookies.tla`), or one with the property,
`SPECIFICATION Spec`, `CHECK_DEADLOCK FALSE` and these constants:

| module | constants |
|---|---|
| `MCWebSocketReader` | `Streams <- SomeStreams`, `MaxMsgSize = 4`, `Compress = TRUE` |
| `MCRequestFraming` | `Arguments <- Careful`, `Bodies <- SomeBodies`, `CHUNK = 2`, `MaxUpdates = 1`, `MaxSends = 2` |
| `MCStreamResponse` | `Setups <- CarefulSetups`, `MaxWrites = 2`, `HookFails = FALSE` |
| `MCRouting` | `Apps = {"root"}`, `Paths <- UnicodePaths`, `Mounts <- SomeMounts`, `Domains = {"example.org"}`, `Targets <- UnicodeTargets`, `MaxCalls = 1`; for `DomainsComeLast` `Apps = {"root", "sub"}`, `Paths <- SomePaths`, `Targets <- SomeTargets`, `MaxCalls = 3` |
| `MCMultipart` | `Messages <- NoEpilogue`, `Sizes = {5}`, `MayBeCut = FALSE`, `LeavesLines = FALSE` |


* `FragmentsInflated` (`MCWebSocketReader`): a ping between the
  fragments of a compressed message, and the message is delivered without being
  inflated (`_websocket/reader_py.py:405`, comment at 238).
* `HostOnlyStays` (`CookieLeak.cfg`, `MCCookies`): the host-only flag is kept without the
  path; deleting the cookie of one path sends that of another to subdomains
  (`cookiejar.py:310`, `docs/client_reference.rst:2516`).
* `ChunksAnnounced` (`MCRequestFraming`): chunks under a head that
  does not say so (`client_reqrep.py:1436`, `docs/client_reference.rst:957`).
* `GuaranteedCleanup` (`AppCleanup.cfg`, `MCAppLifecycle`): a context that was entered is
  not exited when a later step of the startup fails (`web.py:301`,
  `docs/web_advanced.rst:917`).
* `ZeroSuffixUnsatisfiable` (`MCStreamResponse`): `bytes=-0` gets
  206 and the whole file (`web_fileresponse.py:353`).
* `UnicodeIsTransparent` (`MCRouting`): a pattern with a variable
  whose fixed part is not ASCII is percent-encoded and compared with a decoded
  path (`web_urldispatcher.py:426`, `docs/web_advanced.rst:13`).
* `DomainsComeLast` (`MCRouting`): applications by domain are asked before every path of
  the index, and a domain that matches ends the search
  (`web_urldispatcher.py:990`, `docs/web_reference.rst:2051`).
* `NoEpilogueNeeded` (`MCMultipart`): after a nested body without
  an epilogue the next part loses its first header (`multipart.py:866`).

Others, found by reading or with a changed model:

* with `limit=1` (any limit) reuse does not look at the limit, so that a
  caller that reuses an idle connection to one host while the limit is
  exhausted by another exceeds "total number simultaneous connections"
  (`connector.py:360`, `583`, `docs/client_reference.rst:1115`); two releases in
  one turn may wake two waiters of a host that has one slot (`connector.py:731`):
  the second queues again, at the front, so nothing is exceeded.
* an empty list from a resolver is cached and the next lookup raises
  `RuntimeError`; `dns_cache_max_size=0` raises `KeyError`; `close()` leaves
  `_acquired_per_host`, so that a call on a closed connector with a per-host limit
  may wait; with Python < 3.12 a lookup cancelled by `close()` before its first step
  leaves its throttle entry (`eager` in `DnsCache`); a trace signal that raises
  after the connection is established leaves its transport open
  (`EveryTransportOwned` is run without traces).
* server: a malformed request drops the requests parsed before it in the
  same segment and its 400 is sent first (`InOrder` allows just this);
  `pre_shutdown` ends `start()` of an idle connection but leaves its transport
  open until `Server.shutdown` (`EndedIsClosed` allows just this);
  `connection_lost` clears `_task_handler`, so that `shutdown()` neither awaits nor
  cancels a handler that outlives its client; a handler that ends in the turn in
  which `shutdown()` has timed out sets a cancelled future and its
  `InvalidStateError` is logged; requests queued behind the current one are
  dropped by `close()`; a connection that never sent a request has no
  keep-alive timer.

* client: the retry on a stale connection sends the rest of an iterator, as a
  redirect does (`client.py:722`); `_update_headers` takes the `Host` header out of the
  caller's own headers (`client_reqrep.py:911`); a file that is read in the executor by
  a cancelled writer may be read by the next hop at the same time; a body that
  cannot be sought is sent empty when digest authentication repeats the request;
  `Transfer-Encoding: chunked` given as a header with a sized body gives both headers;
  a text file is measured by its size on the disk (`payload.py:181`; `CRLFText` of
  `MCRequestFraming` has such a file).
* responses: an exception in `on_response_prepare` after the framing is chosen, and
  the error response is chunked or compressed as the first one would have been
  (`HookFails = TRUE`); compressing a response to HEAD or with 204 or 304 sends the
  compressor's last bytes; a handler that writes after HEAD sends a body; a
  cancelled `write_eof` may be written twice.
* WebSockets: `max_msg_size` refuses a frame of exactly that size but accepts a
  compressed message of it; a second unfinished TEXT replaces the opcode of the
  first, and an empty first fragment is forgotten; `WebSocketResponse._cancel`
  (`web_ws.py:768`) is never called; a server's `close()` that is cancelled while
  it breaks a `receive()` leaves the transport open; `receive()` that meets a PING
  after the close raises; heartbeats are armed once more after the close. A client
  with three tasks: a `receive()` cancelled while it waits clears the queue's
  `_waiter`, which may by then be that of a second `close()` (the first one's was
  resolved, and its reader has not run yet), so that only its timeout wakes this
  `close()` (`_websocket/reader_py.py:119`). `SocketSound` is therefore stated for
  two tasks that may be cancelled.
* applications: mounted twice, an application runs its contexts twice; a domain
  application under a prefix raises `KeyError` when it is moved
  (`web_urldispatcher.py:719`); a refused `add_get` leaves its HEAD; a frozen router still takes another method for the last resource (1106);
  a plain route that is registered percent-encoded or in unicode below a prefix is
  not found (`docs/web_advanced.rst:13`).
* digest authentication, stated in `DigestAuth`: `CountedOnce` ("Includes replay attack
  protection with client nonce count tracking", docstring of the class): the count
  is kept for the last nonce only and used again when requests alternate between
  two; `FailsForItsOwn`: a challenge that it cannot answer is kept, and with
  `preemptive` every later request of the protection space raises before it is sent.
* cookies: a cookie set again without an expiry keeps the old deadline
  (`cookiejar.py:374`); the host-only flag stays when it is set again with a
  domain; an invalid `max-age` hides a valid `expires`.
* multipart: `readline()` loses the line it has looked ahead when the part is left
  (`multipart.py:885`).

## 7. Not modelled, and the plan

Not modelled in the modules above: the tail of an upgraded connection, access logs,
`readuntil`/`readline` of `StreamReader` (a separator of several bytes that is split
between two blocks is missed), proxies and Happy Eyeballs inside
`_create_connection` (one step that succeeds, fails or is cancelled), the
`Content-Range` header (the range itself is modelled, and the length), malformed
payloads, `FormData`, transfer encodings within multipart, headers that do not frame
a message, quoting. Not modelled at all: the syntax of message heads and of challenges,
digests, resolvers and tracing, for which `PROJECT.json` gives the reasons.

Composition stops at interfaces: `ClientRequest` uses the pool as
`ConnectionLease`, which `Connector` is shown to implement; `StreamResponse` and
`RequestFraming` use `StreamWriter` and `HttpParser`; `RequestHandler` and
`AppLifecycle` share the order of `BaseRunner.cleanup`.

What could be proved next: `ChunkEnds` of `BodyStream`; `LastInFirstOut` of `AppLifecycle`.
