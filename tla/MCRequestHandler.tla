-------------------------- MODULE MCRequestHandler --------------------------
(* RequestHandler on short scripts, for TLC.                               *)
EXTENDS RequestHandler

Get == [body |-> 0, last |-> FALSE, bad |-> FALSE]
Post(n) == [body |-> n, last |-> FALSE, bad |-> FALSE]
LastGet == [body |-> 0, last |-> TRUE, bad |-> FALSE]
Bad == [body |-> 0, last |-> FALSE, bad |-> TRUE]

BothParsers == {"python", "extension"}
Extension == {"extension"}
Pipelines == {
  <<Get, Get, Get, Get, Get>>,
  <<Post(4), Get, Post(1), LastGet>>,
  <<Get, Get, Bad>>,
  <<Post(1), Get, Get, Get>>}
=============================================================================
