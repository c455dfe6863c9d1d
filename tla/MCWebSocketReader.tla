-------------------------- MODULE MCWebSocketReader --------------------------
\* Streams of up to three frames, of two if they are masked.
EXTENDS WebSocketReader

F(fin, rsv1, opcode, mask, payload) ==
  [fin |-> fin, rsv1 |-> rsv1, opcode |-> opcode, mask |-> mask, payload |-> payload]

SomeFrames(mask) ==
  {F(TRUE, FALSE, "text", mask, <<"a", "b", "c">>), F(TRUE, FALSE, "text", mask, <<"invalid">>),
   F(FALSE, FALSE, "text", mask, <<"a">>), F(FALSE, FALSE, "binary", mask, <<"a", "b">>),
   F(FALSE, FALSE, "continuation", mask, <<"b">>), F(TRUE, FALSE, "continuation", mask, <<"c", "d">>),
   F(TRUE, FALSE, "continuation", mask, <<>>), F(TRUE, FALSE, "binary", mask, <<"a", "b", "c", "d">>),
   F(TRUE, TRUE, "text", mask, <<"z", "end">>), F(FALSE, TRUE, "text", mask, <<"z">>),
   F(TRUE, FALSE, "continuation", mask, <<"end">>), F(TRUE, TRUE, "binary", mask, <<"zz", "end">>),
   F(TRUE, FALSE, "ping", mask, <<"p">>), F(TRUE, FALSE, "close", mask, <<>>),
   F(TRUE, FALSE, "close", mask, <<"x">>), F(FALSE, FALSE, "ping", mask, <<>>)}

SomeStreams == SeqOf(SomeFrames(FALSE), 3) \cup SeqOf(SomeFrames(TRUE), 2)
=============================================================================
