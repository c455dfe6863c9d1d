---------------------------- MODULE MCBodyStream ----------------------------
(* BodyStream on short bodies, for TLC.                                    *)
EXTENDS BodyStream

Kinds == {"chunked", "length", "eof"}
Codecs == {"identity", "zlib", "zstd"}

\* Every body with the extension; the Python parser where a read cannot hang
\* (see PythonChunked).
WorkingModes ==
  [parser : {"extension"}, kind : Kinds, codec : Codecs]
    \cup [parser : {"python"}, kind : {"length", "eof"}, codec : Codecs]

PythonChunked == [parser : {"python"}, kind : {"chunked"}, codec : {"identity"}]

\* Many small chunks for the limit on their number, and few large ones.
SmallBodies == {<<1, 1, 1, 1, 1>>, <<5, 1>>}
=============================================================================
