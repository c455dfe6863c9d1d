---------------------------- MODULE MCConnector ----------------------------
(* Connector on small sets, for TLC.                                       *)
EXTENDS Connector

\* Tasks are interchangeable, and so are protocol objects and, apart from
\* TLS, hosts.
Symmetry ==
  Permutations(Tasks) \cup Permutations(Protos) \cup Permutations(Keys \ SslKeys)
=============================================================================
