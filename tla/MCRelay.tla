------------------------------ MODULE MCRelay -------------------------------
(* Instances of Relay for TLC.                                              *)
EXTENDS Relay

CONSTANTS k1, k2

MCRequest(k, c) == [kind : k, correlation : c]

\* A greeting, a subscription and two requests at once.  Identifiers are used
\* again, by a concurrent and by a later request.
MCRequests ==
  <<MCRequest({"hello"}, {k1}), MCRequest({"subscribe"}, {k2}),
    MCRequest({"hello", "malformed", "manifest"}, {k1}), MCRequest({"other"}, {k2})>>
============================================================================
