------------------------- MODULE MCHttp2Connection -------------------------
(* Instances of Http2Connection for TLC: two streams, each of any kind.    *)
EXTENDS Http2Connection

CONSTANTS a, b

=============================================================================
