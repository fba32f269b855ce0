---------------------------- MODULE RequestBody ----------------------------
(***************************************************************************)
(* What every protocol of asgiri promises an application about the body of *)
(* one request: `receive` hands over the http.request messages of the      *)
(* request exactly once and in the order in which the client's bytes were  *)
(* parsed, the message with more_body False last.  The number of a message *)
(* stands for its content.                                                 *)
(*                                                                         *)
(* The concrete receive paths (Http2Body, Http11Connection) are shown to   *)
(* implement this module, or by how much they do not.                      *)
(***************************************************************************)
EXTENDS Naturals, Sequences

VARIABLES
    sent,      \* how many messages the protocol has made of the request
    ended,     \* the last of them is the one with more_body False
    received   \* the messages `receive` has returned, in order

vars == <<sent, ended, received>>

Init ==
    /\ sent = 0
    /\ ended = FALSE
    /\ received = <<>>

(* The protocol makes a message of bytes it parsed.                        *)
Send ==
    /\ ~ended
    /\ sent' = sent + 1
    /\ UNCHANGED <<ended, received>>

(* The protocol makes the message that ends the request.                   *)
SendLast ==
    /\ ~ended
    /\ sent' = sent + 1
    /\ ended' = TRUE
    /\ UNCHANGED received

(* `receive` returns the next message.                                     *)
Receive ==
    /\ Len(received) < sent
    /\ received' = Append(received, Len(received) + 1)
    /\ UNCHANGED <<sent, ended>>

Next == Send \/ SendLast \/ Receive

Spec == Init /\ [][Next]_vars

-----------------------------------------------------------------------------
(* The weaker promise of a protocol that keeps the order only of requests  *)
(* of at most n messages: of a longer one any message that was sent and    *)
(* not yet returned may come next.  None is returned twice.                *)
ReceiveAny ==
    /\ \E m \in 1..sent :
          /\ \A i \in DOMAIN received : received[i] # m
          /\ received' = Append(received, m)
    /\ UNCHANGED <<sent, ended>>

NextUpTo(n) ==
    \/ Send \/ SendLast
    \/ sent <= n /\ Receive
    \/ sent > n /\ ReceiveAny

=============================================================================
