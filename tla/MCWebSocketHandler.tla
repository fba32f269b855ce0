------------------------- MODULE MCWebSocketHandler -------------------------
(* Instances of WebSocketHandler for TLC.                                  *)
EXTENDS WebSocketHandler

Setting(o, p, i, t, f, s) ==
    [over |-> o, pings |-> p, interval |-> i, timeout |-> t,
     frames |-> f, sends |-> s]

(* Messages in fragments; sends before and behind the accept; the          *)
(* heartbeat with and without watchdogs that outlive the next ping.        *)
AnySettings ==
    {Setting("http11", FALSE, 1, 1, 3, 0), Setting("http11", FALSE, 1, 1, 1, 2),
     Setting("extended", FALSE, 1, 1, 1, 2),
     Setting("http11", FALSE, 1, 1, 0, 3), Setting("extended", FALSE, 1, 1, 0, 3),
     Setting("http11", TRUE, 1, 1, 1, 1), Setting("http11", TRUE, 2, 4, 1, 0)}

=============================================================================
