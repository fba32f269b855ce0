------------------------ MODULE MCWebSocketHeartbeat ------------------------
(* The timing of tests/test_websocket.py:408-416 (0.2 and 0.5 seconds), in *)
(* ticks of a tenth of a second.                                           *)
EXTENDS WebSocketHeartbeat

OverlapTimings == {[interval |-> 2, timeout |-> 5]}

=============================================================================
