------------------------------ MODULE PingPong ------------------------------
(***************************************************************************)
(* What every communication mode that plays ping-pong promises: there is   *)
(* one ball.  ping counts a serve and lets go of the ball, pong takes it   *)
(* and plays it back, and only then does ping count the next serve, so     *)
(* ping_count is the number of round trips begun.  Something from outside  *)
(* (leftovers of an earlier run, a lost datagram, the stop request) may    *)
(* call the game off, after which nothing is promised.                     *)
(***************************************************************************)
EXTENDS Naturals

CONSTANT Wrap    \* ping_count is an unsigned counter; here it wraps at Wrap

VARIABLES
    ball,   \* "ping", "to_pong", "pong", "to_ping" or "off"
    count   \* run_data->ping_count

vars == <<ball, count>>

\* ping begins with the ball, unless comm_begin throws it in.
Init == ball \in {"ping", "to_ping", "off"} /\ count = 0

\* run_data->ping_count ++, and the ball is on its way
Serve ==
    /\ ball = "ping" /\ ball' = "to_pong"
    /\ count' = (count + 1) % Wrap

Move(from, to) == ball = from /\ ball' = to /\ UNCHANGED count
Take == Move("to_pong", "pong")
Reply == Move("pong", "to_ping")
Back == Move("to_ping", "ping")

Play == Serve \/ Take \/ Reply \/ Back

CallOff == ball' = "off" /\ count' = 0

Next == Play \/ CallOff

Spec == Init /\ [][Next]_vars

\* The game goes on: each side keeps getting the ball.
LiveSpec == Spec /\ WF_vars(Play)
=============================================================================
