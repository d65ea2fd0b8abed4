----------------------------- MODULE MCPending -----------------------------
(* A small instance of the request registry for TLC. *)
EXTENDS Pending

\* In ticks of 30 s: the 30 s of a tools/list, as long as RegisterRequest's timer,
\* so that either may be first (as with the 10 s of a tool refresh, whose timeout
\* always is), and the 60 s of a call.
TwoTimeouts == {1, 2}
=============================================================================
