------------------------------- MODULE MCPool -------------------------------
(* A small instance of the process pool for TLC. *)
EXTENDS Pool

\* One handler of each shape: "call" starts spawners, waits, and drops what it
\* kills, "exec" looks first, receives later and sends even the process it killed
\* back itself, "memory" empties and refills Warm with the mutex held.
ThreeShapes == {"call", "exec", "memory"}
=============================================================================
