------------------------------ MODULE MCDream ------------------------------
(* Dream for TLC by itself: every identity may dream, on every tick.        *)
EXTENDS Dream

MCNights == {[who |-> Identity, until |-> DreamMaxClock, faults |-> DreamMaxFaults]}
=============================================================================
