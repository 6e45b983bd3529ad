---------------------------- MODULE MCDiscussion ----------------------------
(* Discussion for TLC: the symmetry of its goroutines, votes and guests.   *)
EXTENDS Discussion, TLC

CONSTANT Guest       \* the agents but the creator and the virtual ones

ASSUME GuestsAreAlike == Guest = Agent \ ({Creator} \union Virtual)

Symmetry == Permutations(Task) \union Permutations(Vote) \union Permutations(Guest)
=============================================================================
