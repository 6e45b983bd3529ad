----------------------------- MODULE DreamCursor -----------------------------
(* What the dream job promises of its cursors: a cursor stands only where   *)
(* every log between the start of its history and itself has been dreamed.  *)
(* It may go back; it never passes a log.                                   *)
EXTENDS Naturals

CONSTANTS Identity, Log
VARIABLES arrived,    \* the logs stored
          when,       \* their times
          whose,      \* their identities
          dreamed,    \* the logs read and dealt with
          stand       \* the cursor of an identity: where it is, and since when
cursorVars == <<arrived, when, whose, dreamed, stand>>

(* The logs of an identity in a window (from, to].                          *)
Passed(i, from, to) ==
    {l \in arrived : whose[l] = i /\ from < when[l] /\ when[l] <= to}

CursorInit == arrived = {} /\ dreamed = {} /\ \A i \in Identity : stand[i].at = 0 /\ stand[i].base = 0

Arrive ==
    /\ arrived \subseteq arrived'
    /\ \A l \in arrived : when'[l] = when[l] /\ whose'[l] = whose[l]
    /\ \A l \in arrived' \ arrived : when'[l] > stand[whose'[l]].at
    /\ UNCHANGED <<dreamed, stand>>

Digest ==
    /\ dreamed \subseteq dreamed'
    /\ UNCHANGED <<arrived, when, whose, stand>>

(* The cursor of one identity moves, to where everything up to it is done.  *)
Move(i) ==
    /\ stand' = [stand EXCEPT ![i] = stand'[i]]
    /\ Passed(i, stand'[i].base, stand'[i].at) \subseteq dreamed
    /\ UNCHANGED <<arrived, when, whose, dreamed>>

CursorNext == Arrive \/ Digest \/ \E i \in Identity : Move(i)
CursorSpec == CursorInit /\ [][CursorNext]_cursorVars
=============================================================================
