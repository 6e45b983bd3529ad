------------------------ MODULE DiscussionLifecycle ------------------------
(***************************************************************************)
(* What a discussion promises the agents in it: it waits for its           *)
(* participants, may become active, and ends once, with an outcome that    *)
(* fits the way it ended, unless a conclude vote it left open concludes it *)
(* over again.  This is the abstract specification that Discussion.tla     *)
(* implements when requests do not overlap.                                *)
(*                                                                         *)
(* Source: the discussions row (status, outcome) as                        *)
(* go/server/internal/discussion/service.go writes it.                     *)
(***************************************************************************)

VARIABLES status,   \* discussions.status
          outcome   \* discussions.outcome

Live     == {"waiting", "active"}
Finished == {"concluded", "cancelled", "timed_out"}

\* What computeOutcome may answer for a discussion ending as end.
OutcomesOf(end) == IF end = "concluded" THEN {"consensus", "deadlock", "partial"}
                                        ELSE {"abandoned"}

Init == status = "waiting" /\ outcome = "none"

Activate == status = "waiting" /\ status' = "active" /\ UNCHANGED outcome

End(how) == /\ status \in (IF how = "timed_out" THEN {"waiting"}
                           ELSE IF how = "concluded" THEN {"active", "waiting"}
                           ELSE Live)
            /\ status' = how
            /\ outcome' \in OutcomesOf(how)

\* Nothing closes the votes of a discussion that ends, and evaluating one does
\* not ask for the discussion's status: a conclude vote found to pass later
\* concludes the discussion, however it had ended.
LateConclusion == /\ status \in Finished
                  /\ status' = "concluded"
                  /\ outcome' \in OutcomesOf("concluded")

Next == Activate \/ LateConclusion \/ \E how \in Finished : End(how)

Spec == Init /\ [][Next]_<<status, outcome>>
=============================================================================
