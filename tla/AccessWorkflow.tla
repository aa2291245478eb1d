--------------------------- MODULE AccessWorkflow ---------------------------
(* What the access-request workflow promises a user about a board, without   *)
(* documents, ids, dates or handlers: one status that moves from none to     *)
(* pending, from pending to a decision, and from rejected back to pending.   *)

CONSTANTS
    Users,   \* principals that request access
    Boards   \* Mural board ids

VARIABLE status   \* <<user, board>> -> the status of the access request

\* request_access: allowed with no request, or after a rejection.
Ask(p) ==
    /\ status[p] \in {"none", "rejected"}
    /\ status' = [status EXCEPT ![p] = "pending"]

\* approve and reject: allowed on a pending request only.
Decide(p, verdict) ==
    /\ status[p] = "pending"
    /\ status' = [status EXCEPT ![p] = verdict]

Init == status = [p \in Users \X Boards |-> "none"]

Next ==
    \E p \in Users \X Boards :
        \/ Ask(p)
        \/ \E verdict \in {"approved", "rejected"} : Decide(p, verdict)

Spec == Init /\ [][Next]_status

=============================================================================
