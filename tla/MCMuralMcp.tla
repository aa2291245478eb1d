----------------------------- MODULE MCMuralMcp -----------------------------
(* Instances of MuralMcp for TLC.                                            *)
EXTENDS MuralMcp, TLC

\* Users are interchangeable, and so are boards off the allow list.
Symmetric == Permutations(Users) \cup Permutations(Boards)

\* What a finished call of the OAuth client answered is of no consequence to what
\* follows (a tool call has its answer in session).
Unanswered ==
    <<accessVars, patVars, clock, states, links,
      [h \in Handlers |-> IF linking[h].pc = "idle" THEN Link!Idle("none") ELSE linking[h]],
      mural, issued_to, exchanged, consent, bought, lost, overlapped, session, seen>>
=============================================================================
