----------------------------- MODULE MCLinking ------------------------------
(* Instances of Linking for TLC.                                             *)
EXTENDS Linking, TLC

\* Handlers, states, grants and users are interchangeable.
Symmetric == Permutations(Handlers) \cup Permutations(StateIds) \cup Permutations(Grants)
             \cup Permutations(Users)

\* What a finished call answered is of no consequence to what follows.
Unanswered ==
    <<clock, states, tokens,
      [h \in Handlers |-> IF handler[h].pc = "idle" THEN Idle("none") ELSE handler[h]],
      mural, issued_to, exchanged, consent, bought, lost, overlapped>>
=============================================================================
