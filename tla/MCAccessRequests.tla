-------------------------- MODULE MCAccessRequests --------------------------
(* Instances of AccessRequests for TLC.                                      *)
EXTENDS AccessRequests, TLC

\* Handlers, reviewers and request ids are interchangeable.
Symmetric ==
    Permutations(Handlers) \cup Permutations(Reviewers) \cup Permutations(RequestIds)
=============================================================================
