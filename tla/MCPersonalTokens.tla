-------------------------- MODULE MCPersonalTokens --------------------------
(* Instances of PersonalTokens for TLC.                                      *)
EXTENDS PersonalTokens, TLC

\* Lifetimes a payload may ask for: none, zero, negative, ordinary, excessive.
SomeTtls == {None, 0, -1, 2, 9}

\* Handlers, tokens and users are interchangeable.
Symmetric == Permutations(Handlers) \cup Permutations(TokenIds) \cup Permutations(Users)
=============================================================================
