------------------------------ MODULE MCServices ------------------------------
(***************************************************************************)
(* The services behind a distribution for TLC.                             *)
(***************************************************************************)
EXTENDS Services, TLC

\* Within a service, what has an id of its own is interchangeable; the roles are
\* few enough to be told apart.
Symmetry ==
  Permutations(User) \cup Permutations(ScimId) \cup Permutations(Handler)
  \cup Permutations(Jti)
=============================================================================
