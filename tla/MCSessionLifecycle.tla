------------------------- MODULE MCSessionLifecycle -------------------------
(* The session layer for TLC: tokens and invocations are interchangeable.  *)
EXTENDS SessionLifecycle, TLC

Lifetimes == {0}

\* Of tokens that may outlive the record (SessionTtl = 0).
OutlivingLifetimes == {0, 1}

Symmetry == Permutations(Jti) \cup Permutations(Invocation)
=============================================================================
