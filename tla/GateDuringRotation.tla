------------------------- MODULE GateDuringRotation -------------------------
(***************************************************************************)
(* The gate and the rotation of its key: the evaluations of EdgeGate read  *)
(* the store that SecretRotation's copies write.  Tokens are signed with   *)
(* keys that Secrets Manager has had, the current one or, by lambdas that  *)
(* keep the key they started with, an earlier one.  The clock stands       *)
(* still: expiry does not depend on the key.                               *)
(***************************************************************************)
EXTENDS SecretRotation, FiniteSets

CONSTANTS Role, Functions, Visits, Jti, NoJti

VARIABLES
  now,                 \* the clock, which stands still
  denied,              \* sessions with a revoked: entry
  at, fn, visit, answer, began, held, barred, lost, back, quiet, fault,
  refused,             \* as in EdgeGate, whose pc is at
  current,             \* history: the token's key was jwt.secret on arrival
  turned,              \* history: jwt.secret has changed since then
  unkept,              \* history: and the key it had was not preserved
  again                \* history: a copy wrote jwt.secret.old after that

Gate == INSTANCE EdgeGate WITH pc <- at, MaxTime <- 0, MaxAge <- 0

evaluation == <<at, fn, visit, answer, began, held, barred, lost, back, quiet,
                fault, refused>>
causes     == <<current, turned, unkept, again>>
allVars    == <<vars, now, denied, evaluation, causes>>

InitAll ==
  /\ Init /\ Gate!Init /\ denied = {}
  /\ current = FALSE /\ turned = FALSE /\ unkept = FALSE /\ again = FALSE

\* A request comes in, with a token that has been signed by now.
Request ==
  /\ \E f \in Functions, v \in Visits :
       /\ Gate!Session(f, v).key <= sm
       /\ Gate!Arrive(f, v)
       /\ current' = (cur # 0 /\ Gate!Session(f, v).key = cur)
  /\ turned' = FALSE /\ unkept' = FALSE /\ again' = FALSE
  /\ UNCHANGED vars

Validate == Gate!ComposedValidate /\ UNCHANGED <<vars, causes>>
Consult  == Gate!ReadDenylist /\ UNCHANGED <<vars, causes>>
Leave ==
  /\ Gate!Leave /\ UNCHANGED vars
  /\ current' = FALSE /\ turned' = FALSE /\ unkept' = FALSE /\ again' = FALSE

\* A step of the rotation and its copies, seen by the evaluation under way.
Rotating ==
  /\ Next /\ UNCHANGED <<now, denied, current>>
  /\ IF <<cur', prior'>> = <<cur, prior>> THEN UNCHANGED evaluation
     ELSE Gate!Observe
  /\ turned' = (turned \/ (current /\ cur' # cur))
  /\ unkept' = (unkept \/ (current /\ cur' # cur /\ prior' # cur))
  /\ again' = (again \/ (turned /\ prior' # prior))

\* The write of session-revocation or logout, or the stream processor's.
Revoking ==
  /\ OtherWrite /\ UNCHANGED now
  /\ \E j \in Jti : denied' \in {denied \cup {j}, denied \ {j}} \ {denied}
  /\ Gate!Observe /\ UNCHANGED causes

NextAll == Request \/ Validate \/ Consult \/ Leave \/ Rotating \/ Revoking

SpecAll == InitAll /\ [][NextAll]_allVars

-----------------------------------------------------------------------------
(* Properties                                                              *)

\* hmacSecret/index.py:33, "zero-downtime rotation", as it is seen by one
\* request: a token of the key that was current when the request came in is
\* refused for its signature only if a read failed, or a copy replaced the key
\* without preserving it, or another copy (a retry, a deployment, the next
\* rotation) overwrote jwt.secret.old before the request was answered.
KeyChangeSpares ==
  (at = "done" /\ current /\ refused) => fault \/ unkept \/ again
=============================================================================
