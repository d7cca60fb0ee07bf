--------------------------- MODULE TokenAuthority ---------------------------
(***************************************************************************)
(* What the session layer promises about a session token, with nothing of  *)
(* the table, the key-value store or the lambdas: a token is handed out    *)
(* once, and from the moment it is dead (expired, or on the denylist) no   *)
(* step brings it back to life, while there is a record behind it.  Where  *)
(* the record ends before the token, nothing is promised from then on: the *)
(* token has lapsed.  SessionLifecycle implements this.                    *)
(***************************************************************************)

CONSTANT Jti          \* the session identifiers (jti claims)

VARIABLE status       \* status[j]: what the holder of token j can do with it

Statuses == {"unissued", "live", "dead", "lapsed"}

Init == status = [j \in Jti |-> "unissued"]

\* The token reaches a browser.  It may be dead on arrival: the user's
\* sessions can be revoked between the session record and the response.
Issue(j) ==
  /\ status[j] = "unissued"
  /\ \E s \in Statuses \ {"unissued"} : status' = [status EXCEPT ![j] = s]

\* Tokens stop being accepted, several at once when time passes.
Kill(S) ==
  /\ \A j \in S : status[j] = "live"
  /\ status' = [j \in Jti |-> IF j \in S THEN "dead" ELSE status[j]]

\* The record is removed, and was shorter-lived than its token.
Lapse(j) ==
  /\ status[j] \in {"live", "dead"}
  /\ status' = [status EXCEPT ![j] = "lapsed"]

Next == \/ \E j \in Jti : Lapse(j)
        \/ \E j \in Jti : Issue(j)
        \/ (\E S \in SUBSET Jti : Kill(S))

Spec == Init /\ [][Next]_status
=============================================================================
