--------------------------- MODULE CustomUiSession ---------------------------
(***************************************************************************)
(* Sessions of the Cognito variant with its own sign-in page: the lambdas  *)
(* that make, renew and end them, call by call, over the session and       *)
(* refresh records, the refresh tokens of Cognito and the denylist of the  *)
(* edge.  Whether Cognito returns a new refresh token, in place of the one *)
(* exchanged, is a setting of the user pool.                               *)
(***************************************************************************)
EXTENDS Naturals

CONSTANTS
  Jti,            \* ids of sessions
  SignIn,         \* sign-ins, by the refresh token Cognito first issued
  Handler,        \* invocations under way at once
  None,           \* a value that is absent
  Rotates,        \* may Cognito issue a new refresh token on an exchange?
  MaxRequests     \* bound: requests

\* A refresh token: the sign-in it comes from and the jti it was issued for,
\* None for the one of the sign-in itself.
RefreshToken == [signIn : SignIn, for : Jti \cup {None}]
First(c) == [signIn |-> c, for |-> None]

\* What the constants have to be: a value that is absent is no other.
NoneAssumption ==
  /\ None \notin Jti \cup SignIn \cup RefreshToken
  /\ Rotates \in BOOLEAN /\ MaxRequests \in Nat

VARIABLES
  session,    \* jtis with a SESSION# record
  refresh,    \* the token in the record REFRESH#<jti>, None without one
  live,       \* refresh tokens Cognito honours
  denied,     \* jtis in the denylist
  held,       \* jtis a browser was given a cookie for
  expired,    \* jtis whose token is past its exp
  req,        \* each invocation: its step and what it has read
  requests,   \* counts towards MaxRequests
  origin,     \* history: the sign-in each jti was minted for, or None
  unsaved,    \* history: jtis sent after a failed write or left half logged out
  ended       \* history: sign-ins ended by a logout that revoked their token

stores  == <<session, refresh, live, denied>>
history == <<origin, unsaved, ended>>
vars    == <<stores, held, expired, req, requests, history>>

Idle == [step |-> "idle", signIn |-> None, old |-> None, new |-> None,
         token |-> None, ok |-> TRUE]

Step == {"idle", "putSession", "putRefresh", "respond", "get", "exchange",
         "putNew", "deleteOld", "putNewSession", "respondNew", "read",
         "revoke", "dropRefresh", "dropSession", "deny"}

TypeOK ==
  /\ session \subseteq Jti /\ denied \subseteq Jti
  /\ held \subseteq Jti /\ expired \subseteq Jti
  /\ refresh \in [Jti -> RefreshToken \cup {None}]
  /\ live \subseteq RefreshToken
  /\ req \in [Handler -> [step : Step, signIn : SignIn \cup {None},
                          old : Jti \cup {None}, new : Jti \cup {None},
                          token : RefreshToken \cup {None}, ok : BOOLEAN]]
  /\ requests \in 0..MaxRequests
  /\ origin \in [Jti -> SignIn \cup {None}]
  /\ unsaved \subseteq Jti /\ ended \subseteq SignIn

\* The edge: signature, exp and denylist; it reads no record.
Accepts(j) == j \in held /\ j \notin expired /\ j \notin denied

-----------------------------------------------------------------------------
(* Steps of an invocation                                                  *)

Begin(h, record) ==
  /\ req[h] = Idle /\ requests < MaxRequests
  /\ requests' = requests + 1
  /\ req' = [req EXCEPT ![h] = record]

Goto(h, step) == req' = [req EXCEPT ![h].step = step]
Finish(h)     == req' = [req EXCEPT ![h] = Idle]

\* A call fails where the code logs and goes on.
Shrug(h, step) == req' = [req EXCEPT ![h].step = step, ![h].ok = FALSE]

\* The invocation ends, by an error nobody handles or by its time limit.
Abandon(h) ==
  /\ req[h] # Idle
  /\ Finish(h)
  /\ unsaved' = IF req[h].step = "deny" THEN unsaved \cup {req[h].old}
                ELSE unsaved
  /\ UNCHANGED <<stores, held, expired, requests, origin, ended>>

-----------------------------------------------------------------------------
(* Session: POST with an id_token and, possibly, a refresh_token           *)

\* Up to the first write.  The page signs in at Cognito before its first POST,
\* and may repeat the POST; the body need not carry the refresh token.
BeginSession(h, c, j, withToken) ==
  /\ origin[j] = None
  /\ Begin(h, [Idle EXCEPT !.step = "putSession", !.signIn = c, !.new = j,
                           !.token = IF withToken THEN First(c) ELSE None])
  /\ origin' = [origin EXCEPT ![j] = c]
  /\ live' = IF \E i \in Jti : origin[i] = c THEN live
             ELSE live \cup {First(c)}
  /\ UNCHANGED <<session, refresh, denied, held, expired, unsaved, ended>>

\* A write that fails is a 503 without a cookie: Abandon.
PutSession(h) ==
  /\ req[h].step = "putSession"
  /\ session' = session \cup {req[h].new}
  /\ Goto(h, IF req[h].token = None THEN "respond" ELSE "putRefresh")
  /\ UNCHANGED <<refresh, live, denied, held, expired, requests, history>>

PutRefresh(h) ==
  /\ req[h].step = "putRefresh"
  /\ refresh' = [refresh EXCEPT ![req[h].new] = req[h].token]
  /\ Goto(h, "respond")
  /\ UNCHANGED <<session, live, denied, held, expired, requests, history>>

Respond(h) ==
  /\ req[h].step \in {"respond", "respondNew"}
  /\ held' = held \cup {req[h].new}
  /\ unsaved' = IF req[h].ok THEN unsaved ELSE unsaved \cup {req[h].new}
  /\ Finish(h)
  /\ UNCHANGED <<stores, expired, requests, origin, ended>>

-----------------------------------------------------------------------------
(* Refresh, with a cookie that may have expired                            *)

BeginRefresh(h, j) ==
  /\ j \in held
  /\ Begin(h, [Idle EXCEPT !.step = "get", !.signIn = origin[j], !.old = j])
  /\ UNCHANGED <<stores, held, expired, origin, unsaved, ended>>

\* Without a record the browser is sent to sign in.  The read may trail the
\* table: missing a record, it ends the request, as Abandon does; one that is
\* gone is what an earlier step would have read.
GetRefresh(h) ==
  LET token == refresh[req[h].old] IN
  /\ req[h].step = "get"
  /\ IF token = None THEN Finish(h)
     ELSE req' = [req EXCEPT ![h].step = "exchange", ![h].token = token]
  /\ UNCHANGED <<stores, held, expired, requests, history>>

\* initiate_auth; a token Cognito refuses sends the browser to sign in.
Exchange(h, j) ==
  LET token == req[h].token
      next  == [signIn |-> token.signIn, for |-> j]
  IN
  /\ req[h].step = "exchange" /\ origin[j] = None
  /\ IF token \notin live
       THEN Finish(h) /\ UNCHANGED <<live, origin>>
       ELSE /\ origin' = [origin EXCEPT ![j] = token.signIn]
            /\ \/ /\ req' = [req EXCEPT ![h].step = "putNew", ![h].new = j]
                  /\ UNCHANGED live
               \/ /\ Rotates
                  /\ req' = [req EXCEPT ![h].step = "putNew", ![h].new = j,
                                        ![h].token = next]
                  /\ live' = (live \ {token}) \cup {next}
  /\ UNCHANGED <<session, refresh, denied, held, expired, requests, unsaved,
                 ended>>

\* The three writes of one try: after one fails the rest is skipped, and the
\* cookie is sent all the same.
PutNew(h) ==
  /\ req[h].step = "putNew"
  /\ \/ /\ refresh' = [refresh EXCEPT ![req[h].new] = req[h].token]
        /\ Goto(h, "deleteOld")
     \/ Shrug(h, "respondNew") /\ UNCHANGED refresh
  /\ UNCHANGED <<session, live, denied, held, expired, requests, history>>

DeleteOld(h) ==
  /\ req[h].step = "deleteOld"
  /\ \/ /\ refresh' = [refresh EXCEPT ![req[h].old] = None]
        /\ Goto(h, "putNewSession")
     \/ Shrug(h, "respondNew") /\ UNCHANGED refresh
  /\ UNCHANGED <<session, live, denied, held, expired, requests, history>>

\* Mutant of PutNewSession: the record is written under the old jti.
PutOldSession(h) ==
  /\ req[h].step = "putNewSession"
  /\ session' = session \cup {req[h].old}
  /\ Goto(h, "respondNew")
  /\ UNCHANGED <<refresh, live, denied, held, expired, requests, history>>
PutNewSession(h) ==
  /\ req[h].step = "putNewSession"
  /\ \/ session' = session \cup {req[h].new} /\ Goto(h, "respondNew")
     \/ Shrug(h, "respondNew") /\ UNCHANGED session
  /\ UNCHANGED <<refresh, live, denied, held, expired, requests, history>>

-----------------------------------------------------------------------------
(* Logout, each call on its own                                            *)

BeginLogout(h, j) ==
  /\ j \in held
  /\ Begin(h, [Idle EXCEPT !.step = "read", !.signIn = origin[j], !.old = j])
  /\ UNCHANGED <<stores, held, expired, origin, unsaved, ended>>

\* get_item; nothing is revoked at Cognito without a token, and the call may
\* fail, or miss a record not every replica has.
ReadRefresh(h) ==
  LET token == refresh[req[h].old] IN
  /\ req[h].step = "read"
  /\ \/ IF token = None THEN Shrug(h, "dropRefresh")
        ELSE req' = [req EXCEPT ![h].step = "revoke", ![h].token = token]
     \/ Shrug(h, "dropRefresh")
  /\ UNCHANGED <<stores, held, expired, requests, history>>

\* Mutant of RevokeToken: the call is left to the expiry of the token.
SkipRevoke(h) ==
  /\ req[h].step = "revoke"
  /\ Goto(h, "dropRefresh")
  /\ UNCHANGED <<stores, held, expired, requests, history>>
RevokeToken(h) ==
  /\ req[h].step = "revoke"
  /\ \/ /\ live' = live \ {req[h].token}
        /\ req' = [req EXCEPT ![h].step = "dropRefresh",
                              ![h].ok = @ /\ req[h].token \in live]
     \/ Shrug(h, "dropRefresh") /\ UNCHANGED live
  /\ UNCHANGED <<session, refresh, denied, held, expired, requests, history>>

DropRefresh(h) ==
  /\ req[h].step = "dropRefresh"
  /\ \/ /\ refresh' = [refresh EXCEPT ![req[h].old] = None]
        /\ Goto(h, "dropSession")
     \/ Shrug(h, "dropSession") /\ UNCHANGED refresh
  /\ UNCHANGED <<session, live, denied, held, expired, requests, history>>

DropSession(h) ==
  /\ req[h].step = "dropSession"
  /\ \/ session' = session \ {req[h].old} /\ Goto(h, "deny")
     \/ Shrug(h, "deny") /\ UNCHANGED session
  /\ UNCHANGED <<refresh, live, denied, held, expired, requests, history>>

\* The denylist entry, and the answer that clears the cookie.  A session
\* whose record was dropped and whose entry failed is out of reach.
Deny(h) ==
  LET j == req[h].old IN
  /\ req[h].step = "deny"
  /\ \/ /\ denied' = denied \cup {j}
        /\ ended' = IF req[h].ok THEN ended \cup {req[h].signIn} ELSE ended
        /\ UNCHANGED unsaved
     \/ unsaved' = unsaved \cup {j} /\ UNCHANGED <<denied, ended>>
  /\ Finish(h)
  /\ UNCHANGED <<session, refresh, live, held, expired, requests, origin>>

-----------------------------------------------------------------------------
\* A token reaches its exp; its session record, which expires with it, is
\* swept some time later.
Expire(j) ==
  /\ j \in held /\ j \notin expired
  /\ expired' = expired \cup {j}
  /\ UNCHANGED <<stores, held, req, requests, history>>

Sweep(j) ==
  /\ j \in session /\ j \in expired
  /\ session' = session \ {j}
  /\ UNCHANGED <<refresh, live, denied, held, expired, req, requests, history>>

Init ==
  /\ session = {} /\ refresh = [j \in Jti |-> None] /\ live = {}
  /\ denied = {} /\ held = {} /\ expired = {}
  /\ req = [h \in Handler |-> Idle] /\ requests = 0
  /\ origin = [j \in Jti |-> None]
  /\ unsaved = {} /\ ended = {}

Next ==
  \/ \E h \in Handler :
       \/ PutSession(h) \/ PutRefresh(h) \/ Respond(h)
       \/ GetRefresh(h) \/ PutNew(h) \/ DeleteOld(h) \/ PutNewSession(h)
       \/ ReadRefresh(h) \/ RevokeToken(h) \/ DropRefresh(h)
       \/ DropSession(h) \/ Deny(h) \/ Abandon(h)
       \/ \E j \in Jti :
            \/ \E c \in SignIn, withToken \in BOOLEAN :
                 BeginSession(h, c, j, withToken)
            \/ BeginRefresh(h, j) \/ Exchange(h, j) \/ BeginLogout(h, j)
  \/ \E j \in Jti : Expire(j) \/ Sweep(j)

Spec == Init /\ [][Next]_vars

-----------------------------------------------------------------------------
\* Invocations that log the session out and have not denied it yet.
LoggingOut(j) ==
  \E h \in Handler : req[h].step = "deny" /\ req[h].old = j

\* A session the edge accepts has a record a revocation can find, unless a
\* write of its refresh or the denial of its logout has failed, or a logout
\* is about to deny it or ended before it did: the session lambda sends no
\* cookie before its writes, the others shrug.
Recorded ==
  \A j \in Jti : Accepts(j) =>
    j \in session \/ j \in unsaved \/ LoggingOut(j)

\* A logout whose calls all succeeded, of a session with a token Cognito still
\* honoured, ends the sign-in (cognito-customui-logout/index.py:1, "terminates
\* a customer session completely"): no session of it can be renewed again,
\* whatever renewals were under way beside it.
RenewalEnds ==
  \A j \in Jti : refresh[j] \in live => origin[j] \notin ended
=============================================================================
