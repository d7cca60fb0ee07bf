-------------------------- MODULE SessionLifecycle --------------------------
(***************************************************************************)
(* The sessions of one user, from the OAuth callback that creates them to  *)
(* the day nothing of them is left: the SESSION# and REFRESH# items of the *)
(* auth security table, the revoked:<jti> denylist of the CloudFront       *)
(* KeyValueStore that every viewer request consults, and the lambdas that  *)
(* move them: callback, refresh, logout, scope switch, the SNS-triggered   *)
(* session revocation, the DynamoDB time-to-live sweep and the stream      *)
(* processor behind it.                                                    *)
(*                                                                         *)
(* Every call to a service is a step of its own, so that two invocations   *)
(* interleave between any two calls, and every call may fail the way the   *)
(* code handles its failure (most failures are logged and ignored).        *)
(* The clock counts units of the 3600 s the callback gives a session.      *)
(***************************************************************************)
EXTENDS Naturals, FiniteSets

CONSTANTS
  Jti,              \* session identifiers; uuid4, so never reused
  Invocation,       \* lambda invocations that can be in flight together
  None,             \* no jti
  EnableRefresh,    \* the enable_refresh feature
  SessionTtl,       \* expiresAt of a callback's session record, 3600 s
  IdpLifetimes,     \* possible lifetimes of the IdP token at the callback
  RefreshLifetimes, \* possible expires_in of the IdP's refresh answers
  RefreshTtl,       \* how long a REFRESH# record outlives its token at least
  PageSizes,        \* how many items a page of a query can hold (1 MB)
  MaxAttempts,      \* invocations of one SNS message before it is dropped
  MaxTime,          \* bound on the clock
  LastMint,         \* bound: logins and refreshes begin no later than this
  MaxRequests,      \* bound on the requests begun in a behaviour
  MaxLost,          \* bound on the ignored failures in a behaviour
  MaxRevokes        \* bound on the revocation messages published

ASSUME NoneAssumption == None \notin Jti
ASSUME TimeAssumption ==
  /\ EnableRefresh \in BOOLEAN
  /\ {SessionTtl, RefreshTtl, MaxAttempts, MaxTime, LastMint,
    MaxRequests, MaxLost, MaxRevokes}
       \subseteq Nat
  /\ IdpLifetimes \cup RefreshLifetimes \subseteq Nat
  /\ PageSizes \subseteq Nat \ {0}

\* The IdP's token does not outlive the record the callback writes for it.
\* Nothing in the code sees to it: azure_exp and now + 3600 are never compared.
\* Only the theorem that nothing lapses supposes it.
TokensWithinRecords == \A t \in IdpLifetimes : t <= SessionTtl

VARIABLES
  now,         \* the clock
  exp,         \* exp[j]: the exp claim of token j, 0 while j is not generated
  session,     \* session[j]: the item SESSION#<user> / SESSION#<j>
  sessionExp,  \* sessionExp[j]: its expiresAt, 0 when there is none
  refresh,     \* tokens with an item REFRESH#<j>
  lag,         \* items whose last write has not reached the index GSI1
  denied,      \* j is in the denylist: KVS holds the key revoked:<j>
  held,        \* tokens a browser has received
  stream,      \* stream records <<j, last image>> of the sweep's removals
  requests,    \* requests begun so far
  pc, old, new,  \* of each invocation: next step, prior jti, generated jti
  revPc,       \* the session-revocation lambda: its next step
  batch, cur,  \* the jtis its query returned and not yet handled; the current
  attempt,     \* its attempt at the message, counted from 1
  revokes,     \* messages published so far
  target,      \* history: tokens held when the message was published
  missed,      \* history: jtis its last query could not see in GSI1 yet
  beyond,      \* history: jtis past the page its last query returned
  lost,        \* history: <<c, j>>: call c for token j failed or never ran
  switched,    \* history: a scope switch marked j's record revoked
  loggedOut,   \* history: a logout deleted j's record
  lapsed       \* history: the sweep took j's record, shorter-lived than j

invocations == <<requests, pc, old, new>>
revocation  == <<revPc, batch, cur, attempt, revokes, target, missed,
                beyond>>
vars == <<now, exp, session, sessionExp, refresh, lag, denied, held, stream,
          invocations, revocation, lost, switched, loggedOut, lapsed>>

\* A session item: absent; written by a mint with revoked = false; marked
\* revoked; or created by an update_item on a missing key, which leaves an
\* item with neither jti nor expiresAt.
Items == {"none", "active", "revoked", "ghost"}
Images == {"active", "revoked"}   \* of an item that has a jti

Steps == {"idle", "cbSession", "cbRefresh", "cbRespond",
          "rfLookup", "rfExchange", "rfPut", "rfDelete", "rfSession",
          "rfRespond", "loRefresh", "loSession", "loDeny",
          "swRevoke", "swSession", "swRespond"}

\* The calls whose failure is logged and ignored (the revocation's is retried).
Calls == {"putSession", "dropRefresh", "dropSession", "revoke", "clean",
          "putRefresh", "rotate"}

RevSteps == {"idle", "query", "loop", "deny", "acked", "dropped"}

TypeOK ==
  /\ now \in Nat
  /\ exp \in [Jti -> Nat]
  /\ session \in [Jti -> Items]
  /\ sessionExp \in [Jti -> Nat]
  /\ refresh \subseteq Jti /\ lag \subseteq Jti /\ denied \subseteq Jti
  /\ held \subseteq Jti /\ stream \subseteq Jti \X Images
  /\ batch \subseteq Jti /\ target \subseteq Jti /\ missed \subseteq Jti
  /\ beyond \subseteq Jti /\ lapsed \subseteq Jti
  /\ switched \subseteq Jti /\ loggedOut \subseteq Jti
  /\ lost \subseteq Calls \X Jti
  /\ pc \in [Invocation -> Steps]
  /\ old \in [Invocation -> Jti \cup {None}]
  /\ new \in [Invocation -> Jti \cup {None}]
  /\ \A i \in Invocation : pc[i] = "idle" => old[i] = None /\ new[i] = None
  /\ revPc \in RevSteps
  /\ cur \in Jti \cup {None}
  /\ requests \in Nat /\ attempt \in Nat /\ revokes \in Nat

Init ==
  /\ now = 1
  /\ exp = [j \in Jti |-> 0]
  /\ session = [j \in Jti |-> "none"]
  /\ sessionExp = [j \in Jti |-> 0]
  /\ refresh = {} /\ lag = {} /\ denied = {} /\ held = {} /\ stream = {}
  /\ requests = 0
  /\ pc = [i \in Invocation |-> "idle"]
  /\ old = [i \in Invocation |-> None]
  /\ new = [i \in Invocation |-> None]
  /\ revPc = "idle" /\ batch = {} /\ cur = None /\ attempt = 0 /\ revokes = 0
  /\ target = {} /\ missed = {} /\ beyond = {}
  /\ lost = {} /\ switched = {} /\ loggedOut = {} /\ lapsed = {}

-----------------------------------------------------------------------------
(* The edge check and the helpers of the lambdas                           *)

\* validateHmacSignature has passed; the edge then refuses exp < now, and
\* after that a jti it finds in the denylist.
ExpiredLeeway(j) == exp[j] + 1 < now   \* Mutant: leeway for clock skew
Expired(j) == exp[j] < now
Accepts(j) == j \in held /\ ~Expired(j) /\ j \notin denied
Dead(j)    == Expired(j) \/ j \in denied

\* uuid4: a jti nobody has generated, with the exp claim of its token.
Generate(i, j, e) ==
  /\ exp[j] = 0
  /\ exp' = [exp EXCEPT ![j] = e]
  /\ new' = [new EXCEPT ![i] = j]

\* An item GSI1 projects: it has a gsi1pk.
Indexed(j) == session[j] \in Images

\* put_item of a fresh session record, which reaches GSI1 later.
PutSession(j, e) ==
  /\ session' = [session EXCEPT ![j] = "active"]
  /\ sessionExp' = [sessionExp EXCEPT ![j] = e]
  /\ lag' = lag \cup {j}

\* delete_item, or the sweep's.
DropSession(j) ==
  /\ session' = [session EXCEPT ![j] = "none"]
  /\ sessionExp' = [sessionExp EXCEPT ![j] = 0]
  /\ lag' = IF Indexed(j) THEN lag \cup {j} ELSE lag

\* update_item SET revoked = true: an upsert, so a missing item becomes one
\* that carries the flag and nothing else.
MarkRevoked(j) ==
  /\ session' = [session EXCEPT ![j] =
                   IF Indexed(j) THEN "revoked" ELSE "ghost"]
  /\ lag' = IF Indexed(j) THEN lag \cup {j} ELSE lag
  /\ UNCHANGED sessionExp

Goto(i, from, to) ==
  /\ pc[i] = from
  /\ pc' = [pc EXCEPT ![i] = to]
  /\ UNCHANGED <<requests, old, new>>

Finish(i) ==
  /\ UNCHANGED requests
  /\ pc' = [pc EXCEPT ![i] = "idle"]
  /\ old' = [old EXCEPT ![i] = None]
  /\ new' = [new EXCEPT ![i] = None]

Begin(i, j, step) ==
  /\ pc[i] = "idle" /\ requests < MaxRequests
  /\ requests' = requests + 1
  /\ pc' = [pc EXCEPT ![i] = step]
  /\ old' = [old EXCEPT ![i] = j]

\* The response reaches the browser with the cookie of the new token.  The
\* token it replaces stays in held: a copy of it can still be presented.
Respond(i, step) ==
  /\ pc[i] = step
  /\ held' = held \cup {new[i]}
  /\ Finish(i)

NoItems == UNCHANGED <<session, sessionExp, lag>>
NoHistory == UNCHANGED <<lost, switched, loggedOut, lapsed>>
\* A call that fails and is ignored, while the bound MaxLost allows.
Ignored(call, j) ==
  /\ Cardinality(lost) < MaxLost
  /\ lost' = lost \cup {<<call, j>>}

-----------------------------------------------------------------------------
(* The OAuth callback, from the point where the id_token is verified       *)

BeginCallback(i, j) ==
  /\ now <= LastMint
  /\ Begin(i, None, "cbSession")
  /\ \E L \in IdpLifetimes : Generate(i, j, now + L)
  /\ NoItems /\ NoHistory
  /\ UNCHANGED <<now, refresh, denied, held, stream, revocation>>

CallbackPutSession(i) ==
  /\ Goto(i, "cbSession", "cbRefresh")
  /\ \/ PutSession(new[i], now + SessionTtl) /\ UNCHANGED lost
     \/ Ignored("putSession", new[i]) /\ NoItems
  /\ UNCHANGED <<now, exp, refresh, denied, held, stream, revocation,
                 switched, loggedOut, lapsed>>

\* The IdP's refresh token is stored where the feature is on.
CallbackPutRefresh(i) ==
  /\ Goto(i, "cbRefresh", "cbRespond")
  /\ \/ EnableRefresh /\ refresh' = refresh \cup {new[i]} /\ UNCHANGED lost
     \/ EnableRefresh /\ Ignored("putRefresh", new[i]) /\ UNCHANGED refresh
     \/ ~EnableRefresh /\ UNCHANGED <<refresh, lost>>
  /\ NoItems
  /\ UNCHANGED <<now, exp, denied, held, stream, revocation,
                 switched, loggedOut, lapsed>>

CallbackRespond(i) ==
  /\ Respond(i, "cbRespond")
  /\ NoItems /\ NoHistory
  /\ UNCHANGED <<now, exp, refresh, denied, stream, revocation>>

-----------------------------------------------------------------------------
(* Refresh: the cookie's signature is checked, never its exp or its jti    *)

BeginRefresh(i, j) ==
  /\ now <= LastMint
  /\ j \in held
  /\ Begin(i, j, "rfLookup")
  /\ NoItems /\ NoHistory
  /\ UNCHANGED <<now, exp, new, refresh, denied, held, stream, revocation>>

\* The read may trail the table.  A record it does not see yet ends the request,
\* as Abandon does; one it sees still is what an earlier step would have read.
RefreshLookup(i) ==
  /\ pc[i] = "rfLookup"
  /\ IF old[i] \notin refresh THEN Finish(i)
                              ELSE Goto(i, "rfLookup", "rfExchange")
  /\ NoItems /\ NoHistory
  /\ UNCHANGED <<now, exp, refresh, denied, held, stream, revocation>>

RefreshExchange(i, j) ==
  /\ pc[i] = "rfExchange"
  /\ pc' = [pc EXCEPT ![i] = "rfPut"]
  /\ \E L \in RefreshLifetimes : Generate(i, j, now + L)
  /\ NoItems /\ NoHistory
  /\ UNCHANGED <<now, requests, old, refresh, denied, held, stream,
                 revocation>>

\* Mutant of RefreshPut: the rotated refresh token goes under the prior jti.
RefreshPutUnderPrior(i) ==
  /\ Goto(i, "rfPut", "rfDelete")
  /\ refresh' = refresh \cup {old[i]} /\ UNCHANGED lost
  /\ NoItems
  /\ UNCHANGED <<now, exp, denied, held, stream, revocation,
                 switched, loggedOut, lapsed>>

\* put and delete share one try: when the put fails the delete is skipped.
RefreshPut(i) ==
  /\ \/ /\ Goto(i, "rfPut", "rfDelete")
        /\ refresh' = refresh \cup {new[i]} /\ UNCHANGED lost
     \/ /\ Goto(i, "rfPut", "rfSession")
        /\ Ignored("putRefresh", new[i]) /\ UNCHANGED refresh
  /\ NoItems
  /\ UNCHANGED <<now, exp, denied, held, stream, revocation,
                 switched, loggedOut, lapsed>>

RefreshDelete(i) ==
  /\ Goto(i, "rfDelete", "rfSession")
  /\ \/ refresh' = refresh \ {old[i]} /\ UNCHANGED lost
     \/ Ignored("rotate", old[i]) /\ UNCHANGED refresh
  /\ NoItems
  /\ UNCHANGED <<now, exp, denied, held, stream, revocation,
                 switched, loggedOut, lapsed>>

RefreshPutSession(i) ==
  /\ Goto(i, "rfSession", "rfRespond")
  /\ \/ PutSession(new[i], exp[new[i]]) /\ UNCHANGED lost
     \/ Ignored("putSession", new[i]) /\ NoItems
  /\ UNCHANGED <<now, exp, refresh, denied, held, stream, revocation,
                 switched, loggedOut, lapsed>>

RefreshRespond(i) ==
  /\ Respond(i, "rfRespond")
  /\ NoItems /\ NoHistory
  /\ UNCHANGED <<now, exp, refresh, denied, stream, revocation>>

-----------------------------------------------------------------------------
(* Logout: three calls, each tried whatever became of the one before.  The *)
(* user is known: the sub of a token this layer has signed.                *)

BeginLogout(i, j) ==
  /\ j \in held
  /\ Begin(i, j, "loRefresh")
  /\ NoItems /\ NoHistory
  /\ UNCHANGED <<now, exp, new, refresh, denied, held, stream, revocation>>

LogoutDropRefresh(i) ==
  /\ Goto(i, "loRefresh", "loSession")
  /\ \/ refresh' = refresh \ {old[i]} /\ UNCHANGED lost
     \/ Ignored("dropRefresh", old[i]) /\ UNCHANGED refresh
  /\ NoItems
  /\ UNCHANGED <<now, exp, denied, held, stream, revocation,
                 switched, loggedOut, lapsed>>

LogoutDropSession(i) ==
  /\ Goto(i, "loSession", "loDeny")
  /\ \/ /\ DropSession(old[i]) /\ UNCHANGED lost
        /\ loggedOut' = loggedOut \cup {old[i]}
     \/ Ignored("dropSession", old[i]) /\ NoItems /\ UNCHANGED loggedOut
  /\ UNCHANGED <<now, exp, refresh, denied, held, stream, revocation,
                 switched, lapsed>>

\* put_key of revoked:<jti>.  The construct writes KVS_ARN into the lambda's
\* generated configuration at synthesis, from a parameter that has no value
\* before deployment: it is there (kvs_arn passes its guard) and it is the
\* text of a token, no ARN.  The call raises, always, and is logged.
LogoutDeny(i) ==
  /\ pc[i] = "loDeny"
  /\ Finish(i)
  /\ NoItems /\ NoHistory
  /\ UNCHANGED <<now, exp, refresh, denied, held, stream, revocation>>

-----------------------------------------------------------------------------
(* Scope switch: a new token with the exp of the old one                   *)

BeginSwitch(i, j, k) ==
  /\ j \in held
  /\ Begin(i, j, "swRevoke")
  /\ Generate(i, k, exp[j])
  /\ NoItems /\ NoHistory
  /\ UNCHANGED <<now, refresh, denied, held, stream, revocation>>

\* The prior jti is marked in the table only; a failure is ignored.
SwitchRevoke(i) ==
  /\ Goto(i, "swRevoke", "swSession")
  /\ \/ MarkRevoked(old[i]) /\ switched' = switched \cup {old[i]}
     \/ NoItems /\ UNCHANGED switched
  /\ UNCHANGED <<now, exp, refresh, denied, held, stream, revocation,
                 lost, loggedOut, lapsed>>

\* Mutant of SwitchPutSession: the new record goes under the prior jti.
SwitchPutUnderPrior(i) ==
  /\ Goto(i, "swSession", "swRespond")
  /\ PutSession(old[i], exp[new[i]])
  /\ UNCHANGED <<now, exp, refresh, denied, held, stream, revocation,
                 lost, switched, loggedOut, lapsed>>

SwitchPutSession(i) ==
  /\ Goto(i, "swSession", "swRespond")
  /\ \/ PutSession(new[i], exp[new[i]]) /\ UNCHANGED lost
     \/ Ignored("putSession", new[i]) /\ NoItems
  /\ UNCHANGED <<now, exp, refresh, denied, held, stream, revocation,
                 switched, loggedOut, lapsed>>

SwitchRespond(i) ==
  /\ Respond(i, "swRespond")
  /\ NoItems /\ NoHistory
  /\ UNCHANGED <<now, exp, refresh, denied, stream, revocation>>

-----------------------------------------------------------------------------
\* An error answer (a service that fails, a refused exchange, an oversized
\* token, a failed RS256 mint), a lambda that crashes or times out, or a
\* response that is lost.
Abandon(i) ==
  /\ pc[i] # "idle"
  /\ Finish(i)
  /\ NoItems /\ NoHistory
  /\ UNCHANGED <<now, exp, refresh, denied, held, stream, revocation>>

Invoke(i) ==
  \/ CallbackPutSession(i) \/ CallbackPutRefresh(i) \/ CallbackRespond(i)
  \/ RefreshLookup(i) \/ RefreshPut(i) \/ RefreshDelete(i)
  \/ RefreshPutSession(i) \/ RefreshRespond(i)
  \/ LogoutDropRefresh(i) \/ LogoutDropSession(i) \/ LogoutDeny(i)
  \/ SwitchRevoke(i) \/ SwitchPutSession(i) \/ SwitchRespond(i)
  \/ Abandon(i)
  \/ \E j \in Jti :
       \/ BeginCallback(i, j) \/ BeginRefresh(i, j) \/ RefreshExchange(i, j)
       \/ BeginLogout(i, j)
       \/ \E k \in Jti : BeginSwitch(i, j, k)

-----------------------------------------------------------------------------
(* session-revocation: SNS delivers "revoke the sessions of this user"     *)

PublishRevoke ==
  /\ revPc \in {"idle", "acked", "dropped"} /\ revokes < MaxRevokes
  /\ revPc' = "query" /\ attempt' = 1 /\ revokes' = revokes + 1
  /\ target' = held /\ missed' = {} /\ beyond' = {}
  /\ UNCHANGED <<batch, cur, denied, exp, held, invocations, now, refresh,
                 stream>>
  /\ NoItems /\ NoHistory

\* One query, one page: the filter is applied to the items of the page, and
\* LastEvaluatedKey is not followed.  Items already marked revoked take their
\* place in it until the sweep.  GSI1 trails the table: an item in lag may be
\* missing there, or be returned as an earlier image of it says.
RevokeQuery ==
  /\ revPc = "query"
  /\ revPc' = "loop"
  /\ \E page \in SUBSET (lag \cup {j \in Jti : Indexed(j)}),
        stale \in SUBSET lag, size \in PageSizes :
       /\ Cardinality(page) <= size
       /\ beyond' = {j \in Jti \ lag : Indexed(j)} \ page
       /\ beyond' # {} => Cardinality(page) = size
       /\ batch' = page \cap (stale \cup {j \in Jti \ lag : session[j] = "active"})
  /\ missed' = lag \ batch'
  /\ UNCHANGED <<cur, attempt, revokes, target, denied, exp, held, invocations,
                 now, refresh, stream>>
  /\ NoItems /\ NoHistory

RevokeUpdate(j) ==
  /\ revPc = "loop" /\ j \in batch
  /\ MarkRevoked(j)
  /\ cur' = j /\ batch' = batch \ {j} /\ revPc' = "deny"
  /\ UNCHANGED <<attempt, revokes, target, missed, beyond, denied, exp, held,
                 invocations, now, refresh, stream>>
  /\ NoHistory

RevokeDeny ==
  /\ revPc = "deny"
  /\ denied' = denied \cup {cur}
  /\ cur' = None /\ revPc' = "loop"
  /\ UNCHANGED <<batch, attempt, revokes, target, missed, beyond, exp, held,
                 invocations, now, refresh, stream>>
  /\ NoItems /\ NoHistory

RevokeDone ==
  /\ revPc = "loop" /\ batch = {}
  /\ revPc' = "acked" /\ attempt' = 0
  /\ UNCHANGED <<batch, cur, revokes, target, missed, beyond, denied, exp, held,
                 invocations, now, refresh, stream>>
  /\ NoItems /\ NoHistory

\* Mutant of RevokeFail: the attempts are not counted.
RevokeFailUncounted ==
  /\ revPc \in {"query", "loop", "deny"}
  /\ revPc' = "query"
  /\ batch' = {} /\ cur' = None /\ missed' = {} /\ beyond' = {}
  /\ UNCHANGED <<attempt, target, revokes, denied, exp, held, invocations, now,
                 refresh, stream, lost, switched, loggedOut, lapsed>>
  /\ NoItems

\* Mutant of RevokeFail: the handler logs the error and does not raise it.
RevokeFailSwallowed ==
  /\ revPc \in {"query", "loop", "deny"}
  /\ revPc' = "acked" /\ attempt' = 0
  /\ batch' = {} /\ cur' = None
  /\ UNCHANGED <<target, missed, beyond, revokes, denied, exp, held,
                 invocations, now, refresh, stream>>
  /\ NoItems /\ NoHistory

\* A call raises, or the lambda times out: the whole message is processed
\* again, from its query, until the attempts are spent.
RevokeFail ==
  /\ revPc \in {"query", "loop", "deny"}
  /\ \/ /\ attempt < MaxAttempts
        /\ revPc' = "query" /\ attempt' = attempt + 1
        /\ UNCHANGED target
     \/ /\ attempt = MaxAttempts
        /\ revPc' = "dropped" /\ attempt' = 0
        /\ target' = {}
  /\ IF revPc = "deny" THEN Ignored("revoke", cur) ELSE UNCHANGED lost
  /\ batch' = {} /\ cur' = None /\ missed' = {} /\ beyond' = {}
  /\ UNCHANGED <<revokes, denied, exp, held, invocations, now, refresh, stream,
                 switched, loggedOut, lapsed>>
  /\ NoItems

-----------------------------------------------------------------------------
(* DynamoDB and the stream processor                                       *)

IndexCatchUp(j) ==
  /\ j \in lag
  /\ lag' = lag \ {j}
  /\ UNCHANGED <<session, sessionExp, refresh, denied, exp, held, invocations,
                 revocation, now, stream>>
  /\ NoHistory

\* The sweep removes an item whose expiresAt has passed, and the stream carries
\* its last image.  A ghost has no expiresAt.
TtlRemove(j) ==
  /\ Indexed(j) /\ sessionExp[j] < now
  /\ DropSession(j)
  /\ stream' = stream \cup {<<j, session[j]>>}
  /\ lapsed' = IF sessionExp[j] < exp[j] THEN lapsed \cup {j} ELSE lapsed
  /\ UNCHANGED <<refresh, denied, exp, held, invocations, revocation, now,
                 lost, switched, loggedOut>>

\* A REFRESH# record lives 30 days, counted from its put.
TtlRemoveRefresh(j) ==
  /\ j \in refresh /\ exp[j] + RefreshTtl < now
  /\ refresh' = refresh \ {j}
  /\ UNCHANGED <<denied, exp, held, invocations, revocation, now, stream>>
  /\ NoItems /\ NoHistory

\* Mutant of StreamClean: the test of the revoked flag is inverted.
StreamCleanInverted(j) ==
  /\ \E image \in Images :
       /\ <<j, image>> \in stream
       /\ stream' = stream \ {<<j, image>>}
       /\ denied' = IF image = "active" THEN denied \ {j} ELSE denied
  /\ UNCHANGED <<refresh, exp, held, invocations, revocation, now, lost,
                 switched, loggedOut, lapsed>>
  /\ NoItems

\* The stream processor acts on the removal of a revoked record.  (It skips
\* what logout deletes: those removals are not the service's.)
StreamClean(j) ==
  /\ \E image \in Images :
       /\ <<j, image>> \in stream
       /\ stream' = stream \ {<<j, image>>}
       /\ \/ image # "revoked" /\ UNCHANGED <<denied, lost>>
          \/ image = "revoked" /\ denied' = denied \ {j} /\ UNCHANGED lost
          \/ image = "revoked" /\ Ignored("clean", j) /\ UNCHANGED denied
  /\ UNCHANGED <<refresh, exp, held, invocations, revocation, now,
                 switched, loggedOut, lapsed>>
  /\ NoItems

\* The index trails the table by far less than one unit of the clock.
Tick ==
  /\ now < MaxTime /\ lag = {}
  /\ now' = now + 1
  /\ UNCHANGED <<exp, refresh, denied, held, stream, invocations, revocation>>
  /\ NoItems /\ NoHistory

Revocation == RevokeQuery \/ RevokeDeny \/ RevokeDone \/ RevokeFail
              \/ \E j \in Jti : RevokeUpdate(j)

Table(j) == IndexCatchUp(j) \/ TtlRemove(j) \/ TtlRemoveRefresh(j)
            \/ StreamClean(j)

Next ==
  \/ \E i \in Invocation : Invoke(i)
  \/ PublishRevoke \/ Revocation
  \/ \E j \in Jti : Table(j)
  \/ Tick

Spec == Init /\ [][Next]_vars

\* Time passes, the index catches up, Lambda runs and retries what SNS
\* delivered, DynamoDB sweeps expired items and the event source mapping
\* delivers stream records.  No fairness for requests: a browser may stop at
\* any point.
Fairness ==
  /\ WF_vars(Tick) /\ WF_vars(Revocation)
  /\ \A j \in Jti : /\ WF_vars(IndexCatchUp(j))
                    /\ WF_vars(TtlRemove(j))
                    /\ WF_vars(StreamClean(j))

FairSpec == Spec /\ Fairness

-----------------------------------------------------------------------------
(* Properties                                                              *)

Pending(j) == revPc = "deny" /\ cur = j

Failed(calls, j) == \E c \in calls : <<c, j>> \in lost

\* Every token that the edge still accepts has an active session record, so
\* that a revocation of the user can find it.  What can take the record away
\* is listed: its write was lost, its denylisting is pending or was lost, a
\* scope switch marked it, a logout deleted it, or it was swept before its
\* token expired.  (The records of oauth-callback.py, refresh and logout
\* against the filter revoked = :false of session-revocation.)
Revocable ==
  \A j \in held :
    \/ Dead(j)
    \/ session[j] = "active"
    \/ Failed({"putSession", "revoke"}, j)
    \/ j \in switched \cup loggedOut \cup lapsed
    \/ Pending(j)

\* A revocation message that was processed to the end has killed every token
\* that was out when the message was published, but for those whose record
\* is gone, those the query could not find, in an index that trails or past
\* its page, and those whose denylisting failed.
CleanRevocationKills ==
  revPc = "acked" =>
    \A j \in target \ (switched \cup loggedOut \cup lapsed
                      \cup missed \cup beyond) :
      Dead(j) \/ Pending(j) \/ Failed({"putSession", "revoke"}, j)

\* README.md:57, "within seconds, every edge node worldwide will reject that
\* session", of a message that was acknowledged (the retries Lambda makes of a
\* failed attempt included): only tokens whose record is gone or that the
\* query could not see are excused.
\* The retried query skips what the failed attempt had marked revoked.
AcknowledgedRevocationKills ==
  revPc = "acked" =>
    \A j \in target \ (switched \cup loggedOut \cup lapsed
                      \cup missed \cup beyond) :
      Dead(j) \/ Pending(j) \/ Failed({"putSession"}, j)

\* oauth-callback.py:455, "Revoke the PRIOR jti so the old-scope token cannot
\* be replayed after switch": a token whose record a switch marked is dead
\* once no switch of it is in flight.  The edge never reads the record.
SwitchRetiresPriorToken ==
  \A j \in switched :
    Dead(j) \/ \E i \in Invocation : old[i] = j

\* What a logout achieves: whatever refreshes, switches, revocations and other
\* logouts of the same token are in flight, the record it deleted does not
\* come back (the upserts leave an item no revocation finds), and neither does
\* the refresh token, unless its deletion failed: no later refresh of the
\* token is honoured.  (It does not make the edge refuse the token, although
\* the logout lambda's docstring says so: see LogoutDeny.)
LogoutForgets ==
  \A j \in loggedOut :
    /\ ~Indexed(j)
    /\ j \notin refresh \/ Failed({"dropRefresh"}, j)

\* The session layer as its users see it: a token is handed out once and,
\* dead, stays dead, for as long as a record stands behind it.  Removing a
\* denylist entry at the end of a record's life must not revive its token.
Standing ==
  [j \in Jti |-> IF j \notin held THEN "unissued"
                 ELSE IF j \in lapsed THEN "lapsed"
                 ELSE IF Dead(j) THEN "dead" ELSE "live"]

Authority == INSTANCE TokenAuthority WITH status <- Standing

ImplementsAuthority == Authority!Spec

\* The denylist does not grow for ever: the entry of a revoked record goes
\* with the record, unless the clean-up call failed (it is not retried) or a
\* logout deleted the record, which leaves its entry for good.  (MaxTime: the
\* record has to expire before the model's clock stops.)
DenylistDrains ==
  \A j \in Jti :
    (j \in denied /\ session[j] = "revoked" /\ sessionExp[j] < MaxTime)
      ~> \/ j \notin denied
         \/ Failed({"clean"}, j)
         \/ j \in loggedOut

\* Every revocation message is eventually processed or given up.
RevocationSettles ==
  (revPc \in {"query", "loop", "deny"}) ~> (revPc \in {"acked", "dropped"})
=============================================================================
