----------------------------- MODULE LoginFlow -----------------------------
(***************************************************************************)
(* The PKCE sign-in of one browser: its tabs share the oauth_state and     *)
(* code_verifier cookies of the edge's redirects, and the callback lambda  *)
(* compares them with what comes back from the IdP and keeps a STATE# item *)
(* in the auth security table for every state it has seen.  Its look at    *)
(* the item is an eventually consistent read: it may miss a recent put.    *)
(*                                                                         *)
(* A flow stands for the state and the code verifier minted together; the  *)
(* challenge of a verifier is the verifier (SHA-256 is injective here).    *)
(* Requests carry the cookies of the moment they are sent.  Both services' *)
(* 600 s are Age units of the clock.                                       *)
(***************************************************************************)
EXTENDS Naturals, FiniteSets

CONSTANTS
  Tab,          \* tabs and background requests of the browser
  Flow,         \* (state, verifier) pairs the edge can mint
  None,         \* no cookie
  Age,          \* Max-Age of the cookies, time to live of a STATE# item
  MaxTime,      \* bound on the clock
  MaxErrors     \* bound on the failures of the STATE# calls

ASSUME NoneAssumption == None \notin Flow
ASSUME NatAssumption  == {Age, MaxTime, MaxErrors} \subseteq Nat

VARIABLES
  now,
  jar,       \* the browser's cookies: [state, verifier, exp]
  minted,    \* flows minted so far
  item,      \* item[f]: expiresAt of STATE#<f>, 0 when there is none
  lag,       \* states whose put has not reached every replica of the table
  pc,        \* each tab's step
  sent,      \* the cookies [state, verifier] its last request carried
  state, challenge,  \* what its authorize URL, and then its callback, carries
  redeemed,  \* its authorization code has been exchanged
  since,     \* when its callback request was sent
  why,       \* why its last sign-in failed
  errors,    \* failed STATE# calls so far
  born,      \* history: born[f]: when flow f was minted
  used,      \* history: states a callback has gone on with
  unrecorded,  \* history: states of which a look or a put has failed
  raced      \* history: flows whose live cookies another response replaced

browser == <<jar, minted, born, raced>>
tabs    == <<pc, sent, state, challenge, redeemed, since, why>>
table   == <<item, lag, errors, used, unrecorded>>
vars    == <<now, browser, tabs, table>>

Cookies == [state : Flow \cup {None}, verifier : Flow \cup {None}]
NoCookies == [state |-> None, verifier |-> None]

Steps == {"idle", "edge", "idp", "check", "get", "put", "exchange", "respond",
          "failed", "done"}
Reasons == {"none", "missing", "mismatch", "reuse", "error"}
Callback == {"check", "get", "put", "exchange", "respond"}

TypeOK ==
  /\ now \in Nat
  /\ jar \in [state : Flow \cup {None}, verifier : Flow \cup {None}, exp : Nat]
  /\ (jar.state = None) = (jar.verifier = None)
  /\ {lag, used, unrecorded, raced} \subseteq SUBSET minted
  /\ minted \subseteq Flow
  /\ item \in [Flow -> Nat] /\ born \in [Flow -> Nat]
  /\ pc \in [Tab -> Steps]
  /\ sent \in [Tab -> Cookies]
  /\ {state, challenge} \subseteq [Tab -> minted \cup {None}]
  /\ redeemed \in [Tab -> BOOLEAN]
  /\ since \in [Tab -> Nat]
  /\ why \in [Tab -> Reasons]
  /\ errors \in Nat

Init ==
  /\ now = 1
  /\ jar = [state |-> None, verifier |-> None, exp |-> 0]
  /\ minted = {} /\ born = [f \in Flow |-> 0] /\ raced = {}
  /\ item = [f \in Flow |-> 0] /\ errors = 0
  /\ lag = {} /\ used = {} /\ unrecorded = {}
  /\ pc = [t \in Tab |-> "idle"]
  /\ sent = [t \in Tab |-> NoCookies]
  /\ state = [t \in Tab |-> None] /\ challenge = [t \in Tab |-> None]
  /\ redeemed = [t \in Tab |-> FALSE]
  /\ since = [t \in Tab |-> 0]
  /\ why = [t \in Tab |-> "none"]

-----------------------------------------------------------------------------
\* What the browser sends: it drops both cookies at their Max-Age.
Live == now < jar.exp
JarCookies ==
  IF Live THEN [state |-> jar.state, verifier |-> jar.verifier] ELSE NoCookies

Goto(t, from, to) ==
  /\ pc[t] = from
  /\ pc' = [pc EXCEPT ![t] = to]

\* An error answer ends the request.
Fail(t, reason) ==
  /\ pc' = [pc EXCEPT ![t] = "failed"]
  /\ why' = [why EXCEPT ![t] = reason]
  /\ sent' = [sent EXCEPT ![t] = NoCookies]
  /\ since' = [since EXCEPT ![t] = 0]

\* A tab without a session asks for a page.
Visit(t) ==
  /\ pc[t] \in {"idle", "failed"}
  /\ pc' = [pc EXCEPT ![t] = "edge"]
  /\ sent' = [sent EXCEPT ![t] = JarCookies]
  /\ why' = [why EXCEPT ![t] = "none"]
  /\ UNCHANGED <<now, browser, state, challenge, redeemed, since, table>>

\* Mutant of Redirect: every request without a session mints a flow.
RedirectAlwaysMints(t) ==
  /\ Goto(t, "edge", "idp")
  /\ \E f \in Flow \ minted :
       /\ minted' = minted \cup {f} /\ born' = [born EXCEPT ![f] = now]
       /\ jar' = [state |-> f, verifier |-> f, exp |-> now + Age]
       /\ state' = [state EXCEPT ![t] = f]
       /\ challenge' = [challenge EXCEPT ![t] = f]
  /\ raced' = IF Live /\ sent[t] = NoCookies THEN raced \cup {jar.state}
                                              ELSE raced
  /\ redeemed' = [redeemed EXCEPT ![t] = FALSE]
  /\ UNCHANGED <<now, sent, since, why, table>>

\* redirectToAuth, request in and response back: a request with the cookies
\* of a sign-in gets a redirect that reuses them, and sets none; any other a
\* new flow.
Redirect(t) ==
  /\ Goto(t, "edge", "idp")
  /\ \/ /\ sent[t].state # None /\ sent[t].verifier # None
        /\ state' = [state EXCEPT ![t] = sent[t].state]
        /\ challenge' = [challenge EXCEPT ![t] = sent[t].verifier]
        /\ UNCHANGED browser
     \/ /\ sent[t].state = None \/ sent[t].verifier = None
        /\ \E f \in Flow \ minted :
             /\ minted' = minted \cup {f} /\ born' = [born EXCEPT ![f] = now]
             /\ jar' = [state |-> f, verifier |-> f, exp |-> now + Age]
             /\ state' = [state EXCEPT ![t] = f]
             /\ challenge' = [challenge EXCEPT ![t] = f]
        /\ raced' = IF Live THEN raced \cup {jar.state} ELSE raced
  /\ redeemed' = [redeemed EXCEPT ![t] = FALSE]
  /\ UNCHANGED <<now, sent, since, why, table>>

\* The IdP authenticates the user and sends the browser back with a code; a
\* user may also reload the callback of a tab that has failed.
SendCallback(t) ==
  /\ pc[t] = "idp" \/ (pc[t] = "failed" /\ state[t] # None)
  /\ pc' = [pc EXCEPT ![t] = "check"]
  /\ sent' = [sent EXCEPT ![t] = JarCookies]
  /\ since' = [since EXCEPT ![t] = now]
  /\ why' = [why EXCEPT ![t] = "none"]
  /\ UNCHANGED <<now, browser, state, challenge, redeemed, table>>

-----------------------------------------------------------------------------
(* lambda_handler of the callback                                          *)

\* Mutant of Check: the cookies need only be there.
CheckPresence(t) ==
  /\ pc[t] = "check"
  /\ \/ sent[t].verifier = None /\ Fail(t, "missing")
     \/ sent[t].verifier # None /\ Goto(t, "check", "get")
        /\ UNCHANGED <<why, sent, since>>
  /\ UNCHANGED <<now, browser, state, challenge, redeemed, table>>

Check(t) ==
  /\ pc[t] = "check"
  /\ \/ sent[t].verifier = None /\ Fail(t, "missing")
     \/ /\ sent[t].verifier # None /\ sent[t].state # state[t]
        /\ Fail(t, "mismatch")
     \/ /\ sent[t].verifier # None /\ sent[t].state = state[t]
        /\ Goto(t, "check", "get") /\ UNCHANGED <<why, sent, since>>
  /\ UNCHANGED <<now, browser, state, challenge, redeemed, table>>

\* A failed call on the STATE# item is logged, and the check passes.
SkipCheck(t) ==
  /\ errors < MaxErrors /\ errors' = errors + 1
  /\ unrecorded' = unrecorded \cup {state[t]}

\* get_item without ConsistentRead: an item that is there is found, unless its
\* put is too recent.
GetState(t) ==
  /\ \/ /\ Goto(t, "get", "put")
        /\ item[state[t]] = 0 \/ state[t] \in lag
        /\ used' = used \cup {state[t]}
        /\ UNCHANGED <<errors, unrecorded, why, sent, since>>
     \/ /\ pc[t] = "get" /\ item[state[t]] # 0
        /\ Fail(t, "reuse") /\ UNCHANGED <<errors, unrecorded, used>>
     \/ /\ Goto(t, "get", "exchange")
        /\ SkipCheck(t) /\ used' = used \cup {state[t]}
        /\ UNCHANGED <<why, sent, since>>
  /\ UNCHANGED <<now, browser, state, challenge, redeemed, item, lag>>

\* Mutant of PutState: expiresAt is the time of the put, as createdAt is.
PutStateExpired(t) ==
  /\ Goto(t, "put", "exchange")
  /\ item' = [item EXCEPT ![state[t]] = now]
  /\ lag' = lag \cup {state[t]}
  /\ UNCHANGED <<now, browser, sent, state, challenge, redeemed, since, why,
                 errors, used, unrecorded>>

PutState(t) ==
  /\ Goto(t, "put", "exchange")
  /\ \/ /\ item' = [item EXCEPT ![state[t]] = now + Age]
        /\ lag' = lag \cup {state[t]}
        /\ UNCHANGED <<errors, unrecorded>>
     \/ SkipCheck(t) /\ UNCHANGED <<item, lag>>
  /\ UNCHANGED <<now, browser, sent, state, challenge, redeemed, since, why,
                 used>>

\* The IdP takes a code once, with the verifier of its challenge.
Exchange(t) ==
  /\ pc[t] = "exchange" /\ ~redeemed[t] /\ sent[t].verifier = challenge[t]
  /\ pc' = [pc EXCEPT ![t] = "respond"]
  /\ redeemed' = [redeemed EXCEPT ![t] = TRUE]
  /\ UNCHANGED <<now, browser, sent, state, challenge, since, why, table>>

\* The exchange or anything after it fails: the cookies stay as they are.
Refuse(t) ==
  /\ pc[t] \in {"exchange", "respond"}
  /\ Fail(t, "error")
  /\ UNCHANGED <<now, browser, state, challenge, redeemed, table>>

\* The session cookies are set, and those of the sign-in cleared, whoever
\* minted the ones the jar holds by now.
Respond(t) ==
  /\ Goto(t, "respond", "done")
  /\ jar' = [state |-> None, verifier |-> None, exp |-> 0]
  /\ UNCHANGED <<now, minted, born, raced, sent, state, challenge, redeemed,
                 since, why, table>>

-----------------------------------------------------------------------------
\* DynamoDB removes an item after its expiresAt.
Sweep(f) ==
  /\ item[f] # 0 /\ item[f] < now
  /\ item' = [item EXCEPT ![f] = 0]
  /\ UNCHANGED <<now, browser, tabs, lag, errors, used, unrecorded>>

\* A put reaches the last replica.
Settle(f) ==
  /\ f \in lag
  /\ lag' = lag \ {f}
  /\ UNCHANGED <<now, browser, tabs, item, errors, used, unrecorded>>

\* Lambda@Edge ends a callback after 30 s, which is less than a unit: it is
\* overtaken by at most one tick.  The replicas trail by less than that.
Tick ==
  /\ now < MaxTime /\ lag = {}
  /\ \A t \in Tab : pc[t] \in Callback => since[t] = now
  /\ now' = now + 1
  /\ UNCHANGED <<browser, tabs, table>>

Next ==
  \/ \E t \in Tab :
       \/ Visit(t) \/ Redirect(t) \/ SendCallback(t)
       \/ Check(t) \/ GetState(t) \/ PutState(t) \/ Exchange(t)
       \/ Refuse(t) \/ Respond(t)
  \/ \E f \in Flow : Sweep(f) \/ Settle(f)
  \/ Tick

Spec == Init /\ [][Next]_vars

-----------------------------------------------------------------------------
(* Properties                                                              *)

\* The strict comparison of the state also pairs the verifier: a callback that
\* passed it brings the IdP the verifier of its own challenge, whatever the
\* other tabs did to the cookies while the user was at the IdP.  Both cookies
\* have to be minted, reused, expired and cleared together.
VerifierMatches ==
  \A t \in Tab :
    pc[t] \in {"get", "put", "exchange", "respond"} =>
      sent[t].verifier = challenge[t]

\* "400 Invalid state parameter" has one of the causes the edge cannot help:
\* two redirects minted flows at the same time, the flow was older than its
\* cookies' Max-Age, or another tab had already completed it.  A redirect
\* provoked while the sign-in is under way is none of them (the comment on
\* inflightAuthFlow in auth-check.js).
MismatchExplained ==
  \A t \in Tab :
    why[t] = "mismatch" =>
      \/ state[t] \in raced
      \/ born[state[t]] + Age <= now
      \/ \E u \in Tab : pc[u] = "done"

\* "One-time-use enforcement": a callback goes on with a state that another
\* one, or an earlier one of its own tab, has gone on with only if that one is
\* between its look and its put, its put is too recent for the look, or a call
\* for the state failed and was ignored.  Once on record and settled, the item
\* outlives the cookies that could bring the state back.
ReplayRefused ==
  [][\A t \in Tab :
       (pc[t] = "get" /\ pc'[t] \in {"put", "exchange"} /\ state[t] \in used) =>
         \/ \E u \in Tab : pc[u] = "put" /\ state[u] = state[t]
         \/ state[t] \in lag
         \/ state[t] \in unrecorded']_vars
=============================================================================
