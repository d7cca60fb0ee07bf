------------------------------ MODULE EdgeGate ------------------------------
(***************************************************************************)
(* One evaluation of a viewer-request function at an edge location: the    *)
(* TLS check, the session check against the KeyValueStore, roles, headers, *)
(* MFA, rewriting, and the answer.  Evaluations share nothing but the      *)
(* store, so one at a time is all there is to see; the store changes       *)
(* between the awaits of an evaluation, as rotations and revocations       *)
(* arrive at the location.                                                 *)
(*                                                                         *)
(* A signature is the key that made it.  Keys are numbers, 0 stands for no *)
(* entry.  The four copies of validateHmacSignature are four actions.      *)
(***************************************************************************)
EXTENDS Naturals, FunctionComposer

CONSTANTS
  Functions,   \* viewer-request functions deployed
  Visits,      \* requests viewers make, a set of Visit
  Jti,         \* ids of sessions
  NoJti,       \* what a request without a session has
  MaxKey,      \* bound: keys
  MaxTime,     \* bound on the clock
  MaxAge       \* userinfo's cap on max-age, 3600 s

Key  == 0 .. MaxKey
Time == 0 .. MaxTime

\* A session cookie: none, an empty one, a value that is not three parts, three
\* parts whose payload does not parse, or a token of the mint with its claims.
Token ==
  [form : {"none", "empty", "parts", "garbled", "jwt"}, key : Key, exp : Time,
   jti : Jti \cup {NoJti}, roles : SUBSET Role, mfa : BOOLEAN]

\* uri: any page, the callback, or another path under /oauth2/.  strong: TLS
\* 1.3 with a GCM cipher.  flow: the cookie pair of a sign-in.  spoofed: the
\* viewer sent identity headers of its own.
Visit ==
  [uri : {"page", "callback", "oauth2"}, strong : BOOLEAN,
   secure : Token, host : Token, flow : {"none", "live", "garbled"},
   spoofed : BOOLEAN]

\* to: the origin, a redirect, or an error made at the edge.  header: where
\* the identity headers come from.  flow: the redirect carries a new or the
\* present (state, verifier).  index: /index.html was appended.  age: max-age.
Answer ==
  [to : {"pending", "origin", "authorize", "login", "refresh", "upgrade",
         "roles403", "mfa403", "none401", "signature401", "info", "broken"},
   header : {"none", "viewer", "claims"}, flow : {"none", "new", "kept"},
   index : BOOLEAN, age : Nat]

ASSUME BoundAssumption == {MaxKey, MaxTime, MaxAge} \subseteq Nat
ASSUME JtiAssumption   == NoJti \notin Jti
ASSUME RequestAssumption ==
  /\ Functions \subseteq Deployable /\ Functions # {}
  /\ Visits \subseteq Visit /\ Visits # {}

VARIABLES
  now,             \* seconds
  cur, prior,      \* jwt.secret and jwt.secret.old at this location
  denied,          \* sessions with a revoked: entry at this location
  pc, fn, visit,   \* the evaluation: next step, function and request
  answer,
  began,           \* history: when the request came in
  held,            \* history: keys the store has had since then
  barred,          \* history: sessions denied at all times since then
  lost,            \* history: the token's key was missing for a moment
  back,            \* history: jwt.secret took the key of jwt.secret.old
  quiet,           \* history: neither the store nor the clock has changed
  fault,           \* history: a read of the store has failed
  refused          \* history: the signature was refused

store   == <<cur, prior, denied>>
request == <<fn, visit, began>>
history == <<held, barred, lost, back, quiet>>
outcome == <<answer, fault, refused>>
vars    == <<now, store, pc, request, outcome, history>>

Steps == {"idle", "secret", "old", "denylist", "done"}
Pending == [to |-> "pending", header |-> "none", flow |-> "none",
            index |-> FALSE, age |-> 0]

TypeOK ==
  /\ now \in Time /\ cur \in Key /\ prior \in Key /\ denied \subseteq Jti
  /\ pc \in Steps /\ fn \in Functions /\ visit \in Visits
  /\ answer \in Answer
  /\ began \in Time /\ held \subseteq Key /\ barred \subseteq Jti
  /\ {lost, back, quiet, fault, refused} \subseteq BOOLEAN

-----------------------------------------------------------------------------
(* The request: cookies, paths, redirects                                  *)

\* The session cookie.  Only auth-check knows the __Secure- name, which it
\* takes first.
Session(f, v) ==
  IF f.module \in {"auth-check", "standalone"} /\ v.secure.form # "none"
  THEN v.secure ELSE v.host

\* Paths that need no session.
AzureBypassNotCallback(v) == v.uri = "oauth2"    \* Mutant of AzureBypass
AzureBypass(v) == v.uri \in {"callback", "oauth2"}
CognitoBypass(v) == v.uri = "callback"
Bypass(f, v) ==
  CASE f.module \in {"auth-check", "standalone"} -> AzureBypass(v)
    [] f.module = "cognito-auth-check"           -> CognitoBypass(v)
    [] OTHER                                     -> FALSE

\* Headers as the function leaves them when it does not inject any.
Stripped(f, v) == IF v.spoofed /\ ~f.inject THEN "viewer" ELSE "none"

\* inflightAuthFlow: a decodable state and its verifier are reused.
Flow(v) == IF v.flow = "live" THEN "kept" ELSE "new"

Reply(to) == [Pending EXCEPT !.to = to]

\* redirectToAuth
ToAuth(f, v) ==
  IF f.login THEN Reply("login") ELSE [Reply("authorize") EXCEPT !.flow = Flow(v)]

\* A token past its exp: redirectToRefresh where there is a refresh endpoint.
Expired(t) == t.exp # 0 /\ t.exp < now
ToRenew(f, v) == IF f.refresh THEN Reply("refresh") ELSE ToAuth(f, v)

HasRoles(f, t) ==
  \/ f.need = {}
  \/ f.mode = "AND" /\ f.need \subseteq t.roles
  \/ f.mode = "OR"  /\ f.need \cap t.roles # {}

\* What follows checkAuth in the handler: headers, MFA, rewriting.
Forward(f, v, header) ==
  [Reply("origin") EXCEPT !.header = header, !.index = f.rewrite]
Admit(f, v, t) ==
  IF ~HasRoles(f, t) THEN Reply("roles403")
  ELSE IF f.mfa /\ ~t.mfa THEN Reply("mfa403")
  ELSE Forward(f, v, IF f.inject THEN "claims" ELSE Stripped(f, v))

-----------------------------------------------------------------------------
(* Arrival: what the handlers decide before they read the store            *)

Presented(f, v) == Session(f, v).form \in {"garbled", "jwt"}

\* The generated handler without, and with, the Azure module.
PlainScreen(f, v) ==
  IF f.tls /\ ~v.strong THEN Reply("upgrade") ELSE Forward(f, v, Stripped(f, v))
\* Mutant of ComposedScreen: /oauth2/ is let through before the TLS check.
ComposedScreenBypassFirst(f, v) ==
  IF AzureBypass(v) THEN Forward(f, v, Stripped(f, v))
  ELSE IF f.tls /\ ~v.strong THEN Reply("upgrade")
  ELSE IF Presented(f, v) THEN Pending
  ELSE ToAuth(f, v)
ComposedScreen(f, v) ==
  IF f.tls /\ ~v.strong THEN Reply("upgrade")
  ELSE IF AzureBypass(v) THEN Forward(f, v, Stripped(f, v))
  ELSE IF Presented(f, v) THEN Pending
  ELSE ToAuth(f, v)

\* auth-check.js
StandaloneScreen(f, v) ==
  IF AzureBypass(v) THEN Forward(f, v, Stripped(f, v))
  ELSE IF Presented(f, v) THEN Pending
  ELSE ToAuth(f, v)

CognitoScreen(f, v) ==
  IF f.tls /\ ~v.strong THEN Reply("upgrade")
  ELSE IF CognitoBypass(v) THEN Forward(f, v, Stripped(f, v))
  ELSE IF Presented(f, v) THEN Pending
  ELSE ToAuth(f, v)

\* userinfo-endpoint.js; a value that is not three parts fails as a signature.
UserInfoScreen(f, v) ==
  CASE Session(f, v).form \in {"none", "empty"} -> Reply("none401")
    [] Presented(f, v)                          -> Pending
    [] OTHER                                    -> Reply("signature401")

Screen(f, v) ==
  CASE f.module = "none"               -> PlainScreen(f, v)
    [] f.module = "auth-check"         -> ComposedScreen(f, v)
    [] f.module = "standalone"         -> StandaloneScreen(f, v)
    [] f.module = "cognito-auth-check" -> CognitoScreen(f, v)
    [] f.module = "userinfo"           -> UserInfoScreen(f, v)

\* No signature of key k verifies with the store.
Missing(k, c, p) == k = 0 \/ c = 0 \/ k \notin {c, p}

Arrive(f, v) ==
  /\ pc = "idle"
  /\ fn' = f /\ visit' = v /\ began' = now
  /\ answer' = Screen(f, v)
  /\ pc' = IF answer' = Pending THEN "secret" ELSE "done"
  /\ held' = {cur, prior} /\ barred' = denied
  /\ lost' = Missing(Session(f, v).key, cur, prior)
  /\ back' = FALSE /\ quiet' = TRUE /\ fault' = FALSE /\ refused' = FALSE
  /\ UNCHANGED <<now, store>>

-----------------------------------------------------------------------------
(* The awaits                                                              *)

token == Session(fn, visit)

Step(from, to) ==
  /\ pc = from /\ pc' = to
  /\ UNCHANGED <<now, store, request, history>>

Refuse(from) ==
  /\ Step(from, "done") /\ refused' = TRUE
  /\ answer' = IF fn.module = "userinfo" THEN Reply("signature401")
                                         ELSE ToAuth(fn, visit)

\* Mutant of Verified: the denylist is not consulted.
VerifiedAdmits(from) ==
  /\ UNCHANGED <<fault, refused>> /\ Step(from, "done")
  /\ answer' = IF token.form = "garbled" THEN ToAuth(fn, visit)
               ELSE IF Expired(token) THEN ToRenew(fn, visit)
               ELSE Admit(fn, visit, token)

\* The claims of a verified token, up to the read of the denylist.
Verified(from) ==
  /\ UNCHANGED <<fault, refused>>
  /\ \/ /\ token.form = "garbled" \/ Expired(token) \/ token.jti = NoJti
        /\ Step(from, "done")
        /\ answer' = IF token.form = "garbled" THEN ToAuth(fn, visit)
                     ELSE IF Expired(token) THEN ToRenew(fn, visit)
                     ELSE Admit(fn, visit, token)
     \/ /\ token.form # "garbled" /\ ~Expired(token) /\ token.jti # NoJti
        /\ Step(from, "denylist") /\ UNCHANGED answer

\* userinfo: neither the expiry nor the denylist is looked at.
MaxAgeOf(t) ==
  CASE t.exp <= now         -> 0
    [] t.exp - now > MaxAge -> MaxAge
    [] OTHER                -> t.exp - now
Inform(from) ==
  /\ Step(from, "done") /\ UNCHANGED <<fault, refused>>
  /\ answer' = IF token.form = "garbled" THEN Reply("broken")
               ELSE [Reply("info") EXCEPT !.age = MaxAgeOf(token)]

Accept(from) ==
  IF fn.module = "userinfo" THEN Inform(from) ELSE Verified(from)

\* validateHmacSignature up to its first answer, and its second attempt with
\* the old key; match is what is said of that one.
TryCurrent ==
  /\ pc = "secret"
  /\ \/ cur # 0 /\ token.key = cur /\ Accept("secret")
     \/ cur # 0 /\ token.key # cur /\ Step("secret", "old") /\ UNCHANGED outcome
     \/ cur = 0 /\ Refuse("secret") /\ UNCHANGED fault
     \/ fault' = TRUE /\ Refuse("secret")
TryOld(match) ==
  /\ pc = "old"
  /\ \/ prior # 0 /\ match /\ Accept("old")
     \/ (prior = 0 \/ ~match) /\ Refuse("old") /\ UNCHANGED fault
     \/ fault' = TRUE /\ Refuse("old")

\* Mutant of ComposedValidate: the old key is read before the current one.
ComposedOldFirst ==
  /\ fn.module = "auth-check"
  /\ \/ /\ pc = "secret"
        /\ \/ prior # 0 /\ token.key = prior /\ Accept("secret")
           \/ token.key # prior /\ Step("secret", "old") /\ UNCHANGED outcome
     \/ /\ pc = "old"
        /\ \/ cur # 0 /\ token.key = cur /\ Accept("old")
           \/ token.key # cur /\ Refuse("old") /\ UNCHANGED fault

ComposedValidate ==
  fn.module = "auth-check" /\ (TryCurrent \/ TryOld(token.key = prior))
StandaloneValidate ==
  fn.module = "standalone" /\ (TryCurrent \/ TryOld(token.key = prior))
CognitoValidate ==
  fn.module = "cognito-auth-check" /\ (TryCurrent \/ TryOld(token.key = prior))

\* The signature of the old key is compared with itself.
UserInfoValidate == fn.module = "userinfo" /\ (TryCurrent \/ TryOld(TRUE))

\* A session without an entry passes, and so does one whose entry cannot be
\* read.
ReadDenylist ==
  /\ Step("denylist", "done") /\ UNCHANGED refused
  /\ \/ /\ token.jti \in denied /\ UNCHANGED fault
        /\ answer' = ToAuth(fn, visit)
     \/ /\ token.jti \notin denied /\ UNCHANGED fault
        /\ answer' = Admit(fn, visit, token)
     \/ /\ fault' = TRUE
        /\ answer' = Admit(fn, visit, token)

\* The answer is sent, and the evaluation's state gone.
Leave ==
  /\ pc = "done" /\ pc' = "idle"
  /\ answer' = Pending /\ began' = 0 /\ held' = {} /\ barred' = {}
  /\ lost' = FALSE /\ back' = FALSE /\ quiet' = FALSE
  /\ fault' = FALSE /\ refused' = FALSE
  /\ UNCHANGED <<now, store, fn, visit>>

-----------------------------------------------------------------------------
(* The store as the location sees it                                       *)

Observe ==
  /\ pc # "done"
  /\ IF pc = "idle" THEN UNCHANGED history ELSE
       /\ held' = held \cup {cur', prior'}
       /\ barred' = barred \cap denied'
       /\ lost' = (lost \/ Missing(token.key, cur', prior'))
       /\ back' = (back \/ (cur' # cur /\ cur' = prior))
       /\ quiet' = FALSE
  /\ UNCHANGED <<pc, request, outcome>>

\* Every write of the store is of one entry.
Change ==
  /\ \/ cur' \in Key \ {cur} /\ UNCHANGED <<prior, denied>>
     \/ prior' \in Key \ {prior} /\ UNCHANGED <<cur, denied>>
     \/ \E j \in Jti : /\ denied' \in {denied \cup {j}, denied \ {j}} \ {denied}
                       /\ UNCHANGED <<cur, prior>>
  /\ Observe /\ UNCHANGED now

Tick ==
  /\ now < MaxTime /\ now' = now + 1
  /\ UNCHANGED store /\ Observe

Init ==
  /\ now \in Time /\ cur \in Key /\ prior \in Key /\ denied \in SUBSET Jti
  /\ pc = "idle"
  /\ fn = (CHOOSE f \in Functions : TRUE) /\ visit = (CHOOSE v \in Visits : TRUE)
  /\ answer = Pending /\ began = 0 /\ held = {} /\ barred = {}
  /\ lost = FALSE /\ back = FALSE /\ quiet = FALSE
  /\ fault = FALSE /\ refused = FALSE

Evaluate ==
  \/ \E f \in Functions, v \in Visits : Arrive(f, v)
  \/ ComposedValidate \/ StandaloneValidate \/ CognitoValidate
  \/ UserInfoValidate \/ ReadDenylist \/ Leave

Next == Evaluate \/ Change \/ Tick

Spec == Init /\ [][Next]_vars

-----------------------------------------------------------------------------
(* Properties                                                              *)

Gate == fn.module \in {"auth-check", "standalone", "cognito-auth-check"}
Guarded == Gate /\ ~Bypass(fn, visit)

\* What lets a request through to a guarded origin, however the store and the
\* clock move during the evaluation: a signature of a key the location held,
\* an exp that was not over on arrival, a session that was not denied all
\* along (or whose entry could not be read: auth-check.js:309 lets it pass),
\* the roles and MFA of the behaviour, and its TLS.
PassJustified ==
  (pc = "done" /\ answer.to = "origin" /\ Guarded) =>
    /\ token.form = "jwt" /\ token.key \in held \ {0}
    /\ token.exp = 0 \/ token.exp >= began
    /\ token.jti \notin barred \/ fault
    /\ HasRoles(fn, token) /\ (fn.mfa => token.mfa) /\ (fn.tls => visit.strong)

\* The current key is read before the old one (auth-check.js:45-74), so that a
\* key that moves from one entry to the other between the reads is found: a
\* token whose key never leaves the store is not refused for its signature.
KeptKeyVerifies ==
  (pc = "done" /\ Gate /\ ~lost /\ ~back /\ ~fault) => ~refused

\* The policy of a gate, stated at once over one state of the store: where
\* nothing moves and nothing fails, every variant of the code decides by it.
Signed == token.form = "jwt" /\ ~Missing(token.key, cur, prior)
Admitted ==
  /\ Signed /\ ~Expired(token) /\ token.jti \notin denied
  /\ HasRoles(fn, token) /\ (fn.mfa => token.mfa)
Renewable == Signed /\ Expired(token) /\ fn.refresh
DecidesAsPolicy ==
  (pc = "done" /\ quiet /\ ~fault /\ Gate) =>
    LET reached == fn.tls => visit.strong
    IN /\ answer.to = "upgrade" <=> ~reached
       /\ answer.to = "origin" <=> reached /\ (Guarded => Admitted)
       /\ answer.to = "refresh" <=> reached /\ Guarded /\ Renewable
       /\ answer.to \in {"authorize", "login"} <=>
            /\ reached /\ Guarded /\ ~Renewable
            /\ Signed => Expired(token) \/ token.jti \in denied

\* userinfo-endpoint.js:3, "Validates JWT signature".
UserInfoSigned ==
  (pc = "done" /\ answer.to \in {"info", "broken"}) => token.key \in held \ {0}
=============================================================================
