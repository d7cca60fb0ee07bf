---------------------------- MODULE Distribution ----------------------------
(***************************************************************************)
(* An application builds a distribution: it creates one of the constructs  *)
(* SecuredCloudFront ("azure"), CognitoSecuredCloudFront ("cognito") or    *)
(* CognitoCustomUiAuth ("customui", with a distribution of its own or of   *)
(* the application), then calls its methods in any order.  CloudFormation  *)
(* creates the functions in the order of their dependencies, CloudFront    *)
(* accepts or rejects the distribution, and browsers follow the redirects  *)
(* its functions answer with.                                              *)
(*                                                                         *)
(* A path pattern is the set of URIs it matches.                           *)
(***************************************************************************)
EXTENDS Naturals, Sequences, FunctionComposer

CONSTANTS
  Stem,        \* the first 8 letters of a role's name, one role to one stem
  Constructs,  \* constructs the application may create, a set of Prop
  Calls,       \* behaviours it may add, a set of Call
  MaxCalls     \* bound on its method calls

Uri == {"callback", "jwks", "openid", "switch", "refresh", "logout", "session",
        "userinfo", "login", "upgrade", "page"}
Endpoint == {"callback", "refresh", "logout", "session"}   \* Lambda@Edge

\* What is asked of a behaviour.  first: the role listed first.
Ask == {a \in [extensions : (SUBSET Extension) \ {{}}, config : ExtensionConfig,
               first : Role \cup {"none"}] :
          IF a.config.requiredRoles = {} THEN a.first = "none"
                                         ELSE a.first \in a.config.requiredRoles}
NoAsk == [extensions |-> {}, first |-> "none",
          config |-> [given |-> FALSE, requiredRoles |-> {},
                      roleMatchMode |-> "undefined"]]

\* BehaviorOptions of the application: its viewer protocol policy, functions of
\* its own by event type, and whether it brings an origin request policy.
Viewer == {"allow-all", "redirect-to-https", "https-only"}
Event  == {"viewer-request", "viewer-response"}
Own == [viewer : Viewer, events : SUBSET Event, orp : BOOLEAN]
Call == [pattern : SUBSET Uri, ask : Ask \cup {NoAsk}, own : Own]

Variant == {"azure", "cognito", "customui", "attach"}
\* extra: props.additionalBehaviors; host: the distribution to attach to.
Prop == [variant : Variant, callback : BOOLEAN, identity : BOOLEAN,
         issuer : BOOLEAN, refresh : BOOLEAN, logout : BOOLEAN,
         userinfo : BOOLEAN, names : BOOLEAN, mfa : BOOLEAN, inject : BOOLEAN,
         default : Call, extra : Seq(Call), host : Seq(Call)]

\* What the constants have to be.
DistributionAssumption ==
  /\ Constructs \subseteq Prop /\ Calls \subseteq Call /\ Constructs # {}
  /\ MaxCalls \in Nat /\ Role \subseteq DOMAIN Stem

VARIABLES
  status,      \* of the construct, then of its deployment
  props,       \* what it was created with
  default,     \* the default behaviour
  behaviours,  \* the others, in the order CloudFront tries them
  functions,   \* CloudFront Functions of the construct, as created
  last,        \* lastCreatedFunction, 0 for undefined
  mtls,        \* viewer mTLS: off, attached, or attached with its signal
  calls,       \* method calls made
  creating, created,   \* functions CloudFormation is at, and is done with
  nav          \* a browser following redirects

construct == <<status, props, default, behaviours, functions, last, mtls, calls>>
stack     == <<creating, created>>
vars      == <<construct, stack, nav>>

-----------------------------------------------------------------------------
(* Functions                                                               *)

\* Mutant of Key: the match mode is no part of it.
KeyWithoutMode(a) ==
  [extensions |-> a.extensions, given |-> a.config.given,
   roles |-> a.config.requiredRoles, and |-> FALSE]
\* generateFunctionCacheKey: an empty list of roles is a part of the key.
Key(a) == [extensions |-> a.extensions, given |-> a.config.given,
           roles |-> a.config.requiredRoles,
           and |-> a.config.roleMatchMode = "AND"]
NoKey == Key(NoAsk)

\* generateFunctionId: the extensions, the first eight letters of the joined
\* roles (names have that many, so those of the first role), and the mode, but
\* only where there are roles.  Custom-UI counts instead.
Id(variant, a, size) ==
  LET counts == variant \in {"customui", "attach"}
      roles  == ~counts /\ a.config.requiredRoles # {}
  IN [extensions |-> a.extensions,
      stem |-> IF roles THEN Stem[a.first] ELSE "none",
      and  |-> roles /\ a.config.roleMatchMode = "AND",
      size |-> IF counts THEN size ELSE 0]

\* What the constructs hand to the composer beside the behaviour's own options.
Composer(p) ==
  LET shared == p.variant # "cognito"
  IN [cognito |-> ~shared, login |-> p.variant \in {"customui", "attach"},
      requireMfa |-> p.variant = "azure" /\ p.mfa,
      enableHeaderInjection |-> shared /\ p.inject,
      enableRefresh |-> shared /\ p.refresh]

Func(code, key, id, after) ==
  [code |-> code, key |-> key, id |-> id, after |-> after]

LatestKept(fs, l) == l    \* Mutant of Latest: lastCreatedFunction is not set
\* lastCreatedFunction, after one more.
Latest(fs, l) == Len(fs) + 1

\* buildFunctionAssociations and composedAuthFunction: the function of an ask,
\* from the cache or new; a new one depends on the one created before it.
\* at: its index, 0 without extensions.  clash: CDK refuses a second construct
\* of an id.
Build(p, a, fs, l) ==
  LET cached == {i \in DOMAIN fs : fs[i].key = Key(a)}
      id     == Id(p.variant, a, Len(fs))
      code   == Compose(a.extensions, a.config, Composer(p))
  IN IF a = NoAsk
     THEN [functions |-> fs, last |-> l, at |-> 0, clash |-> FALSE]
     ELSE IF cached # {}
     THEN [functions |-> fs, last |-> l, at |-> CHOOSE i \in cached : TRUE,
           clash |-> FALSE]
     ELSE [functions |-> Append(fs, Func(code, Key(a), id, l)),
           last |-> Latest(fs, l), at |-> Len(fs) + 1,
           clash |-> \E f \in {fs[i] : i \in DOMAIN fs} :
                       f.key # NoKey /\ f.id = id]

-----------------------------------------------------------------------------
(* Behaviours                                                              *)

\* edge: the Lambda@Edge at viewer request; fn: a function of the construct at
\* viewer request; events: functions of the application.  orp: the origin
\* request policy, tls being the one that adds CloudFront-Viewer-TLS.
Behaviour(pattern, edge, fn, own, orp, ask) ==
  [pattern |-> pattern, edge |-> edge, fn |-> fn, viewer |-> own.viewer,
   events |-> own.events, orp |-> orp, ask |-> ask]

Fixed == [viewer |-> "redirect-to-https", events |-> {}, orp |-> FALSE]
Serve(uri, edge) == Behaviour({uri}, edge, 0, Fixed, "none", NoAsk)
Plain(c) == Behaviour(c.pattern, "none", 0, c.own,
                      IF c.own.orp THEN "own" ELSE "none", NoAsk)
Where(condition, seq) == IF condition THEN seq ELSE <<>>

\* Mutant of Policy: the application's policy wins.
PolicyOwnFirst(p, a, own) ==
  IF own.orp THEN "own"
  ELSE IF "REQUIRE_TLS_13" \in a.extensions /\ p.variant \in {"azure", "cognito"}
  THEN "tls" ELSE "none"
\* The policy of the new addBehavior.  Custom-UI has no policy of its own.
Policy(p, a, own) ==
  IF "REQUIRE_TLS_13" \in a.extensions /\ p.variant \in {"azure", "cognito"}
  THEN "tls" ELSE IF own.orp THEN "own" ELSE "none"
\* That of the default behaviour: the application's is dropped, except by
\* Custom-UI.
DefaultPolicy(p, a, own) ==
  IF p.variant \in {"azure", "cognito"}
  THEN Policy(p, a, [own EXCEPT !.orp = FALSE]) ELSE Policy(p, a, own)

MergesAlways(at, own) == at = at    \* Mutant of Merges: nothing is refused
\* mergeFunctionAssociations: two functions on one event throw.
Merges(at, own) == at = 0 \/ "viewer-request" \notin own.events

\* The behaviours a construct starts with, in the order of the object they are
\* collected in.  At /oauth2/callback the application's entry is spread under
\* the endpoint, elsewhere it replaces what is there.
CallbackBehaviour(p) ==
  LET own == {i \in DOMAIN p.extra : p.extra[i].pattern = {"callback"}}
  IN IF own = {} THEN Serve("callback", "callback")
     ELSE [Plain(p.extra[CHOOSE i \in own : TRUE]) EXCEPT !.edge = "callback"]
IdentityBehaviours(p) ==
  Where(p.identity, <<Serve("jwks", "callback"), Serve("openid", "callback"),
                      Serve("switch", "callback")>>)
RefreshBehaviour(p) == Where(p.refresh, <<Serve("refresh", "refresh")>>)
LogoutBehaviour(p)  == Where(p.logout, <<Serve("logout", "logout")>>)

\* An object keeps the place of a key that is set again.
Put(seq, b) ==
  IF \E i \in DOMAIN seq : seq[i].pattern = b.pattern
  THEN [i \in DOMAIN seq |-> IF seq[i].pattern = b.pattern THEN b ELSE seq[i]]
  ELSE Append(seq, b)
\* Mutant of Spread: the callback is replaced like any other.
SpreadUnchecked(seq, c) == Put(seq, Plain(c))
Spread(seq, c) ==
  IF c.pattern = {"callback"} THEN seq ELSE Put(seq, Plain(c))
WithExtra(p, seq) ==
  LET added[n \in 0 .. Len(p.extra)] ==
        IF n = 0 THEN seq ELSE Spread(added[n - 1], p.extra[n])
  IN added[Len(p.extra)]

UserInfoBehaviour(p) ==
  Where(p.userinfo, <<[Serve("userinfo", "none") EXCEPT !.fn = 2]>>)

AzureBehaviours(p) ==
  WithExtra(p, Where(p.callback, <<CallbackBehaviour(p)>> \o IdentityBehaviours(p))
                 \o RefreshBehaviour(p) \o LogoutBehaviour(p))
    \o UserInfoBehaviour(p)
CognitoBehaviours(p) == <<Serve("callback", "callback")>> \o UserInfoBehaviour(p)
CustomUiBehaviours(p) ==
  [i \in DOMAIN p.host |-> Plain(p.host[i])]
    \o <<Serve("session", "session")>> \o RefreshBehaviour(p) \o LogoutBehaviour(p)

\* authCheckFunction and userInfoFunction, created before any composed one.
\* Only the legacy addBehavior of "azure" attaches the first.
StartFunctions(p) ==
  LET code  == IF p.variant = "azure" THEN Standalone(p.inject, p.refresh)
                                      ELSE Alone("cognito-auth-check", FALSE, FALSE)
      check == Func(code, NoKey, Id("none", NoAsk, 0), 0)
      info  == Func(UserInfo, NoKey, Id("none", NoAsk, 0), 1)
  IN IF p.variant \notin {"azure", "cognito"} THEN <<>>
     ELSE IF p.userinfo THEN <<check, info>> ELSE <<check>>

-----------------------------------------------------------------------------
(* The application                                                         *)

NoNav == [at |-> "page", strong |-> TRUE, cookie |-> FALSE, seen |-> {},
          via |-> "none", end |-> "none"]

\* The checks of the constructors, and their default behaviour.
Refused(p) ==
  \/ p.variant = "azure" /\ p.identity /\ ~p.issuer
  \/ p.variant \in {"azure", "cognito"} /\ p.userinfo /\ ~p.names
Construct(p) ==
  LET b == Build(p, p.default.ask, StartFunctions(p), Len(StartFunctions(p)))
  IN /\ status = "new" /\ props' = p
     /\ status' = IF Refused(p) \/ ~Merges(b.at, p.default.own) THEN "threw"
                                                                 ELSE "open"
     /\ functions' = b.functions /\ last' = b.last
     /\ default' = Behaviour(Uri, "none", b.at, p.default.own,
                             DefaultPolicy(p, p.default.ask, p.default.own),
                             p.default.ask)
     /\ behaviours' = CASE p.variant = "azure"   -> AzureBehaviours(p)
                        [] p.variant = "cognito" -> CognitoBehaviours(p)
                        [] OTHER                 -> CustomUiBehaviours(p)
     /\ UNCHANGED <<mtls, calls, stack, nav>>

Called == status = "open" /\ calls < MaxCalls /\ calls' = calls + 1
Unmoved == UNCHANGED <<props, default, mtls, stack, nav>>

\* addBehavior(path, origin, AddBehaviorOptions), in all three constructs.
AddBehavior(c) ==
  LET b == Build(props, c.ask, functions, last)
      merged == Merges(b.at, c.own)
  IN /\ Called /\ Unmoved
     /\ functions' = b.functions /\ last' = b.last
     /\ status' = IF b.clash THEN "clash"
                  ELSE IF ~merged THEN "threw" ELSE "open"
     /\ behaviours' = IF b.clash \/ ~merged THEN behaviours ELSE
          Append(behaviours, Behaviour(c.pattern, "none", b.at, c.own,
                                       Policy(props, c.ask, c.own), c.ask))

\* addBehavior(path, origin, BehaviorOptions, applyAuth) of SecuredCloudFront:
\* the one authCheckFunction, appended to whatever is there.
AddBehaviorLegacy(c, applyAuth) ==
  /\ props.variant = "azure" /\ c.ask = NoAsk
  /\ Called /\ Unmoved /\ UNCHANGED <<status, functions, last>>
  /\ behaviours' = Append(behaviours,
       [Plain(c) EXCEPT !.fn = IF applyAuth THEN 1 ELSE 0])

\* protect of CognitoCustomUiAuth: addBehavior with REQUIRE_AUTH added.
Protect(c) ==
  /\ status = "open" /\ props.variant \in {"customui", "attach"}
  /\ AddBehavior([c EXCEPT !.ask.extensions = @ \cup {"REQUIRE_AUTH"}])

\* The authFunction getter creates the function when nothing has asked for it.
AuthFunction ==
  LET b == Build(props, [NoAsk EXCEPT !.extensions = {"REQUIRE_AUTH"}],
                 functions, last)
  IN /\ Called /\ Unmoved /\ UNCHANGED <<status, behaviours>>
     /\ props.variant \in {"customui", "attach"}
     /\ functions' = b.functions /\ last' = b.last

\* attachToDistribution of ViewerMtlsAccess looks at the behaviours there are.
HttpsOnly == \A b \in {default} \cup {behaviours[i] : i \in DOMAIN behaviours} :
               b.viewer = "https-only"
AttachMtls(signal) ==
  /\ Called /\ mtls = "off"
  /\ IF HttpsOnly
     THEN /\ mtls' = (IF signal THEN "signal" ELSE "on") /\ UNCHANGED status
     ELSE /\ status' = "threw" /\ UNCHANGED mtls
  /\ UNCHANGED <<props, default, behaviours, functions, last, stack, nav>>

-----------------------------------------------------------------------------
(* The deployment                                                          *)

Synthesise ==
  /\ status = "open" /\ status' = "deploying"
  /\ UNCHANGED <<props, default, behaviours, functions, last, mtls, calls,
                 stack, nav>>

\* A function is created once those it depends on are.
Create(i) ==
  /\ status = "deploying" /\ i \in DOMAIN functions \ (creating \cup created)
  /\ functions[i].after \in created \cup {0}
  /\ creating' = creating \cup {i} /\ UNCHANGED <<construct, created, nav>>
Complete(i) ==
  /\ i \in creating /\ creating' = creating \ {i}
  /\ created' = created \cup {i} /\ UNCHANGED <<construct, nav>>

\* Code at viewer request: CloudFront takes one piece, at each path once.  The
\* override of the mTLS signal carries the functions it found under names
\* CloudFormation does not know.
Handlers(b) ==
  (IF b.fn # 0 THEN 1 ELSE 0) + (IF b.edge # "none" THEN 1 ELSE 0)
    + (IF "viewer-request" \in b.events THEN 1 ELSE 0)
Crowded == \E b \in {default} \cup {behaviours[i] : i \in DOMAIN behaviours} :
             Handlers(b) > 1
Repeated == \E i, j \in DOMAIN behaviours :
              i # j /\ behaviours[i].pattern = behaviours[j].pattern
Miscased == mtls = "signal" /\ (default.fn # 0 \/ default.events # {})
Publish ==
  /\ status = "deploying" /\ created = DOMAIN functions
  /\ status' = IF Crowded \/ Repeated \/ Miscased THEN "rejected" ELSE "live"
  /\ UNCHANGED <<props, default, behaviours, functions, last, mtls, calls,
                 stack, nav>>

-----------------------------------------------------------------------------
(* The browser                                                             *)

Matching(uri) == {i \in DOMAIN behaviours : uri \in behaviours[i].pattern}
Routed(uri) ==
  IF Matching(uri) = {} THEN default
  ELSE behaviours[CHOOSE i \in Matching(uri) : \A j \in Matching(uri) : i <= j]

\* A browser with no session, or with one that has expired.
Cookie(expired) ==
  [form |-> IF expired THEN "jwt" ELSE "none", key |-> 1, exp |-> 1, jti |-> 1,
   roles |-> Role, mfa |-> TRUE]
Request(uri, strong, expired) ==
  [uri |-> CASE uri = "callback" -> "callback"
             [] uri \in {"switch", "refresh", "logout"} -> "oauth2"
             [] OTHER -> "page",
   strong |-> strong, secure |-> Cookie(FALSE), host |-> Cookie(expired),
   flow |-> "none", spoofed |-> FALSE]

\* The gate, for its answers to a request whose store does not matter.
Edge == INSTANCE EdgeGate WITH
  Functions <- {UserInfo}, Visits <- {Request("page", TRUE, TRUE)},
  Jti <- {1}, NoJti <- 0, MaxKey <- 1, MaxTime <- 2, MaxAge <- 0,
  now <- 2, cur <- 1, prior <- 0, denied <- {}, pc <- "idle", fn <- UserInfo,
  visit <- Request("page", TRUE, TRUE), answer <- 0, began <- 0, held <- {},
  barred <- {}, lost <- FALSE, back <- FALSE, quiet <- TRUE, fault <- FALSE,
  refused <- FALSE

\* What a function answers; the TLS header is there if the policy adds it.
Answered(b, v) ==
  IF b.fn = 0 THEN "origin" ELSE
  LET code   == functions[b.fn].code
      seen   == [v EXCEPT !.strong = @ /\ b.orp = "tls"]
      screen == Edge!Screen(code, seen)
  IN IF code.module = "userinfo" THEN "info"
     ELSE IF screen.to = "pending" THEN Edge!ToRenew(code, seen).to
     ELSE screen.to

Visit(uri, strong, expired) ==
  /\ status = "live" /\ nav.end = "none" /\ nav.seen = {}
  /\ nav' = [NoNav EXCEPT !.at = uri, !.strong = strong, !.cookie = expired,
                          !.seen = {uri}, !.end = "going"]
  /\ UNCHANGED <<construct, stack>>

\* Where a redirect leads; the identity provider comes back to the callback.
Target == [authorize |-> "callback", login |-> "login", refresh |-> "refresh",
           upgrade |-> "upgrade"]
Follow ==
  LET b  == Routed(nav.at)
      to == Answered(b, Request(nav.at, nav.strong, nav.cookie))
  IN /\ nav.end = "going" /\ UNCHANGED <<construct, stack>>
     /\ nav' =
          IF to \notin DOMAIN Target
          THEN [nav EXCEPT !.end = IF b.edge = "none" THEN to ELSE b.edge]
          ELSE IF Target[to] \in nav.seen
          THEN [nav EXCEPT !.end = "loop", !.via = to]
          ELSE [nav EXCEPT !.at = Target[to], !.via = to,
                           !.seen = @ \cup {Target[to]}]

\* The page is closed.
Close ==
  /\ nav.end \notin {"none", "going"} /\ nav' = NoNav
  /\ UNCHANGED <<construct, stack>>

Init ==
  /\ status = "new" /\ props = (CHOOSE p \in Constructs : TRUE)
  /\ default = Behaviour(Uri, "none", 0, Fixed, "none", NoAsk)
  /\ behaviours = <<>> /\ functions = <<>> /\ last = 0 /\ mtls = "off"
  /\ calls = 0 /\ creating = {} /\ created = {} /\ nav = NoNav

Write ==
  \/ \E p \in Constructs : Construct(p)
  \/ \E c \in Calls : AddBehavior(c) \/ Protect(c)
  \/ \E c \in Calls, applyAuth \in BOOLEAN : AddBehaviorLegacy(c, applyAuth)
  \/ AuthFunction
  \/ \E signal \in BOOLEAN : AttachMtls(signal)
Deploy ==
  \/ Synthesise \/ Publish
  \/ \E i \in DOMAIN functions : Create(i) \/ Complete(i)
Browse ==
  \/ \E uri \in Uri, strong, expired \in BOOLEAN : Visit(uri, strong, expired)
  \/ Follow \/ Close

Next == Write \/ Deploy \/ Browse

Spec == Init /\ [][Next]_vars
-----------------------------------------------------------------------------
(* Properties                                                              *)

All == {default} \cup {behaviours[i] : i \in DOMAIN behaviours}

BehaviourType ==
  [pattern : SUBSET Uri, edge : Endpoint \cup {"none"}, fn : Nat,
   viewer : Viewer, events : SUBSET Event, orp : {"none", "own", "tls"},
   ask : Ask \cup {NoAsk}]
FunctionType ==
  [code : Function, after : Nat,
   key : [extensions : SUBSET Extension, given : BOOLEAN, roles : SUBSET Role,
          and : BOOLEAN],
   id : [extensions : SUBSET Extension, and : BOOLEAN, size : Nat,
         stem : {Stem[r] : r \in Role} \cup {"none"}]]

TypeOK ==
  /\ status \in {"new", "open", "threw", "clash", "deploying", "rejected", "live"}
  /\ props \in Constructs /\ mtls \in {"off", "on", "signal"} /\ calls \in 0 .. MaxCalls
  /\ default \in BehaviourType /\ behaviours \in Seq(BehaviourType)
  /\ \A b \in All : b.fn <= Len(functions)
  /\ functions \in Seq(FunctionType) /\ last = Len(functions)
  /\ \A i \in DOMAIN functions : functions[i].after \in 0 .. i - 1
  /\ creating \cup created \subseteq DOMAIN functions
  /\ nav \in [at : Uri, strong : BOOLEAN, cookie : BOOLEAN, seen : SUBSET Uri,
             via : DOMAIN Target \cup {"none"},
             end : {"none", "going", "loop", "origin", "info"} \cup Endpoint]

\* Whatever functions the cache of a construct shares (securedCloudFront.ts:832),
\* each behaviour runs the code its own extensions, roles and mode call for.
AsAsked ==
  \A b \in All : b.ask # NoAsk =>
    /\ b.fn # 0
    /\ functions[b.fn].code =
         Compose(b.ask.extensions, b.ask.config, Composer(props))

\* The chain of dependencies (securedCloudFront.ts:865) leaves CloudFormation
\* one function of a construct to create at a time.
OneAtATime == \A i, j \in creating : i = j

\* What CloudFront refuses: a path given twice, the functions of the
\* application next to the legacy authentication or on the callback, and the
\* mTLS signal on a default behaviour with functions.  Behaviours made of
\* extensions are never the reason.
RejectionExplained ==
  status = "rejected" =>
    \/ Repeated \/ mtls = "signal"
    \/ \E b \in All : b.ask = NoAsk /\ "viewer-request" \in b.events

\* The redirects of the functions come out at the Lambda@Edge they are meant
\* for: the callback that the construct owns, and a refresh endpoint unless the
\* application has given that path a behaviour of its own.
Ours(p) == p.variant = "cognito" \/ (p.variant = "azure" /\ p.callback)
Overridden(p, uri) ==
  \E c \in {p.extra[i] : i \in DOMAIN p.extra}
             \cup {p.host[i] : i \in DOMAIN p.host} : uri \in c.pattern
RedirectsLand ==
  nav.end \notin {"none", "going"} =>
    /\ (nav.via = "authorize" /\ Ours(props)) => nav.end = "callback"
    /\ (nav.via = "refresh" /\ ~Overridden(props, "refresh")) => nav.end = "refresh"

\* Signing in and renewing never go round in circles (tls-check.js:26): what
\* does passes an upgrade page that demands TLS 1.3 or a session itself, or such
\* a login page.
Demanding(uri) ==
  LET f == Routed(uri).fn
  IN f # 0 /\ (functions[f].code.tls \/ functions[f].code.module # "none")
LoopsExplained ==
  nav.end = "loop" => \E uri \in {"upgrade", "login"} \cap nav.seen : Demanding(uri)

\* A viewer on TLS 1.3 is not sent to the upgrade page: where the function
\* checks TLS, the policy that shows it the version is attached.  Custom-UI has
\* no such policy.
StrongNotUpgraded ==
  (nav.strong /\ props.variant \in {"azure", "cognito"}) => nav.via # "upgrade"
=============================================================================
