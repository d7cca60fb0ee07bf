---------------------------- MODULE EdgeGateProofs ----------------------------
(***************************************************************************)
(* What EdgeGate promises of every set of deployable functions, visits,    *)
(* keys and times.  The inductive invariant says what each read of an      *)
(* evaluation has established of the token, and how the history of the     *)
(* evaluation relates to the store that changes under it.                  *)
(***************************************************************************)
EXTENDS EdgeGate, TLAPS

Evaluating == pc \in {"secret", "old", "denylist"}

\* The history of an evaluation: what was on arrival, and what has been since.
Follows ==
  pc # "idle" =>
    /\ {cur, prior} \subseteq held /\ barred \subseteq denied /\ began <= now

\* What the handler has decided before it reads the store.
Screened ==
  Evaluating =>
    /\ answer = Pending /\ Presented(fn, visit) /\ fn.module # "none"
    /\ Gate => Guarded /\ (fn.tls => visit.strong)

\* What the signature check has established when the denylist is read.
Validated ==
  pc = "denylist" =>
    /\ Gate /\ token.form = "jwt" /\ token.key \in held \ {0}
    /\ token.exp = 0 \/ token.exp >= began

\* A token whose key was never missing, and that the current key did not
\* verify, is verified by the old one, unless the two keys became one.
Traced ==
  /\ (Evaluating /\ ~lost) => ~Missing(token.key, cur, prior)
  /\ (pc = "old" /\ ~lost /\ ~back) => token.key # cur

\* A refusal has a reason.
Excused ==
  /\ Evaluating => ~refused
  /\ (pc = "done" /\ Gate /\ refused) => lost \/ back \/ fault

Inv == TypeOK /\ Follows /\ Screened /\ Validated /\ Traced /\ Excused
         /\ PassJustified

-----------------------------------------------------------------------------
(* Types                                                                   *)

\* What is deployed has the fields of a function, and auth-check.js, which has
\* no TLS check, is not asked for one.
LEMMA FunctionType ==
  ASSUME NEW f \in Functions
  PROVE  f \in Function /\ (f.module = "standalone" => ~f.tls)
<1>1. ASSUME NEW e \in SUBSET Extension, NEW c \in ExtensionConfig,
             NEW k \in ComposerConfig, f = Compose(e, c, k)
      PROVE  f \in Function /\ f.module # "standalone"
  <2>1. AuthModule(e, k) \in Module \ {"standalone"}
    BY DEF AuthModule, Module
  <2>2. c.requiredRoles \in SUBSET Role /\ MatchMode(c) \in {"OR", "AND"}
    BY DEF ExtensionConfig, MatchMode
  <2>3. /\ f.module = AuthModule(e, k)
        /\ f.tls = ("REQUIRE_TLS_13" \in e)
        /\ f.rewrite = ("REWRITE_TO_INDEX_HTML" \in e)
    BY <1>1 DEF Compose
  <2> QED BY <1>1, <2>1, <2>2 DEF Compose, Function, ComposerConfig
<1>2. ASSUME NEW i \in BOOLEAN, NEW r \in BOOLEAN, f = Standalone(i, r)
      PROVE  f \in Function /\ ~f.tls
  BY <1>2 DEF Standalone, Alone, Function, Module
<1>3. ASSUME f = UserInfo PROVE f \in Function /\ f.module # "standalone"
  BY <1>3 DEF UserInfo, Alone, Function, Module
<1> QED BY <1>1, <1>2, <1>3, RequestAssumption DEF Deployable

\* The session cookie of a visit is a token.
LEMMA SessionType ==
  ASSUME NEW f \in Functions, NEW v \in Visits
  PROVE  v \in Visit /\ Session(f, v) \in Token
BY RequestAssumption DEF Visit, Session

\* Every answer the handlers make is an answer.
LEMMA ReplyType ==
  ASSUME NEW to \in {"pending", "origin", "authorize", "login", "refresh",
                     "upgrade", "roles403", "mfa403", "none401",
                     "signature401", "info", "broken"}
  PROVE  Reply(to) \in Answer /\ Reply(to).to = to
BY DEF Reply, Pending, Answer

\* A redirect to the sign-in.
LEMMA ToAuthType ==
  ASSUME NEW f \in Functions, NEW v \in Visits
  PROVE  ToAuth(f, v) \in Answer /\ ToAuth(f, v).to \in {"login", "authorize"}
BY DEF ToAuth, Reply, Pending, Answer, Flow

\* A redirect to the refresh endpoint, or to the sign-in.
LEMMA ToRenewType ==
  ASSUME NEW f \in Functions, NEW v \in Visits
  PROVE  /\ ToRenew(f, v) \in Answer
         /\ ToRenew(f, v).to = IF f.refresh THEN "refresh" ELSE ToAuth(f, v).to
BY ReplyType, ToAuthType DEF ToRenew

\* A request that is passed on.
LEMMA ForwardType ==
  ASSUME NEW f \in Functions, NEW v, NEW h \in {"none", "viewer", "claims"}
  PROVE  Forward(f, v, h) \in Answer /\ Forward(f, v, h).to = "origin"
BY FunctionType DEF Forward, Reply, Pending, Answer, Function

\* The answer to a session that is valid: its roles and its MFA decide.
LEMMA AdmitType ==
  ASSUME NEW f \in Functions, NEW v, NEW t
  PROVE  /\ Admit(f, v, t) \in Answer
         /\ Admit(f, v, t).to \in {"origin", "roles403", "mfa403"}
         /\ Admit(f, v, t).to = "origin" <=> HasRoles(f, t) /\ (f.mfa => t.mfa)
<1>1. Stripped(f, v) \in {"none", "viewer", "claims"} BY DEF Stripped
<1>2. Forward(f, v, IF f.inject THEN "claims" ELSE Stripped(f, v)) \in Answer
      /\ Forward(f, v, IF f.inject THEN "claims" ELSE Stripped(f, v)).to = "origin"
  BY <1>1, ForwardType
<1> QED BY <1>2, ReplyType DEF Admit

\* The answers before the store is read: pending only to a session presented
\* on a path that needs one, over the TLS that is asked for.
LEMMA ScreenType ==
  ASSUME NEW f \in Functions, NEW v \in Visits
  PROVE  /\ Screen(f, v) \in Answer
         /\ Screen(f, v) = Pending =>
              /\ Presented(f, v) /\ f.module # "none" /\ ~Bypass(f, v)
              /\ f.module # "userinfo" => (f.tls => v.strong)
         /\ (Screen(f, v).to = "origin" /\ f.module \notin {"none", "userinfo"})
              => Bypass(f, v)
<1>1. Stripped(f, v) \in {"none", "viewer", "claims"} BY DEF Stripped
<1>2. /\ Forward(f, v, Stripped(f, v)) \in Answer
      /\ Forward(f, v, Stripped(f, v)).to = "origin"
  BY <1>1, ForwardType
<1>3. /\ Pending \in Answer /\ Pending.to = "pending"
      /\ ToAuth(f, v) \in Answer /\ ToAuth(f, v).to \in {"login", "authorize"}
  BY ToAuthType DEF Pending, Answer
<1>4. f.module \in Module BY FunctionType DEF Function
<1>5. CASE f.module = "none"
  BY <1>2, <1>3, <1>5, ReplyType DEF Screen, PlainScreen
<1>6. CASE f.module = "auth-check"
  <2>1. Screen(f, v) = ComposedScreen(f, v) BY <1>6 DEF Screen
  <2>2. Bypass(f, v) <=> AzureBypass(v) BY <1>6 DEF Bypass, AzureBypass
  <2>3. CASE f.tls /\ ~v.strong
    <3>1. Screen(f, v) = Reply("upgrade") BY <2>1, <2>3 DEF ComposedScreen
    <3> QED BY <1>3, <3>1, ReplyType
  <2>4. CASE ~(f.tls /\ ~v.strong) /\ AzureBypass(v)
    <3>1. Screen(f, v) = Forward(f, v, Stripped(f, v))
      BY <2>1, <2>4 DEF ComposedScreen
    <3> QED BY <1>2, <1>3, <2>2, <2>4, <3>1
  <2>5. CASE ~(f.tls /\ ~v.strong) /\ ~AzureBypass(v) /\ Presented(f, v)
    <3>1. Screen(f, v) = Pending BY <2>1, <2>5 DEF ComposedScreen
    <3> QED BY <1>3, <1>6, <2>2, <2>5, <3>1
  <2>6. CASE ~(f.tls /\ ~v.strong) /\ ~AzureBypass(v) /\ ~Presented(f, v)
    <3>1. Screen(f, v) = ToAuth(f, v) BY <2>1, <2>6 DEF ComposedScreen
    <3> QED BY <1>3, <3>1
  <2> QED BY <2>3, <2>4, <2>5, <2>6
<1>7. CASE f.module = "standalone"
  <2>1. Screen(f, v) = StandaloneScreen(f, v) BY <1>7 DEF Screen
  <2>2. Bypass(f, v) <=> AzureBypass(v) BY <1>7 DEF Bypass, AzureBypass
  <2>3. CASE AzureBypass(v)
    <3>1. Screen(f, v) = Forward(f, v, Stripped(f, v))
      BY <2>1, <2>3 DEF StandaloneScreen
    <3> QED BY <1>2, <1>3, <2>2, <2>3, <3>1
  <2>4. CASE ~AzureBypass(v) /\ Presented(f, v)
    <3>1. Screen(f, v) = Pending BY <2>1, <2>4 DEF StandaloneScreen
    <3> QED BY <1>3, <1>7, <2>2, <2>4, <3>1, FunctionType
  <2>5. CASE ~AzureBypass(v) /\ ~Presented(f, v)
    <3>1. Screen(f, v) = ToAuth(f, v) BY <2>1, <2>5 DEF StandaloneScreen
    <3> QED BY <1>3, <3>1
  <2> QED BY <2>3, <2>4, <2>5
<1>8. CASE f.module = "cognito-auth-check"
  <2>1. Screen(f, v) = CognitoScreen(f, v) BY <1>8 DEF Screen
  <2>2. Bypass(f, v) <=> CognitoBypass(v) BY <1>8 DEF Bypass, CognitoBypass
  <2>3. CASE f.tls /\ ~v.strong
    <3>1. Screen(f, v) = Reply("upgrade") BY <2>1, <2>3 DEF CognitoScreen
    <3> QED BY <1>3, <3>1, ReplyType
  <2>4. CASE ~(f.tls /\ ~v.strong) /\ CognitoBypass(v)
    <3>1. Screen(f, v) = Forward(f, v, Stripped(f, v))
      BY <2>1, <2>4 DEF CognitoScreen
    <3> QED BY <1>2, <1>3, <2>2, <2>4, <3>1
  <2>5. CASE ~(f.tls /\ ~v.strong) /\ ~CognitoBypass(v) /\ Presented(f, v)
    <3>1. Screen(f, v) = Pending BY <2>1, <2>5 DEF CognitoScreen
    <3> QED BY <1>3, <1>8, <2>2, <2>5, <3>1
  <2>6. CASE ~(f.tls /\ ~v.strong) /\ ~CognitoBypass(v) /\ ~Presented(f, v)
    <3>1. Screen(f, v) = ToAuth(f, v) BY <2>1, <2>6 DEF CognitoScreen
    <3> QED BY <1>3, <3>1
  <2> QED BY <2>3, <2>4, <2>5, <2>6
<1>9. CASE f.module = "userinfo"
  BY <1>3, <1>9, ReplyType DEF Screen, UserInfoScreen, Bypass
<1> QED BY <1>4, <1>5, <1>6, <1>7, <1>8, <1>9 DEF Module

\* max-age is a number.
LEMMA MaxAgeType ==
  ASSUME NEW t \in Token, now \in Time
  PROVE  MaxAgeOf(t) \in Nat
BY BoundAssumption DEF MaxAgeOf, Token, Time
-----------------------------------------------------------------------------
(* The invariant                                                           *)

\* Before the first request nothing is established.
LEMMA InitInv == Init => Inv
<1> SUFFICES ASSUME Init PROVE Inv OBVIOUS
<1>1. fn \in Functions /\ visit \in Visits
  BY RequestAssumption DEF Init
<1>2. TypeOK
  <2>1. Pending \in Answer BY DEF Pending, Answer
  <2>2. 0 \in Time BY BoundAssumption DEF Time
  <2> QED BY <1>1, <2>1, <2>2 DEF Init, TypeOK, Steps
<1> QED
  BY <1>2 DEF Init, Inv, Follows, Screened, Validated, Traced, Excused,
              Evaluating, PassJustified

\* The arrival of a request.
LEMMA ArriveInv ==
  ASSUME Inv, NEW f \in Functions, NEW v \in Visits, Arrive(f, v)
  PROVE  Inv'
<1>1. TypeOK /\ pc = "idle" BY DEF Inv, Arrive
<1>2. /\ fn' = f /\ visit' = v /\ token' = Session(f, v)
      /\ answer' = Screen(f, v) /\ UNCHANGED <<now, cur, prior, denied>>
      /\ pc' = IF answer' = Pending THEN "secret" ELSE "done"
      /\ held' = {cur, prior} /\ barred' = denied /\ began' = now
      /\ lost' = Missing(Session(f, v).key, cur, prior)
      /\ back' = FALSE /\ quiet' = TRUE /\ fault' = FALSE /\ refused' = FALSE
  BY DEF Arrive, store, token
<1>3. TypeOK'
  <2>1. Missing(Session(f, v).key, cur, prior) \in BOOLEAN BY DEF Missing
  <2>2. lost' \in BOOLEAN BY ONLY <1>2, <2>1, Zenon
  <2>3. answer' \in Answer BY <1>2, ScreenType
  <2> QED BY <1>1, <1>2, <2>2, <2>3 DEF TypeOK, Steps
<1>4. /\ answer' = Pending =>
           /\ Presented(f, v) /\ f.module # "none" /\ ~Bypass(f, v)
           /\ f.module # "userinfo" => (f.tls => v.strong)
      /\ (answer'.to = "origin" /\ f.module \notin {"none", "userinfo"})
           => Bypass(f, v)
  BY <1>2, ScreenType
<1>5. /\ Gate' = (f.module \in {"auth-check", "standalone", "cognito-auth-check"})
      /\ Guarded' = (Gate' /\ ~Bypass(f, v))
      /\ Presented(fn, visit)' = Presented(f, v)
  BY <1>2 DEF Gate, Guarded, Bypass, Presented, AzureBypass, CognitoBypass, Session
<1>6. Follows' BY <1>1, <1>2 DEF Follows, TypeOK, Time
<1>7. Screened' BY <1>2, <1>4, <1>5 DEF Screened, Evaluating
<1>8. Validated' BY <1>2 DEF Validated
<1>9. Traced' BY <1>2 DEF Traced, Evaluating, Missing
<1>10. Excused' BY <1>2 DEF Excused, Evaluating
<1>11. PassJustified' BY <1>4, <1>5 DEF PassJustified
<1> QED BY <1>3, <1>6, <1>7, <1>8, <1>9, <1>10, <1>11 DEF Inv

\* What a read of an evaluation leaves alone.
LEMMA StepFrame ==
  ASSUME NEW from, NEW to, Step(from, to)
  PROVE  /\ pc = from /\ pc' = to /\ token' = token
         /\ UNCHANGED <<now, cur, prior, denied, fn, visit, began, held, barred,
                        lost, back, quiet>>
         /\ Gate' = Gate /\ Guarded' = Guarded
         /\ Presented(fn, visit)' = Presented(fn, visit)
         /\ HasRoles(fn, token)' = HasRoles(fn, token)
BY DEF Step, store, request, history, token, Session, Gate, Guarded, Bypass,
       AzureBypass, CognitoBypass, Presented, HasRoles

\* A read that ends the evaluation with an answer that does not pass it on.
LEMMA EndInv ==
  ASSUME Inv, Evaluating, NEW from, Step(from, "done"),
         answer' \in Answer, answer'.to # "origin",
         fault' \in BOOLEAN, refused' \in BOOLEAN,
         (Gate /\ refused') => lost \/ back \/ fault'
  PROVE  Inv'
<1> USE StepFrame
<1>1. TypeOK' BY DEF Inv, TypeOK, Steps
<1>2. Follows' /\ PassJustified' BY DEF Inv, Follows, Evaluating, PassJustified
<1>3. Screened' /\ Validated' /\ Traced'
  BY DEF Screened, Validated, Traced, Evaluating
<1>4. Excused' BY DEF Excused, Evaluating
<1> QED BY <1>1, <1>2, <1>3, <1>4 DEF Inv

\* A signature that verifies neither time, or a key that cannot be read.
LEMMA RefuseInv ==
  ASSUME Inv, Evaluating, NEW from, Refuse(from), fault' \in BOOLEAN,
         Gate => lost \/ back \/ fault'
  PROVE  Inv'
<1>1. Step(from, "done") /\ refused' = TRUE BY DEF Refuse
<1>2. answer' \in Answer /\ answer'.to # "origin"
  BY ToAuthType, ReplyType DEF Refuse, Inv, TypeOK
<1> QED BY <1>1, <1>2, EndInv

\* A signature that verifies: the claims decide, or the denylist will.
LEMMA VerifiedInv ==
  ASSUME Inv, Evaluating, NEW from, Verified(from), Gate,
         token.key \in held \ {0}
  PROVE  Inv'
<1>1. Screened /\ TypeOK /\ Follows BY DEF Inv
<1>2. token \in Token /\ token.form \in {"garbled", "jwt"}
  BY <1>1, SessionType DEF TypeOK, token, Screened, Presented
<1>3. fn \in Functions /\ visit \in Visits BY <1>1 DEF TypeOK
<1>4. /\ ToAuth(fn, visit) \in Answer /\ ToAuth(fn, visit).to # "origin"
      /\ ToRenew(fn, visit) \in Answer /\ ToRenew(fn, visit).to # "origin"
  BY <1>3, ToAuthType, ToRenewType
<1>5. UNCHANGED <<fault, refused>> BY DEF Verified
<1>6. refused = FALSE /\ fault \in BOOLEAN BY DEF Inv, Excused, TypeOK
<1>7. CASE Step(from, "done") /\ (token.form = "garbled" \/ Expired(token))
           /\ answer' \in {ToAuth(fn, visit), ToRenew(fn, visit)}
  BY <1>4, <1>5, <1>6, <1>7, EndInv
<1>8. CASE Step(from, "done") /\ token.form # "garbled" /\ ~Expired(token)
           /\ token.jti = NoJti /\ answer' = Admit(fn, visit, token)
  <2>0. /\ pc = from /\ pc' = "done" /\ token' = token
        /\ UNCHANGED <<now, cur, prior, denied, fn, visit, began, held, barred,
                       lost, back, quiet, fault, refused>>
        /\ Gate' = Gate /\ Guarded' = Guarded
        /\ Presented(fn, visit)' = Presented(fn, visit)
        /\ HasRoles(fn, token)' = HasRoles(fn, token)
    BY <1>5, <1>8, StepFrame
  <2> USE <2>0, <1>8
  <2>1. /\ answer' \in Answer
        /\ answer'.to = "origin" => HasRoles(fn, token) /\ (fn.mfa => token.mfa)
    BY <1>3, AdmitType
  <2>2. TypeOK' BY <1>1, <2>1 DEF TypeOK, Steps
  <2>3. token.exp = 0 \/ token.exp >= began
    BY <1>1, <1>2 DEF Expired, Follows, Evaluating, TypeOK, Time, Token
  <2>4. barred \subseteq Jti BY <1>1 DEF TypeOK
  <2>5. PassJustified'
    BY <1>1, <1>2, <2>1, <2>3, <2>4, JtiAssumption
       DEF PassJustified, Screened
  <2>6. Follows' BY <1>1 DEF Follows, Evaluating
  <2>8. Screened' /\ Validated' /\ Traced'
    BY DEF Screened, Validated, Traced, Evaluating
  <2>7. Excused' BY <1>6 DEF Excused, Evaluating
  <2> QED BY <2>2, <2>5, <2>6, <2>7, <2>8 DEF Inv
<1>9. CASE Step(from, "denylist") /\ token.form # "garbled" /\ ~Expired(token)
           /\ UNCHANGED answer
  <2>0. /\ pc = from /\ pc' = "denylist" /\ token' = token
        /\ UNCHANGED <<now, cur, prior, denied, fn, visit, began, held, barred,
                       lost, back, quiet, fault, refused>>
        /\ Gate' = Gate /\ Guarded' = Guarded
        /\ Presented(fn, visit)' = Presented(fn, visit)
        /\ HasRoles(fn, token)' = HasRoles(fn, token)
    BY <1>5, <1>9, StepFrame
  <2> USE <2>0, <1>9
  <2>1. TypeOK' BY <1>1 DEF TypeOK, Steps
  <2>2. Validated'
    BY <1>1, <1>2 DEF Validated, Expired, Follows, Evaluating, TypeOK, Time, Token
  <2>3. Follows' BY <1>1 DEF Follows, Evaluating
  <2>6. Screened' BY <1>1 DEF Screened, Evaluating
  <2>4. Traced' BY DEF Inv, Traced, Evaluating
  <2>5. Excused' /\ PassJustified' BY <1>6 DEF Excused, Evaluating, PassJustified
  <2> QED BY <2>1, <2>2, <2>3, <2>4, <2>5, <2>6 DEF Inv
<1> QED BY <1>7, <1>8, <1>9 DEF Verified

\* userinfo answers whatever it is shown, and is no gate.
LEMMA InformInv ==
  ASSUME Inv, Evaluating, NEW from, Inform(from), fn.module = "userinfo"
  PROVE  Inv'
<1>1. TypeOK /\ token \in Token
  BY SessionType DEF Inv, TypeOK, token
<1>2. MaxAgeOf(token) \in Nat BY <1>1, MaxAgeType DEF TypeOK
<1>3. answer' \in Answer /\ answer'.to # "origin"
  BY <1>2 DEF Inform, Reply, Pending, Answer
<1>4. Step(from, "done") /\ UNCHANGED <<fault, refused>> BY DEF Inform
<1>5. ~Gate BY DEF Gate
<1> QED BY <1>1, <1>3, <1>4, <1>5, EndInv DEF TypeOK

\* The first and the second attempt at the signature, of every variant: match
\* is the second comparison, made with the token's key except by userinfo.
LEMMA ValidateInv ==
  ASSUME Inv, NEW match \in BOOLEAN,
         TryCurrent \/ TryOld(match),
         Gate => (match <=> token.key = prior),
         fn.module \in {"userinfo"} \/ Gate
  PROVE  Inv'
<1>1. Evaluating BY DEF TryCurrent, TryOld, Evaluating
<1>2. TypeOK /\ Follows /\ Traced /\ Excused /\ Screened BY DEF Inv
<1>3. {cur, prior} \subseteq held /\ fault \in BOOLEAN
  BY <1>1, <1>2 DEF Follows, Evaluating, TypeOK
<1>4. ASSUME NEW from, Accept(from), Gate => token.key \in held \ {0} PROVE Inv'
  BY <1>1, <1>4, VerifiedInv, InformInv DEF Accept, Gate
<1>5. CASE pc = "secret" /\ cur # 0 /\ token.key = cur /\ Accept("secret")
  BY <1>3, <1>4, <1>5
<1>6. CASE pc = "secret" /\ cur # 0 /\ token.key # cur /\ Step("secret", "old")
           /\ UNCHANGED outcome
  <2>0. /\ pc = "secret" /\ pc' = "old" /\ token' = token
        /\ UNCHANGED <<now, cur, prior, denied, fn, visit, began, held, barred,
                       lost, back, quiet, fault, refused, answer>>
        /\ Gate' = Gate /\ Guarded' = Guarded
        /\ Presented(fn, visit)' = Presented(fn, visit)
        /\ HasRoles(fn, token)' = HasRoles(fn, token)
    BY <1>6, StepFrame DEF outcome
  <2> USE <2>0, <1>6
  <2>1. TypeOK' BY <1>2 DEF TypeOK, Steps
  <2>2. Follows' BY <1>2 DEF Follows, Evaluating
  <2>5. Screened' BY <1>2 DEF Screened, Evaluating
  <2>6. Validated' BY DEF Validated
  <2>3. Traced' BY <1>2 DEF Traced, Evaluating
  <2>4. Excused' /\ PassJustified'
    BY <1>2 DEF Excused, PassJustified, Evaluating
  <2> QED BY <2>1, <2>2, <2>3, <2>4, <2>5, <2>6 DEF Inv
<1>7. CASE pc = "secret" /\ cur = 0 /\ Refuse("secret") /\ UNCHANGED fault
  <2>1. lost BY <1>1, <1>2, <1>7 DEF Traced, Missing
  <2> QED BY <1>1, <1>3, <1>7, <2>1, RefuseInv
<1>8. CASE pc = "secret" /\ fault' = TRUE /\ Refuse("secret")
  BY <1>1, <1>8, RefuseInv
<1>9. CASE pc = "old" /\ prior # 0 /\ match /\ Accept("old")
  BY <1>3, <1>4, <1>9
<1>10. CASE pc = "old" /\ (prior = 0 \/ ~match) /\ Refuse("old") /\ UNCHANGED fault
  <2>1. Gate => lost \/ back BY <1>1, <1>2, <1>10 DEF Traced, Missing
  <2> QED BY <1>1, <1>3, <1>10, <2>1, RefuseInv
<1>11. CASE pc = "old" /\ fault' = TRUE /\ Refuse("old")
  BY <1>1, <1>11, RefuseInv
<1> QED BY <1>5, <1>6, <1>7, <1>8, <1>9, <1>10, <1>11 DEF TryCurrent, TryOld

\* The read of the denylist.
LEMMA DenylistInv ==
  ASSUME Inv, ReadDenylist
  PROVE  Inv'
<1>1. Step("denylist", "done") /\ pc = "denylist" /\ Evaluating
  BY DEF ReadDenylist, Step, Evaluating
<1>2. TypeOK /\ Follows /\ Screened /\ Validated /\ Excused BY DEF Inv
<1>3. fn \in Functions /\ visit \in Visits BY <1>2 DEF TypeOK
<1>4. fault' \in BOOLEAN /\ refused' = refused /\ refused = FALSE
  BY <1>1, <1>2 DEF ReadDenylist, TypeOK, Excused
<1>5. CASE answer' = ToAuth(fn, visit)
  BY <1>1, <1>3, <1>4, <1>5, EndInv, ToAuthType
<1>6. CASE answer' = Admit(fn, visit, token)
           /\ (token.jti \notin denied \/ fault' = TRUE)
  <2>0. /\ pc = "denylist" /\ pc' = "done" /\ token' = token
        /\ UNCHANGED <<now, cur, prior, denied, fn, visit, began, held, barred,
                       lost, back, quiet>>
        /\ Gate' = Gate /\ Guarded' = Guarded
        /\ Presented(fn, visit)' = Presented(fn, visit)
        /\ HasRoles(fn, token)' = HasRoles(fn, token)
    BY <1>1, StepFrame
  <2> USE <2>0, <1>6
  <2>1. /\ answer' \in Answer
        /\ answer'.to = "origin" => HasRoles(fn, token) /\ (fn.mfa => token.mfa)
    BY <1>3, AdmitType
  <2>2. TypeOK' BY <1>2, <1>4, <2>1 DEF TypeOK, Steps
  <2>3. Follows' BY <1>2 DEF Follows, Evaluating
  <2>7. Screened' /\ Validated' /\ Traced'
    BY DEF Screened, Validated, Traced, Evaluating
  <2>4. token.jti \notin barred \/ fault' BY <1>2, <1>6 DEF Follows
  <2>8. /\ token.form = "jwt" /\ token.key \in held \ {0}
        /\ token.exp = 0 \/ token.exp >= began
        /\ Guarded => (fn.tls => visit.strong)
    BY <1>1, <1>2 DEF Screened, Validated, Guarded
  <2>5. PassJustified' BY <2>0, <2>1, <2>4, <2>8 DEF PassJustified
  <2>6. Excused' BY <1>4 DEF Excused, Evaluating
  <2> QED BY <2>2, <2>3, <2>5, <2>6, <2>7 DEF Inv
<1> QED BY <1>5, <1>6 DEF ReadDenylist

\* A change of the store, or of the clock, under the evaluation: every write is
\* of one entry.
LEMMA ChangeInv ==
  ASSUME Inv, Change \/ Tick
  PROVE  Inv'
<1>1. /\ pc # "done" /\ pc' = pc /\ token' = token
      /\ UNCHANGED <<fn, visit, began, answer, fault, refused>>
      /\ Gate' = Gate /\ Guarded' = Guarded
      /\ Presented(fn, visit)' = Presented(fn, visit)
  BY DEF Change, Tick, Observe, request, outcome, token, Session, Gate, Guarded,
         Bypass, AzureBypass, CognitoBypass, Presented
<1>2. IF pc = "idle" THEN UNCHANGED <<held, barred, lost, back, quiet>> ELSE
        /\ held' = held \cup {cur', prior'} /\ barred' = barred \cap denied'
        /\ lost' = (lost \/ Missing(token.key, cur', prior'))
        /\ back' = (back \/ (cur' # cur /\ cur' = prior)) /\ quiet' = FALSE
  BY DEF Change, Tick, Observe, history
<1>3. TypeOK /\ Follows /\ Screened /\ Validated /\ Traced /\ Excused BY DEF Inv
<1>4. /\ now' \in Time /\ now' >= now
      /\ cur' \in Key /\ prior' \in Key /\ denied' \subseteq Jti
      /\ cur' = cur \/ prior' = prior
  BY <1>3, BoundAssumption DEF Change, Tick, store, TypeOK, Time
<1>5. lost' \in BOOLEAN /\ back' \in BOOLEAN /\ quiet' \in BOOLEAN
  <2>1. (lost \/ Missing(token.key, cur', prior')) \in BOOLEAN
        /\ (back \/ (cur' # cur /\ cur' = prior)) \in BOOLEAN
    BY DEF Missing
  <2>2. lost \in BOOLEAN /\ back \in BOOLEAN /\ quiet \in BOOLEAN
    BY <1>3 DEF TypeOK
  <2> QED BY ONLY <1>2, <2>1, <2>2, Zenon
<1>6. TypeOK'
  <2>1. held' \subseteq Key /\ barred' \subseteq Jti
    BY <1>2, <1>3, <1>4 DEF TypeOK
  <2> QED BY <1>1, <1>3, <1>4, <1>5, <2>1 DEF TypeOK
<1>7. Follows'
  BY <1>1, <1>2, <1>3, <1>4 DEF Follows, TypeOK, Time
<1>8. Screened' BY <1>1, <1>3 DEF Screened, Evaluating
<1>9. Validated' BY <1>1, <1>2, <1>3 DEF Validated
<1>10. Traced'
  BY <1>1, <1>2, <1>3, <1>4 DEF Traced, Evaluating, Missing
<1>11. Excused' /\ PassJustified'
  BY <1>1, <1>3 DEF Excused, Evaluating, PassJustified
<1> QED BY <1>6, <1>7, <1>8, <1>9, <1>10, <1>11 DEF Inv

\* Every step of an evaluation and of the store keeps the invariant.
LEMMA StepInv == Inv /\ [Next]_vars => Inv'
<1> SUFFICES ASSUME Inv, [Next]_vars PROVE Inv' OBVIOUS
<1>1. ASSUME NEW f \in Functions, NEW v \in Visits, Arrive(f, v) PROVE Inv'
  BY <1>1, ArriveInv
<1>2. CASE ComposedValidate \/ StandaloneValidate \/ CognitoValidate
  <2>1. Gate /\ (TryCurrent \/ TryOld(token.key = prior))
    BY <1>2 DEF ComposedValidate, StandaloneValidate, CognitoValidate, Gate
  <2> QED BY <2>1, ValidateInv
<1>3. CASE UserInfoValidate
  <2>1. fn.module = "userinfo" /\ ~Gate /\ (TryCurrent \/ TryOld(TRUE))
    BY <1>3 DEF UserInfoValidate, Gate
  <2> QED BY <2>1, ValidateInv
<1>4. CASE ReadDenylist BY <1>4, DenylistInv
<1>5. CASE Leave
  <2>1. TypeOK'
    <3>1. Pending \in Answer BY DEF Pending, Answer
    <3>2. 0 \in Time BY BoundAssumption DEF Time
    <3> QED BY <1>5, <3>1, <3>2 DEF Leave, store, Inv, TypeOK, Steps
  <2> QED
    BY <1>5, <2>1 DEF Leave, Inv, Follows, Screened, Validated, Traced, Excused,
                      Evaluating, PassJustified
<1>6. CASE Change \/ Tick BY <1>6, ChangeInv
<1>7. CASE UNCHANGED vars
  BY <1>7 DEF vars, store, request, outcome, history, Inv, TypeOK, Follows,
              Screened, Validated, Traced, Excused, PassJustified, Evaluating,
              token, Session, Gate, Guarded, Bypass, AzureBypass, CognitoBypass,
              Presented, HasRoles
<1> QED BY <1>1, <1>2, <1>3, <1>4, <1>5, <1>6, <1>7 DEF Next, Evaluate

\* The invariant holds of every evaluation.
LEMMA Invariance == Spec => []Inv
BY InitInv, StepInv, PTL DEF Spec

\* Every variable keeps its type, for all functions that can be deployed, all
\* visits, keys and times.
THEOREM TypeCorrect == Spec => []TypeOK
<1>1. Inv => TypeOK BY DEF Inv
<1> QED BY Invariance, <1>1, PTL

\* Nobody passes a gate without a reason, however rotations, revocations and
\* the clock fall between the reads of the evaluation, in every variant of the
\* code that can be deployed and with every role and MFA requirement.
THEOREM Justified == Spec => []PassJustified
<1>1. Inv => PassJustified BY DEF Inv
<1> QED BY Invariance, <1>1, PTL

\* A token whose key never left the store is not refused for its signature, at
\* whatever moment the key moves from one entry to the other.
THEOREM KeptVerifies == Spec => []KeptKeyVerifies
<1>1. Inv => KeptKeyVerifies BY DEF Inv, Excused, KeptKeyVerifies
<1> QED BY Invariance, <1>1, PTL

-----------------------------------------------------------------------------
(* The policy                                                              *)

\* Where nothing has moved, what was read so far still holds, and what is left
\* to read decides.
Decided ==
  /\ (pc = "old" /\ quiet /\ Gate) => cur # 0 /\ token.key # cur
  /\ (pc = "denylist" /\ quiet) => Signed /\ ~Expired(token)
  /\ DecidesAsPolicy

\* The answers before the store is read, as the policy has them.
LEMMA ScreenPolicy ==
  ASSUME NEW f \in Functions, NEW v \in Visits,
         f.module \in {"auth-check", "standalone", "cognito-auth-check"}
  PROVE  LET reached == f.tls => v.strong
         IN /\ Screen(f, v).to \in {"pending", "upgrade", "origin", "authorize",
                                    "login"}
            /\ Screen(f, v).to = "upgrade" <=> ~reached
            /\ Screen(f, v).to = "origin" <=> reached /\ Bypass(f, v)
            /\ Screen(f, v).to = "pending" => Screen(f, v) = Pending
            /\ Screen(f, v).to \in {"authorize", "login"}
                 <=> reached /\ ~Bypass(f, v) /\ ~Presented(f, v)
<1>1. Stripped(f, v) \in {"none", "viewer", "claims"} BY DEF Stripped
<1>2. Forward(f, v, Stripped(f, v)).to = "origin" BY <1>1, ForwardType
<1>3. /\ Pending.to = "pending" /\ ToAuth(f, v).to \in {"login", "authorize"}
      /\ Reply("upgrade").to = "upgrade"
  BY ToAuthType, ReplyType DEF Pending
<1>4. CASE f.module = "auth-check"
  <2>1. Screen(f, v) = ComposedScreen(f, v) BY <1>4 DEF Screen
  <2>2. Bypass(f, v) <=> AzureBypass(v) BY <1>4 DEF Bypass, AzureBypass
  <2> QED BY <1>2, <1>3, <2>1, <2>2 DEF ComposedScreen
<1>5. CASE f.module = "standalone"
  <2>1. Screen(f, v) = StandaloneScreen(f, v) BY <1>5 DEF Screen
  <2>2. Bypass(f, v) <=> AzureBypass(v) BY <1>5 DEF Bypass, AzureBypass
  <2>3. ~f.tls BY <1>5, FunctionType
  <2> QED BY <1>2, <1>3, <2>1, <2>2, <2>3 DEF StandaloneScreen
<1>6. CASE f.module = "cognito-auth-check"
  <2>1. Screen(f, v) = CognitoScreen(f, v) BY <1>6 DEF Screen
  <2>2. Bypass(f, v) <=> CognitoBypass(v) BY <1>6 DEF Bypass, CognitoBypass
  <2> QED BY <1>2, <1>3, <2>1, <2>2 DEF CognitoScreen
<1> QED BY <1>4, <1>5, <1>6

\* The last read of an evaluation, answered by the policy.
LEMMA EndDecided ==
  ASSUME Inv, Decided, Evaluating, NEW from, Step(from, "done"),
         (Gate /\ quiet /\ ~fault') =>
            /\ answer'.to \in {"origin", "roles403", "mfa403", "refresh",
                               "authorize", "login"}
            /\ answer'.to = "origin" <=> Admitted
            /\ answer'.to = "refresh" <=> Renewable
            /\ answer'.to \in {"authorize", "login"} <=>
                 /\ ~Renewable
                 /\ Signed => Expired(token) \/ token.jti \in denied
  PROVE  Decided'
<1>1. /\ pc' = "done" /\ token' = token
      /\ UNCHANGED <<now, cur, prior, denied, fn, visit, quiet>>
      /\ Gate' = Gate /\ Guarded' = Guarded
      /\ HasRoles(fn, token)' = HasRoles(fn, token)
  BY StepFrame
<1>2. /\ Signed' = Signed /\ Expired(token)' = Expired(token)
      /\ Renewable' = Renewable /\ Admitted' = Admitted
  BY <1>1 DEF Signed, Missing, Expired, Renewable, Admitted
<1>3. Gate => Guarded /\ (fn.tls => visit.strong) BY DEF Inv, Screened
<1>4. DecidesAsPolicy' BY <1>1, <1>2, <1>3 DEF DecidesAsPolicy
<1> QED BY <1>1, <1>4 DEF Decided

\* A refusal of a gate: the token is not signed, or a read has failed.
LEMMA RefuseDecided ==
  ASSUME Inv, Decided, Evaluating, NEW from, Refuse(from),
         (Gate /\ quiet /\ ~fault') => ~Signed
  PROVE  Decided'
<1>1. fn \in Functions /\ visit \in Visits BY DEF Inv, TypeOK
<1>2. Gate => answer'.to \in {"authorize", "login"}
  BY <1>1, ToAuthType DEF Refuse, Gate
<1>3. Step(from, "done") BY DEF Refuse
<1> QED BY <1>2, <1>3, EndDecided DEF Admitted, Renewable

\* A token that is signed: its expiry, its roles and MFA, or the denylist.
LEMMA VerifiedDecided ==
  ASSUME Inv, Decided, Evaluating, NEW from, Verified(from), Gate,
         quiet => ~Missing(token.key, cur, prior)
  PROVE  Decided'
<1>1. /\ fn \in Functions /\ visit \in Visits /\ denied \subseteq Jti
      /\ token.form \in {"garbled", "jwt"}
  BY DEF Inv, TypeOK, Screened, Presented, token
<1>2. CASE Step(from, "done") /\ token.form = "garbled"
           /\ answer' = ToAuth(fn, visit)
  <2>1. ~Signed BY <1>2 DEF Signed
  <2>2. answer'.to \in {"authorize", "login"} BY <1>1, <1>2, ToAuthType
  <2> QED BY <1>2, <2>1, <2>2, EndDecided DEF Admitted, Renewable
<1>3. CASE Step(from, "done") /\ token.form # "garbled" /\ Expired(token)
           /\ answer' = ToRenew(fn, visit)
  <2>1. quiet => Signed BY <1>1, <1>3 DEF Signed
  <2>2. answer'.to = (IF fn.refresh THEN "refresh" ELSE ToAuth(fn, visit).to)
        /\ ToAuth(fn, visit).to \in {"login", "authorize"}
    BY <1>1, <1>3, ToRenewType, ToAuthType
  <2> QED BY <1>3, <2>1, <2>2, EndDecided DEF Admitted, Renewable
<1>4. CASE Step(from, "done") /\ token.form # "garbled" /\ ~Expired(token)
           /\ token.jti = NoJti /\ answer' = Admit(fn, visit, token)
  <2>1. quiet => Signed BY <1>1, <1>4 DEF Signed
  <2>2. token.jti \notin denied BY <1>1, <1>4, JtiAssumption
  <2>3. /\ answer'.to \in {"origin", "roles403", "mfa403"}
        /\ answer'.to = "origin" <=> HasRoles(fn, token) /\ (fn.mfa => token.mfa)
    BY <1>1, <1>4, AdmitType
  <2> QED BY <1>4, <2>1, <2>2, <2>3, EndDecided DEF Admitted, Renewable
<1>5. CASE Step(from, "denylist") /\ token.form # "garbled" /\ ~Expired(token)
  <2>1. /\ pc' = "denylist" /\ token' = token
        /\ UNCHANGED <<now, cur, prior, quiet>>
    BY <1>5, StepFrame
  <2>2. quiet => Signed BY <1>1, <1>5 DEF Signed
  <2>3. Signed' = Signed /\ Expired(token)' = Expired(token)
    BY <2>1 DEF Signed, Missing, Expired
  <2> QED BY <1>5, <2>1, <2>2, <2>3 DEF Decided, DecidesAsPolicy
<1> QED BY <1>2, <1>3, <1>4, <1>5 DEF Verified

\* The two attempts at the signature.
LEMMA ValidateDecided ==
  ASSUME Inv, Decided, NEW match \in BOOLEAN,
         TryCurrent \/ TryOld(match),
         Gate => (match <=> token.key = prior),
         fn.module \in {"userinfo"} \/ Gate
  PROVE  Decided'
<1>1. Evaluating BY DEF TryCurrent, TryOld, Evaluating
<1>2. ASSUME NEW from, Accept(from),
             (Gate /\ quiet) => ~Missing(token.key, cur, prior)
      PROVE  Decided'
  <2>1. CASE Gate
    BY <1>1, <1>2, <2>1, VerifiedDecided DEF Accept, Gate
  <2>2. CASE ~Gate
    <3>1. Step(from, "done") BY <1>2, <2>2 DEF Accept, Inform
    <3> QED BY <1>1, <2>2, <3>1, EndDecided
  <2> QED BY <2>1, <2>2
<1>3. CASE pc = "secret" /\ cur # 0 /\ token.key = cur /\ Accept("secret")
  BY <1>2, <1>3 DEF Missing
<1>4. CASE pc = "secret" /\ cur # 0 /\ token.key # cur /\ Step("secret", "old")
  <2>1. pc' = "old" /\ token' = token /\ cur' = cur BY <1>4, StepFrame
  <2> QED BY <1>4, <2>1 DEF Decided, DecidesAsPolicy
<1>5. CASE pc = "secret" /\ cur = 0 /\ Refuse("secret")
  BY <1>1, <1>5, RefuseDecided DEF Signed, Missing
<1>6. CASE fault' = TRUE /\ \E from \in {"secret", "old"} : Refuse(from)
  BY <1>1, <1>6, RefuseDecided
<1>7. CASE pc = "old" /\ prior # 0 /\ match /\ Accept("old")
  BY <1>2, <1>7 DEF Missing, Decided
<1>8. CASE pc = "old" /\ (prior = 0 \/ ~match) /\ Refuse("old")
  <2>1. (Gate /\ quiet) => ~Signed BY <1>8 DEF Decided, Signed, Missing
  <2> QED BY <1>1, <1>8, <2>1, RefuseDecided
<1> QED BY <1>3, <1>4, <1>5, <1>6, <1>7, <1>8 DEF TryCurrent, TryOld

\* The read of the denylist decides the rest.
LEMMA DenylistDecided ==
  ASSUME Inv, Decided, ReadDenylist
  PROVE  Decided'
<1>1. Step("denylist", "done") /\ pc = "denylist" /\ Evaluating
  BY DEF ReadDenylist, Step, Evaluating
<1>2. fn \in Functions /\ visit \in Visits BY DEF Inv, TypeOK
<1>3. quiet => Signed /\ ~Expired(token) BY <1>1 DEF Decided
<1>4. CASE token.jti \in denied /\ answer' = ToAuth(fn, visit)
  <2>1. answer'.to \in {"authorize", "login"} BY <1>2, <1>4, ToAuthType
  <2> QED BY <1>1, <1>3, <1>4, <2>1, EndDecided DEF Admitted, Renewable
<1>5. CASE (token.jti \notin denied \/ fault' = TRUE)
           /\ answer' = Admit(fn, visit, token)
  <2>1. /\ answer'.to \in {"origin", "roles403", "mfa403"}
        /\ answer'.to = "origin" <=> HasRoles(fn, token) /\ (fn.mfa => token.mfa)
    BY <1>2, <1>5, AdmitType
  <2> QED BY <1>1, <1>3, <1>5, <2>1, EndDecided DEF Admitted, Renewable
<1> QED BY <1>4, <1>5 DEF ReadDenylist

\* The policy of an answer that needs no read, and every step after it.
LEMMA StepDecided == Inv /\ Decided /\ [Next]_vars => Decided'
<1> SUFFICES ASSUME Inv, Decided, [Next]_vars PROVE Decided' OBVIOUS
<1>1. ASSUME NEW f \in Functions, NEW v \in Visits, Arrive(f, v) PROVE Decided'
  <2>1. /\ pc' \in {"secret", "done"} /\ (pc' = "done" => answer' # Pending)
        /\ answer' = Screen(f, v) /\ fn' = f /\ visit' = v
        /\ token' = Session(f, v)
    BY <1>1 DEF Arrive, token
  <2>2. ASSUME pc' = "done", Gate' PROVE DecidesAsPolicy'
    <3>1. f.module \in {"auth-check", "standalone", "cognito-auth-check"}
      BY <2>1, <2>2 DEF Gate
    <3>2. Guarded' = ~Bypass(f, v)
      BY <2>1, <2>2 DEF Guarded, Bypass, AzureBypass, CognitoBypass
    <3>3. ~Presented(f, v) => ~Signed' BY <2>1 DEF Presented, Signed
    <3>4. /\ answer'.to # "pending" /\ answer'.to # "refresh"
          /\ answer'.to = "upgrade" <=> ~(f.tls => v.strong)
          /\ answer'.to = "origin" <=> (f.tls => v.strong) /\ Bypass(f, v)
          /\ answer'.to \in {"authorize", "login"}
               <=> (f.tls => v.strong) /\ ~Bypass(f, v) /\ ~Presented(f, v)
          /\ answer'.to \in {"upgrade", "origin", "authorize", "login"}
      BY <2>1, <2>2, <3>1, ScreenPolicy
    <3>5. (f.tls => v.strong) /\ ~Bypass(f, v) => ~Signed'
      BY <3>3, <3>4
    <3> QED BY <2>1, <3>2, <3>4, <3>5 DEF DecidesAsPolicy, Admitted, Renewable
  <2> QED BY <2>1, <2>2 DEF Decided, DecidesAsPolicy
<1>2. CASE ComposedValidate \/ StandaloneValidate \/ CognitoValidate
  <2>1. Gate /\ (TryCurrent \/ TryOld(token.key = prior))
    BY <1>2 DEF ComposedValidate, StandaloneValidate, CognitoValidate, Gate
  <2> QED BY <2>1, ValidateDecided
<1>3. CASE UserInfoValidate
  <2>1. fn.module = "userinfo" /\ ~Gate /\ (TryCurrent \/ TryOld(TRUE))
    BY <1>3 DEF UserInfoValidate, Gate
  <2> QED BY <2>1, ValidateDecided
<1>4. CASE ReadDenylist BY <1>4, DenylistDecided
<1>5. CASE Leave BY <1>5 DEF Leave, Decided, DecidesAsPolicy
<1>6. CASE Change \/ Tick
  <2>1. pc' = pc /\ pc # "done" /\ (pc # "idle" => ~quiet')
    BY <1>6 DEF Change, Tick, Observe
  <2> QED BY <2>1 DEF Decided, DecidesAsPolicy
<1>7. CASE UNCHANGED vars
  <2>1. /\ UNCHANGED <<pc, quiet, fault, answer, now, cur, prior, denied, fn, visit>>
        /\ token' = token
    BY <1>7 DEF vars, store, request, outcome, history, token, Session
  <2> QED
    BY <2>1 DEF Decided, DecidesAsPolicy, Gate, Guarded, Bypass, AzureBypass,
                CognitoBypass, Signed, Missing, Admitted, Renewable, Expired,
                HasRoles
<1> QED BY <1>1, <1>2, <1>3, <1>4, <1>5, <1>6, <1>7 DEF Next, Evaluate

\* All the gates of the code decide by one policy over the store they read,
\* where it does not move under them and can be read.
THEOREM OnePolicy == Spec => []DecidesAsPolicy
<1>1. Init => Decided BY DEF Init, Decided, DecidesAsPolicy
<1>2. Inv /\ Decided /\ [Next]_vars => Inv' /\ Decided' BY StepInv, StepDecided
<1>3. Decided => DecidesAsPolicy BY DEF Decided
<1> QED BY InitInv, <1>1, <1>2, <1>3, PTL DEF Spec
=============================================================================
