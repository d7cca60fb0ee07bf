--------------------------- MODULE EntranceProofs ---------------------------
(***************************************************************************)
(* What a distribution promises of every construct an application may      *)
(* create and all calls it may make, and the viewer mTLS in front of it of *)
(* every set of serials and of options.  The behaviours and the functions  *)
(* of a construct are sequences that only grow, and the proofs say what a  *)
(* sequence keeps: the function a key stands for, the first behaviour that *)
(* matches an endpoint.  The one definition by recursion, of WithExtra, is *)
(* reasoned about through the least number at which a claim would fail.    *)
(***************************************************************************)
EXTENDS Entrance, SequenceTheorems, WellFoundedInduction, TLAPS

-----------------------------------------------------------------------------
(* Numbers and sequences                                                   *)

\* Every set of naturals that is not empty has a least member.
LEMMA Least ==
  ASSUME NEW T \in SUBSET Nat, T # {}
  PROVE  \E n \in T : \A m \in T : n <= m
<1> DEFINE R == OpToRel(<, Nat)
<1>1. IsWellFoundedOn(R, Nat) BY NatLessThanWellFounded
<1> HIDE DEF R
<1>2. PICK n \in T : \A m \in T : ~(<<m, n>> \in R)
  BY <1>1, WFMin
<1>3. \A m \in T : ~(m < n)
  BY <1>2 DEF R, OpToRel
<1> QED BY <1>3

\* A function from an initial segment of the naturals is a sequence.
LEMMA SegmentIsSeq ==
  ASSUME NEW S, NEW n \in Nat, NEW f \in [1 .. n -> S]
  PROVE  f \in Seq(S) /\ Len(f) = n
  OBVIOUS

\* What is appended is the one new item.
Items(s) == {s[i] : i \in DOMAIN s}

LEMMA ItemsOfAppend ==
  ASSUME NEW S, NEW s \in Seq(S), NEW e \in S
  PROVE  Append(s, e) \in Seq(S) /\ Items(Append(s, e)) = Items(s) \cup {e}
<1> DEFINE t == Append(s, e)
<1>1. t \in Seq(S) /\ Len(t) = Len(s) + 1 /\ Len(s) \in Nat
  BY AppendProperties, LenProperties
<1>2. DOMAIN t = DOMAIN s \cup {Len(s) + 1} /\ DOMAIN s = 1 .. Len(s)
  BY <1>1, LenProperties
<1>3. t[Len(s) + 1] = e /\ \A i \in DOMAIN s : t[i] = s[i]
  BY <1>2, AppendProperties
<1> HIDE DEF t
<1>4. ASSUME NEW i \in DOMAIN t PROVE t[i] \in Items(s) \cup {e}
  BY <1>2, <1>3 DEF Items
<1>5. ASSUME NEW j \in DOMAIN s PROVE s[j] \in Items(t)
  BY <1>2, <1>3 DEF Items
<1>6. e \in Items(t) BY <1>2, <1>3 DEF Items
<1>7. Items(t) = Items(s) \cup {e}
  BY <1>4, <1>5, <1>6 DEF Items
<1> QED BY <1>1, <1>7 DEF t

-----------------------------------------------------------------------------
(* The behaviours a construct starts with                                  *)

\* A behaviour with no function of the construct and nothing asked for.
Bare == {b \in BehaviourType : b.ask = NoAsk /\ b.fn = 0}

\* Endpoints and the behaviours of an application have neither.
LEMMA BareBehaviours ==
  /\ \A uri \in Uri, edge \in Endpoint : Serve(uri, edge) \in Bare
  /\ \A c \in Call : Plain(c) \in Bare /\ Plain(c).pattern = c.pattern /\ Plain(c).edge = "none"
  BY
     DEF Bare, BehaviourType, Serve, Plain, Behaviour, Fixed, Call, Own,
         Viewer, Event, Uri, Endpoint

\* The first behaviour that matches the path of an endpoint is its own.
Lands(bs, uri) ==
  \E i \in DOMAIN bs :
    /\ bs[i].pattern = {uri} /\ bs[i].edge = uri /\ bs[i].fn = 0
    /\ \A j \in 1 .. i - 1 : uri \notin bs[j].pattern

\* Behaviours listed later do not take an endpoint away...
LEMMA LandsBefore ==
  ASSUME NEW S, NEW s \in Seq(S), NEW t \in Seq(S), NEW uri, Lands(s, uri)
  PROVE  Lands(s \o t, uri)
<1>1. PICK i \in DOMAIN s :
       /\ s[i].pattern = {uri} /\ s[i].edge = uri /\ s[i].fn = 0
       /\ \A j \in 1 .. i - 1 : uri \notin s[j].pattern
  BY DEF Lands
<1>2. i \in DOMAIN (s \o t) /\ (s \o t)[i] = s[i]
  BY ConcatProperties, LenProperties
<1>3. \A j \in 1 .. i - 1 : (s \o t)[j] = s[j]
  BY ConcatProperties, LenProperties
<1> QED BY <1>1, <1>2, <1>3 DEF Lands

LEMMA LandsAppend ==
  ASSUME NEW S, NEW s \in Seq(S), NEW b \in S, NEW uri, Lands(s, uri)
  PROVE  Lands(Append(s, b), uri)
<1>1. Append(s, b) = s \o <<b>> /\ <<b>> \in Seq(S) OBVIOUS
<1> QED BY <1>1, LandsBefore

\* ... nor do earlier ones that do not match its path.
LEMMA LandsAfter ==
  ASSUME NEW S, NEW s \in Seq(S), NEW t \in Seq(S), NEW uri, Lands(t, uri),
         \A i \in DOMAIN s : uri \notin s[i].pattern
  PROVE  Lands(s \o t, uri)
<1>1. PICK i \in DOMAIN t :
       /\ t[i].pattern = {uri} /\ t[i].edge = uri /\ t[i].fn = 0
       /\ \A j \in 1 .. i - 1 : uri \notin t[j].pattern
  BY DEF Lands
<1>2. Len(s) \in Nat /\ Len(t) \in Nat /\ i \in 1 .. Len(t)
  BY LenProperties
<1> DEFINE k == Len(s) + i
<1>3. k \in DOMAIN (s \o t) /\ (s \o t)[k] = t[i]
  BY <1>2, ConcatProperties, LenProperties
<1>4. ASSUME NEW j \in 1 .. k - 1 PROVE uri \notin (s \o t)[j].pattern
  <2>1. CASE j <= Len(s)
    BY <2>1, <1>2, ConcatProperties, LenProperties
  <2>2. CASE j > Len(s)
    <3>1. j - Len(s) \in 1 .. i - 1 /\ (s \o t)[j] = t[j - Len(s)]
      BY <2>2, <1>2, ConcatProperties, LenProperties
    <3> QED BY <3>1, <1>1
  <2> QED BY <2>1, <2>2, <1>2
<1> QED BY <1>1, <1>3, <1>4 DEF Lands

\* The behaviour of an application with the path of an endpoint replaces it, the
\* callback excepted.
LEMMA LandsSpread ==
  ASSUME NEW s \in Seq(Bare), NEW c \in Call, NEW uri, Lands(s, uri),
         c.pattern = {uri} => uri = "callback"
  PROVE  Lands(Spread(s, c), uri)
<1>1. CASE c.pattern = {"callback"}
  BY <1>1 DEF Spread
<1>2. CASE c.pattern # {"callback"}
  <2> DEFINE b == Plain(c)
  <2>1. b \in Bare /\ b.pattern = c.pattern /\ c.pattern # {uri}
    BY <1>2, BareBehaviours
  <2>2. Spread(s, c) = Put(s, b) BY <1>2 DEF Spread
  <2> HIDE DEF b
  <2>3. CASE \E i \in DOMAIN s : s[i].pattern = b.pattern
    <3>1. Put(s, b) = [i \in DOMAIN s |-> IF s[i].pattern = b.pattern THEN b ELSE s[i]]
      BY <2>3 DEF Put
    <3>2. PICK i \in DOMAIN s :
            /\ s[i].pattern = {uri} /\ s[i].edge = uri /\ s[i].fn = 0
            /\ \A j \in 1 .. i - 1 : uri \notin s[j].pattern
      BY DEF Lands
    <3>3. DOMAIN s = 1 .. Len(s) /\ Len(s) \in Nat BY LenProperties
    <3>4. \A j \in 1 .. i - 1 : j \in DOMAIN s /\ Put(s, b)[j].pattern = s[j].pattern
      BY <3>1, <3>3
    <3>5. Put(s, b)[i] = s[i] BY <3>1, <3>2, <2>1
    <3> QED BY <2>2, <3>1, <3>2, <3>4, <3>5 DEF Lands
  <2>4. CASE ~ \E i \in DOMAIN s : s[i].pattern = b.pattern
    <3>1. Put(s, b) = Append(s, b) BY <2>4 DEF Put
    <3> QED BY <2>1, <2>2, <3>1, LandsAppend
  <2> QED BY <2>3, <2>4
<1> QED BY <1>1, <1>2

LEMMA SpreadBare ==
  ASSUME NEW s \in Seq(Bare), NEW c \in Call
  PROVE  Spread(s, c) \in Seq(Bare)
<1>1. Plain(c) \in Bare BY BareBehaviours
<1>2. ASSUME NEW b \in Bare PROVE Put(s, b) \in Seq(Bare)
  <2> DEFINE f == [i \in DOMAIN s |-> IF s[i].pattern = b.pattern THEN b ELSE s[i]]
  <2>1. DOMAIN s = 1 .. Len(s) /\ Len(s) \in Nat /\ \A i \in DOMAIN s : s[i] \in Bare
    BY LenProperties
  <2>2. f \in [1 .. Len(s) -> Bare] BY <2>1
  <2>3. f \in Seq(Bare) BY <2>1, <2>2, SegmentIsSeq
  <2> QED BY <2>3 DEF Put
<1> QED BY <1>1, <1>2 DEF Spread

\* The recursive function of WithExtra exists, so its equation holds.
LEMMA Adding ==
  ASSUME NEW p, Len(p.extra) \in Nat, NEW seq
  PROVE  \E f : /\ f = [n \in 0 .. Len(p.extra) |->
                         IF n = 0 THEN seq ELSE Spread(f[n - 1], p.extra[n])]
                /\ WithExtra(p, seq) = f[Len(p.extra)]
<1> DEFINE Upto(m, f) ==
      f = [n \in 0 .. m |-> IF n = 0 THEN seq ELSE Spread(f[n - 1], p.extra[n])]
    T == {m \in Nat : ~ \E f : Upto(m, f)}
<1>1. T = {}
  <2> SUFFICES ASSUME T # {} PROVE FALSE OBVIOUS
  <2>1. PICK m \in T : \A k \in T : m <= k BY Least
  <2>2. CASE m = 0
    <3> DEFINE f == [n \in 0 .. m |-> seq]
    <3>1. Upto(m, f) BY <2>2
    <3> QED BY <3>1
  <2>3. CASE m # 0
    <3>1. m - 1 \in Nat /\ m - 1 \notin T
      <4>1. m \in Nat BY <2>1
      <4>2. m - 1 \in Nat /\ ~(m <= m - 1) BY <4>1, <2>3
      <4> QED BY <4>2, <2>1
    <3>2. PICK f : Upto(m - 1, f) BY <3>1
    <3> DEFINE e == Spread(f[m - 1], p.extra[m])
               g == [n \in 0 .. m |-> IF n = m THEN e ELSE f[n]]
    <3>3. \A n \in 0 .. m - 1 : g[n] = f[n] BY <2>3
    <3>4. \A n \in 0 .. m : g[n] = IF n = 0 THEN seq ELSE Spread(g[n - 1], p.extra[n])
      <4> SUFFICES ASSUME NEW n \in 0 .. m
                   PROVE  g[n] = IF n = 0 THEN seq ELSE Spread(g[n - 1], p.extra[n])
        OBVIOUS
      <4> HIDE DEF g
      <4>1. CASE n = m
        <5>1. g[n] = e BY <4>1 DEF g
        <5>2. g[n - 1] = f[m - 1] BY <4>1, <3>1, <3>3
        <5> QED BY <4>1, <5>1, <5>2, <2>3
      <4>2. CASE n # m
        <5>1. g[n] = f[n] BY <4>2, <3>3
        <5>2. n # 0 => g[n - 1] = f[n - 1] BY <4>2, <3>3
        <5>3. f[n] = IF n = 0 THEN seq ELSE Spread(f[n - 1], p.extra[n])
          BY <3>2, <4>2
        <5> QED BY <5>1, <5>2, <5>3
      <4> QED BY <4>1, <4>2
    <3>5. Upto(m, g) BY <3>4
    <3> QED BY <3>5, <2>1
  <2> QED BY <2>2, <2>3
<1>2. \E f : Upto(Len(p.extra), f) BY <1>1
<1>3. DEFINE added == CHOOSE f : Upto(Len(p.extra), f)
<1>4. Upto(Len(p.extra), added) BY <1>2
<1>5. WithExtra(p, seq) = added[Len(p.extra)] BY DEF WithExtra
<1> QED BY <1>4, <1>5

\* Whatever behaviours the application spreads over those of the construct, the
\* callback stays, and the refresh endpoint unless one of them is at its path.
LEMMA WithExtraBare ==
  ASSUME NEW p \in Prop, NEW seq \in Seq(Bare)
  PROVE  /\ WithExtra(p, seq) \in Seq(Bare)
         /\ Lands(seq, "callback") => Lands(WithExtra(p, seq), "callback")
         /\ Lands(seq, "refresh") /\ ~Overridden(p, "refresh")
              => Lands(WithExtra(p, seq), "refresh")
<1>1. /\ Len(p.extra) \in Nat /\ DOMAIN p.extra = 1 .. Len(p.extra)
      /\ \A n \in 1 .. Len(p.extra) : p.extra[n] \in Call
  <2>1. p.extra \in Seq(Call) BY DEF Prop
  <2> QED BY <2>1, LenProperties, ElementOfSeq
<1>2. PICK f : /\ f = [n \in 0 .. Len(p.extra) |->
                         IF n = 0 THEN seq ELSE Spread(f[n - 1], p.extra[n])]
               /\ WithExtra(p, seq) = f[Len(p.extra)]
  BY <1>1, Adding
<1> DEFINE Good(s) == /\ s \in Seq(Bare)
                      /\ Lands(seq, "callback") => Lands(s, "callback")
                      /\ Lands(seq, "refresh") /\ ~Overridden(p, "refresh")
                           => Lands(s, "refresh")
           T == {n \in 0 .. Len(p.extra) : ~Good(f[n])}
<1>3. f[0] = seq /\ \A n \in 1 .. Len(p.extra) : f[n] = Spread(f[n - 1], p.extra[n])
  <2>1. \A n \in 0 .. Len(p.extra) :
          f[n] = IF n = 0 THEN seq ELSE Spread(f[n - 1], p.extra[n])
    BY <1>2
  <2>2. 0 \in 0 .. Len(p.extra) BY <1>1
  <2>3. \A n \in 1 .. Len(p.extra) : n \in 0 .. Len(p.extra) /\ n # 0 BY <1>1
  <2> QED BY <2>1, <2>2, <2>3, Zenon
<1>4. T = {}
  <2> SUFFICES ASSUME T # {} PROVE FALSE OBVIOUS
  <2>1. PICK m \in T : \A k \in T : m <= k
    <3>1. T \in SUBSET Nat BY <1>1
    <3> QED BY <3>1, Least
  <2>2. m # 0 BY <1>3
  <2>3. m - 1 \in 0 .. Len(p.extra) /\ m - 1 \notin T /\ m \in 1 .. Len(p.extra)
    BY <1>1, <2>1, <2>2
  <2>4. Good(f[m - 1]) BY <2>3
  <2>5. ~Overridden(p, "refresh") => p.extra[m].pattern # {"refresh"}
    BY <1>1, <2>3 DEF Overridden
  <2>6. Good(Spread(f[m - 1], p.extra[m]))
    <3>1. p.extra[m] \in Call BY <1>1, <2>3
    <3>2. "refresh" # "callback" OBVIOUS
    <3> QED BY <2>4, <2>5, <3>1, <3>2, SpreadBare, LandsSpread
  <2> QED BY <1>3, <2>3, <2>6
<1>5. Good(f[Len(p.extra)]) BY <1>1, <1>4
<1> QED BY <1>2, <1>5

LEMMA WhereSeq ==
  ASSUME NEW S, NEW s \in Seq(S), NEW condition \in BOOLEAN
  PROVE  Where(condition, s) \in Seq(S)
  BY DEF Where

\* A behaviour a construct begins with: its one function is the userinfo one.
Given(p) == {b \in BehaviourType :
               /\ b.ask = NoAsk
               /\ b.fn # 0 => /\ b.fn = 2 /\ b.edge = "none" /\ p.userinfo
                              /\ p.variant \in {"azure", "cognito"}}

\* The endpoints of the construct are where browsers find them.
Endpoints(p, bs) ==
  /\ Ours(p) => Lands(bs, "callback")
  /\ (p.refresh /\ p.variant # "cognito" /\ ~Overridden(p, "refresh"))
       => Lands(bs, "refresh")

\* The callback is at its path, whether or not the application has one of its own.
LEMMA CallbackServed ==
  ASSUME NEW p \in Prop
  PROVE  /\ CallbackBehaviour(p) \in Bare
         /\ CallbackBehaviour(p).pattern = {"callback"}
         /\ CallbackBehaviour(p).edge = "callback"
<1>1. \A i \in DOMAIN p.extra : p.extra[i] \in Call
  <2>1. p.extra \in Seq(Call) BY DEF Prop
  <2> QED BY <2>1, LenProperties, ElementOfSeq
<1> DEFINE own == {i \in DOMAIN p.extra : p.extra[i].pattern = {"callback"}}
<1>2. CASE own = {}
  <2>1. CallbackBehaviour(p) = Serve("callback", "callback")
    BY <1>2 DEF CallbackBehaviour
  <2> QED BY <2>1, BareBehaviours DEF Serve, Behaviour, Uri, Endpoint
<1>3. CASE own # {}
  <2> DEFINE c == p.extra[CHOOSE i \in own : TRUE]
  <2>1. c \in Call /\ c.pattern = {"callback"} BY <1>1, <1>3
  <2>2. CallbackBehaviour(p) = [Plain(c) EXCEPT !.edge = "callback"]
    BY <1>3 DEF CallbackBehaviour
  <2> HIDE DEF c
  <2>3. Plain(c) \in Bare /\ Plain(c).pattern = {"callback"}
    BY <2>1, BareBehaviours
  <2> QED BY <2>2, <2>3 DEF Bare, BehaviourType, Endpoint
<1> QED BY <1>2, <1>3

LEMMA ServedAt ==
  ASSUME NEW uri \in Uri, NEW edge \in Endpoint
  PROVE  Serve(uri, edge) \in Bare /\ Serve(uri, edge).pattern = {uri}
         /\ Serve(uri, edge).edge = edge /\ Serve(uri, edge).fn = 0
  BY BareBehaviours DEF Serve, Behaviour

LEMMA LandsAlone ==
  ASSUME NEW b, NEW uri, b.pattern = {uri}, b.edge = uri, b.fn = 0
  PROVE  Lands(<<b>>, uri)
<1> DEFINE s == <<b>>
<1>1. 1 \in DOMAIN s /\ s[1] = b OBVIOUS
<1>2. \A j \in 1 .. 1 - 1 : FALSE OBVIOUS
<1> HIDE DEF s
<1> QED BY <1>1, <1>2 DEF Lands, s

LEMMA UserInfoGiven ==
  ASSUME NEW p \in Prop, p.variant \in {"azure", "cognito"}
  PROVE  UserInfoBehaviour(p) \in Seq(Given(p))
<1>1. CASE p.userinfo
  <2> DEFINE b == [Serve("userinfo", "none") EXCEPT !.fn = 2]
  <2>1. b \in BehaviourType /\ b.ask = NoAsk /\ b.fn = 2 /\ b.edge = "none"
    BY DEF BehaviourType, Serve, Behaviour, Fixed, Uri, Viewer, Event, Endpoint
  <2>2. UserInfoBehaviour(p) = <<b>> BY <1>1 DEF UserInfoBehaviour, Where
  <2>3. b \in Given(p) BY <1>1, <2>1 DEF Given
  <2> HIDE DEF b
  <2> QED BY <2>2, <2>3
<1>2. CASE ~p.userinfo
  BY <1>2 DEF UserInfoBehaviour, Where
<1> QED BY <1>1, <1>2 DEF Prop

\* The behaviours of each of the three constructs: only the userinfo endpoint
\* has a function, and the endpoints are where browsers find them.
LEMMA AzureStart ==
  ASSUME NEW p \in Prop, p.variant = "azure"
  PROVE  AzureBehaviours(p) \in Seq(Given(p)) /\ Endpoints(p, AzureBehaviours(p))
<1> DEFINE SignIn == {b \in Bare : b.pattern \in {{"callback"}, {"jwks"}, {"openid"}, {"switch"}}}
           cb == CallbackBehaviour(p)
           ids == IdentityBehaviours(p)
           a == Where(p.callback, <<cb>> \o ids)
           r == RefreshBehaviour(p)
           l == LogoutBehaviour(p)
<1>1. cb \in SignIn /\ cb.pattern = {"callback"} /\ cb.edge = "callback" /\ cb.fn = 0
  BY CallbackServed DEF Bare
<1>2. ids \in Seq(SignIn)
  <2>1. {"jwks", "openid", "switch"} \subseteq Uri /\ "callback" \in Endpoint
    BY DEF Uri, Endpoint
  <2>2. /\ Serve("jwks", "callback") \in SignIn
        /\ Serve("openid", "callback") \in SignIn
        /\ Serve("switch", "callback") \in SignIn
    BY <2>1, ServedAt
  <2>3. <<Serve("jwks", "callback"), Serve("openid", "callback"),
          Serve("switch", "callback")>> \in Seq(SignIn)
    BY <2>2
  <2>4. p.identity \in BOOLEAN BY DEF Prop
  <2> HIDE DEF SignIn
  <2> QED BY <2>3, <2>4, WhereSeq DEF IdentityBehaviours
<1>3. r \in Seq(Bare) /\ l \in Seq(Bare) /\ (p.refresh => Lands(r, "refresh"))
  <2>1. {"refresh", "logout"} \subseteq Uri /\ {"refresh", "logout"} \subseteq Endpoint
    BY DEF Uri, Endpoint
  <2>2. Serve("refresh", "refresh") \in Bare /\ Serve("logout", "logout") \in Bare
        /\ Lands(<<Serve("refresh", "refresh")>>, "refresh")
    BY <2>1, ServedAt, LandsAlone
  <2> QED BY <2>2 DEF RefreshBehaviour, LogoutBehaviour, Where
<1> HIDE DEF cb, ids, r, l
<1>4. <<cb>> \in Seq(SignIn) /\ <<cb>> \o ids \in Seq(SignIn) /\ Lands(<<cb>> \o ids, "callback")
  <2>1. <<cb>> \in Seq(SignIn) /\ Lands(<<cb>>, "callback") BY <1>1, LandsAlone
  <2> QED BY <2>1, <1>2, ConcatProperties, LandsBefore
<1>5. a \in Seq(SignIn) /\ (p.callback => Lands(a, "callback"))
  <2>1. p.callback \in BOOLEAN BY DEF Prop
  <2>2. p.callback => a = <<cb>> \o ids BY DEF Where
  <2> HIDE DEF SignIn
  <2>3. a \in Seq(SignIn) BY <1>4, <2>1, WhereSeq
  <2> QED BY <1>4, <2>2, <2>3
<1> HIDE DEF a
<1>6. a \in Seq(Bare) /\ \A i \in DOMAIN a : "refresh" \notin a[i].pattern
  <2>1. \A i \in DOMAIN a : a[i] \in SignIn BY <1>5, LenProperties, ElementOfSeq
  <2>2. SignIn \subseteq Bare OBVIOUS
  <2> QED BY <1>5, <2>1, <2>2, SeqMonotonic
<1> DEFINE s == a \o r \o l
<1>7. a \o r \in Seq(Bare) /\ s \in Seq(Bare)
  BY <1>3, <1>6, ConcatProperties
<1>8. p.callback => Lands(s, "callback")
  BY <1>3, <1>5, <1>6, <1>7, LandsBefore
<1>9. p.refresh => Lands(s, "refresh")
  <2>1. p.refresh => Lands(a \o r, "refresh") BY <1>3, <1>6, LandsAfter
  <2> QED BY <2>1, <1>3, <1>7, LandsBefore
<1>10. AzureBehaviours(p) = WithExtra(p, s) \o UserInfoBehaviour(p)
  BY DEF AzureBehaviours, a, r, l, cb, ids
<1> HIDE DEF s
<1> DEFINE w == WithExtra(p, s)
<1>11. /\ w \in Seq(Bare)
       /\ Lands(s, "callback") => Lands(w, "callback")
       /\ Lands(s, "refresh") /\ ~Overridden(p, "refresh") => Lands(w, "refresh")
  BY <1>7, WithExtraBare
<1> HIDE DEF w
<1>12. w \in Seq(Given(p)) /\ UserInfoBehaviour(p) \in Seq(Given(p))
  <2>1. Bare \subseteq Given(p) BY DEF Bare, Given
  <2>2. w \in Seq(Given(p)) BY <1>11, <2>1, SeqMonotonic
  <2> QED BY <2>2, UserInfoGiven
<1>13. AzureBehaviours(p) = w \o UserInfoBehaviour(p) BY <1>10 DEF w
<1>14. AzureBehaviours(p) \in Seq(Given(p)) BY <1>12, <1>13, ConcatProperties
<1>15. Endpoints(p, AzureBehaviours(p))
  <2>1. \A uri : Lands(w, uri) => Lands(AzureBehaviours(p), uri)
    BY <1>12, <1>13, LandsBefore
  <2>2. Ours(p) => Lands(w, "callback") BY <1>8, <1>11 DEF Ours
  <2>3. p.refresh /\ ~Overridden(p, "refresh") => Lands(w, "refresh")
    BY <1>9, <1>11
  <2> QED BY <2>1, <2>2, <2>3 DEF Endpoints
<1> QED BY <1>14, <1>15

LEMMA CognitoStart ==
  ASSUME NEW p \in Prop, p.variant = "cognito"
  PROVE  CognitoBehaviours(p) \in Seq(Given(p)) /\ Endpoints(p, CognitoBehaviours(p))
<1> DEFINE s == <<Serve("callback", "callback")>>
<1>1. s \in Seq(Given(p)) /\ Lands(s, "callback")
  <2>1. "callback" \in Uri /\ "callback" \in Endpoint BY DEF Uri, Endpoint
  <2>2. Serve("callback", "callback") \in Given(p)
    BY <2>1, ServedAt
       DEF Bare, Given
  <2> QED BY <2>1, <2>2, ServedAt, LandsAlone
<1>2. CognitoBehaviours(p) = s \o UserInfoBehaviour(p) BY DEF CognitoBehaviours
<1> HIDE DEF s
<1> QED
  BY <1>1, <1>2, UserInfoGiven, ConcatProperties, LandsBefore
     DEF Endpoints

LEMMA CustomUiStart ==
  ASSUME NEW p \in Prop, p.variant \in {"customui", "attach"}
  PROVE  CustomUiBehaviours(p) \in Seq(Given(p)) /\ Endpoints(p, CustomUiBehaviours(p))
<1> DEFINE h == [i \in DOMAIN p.host |-> Plain(p.host[i])]
           s == <<Serve("session", "session")>>
           r == RefreshBehaviour(p)
           l == LogoutBehaviour(p)
<1>1. p.host \in Seq(Call) BY DEF Prop
<1>2. h \in Seq(Given(p)) /\ \A i \in DOMAIN h : h[i].pattern = p.host[i].pattern
                          /\ DOMAIN h = DOMAIN p.host
  <2>1. Len(p.host) \in Nat /\ DOMAIN p.host = 1 .. Len(p.host)
        /\ \A i \in DOMAIN p.host : p.host[i] \in Call
    BY <1>1, LenProperties, ElementOfSeq
  <2>2. Bare \subseteq Given(p) BY DEF Bare, Given
  <2>3. h \in [1 .. Len(p.host) -> Given(p)] BY <2>1, <2>2, BareBehaviours
  <2>4. h \in Seq(Given(p)) BY <2>1, <2>3, SegmentIsSeq
  <2> QED BY <2>1, <2>4, BareBehaviours
<1>3. s \in Seq(Given(p)) /\ r \in Seq(Given(p)) /\ l \in Seq(Given(p))
      /\ (p.refresh => Lands(r, "refresh"))
      /\ (\A i \in DOMAIN s : "refresh" \notin s[i].pattern)
  <2>1. {"session", "refresh", "logout"} \subseteq Uri
        /\ {"session", "refresh", "logout"} \subseteq Endpoint
    BY DEF Uri, Endpoint
  <2>2. Bare \subseteq Given(p) BY DEF Bare, Given
  <2>3. Serve("session", "session") \in Given(p) /\ Serve("refresh", "refresh") \in Given(p)
        /\ Serve("logout", "logout") \in Given(p)
        /\ Lands(<<Serve("refresh", "refresh")>>, "refresh")
        /\ Serve("session", "session").pattern = {"session"}
    BY <2>1, <2>2, ServedAt, LandsAlone
  <2> QED BY <2>3 DEF RefreshBehaviour, LogoutBehaviour, Where
<1>4. ~Overridden(p, "refresh") => \A i \in DOMAIN h : "refresh" \notin h[i].pattern
  BY <1>2 DEF Overridden
<1>5. CustomUiBehaviours(p) = h \o s \o r \o l BY DEF CustomUiBehaviours
<1> HIDE DEF h, s, r, l
<1>6. h \o s \in Seq(Given(p)) /\ h \o s \o r \in Seq(Given(p))
      /\ h \o s \o r \o l \in Seq(Given(p))
  BY <1>2, <1>3, ConcatProperties
<1>7. (p.refresh /\ ~Overridden(p, "refresh")) => Lands(h \o s \o r \o l, "refresh")
  <2> SUFFICES ASSUME p.refresh, ~Overridden(p, "refresh")
               PROVE  Lands(h \o s \o r \o l, "refresh")
    OBVIOUS
  <2>1. \A i \in DOMAIN (h \o s) : "refresh" \notin (h \o s)[i].pattern
    BY <1>2, <1>3, <1>4, <1>6, ConcatProperties, LenProperties
  <2>2. Lands(h \o s \o r, "refresh") BY <2>1, <1>3, <1>6, LandsAfter
  <2> QED BY <2>2, <1>3, <1>6, LandsBefore
<1> QED BY <1>5, <1>6, <1>7 DEF Endpoints, Ours

-----------------------------------------------------------------------------
(* The functions of a construct                                            *)

\* what functions of a construct may hold
Sound(body) ==
  /\ body \in Function
  /\ body.module = "cognito-auth-check" => ~body.login /\ ~body.refresh

KeyType == [extensions : SUBSET Extension, given : BOOLEAN, roles : SUBSET Role,
          and : BOOLEAN]

\* Where the functions of a construct come from: in the order of their creation,
\* each made for the asks its key stands for.
Made(p, fs) ==
  \A i \in DOMAIN fs :
    /\ fs[i].after = i - 1 /\ Sound(fs[i].code)
    /\ fs[i].code.refresh => p.refresh /\ p.variant # "cognito"
    /\ fs[i].key # NoKey =>
         \A a \in Ask : Key(a) = fs[i].key =>
           fs[i].code = Compose(a.extensions, a.config, Composer(p))

\* What the composer makes is a function it can make, with the TLS check where
\* it was asked for.
LEMMA ComposedSound ==
  ASSUME NEW p \in Prop, NEW a \in Ask, NEW body,
         body = Compose(a.extensions, a.config, Composer(p))
  PROVE  /\ body \in Function /\ Sound(body)
         /\ body.refresh => p.refresh /\ p.variant # "cognito"
         /\ body.tls = ("REQUIRE_TLS_13" \in a.extensions)
<1>1. a.config.requiredRoles \in SUBSET Role /\ MatchMode(a.config) \in {"OR", "AND"}
  BY DEF Ask, ExtensionConfig, MatchMode
<1>2. AuthModule(a.extensions, Composer(p)) \in {"none", "auth-check", "cognito-auth-check"}
  BY DEF AuthModule
<1>3. /\ Composer(p).requireMfa \in BOOLEAN /\ Composer(p).enableHeaderInjection \in BOOLEAN
      /\ Composer(p).login \in BOOLEAN /\ Composer(p).enableRefresh = (p.variant # "cognito" /\ p.refresh)
      /\ p.refresh \in BOOLEAN
  BY DEF Composer, Prop
<1> DEFINE m == AuthModule(a.extensions, Composer(p))
           need == IF m # "none" THEN a.config.requiredRoles ELSE {}
           mode == IF m # "none" THEN MatchMode(a.config) ELSE "OR"
           mfa == m # "none" /\ Composer(p).requireMfa
           inject == m = "auth-check" /\ Composer(p).enableHeaderInjection
           refresh == m = "auth-check" /\ Composer(p).enableRefresh
           login == m = "auth-check" /\ Composer(p).login
           tls == "REQUIRE_TLS_13" \in a.extensions
           rewrite == "REWRITE_TO_INDEX_HTML" \in a.extensions
<1>4. body = [module |-> m, tls |-> tls, rewrite |-> rewrite, need |-> need, mode |-> mode,
              mfa |-> mfa, inject |-> inject, refresh |-> refresh, login |-> login]
  BY DEF Compose
<1>5. /\ m \in Module /\ need \in SUBSET Role /\ mode \in {"OR", "AND"} /\ mfa \in BOOLEAN
      /\ inject \in BOOLEAN /\ refresh \in BOOLEAN /\ login \in BOOLEAN /\ tls \in BOOLEAN
      /\ rewrite \in BOOLEAN
  BY <1>1, <1>2, <1>3 DEF Module
<1>6. m = "cognito-auth-check" => ~login /\ ~refresh OBVIOUS
<1>7. refresh => p.refresh /\ p.variant # "cognito" BY <1>3
<1> HIDE DEF m, need, mode, mfa, inject, refresh, login, rewrite
<1>8. body.module = m /\ body.refresh = refresh /\ body.login = login /\ body.tls = tls
  BY <1>4
<1>9. body \in Function BY <1>4, <1>5 DEF Function
<1> QED BY <1>6, <1>7, <1>8, <1>9 DEF Sound

\* Asks with one key compose to one function: the key forgets nothing.
LEMMA KeyDetermines ==
  ASSUME NEW a \in Ask, NEW b \in Ask, Key(a) = Key(b), NEW k
  PROVE  Compose(a.extensions, a.config, k) = Compose(b.extensions, b.config, k)
<1>1. a.extensions = b.extensions /\ a.config.requiredRoles = b.config.requiredRoles
      /\ (a.config.roleMatchMode = "AND") = (b.config.roleMatchMode = "AND")
  BY DEF Key
<1>2. MatchMode(a.config) = MatchMode(b.config)
  <2>1. a.config.roleMatchMode \in {"OR", "AND", "undefined"}
        /\ b.config.roleMatchMode \in {"OR", "AND", "undefined"}
    BY DEF Ask, ExtensionConfig
  <2> QED BY <1>1, <2>1 DEF MatchMode
<1> QED BY <1>1, <1>2 DEF Compose

LEMMA KeyTyped ==
  ASSUME NEW a \in Ask
  PROVE  Key(a) \in KeyType /\ Key(a) # NoKey /\ a # NoAsk
<1>1. a.extensions \in SUBSET Extension /\ a.extensions # {}
      /\ a.config.requiredRoles \in SUBSET Role /\ a.config.given \in BOOLEAN
  <2>1. a.extensions \in (SUBSET Extension) \ {{}} /\ a.config \in ExtensionConfig
    BY DEF Ask
  <2> QED BY <2>1 DEF ExtensionConfig
<1>2. NoKey.extensions = {} /\ NoAsk.extensions = {} BY DEF NoKey, Key, NoAsk
<1>3. Key(a).extensions = a.extensions BY DEF Key
<1>4. Key(a) \in KeyType BY <1>1 DEF Key, KeyType
<1> QED BY <1>1, <1>2, <1>3, <1>4

LEMMA IdTyped ==
  ASSUME NEW p \in Prop, NEW a \in Ask \cup {NoAsk}, NEW size \in Nat
  PROVE  Id(p.variant, a, size) \in
           [extensions : SUBSET Extension, and : BOOLEAN, size : Nat,
            stem : {Stem[r] : r \in Role} \cup {"none"}]
<1>1. a.extensions \subseteq Extension /\ (a.config.requiredRoles # {} => a.first \in Role)
  BY DEF Ask, NoAsk, ExtensionConfig
<1> QED BY <1>1 DEF Id

\* What building the function of an ask does: the functions there were stay in
\* their places, and the one it returns is of the key of the ask.
Builds(p, a, fs, r) ==
  /\ r.functions \in Seq(FunctionType) /\ Made(p, r.functions)
  /\ r.last = Len(r.functions) /\ Len(fs) <= Len(r.functions)
  /\ \A i \in DOMAIN fs : i \in DOMAIN r.functions /\ r.functions[i] = fs[i]
  /\ r.at \in 0 .. Len(r.functions)
  /\ a = NoAsk => r.at = 0 /\ r.functions = fs
  /\ a # NoAsk => r.at # 0 /\ r.functions[r.at].key = Key(a)

\* Build does just that, from the cache or by a new function.
LEMMA BuildMakes ==
  ASSUME NEW p \in Prop, NEW a \in Ask \cup {NoAsk},
         NEW fs \in Seq(FunctionType), Made(p, fs),
         NEW r, r = Build(p, a, fs, Len(fs))
  PROVE  Builds(p, a, fs, r)
<1> DEFINE cached == {i \in DOMAIN fs : fs[i].key = Key(a)}
           body == Compose(a.extensions, a.config, Composer(p))
           f == Func(body, Key(a), Id(p.variant, a, Len(fs)), Len(fs))
<1>0. Len(fs) \in Nat /\ DOMAIN fs = 1 .. Len(fs) BY LenProperties
<1>1. CASE a = NoAsk
  BY <1>0, <1>1 DEF Build, Builds
<1>2. CASE a # NoAsk /\ cached # {}
  <2> DEFINE i == CHOOSE i \in cached : TRUE
  <2>1. i \in cached BY <1>2
  <2>2. r.functions = fs /\ r.last = Len(fs) /\ r.at = i BY <1>2 DEF Build
  <2> HIDE DEF i
  <2> QED BY <1>0, <1>2, <2>1, <2>2 DEF Builds
<1>3. CASE a # NoAsk /\ cached = {}
  <2>1. r.functions = Append(fs, f) /\ r.last = Len(fs) + 1 /\ r.at = Len(fs) + 1
    BY <1>3 DEF Build, Latest
  <2>2. a \in Ask BY <1>3
  <2>3. body \in Function /\ Sound(body) /\ (body.refresh => p.refresh /\ p.variant # "cognito")
    BY <2>2, ComposedSound
  <2>4. \A b \in Ask : Key(b) = Key(a) => Compose(b.extensions, b.config, Composer(p)) = body
    BY <2>2, KeyDetermines
  <2> HIDE DEF body
  <2>5. f \in FunctionType /\ f.code = body /\ f.key = Key(a) /\ f.after = Len(fs)
    <3>1. Id(p.variant, a, Len(fs)) \in
           [extensions : SUBSET Extension, and : BOOLEAN, size : Nat,
            stem : {Stem[q] : q \in Role} \cup {"none"}]
      BY <1>0, IdTyped
    <3>2. Key(a) \in KeyType BY <2>2, KeyTyped
    <3> DEFINE id == Id(p.variant, a, Len(fs))
    <3> HIDE DEF id
    <3>3. f = [code |-> body, key |-> Key(a), id |-> id, after |-> Len(fs)]
      BY DEF Func, id
    <3> HIDE DEF f
    <3> QED BY <1>0, <2>3, <3>1, <3>2, <3>3 DEF FunctionType, KeyType, id
  <2> HIDE DEF f
  <2> DEFINE gs == Append(fs, f)
  <2>6. gs \in Seq(FunctionType) /\ Len(gs) = Len(fs) + 1 /\ gs[Len(fs) + 1] = f
        /\ \A i \in DOMAIN fs : gs[i] = fs[i]
    BY <1>0, <2>5, AppendProperties
  <2>7. DOMAIN gs = 1 .. Len(fs) + 1 BY <2>6, LenProperties
  <2> HIDE DEF gs
  <2>8. Made(p, gs)
    <3> SUFFICES ASSUME NEW i \in DOMAIN gs
                 PROVE /\ gs[i].after = i - 1 /\ Sound(gs[i].code)
                       /\ gs[i].code.refresh => p.refresh /\ p.variant # "cognito"
                       /\ gs[i].key # NoKey =>
                            \A b \in Ask : Key(b) = gs[i].key =>
                              gs[i].code = Compose(b.extensions, b.config, Composer(p))
      BY DEF Made
    <3>1. CASE i \in DOMAIN fs BY <3>1, <2>6 DEF Made
    <3>2. CASE i = Len(fs) + 1 BY <1>0, <3>2, <2>3, <2>4, <2>5, <2>6
    <3> QED BY <1>0, <2>7, <3>1, <3>2
  <2>9. r.functions = gs BY <2>1 DEF gs
  <2> QED BY <1>0, <1>3, <2>1, <2>5, <2>6, <2>7, <2>8, <2>9 DEF Builds
<1> QED BY <1>1, <1>2, <1>3

\* The functions a construct begins with.
LEMMA StartMade ==
  ASSUME NEW p \in Prop
  PROVE  /\ StartFunctions(p) \in Seq(FunctionType) /\ Made(p, StartFunctions(p))
         /\ p.variant = "azure" => 1 \in DOMAIN StartFunctions(p) /\ ~StartFunctions(p)[1].code.tls
         /\ (p.variant \in {"azure", "cognito"} /\ p.userinfo) =>
               2 \in DOMAIN StartFunctions(p) /\ ~StartFunctions(p)[2].code.tls
<1> DEFINE id == Id("none", NoAsk, 0)
           body == IF p.variant = "azure" THEN Standalone(p.inject, p.refresh)
                                          ELSE Alone("cognito-auth-check", FALSE, FALSE)
           first == Func(body, NoKey, id, 0)
           second == Func(UserInfo, NoKey, id, 1)
<1>1. id \in [extensions : SUBSET Extension, and : BOOLEAN, size : Nat,
              stem : {Stem[r] : r \in Role} \cup {"none"}]
  BY DEF Id, NoAsk
<1>2. /\ body \in Function /\ Sound(body) /\ ~body.tls
      /\ body.refresh => p.refresh /\ p.variant = "azure"
  BY DEF Standalone, Alone, Function, Module, Sound, Prop
<1>3. UserInfo \in Function /\ Sound(UserInfo) /\ ~UserInfo.tls /\ ~UserInfo.refresh
  BY DEF UserInfo, Alone, Function, Module, Sound
<1>4. NoKey \in KeyType BY DEF NoKey, Key, NoAsk, KeyType
<1> HIDE DEF id, body
<1>5. first \in FunctionType /\ first.code = body /\ first.key = NoKey /\ first.after = 0
  BY <1>1, <1>2, <1>4 DEF Func, FunctionType, KeyType
<1>6. second \in FunctionType /\ second.code = UserInfo /\ second.key = NoKey /\ second.after = 1
  BY <1>1, <1>3, <1>4 DEF Func, FunctionType, KeyType
<1>7. StartFunctions(p) =
        IF p.variant \in {"azure", "cognito"}
        THEN IF p.userinfo THEN <<first, second>> ELSE <<first>>
        ELSE <<>>
  BY DEF StartFunctions, first, second, id, body
<1> HIDE DEF first, second
<1>8. CASE p.variant \notin {"azure", "cognito"}
  <2>1. StartFunctions(p) = <<>> BY <1>7, <1>8
  <2> QED BY <1>8, <2>1 DEF Made
<1>9. CASE p.variant \in {"azure", "cognito"} /\ ~p.userinfo
  <2>1. StartFunctions(p) = <<first>> BY <1>7, <1>9
  <2> DEFINE s == <<first>>
  <2>2. s \in Seq(FunctionType) /\ DOMAIN s = {1} /\ s[1] = first BY <1>5
  <2> HIDE DEF s
  <2> QED BY <1>2, <1>5, <1>9, <2>1, <2>2 DEF Made, s
<1>10. CASE p.variant \in {"azure", "cognito"} /\ p.userinfo
  <2>1. StartFunctions(p) = <<first, second>> BY <1>7, <1>10
  <2> DEFINE s == <<first, second>>
  <2>2. s \in Seq(FunctionType) /\ DOMAIN s = {1, 2} /\ s[1] = first /\ s[2] = second
    BY <1>5, <1>6
  <2> HIDE DEF s
  <2> QED BY <1>2, <1>3, <1>5, <1>6, <1>10, <2>1, <2>2 DEF Made, s
<1> QED BY <1>8, <1>9, <1>10

-----------------------------------------------------------------------------
(* What a function answers                                                 *)

\* Where a function sends a viewer, whichever module it was composed of: to an
\* upgrade only with the TLS check and without a policy that shows the version,
\* and never from the callback or the refresh endpoint to itself.
LEMMA AnsweredBy ==
  ASSUME NEW b, b.fn # 0, Sound(functions[b.fn].code),
         NEW uri \in Uri, NEW strong \in BOOLEAN, NEW expired \in BOOLEAN,
         NEW body, body = functions[b.fn].code,
         NEW to, to = Answered(b, Request(uri, strong, expired))
  PROVE  /\ to \in DOMAIN Target \cup {"origin", "info"}
         /\ to \in DOMAIN Target => body.tls \/ body.module # "none"
         /\ to = "upgrade" => body.tls /\ ~(strong /\ b.orp = "tls")
         /\ to = "refresh" => body.refresh
         /\ uri = "callback" => to \in {"origin", "info", "upgrade"}
         /\ uri = "refresh" => to \in {"origin", "info", "upgrade", "authorize"}
<1> DEFINE v == [Request(uri, strong, expired) EXCEPT !.strong = @ /\ b.orp = "tls"]
           kind == Request(uri, strong, expired).uri
<1>1. /\ v.uri = kind
      /\ v.strong = (strong /\ b.orp = "tls")
      /\ v.host = Cookie(expired) /\ v.secure = Cookie(FALSE) /\ v.flow = "none"
      /\ v.spoofed = FALSE
  BY DEF Request
<1>2. /\ uri = "callback" => kind = "callback"
      /\ uri = "refresh" => kind = "oauth2"
  BY DEF Request
<1>3. to = IF body.module = "userinfo" THEN "info"
           ELSE IF Edge!Screen(body, v).to = "pending" THEN Edge!ToRenew(body, v).to
           ELSE Edge!Screen(body, v).to
  BY DEF Answered
<1>4. body.module \in {"none", "auth-check", "cognito-auth-check", "standalone", "userinfo"}
      /\ body.tls \in BOOLEAN /\ body.refresh \in BOOLEAN /\ body.login \in BOOLEAN
  BY DEF Sound, Function, Module
<1> HIDE DEF v, kind
<1>5. \A w : Edge!Reply(w).to = w
  BY DEF Edge!Reply, Edge!Pending
<1>6. Edge!Pending.to = "pending" BY DEF Edge!Pending
<1>7. \A h : Edge!Forward(body, v, h).to = "origin"
  BY <1>5 DEF Edge!Forward, Edge!Reply, Edge!Pending
<1>8. Edge!ToAuth(body, v).to = IF body.login THEN "login" ELSE "authorize"
  BY <1>5 DEF Edge!ToAuth, Edge!Reply, Edge!Pending
<1>9. Edge!ToRenew(body, v).to = IF body.refresh THEN "refresh" ELSE IF body.login THEN "login" ELSE "authorize"
  BY <1>5, <1>8 DEF Edge!ToRenew
<1>10. Target = [authorize |-> "callback", login |-> "login", refresh |-> "refresh",
           upgrade |-> "upgrade"] /\ DOMAIN Target = {"authorize", "login", "refresh", "upgrade"}
  BY DEF Target
<1>11. CASE body.module = "none"
  <2>1. Edge!Screen(body, v).to = IF body.tls /\ ~v.strong THEN "upgrade" ELSE "origin"
    BY <1>11, <1>5, <1>7 DEF Edge!Screen, Edge!PlainScreen
  <2> QED BY <2>1, <1>1, <1>3, <1>4, <1>10, <1>11
<1>12. CASE body.module = "auth-check"
  <2>1. Edge!Screen(body, v).to =
          IF body.tls /\ ~v.strong THEN "upgrade"
          ELSE IF v.uri \in {"callback", "oauth2"} THEN "origin"
          ELSE IF Edge!Presented(body, v) THEN "pending"
          ELSE IF body.login THEN "login" ELSE "authorize"
    BY <1>12, <1>5, <1>6, <1>7, <1>8
       DEF Edge!Screen, Edge!ComposedScreen, Edge!AzureBypass
  <2> QED BY <2>1, <1>1, <1>2, <1>3, <1>4, <1>9, <1>10, <1>12
<1>13. CASE body.module = "standalone"
  <2>1. Edge!Screen(body, v).to =
          IF v.uri \in {"callback", "oauth2"} THEN "origin"
          ELSE IF Edge!Presented(body, v) THEN "pending"
          ELSE IF body.login THEN "login" ELSE "authorize"
    BY <1>13, <1>5, <1>6, <1>7, <1>8
       DEF Edge!Screen, Edge!StandaloneScreen, Edge!AzureBypass
  <2> QED BY <2>1, <1>1, <1>2, <1>3, <1>4, <1>9, <1>10, <1>13
<1>14. CASE body.module = "cognito-auth-check"
  <2>1. Edge!Screen(body, v).to =
          IF body.tls /\ ~v.strong THEN "upgrade"
          ELSE IF v.uri = "callback" THEN "origin"
          ELSE IF Edge!Presented(body, v) THEN "pending"
          ELSE IF body.login THEN "login" ELSE "authorize"
    BY <1>14, <1>5, <1>6, <1>7, <1>8
       DEF Edge!Screen, Edge!CognitoScreen, Edge!CognitoBypass
  <2>2. ~body.login /\ ~body.refresh BY <1>14 DEF Sound
  <2> QED BY <2>1, <2>2, <1>1, <1>2, <1>3, <1>4, <1>9, <1>10, <1>14
<1>15. CASE body.module = "userinfo"
  BY <1>15, <1>3, <1>10
<1> QED BY <1>4, <1>11, <1>12, <1>13, <1>14, <1>15

-----------------------------------------------------------------------------
(* The invariant                                                           *)

\* Whose functions they are: a behaviour that asks for extensions runs the one
\* of its key, with nothing else at viewer request and with the policy that
\* shows TLS where the construct has one; the others run at most one of the
\* functions without a TLS check that a construct starts with.
Fits(p, fs, b) ==
  /\ b.fn <= Len(fs)
  /\ b.ask # NoAsk =>
       /\ b.fn # 0 /\ fs[b.fn].key = Key(b.ask) /\ b.edge = "none"
       /\ ("REQUIRE_TLS_13" \in b.ask.extensions
             /\ p.variant \in {"azure", "cognito"}) => b.orp = "tls"
  /\ (b.ask = NoAsk /\ b.fn # 0) => b.edge = "none" /\ ~fs[b.fn].code.tls

Fitted == \A b \in All : Fits(props, functions, b)

\* What the legacy addBehavior attaches is there.
Stocked ==
  (status # "new" /\ props.variant = "azure") =>
    1 \in DOMAIN functions /\ ~functions[1].code.tls

\* An application whose functions did not collide with the construct's is past
\* mergeFunctionAssociations.
Merged ==
  status \in {"open", "deploying", "rejected", "live"} =>
    \A b \in All : b.ask # NoAsk => "viewer-request" \notin b.events

Placed == status # "new" => Endpoints(props, behaviours)

\* A function is created after all those before it.
Chained ==
  /\ creating \cap created = {}
  /\ \A i \in creating \cup created : 1 .. i - 1 \subseteq created
  /\ status \in {"new", "open", "threw", "clash"} => creating \cup created = {}

\* The page answers with a redirect to one the browser has been to.
Sends(uri) ==
  LET to == Answered(Routed(uri), Request(uri, nav.strong, nav.cookie))
  IN to \in DOMAIN Target /\ Target[to] \in nav.seen

Browsed ==
  /\ nav.end # "none" =>
       /\ status = "live" /\ nav.at \in nav.seen
       /\ \A uri \in nav.seen \ {nav.at} : Sends(uri)
  /\ nav.end = "none" => nav.via = "none" /\ nav.seen = {}
  /\ (nav.end = "going" /\ nav.via # "none") => nav.at = Target[nav.via]
  /\ nav.end = "loop" =>
       Sends(nav.at) /\ nav.via # "none" /\ Target[nav.via] \in nav.seen
  /\ nav.via = "refresh" => props.refresh /\ props.variant # "cognito"

Inv == /\ TypeOK /\ Made(props, functions) /\ Fitted /\ Stocked /\ Merged
       /\ Placed /\ Chained /\ Browsed
       /\ RedirectsLand /\ StrongNotUpgraded

\* Functions added later leave what a behaviour has.
LEMMA FitsLater ==
  ASSUME NEW p, NEW fs \in Seq(FunctionType), NEW gs \in Seq(FunctionType),
         Len(fs) <= Len(gs), \A i \in DOMAIN fs : gs[i] = fs[i],
         NEW b \in BehaviourType, Fits(p, fs, b)
  PROVE  Fits(p, gs, b)
<1>1. b.fn \in Nat /\ b.fn <= Len(fs) /\ Len(fs) \in Nat /\ Len(gs) \in Nat
  BY LenProperties DEF BehaviourType, Fits
<1>2. b.fn <= Len(gs) BY <1>1
<1>3. b.fn # 0 => b.fn \in DOMAIN fs BY <1>1, LenProperties
<1>4. b.fn # 0 => gs[b.fn] = fs[b.fn] BY <1>3
<1> QED BY <1>2, <1>4 DEF Fits

\* A policy that shows the version of TLS goes with the check of it.
LEMMA PolicyShows ==
  ASSUME NEW p \in Prop, NEW a \in Ask \cup {NoAsk}, NEW own \in Own
  PROVE  /\ Policy(p, a, own) \in {"none", "own", "tls"}
         /\ DefaultPolicy(p, a, own) \in {"none", "own", "tls"}
         /\ ("REQUIRE_TLS_13" \in a.extensions /\ p.variant \in {"azure", "cognito"})
               => Policy(p, a, own) = "tls" /\ DefaultPolicy(p, a, own) = "tls"
  BY DEF Policy, DefaultPolicy, Own

\* A behaviour with the function built for what it asks.
LEMMA BehaviourFits ==
  ASSUME NEW p \in Prop, NEW a \in Ask \cup {NoAsk}, NEW own \in Own, NEW pattern \in SUBSET Uri,
         NEW fs \in Seq(FunctionType), NEW at \in 0 .. Len(fs),
         a = NoAsk => at = 0,
         a # NoAsk => at # 0 /\ fs[at].key = Key(a),
         NEW orp \in {"none", "own", "tls"},
         ("REQUIRE_TLS_13" \in a.extensions /\ p.variant \in {"azure", "cognito"}) => orp = "tls",
         NEW b, b = Behaviour(pattern, "none", at, own, orp, a)
  PROVE  b \in BehaviourType /\ Fits(p, fs, b)
<1>1. /\ b = [pattern |-> pattern, edge |-> "none", fn |-> at, viewer |-> own.viewer,
              events |-> own.events, orp |-> orp, ask |-> a]
  BY DEF Behaviour
<1>2. own.viewer \in Viewer /\ own.events \in SUBSET Event BY DEF Own
<1>3. at \in Nat /\ at <= Len(fs) BY LenProperties
<1>4. b \in BehaviourType BY <1>1, <1>2, <1>3 DEF BehaviourType
<1>5. b.fn = at /\ b.ask = a /\ b.edge = "none" /\ b.orp = orp BY <1>1
<1> QED BY <1>3, <1>4, <1>5 DEF Fits

LEMMA AllTyped ==
  ASSUME TypeOK
  PROVE  /\ \A b \in All : b \in BehaviourType
         /\ \A i \in DOMAIN behaviours : behaviours[i] \in BehaviourType
         /\ DOMAIN behaviours = 1 .. Len(behaviours) /\ Len(behaviours) \in Nat
         /\ DOMAIN functions = 1 .. Len(functions) /\ Len(functions) \in Nat
         /\ \A i \in DOMAIN functions : functions[i] \in FunctionType
  BY LenProperties, ElementOfSeq DEF TypeOK, All

\* CloudFront takes the first behaviour that matches, else the default.
LEMMA RoutedTo ==
  ASSUME TypeOK, NEW uri
  PROVE  /\ Routed(uri) \in All
         /\ Lands(behaviours, uri) => Routed(uri).fn = 0 /\ Routed(uri).edge = uri
<1>1. Matching(uri) \subseteq Nat /\ Matching(uri) \subseteq DOMAIN behaviours
  BY AllTyped DEF Matching
<1>2. CASE Matching(uri) = {}
  <2>1. Routed(uri) = default BY <1>2 DEF Routed
  <2>2. ~Lands(behaviours, uri) BY <1>2 DEF Matching, Lands
  <2> QED BY <2>1, <2>2 DEF All
<1>3. CASE Matching(uri) # {}
  <2> DEFINE First(i) == i \in Matching(uri) /\ \A j \in Matching(uri) : i <= j
             n == CHOOSE i \in Matching(uri) : \A j \in Matching(uri) : i <= j
  <2>1. \E i \in Matching(uri) : \A j \in Matching(uri) : i <= j
    BY <1>1, <1>3, Least
  <2>2. First(n) BY <2>1
  <2>3. Routed(uri) = behaviours[n] BY <1>3 DEF Routed
  <2> HIDE DEF n
  <2>4. ASSUME Lands(behaviours, uri)
        PROVE  Routed(uri).fn = 0 /\ Routed(uri).edge = uri
    <3>1. PICK i \in DOMAIN behaviours :
            /\ behaviours[i].pattern = {uri} /\ behaviours[i].edge = uri
            /\ behaviours[i].fn = 0
            /\ \A j \in 1 .. i - 1 : uri \notin behaviours[j].pattern
      BY <2>4 DEF Lands
    <3>2. i \in Matching(uri) BY <3>1 DEF Matching
    <3>3. n <= i /\ n \in 1 .. Len(behaviours) /\ uri \in behaviours[n].pattern /\ i \in Nat
      BY <2>2, <3>2, <1>1, AllTyped DEF Matching
    <3>4. n = i BY <3>1, <3>3
    <3> QED BY <2>3, <3>1, <3>4
  <2> QED BY <1>1, <2>2, <2>3, <2>4 DEF All
<1> QED BY <1>2, <1>3

\* What the methods of a construct leave alone.
LEMMA ConstructSame ==
  ASSUME Inv, UNCHANGED <<status, props, default, behaviours, functions>>
  PROVE  /\ Made(props, functions)' /\ Fitted' /\ Stocked' /\ Merged' /\ Placed'
         /\ All' = All
<1>1. All' = All BY DEF All
<1> QED BY <1>1 DEF Inv, Fitted, Stocked, Merged, Placed

\* Before the distribution is live no browser visits it.
LEMMA NotLive ==
  ASSUME Inv, status # "live"
  PROVE  nav.end = "none" /\ nav.via = "none" /\ nav.seen = {}
  BY DEF Inv, Browsed

LEMMA NavSame ==
  ASSUME Inv, status # "live", UNCHANGED nav
  PROVE  Browsed' /\ RedirectsLand' /\ StrongNotUpgraded'
<1>1. nav'.end = "none" /\ nav'.via = "none" /\ nav'.seen = {} BY NotLive
<1> QED BY <1>1 DEF Browsed, RedirectsLand, StrongNotUpgraded

\* Initially there is no construct.
LEMMA InitInv == Init /\ DistributionAssumption => Inv
<1> SUFFICES ASSUME Init, DistributionAssumption PROVE Inv OBVIOUS
<1>1. props \in Constructs
  <2>1. \E p \in Constructs : TRUE BY DEF DistributionAssumption
  <2> QED BY <2>1 DEF Init
<1>2. default \in BehaviourType /\ default.fn = 0 /\ default.ask = NoAsk /\ default.edge = "none"
      /\ default.events = {}
  BY DEF Init, Behaviour, Fixed, BehaviourType, Uri, Viewer, Event, Endpoint
<1>3. behaviours = <<>> /\ functions = <<>> /\ All = {default}
  BY DEF Init, All
<1>4. nav \in [at : Uri, strong : BOOLEAN, cookie : BOOLEAN, seen : SUBSET Uri,
             via : DOMAIN Target \cup {"none"},
             end : {"none", "going", "loop", "origin", "info"} \cup Endpoint]
      /\ nav.end = "none" /\ nav.via = "none" /\ nav.seen = {}
  BY DEF Init, NoNav, Uri
<1>5. TypeOK
  BY <1>1, <1>2, <1>3, <1>4 DEF Init, TypeOK, DistributionAssumption
<1>6. Made(props, functions) /\ Fitted /\ Stocked /\ Merged /\ Placed
  BY <1>2, <1>3 DEF Init, Made, Fitted, Fits, Stocked, Merged, Placed
<1>7. Chained /\ Browsed /\ RedirectsLand /\ StrongNotUpgraded
  BY <1>4 DEF Init, Chained, Browsed, RedirectsLand, StrongNotUpgraded
<1> QED BY <1>5, <1>6, <1>7 DEF Inv

\* Creating a construct.
LEMMA ConstructInv ==
  ASSUME Inv, DistributionAssumption, NEW p \in Constructs, Construct(p)
  PROVE  Inv'
<1> DEFINE start == StartFunctions(p)
           b == Build(p, p.default.ask, start, Len(start))
           bs == CASE p.variant = "azure"   -> AzureBehaviours(p)
                   [] p.variant = "cognito" -> CognitoBehaviours(p)
                   [] OTHER                 -> CustomUiBehaviours(p)
           own == p.default.own
           ask == p.default.ask
           orp == DefaultPolicy(p, ask, own)
           d == Behaviour(Uri, "none", b.at, own, orp, ask)
<1>1. p \in Prop BY DEF DistributionAssumption
<1>2. ask \in Ask \cup {NoAsk} /\ own \in Own BY <1>1 DEF Prop, Call
<1>3. /\ start \in Seq(FunctionType) /\ Made(p, start)
      /\ p.variant = "azure" => 1 \in DOMAIN start /\ ~start[1].code.tls
      /\ (p.variant \in {"azure", "cognito"} /\ p.userinfo) =>
            2 \in DOMAIN start /\ ~start[2].code.tls
  BY <1>1, StartMade
<1>4. /\ b.functions \in Seq(FunctionType) /\ Made(p, b.functions)
      /\ b.last = Len(b.functions)
      /\ Len(start) <= Len(b.functions)
      /\ \A i \in DOMAIN start : i \in DOMAIN b.functions /\ b.functions[i] = start[i]
      /\ b.at \in 0 .. Len(b.functions)
      /\ ask = NoAsk => b.at = 0 /\ b.functions = start
      /\ ask # NoAsk => b.at # 0 /\ b.functions[b.at].key = Key(ask)
  <2>1. b = Build(p, ask, start, Len(start)) OBVIOUS
  <2> HIDE DEF b, ask, start
  <2>2. Builds(p, ask, start, b) BY <1>1, <1>2, <1>3, <2>1, BuildMakes
  <2> QED BY <2>2 DEF Builds
<1>5. orp \in {"none", "own", "tls"}
      /\ (("REQUIRE_TLS_13" \in ask.extensions /\ p.variant \in {"azure", "cognito"})
            => orp = "tls")
  BY <1>1, <1>2, PolicyShows
<1>6. bs \in Seq(Given(p)) /\ Endpoints(p, bs)
  BY <1>1, AzureStart, CognitoStart, CustomUiStart DEF Prop, Variant
<1>7. /\ status = "new" /\ props' = p /\ functions' = b.functions /\ last' = b.last
      /\ default' = d /\ behaviours' = bs
      /\ status' \in {"threw", "open"}
      /\ status' = "open" => Merges(b.at, own)
      /\ UNCHANGED <<mtls, calls, creating, created, nav>>
  BY DEF Construct, stack
<1> HIDE DEF b, bs, start, own, ask, orp
<1>8. d \in BehaviourType /\ Fits(p, b.functions, d)
  BY <1>1, <1>2, <1>4, <1>5, BehaviourFits
<1>9. \A i \in DOMAIN bs : /\ bs[i] \in BehaviourType /\ bs[i].ask = NoAsk
                           /\ Fits(p, b.functions, bs[i])
  <2> SUFFICES ASSUME NEW i \in DOMAIN bs
               PROVE  /\ bs[i] \in BehaviourType /\ bs[i].ask = NoAsk
                      /\ Fits(p, b.functions, bs[i])
    OBVIOUS
  <2>1. bs[i] \in Given(p) BY <1>6, LenProperties, ElementOfSeq
  <2>2. Len(b.functions) \in Nat /\ DOMAIN b.functions = 1 .. Len(b.functions)
    BY <1>4, LenProperties
  <2>3. bs[i].fn # 0 => /\ bs[i].fn = 2 /\ 2 \in DOMAIN start /\ ~start[2].code.tls
                        /\ bs[i].edge = "none"
    BY <2>1, <1>3 DEF Given
  <2>4. bs[i].fn # 0 => /\ bs[i].fn \in DOMAIN b.functions
                        /\ ~b.functions[bs[i].fn].code.tls
    BY <2>3, <1>4
  <2> QED BY <2>1, <2>2, <2>3, <2>4 DEF Given, Fits
<1>10. All' = {d} \cup {bs[i] : i \in DOMAIN bs} BY <1>7 DEF All
<1>11. \A e \in All' : e \in BehaviourType /\ Fits(p, b.functions, e) /\ e.fn <= Len(b.functions)
  BY <1>8, <1>9, <1>10 DEF Fits
<1>12. creating = {} /\ created = {} BY <1>7 DEF Inv, Chained
<1>13. TypeOK'
  <2>1. behaviours' \in Seq(BehaviourType)
    <3>1. Given(p) \subseteq BehaviourType BY DEF Given
    <3> QED BY <3>1, <1>6, <1>7, SeqMonotonic
  <2>2. \A i \in DOMAIN functions' : functions'[i].after \in 0 .. i - 1
    <3>1. DOMAIN b.functions = 1 .. Len(b.functions) /\ Len(b.functions) \in Nat
      BY <1>4, LenProperties
    <3>2. \A i \in DOMAIN b.functions : b.functions[i].after = i - 1
      BY <1>4 DEF Made
    <3> QED BY <3>1, <3>2, <1>7
  <2> QED BY <1>4, <1>7, <1>8, <1>11, <1>12, <2>1, <2>2 DEF Inv, TypeOK
<1>14. Made(props, functions)' /\ Fitted' /\ Placed'
  BY <1>4, <1>6, <1>7, <1>11 DEF Fitted, Placed
<1>15. Stocked' BY <1>3, <1>4, <1>7 DEF Stocked
<1>16. Merged'
  <2>1. d.ask = ask /\ d.events = own.events BY DEF Behaviour
  <2>2. status' = "open" => \/ ask = NoAsk \/ "viewer-request" \notin own.events
    BY <1>4, <1>7 DEF Merges
  <2> QED BY <1>7, <1>9, <1>10, <2>1, <2>2 DEF Merged
<1>17. Chained' BY <1>7, <1>12 DEF Chained
<1>18. Browsed' /\ RedirectsLand' /\ StrongNotUpgraded'
  BY <1>7, NavSame
<1> QED BY <1>13, <1>14, <1>15, <1>16, <1>17, <1>18 DEF Inv

\* A behaviour appended to those there are, with functions that begin with
\* those there were.
LEMMA AppendInv ==
  ASSUME Inv, status = "open", status' \in {"open", "threw", "clash"},
         NEW fs \in Seq(FunctionType), Made(props, fs),
         Len(functions) <= Len(fs),
         \A i \in DOMAIN functions : i \in DOMAIN fs /\ fs[i] = functions[i],
         functions' = fs, last' = Len(fs), calls' \in 0 .. MaxCalls,
         \/ UNCHANGED behaviours
         \/ \E b \in BehaviourType :
              /\ behaviours' = Append(behaviours, b) /\ Fits(props, fs, b)
              /\ b.ask # NoAsk => "viewer-request" \notin b.events,
         UNCHANGED <<props, default, mtls, creating, created, nav>>
  PROVE  Inv'
<1>1. TypeOK BY DEF Inv
<1>2. Len(functions) \in Nat /\ Len(fs) \in Nat /\ DOMAIN fs = 1 .. Len(fs)
  BY <1>1, LenProperties DEF TypeOK
<1>3. \A b \in All : b \in BehaviourType /\ Fits(props, fs, b)
  <2>1. \A b \in All : b \in BehaviourType /\ Fits(props, functions, b)
    BY <1>1, AllTyped DEF Inv, Fitted
  <2> QED BY <2>1, <1>1, FitsLater DEF TypeOK
<1>4. \A b \in All : b.ask # NoAsk => "viewer-request" \notin b.events
  BY DEF Inv, Merged
<1>5. /\ behaviours' \in Seq(BehaviourType)
      /\ \A b \in All' : /\ b \in BehaviourType /\ Fits(props, fs, b)
                         /\ b.ask # NoAsk => "viewer-request" \notin b.events
      /\ Endpoints(props, behaviours) => Endpoints(props, behaviours')
  <2>1. CASE UNCHANGED behaviours
    <3>1. All' = All BY <2>1 DEF All
    <3> QED BY <2>1, <3>1, <1>1, <1>3, <1>4 DEF TypeOK
  <2>2. ASSUME NEW b \in BehaviourType, behaviours' = Append(behaviours, b), Fits(props, fs, b),
               b.ask # NoAsk => "viewer-request" \notin b.events
        PROVE  /\ behaviours' \in Seq(BehaviourType)
               /\ \A e \in All' : /\ e \in BehaviourType /\ Fits(props, fs, e)
                                  /\ e.ask # NoAsk => "viewer-request" \notin e.events
               /\ Endpoints(props, behaviours) => Endpoints(props, behaviours')
    <3>1. behaviours \in Seq(BehaviourType) BY <1>1 DEF TypeOK
    <3>2. behaviours' = Append(behaviours, b) BY <2>2
    <3>3. /\ behaviours' \in Seq(BehaviourType)
          /\ Items(behaviours') = Items(behaviours) \cup {b}
      BY <3>1, <3>2, ItemsOfAppend
    <3>4. All' = All \cup {b} BY <3>3 DEF All, Items
    <3>5. \A uri : Lands(behaviours, uri) => Lands(behaviours', uri)
      BY <3>1, <2>2, LandsAppend
    <3>6. Endpoints(props, behaviours) => Endpoints(props, behaviours')
      BY <3>5 DEF Endpoints
    <3> QED BY <3>3, <3>4, <3>6, <2>2, <1>3, <1>4
  <2> QED BY <2>1, <2>2
<1>6. creating = {} /\ created = {} BY DEF Inv, Chained
<1>7. TypeOK'
  <2>1. \A i \in DOMAIN fs : fs[i].after \in 0 .. i - 1 BY <1>2 DEF Made
  <2>2. \A b \in All' : b.fn <= Len(fs) BY <1>5 DEF Fits
  <2>3. default \in BehaviourType BY <1>1 DEF TypeOK
  <2> QED BY <1>1, <1>5, <1>6, <2>1, <2>2, <2>3 DEF TypeOK
<1>8. Made(props, functions)' /\ Fitted' /\ Merged' BY <1>5 DEF Fitted, Merged
<1>9. Placed' BY <1>5 DEF Inv, Placed
<1>10. Stocked' BY DEF Inv, Stocked
<1>11. Chained' BY <1>6 DEF Chained
<1>12. Browsed' /\ RedirectsLand' /\ StrongNotUpgraded' BY NavSame
<1> QED BY <1>7, <1>8, <1>9, <1>10, <1>11, <1>12 DEF Inv

LEMMA CallsBound ==
  ASSUME Inv, DistributionAssumption, Called
  PROVE  status = "open" /\ calls' \in 0 .. MaxCalls
  BY DEF Inv, TypeOK, DistributionAssumption, Called

\* The methods that add a behaviour, and the getter that adds a function.
LEMMA AddInv ==
  ASSUME Inv, DistributionAssumption, NEW c \in Call, AddBehavior(c)
  PROVE  Inv'
<1> DEFINE b == Build(props, c.ask, functions, last)
           orp == Policy(props, c.ask, c.own)
           e == Behaviour(c.pattern, "none", b.at, c.own, orp, c.ask)
<1>1. /\ props \in Prop /\ functions \in Seq(FunctionType) /\ last = Len(functions)
      /\ Made(props, functions)
  BY DEF Inv, TypeOK, DistributionAssumption
<1>2. c.ask \in Ask \cup {NoAsk} /\ c.own \in Own /\ c.pattern \in SUBSET Uri
  BY DEF Call
<1>3. /\ b.functions \in Seq(FunctionType) /\ Made(props, b.functions)
      /\ b.last = Len(b.functions)
      /\ Len(functions) <= Len(b.functions)
      /\ \A i \in DOMAIN functions :
           i \in DOMAIN b.functions /\ b.functions[i] = functions[i]
      /\ b.at \in 0 .. Len(b.functions)
      /\ c.ask = NoAsk => b.at = 0 /\ b.functions = functions
      /\ c.ask # NoAsk => b.at # 0 /\ b.functions[b.at].key = Key(c.ask)
  <2>1. b = Build(props, c.ask, functions, Len(functions)) BY <1>1
  <2> HIDE DEF b
  <2>2. Builds(props, c.ask, functions, b) BY <1>1, <1>2, <2>1, BuildMakes
  <2> QED BY <2>2 DEF Builds
<1>4. orp \in {"none", "own", "tls"}
      /\ (("REQUIRE_TLS_13" \in c.ask.extensions
             /\ props.variant \in {"azure", "cognito"}) => orp = "tls")
  BY <1>1, <1>2, PolicyShows
<1>5. /\ status = "open" /\ calls' \in 0 .. MaxCalls
  BY CallsBound
     DEF AddBehavior
<1>6. /\ functions' = b.functions /\ last' = b.last
      /\ status' \in {"open", "threw", "clash"}
      /\ \/ UNCHANGED behaviours
         \/ Merges(b.at, c.own) /\ behaviours' = Append(behaviours, e)
      /\ UNCHANGED <<props, default, mtls, creating, created, nav>>
  BY DEF AddBehavior, Unmoved, stack
<1> HIDE DEF b, orp
<1>7. e \in BehaviourType /\ Fits(props, b.functions, e)
  BY <1>1, <1>2, <1>3, <1>4, BehaviourFits
<1>8. e.ask = c.ask /\ e.events = c.own.events BY DEF Behaviour
<1>9. Merges(b.at, c.own) => (e.ask # NoAsk => "viewer-request" \notin e.events)
  BY <1>3, <1>8 DEF Merges
<1> QED BY <1>3, <1>5, <1>6, <1>7, <1>9, AppendInv

LEMMA ProtectInv ==
  ASSUME Inv, DistributionAssumption, NEW c \in Call, Protect(c)
  PROVE  Inv'
<1> DEFINE a == [c.ask EXCEPT !.extensions = @ \cup {"REQUIRE_AUTH"}]
           d == [c EXCEPT !.ask.extensions = @ \cup {"REQUIRE_AUTH"}]
<1>1. a \in Ask
  <2>1. c.ask \in Ask \cup {NoAsk} BY DEF Call
  <2>2. CASE c.ask \in Ask
    <3>1. c.ask.extensions \in SUBSET Extension /\ "REQUIRE_AUTH" \in Extension
      BY <2>2 DEF Ask, Extension
    <3>2. c.ask.extensions \cup {"REQUIRE_AUTH"} \in (SUBSET Extension) \ {{}}
      BY <3>1
    <3> QED BY <2>2, <3>2 DEF Ask
  <2>3. CASE c.ask = NoAsk
    <3>1. c.ask.extensions \cup {"REQUIRE_AUTH"} = {"REQUIRE_AUTH"}
      BY <2>3 DEF NoAsk
    <3>2. a = [NoAsk EXCEPT !.extensions = {"REQUIRE_AUTH"}] BY <2>3, <3>1
    <3> HIDE DEF a
    <3> QED BY <3>2 DEF Ask, NoAsk, Extension, ExtensionConfig
  <2> QED BY <2>1, <2>2, <2>3
<1>2. d = [c EXCEPT !.ask = a] /\ d \in Call BY <1>1 DEF Call
<1>3. AddBehavior(d) BY DEF Protect
<1> QED BY <1>2, <1>3, AddInv

LEMMA LegacyInv ==
  ASSUME Inv, DistributionAssumption, NEW c \in Call, NEW applyAuth \in BOOLEAN,
         AddBehaviorLegacy(c, applyAuth)
  PROVE  Inv'
<1> DEFINE e == [Plain(c) EXCEPT !.fn = IF applyAuth THEN 1 ELSE 0]
<1>1. status = "open" /\ calls' \in 0 .. MaxCalls
  BY CallsBound DEF AddBehaviorLegacy
<1>2. /\ props.variant = "azure" /\ behaviours' = Append(behaviours, e)
      /\ UNCHANGED <<status, functions, last, props, default, mtls, creating, created, nav>>
  BY DEF AddBehaviorLegacy, Unmoved, stack
<1>3. /\ 1 \in DOMAIN functions /\ ~functions[1].code.tls
  BY <1>1, <1>2 DEF Inv, Stocked
<1>4. functions \in Seq(FunctionType) /\ last = Len(functions) /\ Len(functions) \in Nat
      /\ DOMAIN functions = 1 .. Len(functions)
  BY LenProperties DEF Inv, TypeOK
<1>5. e \in BehaviourType /\ e.ask = NoAsk /\ e.edge = "none" /\ e.fn \in {0, 1}
  BY BareBehaviours DEF Bare, BehaviourType
<1>6. Fits(props, functions, e) BY <1>3, <1>4, <1>5 DEF Fits
<1>7. functions' = functions /\ last' = Len(functions) /\ status' = "open"
  BY <1>1, <1>2, <1>4
<1>8. Made(props, functions) /\ Len(functions) <= Len(functions) BY <1>4 DEF Inv
<1>9. \E b \in BehaviourType :
        /\ behaviours' = Append(behaviours, b) /\ Fits(props, functions, b)
        /\ b.ask # NoAsk => "viewer-request" \notin b.events
  BY <1>2, <1>5, <1>6
<1> HIDE DEF e
<1> QED BY <1>1, <1>2, <1>4, <1>7, <1>8, <1>9, AppendInv

LEMMA GetterInv ==
  ASSUME Inv, DistributionAssumption, AuthFunction
  PROVE  Inv'
<1> DEFINE a == [NoAsk EXCEPT !.extensions = {"REQUIRE_AUTH"}]
           b == Build(props, a, functions, last)
<1>1. /\ props \in Prop /\ functions \in Seq(FunctionType) /\ last = Len(functions)
      /\ Made(props, functions)
  BY DEF Inv, TypeOK, DistributionAssumption
<1>2. a \in Ask \cup {NoAsk} BY DEF Ask, NoAsk, Extension, ExtensionConfig
<1>3. /\ functions' = b.functions /\ last' = b.last
      /\ UNCHANGED <<status, behaviours, props, default, mtls, creating, created, nav>>
  BY DEF AuthFunction, Unmoved, stack
<1>4. status = "open" /\ calls' \in 0 .. MaxCalls BY CallsBound DEF AuthFunction
<1>5. /\ b.functions \in Seq(FunctionType) /\ Made(props, b.functions)
      /\ b.last = Len(b.functions)
      /\ Len(functions) <= Len(b.functions)
      /\ \A i \in DOMAIN functions :
           i \in DOMAIN b.functions /\ b.functions[i] = functions[i]
  <2>1. b = Build(props, a, functions, Len(functions)) BY <1>1
  <2> HIDE DEF a, b
  <2>2. Builds(props, a, functions, b) BY <1>1, <1>2, <2>1, BuildMakes
  <2> QED BY <2>2 DEF Builds
<1> HIDE DEF b
<1> QED BY <1>3, <1>4, <1>5, AppendInv

\* Attaching viewer mTLS, and the deployment but for its publication.
LEMMA AttachInv ==
  ASSUME Inv, DistributionAssumption, NEW signal \in BOOLEAN, AttachMtls(signal)
  PROVE  Inv'
<1>1. status = "open" /\ calls' \in 0 .. MaxCalls
  BY CallsBound DEF AttachMtls
<1>2. /\ status' \in {"open", "threw"} /\ mtls' \in {"off", "on", "signal"}
      /\ UNCHANGED <<props, default, behaviours, functions, last, creating, created, nav>>
  BY <1>1 DEF AttachMtls, stack, Inv, TypeOK
<1>3. All' = All BY <1>2 DEF All
<1>4. TypeOK' BY <1>1, <1>2, <1>3 DEF Inv, TypeOK
<1>5. Made(props, functions)' /\ Fitted' /\ Stocked' /\ Merged' /\ Placed'
  BY <1>1, <1>2, <1>3 DEF Inv, Fitted, Stocked, Merged, Placed
<1>6. Chained' BY <1>1, <1>2 DEF Inv, Chained
<1>7. Browsed' /\ RedirectsLand' /\ StrongNotUpgraded' BY <1>1, <1>2, NavSame
<1> QED BY <1>4, <1>5, <1>6, <1>7 DEF Inv

LEMMA SynthesiseInv == Inv /\ Synthesise => Inv'
<1> SUFFICES ASSUME Inv, Synthesise PROVE Inv' OBVIOUS
<1>1. /\ status = "open" /\ status' = "deploying"
      /\ UNCHANGED <<props, default, behaviours, functions, last, mtls, calls, creating,
                     created, nav>>
  BY DEF Synthesise, stack
<1>2. All' = All BY <1>1 DEF All
<1>3. TypeOK' BY <1>1, <1>2 DEF Inv, TypeOK
<1>4. Made(props, functions)' /\ Fitted' /\ Stocked' /\ Merged' /\ Placed'
  BY <1>1, <1>2 DEF Inv, Fitted, Stocked, Merged, Placed
<1>5. Chained' BY <1>1 DEF Inv, Chained
<1>6. Browsed' /\ RedirectsLand' /\ StrongNotUpgraded' BY <1>1, NavSame
<1> QED BY <1>3, <1>4, <1>5, <1>6 DEF Inv

LEMMA PublishInv == Inv /\ Publish => Inv'
<1> SUFFICES ASSUME Inv, Publish PROVE Inv' OBVIOUS
<1>1. /\ status = "deploying" /\ status' \in {"rejected", "live"}
      /\ UNCHANGED <<props, default, behaviours, functions, last, mtls, calls, creating,
                     created, nav>>
  BY DEF Publish, stack
<1>2. All' = All BY <1>1 DEF All
<1>3. TypeOK' BY <1>1, <1>2 DEF Inv, TypeOK
<1>4. Made(props, functions)' /\ Fitted' /\ Stocked' /\ Merged' /\ Placed'
  BY <1>1, <1>2 DEF Inv, Fitted, Stocked, Merged, Placed
<1>5. Chained' BY <1>1 DEF Inv, Chained
<1>6. Browsed' /\ RedirectsLand' /\ StrongNotUpgraded' BY <1>1, NavSame
<1> QED BY <1>3, <1>4, <1>5, <1>6 DEF Inv

\* What follows of an unchanged construct, whatever CloudFormation is at.
LEMMA StackStep ==
  ASSUME Inv, UNCHANGED construct, UNCHANGED nav,
         (creating \cup created)' \subseteq DOMAIN functions, Chained'
  PROVE  Inv'
<1>1. UNCHANGED <<status, props, default, behaviours, functions, last, mtls, calls>>
  BY DEF construct
<1>2. All' = All BY <1>1 DEF All
<1>3. TypeOK' BY <1>1, <1>2 DEF Inv, TypeOK
<1>4. Made(props, functions)' /\ Fitted' /\ Stocked' /\ Merged' /\ Placed'
  BY <1>1, ConstructSame
<1>5. Matching(nav.at)' = Matching(nav.at) /\ \A uri : Routed(uri)' = Routed(uri)
  BY <1>1 DEF Matching, Routed
<1>6. \A uri : Sends(uri)' = Sends(uri)
  BY <1>1, <1>5 DEF Sends, Answered
<1>7. Browsed' BY <1>1, <1>6 DEF Inv, Browsed
<1>8. RedirectsLand' /\ StrongNotUpgraded'
  BY <1>1 DEF Inv, RedirectsLand, StrongNotUpgraded
<1> QED BY <1>3, <1>4, <1>7, <1>8 DEF Inv

\* CloudFormation creates a function once the one before it is there.
LEMMA CreateInv ==
  ASSUME Inv, NEW i \in DOMAIN functions, Create(i)
  PROVE  Inv'
<1>1. /\ status = "deploying" /\ i \notin creating \cup created
      /\ functions[i].after \in created \cup {0}
      /\ creating' = creating \cup {i} /\ UNCHANGED created
      /\ UNCHANGED construct /\ UNCHANGED nav
  BY DEF Create
<1>2. functions[i].after = i - 1 BY DEF Inv, Made
<1>3. i \in Nat /\ 1 <= i BY AllTyped DEF Inv
<1>4. 1 .. i - 1 \subseteq created
  <2>1. CASE i = 1 BY <2>1
  <2>2. CASE i # 1
    <3>1. i - 1 \in created BY <1>1, <1>2, <1>3, <2>2
    <3>2. 1 .. (i - 1) - 1 \subseteq created BY <3>1 DEF Inv, Chained
    <3> QED BY <3>1, <3>2, <1>3
  <2> QED BY <2>1, <2>2
<1>5. Chained'
  <2>1. status' = "deploying" BY <1>1 DEF construct
  <2> QED BY <1>1, <1>4, <2>1 DEF Inv, Chained
<1>6. (creating \cup created)' \subseteq DOMAIN functions
  BY <1>1 DEF Inv, TypeOK
<1> QED BY <1>1, <1>5, <1>6, StackStep

LEMMA CompleteInv ==
  ASSUME Inv, NEW i \in DOMAIN functions, Complete(i)
  PROVE  Inv'
<1>1. /\ i \in creating /\ creating' = creating \ {i} /\ created' = created \cup {i}
      /\ UNCHANGED construct /\ UNCHANGED nav
  BY DEF Complete
<1>2. UNCHANGED status BY <1>1 DEF construct
<1>3. Chained' BY <1>1, <1>2 DEF Inv, Chained
<1>4. (creating \cup created)' \subseteq DOMAIN functions
  BY <1>1 DEF Inv, TypeOK
<1> QED BY <1>1, <1>3, <1>4, StackStep

\* A browser moves over an unchanged distribution.
LEMMA BrowserStep ==
  ASSUME Inv, UNCHANGED <<construct, stack>>,
         nav' \in [at : Uri, strong : BOOLEAN, cookie : BOOLEAN, seen : SUBSET Uri,
                   via : DOMAIN Target \cup {"none"},
                   end : {"none", "going", "loop", "origin", "info"} \cup Endpoint],
         Browsed', RedirectsLand', StrongNotUpgraded'
  PROVE  Inv'
<1>1. UNCHANGED <<status, props, default, behaviours, functions, last, mtls, calls,
                  creating, created>>
  BY DEF construct, stack
<1>2. All' = All BY <1>1 DEF All
<1>3. TypeOK' BY <1>1, <1>2 DEF Inv, TypeOK
<1>4. Made(props, functions)' /\ Fitted' /\ Stocked' /\ Merged' /\ Placed'
  BY <1>1, ConstructSame
<1>5. Chained' BY <1>1 DEF Inv, Chained
<1> QED BY <1>3, <1>4, <1>5 DEF Inv

LEMMA VisitInv ==
  ASSUME Inv, NEW uri \in Uri, NEW strong \in BOOLEAN, NEW expired \in BOOLEAN,
         Visit(uri, strong, expired)
  PROVE  Inv'
<1>1. /\ status = "live" /\ UNCHANGED <<construct, stack>> /\ UNCHANGED status
      /\ nav' = [at |-> uri, strong |-> strong, cookie |-> expired, seen |-> {uri},
                 via |-> "none", end |-> "going"]
  BY DEF Visit, NoNav, construct
<1>2. nav' \in [at : Uri, strong : BOOLEAN, cookie : BOOLEAN, seen : SUBSET Uri,
                   via : DOMAIN Target \cup {"none"},
                   end : {"none", "going", "loop", "origin", "info"} \cup Endpoint]
  BY <1>1
<1>3. Browsed' BY <1>1 DEF Browsed
<1>4. RedirectsLand' /\ StrongNotUpgraded'
  BY <1>1
     DEF RedirectsLand, StrongNotUpgraded
<1> QED BY <1>1, <1>2, <1>3, <1>4, BrowserStep

LEMMA CloseInv == Inv /\ Close => Inv'
<1> SUFFICES ASSUME Inv, Close PROVE Inv' OBVIOUS
<1>1. /\ UNCHANGED <<construct, stack>>
      /\ nav' = [at |-> "page", strong |-> TRUE, cookie |-> FALSE, seen |-> {},
                 via |-> "none", end |-> "none"]
  BY DEF Close, NoNav
<1>2. nav' \in [at : Uri, strong : BOOLEAN, cookie : BOOLEAN, seen : SUBSET Uri,
                   via : DOMAIN Target \cup {"none"},
                   end : {"none", "going", "loop", "origin", "info"} \cup Endpoint]
  BY <1>1 DEF Uri
<1>3. Browsed' BY <1>1 DEF Browsed
<1>4. RedirectsLand' /\ StrongNotUpgraded'
  BY <1>1
     DEF RedirectsLand, StrongNotUpgraded
<1> QED BY <1>1, <1>2, <1>3, <1>4, BrowserStep

LEMMA ComposedTls ==
  ASSUME NEW extensions, NEW config, NEW k
  PROVE  Compose(extensions, config, k).tls = ("REQUIRE_TLS_13" \in extensions)
  BY DEF Compose

\* What the behaviour of a path answers, in a distribution of the construct.
LEMMA AnswersAs ==
  ASSUME Inv, NEW uri \in Uri, NEW strong \in BOOLEAN, NEW expired \in BOOLEAN,
         NEW b, b = Routed(uri),
         NEW to, to = Answered(b, Request(uri, strong, expired))
  PROVE  /\ b \in All /\ to \in DOMAIN Target \cup {"origin", "info"}
         /\ to \in DOMAIN Target => b.fn # 0 /\ Demanding(uri)
         /\ (to = "upgrade" /\ props.variant \in {"azure", "cognito"}) => ~strong
         /\ to = "refresh" => props.refresh /\ props.variant # "cognito"
         /\ uri = "callback" => to \in {"origin", "info", "upgrade"}
         /\ uri = "refresh" => to \in {"origin", "info", "upgrade", "authorize"}
<1>1. TypeOK BY DEF Inv
<1>2. b \in All BY <1>1, RoutedTo
<1>3. b \in BehaviourType /\ Fits(props, functions, b)
  BY <1>1, <1>2, AllTyped DEF Inv, Fitted
<1>4. CASE b.fn = 0
  <2>1. to = "origin" BY <1>4 DEF Answered
  <2>2. "origin" \notin DOMAIN Target BY DEF Target
  <2> QED BY <1>2, <2>1, <2>2
<1>5. CASE b.fn # 0
  <2> DEFINE body == functions[b.fn].code
  <2>1. b.fn \in DOMAIN functions
    BY <1>1, <1>3, <1>5, AllTyped DEF Fits, BehaviourType
  <2>2. Sound(body) /\ (body.refresh => props.refresh /\ props.variant # "cognito")
    BY <2>1 DEF Inv, Made
  <2>3. /\ to \in DOMAIN Target \cup {"origin", "info"}
        /\ to \in DOMAIN Target => body.tls \/ body.module # "none"
        /\ to = "upgrade" => body.tls /\ ~(strong /\ b.orp = "tls")
        /\ to = "refresh" => body.refresh
        /\ uri = "callback" => to \in {"origin", "info", "upgrade"}
        /\ uri = "refresh" => to \in {"origin", "info", "upgrade", "authorize"}
    BY <1>5, <2>2, AnsweredBy
  <2>4. (body.tls /\ props.variant \in {"azure", "cognito"}) => b.orp = "tls"
    <3> SUFFICES ASSUME body.tls, props.variant \in {"azure", "cognito"}
                 PROVE  b.orp = "tls"
      OBVIOUS
    <3>1. b.ask # NoAsk BY <1>3, <1>5 DEF Fits
    <3>2. b.ask \in Ask /\ functions[b.fn].key = Key(b.ask)
      BY <1>3, <3>1 DEF Fits, BehaviourType
    <3>3. body = Compose(b.ask.extensions, b.ask.config, Composer(props))
      BY <2>1, <3>2, KeyTyped DEF Inv, Made
    <3>4. "REQUIRE_TLS_13" \in b.ask.extensions
      <4> HIDE DEF body
      <4> DEFINE g == Compose(b.ask.extensions, b.ask.config, Composer(props))
      <4>1. g.tls = ("REQUIRE_TLS_13" \in b.ask.extensions)
        BY ONLY ComposedTls, Zenon
      <4>2. body.tls = g.tls BY <3>3
      <4> QED BY <4>1, <4>2, Zenon
    <3> QED BY <1>3, <3>1, <3>4 DEF Fits
  <2>5. Demanding(uri) = (body.tls \/ body.module # "none")
    BY <1>5 DEF Demanding
  <2> QED BY <1>2, <1>5, <2>2, <2>3, <2>4, <2>5
<1> QED BY <1>4, <1>5

\* A redirect is followed: to a new page, round in a circle, or to its end.
LEMMA FollowInv == Inv /\ Follow => Inv'
<1> SUFFICES ASSUME Inv, Follow PROVE Inv' OBVIOUS
<1> DEFINE at == nav.at
           b == Routed(at)
           to == Answered(b, Request(at, nav.strong, nav.cookie))
<1>1. /\ nav.end = "going" /\ UNCHANGED <<construct, stack>>
      /\ nav' = IF to \notin DOMAIN Target
                THEN [nav EXCEPT !.end = IF b.edge = "none" THEN to ELSE b.edge]
                ELSE IF Target[to] \in nav.seen
                THEN [nav EXCEPT !.end = "loop", !.via = to]
                ELSE [nav EXCEPT !.at = Target[to], !.via = to,
                                 !.seen = @ \cup {Target[to]}]
  BY DEF Follow
<1>2. nav \in [at : Uri, strong : BOOLEAN, cookie : BOOLEAN, seen : SUBSET Uri,
              via : DOMAIN Target \cup {"none"},
              end : {"none", "going", "loop", "origin", "info"} \cup Endpoint]
  BY DEF Inv, TypeOK
<1>3. at \in Uri /\ nav.strong \in BOOLEAN /\ nav.cookie \in BOOLEAN BY <1>2
<1>4. /\ b \in All /\ to \in DOMAIN Target \cup {"origin", "info"}
      /\ (to = "upgrade" /\ props.variant \in {"azure", "cognito"}) => ~nav.strong
      /\ to = "refresh" => props.refresh /\ props.variant # "cognito"
      /\ at = "callback" => to \in {"origin", "info", "upgrade"}
      /\ at = "refresh" => to \in {"origin", "info", "upgrade", "authorize"}
  BY <1>3, AnswersAs
<1>5. Sends(at) <=> to \in DOMAIN Target /\ Target[to] \in nav.seen
  BY DEF Sends
<1>6. b.edge \in Endpoint \cup {"none"}
  BY <1>4, AllTyped DEF Inv, BehaviourType
<1> HIDE DEF b, to
<1>7. UNCHANGED <<status, props, default, behaviours, functions>>
  BY <1>1 DEF construct
<1>8. \A u : Routed(u)' = Routed(u) BY <1>7 DEF Matching, Routed
<1>9. /\ status = "live" /\ at \in nav.seen
      /\ \A uri \in nav.seen \ {at} : Sends(uri)
      /\ nav.via # "none" => at = Target[nav.via]
      /\ nav.via = "refresh" => props.refresh /\ props.variant # "cognito"
  BY <1>1 DEF Inv, Browsed
<1>10. Endpoints(props, behaviours) BY <1>9 DEF Inv, Placed
<1>11. Lands(behaviours, at) => to = "origin" /\ b.edge = at /\ at # "none"
  <2> SUFFICES ASSUME Lands(behaviours, at)
               PROVE  to = "origin" /\ b.edge = at /\ at # "none"
    OBVIOUS
  <2>1. b.fn = 0 /\ b.edge = at BY RoutedTo DEF Inv, b
  <2>2. to = "origin" BY <2>1 DEF Answered, to
  <2>3. at # "none" BY <1>3 DEF Uri
  <2> QED BY <2>1, <2>2, <2>3
<1>12. \A u \in nav.seen : Lands(behaviours, u) => ~Sends(u)
  <2> SUFFICES ASSUME NEW u, Lands(behaviours, u), Sends(u) PROVE FALSE OBVIOUS
  <2>1. Routed(u).fn = 0 BY RoutedTo DEF Inv
  <2>2. Answered(Routed(u), Request(u, nav.strong, nav.cookie)) = "origin"
    BY <2>1 DEF Answered
  <2> QED BY <2>2 DEF Sends, Target
<1>13. DOMAIN Target = {"authorize", "login", "refresh", "upgrade"}
       /\ Target["authorize"] = "callback" /\ Target["refresh"] = "refresh"
       /\ \A t \in DOMAIN Target : Target[t] \in Uri
  BY DEF Target, Uri
<1>14. CASE to \notin DOMAIN Target
  <2>1. nav' = [nav EXCEPT !.end = IF b.edge = "none" THEN to ELSE b.edge]
    BY <1>1, <1>14
  <2>2. /\ nav'.at = at /\ nav'.seen = nav.seen /\ nav'.via = nav.via
        /\ nav'.strong = nav.strong /\ nav'.cookie = nav.cookie
        /\ nav'.end = IF b.edge = "none" THEN to ELSE b.edge
    BY <2>1, <1>2
  <2>3. nav'.end \in {"origin", "info"} \cup Endpoint
    BY <2>2, <1>4, <1>6, <1>14
  <2>4. nav'.end \notin {"none", "going", "loop"} BY <2>3 DEF Endpoint
  <2>5. nav' \in [at : Uri, strong : BOOLEAN, cookie : BOOLEAN, seen : SUBSET Uri,
              via : DOMAIN Target \cup {"none"},
              end : {"none", "going", "loop", "origin", "info"} \cup Endpoint]
    BY <1>2, <2>1, <2>2, <2>3
  <2>6. \A u : Sends(u)' = Sends(u) BY <1>7, <1>8, <2>2 DEF Sends, Answered
  <2>7. Browsed' BY <1>7, <1>9, <2>2, <2>4, <2>6 DEF Browsed
  <2>8. RedirectsLand'
    <3>1. (nav.via = "authorize" /\ Ours(props)) => nav'.end = "callback"
      <4> SUFFICES ASSUME nav.via = "authorize", Ours(props)
                   PROVE  nav'.end = "callback"
        OBVIOUS
      <4>1. at = "callback" BY <1>9, <1>13
      <4>2. Lands(behaviours, "callback") BY <1>10 DEF Endpoints
      <4> QED BY <4>1, <4>2, <1>11, <2>2
    <3>2. (nav.via = "refresh" /\ ~Overridden(props, "refresh")) => nav'.end = "refresh"
      <4> SUFFICES ASSUME nav.via = "refresh", ~Overridden(props, "refresh")
                   PROVE  nav'.end = "refresh"
        OBVIOUS
      <4>1. at = "refresh" BY <1>9, <1>13
      <4>2. Lands(behaviours, "refresh") BY <1>9, <1>10 DEF Endpoints
      <4> QED BY <4>1, <4>2, <1>11, <2>2
    <3> QED BY <1>7, <2>2, <3>1, <3>2 DEF RedirectsLand
  <2>9. StrongNotUpgraded' BY <1>7, <2>2 DEF Inv, StrongNotUpgraded
  <2> QED BY <1>1, <2>5, <2>7, <2>8, <2>9, BrowserStep
<1>15. CASE to \in DOMAIN Target /\ Target[to] \in nav.seen
  <2>1. nav' = [nav EXCEPT !.end = "loop", !.via = to] BY <1>1, <1>15
  <2>2. /\ nav'.at = at /\ nav'.seen = nav.seen /\ nav'.via = to
        /\ nav'.strong = nav.strong /\ nav'.cookie = nav.cookie
        /\ nav'.end = "loop"
    BY <2>1, <1>2
  <2>3. nav' \in [at : Uri, strong : BOOLEAN, cookie : BOOLEAN, seen : SUBSET Uri,
              via : DOMAIN Target \cup {"none"},
              end : {"none", "going", "loop", "origin", "info"} \cup Endpoint]
    BY <1>2, <1>15, <2>1
  <2>4. \A u : Sends(u)' = Sends(u) BY <1>7, <1>8, <2>2 DEF Sends, Answered
  <2>5. Sends(at) BY <1>5, <1>15
  <2>6. to # "none" BY <1>13, <1>15
  <2>7. Browsed' BY <1>4, <1>7, <1>9, <1>15, <2>2, <2>4, <2>5, <2>6 DEF Browsed
  <2>8. \A u \in nav.seen : ~Lands(behaviours, u) BY <1>9, <1>12, <2>5
  <2>9. RedirectsLand'
    <3>1. ~(to = "authorize" /\ Ours(props))
      BY <1>10, <1>13, <1>15, <2>8 DEF Endpoints
    <3>2. ~(to = "refresh" /\ ~Overridden(props, "refresh"))
      BY <1>4, <1>10, <1>13, <1>15, <2>8 DEF Endpoints
    <3> QED BY <1>7, <2>2, <3>1, <3>2 DEF RedirectsLand
  <2>10. StrongNotUpgraded' BY <1>4, <1>7, <2>2 DEF StrongNotUpgraded
  <2> QED BY <1>1, <2>3, <2>7, <2>9, <2>10, BrowserStep
<1>16. CASE to \in DOMAIN Target /\ Target[to] \notin nav.seen
  <2>1. nav' = [nav EXCEPT !.at = Target[to], !.via = to,
                           !.seen = @ \cup {Target[to]}]
    BY <1>1, <1>16
  <2>2. /\ nav'.at = Target[to] /\ nav'.seen = nav.seen \cup {Target[to]}
        /\ nav'.via = to /\ nav'.strong = nav.strong
        /\ nav'.cookie = nav.cookie /\ nav'.end = "going"
    BY <2>1, <1>1, <1>2
  <2>3. nav' \in [at : Uri, strong : BOOLEAN, cookie : BOOLEAN, seen : SUBSET Uri,
              via : DOMAIN Target \cup {"none"},
              end : {"none", "going", "loop", "origin", "info"} \cup Endpoint]
    BY <1>2, <1>13, <1>16, <2>1
  <2>4. \A u : Sends(u) => Sends(u)' BY <1>7, <1>8, <2>2 DEF Sends, Answered
  <2>5. ASSUME NEW u, u = at PROVE Sends(u)'
    <3>1. Answered(Routed(u), Request(u, nav.strong, nav.cookie)) = to
      BY <2>5 DEF to, b
    <3>2. Answered(Routed(u), Request(u, nav.strong, nav.cookie))' =
            Answered(Routed(u), Request(u, nav.strong, nav.cookie))
      BY <1>7, <1>8, <2>2 DEF Answered
    <3> QED BY <3>1, <3>2, <1>16, <2>2 DEF Sends
  <2>6. Browsed'
    <3>1. \A u \in nav'.seen \ {nav'.at} : Sends(u)' BY <1>9, <2>2, <2>4, <2>5
    <3> QED BY <1>4, <1>7, <1>9, <2>2, <3>1 DEF Browsed
  <2>7. RedirectsLand' BY <2>2 DEF RedirectsLand
  <2>8. StrongNotUpgraded' BY <1>4, <1>7, <2>2 DEF StrongNotUpgraded
  <2> QED BY <1>1, <2>3, <2>6, <2>7, <2>8, BrowserStep
<1> QED BY <1>14, <1>15, <1>16

\* Every step keeps the invariant.
LEMMA StepInv == Inv /\ DistributionAssumption /\ [Next]_vars => Inv'
<1> SUFFICES ASSUME Inv, DistributionAssumption, [Next]_vars PROVE Inv' OBVIOUS
<1>1. Calls \subseteq Call BY DEF DistributionAssumption
<1>2. CASE Write
  BY <1>1, <1>2, ConstructInv, AddInv, ProtectInv, LegacyInv, GetterInv,
     AttachInv
     DEF Write
<1>3. CASE Deploy
  BY <1>3, SynthesiseInv, PublishInv, CreateInv, CompleteInv DEF Deploy
<1>4. CASE Browse
  BY <1>4, VisitInv, FollowInv, CloseInv DEF Browse
<1>5. CASE UNCHANGED vars
  <2>1. UNCHANGED construct /\ UNCHANGED nav /\ UNCHANGED stack BY <1>5 DEF vars
  <2>2. UNCHANGED <<creating, created, status>> BY <2>1 DEF stack, construct
  <2>3. Chained' /\ (creating \cup created)' \subseteq DOMAIN functions
    BY <2>2 DEF Inv, Chained, TypeOK
  <2> QED BY <2>1, <2>3, StackStep
<1> QED BY <1>2, <1>3, <1>4, <1>5 DEF Next

\* The assumptions on the constants, by name.
LEMMA ConstantsAre == DistributionAssumption
  BY EntranceAssumption
LEMMA OptionsAre ==
  Options \subseteq Mtls!Props /\ Options # {} /\ "none" \notin Serial
  BY EntranceAssumption DEF Mtls!OptionsAssumption

\* What RejectionExplained lists.
Blamed ==
  \/ Repeated \/ mtls = "signal"
  \/ \E b \in All : b.ask = NoAsk /\ "viewer-request" \in b.events

-----------------------------------------------------------------------------
(* What follows for a distribution                                         *)

\* Every variable of a construct, its deployment and the browser keeps its
\* type, for all constructs, calls and roles.
THEOREM TypeCorrect == Spec => []TypeOK
<1>1. Inv => TypeOK BY DEF Inv
<1> QED BY InitInv, StepInv, ConstantsAre, <1>1, PTL DEF Spec

\* The cache of functions (securedCloudFront.ts:832) gives every behaviour code
\* composed from its own extensions, roles and match mode, whatever behaviours
\* were added before and share it.
THEOREM Asked == Spec => []AsAsked
<1>1. Inv => AsAsked
  <2> SUFFICES ASSUME Inv, NEW b \in All, b.ask # NoAsk
               PROVE  /\ b.fn # 0
                      /\ functions[b.fn].code =
                           Compose(b.ask.extensions, b.ask.config, Composer(props))
    BY DEF AsAsked
  <2>1. b \in BehaviourType /\ Fits(props, functions, b)
    BY AllTyped DEF Inv, Fitted
  <2>2. b.ask \in Ask /\ b.fn # 0 /\ functions[b.fn].key = Key(b.ask)
    BY <2>1 DEF BehaviourType, Fits
  <2>3. b.fn \in DOMAIN functions
    BY <2>1, <2>2, AllTyped DEF Inv, Fits, BehaviourType
  <2> QED BY <2>2, <2>3, KeyTyped DEF Inv, Made
<1> QED BY InitInv, StepInv, ConstantsAre, <1>1, PTL DEF Spec

\* CloudFormation has one function of a construct to create at a time, however
\* many there are and whoever asked for them (securedCloudFront.ts:865).
THEOREM OneByOne == Spec => []OneAtATime
<1>1. Inv => OneAtATime
  <2> SUFFICES ASSUME Inv, NEW i \in creating, NEW j \in creating, i # j
               PROVE  FALSE
    BY DEF OneAtATime
  <2>1. i \in Nat /\ j \in Nat /\ 1 <= i /\ 1 <= j
    BY AllTyped DEF Inv, TypeOK
  <2>2. i \in 1 .. j - 1 \/ j \in 1 .. i - 1 BY <2>1
  <2>3. i \in created \/ j \in created BY <2>2 DEF Inv, Chained
  <2> QED BY <2>3 DEF Inv, Chained
<1> QED BY InitInv, StepInv, ConstantsAre, <1>1, PTL DEF Spec

\* CloudFront rejects what synthesis accepted for two behaviours of one path, for
\* the signal of mTLS, or for code the application has put on a behaviour without
\* extensions (securedCloudFront.ts:760), and for nothing else.
THEOREM Rejections == Spec => []RejectionExplained
<1>1. Inv /\ RejectionExplained /\ [Next]_vars => RejectionExplained'
  <2> SUFFICES ASSUME Inv, RejectionExplained, [Next]_vars, status' = "rejected"
               PROVE  Blamed'
    BY DEF RejectionExplained, Blamed
  <2>1. CASE status = "rejected"
    <3>1. UNCHANGED construct
      BY <2>1 DEF Next, Write, Deploy, Browse, Construct, AddBehavior, Protect,
                  AddBehaviorLegacy, AuthFunction, AttachMtls, Called, Synthesise,
                  Create, Complete, Publish, Visit, Follow, Close, vars
    <3>2. UNCHANGED <<default, behaviours, mtls>> BY <3>1 DEF construct
    <3> QED BY <2>1, <3>2 DEF RejectionExplained, Blamed, Repeated, All
  <2>2. CASE status # "rejected"
    <3>1. Publish
      BY <2>2 DEF Next, Write, Deploy, Browse, Construct, AddBehavior, Protect,
                  AddBehaviorLegacy, AuthFunction, AttachMtls, Called, Synthesise,
                  Create, Complete, Visit, Follow, Close, vars, construct
    <3>2. /\ status = "deploying" /\ (Crowded \/ Repeated \/ Miscased)
          /\ UNCHANGED <<default, behaviours, mtls>>
      BY <3>1, <2>2 DEF Publish
    <3>3. Blamed
      <4>1. CASE Repeated \/ Miscased BY <4>1 DEF Blamed, Miscased
      <4>2. CASE Crowded
        <5>1. PICK b \in All : Handlers(b) > 1 BY <4>2 DEF Crowded, All
        <5>2. Fits(props, functions, b) BY DEF Inv, Fitted
        <5>3. b.ask # NoAsk => "viewer-request" \notin b.events
          BY <3>2 DEF Inv, Merged
        <5>4. b.ask = NoAsk /\ "viewer-request" \in b.events
          BY <5>1, <5>2, <5>3 DEF Fits, Handlers
        <5> QED BY <5>4 DEF Blamed
      <4> QED BY <3>2, <4>1, <4>2
    <3> QED BY <3>2, <3>3 DEF Blamed, Repeated, All
  <2> QED BY <2>1, <2>2
<1>2. Init => RejectionExplained BY DEF Init, RejectionExplained
<1> QED BY InitInv, StepInv, ConstantsAre, <1>1, <1>2, PTL DEF Spec

\* Whoever is redirected to sign in comes out at the callback the construct
\* owns, and whoever is redirected to renew at the refresh endpoint, in every
\* order of the behaviours the application adds.
THEOREM Landing == Spec => []RedirectsLand
<1>1. Inv => RedirectsLand BY DEF Inv
<1> QED BY InitInv, StepInv, ConstantsAre, <1>1, PTL DEF Spec

\* Redirects that go round in circles pass an upgrade or a login page that is
\* itself behind a check.
THEOREM Loops == Spec => []LoopsExplained
<1>1. Inv => LoopsExplained
  <2> SUFFICES ASSUME Inv, nav.end = "loop",
                      \A uri \in {"upgrade", "login"} \cap nav.seen : ~Demanding(uri)
               PROVE  FALSE
    BY DEF LoopsExplained
  <2> DEFINE to(uri) == Answered(Routed(uri), Request(uri, nav.strong, nav.cookie))
  <2>1. nav.strong \in BOOLEAN /\ nav.cookie \in BOOLEAN /\ nav.seen \subseteq Uri
    BY DEF Inv, TypeOK
  <2>2. \A uri \in nav.seen : to(uri) \in DOMAIN Target /\ Target[to(uri)] \in nav.seen
    BY DEF Inv, Browsed, Sends
  <2>3. \A uri \in nav.seen :
          /\ Demanding(uri)
          /\ uri = "callback" => to(uri) \in {"origin", "info", "upgrade"}
          /\ uri = "refresh" => to(uri) \in {"origin", "info", "upgrade", "authorize"}
    <3> SUFFICES ASSUME NEW uri \in nav.seen
                 PROVE  /\ Demanding(uri)
                        /\ uri = "callback" => to(uri) \in {"origin", "info", "upgrade"}
                        /\ uri = "refresh" =>
                             to(uri) \in {"origin", "info", "upgrade", "authorize"}
      OBVIOUS
    <3>1. uri \in Uri /\ to(uri) \in DOMAIN Target BY <2>1, <2>2
    <3> QED BY <2>1, <3>1, AnswersAs
  <2>4. "upgrade" \notin nav.seen /\ "login" \notin nav.seen BY <2>3
  <2> HIDE DEF to
  <2>5. /\ DOMAIN Target = {"authorize", "login", "refresh", "upgrade"}
        /\ Target["authorize"] = "callback" /\ Target["login"] = "login"
        /\ Target["refresh"] = "refresh" /\ Target["upgrade"] = "upgrade"
    BY DEF Target
  <2>6. \A uri \in nav.seen : to(uri) \in {"authorize", "refresh"}
    BY <2>2, <2>4, <2>5
  <2>7. "callback" \notin nav.seen BY <2>3, <2>6
  <2>8. "refresh" \notin nav.seen BY <2>2, <2>3, <2>5, <2>6, <2>7
  <2>9. nav.seen # {} BY DEF Inv, Browsed
  <2> QED BY <2>2, <2>5, <2>6, <2>7, <2>8, <2>9
<1> QED BY InitInv, StepInv, ConstantsAre, <1>1, PTL DEF Spec

\* A viewer on TLS 1.3 is not sent to the upgrade page by the constructs that
\* have a policy to show the version, by whichever method a behaviour came.
THEOREM Shown == Spec => []StrongNotUpgraded
<1>1. Inv => StrongNotUpgraded BY DEF Inv
<1> QED BY InitInv, StepInv, ConstantsAre, <1>1, PTL DEF Spec

-----------------------------------------------------------------------------
(* Viewer mTLS                                                             *)

\* The function in place is the one its construct has built.
FunctionBaked ==
  /\ construction = "deployed" => baked = Mtls!Code(options)
  /\ pc # "idle" => construction = "deployed"

\* Where a certificate is required, a connection got beyond the first test of
\* the function only with one that is good enough.
Screened ==
  /\ pc \in {"revocation", "grant"} => ~Mtls!Detecting
  /\ (pc \in {"revocation", "grant", "open"} /\ ~Mtls!Detecting) =>
       cert # Mtls!NoCert /\ ~Mtls!Below(cert)

\* The history of a connection follows the stores, and the two reads of the
\* function are reflected in it.
Read ==
  /\ barred => cert.serial \in revoked
  /\ cert.serial \in granted => entitled
  /\ (pc \in {"grant", "open"} /\ ~Mtls!Detecting) => ~barred
  /\ (pc = "open" /\ ~Mtls!Detecting /\ baked.propertyId # "") => entitled

\* The context is the presence of a certificate, or nothing, and so the stamp.
Noted ==
  /\ context = "true" => cert # Mtls!NoCert
  /\ context = "false" => cert = Mtls!NoCert
  /\ (pc = "open" /\ Mtls!Detecting) => context # "unset"
  /\ stamped # "none" => pc = "open"
  /\ stamped = "yes" => context = "true"
  /\ stamped = "no" => context # "true"

HandshakeInv == Mtls!TypeOK /\ FunctionBaked /\ Screened /\ Read /\ Noted

\* The placeholders of the code keep their types.
LEMMA CodeType ==
  ASSUME NEW p \in Mtls!Props
  PROVE  Mtls!Code(p) \in [mode : Mtls!Mode, minAssurance : Mtls!Assurance,
                      propertyId : {"", "property"}]
  BY DEF Mtls!Code, Mtls!Props, Mtls!Default, Mtls!Mode, Mtls!Assurance

\* Initially no connection is open.
LEMMA HandshakeInit == Mtls!Init => HandshakeInv
<1> SUFFICES ASSUME Mtls!Init PROVE HandshakeInv OBVIOUS
<1>1. options \in Mtls!Props
  <2>1. \E p \in Options : TRUE BY OptionsAre
  <2>2. options \in Options BY <2>1 DEF Mtls!Init
  <2> QED BY <2>2, OptionsAre
<1>2. Mtls!TypeOK BY <1>1 DEF Mtls!Init, Mtls!TypeOK, Mtls!Mode, Mtls!Assurance
<1> QED
  BY <1>2, OptionsAre
     DEF Mtls!Init, HandshakeInv, FunctionBaked, Screened, Read, Noted, Mtls!NoCert, Mtls!Detecting

\* Every step of the construct, of a handshake and of the registry keeps it.
LEMMA HandshakeStep == HandshakeInv /\ [Mtls!Next]_(Mtls!vars) => HandshakeInv'
<1> SUFFICES ASSUME HandshakeInv, [Mtls!Next]_(Mtls!vars) PROVE HandshakeInv' OBVIOUS
<1> USE DEF HandshakeInv
<1>1. ASSUME NEW p \in Options, Mtls!Construct(p) PROVE HandshakeInv'
  <2>1. p \in Mtls!Props BY OptionsAre
  <2>2. baked' = Mtls!Code(p) /\ baked' \in [mode : Mtls!Mode, minAssurance : Mtls!Assurance,
                                      propertyId : {"", "property"}]
    BY <1>1, <2>1, CodeType DEF Mtls!Construct
  <2>3. pc = "idle" /\ pc' = "idle"
    BY <1>1 DEF Mtls!Construct, FunctionBaked, Mtls!connection
  <2> QED
    BY <1>1, <2>1, <2>2, <2>3
       DEF Mtls!Construct, Mtls!TypeOK, FunctionBaked, Screened, Read, Noted, Mtls!stores, Mtls!connection
<1>2. ASSUME NEW c \in Mtls!Cert \cup {Mtls!NoCert}, Mtls!Connect(c) PROVE HandshakeInv'
  <2>1. Mtls!Detecting' = Mtls!Detecting /\ Mtls!Below(c)' = Mtls!Below(c)
    BY <1>2 DEF Mtls!Connect, Mtls!Detecting, Mtls!Below, Mtls!setup
  <2>2. barred' \in BOOLEAN /\ entitled' \in BOOLEAN
    <3>1. barred' = (c.serial \in revoked) /\ entitled' = (c.serial \in granted)
      BY <1>2 DEF Mtls!Connect
    <3>2. (c.serial \in revoked) \in BOOLEAN /\ (c.serial \in granted) \in BOOLEAN
      OBVIOUS
    <3> QED BY ONLY <3>1, <3>2, Zenon
  <2>3. Mtls!TypeOK'
    BY <1>2, <2>2
       DEF Mtls!Connect, Mtls!TypeOK, Mtls!setup, Mtls!stores
  <2> QED
    BY <1>2, <2>1, <2>3
       DEF Mtls!Connect, FunctionBaked, Screened, Read, Noted, Mtls!Below, Mtls!setup, Mtls!stores
<1>3. ASSUME Mtls!ReadRevocation PROVE HandshakeInv'
  <2>1. Mtls!Detecting' = Mtls!Detecting /\ Mtls!Below(cert)' = Mtls!Below(cert)
    BY <1>3
       DEF Mtls!ReadRevocation, Mtls!Decide, Mtls!Detecting, Mtls!Below,
           Mtls!setup
  <2>2. Mtls!TypeOK'
    BY <1>3
       DEF Mtls!ReadRevocation, Mtls!Decide, Mtls!TypeOK, Mtls!setup,
           Mtls!stores
  <2>3. FunctionBaked'
    BY <1>3
       DEF Mtls!ReadRevocation, Mtls!Decide, FunctionBaked, Mtls!setup
  <2>4. Screened' BY <1>3, <2>1 DEF Mtls!ReadRevocation, Mtls!Decide, Screened
  <2>5. Read'
    <3>1. /\ UNCHANGED <<barred, entitled, cert, revoked, granted, baked>>
          /\ pc' \in {"grant", "open"} => cert.serial \notin revoked
          /\ pc' = "open" /\ baked.propertyId # "" => FALSE
      BY <1>3, <2>1
         DEF Mtls!ReadRevocation, Mtls!Decide, Screened, Mtls!setup,
             Mtls!stores
    <3> QED BY <2>1, <3>1 DEF Read
  <2>6. Noted'
    BY <1>3, <2>1
       DEF Mtls!ReadRevocation, Mtls!Decide, Screened, Noted
  <2> QED BY <2>2, <2>3, <2>4, <2>5, <2>6
<1>4. ASSUME Mtls!ReadGrant PROVE HandshakeInv'
  <2>1. Mtls!Detecting' = Mtls!Detecting /\ Mtls!Below(cert)' = Mtls!Below(cert)
    BY <1>4
       DEF Mtls!ReadGrant, Mtls!Decide, Mtls!Detecting, Mtls!Below, Mtls!setup
  <2>2. Mtls!TypeOK'
    BY <1>4
       DEF Mtls!ReadGrant, Mtls!Decide, Mtls!TypeOK, Mtls!setup, Mtls!stores
  <2>3. FunctionBaked'
    BY <1>4
       DEF Mtls!ReadGrant, Mtls!Decide, FunctionBaked, Mtls!setup
  <2>4. Screened' BY <1>4, <2>1 DEF Mtls!ReadGrant, Mtls!Decide, Screened
  <2>5. Read'
    <3>1. /\ UNCHANGED <<barred, entitled, cert, revoked, granted, baked>>
          /\ pc' \in {"grant", "open"} => pc = "grant"
          /\ pc' = "open" /\ baked.propertyId # "" => cert.serial \in granted
      BY <1>4, <2>1
         DEF Mtls!ReadGrant, Mtls!Decide, Screened, Mtls!setup, Mtls!stores
    <3> QED BY <2>1, <3>1, <1>4 DEF Read
  <2>6. Noted' BY <1>4, <2>1 DEF Mtls!ReadGrant, Mtls!Decide, Screened, Noted
  <2> QED BY <2>2, <2>3, <2>4, <2>5, <2>6
<1>5. ASSUME Mtls!Respond PROVE HandshakeInv'
  <2>1. Mtls!Detecting' = Mtls!Detecting /\ Mtls!Below(cert)' = Mtls!Below(cert)
    BY <1>5 DEF Mtls!Respond, Mtls!Detecting, Mtls!Below, Mtls!setup
  <2> QED
    BY <1>5, <2>1
       DEF Mtls!Respond, Mtls!Stamp, Mtls!TypeOK, FunctionBaked, Screened, Read, Noted, Mtls!setup, Mtls!stores
<1>6. ASSUME Mtls!Disconnect PROVE HandshakeInv'
  BY <1>6, OptionsAre
     DEF Mtls!Disconnect, Mtls!TypeOK, FunctionBaked, Screened, Read, Noted, Mtls!NoCert, Mtls!setup, Mtls!stores
<1>7. ASSUME Mtls!Register PROVE HandshakeInv'
  <2>1. Mtls!Detecting' = Mtls!Detecting /\ Mtls!Below(cert)' = Mtls!Below(cert)
    BY <1>7
       DEF Mtls!Register, Mtls!Detecting, Mtls!Below, Mtls!setup,
           Mtls!connection
  <2> QED
    BY <1>7, <2>1
       DEF Mtls!Register, Mtls!TypeOK, FunctionBaked, Screened, Read, Noted, Mtls!setup, Mtls!connection
<1>8. CASE UNCHANGED Mtls!vars
  BY <1>8
     DEF Mtls!vars, Mtls!setup, Mtls!stores, Mtls!connection, Mtls!TypeOK,
         FunctionBaked, Screened, Read,
              Noted, Mtls!Detecting, Mtls!Below
<1> QED BY <1>1, <1>2, <1>3, <1>4, <1>5, <1>6, <1>7, <1>8 DEF Mtls!Next

\* Every variable of the construct, the handshake and the stores keeps its
\* type, for all serials and options.
THEOREM HandshakeTyped == Mtls!Spec => []Mtls!TypeOK
<1>1. HandshakeInv => Mtls!TypeOK BY DEF HandshakeInv
<1> QED BY HandshakeInit, HandshakeStep, <1>1, PTL DEF Mtls!Spec

\* Whoever is let in where a certificate is required presented one of the
\* assurance asked for, not revoked all through the handshake, and with the
\* marker of the property where the construct was given one: for every
\* combination of options and every interleaving of the registry.
THEOREM Justified == Mtls!Spec => []AllowJustified
<1>1. HandshakeInv => AllowJustified
  <2> SUFFICES ASSUME HandshakeInv, pc = "open", Mtls!Default(options.mode, "Required") = "Required"
               PROVE  /\ cert # Mtls!NoCert /\ cert.assurance # "none" /\ ~barred
                      /\ options.minAssurance = "hardware"
                           => cert.assurance = "hardware"
                      /\ entitled \/ options.authz \in {"unset", "empty"}
    BY DEF AllowJustified, Mtls!AllowJustified
  <2>1. baked = Mtls!Code(options) /\ options \in Mtls!Props
    BY DEF HandshakeInv, FunctionBaked, Mtls!TypeOK
  <2>2. ~Mtls!Detecting BY <2>1 DEF Mtls!Detecting, Mtls!Code
  <2>3. cert # Mtls!NoCert /\ ~Mtls!Below(cert) /\ ~barred
        /\ (baked.propertyId # "" => entitled)
    BY <2>2 DEF HandshakeInv, Screened, Read
  <2>4. cert \in Mtls!Cert BY <2>3 DEF HandshakeInv, Mtls!TypeOK
  <2>5. ASSUME options.minAssurance = "hardware" PROVE cert.assurance = "hardware"
    <3>1. baked.minAssurance = "hardware"
      BY <2>1, <2>5
         DEF Mtls!Code, Mtls!Default
    <3>2. CASE cert.assurance = "software"
      <4>1. Mtls!Rank["software"] < Mtls!Rank["hardware"] BY DEF Mtls!Rank
      <4> QED BY <2>3, <3>1, <3>2, <4>1 DEF Mtls!Below
    <3>3. cert.assurance \in {"none", "software", "hardware"}
      BY <2>4 DEF Mtls!Cert, Mtls!Assurance
    <3> QED BY <2>3, <3>2, <3>3 DEF Mtls!Below
  <2>6. entitled \/ options.authz \in {"unset", "empty"}
    BY <2>1, <2>3 DEF Mtls!Code, Mtls!Props
  <2> QED BY <2>3, <2>5, <2>6 DEF Mtls!Below
<1> QED BY HandshakeInit, HandshakeStep, <1>1, PTL DEF Mtls!Spec

\* The cookie follows the certificate, except where a certificate is required,
\* where it is never set.
THEOREM Truthful == Mtls!Spec => []SignalTruthful
<1>1. HandshakeInv => SignalTruthful
  <2> SUFFICES ASSUME HandshakeInv PROVE SignalTruthful OBVIOUS
  <2>1. stamped = "yes" => cert # Mtls!NoCert BY DEF HandshakeInv, Noted
  <2>2. ASSUME stamped = "no", Mtls!Default(options.mode, "Required") # "Required"
        PROVE  cert = Mtls!NoCert
    <3>1. pc = "open" /\ context # "true" BY <2>2 DEF HandshakeInv, Noted
    <3>2. baked = Mtls!Code(options) /\ options \in Mtls!Props /\ context \in {"unset", "true", "false"}
      BY <3>1 DEF HandshakeInv, FunctionBaked, Mtls!TypeOK
    <3>3. Mtls!Detecting
      BY <2>2, <3>2
         DEF Mtls!Detecting, Mtls!Code, Mtls!Default, Mtls!Props, Mtls!Mode
    <3> QED BY <3>1, <3>2, <3>3 DEF HandshakeInv, Noted
  <2> QED BY <2>1, <2>2 DEF SignalTruthful, Mtls!SignalTruthful
<1> QED BY HandshakeInit, HandshakeStep, <1>1, PTL DEF Mtls!Spec

\* The two together behave, for each of them, as its own specification: the
\* theorems hold of what the run checks.
THEOREM Composition == SpecEither => Spec /\ Mtls!Spec
<1>1. InitEither => Init /\ Mtls!Init BY DEF InitEither
<1>2. [NextEither]_allVars => [Next]_vars
  BY DEF NextEither, allVars
<1>3. [NextEither]_allVars => [Mtls!Next]_(Mtls!vars)
  <2>1. UNCHANGED handshake => UNCHANGED Mtls!vars
    BY DEF handshake, Mtls!vars, Mtls!setup, Mtls!stores, Mtls!connection
  <2> QED BY <2>1 DEF NextEither, allVars
<1> QED BY <1>1, <1>2, <1>3, PTL DEF SpecEither, Spec, Mtls!Spec
=============================================================================
