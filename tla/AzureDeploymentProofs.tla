------------------------ MODULE AzureDeploymentProofs ------------------------
(***************************************************************************)
(* What a deployment to Azure comes to, for every application, any number  *)
(* of requests, repetitions and faults, and all names of groups.  First    *)
(* what the template holds, which is a map that later resources overwrite; *)
(* then what the lambda, the Azure deployment and the script have achieved *)
(* at each step.                                                           *)
(***************************************************************************)
EXTENDS AzureDeployment, SequenceTheorems, WellFoundedInduction, TLAPS

-----------------------------------------------------------------------------
(* The template                                                            *)

\* Every set of naturals that is not empty has a least member.
LEMMA Least ==
  ASSUME NEW T \in SUBSET Nat, T # {}
  PROVE  \E n \in T : \A m \in T : n <= m
<1> DEFINE R == OpToRel(<, Nat)
<1>1. IsWellFoundedOn(R, Nat) BY NatLessThanWellFounded
<1> HIDE DEF R
<1>2. PICK n \in T : \A m \in T : ~(<<m, n>> \in R)
  BY <1>1, WFMin
<1>3. \A m \in T : ~(m < n)
  BY <1>2 DEF R, OpToRel
<1> QED BY <1>3

\* The recursive function of Template exists, so its equation holds.
LEMMA Adding ==
  ASSUME NEW p, Len(Calls(p)) \in Nat, NEW empty,
         empty = [id \in {} |-> ApplicationResource]
  PROVE  \E f : /\ f = [n \in 0 .. Len(Calls(p)) |->
                         IF n = 0 THEN empty
                         ELSE AddResource(f[n - 1], Calls(p)[n])]
                /\ Template(p) = f[Len(Calls(p))]
<1> DEFINE Upto(m, f) ==
      f = [n \in 0 .. m |-> IF n = 0 THEN empty
                            ELSE AddResource(f[n - 1], Calls(p)[n])]
    T == {m \in Nat : ~ \E f : Upto(m, f)}
<1>1. T = {}
  <2> SUFFICES ASSUME T # {} PROVE FALSE OBVIOUS
  <2>1. PICK m \in T : \A k \in T : m <= k BY Least
  <2>2. CASE m = 0
    <3> DEFINE f == [n \in 0 .. m |-> empty]
    <3>1. Upto(m, f) BY <2>2
    <3> QED BY <3>1
  <2>3. CASE m # 0
    <3>1. m - 1 \in Nat /\ m - 1 \notin T
      <4>1. m \in Nat BY <2>1
      <4>2. m - 1 \in Nat /\ ~(m <= m - 1) BY <4>1, <2>3
      <4> QED BY <4>2, <2>1
    <3>2. PICK f : Upto(m - 1, f) BY <3>1
    <3> DEFINE e == AddResource(f[m - 1], Calls(p)[m])
               g == [n \in 0 .. m |-> IF n = m THEN e ELSE f[n]]
    <3>3. \A n \in 0 .. m - 1 : g[n] = f[n] BY <2>3
    <3>4. \A n \in 0 .. m : g[n] = IF n = 0 THEN empty
                                   ELSE AddResource(g[n - 1], Calls(p)[n])
      <4> SUFFICES ASSUME NEW n \in 0 .. m
                   PROVE  g[n] = IF n = 0 THEN empty
                                 ELSE AddResource(g[n - 1], Calls(p)[n])
        OBVIOUS
      <4> HIDE DEF g
      <4>1. CASE n = m
        <5>1. g[n] = e BY <4>1 DEF g
        <5>2. g[n - 1] = f[m - 1] BY <4>1, <3>1, <3>3
        <5> QED BY <4>1, <5>1, <5>2, <2>3
      <4>2. CASE n # m
        <5>1. g[n] = f[n] BY <4>2, <3>3
        <5>2. n # 0 => g[n - 1] = f[n - 1] BY <4>2, <3>3
        <5>3. f[n] = IF n = 0 THEN empty
                     ELSE AddResource(f[n - 1], Calls(p)[n])
          BY <3>2, <4>2
        <5> QED BY <5>1, <5>2, <5>3
      <4> QED BY <4>1, <4>2
    <3>5. Upto(m, g) BY <3>4
    <3> QED BY <3>5, <2>1
  <2> QED BY <2>2, <2>3
<1>2. \E f : Upto(Len(Calls(p)), f) BY <1>1
<1>3. DEFINE added == CHOOSE f : Upto(Len(Calls(p)), f)
<1>4. Upto(Len(Calls(p)), added) BY <1>2
<1>5. Template(p) = added[Len(Calls(p))] BY DEF Template
<1> QED BY <1>4, <1>5

\* What the first n calls leave under an identifier is the last of its name.
Latter(c, n, id, r) ==
  \E i \in 1 .. n : /\ c[i].id = id /\ r = c[i]
                    /\ \A j \in i + 1 .. n : c[j].id # id
Holds(c, n, t) ==
  /\ DOMAIN t = {c[i].id : i \in 1 .. n}
  /\ \A id \in DOMAIN t : Latter(c, n, id, t[id])

LEMMA TemplateHolds ==
  ASSUME NEW p, Len(Calls(p)) \in Nat
  PROVE  Holds(Calls(p), Len(Calls(p)), Template(p))
<1> DEFINE c == Calls(p)
           empty == [id \in {} |-> ApplicationResource]
<1>1. PICK f : /\ f = [n \in 0 .. Len(c) |->
                         IF n = 0 THEN empty ELSE AddResource(f[n - 1], c[n])]
               /\ Template(p) = f[Len(c)]
  BY Adding
<1>2. f[0] = empty /\ \A n \in 1 .. Len(c) : f[n] = AddResource(f[n - 1], c[n])
  <2>1. \A n \in 0 .. Len(c) :
          f[n] = IF n = 0 THEN empty ELSE AddResource(f[n - 1], c[n])
    BY <1>1
  <2>2. 0 \in 0 .. Len(c) OBVIOUS
  <2>3. \A n \in 1 .. Len(c) : n \in 0 .. Len(c) /\ n # 0 OBVIOUS
  <2> HIDE DEF c, empty
  <2> QED BY <2>1, <2>2, <2>3, Zenon
<1> DEFINE T == {n \in 0 .. Len(c) : ~Holds(c, n, f[n])}
<1>3. Holds(c, 0, empty) BY DEF Holds
<1>4. Len(c) \in Nat OBVIOUS
<1> HIDE DEF c, empty
<1>5. ASSUME NEW m \in 1 .. Len(c), Holds(c, m - 1, f[m - 1])
      PROVE  Holds(c, m, f[m])
  <2> DEFINE r == c[m]  s == f[m - 1]  t == f[m]
  <2>1. t = [id \in DOMAIN s \cup {r.id} |-> IF id = r.id THEN r ELSE s[id]]
    BY <1>2 DEF AddResource
  <2>2. DOMAIN s = {c[i].id : i \in 1 .. m - 1}
        /\ \A id \in DOMAIN s : Latter(c, m - 1, id, s[id])
    BY <1>5 DEF Holds
  <2>3. m \in Nat /\ m # 0 BY <1>4
  <2> HIDE DEF r, s, t
  <2>4. 1 .. m = 1 .. m - 1 \cup {m} BY <2>3
  <2>5. DOMAIN t = {c[i].id : i \in 1 .. m} BY <2>1, <2>2, <2>4 DEF r
  <2>6. ASSUME NEW id \in DOMAIN t PROVE Latter(c, m, id, t[id])
    <3>1. CASE id = r.id
      <4>1. t[id] = c[m] /\ c[m].id = id BY <2>1, <3>1 DEF r
      <4>2. m \in 1 .. m /\ \A j \in m + 1 .. m : FALSE BY <2>3
      <4> QED BY <4>1, <4>2 DEF Latter
    <3>2. CASE id # r.id
      <4>1. id \in DOMAIN s /\ t[id] = s[id] BY <2>1, <3>2
      <4>2. PICK i \in 1 .. m - 1 :
              /\ c[i].id = id /\ s[id] = c[i]
              /\ \A j \in i + 1 .. m - 1 : c[j].id # id
        BY <2>2, <4>1 DEF Latter
      <4>3. \A j \in i + 1 .. m : c[j].id # id
        BY <2>3, <3>2, <4>2 DEF r
      <4>4. i \in 1 .. m BY <2>4
      <4> QED BY <4>1, <4>2, <4>3, <4>4 DEF Latter
    <3> QED BY <3>1, <3>2
  <2> QED BY <2>5, <2>6 DEF Holds, t
<1>6. T = {}
  <2> SUFFICES ASSUME T # {} PROVE FALSE OBVIOUS
  <2>1. PICK m \in T : \A k \in T : m <= k
    <3>1. T \in SUBSET Nat BY <1>4
    <3> QED BY <3>1, Least
  <2>2. m # 0 BY <1>2, <1>3
  <2>3. m - 1 \in 0 .. Len(c) /\ m - 1 \notin T /\ m \in 1 .. Len(c)
    BY <1>4, <2>1, <2>2
  <2>4. Holds(c, m - 1, f[m - 1]) BY <2>3
  <2> QED BY <1>5, <2>3, <2>4
<1>7. Holds(c, Len(c), f[Len(c)]) BY <1>4, <1>6
<1> QED BY <1>1, <1>7 DEF c

\* What the calls that come after those of the groups declare.
Claims ==
  {IdentityResource, StorageResource, PlanResource, WorkspaceResource,
   InsightsResource, FunctionAppResource, RegistrationResource, GraphResource,
   ScriptResource}
    \cup {RoleAssignmentResources[k] : k \in {1, 2}}
    \cup {PermissionResources[n] : n \in DOMAIN Permission}
Others(p) ==
  {ApplicationResource, ServicePrincipalResource, CredentialResource}
    \cup (IF p.mapping THEN Claims ELSE {})

\* No identifier of theirs is that of a group, or of another of them that
\* matters.
Distinct(r) ==
  /\ r.id \in Fixed \cup Permissions /\ r.kind \notin {"group", "assignment"}
  /\ r.kind = "application" => r.id = "Application"
  /\ r.kind = "script" => r.id = "Wirecustomclaimsextension"
  /\ r.id = "Application" => r = ApplicationResource
  /\ r.id = "Wirecustomclaimsextension" => r = ScriptResource

LEMMA PermissionsNamed ==
  /\ Len(Permission) \in Nat /\ DOMAIN Permission = 1 .. Len(Permission)
  /\ \A n \in DOMAIN Permission :
       Permission[n] \in Permissions /\ Permission[n] \notin Fixed
<1>1. Permission \in Seq(Permissions) /\ Permissions \cap Fixed = {}
  BY DeploymentAssumption
<1>2. Len(Permission) \in Nat /\ DOMAIN Permission = 1 .. Len(Permission)
  BY <1>1, LenProperties
<1> QED BY <1>1, <1>2 DEF Permissions

LEMMA ClaimsDistinct == \A r \in Claims : Distinct(r)
<1>1. \A r \in {IdentityResource, StorageResource, PlanResource, WorkspaceResource,
                InsightsResource, RegistrationResource, GraphResource} : Distinct(r)
  BY DEF IdentityResource, StorageResource, PlanResource, WorkspaceResource,
         InsightsResource, RegistrationResource, GraphResource, Support, Resource,
         Distinct, Fixed
<1>2. Distinct(FunctionAppResource) /\ Distinct(ScriptResource)
  BY DEF FunctionAppResource, ScriptResource, Resource, Distinct, Fixed
<1>3. \A n \in {1, 2} : Distinct(RoleAssignmentResources[n])
  BY DEF RoleAssignmentResources, Support, Resource, Distinct, Fixed
<1>4. ASSUME NEW n \in DOMAIN Permission PROVE Distinct(PermissionResources[n])
  <2>1. PermissionResources[n] =
          Support(Permission[n], {"Graphserviceprincipal", "Managedidentity"})
    BY DEF PermissionResources
  <2>2. Permission[n] \in Permissions /\ Permission[n] \notin Fixed
    BY PermissionsNamed
  <2>3. "Application" \in Fixed /\ "Wirecustomclaimsextension" \in Fixed BY DEF Fixed
  <2> QED BY <2>1, <2>2, <2>3 DEF Support, Resource, Distinct
<1> QED BY <1>1, <1>2, <1>3, <1>4 DEF Claims

LEMMA OthersDistinct == ASSUME NEW p, NEW r \in Others(p) PROVE Distinct(r)
<1>1. Distinct(ApplicationResource) /\ Distinct(ServicePrincipalResource)
      /\ Distinct(CredentialResource)
  BY DEF ApplicationResource, ServicePrincipalResource, CredentialResource,
         Support, Resource, Distinct, Fixed
<1> QED BY <1>1, ClaimsDistinct DEF Others

\* The script is declared last.
LEMMA ClaimsAre ==
  /\ ClaimsCalls \in Seq(Claims)
  /\ \E n \in DOMAIN ClaimsCalls : ClaimsCalls[n] = ScriptResource
<1> DEFINE a == <<IdentityResource, StorageResource, PlanResource,
                  WorkspaceResource, InsightsResource, FunctionAppResource>>
           b == RoleAssignmentResources
           d == <<RegistrationResource, GraphResource>>
           e == PermissionResources
           f == <<ScriptResource>>
           init == a \o b \o d \o e
<1>1. /\ {IdentityResource, StorageResource, PlanResource, WorkspaceResource,
          InsightsResource, FunctionAppResource, RegistrationResource,
          GraphResource, ScriptResource} \subseteq Claims
      /\ \A n \in {1, 2} : RoleAssignmentResources[n] \in Claims
      /\ \A n \in DOMAIN Permission : PermissionResources[n] \in Claims
  BY DEF Claims
<1>2. b \in Seq(Claims)
  <2>1. Support("Managedidentitycontributor", {"Managedidentity"}) \in Claims
        /\ Support("Deploymentspblobcontributor", {"Storageaccount"}) \in Claims
    BY <1>1 DEF RoleAssignmentResources
  <2> QED BY <2>1 DEF RoleAssignmentResources
<1>3. e \in Seq(Claims)
  <2>1. DOMAIN e = 1 .. Len(Permission) /\ Len(Permission) \in Nat
        /\ DOMAIN Permission = 1 .. Len(Permission)
    BY PermissionsNamed DEF PermissionResources
  <2>2. e \in [1 .. Len(Permission) -> Claims]
    BY <1>1, <2>1 DEF PermissionResources
  <2> QED BY <2>1, <2>2
<1>4. a \in Seq(Claims) /\ d \in Seq(Claims) /\ f \in Seq(Claims)
      /\ Len(f) = 1 /\ f[1] = ScriptResource
  BY <1>1
<1>5. ClaimsCalls = init \o f BY DEF ClaimsCalls
<1> HIDE DEF a, b, d, e, f
<1>6. init \in Seq(Claims)
  <2>1. a \o b \in Seq(Claims) BY <1>2, <1>4, ConcatProperties
  <2>2. (a \o b) \o d \in Seq(Claims) BY <2>1, <1>4, ConcatProperties
  <2> QED BY <2>2, <1>3, ConcatProperties
<1> HIDE DEF init
<1>7. /\ init \o f \in Seq(Claims) /\ Len(init \o f) = Len(init) + 1
      /\ Len(init) \in Nat
      /\ \A i \in 1 .. Len(init) + 1 :
           (init \o f)[i] = IF i <= Len(init) THEN init[i] ELSE f[i - Len(init)]
  <2>1. f \in Seq(Claims) /\ Len(f) = 1 BY <1>4
  <2> HIDE DEF f
  <2>2. /\ init \o f \in Seq(Claims) /\ Len(init \o f) = Len(init) + Len(f)
        /\ \A i \in 1 .. Len(init) + Len(f) :
             (init \o f)[i] = IF i <= Len(init) THEN init[i] ELSE f[i - Len(init)]
    BY <2>1, <1>6, ConcatProperties
  <2>3. Len(init) \in Nat BY <1>6, LenProperties
  <2> QED BY <2>1, <2>2, <2>3
<1>8. Len(init) + 1 \in 1 .. Len(init) + 1 /\ ~(Len(init) + 1 <= Len(init))
      /\ Len(init) + 1 - Len(init) = 1
  BY <1>7
<1>9. (init \o f)[Len(init) + 1] = ScriptResource BY <1>4, <1>7, <1>8
<1>10. Len(init) + 1 \in DOMAIN (init \o f) BY <1>7, <1>8, LenProperties
<1> QED BY <1>5, <1>7, <1>9, <1>10

LEMMA OthersAre ==
  ASSUME NEW p, p.mapping \in BOOLEAN
  PROVE  /\ OtherCalls(p) \in Seq(Others(p)) /\ Len(OtherCalls(p)) \in Nat
         /\ \E n \in 1 .. Len(OtherCalls(p)) : OtherCalls(p)[n] = ApplicationResource
         /\ p.mapping => \E n \in 1 .. Len(OtherCalls(p)) :
                           OtherCalls(p)[n] = ScriptResource
<1> DEFINE O == Others(p)
           a == <<ApplicationResource, ServicePrincipalResource, CredentialResource>>
           b == IF p.mapping THEN ClaimsCalls ELSE <<>>
<1>1. /\ {ApplicationResource, ServicePrincipalResource, CredentialResource} \subseteq O
      /\ p.mapping => Claims \subseteq O
  BY DEF Others
<1>4. b \in Seq(O)
  <2>1. CASE p.mapping
    <3>1. Claims \subseteq O BY <1>1, <2>1
    <3> QED BY <2>1, <3>1, ClaimsAre
  <2>2. CASE ~p.mapping BY <2>2
  <2> QED BY <2>1, <2>2
<1>5. p.mapping => \E n \in DOMAIN b : b[n] = ScriptResource BY ClaimsAre
<1>6. OtherCalls(p) = a \o b BY DEF OtherCalls
<1> HIDE DEF O, b
<1>7. a \in Seq(O) /\ Len(a) = 3 /\ a[1] = ApplicationResource BY <1>1
<1> HIDE DEF a
<1>8. /\ a \o b \in Seq(O) /\ Len(a \o b) = 3 + Len(b) /\ Len(b) \in Nat
      /\ DOMAIN b = 1 .. Len(b)
      /\ (a \o b)[1] = ApplicationResource
      /\ \A n \in 1 .. Len(b) : (a \o b)[3 + n] = b[n]
  <2>1. a \o b \in Seq(O) /\ Len(a \o b) = Len(a) + Len(b)
        /\ \A i \in 1 .. Len(a) + Len(b) :
             (a \o b)[i] = IF i <= Len(a) THEN a[i] ELSE b[i - Len(a)]
    BY <1>4, <1>7, ConcatProperties
  <2>2. Len(b) \in Nat /\ DOMAIN b = 1 .. Len(b) BY <1>4, LenProperties
  <2> QED BY <1>7, <2>1, <2>2
<1>9. p.mapping => \E n \in 1 .. Len(a \o b) : (a \o b)[n] = ScriptResource
  BY <1>5, <1>8
<1>10. \E n \in 1 .. Len(a \o b) : (a \o b)[n] = ApplicationResource BY <1>8
<1> QED BY <1>6, <1>8, <1>9, <1>10 DEF O

\* Two calls for each group.
LEMMA GroupCallsAre ==
  ASSUME NEW p, p.groups \in Seq(Group)
  PROVE  /\ Len(p.groups) \in Nat
         /\ \A k \in 1 .. Len(p.groups) : p.groups[k] \in Group
         /\ DOMAIN GroupCalls(p) = 1 .. 2 * Len(p.groups)
         /\ \A k \in 1 .. Len(p.groups) :
              /\ GroupCalls(p)[2 * k - 1] = GroupResource(p.groups[k])
              /\ GroupCalls(p)[2 * k] = AssignmentResource(p.groups[k])
<1> DEFINE L == Len(p.groups)
<1>1. L \in Nat /\ \A k \in 1 .. L : p.groups[k] \in Group
  BY LenProperties, ElementOfSeq
<1> HIDE DEF L
<1>2. GroupCalls(p) =
        [n \in 1 .. 2 * L |-> IF n % 2 = 1 THEN GroupResource(p.groups[(n + 1) \div 2])
                                           ELSE AssignmentResource(p.groups[(n + 1) \div 2])]
  BY DEF GroupCalls, L
<1>3. ASSUME NEW k \in 1 .. L
      PROVE  /\ GroupCalls(p)[2 * k - 1] = GroupResource(p.groups[k])
             /\ GroupCalls(p)[2 * k] = AssignmentResource(p.groups[k])
  <2>1. /\ 2 * k - 1 \in 1 .. 2 * L /\ 2 * k \in 1 .. 2 * L
        /\ (2 * k - 1) % 2 = 1 /\ (2 * k) % 2 = 0
        /\ (2 * k - 1 + 1) \div 2 = k /\ (2 * k + 1) \div 2 = k
    BY <1>1
  <2> QED BY <1>2, <2>1
<1> QED BY <1>1, <1>2, <1>3 DEF L


\* Of the calls, those of the groups come first, two by two.
CallIs(p, i) ==
  LET c == Calls(p)
  IN \/ \E k \in 1 .. Len(p.groups) : i = 2 * k - 1 /\ c[i] = GroupResource(p.groups[k])
     \/ \E k \in 1 .. Len(p.groups) : i = 2 * k /\ c[i] = AssignmentResource(p.groups[k])
     \/ i > 2 * Len(p.groups) /\ c[i] \in Others(p)

LEMMA CallsAre ==
  ASSUME NEW p, p.groups \in Seq(Group), p.mapping \in BOOLEAN
  PROVE  /\ Len(Calls(p)) \in Nat
         /\ \A k \in 1 .. Len(p.groups) :
              /\ 2 * k <= Len(Calls(p))
              /\ Calls(p)[2 * k - 1] = GroupResource(p.groups[k])
              /\ Calls(p)[2 * k] = AssignmentResource(p.groups[k])
         /\ \A i \in 1 .. Len(Calls(p)) : CallIs(p, i)
         /\ \E i \in 1 .. Len(Calls(p)) : Calls(p)[i] = ApplicationResource
         /\ p.mapping =>
              \E i \in 1 .. Len(Calls(p)) : Calls(p)[i] = ScriptResource
<1> DEFINE L == Len(p.groups)
           G == GroupCalls(p)
           O == OtherCalls(p)
           S == {GroupResource(g) : g \in Group}
                  \cup {AssignmentResource(h) : h \in Group} \cup Others(p)
<1>1. /\ L \in Nat
      /\ \A k \in 1 .. L : p.groups[k] \in Group
      /\ DOMAIN G = 1 .. 2 * L
      /\ \A k \in 1 .. L : G[2 * k - 1] = GroupResource(p.groups[k])
                           /\ G[2 * k] = AssignmentResource(p.groups[k])
  BY GroupCallsAre
<1>2. /\ O \in Seq(Others(p)) /\ Len(O) \in Nat
      /\ \E n \in 1 .. Len(O) : O[n] = ApplicationResource
      /\ p.mapping => \E n \in 1 .. Len(O) : O[n] = ScriptResource
  BY OthersAre
<1>3. Calls(p) = G \o O BY DEF Calls
<1> HIDE DEF L, G, O
<1>4. \A i \in 1 .. 2 * L : \E k \in 1 .. L : i = 2 * k - 1 \/ i = 2 * k
  <2> SUFFICES ASSUME NEW i \in 1 .. 2 * L
               PROVE  \E k \in 1 .. L : i = 2 * k - 1 \/ i = 2 * k
    OBVIOUS
  <2>1. (i + 1) \div 2 \in 1 .. L
        /\ (i = 2 * ((i + 1) \div 2) - 1 \/ i = 2 * ((i + 1) \div 2))
    BY <1>1
  <2> QED BY <2>1
<1>5. G \in Seq(S) /\ Len(G) = 2 * L
  <2>1. \A g \in Group : GroupResource(g) \in S /\ AssignmentResource(g) \in S
    OBVIOUS
  <2> HIDE DEF S
  <2>2. \A i \in 1 .. 2 * L : G[i] \in S BY <1>1, <1>4, <2>1
  <2>3. 2 * L \in Nat BY <1>1
  <2>4. G = [i \in 1 .. 2 * L |-> G[i]] BY <1>1 DEF G, GroupCalls, L
  <2> HIDE DEF G
  <2>5. G \in [1 .. 2 * L -> S] BY <2>2, <2>4
  <2> QED BY <2>3, <2>5
<1>6. O \in Seq(S)
  <2>1. Others(p) \subseteq S OBVIOUS
  <2> HIDE DEF S
  <2>2. O \in [1 .. Len(O) -> Others(p)] BY <1>2, LenProperties
  <2>3. O \in [1 .. Len(O) -> S] BY <2>1, <2>2
  <2> QED BY <1>2, <2>3
<1> HIDE DEF S
<1>7. /\ Len(Calls(p)) = 2 * L + Len(O)
      /\ \A i \in 1 .. 2 * L + Len(O) :
           Calls(p)[i] = IF i <= 2 * L THEN G[i] ELSE O[i - 2 * L]
  BY <1>3, <1>5, <1>6, ConcatProperties
<1>8. ASSUME NEW k \in 1 .. L
      PROVE  /\ 2 * k <= Len(Calls(p))
             /\ Calls(p)[2 * k - 1] = GroupResource(p.groups[k])
             /\ Calls(p)[2 * k] = AssignmentResource(p.groups[k])
  <2>1. /\ 2 * k \in 1 .. 2 * L + Len(O) /\ 2 * k <= 2 * L
        /\ 2 * k - 1 \in 1 .. 2 * L + Len(O) /\ 2 * k - 1 <= 2 * L
        /\ 2 * k <= 2 * L + Len(O)
    BY <1>1, <1>2
  <2> QED BY <1>1, <1>7, <2>1
<1>9. ASSUME NEW i \in 1 .. Len(Calls(p)) PROVE CallIs(p, i)
  <2>1. CASE i <= 2 * L
    <3>1. PICK k \in 1 .. L : i = 2 * k - 1 \/ i = 2 * k
      <4>1. i \in 1 .. 2 * L BY <2>1, <1>1, <1>2, <1>7
      <4> QED BY <1>4, <4>1
    <3> QED BY <1>8, <3>1 DEF CallIs, L
  <2>2. CASE ~(i <= 2 * L)
    <3>1. i - 2 * L \in 1 .. Len(O) /\ i > 2 * L
          /\ i \in 1 .. 2 * L + Len(O)
      BY <1>1, <1>2, <1>7, <2>2
    <3>2. O[i - 2 * L] \in Others(p) BY <1>2, <3>1, ElementOfSeq
    <3>3. Calls(p)[i] = O[i - 2 * L] BY <1>7, <2>2, <3>1
    <3> QED BY <3>1, <3>2, <3>3 DEF CallIs, L
  <2> QED BY <2>1, <2>2
<1>10. ASSUME NEW n \in 1 .. Len(O)
       PROVE  2 * L + n \in 1 .. Len(Calls(p)) /\ Calls(p)[2 * L + n] = O[n]
  <2> DEFINE i == 2 * L + n
  <2>1. i \in 1 .. 2 * L + Len(O) /\ ~(i <= 2 * L) /\ i - 2 * L = n
    BY <1>1, <1>2
  <2> HIDE DEF i
  <2>2. Calls(p)[i] = O[i - 2 * L] BY <1>7, <2>1
  <2>3. i \in 1 .. Len(Calls(p)) /\ Calls(p)[i] = O[n] BY <1>7, <2>1, <2>2
  <2> QED BY <2>3 DEF i
<1>11. Len(Calls(p)) \in Nat BY <1>1, <1>2, <1>7
<1>12. \E i \in 1 .. Len(Calls(p)) : Calls(p)[i] = ApplicationResource
  BY <1>2, <1>10
<1>13. p.mapping => \E i \in 1 .. Len(Calls(p)) : Calls(p)[i] = ScriptResource
  BY <1>2, <1>10
<1> QED BY <1>8, <1>9, <1>11, <1>12, <1>13 DEF L

\* What the template of an application holds.
GroupKept(p, t, g) ==
  GroupId[g] \in DOMAIN t /\ t[GroupId[g]] = GroupResource(g)
AssignmentKept(p, t, g) ==
  AssignmentId[g] \in DOMAIN t /\ t[AssignmentId[g]] = AssignmentResource(g)
Declares(p, t, id) ==
  /\ t[id].kind = "application" => id = "Application"
  /\ t[id].kind = "script" => id = "Wirecustomclaimsextension"
  /\ t[id].kind = "group" =>
       \E g \in Groups(p) : t[id] = GroupResource(g)
  /\ t[id].kind = "assignment" =>
       \E g \in Groups(p) :
         /\ t[id] = AssignmentResource(g) /\ GroupId[g] \in DOMAIN t
         /\ t[GroupId[g]].kind = "group" => t[GroupId[g]] = GroupResource(g)
Sound(p, t) ==
  /\ "Application" \in DOMAIN t /\ t["Application"] = ApplicationResource
  /\ p.mapping => "Wirecustomclaimsextension" \in DOMAIN t
  /\ "Wirecustomclaimsextension" \in DOMAIN t =>
       t["Wirecustomclaimsextension"] = ScriptResource
  /\ \A id \in DOMAIN t : Declares(p, t, id)
  /\ \A n \in 1 .. Len(p.groups) :
       Taken(p, n) \/ (GroupKept(p, t, p.groups[n]) /\ AssignmentKept(p, t, p.groups[n]))

\* Group and assignment identifiers are apart from the others.
LEMMA GroupsApart ==
  ASSUME NEW p, NEW r \in Others(p), NEW g \in Group
  PROVE  r.id # GroupId[g] /\ r.id # AssignmentId[g]
<1>1. r.id \in Fixed \cup Permissions BY OthersDistinct DEF Distinct
<1>2. {GroupId[g], AssignmentId[g]} \cap (Fixed \cup Permissions) = {}
  BY DeploymentAssumption
<1> QED BY <1>1, <1>2

LEMMA GroupNames ==
  ASSUME NEW g \in Group, NEW h \in Group
  PROVE  /\ GroupId[g] # AssignmentId[g]
         /\ GroupId[g] \notin Fixed /\ AssignmentId[g] \notin Fixed
         /\ GroupId[g] = GroupId[h] => AssignmentId[g] = AssignmentId[h]
BY DeploymentAssumption

\* The kinds and identifiers of the groups' resources.
LEMMA GroupFields ==
  ASSUME NEW g
  PROVE  /\ GroupResource(g).id = GroupId[g] /\ GroupResource(g).kind = "group"
         /\ GroupResource(g).group = g
         /\ AssignmentResource(g).id = AssignmentId[g]
         /\ AssignmentResource(g).kind = "assignment"
         /\ AssignmentResource(g).group = g
         /\ AssignmentResource(g).needs = {"Serviceprincipal", GroupId[g]}
BY DEF GroupResource, AssignmentResource, Resource

\* One identifier of one application.
LEMMA DeclaresAll ==
  ASSUME NEW p, p.groups \in Seq(Group), p.mapping \in BOOLEAN,
         NEW t, Holds(Calls(p), Len(Calls(p)), t), NEW id \in DOMAIN t
  PROVE  Declares(p, t, id)
<1> DEFINE L == Len(p.groups)
           N == Len(Calls(p))
           c == Calls(p)
<1>1. /\ L \in Nat /\ N \in Nat
      /\ \A k \in 1 .. L : p.groups[k] \in Group /\ p.groups[k] \in Groups(p)
      /\ \A k \in 1 .. L : /\ 2 * k <= N
                           /\ c[2 * k - 1] = GroupResource(p.groups[k])
                           /\ c[2 * k] = AssignmentResource(p.groups[k])
      /\ \A i \in 1 .. N : CallIs(p, i)
  <2>1. DOMAIN p.groups = 1 .. L /\ L \in Nat BY LenProperties
  <2> QED BY <2>1, CallsAre, ElementOfSeq DEF Groups
<1>2. /\ DOMAIN t = {c[i].id : i \in 1 .. N}
      /\ \A x \in DOMAIN t : Latter(c, N, x, t[x])
  BY DEF Holds
<1>3. \A i \in 1 .. N : CallIs(p, i) =
        (\/ \E k \in 1 .. L : i = 2 * k - 1 /\ c[i] = GroupResource(p.groups[k])
         \/ \E k \in 1 .. L : i = 2 * k /\ c[i] = AssignmentResource(p.groups[k])
         \/ i > 2 * L /\ c[i] \in Others(p))
  BY DEF CallIs
<1> HIDE DEF L, N, c
<1>4. PICK i \in 1 .. N : c[i].id = id /\ t[id] = c[i]
                          /\ \A j \in i + 1 .. N : c[j].id # id
  BY <1>2 DEF Latter
<1>5. CASE \E k \in 1 .. L : i = 2 * k - 1 /\ c[i] = GroupResource(p.groups[k])
  <2>1. PICK k \in 1 .. L : c[i] = GroupResource(p.groups[k]) BY <1>5
  <2>2. p.groups[k] \in Groups(p) BY <1>1
  <2>3. t[id].kind = "group" BY <1>4, <2>1, GroupFields
  <2> QED BY <1>4, <2>1, <2>2, <2>3 DEF Declares
<1>6. CASE \E k \in 1 .. L : i = 2 * k /\ c[i] = AssignmentResource(p.groups[k])
  <2>1. PICK k \in 1 .. L : i = 2 * k /\ c[i] = AssignmentResource(p.groups[k])
    BY <1>6
  <2> DEFINE g == p.groups[k]
  <2>2. g \in Group /\ g \in Groups(p) /\ c[2 * k - 1] = GroupResource(g)
        /\ 2 * k - 1 \in 1 .. N
    <3>1. L \in Nat /\ N \in Nat BY <1>1
    <3>2. k \in Nat /\ k >= 1 BY <3>1
    <3>3. 2 * k <= N BY <1>1, Zenon
    <3>4. 2 * k - 1 \in 1 .. N BY <3>1, <3>2, <3>3
    <3> QED BY <1>1, <3>4
  <2> HIDE DEF g
  <2>3. c[i] = AssignmentResource(g) BY <2>1 DEF g
  <2>4. id = AssignmentId[g] BY <1>4, <2>3, GroupFields
  <2>5. c[2 * k - 1].id = GroupId[g] BY <2>2, GroupFields
  <2>6. GroupId[g] \in DOMAIN t BY <1>2, <2>2, <2>5
  <2>7. ASSUME t[GroupId[g]].kind = "group"
        PROVE  t[GroupId[g]] = GroupResource(g)
    <3>1. PICK j \in 1 .. N :
            /\ c[j].id = GroupId[g] /\ t[GroupId[g]] = c[j]
            /\ \A m \in j + 1 .. N : c[m].id # GroupId[g]
      BY <1>2, <2>6 DEF Latter
    <3>2. 2 * k - 1 <= j
      BY <1>1, <2>2, <2>5, <3>1
    <3>3. PICK m \in 1 .. L : j = 2 * m - 1 /\ c[j] = GroupResource(p.groups[m])
      <4>1. c[j].kind = "group" BY <2>7, <3>1
      <4>2. \A x \in Others(p) : x.kind # "group"
        BY OthersDistinct DEF Distinct
      <4>3. \A x : AssignmentResource(x).kind # "group" BY GroupFields
      <4> QED BY <1>1, <1>3, <4>1, <4>2, <4>3
    <3>4. p.groups[m] \in Group /\ 2 * m \in 1 .. N
          /\ c[2 * m] = AssignmentResource(p.groups[m])
      BY <1>1
    <3>5. GroupId[p.groups[m]] = GroupId[g] BY <3>1, <3>3, GroupFields
    <3>6. c[2 * m].id = id BY <2>2, <2>4, <3>4, <3>5, GroupNames, GroupFields
    <3>7. 2 * m <= i BY <1>1, <1>4, <3>4, <3>6
    <3>8. m = k BY <2>1, <3>2, <3>3, <3>7
    <3> QED BY <3>1, <3>3, <3>8 DEF g
  <2>8. t[id] = AssignmentResource(g) /\ t[id].kind = "assignment"
    BY <1>4, <2>3, GroupFields
  <2> QED BY <2>2, <2>6, <2>7, <2>8 DEF Declares
<1>7. CASE c[i] \in Others(p)
  <2>1. Distinct(c[i]) BY <1>7, OthersDistinct
  <2> QED BY <1>4, <2>1 DEF Distinct, Declares
<1> QED BY <1>1, <1>3, <1>5, <1>6, <1>7


\* A group keeps its resources unless a later one takes an identifier of its.
LEMMA KeptAll ==
  ASSUME NEW p, p.groups \in Seq(Group), p.mapping \in BOOLEAN,
         NEW t, Holds(Calls(p), Len(Calls(p)), t),
         NEW n \in 1 .. Len(p.groups), ~Taken(p, n)
  PROVE  GroupKept(p, t, p.groups[n]) /\ AssignmentKept(p, t, p.groups[n])
<1> DEFINE L == Len(p.groups)
           N == Len(Calls(p))
           c == Calls(p)
           g == p.groups[n]
<1>1. /\ L \in Nat /\ N \in Nat
      /\ \A k \in 1 .. L : p.groups[k] \in Group
      /\ \A k \in 1 .. L : /\ 2 * k <= N
                           /\ c[2 * k - 1] = GroupResource(p.groups[k])
                           /\ c[2 * k] = AssignmentResource(p.groups[k])
      /\ \A i \in 1 .. N : CallIs(p, i)
  <2>1. L \in Nat BY LenProperties
  <2> QED BY <2>1, CallsAre, ElementOfSeq
<1>2. /\ DOMAIN t = {c[i].id : i \in 1 .. N}
      /\ \A x \in DOMAIN t : Latter(c, N, x, t[x])
  BY DEF Holds
<1>3. \A i \in 1 .. N : CallIs(p, i) =
        (\/ \E k \in 1 .. L : i = 2 * k - 1 /\ c[i] = GroupResource(p.groups[k])
         \/ \E k \in 1 .. L : i = 2 * k /\ c[i] = AssignmentResource(p.groups[k])
         \/ i > 2 * L /\ c[i] \in Others(p))
  BY DEF CallIs
<1>4. \A k \in n + 1 .. L :
        {GroupId[g], AssignmentId[g]}
          \cap {GroupId[p.groups[k]], AssignmentId[p.groups[k]]} = {}
  BY DEF Taken
<1>5. g \in Group /\ n \in 1 .. L BY <1>1
<1> HIDE DEF L, N, c, g
<1>6. /\ n \in Nat /\ 2 * n \in 1 .. N /\ 2 * n - 1 \in 1 .. N
      /\ c[2 * n - 1] = GroupResource(g) /\ c[2 * n] = AssignmentResource(g)
  <2>1. L \in Nat /\ N \in Nat BY <1>1
  <2>2. n \in Nat /\ n >= 1 BY <2>1, <1>5
  <2>3. 2 * n <= N /\ c[2 * n - 1] = GroupResource(g) /\ c[2 * n] = AssignmentResource(g)
    BY <1>1, <1>5, Zenon DEF g
  <2> QED BY <2>1, <2>2, <2>3
\* A call after the group's own that has an identifier of its.
<1>7. ASSUME NEW i \in 1 .. N, i >= 2 * n - 1, c[i].id \in {GroupId[g], AssignmentId[g]}
      PROVE  \/ i = 2 * n - 1
             \/ i = 2 * n
  <2>1. CASE \E k \in 1 .. L : i = 2 * k - 1 /\ c[i] = GroupResource(p.groups[k])
    <3>1. PICK k \in 1 .. L : i = 2 * k - 1 /\ c[i] = GroupResource(p.groups[k])
      BY <2>1
    <3>2. c[i].id = GroupId[p.groups[k]] BY <3>1, GroupFields
    <3>3. ~(k \in n + 1 .. L) BY <1>4, <1>7, <3>2
    <3>4. k = n BY <1>1, <1>6, <1>7, <3>1, <3>3
    <3> QED BY <3>1, <3>4
  <2>2. CASE \E k \in 1 .. L : i = 2 * k /\ c[i] = AssignmentResource(p.groups[k])
    <3>1. PICK k \in 1 .. L : i = 2 * k /\ c[i] = AssignmentResource(p.groups[k])
      BY <2>2
    <3>2. c[i].id = AssignmentId[p.groups[k]] BY <3>1, GroupFields
    <3>3. ~(k \in n + 1 .. L) BY <1>4, <1>7, <3>2
    <3>4. k = n BY <1>1, <1>6, <1>7, <3>1, <3>3
    <3> QED BY <3>1, <3>4
  <2>3. CASE c[i] \in Others(p) BY <2>3, <1>5, <1>7, GroupsApart
  <2> QED BY <1>1, <1>3, <2>1, <2>2, <2>3
<1>8. ASSUME NEW id, NEW o \in {2 * n - 1, 2 * n}, c[o].id = id,
             id \in {GroupId[g], AssignmentId[g]}
      PROVE  id \in DOMAIN t /\ t[id] = c[o]
  <2>1. id \in DOMAIN t BY <1>2, <1>6, <1>8
  <2>2. PICK i \in 1 .. N : c[i].id = id /\ t[id] = c[i]
                            /\ \A j \in i + 1 .. N : c[j].id # id
    BY <1>2, <2>1 DEF Latter
  <2>3. i >= o BY <1>1, <1>6, <1>8, <2>2
  <2>4. i = 2 * n - 1 \/ i = 2 * n BY <1>6, <1>7, <1>8, <2>2, <2>3
  <2>5. c[2 * n - 1].id # c[2 * n].id BY <1>5, <1>6, GroupFields, GroupNames
  <2>6. i = o BY <1>6, <1>8, <2>2, <2>4, <2>5
  <2> QED BY <2>1, <2>2, <2>6
<1>9. c[2 * n - 1].id = GroupId[g] /\ c[2 * n].id = AssignmentId[g]
  BY <1>6, GroupFields
<1>10. GroupKept(p, t, g) BY <1>6, <1>8, <1>9 DEF GroupKept
<1>11. AssignmentKept(p, t, g) BY <1>6, <1>8, <1>9 DEF AssignmentKept
<1> QED BY <1>10, <1>11 DEF g

\* The resources that are declared once.
LEMMA FixedOnce ==
  ASSUME NEW p, p.groups \in Seq(Group), p.mapping \in BOOLEAN,
         NEW t, Holds(Calls(p), Len(Calls(p)), t)
  PROVE  /\ "Application" \in DOMAIN t /\ t["Application"] = ApplicationResource
         /\ p.mapping => "Wirecustomclaimsextension" \in DOMAIN t
         /\ "Wirecustomclaimsextension" \in DOMAIN t =>
              t["Wirecustomclaimsextension"] = ScriptResource
<1> DEFINE N == Len(Calls(p))
           c == Calls(p)
<1>1. /\ DOMAIN t = {c[i].id : i \in 1 .. N}
      /\ \A x \in DOMAIN t : \E i \in 1 .. N : t[x] = c[i] /\ c[i].id = x
  BY DEF Holds, Latter
<1>2. /\ \E i \in 1 .. N : c[i] = ApplicationResource
      /\ p.mapping => \E i \in 1 .. N : c[i] = ScriptResource
  BY CallsAre
<1>3. \A k \in 1 .. Len(p.groups) : p.groups[k] \in Group BY ElementOfSeq
<1>4. "Application" \in Fixed /\ "Wirecustomclaimsextension" \in Fixed BY DEF Fixed
<1>5. ASSUME NEW i \in 1 .. N, c[i].id \in Fixed
      PROVE  c[i] \in Others(p)
  <2>1. CallIs(p, i) BY CallsAre
  <2>2. \A k \in 1 .. Len(p.groups) :
          c[i] # GroupResource(p.groups[k]) /\ c[i] # AssignmentResource(p.groups[k])
    BY <1>3, <1>5, GroupFields, GroupNames
  <2> QED BY <2>1, <2>2 DEF CallIs
<1>6. /\ ApplicationResource.id = "Application"
      /\ ScriptResource.id = "Wirecustomclaimsextension"
  BY DEF ApplicationResource, ScriptResource, Resource
<1> HIDE DEF N, c
<1>7. ASSUME NEW id \in Fixed, id \in DOMAIN t
      PROVE  t[id] \in Others(p) /\ t[id].id = id
  BY <1>1, <1>5, <1>7
<1>8. "Application" \in DOMAIN t BY <1>1, <1>2, <1>6
<1>9. t["Application"] = ApplicationResource
  BY <1>4, <1>7, <1>8, OthersDistinct DEF Distinct
<1>10. p.mapping => "Wirecustomclaimsextension" \in DOMAIN t
  BY <1>1, <1>2, <1>6
<1>11. "Wirecustomclaimsextension" \in DOMAIN t =>
         t["Wirecustomclaimsextension"] = ScriptResource
  BY <1>4, <1>7, OthersDistinct DEF Distinct
<1> QED BY <1>8, <1>9, <1>10, <1>11

\* The template of every application is sound.
LEMMA TemplateSound ==
  ASSUME NEW p \in Options
  PROVE  /\ Sound(p, Templates[p]) /\ p.groups \in Seq(Group)
         /\ p.mapping \in BOOLEAN /\ p.code \in Nat
         /\ DOMAIN p.groups = 1 .. Len(p.groups) /\ Len(p.groups) \in Nat
<1>1. p.groups \in Seq(Group) /\ p.mapping \in BOOLEAN /\ p.code \in Nat
  BY DeploymentAssumption DEF Props
<1>2. DOMAIN p.groups = 1 .. Len(p.groups) /\ Len(p.groups) \in Nat
  BY <1>1, LenProperties
<1>3. Holds(Calls(p), Len(Calls(p)), Template(p))
  BY <1>1, CallsAre, TemplateHolds
<1>4. Templates[p] = Template(p) BY DEF Templates
<1> QED BY <1>1, <1>2, <1>3, <1>4, DeclaresAll, KeptAll, FixedOnce DEF Sound

-----------------------------------------------------------------------------
(* The inductive invariant                                                 *)

Invocations == [Request -> [step : Step, tries : 0 .. MaxRetries, props : Options]]
Outcome == {"upload", "setting", "success"}

\* No request has been made but those that are counted.
Fresh == \A r \in Request : r > stack.request => inv[r].step = "none"
\* The invocation of the last request deploys what is asked for, and the stack
\* is ready when it is over.
Asked ==
  stack.phase \in {"creating", "updating", "undoing", "ready"} =>
    /\ stack.request # 0 /\ inv[stack.request].props = stack.target
    /\ stack.phase = "ready" =>
         stack.props = stack.target /\ inv[stack.request].step = "over"
\* An invocation that waits for Azure waits for its own deployment.
Owned ==
  \A r \in Request : inv[r].step = "deploying" =>
    dep.status = "running" /\ dep.owner = r /\ dep.props = inv[r].props
\* What the invocation of the last request has behind it, step by step.
Packaged(code) == azure.setting /\ azure.blob = code
Latest ==
  \A r \in Request :
    (r = stack.request /\ ~meddled /\ inv[r].step \in Outcome) =>
      /\ dep.status = "ok" /\ dep.props = inv[r].props
      /\ inv[r].step = "setting" => azure.blob = inv[r].props.code
      /\ (inv[r].step = "success" /\ inv[r].props.mapping) => Packaged(inv[r].props.code)
\* What a stack that is ready has, if no earlier request has meddled.
Finished ==
  (stack.phase = "ready" /\ ~meddled) =>
    /\ dep.status # "running" /\ azure.roles = Groups(stack.props)
    /\ stack.props.mapping => Packaged(stack.props.code)
\* What the deployment has provided.
Applied ==
  /\ "Application" \in dep.done => azure.roles = Groups(dep.props)
  /\ dep.status = "ok" => dep.done = DOMAIN template
Served ==
  /\ \A id \in dep.done :
       /\ template[id].kind = "group" => template[id].group \in azure.groups
       /\ template[id].kind = "assignment" =>
            <<Principal(id).group, template[id].group>> \in azure.assigned
  /\ \A a \in azure.assigned : a[1] = a[2]
\* What the script has made so far, and what the one that counts has made.
Explained == azure.wired = Wired \/ dep.failed \/ dep.late
Scripted ==
  /\ dep.script > 0 => ~dep.kept
  /\ (dep.script > 0 /\ Running) => Of("script") # {}
  /\ dep.script > 0 =>
       \/ \A n \in 1 .. dep.script - 1 : ScriptSteps[n] \in azure.wired
       \/ dep.failed \/ dep.late
  /\ dep.kept => Explained
  /\ "Wirecustomclaimsextension" \in dep.done => Explained

Side  == Fresh /\ Asked /\ Owned /\ Latest /\ Finished
Cloud == Applied /\ Served /\ Scripted
Inv   == TypeOK /\ Side /\ Cloud

\* An invocation comes to a step that promises nothing.
Moves(r, i) ==
  /\ i \in Invocations /\ \A q \in Request : q # r => i[q] = inv[q]
  /\ i[r].props = inv[r].props
  /\ i[r].step \notin Outcome \cup {"none", "deploying"}

-----------------------------------------------------------------------------
(* Initial states                                                          *)

LEMMA NoProps == NoInvocation.props \in Options /\ NoInvocation.step = "none"
                 /\ NoInvocation.tries = 0
<1>1. \E p \in Options : TRUE BY DeploymentAssumption
<1>2. (CHOOSE p \in Options : TRUE) \in Options BY <1>1
<1> QED BY <1>2 DEF NoInvocation

LEMMA InitInv == Init => Inv
<1> SUFFICES ASSUME Init PROVE Inv OBVIOUS
<1> DEFINE p == NoInvocation.props
<1>1. p \in Options /\ 1 \in Request /\ MaxRetries \in Nat /\ MaxFaults \in Nat
      /\ MaxRequests \in Nat
  BY NoProps, DeploymentAssumption DEF Request
<1>2. \A r \in Request : inv[r] = NoInvocation BY DEF Init
<1>3. TypeOK
  <2>1. stack \in [phase : {"none", "creating", "ready", "updating", "undoing",
                            "gone", "stuck"},
                   props : Options, target : Options, request : 0 .. MaxRequests]
    BY <1>1 DEF Init
  <2>2. inv \in [Request -> [step : Step, tries : 0 .. MaxRetries, props : Options]]
    <3>1. NoInvocation \in [step : Step, tries : 0 .. MaxRetries, props : Options]
      BY <1>1, NoProps DEF NoInvocation, Step
    <3> QED BY <3>1 DEF Init
  <2>3. dep \in [status : {"none", "running", "ok", "failed"}, owner : Request,
                 props : Options, done : SUBSET DOMAIN template,
                 script : 0 .. Len(ScriptSteps), kept : BOOLEAN, failed : BOOLEAN,
                 late : BOOLEAN]
    <3>1. 0 \in 0 .. Len(ScriptSteps) BY DEF ScriptSteps
    <3> HIDE DEF p
    <3> QED BY <1>1, <3>1 DEF Init, p
  <2>4. azure \in [roles : SUBSET Group, groups : SUBSET Group,
                   assigned : SUBSET (Group \X Group), principal : BOOLEAN,
                   setting : BOOLEAN, blob : Nat, wired : SUBSET Wired]
    <3> DEFINE Pairs == Group \X Group
    <3>1. {} \in SUBSET Group /\ {} \in SUBSET Pairs /\ {} \in SUBSET Wired
          /\ 0 \in Nat
      OBVIOUS
    <3> HIDE DEF Pairs
    <3>2. azure = [roles |-> {}, groups |-> {}, assigned |-> {}, principal |-> FALSE,
                   setting |-> FALSE, blob |-> 0, wired |-> {}]
      BY DEF Init
    <3>3. azure \in [roles : SUBSET Group, groups : SUBSET Group,
                     assigned : SUBSET Pairs, principal : BOOLEAN,
                     setting : BOOLEAN, blob : Nat, wired : SUBSET Wired]
      BY <3>1, <3>2
    <3> QED BY <3>3 DEF Pairs
  <2>5. meddled \in BOOLEAN /\ faults \in 0 .. MaxFaults
    <3>1. meddled = FALSE /\ faults = 0 BY DEF Init
    <3>2. MaxFaults \in Nat BY <1>1
    <3>3. meddled \in BOOLEAN BY <3>1, Zenon
    <3>4. faults \in 0 .. MaxFaults BY <3>1, <3>2
    <3> QED BY <3>3, <3>4
  <2> QED BY <2>1, <2>2, <2>3, <2>4, <2>5 DEF TypeOK
<1>4. Side
  <2>1. stack.phase = "none" BY DEF Init
  <2> QED BY <1>2, <2>1, NoProps DEF Side, Fresh, Asked, Owned, Latest, Finished, Outcome
<1>5. Cloud
  <2>1. dep.done = {} /\ dep.status = "none" /\ dep.script = 0 /\ dep.kept = FALSE
        /\ azure.assigned = {}
    BY DEF Init
  <2> QED BY <2>1 DEF Cloud, Applied, Served, Scripted
<1> QED BY <1>3, <1>4, <1>5 DEF Inv

-----------------------------------------------------------------------------
(* Steps                                                                   *)

\* What TypeOK says, part by part.
LEMMA Typed ==
  ASSUME TypeOK
  PROVE  /\ stack.props \in Options /\ stack.target \in Options
         /\ stack.request \in Nat /\ stack.request <= MaxRequests
         /\ MaxRequests \in Nat /\ MaxRetries \in Nat /\ MaxFaults \in Nat
         /\ Request = 1 .. MaxRequests
         /\ inv \in Invocations
         /\ \A r \in Request : /\ inv[r].step \in Step /\ inv[r].props \in Options
                               /\ inv[r].tries \in Nat /\ inv[r].tries <= MaxRetries
         /\ dep.props \in Options /\ dep.done \subseteq DOMAIN template
         /\ dep.owner \in Request /\ dep.script \in Nat
         /\ azure.wired \subseteq Wired
         /\ faults \in Nat /\ meddled \in BOOLEAN
<1>1. MaxRequests \in Nat /\ MaxRetries \in Nat /\ MaxFaults \in Nat
  BY DeploymentAssumption
<1>2. Len(ScriptSteps) = 7 BY DEF ScriptSteps
<1>3. dep.script \in Nat BY <1>2 DEF TypeOK
<1>4. \A r \in Request : inv[r] \in [step : Step, tries : 0 .. MaxRetries, props : Options]
  BY DEF TypeOK
<1>5. inv \in Invocations BY DEF TypeOK, Invocations
<1>6. stack.request \in 0 .. MaxRequests /\ faults \in 0 .. MaxFaults BY DEF TypeOK
<1>7. stack.props \in Options /\ stack.target \in Options /\ meddled \in BOOLEAN
      /\ dep.props \in Options /\ dep.done \in SUBSET DOMAIN template
      /\ dep.owner \in Request /\ azure.wired \in SUBSET Wired
  BY DEF TypeOK
<1>8. \A r \in Request : /\ inv[r].step \in Step /\ inv[r].props \in Options
                         /\ inv[r].tries \in Nat /\ inv[r].tries <= MaxRetries
  BY <1>1, <1>4
<1> QED BY <1>1, <1>3, <1>5, <1>6, <1>7, <1>8 DEF Request

\* The Azure side does not see what the lambda and CloudFormation do.
LEMMA CloudKept ==
  ASSUME Cloud, UNCHANGED <<dep, azure>>
  PROVE  Cloud'
BY DEF Cloud, Applied, Served, Scripted, Explained, template, Principal, Of, Ready,
       Running

\* The lambda and CloudFormation do not see a deployment proceed.
LEMMA SideKept ==
  ASSUME Side, Running, UNCHANGED <<stack, inv, meddled>>,
         dep'.status = dep.status, dep'.owner = dep.owner, dep'.props = dep.props
  PROVE  Side'
<1>1. dep.status = "running" BY DEF Running
<1>2. Fresh' /\ Asked' BY DEF Side, Fresh, Asked
<1>3. Owned' BY DEF Side, Owned
<1>4. Latest' BY <1>1 DEF Side, Latest, Packaged
<1>5. Finished' BY <1>1 DEF Side, Finished, Packaged
<1> QED BY <1>2, <1>3, <1>4, <1>5 DEF Side

\* The steps an invocation comes to when it raises, or goes on.
LEMMA AgainMoves ==
  ASSUME TypeOK, NEW r \in Request
  PROVE  Moves(r, Again(r))
<1>1. inv \in Invocations /\ MaxRetries \in Nat
      /\ inv[r].tries \in Nat /\ inv[r].tries <= MaxRetries
  BY Typed
<1>2. CASE inv[r].tries < MaxRetries
  <2> DEFINE i == [inv EXCEPT ![r].step = "login", ![r].tries = @ + 1]
  <2>1. Again(r) = i BY <1>2 DEF Again
  <2>2. inv[r].tries + 1 \in 0 .. MaxRetries /\ "login" \in Step
    BY <1>1, <1>2 DEF Step
  <2>3. i \in Invocations BY <1>1, <2>2 DEF Invocations
  <2>4. /\ \A q \in Request : q # r => i[q] = inv[q]
        /\ i[r].props = inv[r].props /\ i[r].step = "login"
    BY <1>1 DEF Invocations
  <2> HIDE DEF i
  <2> QED BY <2>1, <2>3, <2>4 DEF Moves, Outcome
<1>3. CASE ~(inv[r].tries < MaxRetries)
  <2> DEFINE i == [inv EXCEPT ![r].step = "over"]
  <2>1. Again(r) = i BY <1>3 DEF Again, GoTo
  <2>2. i \in Invocations BY <1>1 DEF Invocations, Step
  <2>3. /\ \A q \in Request : q # r => i[q] = inv[q]
        /\ i[r].props = inv[r].props /\ i[r].step = "over"
    BY <1>1 DEF Invocations
  <2> HIDE DEF i
  <2> QED BY <2>1, <2>2, <2>3 DEF Moves, Outcome
<1> QED BY <1>2, <1>3

LEMMA GoToIs ==
  ASSUME TypeOK, NEW r \in Request, NEW s \in Step
  PROVE  /\ GoTo(r, s) \in Invocations
         /\ \A q \in Request : q # r => GoTo(r, s)[q] = inv[q]
         /\ GoTo(r, s)[r].props = inv[r].props /\ GoTo(r, s)[r].step = s
<1>1. inv \in Invocations BY Typed
<1> QED BY <1>1 DEF GoTo, Invocations

LEMMA GoToMoves ==
  ASSUME TypeOK, NEW r \in Request, NEW s \in {"submit", "blocked", "resubmit", "over"}
  PROVE  Moves(r, GoTo(r, s))
<1>1. s \in Step BY DEF Step
<1> QED BY <1>1, GoToIs DEF Moves, Outcome

LEMMA FaultTyped ==
  ASSUME TypeOK, faults' = faults \/ Fault
  PROVE  faults' \in 0 .. MaxFaults
<1>1. faults \in 0 .. MaxFaults /\ MaxFaults \in Nat BY Typed DEF TypeOK
<1> QED BY <1>1 DEF Fault

\* An invocation moves, and CloudFormation does not hear of it.
LEMMA Quiet ==
  ASSUME Inv, NEW r \in Request, inv[r].step \notin {"none", "over"},
         Moves(r, inv'), UNCHANGED <<stack, dep, azure, meddled>>,
         faults' \in 0 .. MaxFaults
  PROVE  Inv'
<1>1. Cloud' BY CloudKept DEF Inv
<1>2. TypeOK'
  <2>1. inv' \in Invocations BY DEF Moves
  <2> QED BY <2>1 DEF Inv, TypeOK, Invocations, template
<1>3. Request = 1 .. MaxRequests /\ stack.request \in Nat BY Typed DEF Inv
<1>4. Side'
  <2>1. \A q \in Request : \/ inv'[q] = inv[q]
                           \/ q = r /\ inv'[q].props = inv[q].props
                              /\ inv'[q].step \notin Outcome \cup {"none", "deploying"}
    BY DEF Moves
  <2>2. ~(r > stack.request) BY DEF Inv, Side, Fresh
  <2>3. Fresh' BY <2>1, <2>2 DEF Inv, Side, Fresh
  <2>4. Asked'
    <3>1. stack.request # 0 => stack.request \in Request
      BY <1>3, Typed DEF Inv
    <3> QED BY <2>1, <3>1 DEF Inv, Side, Asked
  <2>5. Owned' BY <2>1 DEF Inv, Side, Owned
  <2>6. Latest' BY <2>1 DEF Inv, Side, Latest, Packaged
  <2>7. Finished' BY DEF Inv, Side, Finished, Packaged
  <2> QED BY <2>3, <2>4, <2>5, <2>6, <2>7 DEF Side
<1> QED BY <1>1, <1>2, <1>4 DEF Inv

\* CloudFormation asks: the invocation of the new request starts.
LEMMA Asks ==
  ASSUME Inv, NEW i, NEW p \in Options, stack.request < MaxRequests,
         NEW phase \in {"creating", "updating", "undoing"},
         stack' = [stack EXCEPT !.phase = phase, !.target = p, !.request = @ + 1],
         i \in Invocations,
         \A q \in Request : \/ i[q] = inv[q]
                            \/ i[q].step \notin Outcome \cup {"none", "deploying"}
                               /\ q <= stack.request,
         inv' = [i EXCEPT ![stack.request + 1] =
                   [step |-> "login", tries |-> 0, props |-> p]],
         meddled' = FALSE, UNCHANGED <<dep, azure>>, faults' \in 0 .. MaxFaults
  PROVE  Inv'
<1>1. Cloud' BY CloudKept DEF Inv
<1>2. /\ Request = 1 .. MaxRequests /\ stack.request \in Nat /\ MaxRequests \in Nat
      /\ MaxRetries \in Nat
  BY Typed DEF Inv
<1> DEFINE n == stack.request + 1
<1>3. n \in Request /\ n # 0 /\ n \in 0 .. MaxRequests BY <1>2
<1>4. stack \in [phase : {"none", "creating", "ready", "updating", "undoing",
                          "gone", "stuck"},
                 props : Options, target : Options, request : 0 .. MaxRequests]
  BY DEF Inv, TypeOK
<1>5. stack'.phase = phase /\ stack'.target = p /\ stack'.request = n
      /\ stack'.props = stack.props
  BY <1>4
<1>6. stack' \in [phase : {"none", "creating", "ready", "updating", "undoing",
                           "gone", "stuck"},
                  props : Options, target : Options, request : 0 .. MaxRequests]
  BY <1>3, <1>4
<1> HIDE DEF n
<1>7. inv' = [i EXCEPT ![n] = [step |-> "login", tries |-> 0, props |-> p]] BY DEF n
<1>8. inv' \in Invocations
  <2>1. "login" \in Step /\ 0 \in 0 .. MaxRetries BY <1>2 DEF Step
  <2> DEFINE first == [step |-> "login", tries |-> 0, props |-> p]
  <2>2. first \in [step : Step, tries : 0 .. MaxRetries, props : Options] BY <2>1
  <2> HIDE DEF first
  <2>3. [i EXCEPT ![n] = first] \in Invocations BY <2>2 DEF Invocations
  <2> QED BY <1>7, <2>3 DEF first
<1>9. inv'[n].step = "login" /\ inv'[n].props = p
      /\ \A q \in Request : q # n => inv'[q] = i[q]
  BY <1>3, <1>7 DEF Invocations
<1>10. \A q \in Request : \/ inv'[q] = inv[q] /\ q # n
                          \/ inv'[q].step \notin Outcome \cup {"none", "deploying"}
                             /\ q <= stack'.request
  <2> SUFFICES ASSUME NEW q \in Request
               PROVE  \/ inv'[q] = inv[q] /\ q # n
                      \/ inv'[q].step \notin Outcome \cup {"none", "deploying"}
                         /\ q <= stack'.request
    OBVIOUS
  <2>1. CASE q = n BY <1>2, <1>5, <1>9, <2>1 DEF Outcome
  <2>2. CASE q # n BY <1>2, <1>5, <1>9, <2>2 DEF n
  <2> QED BY <2>1, <2>2
<1>11. TypeOK'
  <2>1. meddled' \in BOOLEAN BY Zenon
  <2> QED BY <1>6, <1>8, <2>1 DEF Inv, TypeOK, Invocations, template
<1>12. Side'
  <2>1. Fresh'
    <3>1. \A q \in Request : q > n => inv[q].step = "none"
      BY <1>2 DEF Inv, Side, Fresh, n
    <3> QED BY <3>1, <1>2, <1>5, <1>10 DEF Fresh
  <2>2. Asked' BY <1>3, <1>5, <1>9 DEF Asked
  <2>3. Owned' BY <1>10 DEF Inv, Side, Owned
  <2>4. Latest' BY <1>5, <1>9 DEF Latest, Outcome
  <2>5. Finished' BY <1>5 DEF Finished
  <2> QED BY <2>1, <2>2, <2>3, <2>4, <2>5 DEF Side
<1> QED BY <1>1, <1>11, <1>12 DEF Inv

\* What becomes of a request that has failed.
LEMMA ConcludesFailed ==
  ASSUME Inv, Pending, NEW i \in Invocations,
         \A q \in Request : \/ i[q] = inv[q]
                            \/ i[q].step \notin Outcome \cup {"none", "deploying"}
                               /\ q <= stack.request,
         Conclude("FAILED", i), UNCHANGED <<dep, azure>>, faults' \in 0 .. MaxFaults
  PROVE  Inv'
<1>1. stack \in [phase : {"none", "creating", "ready", "updating", "undoing",
                          "gone", "stuck"},
                 props : Options, target : Options, request : 0 .. MaxRequests]
  BY DEF Inv, TypeOK
<1>2. ASSUME NEW phase \in {"gone", "stuck"},
             stack' = [stack EXCEPT !.phase = phase], inv' = i, UNCHANGED meddled
      PROVE  Inv'
  <2>1. Cloud' BY CloudKept DEF Inv
  <2>2. stack'.phase = phase /\ stack'.request = stack.request
        /\ stack' \in [phase : {"none", "creating", "ready", "updating", "undoing",
                               "gone", "stuck"},
                      props : Options, target : Options, request : 0 .. MaxRequests]
    BY <1>1, <1>2
  <2>3. TypeOK' BY <1>2, <2>2 DEF Inv, TypeOK, Invocations, template
  <2>4. Request = 1 .. MaxRequests /\ stack.request \in Nat BY Typed DEF Inv
  <2>5. Fresh' BY <1>2, <2>2, <2>4 DEF Inv, Side, Fresh
  <2>6. Asked' BY <2>2 DEF Asked
  <2>7. Owned' BY <1>2 DEF Inv, Side, Owned
  <2>8. Latest' BY <1>2, <2>2 DEF Inv, Side, Latest, Packaged
  <2>9. Finished' BY <2>2 DEF Finished
  <2> QED BY <2>1, <2>3, <2>5, <2>6, <2>7, <2>8, <2>9 DEF Inv, Side
<1>3. CASE stack.phase = "creating" BY <1>2, <1>3 DEF Conclude
<1>4. CASE stack.phase = "undoing" BY <1>2, <1>4 DEF Conclude
<1>5. CASE stack.phase = "updating"
  <2>1. /\ stack.request < MaxRequests
        /\ stack' = [stack EXCEPT !.phase = "undoing", !.target = stack.props,
                                  !.request = @ + 1]
        /\ inv' = [i EXCEPT ![stack.request + 1] =
                     [step |-> "login", tries |-> 0, props |-> stack.props]]
        /\ meddled' = FALSE
    BY <1>5 DEF Conclude
  <2>2. stack.props \in Options BY Typed DEF Inv
  <2> QED BY <2>1, <2>2, Asks
<1> QED BY <1>3, <1>4, <1>5 DEF Pending

\* Where a call raises.
LEMMA Stops ==
  ASSUME Inv, NEW r \in Request, inv[r].step \notin {"none", "over"},
         NEW i, Moves(r, i), UNCHANGED <<dep, azure>>,
         faults' \in 0 .. MaxFaults,
         \/ Pending /\ r = stack.request /\ Conclude("FAILED", i)
         \/ inv' = i /\ UNCHANGED <<stack, meddled>>
  PROVE  Inv'
<1>1. CASE inv' = i /\ UNCHANGED <<stack, meddled>>
  BY <1>1, Quiet
<1>2. CASE Pending /\ r = stack.request /\ Conclude("FAILED", i)
  <2>1. i \in Invocations BY DEF Moves
  <2>2. \A q \in Request : \/ i[q] = inv[q]
                           \/ i[q].step \notin Outcome \cup {"none", "deploying"}
                              /\ q <= stack.request
    <3>1. stack.request \in Nat BY Typed DEF Inv
    <3>2. stack.request <= stack.request BY <3>1
    <3> QED BY <1>2, <3>2 DEF Moves
  <2> QED BY <1>2, <2>1, <2>2, ConcludesFailed
<1> QED BY <1>1, <1>2

LEMMA RaiseInv ==
  ASSUME Inv, NEW r \in Request, inv[r].step \notin {"none", "over"},
         Raise(r), Quietly
  PROVE  Inv'
<1>1. Moves(r, Again(r)) BY AgainMoves DEF Inv
<1>2. faults' \in 0 .. MaxFaults BY FaultTyped DEF Raise, Answer, Inv
<1> QED BY <1>1, <1>2, Stops DEF Raise, Answer, Quietly

LEMMA FailsInv == ASSUME Inv, NEW r \in Request, Fails(r) PROVE Inv'
<1>1. Moves(r, Again(r)) BY AgainMoves DEF Inv
<1>2. faults' \in 0 .. MaxFaults BY FaultTyped DEF Fails, Fault, Inv
<1>3. inv[r].step \notin {"none", "over"} BY DEF Fails
<1> QED BY <1>1, <1>2, <1>3, Stops DEF Fails, Quietly

LEMMA DiesInv == ASSUME Inv, NEW r \in Request, Dies(r) PROVE Inv'
<1>1. Moves(r, Again(r)) BY AgainMoves DEF Inv
<1>2. faults' \in 0 .. MaxFaults BY FaultTyped DEF Dies, Inv
<1> QED BY <1>1, <1>2, Stops DEF Dies, Quietly

LEMMA LoginInv == ASSUME Inv, NEW r \in Request, Login(r) PROVE Inv'
<1>1. Moves(r, GoTo(r, "submit")) BY GoToMoves DEF Inv
<1>2. faults' \in 0 .. MaxFaults BY FaultTyped DEF Login, Inv
<1>3. inv[r].step \notin {"none", "over"} BY DEF Login, At
<1> QED BY <1>1, <1>2, <1>3, Stops DEF Login, Quietly

LEMMA WaitInv == ASSUME Inv, NEW r \in Request, Wait(r) PROVE Inv'
<1>1. inv[r].step \notin {"none", "over"} /\ Quietly BY DEF Wait, At
<1>2. CASE Raise(r) BY <1>1, <1>2, RaiseInv
<1>3. CASE inv' = GoTo(r, "resubmit") /\ UNCHANGED <<stack, meddled, faults>>
  <2>1. Moves(r, GoTo(r, "resubmit")) BY GoToMoves DEF Inv
  <2>2. faults' \in 0 .. MaxFaults BY <1>3, FaultTyped DEF Inv
  <2> QED BY <1>1, <1>3, <2>1, <2>2, Stops DEF Quietly
<1> QED BY <1>2, <1>3 DEF Wait

LEMMA DeploymentFailedInv ==
  ASSUME Inv, NEW r \in Request, DeploymentFailed(r) PROVE Inv'
<1>1. inv[r].step \notin {"none", "over"} BY DEF DeploymentFailed, At
<1> QED BY <1>1, RaiseInv DEF DeploymentFailed

\* A request that has not been counted has no invocation, and a ready stack has
\* no invocation of its request under way.
LEMMA Counted ==
  ASSUME Inv, NEW r \in Request, inv[r].step # "none"
  PROVE  /\ r <= stack.request /\ r \in Nat /\ stack.request \in Nat
         /\ stack.phase = "ready" /\ inv[r].step # "over" => r < stack.request
<1>1. Request = 1 .. MaxRequests /\ stack.request \in Nat /\ MaxRequests \in Nat
  BY Typed DEF Inv
<1>2. r <= stack.request /\ r \in Nat BY <1>1 DEF Inv, Side, Fresh
<1>3. stack.phase = "ready" /\ inv[r].step # "over" => r # stack.request
  BY DEF Inv, Side, Asked
<1> QED BY <1>1, <1>2, <1>3

\* The request is at Azure: what the deployment of it has done is forgotten.
LEMMA DeployInv ==
  ASSUME Inv, NEW r \in Request, inv[r].step \in {"submit", "resubmit"}, Deploy(r)
  PROVE  Inv'
<1> DEFINE d == [dep EXCEPT !.status = "running", !.owner = r,
                            !.props = inv[r].props, !.done = {}, !.script = 0]
<1>1. dep' = d /\ dep.status # "running" /\ UNCHANGED <<stack, azure, faults>>
      /\ meddled' = (meddled \/ r < stack.request) /\ inv' = GoTo(r, "deploying")
  BY DEF Deploy, Meddle
<1>2. /\ inv' \in Invocations
      /\ \A q \in Request : q # r => inv'[q] = inv[q]
      /\ inv'[r].props = inv[r].props /\ inv'[r].step = "deploying"
  <2>1. "deploying" \in Step BY DEF Step
  <2> QED BY <1>1, <2>1, GoToIs DEF Inv
<1>3. inv[r].props \in Options /\ 0 \in 0 .. Len(ScriptSteps)
  <2>1. Len(ScriptSteps) = 7 BY DEF ScriptSteps
  <2> QED BY <2>1, Typed DEF Inv
<1>4. /\ dep'.status = "running" /\ dep'.owner = r /\ dep'.props = inv[r].props
      /\ dep'.done = {} /\ dep'.script = 0 /\ dep'.kept = dep.kept
      /\ dep'.failed = dep.failed /\ dep'.late = dep.late
  BY <1>1 DEF Inv, TypeOK
<1>5. TypeOK'
  <2>1. dep' \in [status : {"none", "running", "ok", "failed"}, owner : Request,
                  props : Options, done : SUBSET DOMAIN template',
                  script : 0 .. Len(ScriptSteps), kept : BOOLEAN, failed : BOOLEAN,
                  late : BOOLEAN]
    <3> DEFINE D == DOMAIN template'
    <3>1. {} \in SUBSET D OBVIOUS
    <3> HIDE DEF D
    <3>2. dep' \in [status : {"none", "running", "ok", "failed"}, owner : Request,
                    props : Options, done : SUBSET D,
                    script : 0 .. Len(ScriptSteps), kept : BOOLEAN, failed : BOOLEAN,
                    late : BOOLEAN]
      BY <1>1, <1>3, <3>1 DEF Inv, TypeOK
    <3> QED BY <3>2 DEF D
  <2>2. meddled' \in BOOLEAN
    <3>1. meddled' = (meddled \/ r < stack.request) BY <1>1
    <3> QED BY <3>1, Zenon
  <2> QED BY <1>1, <1>2, <2>1, <2>2 DEF Inv, TypeOK, Invocations
<1> HIDE DEF d
<1>6. /\ r <= stack.request /\ r \in Nat /\ stack.request \in Nat
      /\ stack.phase = "ready" => r < stack.request
  BY Counted
<1>7. Side'
  <2>1. Fresh' BY <1>1, <1>2, <1>6 DEF Inv, Side, Fresh
  <2>2. Asked'
    <3>1. stack.request # 0 => stack.request \in Request
      BY <1>6, Typed DEF Inv
    <3> QED BY <3>1, <1>1, <1>2, <1>6 DEF Inv, Side, Asked
  <2>3. Owned' BY <1>1, <1>2, <1>4 DEF Inv, Side, Owned
  <2>4. Latest'
    <3> SUFFICES ASSUME NEW q \in Request, q = stack.request, ~meddled',
                        inv'[q].step \in Outcome
                 PROVE  FALSE
      BY <1>1 DEF Latest
    <3>1. ~(r < stack.request) BY <1>1
    <3>2. q = r BY <1>6, <3>1
    <3> QED BY <1>2, <3>2 DEF Outcome
  <2>5. Finished' BY <1>1, <1>6 DEF Finished
  <2> QED BY <2>1, <2>2, <2>3, <2>4, <2>5 DEF Side
<1>8. Cloud'
  <2>1. Applied' BY <1>4 DEF Applied
  <2>2. Served' BY <1>1, <1>4 DEF Inv, Cloud, Served
  <2>3. Scripted' BY <1>1, <1>4 DEF Inv, Cloud, Scripted, Explained
  <2> QED BY <2>1, <2>2, <2>3 DEF Cloud
<1> QED BY <1>5, <1>7, <1>8 DEF Inv

LEMMA SubmitInv == ASSUME Inv, NEW r \in Request, Submit(r) PROVE Inv'
<1>1. inv[r].step = "submit" BY DEF Submit, At
<1>2. CASE Deploy(r) BY <1>1, <1>2, DeployInv
<1>3. CASE Raise(r) /\ Quietly BY <1>1, <1>3, RaiseInv
<1>4. CASE /\ inv' = GoTo(r, "blocked") /\ Quietly
           /\ UNCHANGED <<stack, meddled, faults>>
  <2>1. Moves(r, GoTo(r, "blocked")) BY GoToMoves DEF Inv
  <2>2. faults' \in 0 .. MaxFaults BY <1>4, FaultTyped DEF Inv
  <2> QED BY <1>1, <1>4, <2>1, <2>2, Stops DEF Quietly
<1> QED BY <1>2, <1>3, <1>4 DEF Submit

LEMMA ResubmitInv == ASSUME Inv, NEW r \in Request, Resubmit(r) PROVE Inv'
<1>1. inv[r].step = "resubmit" BY DEF Resubmit, At
<1>2. CASE Deploy(r) BY <1>1, <1>2, DeployInv
<1>3. CASE Raise(r) /\ Quietly BY <1>1, <1>3, RaiseInv
<1> QED BY <1>2, <1>3 DEF Resubmit

\* The package is there, then the setting that points to it: the two calls of
\* deploy_function_code, each of them a step that writes to Azure.
LEMMA Writes ==
  ASSUME Inv, NEW r \in Request, NEW s \in {"setting", "success"},
         inv[r].step \in {"upload", "setting"}, inv' = GoTo(r, s),
         UNCHANGED <<stack, dep, faults>>, Meddle(r),
         azure' \in [roles : SUBSET Group, groups : SUBSET Group,
                     assigned : SUBSET (Group \X Group), principal : BOOLEAN,
                     setting : BOOLEAN, blob : Nat, wired : SUBSET Wired],
         azure'.roles = azure.roles, azure'.groups = azure.groups,
         azure'.assigned = azure.assigned, azure'.wired = azure.wired,
         s = "setting" => azure'.blob = inv[r].props.code,
         s = "success" => inv[r].step = "setting" /\ azure'.setting = TRUE
                          /\ azure'.blob = azure.blob
  PROVE  Inv'
<1>1. /\ inv' \in Invocations
      /\ \A q \in Request : q # r => inv'[q] = inv[q]
      /\ inv'[r].props = inv[r].props /\ inv'[r].step = s
  <2>1. s \in Step BY DEF Step
  <2> QED BY <2>1, GoToIs DEF Inv
<1>2. /\ r <= stack.request /\ r \in Nat /\ stack.request \in Nat
      /\ stack.phase = "ready" => r < stack.request
  BY Counted
<1>3. meddled' = (meddled \/ r < stack.request) BY DEF Meddle
<1>4. TypeOK'
  <2>1. meddled' \in BOOLEAN BY <1>3, Zenon
  <2> QED BY <1>1, <2>1 DEF Inv, TypeOK, Invocations, template
<1>5. Side'
  <2>1. Fresh' BY <1>1, <1>2 DEF Inv, Side, Fresh
  <2>2. Asked'
    <3>1. stack.request # 0 => stack.request \in Request
      BY <1>2, Typed DEF Inv
    <3> QED BY <3>1, <1>1, <1>2 DEF Inv, Side, Asked
  <2>3. Owned' BY <1>1 DEF Inv, Side, Owned
  <2>4. Latest'
    <3> SUFFICES ASSUME NEW q \in Request, q = stack.request, ~meddled',
                        inv'[q].step \in Outcome
                 PROVE  /\ dep.status = "ok" /\ dep.props = inv'[q].props
                        /\ inv'[q].step = "setting" => azure'.blob = inv'[q].props.code
                        /\ (inv'[q].step = "success" /\ inv'[q].props.mapping) =>
                             azure'.setting /\ azure'.blob = inv'[q].props.code
      BY DEF Latest, Packaged
    <3>1. q = r /\ ~meddled
      <4>1. ~meddled /\ ~(r < stack.request) BY <1>3, Zenon
      <4> QED BY <4>1, <1>2
    <3>2. inv[r].step \in Outcome BY DEF Outcome
    <3>3. /\ dep.status = "ok" /\ dep.props = inv[r].props
          /\ inv[r].step = "setting" => azure.blob = inv[r].props.code
      BY <3>1, <3>2 DEF Inv, Side, Latest
    <3> QED BY <1>1, <3>1, <3>3
  <2>5. Finished' BY <1>2, <1>3 DEF Finished
  <2> QED BY <2>1, <2>2, <2>3, <2>4, <2>5 DEF Side
<1>6. Cloud'
  <2>1. Applied' BY DEF Inv, Cloud, Applied, template
  <2>2. Served' BY DEF Inv, Cloud, Served, template, Principal
  <2>3. Scripted' BY DEF Inv, Cloud, Scripted, Explained, Of, Ready, Running, template
  <2> QED BY <2>1, <2>2, <2>3 DEF Cloud
<1> QED BY <1>4, <1>5, <1>6 DEF Inv

LEMMA UploadInv == ASSUME Inv, NEW r \in Request, Upload(r) PROVE Inv'
<1>1. inv[r].props.code \in Nat BY Typed, TemplateSound DEF Inv
<1> DEFINE c == inv[r].props.code
<1>2. c \in Nat BY <1>1
<1>3. azure' = [azure EXCEPT !.blob = c] BY DEF Upload
<1> HIDE DEF c
<1>4. /\ azure' \in [roles : SUBSET Group, groups : SUBSET Group,
                     assigned : SUBSET (Group \X Group), principal : BOOLEAN,
                     setting : BOOLEAN, blob : Nat, wired : SUBSET Wired]
      /\ azure'.roles = azure.roles /\ azure'.groups = azure.groups
      /\ azure'.assigned = azure.assigned /\ azure'.wired = azure.wired
      /\ azure'.blob = c
  BY <1>2, <1>3 DEF Inv, TypeOK
<1> QED BY <1>4, Writes DEF Upload, At, c

LEMMA SettingInv == ASSUME Inv, NEW r \in Request, Setting(r) PROVE Inv'
<1>1. azure' = [azure EXCEPT !.setting = TRUE] BY DEF Setting
<1>2. /\ azure' \in [roles : SUBSET Group, groups : SUBSET Group,
                     assigned : SUBSET (Group \X Group), principal : BOOLEAN,
                     setting : BOOLEAN, blob : Nat, wired : SUBSET Wired]
      /\ azure'.roles = azure.roles /\ azure'.groups = azure.groups
      /\ azure'.assigned = azure.assigned /\ azure'.wired = azure.wired
      /\ azure'.blob = azure.blob /\ azure'.setting = TRUE
  BY <1>1 DEF Inv, TypeOK
<1> QED BY <1>2, Writes DEF Setting, At

\* The answer that the request has succeeded: what the invocation has behind it
\* is what the stack is ready with.
LEMMA SucceedInv == ASSUME Inv, NEW r \in Request, Succeed(r) PROVE Inv'
<1>1. inv[r].step = "success" /\ Quietly BY DEF Succeed, At
<1>2. Moves(r, GoTo(r, "over")) BY GoToMoves DEF Inv
<1>3. faults' \in 0 .. MaxFaults BY FaultTyped DEF Succeed, Answer, Inv
<1>4. CASE inv' = GoTo(r, "over") /\ UNCHANGED <<stack, meddled>>
  BY <1>1, <1>2, <1>3, <1>4, Stops DEF Quietly
<1>5. CASE /\ Pending /\ r = stack.request
           /\ stack' = [stack EXCEPT !.phase = "ready", !.props = stack.target]
           /\ inv' = GoTo(r, "over") /\ UNCHANGED meddled
  <2>1. stack' \in [phase : {"none", "creating", "ready", "updating", "undoing",
                             "gone", "stuck"},
                    props : Options, target : Options, request : 0 .. MaxRequests]
        /\ stack'.phase = "ready" /\ stack'.props = stack.target
        /\ stack'.target = stack.target /\ stack'.request = stack.request
    BY <1>5, Typed DEF Inv, TypeOK
  <2>2. /\ inv' \in Invocations
        /\ \A q \in Request : q # r => inv'[q] = inv[q]
        /\ inv'[r].props = inv[r].props /\ inv'[r].step = "over"
    <3>1. "over" \in Step BY DEF Step
    <3> QED BY <1>5, <3>1, GoToIs DEF Inv
  <2>3. TypeOK' BY <1>1, <1>3, <1>5, <2>1, <2>2 DEF Inv, TypeOK, Invocations, Quietly, template
  <2>4. Cloud' BY <1>1, CloudKept DEF Inv, Quietly
  <2>5. inv[r].props = stack.target /\ stack.request # 0
    BY <1>5 DEF Inv, Side, Asked, Pending
  <2>6. Fresh' BY <1>1, <2>1, <2>2 DEF Inv, Side, Fresh
  <2>7. Asked' BY <1>5, <2>1, <2>2, <2>5 DEF Asked
  <2>8. Owned' BY <1>1, <2>2 DEF Inv, Side, Owned, Quietly
  <2>9. Latest' BY <1>5, <2>1, <2>2 DEF Latest, Outcome
  <2>10. Finished'
    <3> SUFFICES ASSUME ~meddled
                 PROVE  /\ dep.status # "running" /\ azure.roles = Groups(stack.target)
                        /\ stack.target.mapping => Packaged(stack.target.code)
      BY <1>1, <1>5, <2>1 DEF Finished, Packaged, Quietly
    <3>1. /\ dep.status = "ok" /\ dep.props = inv[r].props
          /\ inv[r].props.mapping => Packaged(inv[r].props.code)
      BY <1>1, <1>5 DEF Inv, Side, Latest, Outcome
    <3>2. "Application" \in dep.done
      <4>1. dep.done = DOMAIN template BY <3>1 DEF Inv, Cloud, Applied
      <4>2. "Application" \in DOMAIN template
        BY TemplateSound, Typed DEF Inv, Sound, template
      <4> QED BY <4>1, <4>2
    <3>3. azure.roles = Groups(dep.props) BY <3>2 DEF Inv, Cloud, Applied
    <3> QED BY <2>5, <3>1, <3>3
  <2> QED BY <2>3, <2>4, <2>6, <2>7, <2>8, <2>9, <2>10 DEF Inv, Side
<1> QED BY <1>4, <1>5 DEF Succeed, Answer, Conclude

-----------------------------------------------------------------------------
(* CloudFormation                                                          *)

LEMMA AskInv ==
  ASSUME Inv, NEW p \in Options, NEW phase \in {"creating", "updating"},
         Ask(phase, p), UNCHANGED <<dep, azure, faults>>
  PROVE  Inv'
<1>1. faults' \in 0 .. MaxFaults BY FaultTyped DEF Inv
<1>2. inv \in Invocations BY Typed DEF Inv
<1> QED BY <1>1, <1>2, Asks DEF Ask

LEMMA TimeOutInv == ASSUME Inv, TimeOut PROVE Inv'
<1>1. faults' \in 0 .. MaxFaults BY FaultTyped DEF Inv, TimeOut
<1>2. inv \in Invocations BY Typed DEF Inv
<1> QED BY <1>1, <1>2, ConcludesFailed DEF TimeOut

LEMMA DeleteStackInv == ASSUME Inv, DeleteStack PROVE Inv'
<1>1. /\ stack.phase = "ready" /\ stack' = [stack EXCEPT !.phase = "gone"]
      /\ UNCHANGED <<inv, azure, meddled, faults>>
      /\ \/ dep.status # "running" /\ dep' = [dep EXCEPT !.status = "none"]
         \/ UNCHANGED dep
  BY DEF DeleteStack
<1>2. stack' \in [phase : {"none", "creating", "ready", "updating", "undoing",
                           "gone", "stuck"},
                  props : Options, target : Options, request : 0 .. MaxRequests]
      /\ stack'.phase = "gone" /\ stack'.request = stack.request
  BY <1>1 DEF Inv, TypeOK
<1>3. /\ dep'.owner = dep.owner /\ dep'.props = dep.props /\ dep'.done = dep.done
      /\ dep'.script = dep.script /\ dep'.kept = dep.kept
      /\ dep'.failed = dep.failed /\ dep'.late = dep.late
      /\ dep'.status \in {dep.status, "none"}
      /\ dep.status = "running" => dep'.status = "running"
  BY <1>1 DEF Inv, TypeOK
<1>4. template' = template BY <1>3 DEF template
<1>5. TypeOK'
  <2>1. dep' \in [status : {"none", "running", "ok", "failed"}, owner : Request,
                  props : Options, done : SUBSET DOMAIN template,
                  script : 0 .. Len(ScriptSteps), kept : BOOLEAN, failed : BOOLEAN,
                  late : BOOLEAN]
    BY <1>1 DEF Inv, TypeOK
  <2> QED BY <1>1, <1>2, <1>4, <2>1 DEF Inv, TypeOK
<1>6. Side'
  <2>1. Fresh' BY <1>1, <1>2 DEF Inv, Side, Fresh
  <2>2. Asked' BY <1>2 DEF Asked
  <2>3. Owned' BY <1>1, <1>3 DEF Inv, Side, Owned
  <2>4. Latest'
    <3>1. inv[stack.request].step = "over" BY <1>1 DEF Inv, Side, Asked
    <3> QED BY <1>1, <1>2, <3>1 DEF Latest, Outcome
  <2>5. Finished' BY <1>2 DEF Finished
  <2> QED BY <2>1, <2>2, <2>3, <2>4, <2>5 DEF Side
<1>7. Cloud'
  <2>1. Applied' BY <1>1, <1>3, <1>4 DEF Inv, Cloud, Applied
  <2>2. Served' BY <1>1, <1>3, <1>4 DEF Inv, Cloud, Served, Principal
  <2>3. Scripted'
    <3>1. Of("script")' = Of("script") BY <1>3, <1>4 DEF Of, Ready
    <3>2. Running' => Running BY <1>3 DEF Running
    <3>3. Explained' = Explained BY <1>1, <1>3 DEF Explained
    <3> HIDE DEF Explained
    <3> QED BY <1>1, <1>3, <3>1, <3>2, <3>3 DEF Inv, Cloud, Scripted
  <2> QED BY <2>1, <2>2, <2>3 DEF Cloud
<1> QED BY <1>5, <1>6, <1>7 DEF Inv

-----------------------------------------------------------------------------
(* The Azure deployment                                                    *)

AzureStates ==
  [roles : SUBSET Group, groups : SUBSET Group, assigned : SUBSET (Group \X Group),
   principal : BOOLEAN, setting : BOOLEAN, blob : Nat, wired : SUBSET Wired]

LEMMA TemplateIs ==
  ASSUME TypeOK
  PROVE  /\ Sound(dep.props, template) /\ dep.props \in Options
         /\ dep.props.groups \in Seq(Group)
         /\ DOMAIN dep.props.groups = 1 .. Len(dep.props.groups)
         /\ Groups(dep.props) \subseteq Group
         /\ dep.props.mapping \in BOOLEAN
<1>1. dep.props \in Options BY Typed
<1>2. /\ Sound(dep.props, Templates[dep.props]) /\ dep.props.groups \in Seq(Group)
      /\ dep.props.mapping \in BOOLEAN
      /\ DOMAIN dep.props.groups = 1 .. Len(dep.props.groups)
  BY <1>1, TemplateSound
<1>3. Groups(dep.props) \subseteq Group BY <1>2, ElementOfSeq DEF Groups
<1> QED BY <1>1, <1>2, <1>3 DEF template

\* What can be provided, and of which kind.
LEMMA OfKind ==
  ASSUME TypeOK, NEW kind, NEW id \in Of(kind)
  PROVE  /\ id \in Ready /\ id \in DOMAIN template /\ id \notin dep.done
         /\ template[id].kind = kind /\ Declares(dep.props, template, id)
         /\ id = "Application" => kind = "application"
         /\ id = "Wirecustomclaimsextension" => kind = "script"
<1>1. id \in Ready /\ id \in DOMAIN template /\ id \notin dep.done
      /\ template[id].kind = kind
  BY DEF Of, Ready
<1>2. ApplicationResource.kind = "application" /\ ScriptResource.kind = "script"
  BY DEF ApplicationResource, ScriptResource, Resource
<1> QED BY <1>1, <1>2, TemplateIs DEF Sound

\* Resources are provided.
LEMMA Provides ==
  ASSUME Inv, Running, NEW ids \in SUBSET Ready, NEW a \in AzureStates,
         Provided(ids, a), a.wired = azure.wired,
         azure.groups \subseteq a.groups, azure.assigned \subseteq a.assigned,
         a.roles = IF "Application" \in ids THEN Groups(dep.props) ELSE azure.roles,
         \A id \in ids :
           /\ template[id].kind = "group" => template[id].group \in a.groups
           /\ template[id].kind = "assignment" =>
                <<Principal(id).group, template[id].group>> \in a.assigned,
         \A x \in a.assigned : x[1] = x[2],
         "Wirecustomclaimsextension" \in ids => Explained /\ dep.script = 0
  PROVE  Inv'
<1>1. dep' = [dep EXCEPT !.done = @ \cup ids] /\ azure' = a
      /\ UNCHANGED <<stack, inv, meddled, faults>>
  BY DEF Provided
<1>2. dep \in [status : {"none", "running", "ok", "failed"}, owner : Request,
               props : Options, done : SUBSET DOMAIN template,
               script : 0 .. Len(ScriptSteps), kept : BOOLEAN, failed : BOOLEAN,
               late : BOOLEAN]
  BY DEF Inv, TypeOK
<1>3. /\ dep'.status = dep.status /\ dep'.owner = dep.owner /\ dep'.props = dep.props
      /\ dep'.done = dep.done \cup ids /\ dep'.script = dep.script
      /\ dep'.kept = dep.kept /\ dep'.failed = dep.failed /\ dep'.late = dep.late
  BY <1>1, <1>2
<1>4. template' = template BY <1>3 DEF template
<1>5. ids \subseteq DOMAIN template BY DEF Ready
<1>6. TypeOK'
  <2> DEFINE D == DOMAIN template
  <2>1. dep.done \cup ids \in SUBSET D BY <1>2, <1>5
  <2> HIDE DEF D
  <2>2. dep' \in [status : {"none", "running", "ok", "failed"}, owner : Request,
                  props : Options, done : SUBSET D,
                  script : 0 .. Len(ScriptSteps), kept : BOOLEAN, failed : BOOLEAN,
                  late : BOOLEAN]
    BY <1>1, <1>2, <2>1
  <2>3. dep' \in [status : {"none", "running", "ok", "failed"}, owner : Request,
                  props : Options, done : SUBSET DOMAIN template',
                  script : 0 .. Len(ScriptSteps), kept : BOOLEAN, failed : BOOLEAN,
                  late : BOOLEAN]
    BY <1>4, <2>2 DEF D
  <2> QED BY <1>1, <2>3 DEF Inv, TypeOK, AzureStates
<1>7. Side' BY <1>1, <1>3, SideKept DEF Inv
<1>8. Applied'
  <2>1. dep.status = "running" BY DEF Running
  <2>2. "Application" \in dep.done \cup ids => a.roles = Groups(dep.props)
    BY DEF Inv, Cloud, Applied
  <2> QED BY <1>1, <1>3, <2>1, <2>2 DEF Applied
<1>9. Served'
  <2>1. \A id \in dep.done \cup ids :
          /\ template[id].kind = "group" => template[id].group \in a.groups
          /\ template[id].kind = "assignment" =>
               <<Principal(id).group, template[id].group>> \in a.assigned
    BY DEF Inv, Cloud, Served
  <2>2. \A id : Principal(id)' = Principal(id) BY <1>4 DEF Principal
  <2> HIDE DEF Principal
  <2> QED BY <1>1, <1>3, <1>4, <2>1, <2>2 DEF Served
<1>10. Scripted'
  <2>1. Explained' = Explained BY <1>1, <1>3 DEF Explained
  <2>2. Running' = Running BY <1>3 DEF Running
  <2>3. dep.script > 0 => Of("script")' # {}
    <3> SUFFICES ASSUME dep.script > 0 PROVE Of("script")' # {} OBVIOUS
    <3>1. PICK id \in Of("script") : TRUE BY DEF Inv, Cloud, Scripted
    <3>2. /\ id \in DOMAIN template /\ id \notin dep.done
          /\ template[id].kind = "script" /\ Declares(dep.props, template, id)
          /\ template[id].needs \subseteq dep.done
      BY OfKind DEF Inv, Of, Ready
    <3>3. id = "Wirecustomclaimsextension" BY <3>2 DEF Declares
    <3>4. dep.script # 0
      BY Typed DEF Inv
    <3>5. id \notin ids BY <3>3, <3>4
    <3>6. id \in Of("script")' BY <1>3, <1>4, <3>2, <3>5 DEF Of, Ready
    <3> QED BY <3>6
  <2>4. dep.kept => Explained BY DEF Inv, Cloud, Scripted
  <2>5. "Wirecustomclaimsextension" \in dep.done \cup ids => Explained
    BY DEF Inv, Cloud, Scripted
  <2> HIDE DEF Explained
  <2> QED BY <1>1, <1>3, <2>1, <2>2, <2>3, <2>4, <2>5 DEF Inv, Cloud, Scripted
<1> QED BY <1>6, <1>7, <1>8, <1>9, <1>10 DEF Inv, Cloud

\* What azure is, for the parts of it that a step replaces.
LEMMA AzureTyped ==
  ASSUME TypeOK
  PROVE  azure \in AzureStates
BY DEF TypeOK, AzureStates

LEMMA AlreadyServed ==
  ASSUME Inv
  PROVE  /\ \A x \in azure.assigned : x[1] = x[2]
         /\ dep.kept => Explained
BY DEF Inv, Cloud, Served, Scripted

LEMMA ProvideSupportInv == ASSUME Inv, ProvideSupport PROVE Inv'
<1>1. azure \in AzureStates BY AzureTyped DEF Inv
<1>2. \A id \in Of("support") :
        /\ id \in Ready /\ template[id].kind = "support"
        /\ id # "Application" /\ id # "Wirecustomclaimsextension"
  BY OfKind DEF Inv
<1>3. Running /\ Provided(Of("support"), azure) BY DEF ProvideSupport
<1>4. Of("support") \in SUBSET Ready BY <1>2
<1>5. "Application" \notin Of("support")
      /\ "Wirecustomclaimsextension" \notin Of("support")
  BY <1>2
<1> QED BY <1>1, <1>2, <1>3, <1>4, <1>5, AlreadyServed, Provides

LEMMA ProvideApplicationInv == ASSUME Inv, ProvideApplication PROVE Inv'
<1> DEFINE a == [azure EXCEPT !.roles = Groups(dep.props)]
           ids == Of("application")
<1>1. azure \in AzureStates /\ Groups(dep.props) \in SUBSET Group
  BY AzureTyped, TemplateIs DEF Inv
<1>2. /\ a \in AzureStates /\ a.roles = Groups(dep.props) /\ a.wired = azure.wired
      /\ a.groups = azure.groups /\ a.assigned = azure.assigned
  BY <1>1 DEF AzureStates
<1>3. \A id \in ids : /\ id \in Ready /\ template[id].kind = "application"
                      /\ id = "Application" /\ id # "Wirecustomclaimsextension"
  BY OfKind DEF Inv, Declares
<1>4. Running /\ ids # {} /\ Provided(ids, a) BY DEF ProvideApplication
<1> HIDE DEF a, ids
<1>5. ids \in SUBSET Ready /\ "Application" \in ids
      /\ "Wirecustomclaimsextension" \notin ids
  BY <1>3, <1>4
<1> QED BY <1>2, <1>3, <1>4, <1>5, AlreadyServed, Provides

LEMMA ProvidePrincipalInv == ASSUME Inv, ProvidePrincipal PROVE Inv'
<1> DEFINE a == [azure EXCEPT !.principal = TRUE]
           ids == Of("principal")
<1>1. azure \in AzureStates BY AzureTyped DEF Inv
<1>2. /\ a \in AzureStates /\ a.roles = azure.roles /\ a.wired = azure.wired
      /\ a.groups = azure.groups /\ a.assigned = azure.assigned
  BY <1>1 DEF AzureStates
<1>3. \A id \in ids : /\ id \in Ready /\ template[id].kind = "principal"
                      /\ id # "Application" /\ id # "Wirecustomclaimsextension"
  BY OfKind DEF Inv
<1>4. Running /\ Provided(ids, a) BY DEF ProvidePrincipal
<1> HIDE DEF a, ids
<1>5. ids \in SUBSET Ready /\ "Application" \notin ids
      /\ "Wirecustomclaimsextension" \notin ids
  BY <1>3
<1> QED BY <1>2, <1>3, <1>4, <1>5, AlreadyServed, Provides

LEMMA ProvideFunctionAppInv == ASSUME Inv, ProvideFunctionApp PROVE Inv'
<1> DEFINE a == [azure EXCEPT !.setting = FALSE]
           ids == Of("functionapp")
<1>1. azure \in AzureStates BY AzureTyped DEF Inv
<1>2. /\ a \in AzureStates /\ a.roles = azure.roles /\ a.wired = azure.wired
      /\ a.groups = azure.groups /\ a.assigned = azure.assigned
  BY <1>1 DEF AzureStates
<1>3. \A id \in ids : /\ id \in Ready /\ template[id].kind = "functionapp"
                      /\ id # "Application" /\ id # "Wirecustomclaimsextension"
  BY OfKind DEF Inv
<1>4. Running /\ Provided(ids, a) BY DEF ProvideFunctionApp
<1> HIDE DEF a, ids
<1>5. ids \in SUBSET Ready /\ "Application" \notin ids
      /\ "Wirecustomclaimsextension" \notin ids
  BY <1>3
<1> QED BY <1>2, <1>3, <1>4, <1>5, AlreadyServed, Provides

LEMMA SkipScriptInv == ASSUME Inv, SkipScript PROVE Inv'
<1> DEFINE ids == Of("script")
<1>1. azure \in AzureStates BY AzureTyped DEF Inv
<1>2. \A id \in ids : /\ id \in Ready /\ template[id].kind = "script"
                      /\ id # "Application"
  BY OfKind DEF Inv
<1>3. Running /\ Provided(ids, azure) /\ dep.script = 0 /\ dep.kept
  BY DEF SkipScript
<1> HIDE DEF ids
<1>4. ids \in SUBSET Ready /\ "Application" \notin ids BY <1>2
<1> QED BY <1>1, <1>2, <1>3, <1>4, AlreadyServed, Provides

LEMMA ProvideGroupInv == ASSUME Inv, ProvideGroup PROVE Inv'
<1>1. PICK id \in Of("group") :
        Provided({id}, [azure EXCEPT !.groups = @ \cup {template[id].group}])
  BY DEF ProvideGroup
<1> DEFINE g == template[id].group
           a == [azure EXCEPT !.groups = @ \cup {g}]
<1>2. /\ id \in Ready /\ template[id].kind = "group"
      /\ id # "Application" /\ id # "Wirecustomclaimsextension"
      /\ Declares(dep.props, template, id)
  BY OfKind DEF Inv
<1>3. g \in Group BY <1>2, TemplateIs, GroupFields DEF Inv, Declares
<1>4. azure \in AzureStates BY AzureTyped DEF Inv
<1> HIDE DEF g
<1>5. /\ a \in AzureStates /\ a.roles = azure.roles /\ a.wired = azure.wired
      /\ a.groups = azure.groups \cup {g} /\ a.assigned = azure.assigned
  BY <1>3, <1>4 DEF AzureStates
<1>6. Running /\ Provided({id}, a) BY <1>1 DEF ProvideGroup, g
<1> HIDE DEF a
<1>7. {id} \in SUBSET Ready BY <1>2
<1>8. g \in a.groups BY <1>5
<1> QED BY <1>2, <1>5, <1>6, <1>7, <1>8, AlreadyServed, Provides DEF g

\* The role of a group goes to what its identifier stands for, which is the
\* group itself.
LEMMA ProvideAssignmentInv == ASSUME Inv, ProvideAssignment PROVE Inv'
<1>1. PICK id \in Of("assignment") :
        /\ Principal(id).kind = "group"
        /\ Provided({id}, [azure EXCEPT !.assigned =
                            @ \cup {<<Principal(id).group, template[id].group>>}])
  BY DEF ProvideAssignment
<1>2. /\ id \in Ready /\ template[id].kind = "assignment"
      /\ id # "Application" /\ id # "Wirecustomclaimsextension"
      /\ Declares(dep.props, template, id)
  BY OfKind DEF Inv
<1>3. PICK g \in Groups(dep.props) :
        /\ template[id] = AssignmentResource(g)
        /\ template[GroupId[g]].kind = "group" => template[GroupId[g]] = GroupResource(g)
  BY <1>2 DEF Declares
<1>4. template[id].group = g BY <1>3, GroupFields
<1>5. Principal(id).group = g
  BY <1>1, <1>3, <1>4, GroupFields DEF Principal
<1>6. g \in Group BY TemplateIs DEF Inv
<1> DEFINE pair == <<g, g>>
           a == [azure EXCEPT !.assigned = @ \cup {pair}]
<1>7. azure \in AzureStates BY AzureTyped DEF Inv
<1>8. pair \in Group \X Group /\ pair[1] = pair[2] BY <1>6
<1>9. pair = <<Principal(id).group, template[id].group>> BY <1>4, <1>5
<1> HIDE DEF pair
<1>10. /\ a \in AzureStates /\ a.roles = azure.roles /\ a.wired = azure.wired
       /\ a.groups = azure.groups /\ a.assigned = azure.assigned \cup {pair}
  <2> DEFINE Pairs == Group \X Group
  <2>1. pair \in Pairs BY <1>8
  <2> HIDE DEF Pairs
  <2>2. azure.assigned \cup {pair} \in SUBSET Pairs
    BY <1>7, <2>1 DEF AzureStates, Pairs
  <2>3. azure \in [roles : SUBSET Group, groups : SUBSET Group, assigned : SUBSET Pairs,
                   principal : BOOLEAN, setting : BOOLEAN, blob : Nat,
                   wired : SUBSET Wired]
    BY <1>7 DEF AzureStates, Pairs
  <2>4. a \in [roles : SUBSET Group, groups : SUBSET Group, assigned : SUBSET Pairs,
               principal : BOOLEAN, setting : BOOLEAN, blob : Nat,
               wired : SUBSET Wired]
    BY <2>2, <2>3
  <2>5. a \in AzureStates BY <2>4 DEF AzureStates, Pairs
  <2> QED BY <2>3, <2>5
<1>11. Running /\ Provided({id}, a) BY <1>1, <1>9 DEF ProvideAssignment
<1> HIDE DEF a
<1>12. {id} \in SUBSET Ready BY <1>2
<1>13. <<Principal(id).group, template[id].group>> \in a.assigned BY <1>9, <1>10
<1>14. \A x \in a.assigned : x[1] = x[2] BY <1>8, <1>10, AlreadyServed
<1> QED BY <1>2, <1>10, <1>11, <1>12, <1>13, <1>14, Provides

\* A deployment record, but for the resources it has provided.
DepStates(D) ==
  [status : {"none", "running", "ok", "failed"}, owner : Request, props : Options,
   done : SUBSET D, script : 0 .. Len(ScriptSteps), kept : BOOLEAN,
   failed : BOOLEAN, late : BOOLEAN]

LEMMA StartScriptInv == ASSUME Inv, StartScript PROVE Inv'
<1>1. /\ Running /\ Of("script") # {}
      /\ dep' = [dep EXCEPT !.script = 1, !.kept = FALSE, !.failed = FALSE,
                            !.late = FALSE]
      /\ UNCHANGED <<stack, inv, azure, meddled, faults>>
  BY DEF StartScript
<1>2. dep \in DepStates(DOMAIN template) BY DEF Inv, TypeOK, DepStates
<1>3. 1 \in 0 .. Len(ScriptSteps)
  <2>1. Len(ScriptSteps) = 7 BY DEF ScriptSteps
  <2> QED BY <2>1
<1>4. /\ dep' \in DepStates(DOMAIN template)
      /\ dep'.status = dep.status /\ dep'.owner = dep.owner /\ dep'.props = dep.props
      /\ dep'.done = dep.done /\ dep'.script = 1 /\ dep'.kept = FALSE
  BY <1>1, <1>2, <1>3 DEF DepStates
<1>5. template' = template BY <1>4 DEF template
<1>6. TypeOK' BY <1>1, <1>4, <1>5 DEF Inv, TypeOK, DepStates
<1>7. Side' BY <1>1, <1>4, SideKept DEF Inv
<1>8. Applied' BY <1>1, <1>4, <1>5 DEF Inv, Cloud, Applied
<1>9. Served' BY <1>1, <1>4, <1>5 DEF Inv, Cloud, Served, Principal
<1>10. Scripted'
  <2>1. Of("script")' = Of("script") BY <1>4, <1>5 DEF Of, Ready
  <2>2. "Wirecustomclaimsextension" \notin dep.done
    <3>1. PICK id \in Of("script") : TRUE BY <1>1
    <3>2. id \notin dep.done /\ id = "Wirecustomclaimsextension"
      BY <3>1, OfKind DEF Inv, Declares
    <3> QED BY <3>2
  <2>3. \A n \in 1 .. dep'.script - 1 : FALSE BY <1>4
  <2> QED BY <1>1, <1>4, <2>1, <2>2, <2>3 DEF Scripted
<1> QED BY <1>6, <1>7, <1>8, <1>9, <1>10 DEF Inv, Cloud

\* Steps whose calls build on what earlier steps made find it, if every earlier
\* step made what it should.
LEMMA PossibleAfter ==
  ASSUME NEW n \in 1 .. 7, \A m \in 1 .. n - 1 : ScriptSteps[m] \in azure.wired
  PROVE  Possible(ScriptSteps[n]) \/ (ScriptSteps[n] = "assignment" /\ ~azure.principal)
<1>1. /\ ScriptSteps[1] = "identifierUris" /\ ScriptSteps[2] = "acceptMappedClaims"
      /\ ScriptSteps[3] = "servicePrincipal" /\ ScriptSteps[4] = "extension"
      /\ ScriptSteps[5] = "policy" /\ ScriptSteps[6] = "assignment"
      /\ ScriptSteps[7] = "listener"
  BY DEF ScriptSteps
<1>2. CASE n = 6
  <2>1. "policy" \in azure.wired
    <3>1. 5 \in 1 .. n - 1 BY <1>2
    <3> QED BY <1>1, <3>1
  <2> QED BY <1>1, <1>2, <2>1 DEF Possible
<1>3. CASE n = 7
  <2>1. "extension" \in azure.wired
    <3>1. 4 \in 1 .. n - 1 BY <1>3
    <3> QED BY <1>1, <3>1
  <2> QED BY <1>1, <1>3, <2>1 DEF Possible
<1>4. CASE n \in 1 .. 5
  <2>1. ScriptSteps[n] # "assignment" /\ ScriptSteps[n] # "listener"
    BY <1>1, <1>4
  <2> QED BY <2>1 DEF Possible
<1> QED BY <1>2, <1>3, <1>4

LEMMA ScriptStepInv == ASSUME Inv, ScriptStep PROVE Inv'
<1> DEFINE n    == dep.script
           s    == ScriptSteps[n]
           over == IF Final(n) THEN Of("script") ELSE {}
           next == [dep EXCEPT !.script = IF over = {} THEN @ + 1 ELSE 0,
                               !.done = @ \cup over, !.kept = over # {}]
           end  == n = 7
           prev == \A m \in 1 .. n - 1 : ScriptSteps[m] \in azure.wired
<1>1. /\ Len(ScriptSteps) = 7 /\ DOMAIN ScriptSteps = 1 .. 7
      /\ Wired = {ScriptSteps[m] : m \in 1 .. 7}
  BY DEF ScriptSteps, Wired
<1>2. /\ Running /\ n \in 1 .. 7 /\ UNCHANGED <<stack, inv, meddled>>
      /\ \/ /\ Possible(s) /\ azure' = [azure EXCEPT !.wired = @ \cup {s}]
            /\ dep' = next /\ UNCHANGED faults
         \/ /\ ~Possible(s)
            /\ dep' = [next EXCEPT !.late = @ \/ (s = "assignment" /\ ~azure.principal)]
            /\ UNCHANGED <<azure, faults>>
         \/ dep' = [next EXCEPT !.failed = TRUE] /\ Fault /\ UNCHANGED azure
  BY <1>1 DEF ScriptStep
<1>3. Of("script") # {}
  <2>1. dep.script > 0 BY <1>2
  <2> QED BY <1>2, <2>1 DEF Inv, Cloud, Scripted
<1>4. Final(n) = end BY <1>1 DEF Final
<1>5. /\ over = {} <=> ~end
      /\ over = IF end THEN Of("script") ELSE {}
  BY <1>3, <1>4
<1>6. /\ over \subseteq DOMAIN template
      /\ \A id \in over : /\ id \in Ready /\ template[id].kind = "script"
                          /\ id = "Wirecustomclaimsextension"
  BY <1>5, OfKind DEF Inv, Declares
<1>7. ~dep.kept
  <2>1. dep.script > 0 BY <1>2
  <2> QED BY <2>1 DEF Inv, Cloud, Scripted
<1>8. prev \/ dep.failed \/ dep.late
  <2>1. dep.script > 0 BY <1>2
  <2> QED BY <2>1 DEF Inv, Cloud, Scripted
<1> HIDE DEF over
<1>9. dep \in DepStates(DOMAIN template) BY DEF Inv, TypeOK, DepStates
<1>10. /\ next \in DepStates(DOMAIN template)
       /\ next.status = dep.status /\ next.owner = dep.owner
       /\ next.props = dep.props /\ next.done = dep.done \cup over
       /\ next.script = (IF end THEN 0 ELSE n + 1) /\ next.kept = (over # {})
       /\ next.failed = dep.failed /\ next.late = dep.late
  <2> DEFINE D == DOMAIN template
             x == IF over = {} THEN n + 1 ELSE 0
             k == over # {}
  <2>1. dep.done \cup over \in SUBSET D BY <1>6, <1>9 DEF DepStates
  <2>2. x \in 0 .. Len(ScriptSteps) /\ x = IF end THEN 0 ELSE n + 1
    BY <1>1, <1>2, <1>5
  <2>3. k \in BOOLEAN OBVIOUS
  <2>4. next = [dep EXCEPT !.script = x, !.done = dep.done \cup over, !.kept = k]
    BY <1>9 DEF DepStates
  <2>5. dep \in DepStates(D) BY <1>9
  <2> HIDE DEF D, x, k, next
  <2>6. next \in DepStates(D) BY <2>1, <2>2, <2>3, <2>4, <2>5 DEF DepStates
  <2>7. /\ next.status = dep.status /\ next.owner = dep.owner
        /\ next.props = dep.props /\ next.done = dep.done \cup over
        /\ next.script = x /\ next.kept = k
        /\ next.failed = dep.failed /\ next.late = dep.late
    BY <2>4, <2>5 DEF DepStates
  <2> QED BY <2>2, <2>6, <2>7 DEF D, k
<1> HIDE DEF next
\* What the step adds to the record of the script.
<1> DEFINE made == s \in azure'.wired
<1>11. /\ dep' \in DepStates(DOMAIN template)
       /\ dep'.status = dep.status /\ dep'.owner = dep.owner
       /\ dep'.props = dep.props /\ dep'.done = dep.done \cup over
       /\ dep'.script = (IF end THEN 0 ELSE n + 1) /\ dep'.kept = (over # {})
       /\ dep.failed => dep'.failed
       /\ dep.late => dep'.late
       /\ azure' \in AzureStates
       /\ azure'.roles = azure.roles /\ azure'.groups = azure.groups
       /\ azure'.assigned = azure.assigned /\ azure.wired \subseteq azure'.wired
       /\ faults' \in 0 .. MaxFaults
       /\ prev => (made \/ dep'.failed \/ dep'.late)
  <2>1. azure \in AzureStates BY AzureTyped DEF Inv
  <2>2. s \in Wired BY <1>1, <1>2
  <2>3. CASE /\ Possible(s) /\ azure' = [azure EXCEPT !.wired = @ \cup {s}]
             /\ dep' = next /\ UNCHANGED faults
    <3>1. faults' \in 0 .. MaxFaults BY <2>3, FaultTyped DEF Inv
    <3> HIDE DEF s
    <3>2. /\ azure' \in AzureStates
          /\ azure'.roles = azure.roles /\ azure'.groups = azure.groups
          /\ azure'.assigned = azure.assigned
          /\ azure'.wired = azure.wired \cup {s}
      BY <2>1, <2>2, <2>3 DEF AzureStates
    <3> QED BY <1>10, <2>3, <3>1, <3>2
  <2>4. CASE /\ ~Possible(s)
             /\ dep' = [next EXCEPT !.late = @ \/ (s = "assignment" /\ ~azure.principal)]
             /\ UNCHANGED <<azure, faults>>
    <3>1. faults' \in 0 .. MaxFaults BY <2>4, FaultTyped DEF Inv
    <3> DEFINE late == next.late \/ (s = "assignment" /\ ~azure.principal)
    <3>2. dep' = [next EXCEPT !.late = late] /\ late \in BOOLEAN
      BY <1>10, <2>4 DEF DepStates
    <3>3. prev => late BY <1>2, <2>4, PossibleAfter
    <3>4. next.late => late OBVIOUS
    <3> HIDE DEF late
    <3>5. /\ dep' \in DepStates(DOMAIN template)
          /\ dep'.status = next.status /\ dep'.owner = next.owner
          /\ dep'.props = next.props /\ dep'.done = next.done
          /\ dep'.script = next.script /\ dep'.kept = next.kept
          /\ dep'.failed = next.failed /\ dep'.late = late
      BY <1>10, <3>2 DEF DepStates
    <3> HIDE DEF prev, made, s
    <3> QED BY <1>10, <2>1, <2>4, <3>1, <3>3, <3>4, <3>5
  <2>5. CASE dep' = [next EXCEPT !.failed = TRUE] /\ Fault /\ UNCHANGED azure
    <3>1. faults' \in 0 .. MaxFaults BY <2>5, FaultTyped DEF Inv
    <3>2. /\ dep' \in DepStates(DOMAIN template)
          /\ dep'.status = next.status /\ dep'.owner = next.owner
          /\ dep'.props = next.props /\ dep'.done = next.done
          /\ dep'.script = next.script /\ dep'.kept = next.kept
          /\ dep'.failed = TRUE /\ dep'.late = next.late
      BY <1>10, <2>5 DEF DepStates
    <3> HIDE DEF prev, made, s
    <3> QED BY <1>10, <2>1, <2>5, <3>1, <3>2
  <2> QED BY <1>2, <2>3, <2>4, <2>5
<1>12. template' = template BY <1>11 DEF template
<1>13. TypeOK' BY <1>2, <1>11, <1>12 DEF Inv, TypeOK, DepStates, AzureStates
<1>14. Side' BY <1>2, <1>11, SideKept DEF Inv
<1>15. Applied'
  <2>1. dep.status = "running" BY <1>2 DEF Running
  <2>2. "Application" \notin over BY <1>6
  <2> QED BY <1>11, <1>12, <2>1, <2>2 DEF Inv, Cloud, Applied
<1>16. Served'
  <2>1. \A id \in over : template[id].kind = "script" BY <1>6
  <2>2. \A id : Principal(id)' = Principal(id) BY <1>12 DEF Principal
  <2> HIDE DEF Principal
  <2> QED BY <1>11, <1>12, <2>1, <2>2 DEF Inv, Cloud, Served
<1>17. Scripted'
  <2>1. (\A m \in 1 .. n : ScriptSteps[m] \in azure'.wired) \/ dep'.failed \/ dep'.late
    <3>1. CASE dep.failed \/ dep.late BY <1>11, <3>1
    <3>2. CASE prev
      <4>1. \A m \in 1 .. n - 1 : ScriptSteps[m] \in azure'.wired BY <1>11, <3>2
      <4>2. \A m \in 1 .. n : m = n \/ m \in 1 .. n - 1 BY <1>2
      <4>3. made \/ dep'.failed \/ dep'.late BY <1>11, <3>2
      <4> QED BY <4>1, <4>2, <4>3
    <3> QED BY <1>8, <3>1, <3>2
  <2>2. CASE ~end
    <3>1. dep'.kept = FALSE /\ dep'.script = n + 1 /\ dep'.done = dep.done
      BY <1>5, <1>11, <2>2
    <3>2. Of("script")' = Of("script") BY <1>12, <3>1 DEF Of, Ready
    <3>3. dep'.script - 1 = n BY <1>2, <3>1
    <3>4. "Wirecustomclaimsextension" \notin dep.done
      <4>1. PICK id \in Of("script") : TRUE BY <1>3
      <4>2. id \notin dep.done /\ id = "Wirecustomclaimsextension"
        BY <4>1, OfKind DEF Inv, Declares
      <4> QED BY <4>2
    <3> QED BY <1>3, <2>1, <3>1, <3>2, <3>3, <3>4 DEF Scripted
  <2>3. CASE end
    <3>1. Explained'
      <4>1. azure'.wired \subseteq Wired BY <1>11 DEF AzureStates
      <4>2. (\A m \in 1 .. 7 : ScriptSteps[m] \in azure'.wired) => azure'.wired = Wired
        BY <1>1, <4>1
      <4> QED BY <2>1, <2>3, <4>2 DEF Explained
    <3>2. dep'.script = 0 BY <1>11, <2>3
    <3> HIDE DEF Explained
    <3> QED BY <3>1, <3>2 DEF Scripted
  <2> QED BY <2>2, <2>3
<1> QED BY <1>13, <1>14, <1>15, <1>16, <1>17 DEF Inv, Cloud

\* The deployment ends, and the invocation that waits for it goes on.
LEMMA EndsInv ==
  ASSUME Inv, Running, NEW status \in {"ok", "failed"}, NEW step \in Step,
         EndsAs(status, step), faults' \in 0 .. MaxFaults,
         status = "failed" => step = "failure",
         status = "ok" => /\ dep.done = DOMAIN template
                          /\ step = IF dep.props.mapping THEN "upload" ELSE "success"
  PROVE  Inv'
<1> DEFINE o == dep.owner
           to == IF inv[o].step = "deploying" THEN step ELSE inv[o].step
<1>1. dep' = [dep EXCEPT !.status = status] /\ UNCHANGED <<stack, azure, meddled>>
  BY DEF EndsAs
<1>2. dep \in DepStates(DOMAIN template) /\ o \in Request /\ inv \in Invocations
      /\ inv[o].step \in Step
  BY Typed DEF Inv, TypeOK, DepStates
<1>3. /\ dep' \in DepStates(DOMAIN template) /\ dep'.status = status
      /\ dep'.owner = dep.owner /\ dep'.props = dep.props /\ dep'.done = dep.done
      /\ dep'.script = dep.script /\ dep'.kept = dep.kept
      /\ dep'.failed = dep.failed /\ dep'.late = dep.late
  BY <1>1, <1>2 DEF DepStates
<1>4. inv' = [inv EXCEPT ![o].step = to] /\ to \in Step
  BY <1>2 DEF EndsAs, Invocations
<1> HIDE DEF to
<1>5. /\ inv' \in Invocations
      /\ \A q \in Request : q # o => inv'[q] = inv[q]
      /\ inv'[o].props = inv[o].props /\ inv'[o].step = to
  BY <1>2, <1>4 DEF Invocations
<1>6. template' = template BY <1>3 DEF template
<1>7. TypeOK' BY <1>1, <1>3, <1>5, <1>6 DEF Inv, TypeOK, DepStates, Invocations
<1>8. \A q \in Request : \/ inv'[q] = inv[q] /\ inv[q].step # "deploying"
                         \/ /\ q = o /\ inv[q].step = "deploying"
                            /\ inv'[q].step = step /\ inv'[q].props = inv[q].props
                            /\ dep.props = inv[q].props
  <2> SUFFICES ASSUME NEW q \in Request
               PROVE  \/ inv'[q] = inv[q] /\ inv[q].step # "deploying"
                      \/ /\ q = o /\ inv[q].step = "deploying"
                         /\ inv'[q].step = step /\ inv'[q].props = inv[q].props
                         /\ dep.props = inv[q].props
    OBVIOUS
  <2>1. CASE inv[q].step = "deploying"
    <3>1. q = o /\ dep.props = inv[q].props BY <2>1 DEF Inv, Side, Owned
    <3> QED BY <2>1, <3>1, <1>5 DEF to
  <2>2. CASE inv[q].step # "deploying"
    <3>1. CASE q # o BY <1>5, <2>2, <3>1
    <3>2. CASE q = o
      <4>1. inv' = [inv EXCEPT ![o].step = inv[o].step] BY <1>4, <2>2, <3>2 DEF to
      <4>2. inv'[q] = inv[q] BY <4>1, <3>2, <1>2 DEF Invocations
      <4> QED BY <2>2, <4>2
    <3> QED BY <3>1, <3>2
  <2> QED BY <2>1, <2>2
<1>9. step \in {"failure", "upload", "success"} OBVIOUS
<1>10. Side'
  <2>1. dep.status = "running" BY DEF Running
  <2>2. Fresh' BY <1>1, <1>8 DEF Inv, Side, Fresh
  <2>3. Asked'
    <3>1. stack.request # 0 => stack.request \in Request
      BY Typed DEF Inv
    <3> QED BY <1>1, <1>8, <3>1 DEF Inv, Side, Asked
  <2>4. Owned' BY <1>8, <1>9 DEF Owned
  <2>5. Latest'
    <3> SUFFICES ASSUME NEW q \in Request, q = stack.request, ~meddled,
                        inv'[q].step \in Outcome
                 PROVE  /\ dep'.status = "ok" /\ dep'.props = inv'[q].props
                        /\ \/ inv'[q].step = "upload"
                           \/ inv'[q].step = "success" /\ ~inv'[q].props.mapping
      BY <1>1 DEF Latest
    <3>1. ~(inv[q].step \in Outcome) BY <2>1 DEF Inv, Side, Latest
    <3>2. inv[q].step = "deploying" /\ inv'[q].step = step
          /\ inv'[q].props = dep.props
      BY <1>8, <3>1
    <3>3. status = "ok" /\ step = IF dep.props.mapping THEN "upload" ELSE "success"
      BY <3>2 DEF Outcome
    <3> QED BY <1>3, <3>2, <3>3
  <2>6. Finished' BY <1>1, <2>1 DEF Inv, Side, Finished
  <2> QED BY <2>2, <2>3, <2>4, <2>5, <2>6 DEF Side
<1>11. Applied' BY <1>1, <1>3, <1>6 DEF Inv, Cloud, Applied
<1>12. Served' BY <1>1, <1>3, <1>6 DEF Inv, Cloud, Served, Principal
<1>13. Scripted'
  <2>1. Explained' = Explained BY <1>1, <1>3 DEF Explained
  <2>2. ~Running' BY <1>3 DEF Running
  <2> HIDE DEF Explained
  <2> QED BY <1>1, <1>3, <2>1, <2>2 DEF Inv, Cloud, Scripted
<1> QED BY <1>7, <1>10, <1>11, <1>12, <1>13 DEF Inv, Cloud

LEMMA EndFailedInv == ASSUME Inv, EndFailed PROVE Inv'
<1>1. faults' \in 0 .. MaxFaults BY FaultTyped DEF EndFailed, Inv
<1>2. "failure" \in Step BY DEF Step
<1> QED BY <1>1, <1>2, EndsInv DEF EndFailed

LEMMA EndOkInv == ASSUME Inv, EndOk PROVE Inv'
<1>1. faults' \in 0 .. MaxFaults BY FaultTyped DEF EndOk, Inv
<1> DEFINE step == IF dep.props.mapping THEN "upload" ELSE "success"
<1>2. step \in Step BY DEF Step
<1>3. EndsAs("ok", step) /\ Running /\ dep.done = DOMAIN template BY DEF EndOk
<1> QED BY <1>1, <1>2, <1>3, EndsInv

-----------------------------------------------------------------------------
(* Theorems                                                                *)

LEMMA NextInv == ASSUME Inv, [Next]_vars PROVE Inv'
<1>1. CASE CloudFormation
  <2>1. ASSUME NEW p \in Options, CreateStack(p) PROVE Inv'
    BY <2>1, AskInv DEF CreateStack
  <2>2. ASSUME NEW p \in Options, UpdateStack(p) PROVE Inv'
    BY <2>2, AskInv DEF UpdateStack
  <2> QED BY <1>1, <2>1, <2>2, DeleteStackInv, TimeOutInv DEF CloudFormation
<1>2. CASE Lambda
  BY <1>2, LoginInv, SubmitInv, WaitInv, ResubmitInv, DeploymentFailedInv, UploadInv,
     SettingInv, SucceedInv, FailsInv, DiesInv
  DEF Lambda
<1>3. CASE Azure
  BY <1>3, ProvideSupportInv, ProvideApplicationInv, ProvidePrincipalInv,
     ProvideGroupInv, ProvideAssignmentInv, ProvideFunctionAppInv, StartScriptInv,
     SkipScriptInv, ScriptStepInv, EndFailedInv, EndOkInv
  DEF Azure
<1>4. CASE UNCHANGED vars
  <2>1. UNCHANGED <<stack, inv, dep, azure, meddled, faults>> BY <1>4 DEF vars
  <2>2. Cloud' BY <2>1, CloudKept DEF Inv
  <2>3. TypeOK' BY <2>1 DEF Inv, TypeOK, template
  <2>4. Side' BY <2>1 DEF Inv, Side, Fresh, Asked, Owned, Latest, Finished, Packaged
  <2> QED BY <2>2, <2>3, <2>4 DEF Inv
<1> QED BY <1>1, <1>2, <1>3, <1>4 DEF Next

LEMMA Invariant == Spec => []Inv
BY InitInv, NextInv, PTL DEF Spec

\* The types of the stack, the invocations, the deployment and what is in Azure.
THEOREM TypeCorrect == Spec => []TypeOK
<1>1. Inv => TypeOK BY DEF Inv
<1> QED BY <1>1, Invariant, PTL

\* A deployment that succeeded has provided every group it keeps, with its own
\* role, and no group carries the role of another, whatever identifiers the
\* names come to (template.ts:91).
THEOREM GroupsHaveRoles == Spec => []GroupsServed
<1>1. Inv => GroupsServed
  <2> SUFFICES ASSUME Inv PROVE GroupsServed OBVIOUS
  <2> DEFINE p == dep.props
  <2>1. Sound(p, template) /\ DOMAIN p.groups = 1 .. Len(p.groups)
    BY TemplateIs DEF Inv
  <2>2. \A a \in azure.assigned : a[1] = a[2] BY AlreadyServed
  <2>3. ASSUME dep.status = "ok", NEW n \in DOMAIN p.groups, ~Taken(p, n)
        PROVE  /\ p.groups[n] \in azure.groups
               /\ <<p.groups[n], p.groups[n]>> \in azure.assigned
    <3> DEFINE g == p.groups[n]
    <3>1. GroupKept(p, template, g) /\ AssignmentKept(p, template, g)
      BY <2>1, <2>3 DEF Sound
    <3>2. dep.done = DOMAIN template BY <2>3 DEF Inv, Cloud, Applied
    <3> HIDE DEF g
    <3>3. g \in azure.groups
      <4>1. GroupId[g] \in dep.done /\ template[GroupId[g]].kind = "group"
            /\ template[GroupId[g]].group = g
        BY <3>1, <3>2, GroupFields DEF GroupKept
      <4> QED BY <4>1 DEF Inv, Cloud, Served
    <3>4. <<g, g>> \in azure.assigned
      <4>1. AssignmentId[g] \in dep.done
            /\ template[AssignmentId[g]].kind = "assignment"
            /\ template[AssignmentId[g]].group = g
        BY <3>1, <3>2, GroupFields DEF AssignmentKept
      <4>2. Principal(AssignmentId[g]).group = g
        BY <3>1, <4>1, GroupFields DEF Principal, GroupKept
      <4> QED BY <4>1, <4>2 DEF Inv, Cloud, Served
    <3> QED BY <3>3, <3>4 DEF g
  <2> QED BY <2>2, <2>3 DEF GroupsServed
<1> QED BY <1>1, Invariant, PTL

\* A deployment with session tags that succeeded has left the claims provider
\* wired, unless a call of its script failed unnoticed or came too early.
THEOREM Wiring == Spec => []WiringExplained
<1>1. Inv => WiringExplained
  <2> SUFFICES ASSUME Inv, dep.status = "ok", dep.props.mapping
               PROVE  azure.wired = Wired \/ dep.failed \/ dep.late
    BY DEF WiringExplained
  <2>1. dep.done = DOMAIN template BY DEF Inv, Cloud, Applied
  <2>2. "Wirecustomclaimsextension" \in DOMAIN template
    BY TemplateIs DEF Inv, Sound
  <2> QED BY <2>1, <2>2 DEF Inv, Cloud, Scripted, Explained
<1> QED BY <1>1, Invariant, PTL

\* A stack that is done has in Azure the roles, the package and the setting it
\* asked for, unless an invocation of an earlier request has written since.
THEOREM Settled == Spec => []SettledMatches
<1>1. Inv => SettledMatches
  BY DEF Inv, Side, Finished, SettledMatches, Packaged
<1> QED BY <1>1, Invariant, PTL
=============================================================================
