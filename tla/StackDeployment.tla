-------------------------- MODULE StackDeployment --------------------------
(***************************************************************************)
(* The two stacks of an application.  The backend stack (AuthInfrastructure *)
(* or CognitoSessionBackend) owns the table, the keys, the configuration   *)
(* secret, the KeyValueStore, the custom resource that copies the HMAC key *)
(* into the store, and the one that publishes identifiers as parameters;   *)
(* the edge stack reads the parameters when it is deployed.                *)
(* CloudFormation creates, updates, rolls back and deletes resource by     *)
(* resource, and the scheduled rotation goes on meanwhile.                 *)
(*                                                                         *)
(* The copy is one step here; SecretRotation takes it apart.               *)
(***************************************************************************)
EXTENDS Naturals, FiniteSets

CONSTANTS
  Setting,     \* values of the options that go into the secret only
  MaxGen       \* bound: generations of resources

ASSUME DeploymentAssumption == Setting # {} /\ MaxGen \in Nat

\* backend: AuthInfrastructure or CognitoSessionBackend, with their removal
\* policies as they are by default.  identity: enableWebIdentityToken.
Options == {o \in [backend : {"azure", "cognito"}, identity : BOOLEAN,
                   setting : Setting] : o.identity => o.backend = "azure"}

Resource == {"table", "key", "webkey", "secret", "kvs", "copy", "ssm"}
Param == {"configSecretArn", "kmsKeyArn", "authTableArn", "kvsArn", "tenantId",
          "clientId", "oauth2CallbackRoleName", "cognitoDomain", "userPoolId",
          "webIdentityKeyArn", "webIdentityKeyRegion"}
Gen == 0 .. MaxGen
Key == 0 .. 3    \* 0: no entry; a key that nobody holds may come again

VARIABLES
  phase,       \* of the backend stack
  options,     \* of its template
  before,      \* what a rollback goes back to
  todo,        \* resources the operation has yet to deal with
  done,        \* resources it has dealt with
  live,        \* resources of the stack
  orphans,     \* retained ones, which no stack owns any more
  gen, arn,    \* generations so far, and the one of each resource
  secret,      \* the configuration and the HMAC key in it
  cur,         \* jwt.secret
  ssm,         \* parameters: the generation each names, 0 for none
  rot, read,   \* rotateSecret's next step, and the configuration it has read
  edge,        \* the parameters the edge stack was deployed with
  crossed      \* history: the last write of the template met a rotation

cfn      == <<phase, options, before, todo, done, live, orphans>>
rotation == <<rot, read>>
vars     == <<cfn, gen, arn, secret, cur, ssm, rotation, edge, crossed>>

NoRead == CHOOSE o \in Options : TRUE
NoEdge == [variant |-> "none", identity |-> FALSE,
           baked |-> [p \in Param |-> 0]]

-----------------------------------------------------------------------------
(* The constructs                                                          *)

AzureResources(o) == IF o.identity THEN Resource ELSE Resource \ {"webkey"}
CognitoResources == Resource \ {"webkey"}
Resources(o) ==
  IF o.backend = "azure" THEN AzureResources(o) ELSE CognitoResources

\* Mutant of Needs: the copy does not wait for the secret.
NeedsStoreOnly(r) == CASE r = "secret" -> {"table", "key", "webkey"}
                       [] r = "copy"   -> {"kvs"}
                       [] r = "ssm"    -> {"table", "key", "webkey", "secret", "kvs"}
                       [] OTHER        -> {}
Needs(r) == CASE r = "secret" -> {"table", "key", "webkey"}
              [] r = "copy"   -> {"secret", "kvs"}
              [] r = "ssm"    -> {"table", "key", "webkey", "secret", "kvs"}
              [] OTHER        -> {}

\* What a deletion leaves behind, and what a creation that is rolled back does:
\* the Cognito key is RETAIN_ON_UPDATE_OR_DELETE, everything else RETAIN.
AzureRetained == {"table", "key", "webkey"}
CognitoRetained(undoing) == IF undoing THEN {"table"} ELSE {"table", "key"}
\* Mutant of Retained: the table goes with its stack.
RetainedKeys(o, undoing) ==
  (IF o.backend = "azure" THEN AzureRetained ELSE CognitoRetained(undoing))
    \ {"table"}
Retained(o, undoing) ==
  IF o.backend = "azure" THEN AzureRetained ELSE CognitoRetained(undoing)

\* The parameters published, and which resource each names.
AzureParams(o) ==
  {"configSecretArn", "kmsKeyArn", "authTableArn", "kvsArn", "tenantId",
   "clientId", "oauth2CallbackRoleName"}
    \cup (IF o.identity THEN {"webIdentityKeyArn", "webIdentityKeyRegion"} ELSE {})
CognitoParams ==
  {"configSecretArn", "kmsKeyArn", "authTableArn", "kvsArn", "cognitoDomain",
   "clientId", "userPoolId"}
Params(o) == IF o.backend = "azure" THEN AzureParams(o) ELSE CognitoParams
\* What is no ARN is there as long as the table.
Named(p) == CASE p = "configSecretArn" -> "secret" [] p = "kmsKeyArn" -> "key"
              [] p = "kvsArn" -> "kvs" [] p = "webIdentityKeyArn" -> "webkey"
              [] OTHER -> "table"

\* What the edge constructs read, the second of both backends.
AzureEdgeReads(identity) ==
  {"configSecretArn", "kmsKeyArn", "authTableArn", "kvsArn", "tenantId",
   "clientId", "oauth2CallbackRoleName"}
    \cup (IF identity THEN {"webIdentityKeyArn"} ELSE {})
CognitoEdgeReads ==
  {"configSecretArn", "kmsKeyArn", "authTableArn", "kvsArn", "cognitoDomain",
   "clientId"}
CustomUiEdgeReads == {"configSecretArn", "kmsKeyArn", "authTableArn", "kvsArn"}
EdgeReads(variant, identity) ==
  CASE variant = "azure"   -> AzureEdgeReads(identity)
    [] variant = "cognito" -> CognitoEdgeReads
    [] OTHER               -> CustomUiEdgeReads

-----------------------------------------------------------------------------
(* CloudFormation: resource by resource                                    *)

Smallest(S) == CHOOSE x \in S : \A y \in S : x <= y
FreshKey == Smallest(Key \ {0, secret.key, cur})

\* The secret's template, with a key drawn for it: also whenever the template
\* changes, and again when it changes back.
Draw(o) ==
  secret' = [config |-> o, key |-> FreshKey] /\ crossed' = (rot = "put")

\* Mutant of CopyKey: only the first copy is made.
CopyKeyOnce == cur' = IF cur = 0 THEN secret.key ELSE cur
\* copy_secret_to_kvs, without the old key that SecretRotation is about.
CopyKey == cur' = secret.key

\* Mutant of WriteParams: an update writes nothing.
WriteParamsOnce(o, kind) ==
  ssm' = IF kind # "Create" THEN ssm
         ELSE [p \in Param |-> IF p \in Params(o) THEN arn[Named(p)] ELSE ssm[p]]
\* The handler of the writer: a parameter that an update drops is not deleted.
WriteParams(o, kind) ==
  ssm' = [p \in Param |-> IF p \notin Params(o) THEN ssm[p]
                          ELSE IF kind = "Delete" THEN 0 ELSE arn[Named(p)]]

Dealt(r) == todo' = todo \ {r} /\ done' = done \cup {r}
\* What the resources hold.
Data == <<secret, cur, ssm, crossed>>

\* Create or update one resource for the template o.
Deal(r, o, kind) ==
  /\ live' = live \cup {r}
  /\ arn' = [arn EXCEPT ![r] = IF r \in live THEN @ ELSE gen]
  /\ orphans' = IF r \in live THEN orphans ELSE orphans \ {r}
  /\ CASE r = "secret" -> Draw(o) /\ UNCHANGED <<cur, ssm>>
       [] r = "copy"   -> CopyKey /\ UNCHANGED <<secret, ssm, crossed>>
       [] r = "ssm"    -> WriteParams(o, kind) /\ UNCHANGED <<secret, cur, crossed>>
       [] OTHER        -> UNCHANGED Data

\* Take one resource away.
Remove(r, undoing) ==
  /\ live' = live \ {r} /\ UNCHANGED arn
  /\ orphans' = IF r \in Retained(options, undoing) THEN orphans \cup {r}
                                                    ELSE orphans
  /\ CASE r = "ssm"    -> WriteParams(options, "Delete")
                          /\ UNCHANGED <<secret, cur, crossed>>
       [] r = "secret" -> secret' = [secret EXCEPT !.key = 0]
                          /\ UNCHANGED <<cur, ssm, crossed>>
       [] r = "kvs"    -> cur' = 0 /\ UNCHANGED <<secret, ssm, crossed>>
       [] OTHER        -> UNCHANGED Data

\* A table has a name of its own, and an orphan holds it.
Free(r) == r = "table" => "table" \notin orphans

-----------------------------------------------------------------------------
(* Operations on the backend stack                                         *)

Idle == UNCHANGED <<rotation, edge>>
Nothing == UNCHANGED <<live, orphans, arn, Data>>

CreateStack(o) ==
  /\ phase = "none" /\ phase' = "create"
  /\ options' = o /\ before' = o /\ gen < MaxGen /\ gen' = gen + 1
  /\ todo' = Resources(o) /\ done' = {}
  /\ Idle /\ Nothing

\* What an update deals with: the secret where its template has changed, the
\* web identity key and the parameters where there is another set of them.  The
\* properties of the copy are two ARNs, which do not change.
Touched(o, n) ==
  {"secret"} \cup
  (IF o.identity # n.identity THEN {"ssm"} ELSE {}) \cup
  (IF n.identity /\ ~o.identity THEN {"webkey"} ELSE {})
UpdateStack(o) ==
  /\ phase = "ready" /\ phase' = "update"
  /\ o # options /\ o.backend = options.backend
  /\ before' = options /\ options' = o
  /\ IF o.identity /\ ~options.identity THEN gen < MaxGen /\ gen' = gen + 1
                                        ELSE UNCHANGED gen
  /\ todo' = Touched(options, o) /\ done' = {}
  /\ Idle /\ Nothing

DeleteStack ==
  /\ phase = "ready" /\ phase' = "delete"
  /\ todo' = live /\ done' = {}
  /\ UNCHANGED <<options, before, gen>> /\ Idle /\ Nothing

Provide(r) ==
  /\ phase \in {"create", "update"} /\ r \in todo /\ Needs(r) \cap todo = {}
  /\ Free(r) \/ r \in live
  /\ Dealt(r) /\ Deal(r, options, IF phase = "create" THEN "Create" ELSE "Update")
  /\ UNCHANGED <<phase, options, before, gen>> /\ Idle

\* One resource fails, be it for its name: what has been dealt with is undone.
Fail ==
  /\ phase \in {"create", "update"} /\ todo # {}
  /\ phase' = (IF phase = "create" THEN "undo" ELSE "revert")
  /\ todo' = done \ (IF phase = "update" THEN {"webkey"} ELSE {}) /\ done' = {}
  /\ options' = before /\ UNCHANGED <<before, gen>> /\ Idle /\ Nothing

Takers(r) == {s \in Resource : r \in Needs(s)}
TakeAway(r) ==
  /\ phase \in {"undo", "delete"} /\ r \in todo /\ Takers(r) \cap todo = {}
  /\ Dealt(r) /\ Remove(r, phase = "undo")
  /\ UNCHANGED <<phase, options, before, gen>> /\ Idle

Revert(r) ==
  /\ phase = "revert" /\ r \in todo
  /\ Dealt(r) /\ Deal(r, options, "Update")
  /\ UNCHANGED <<phase, options, before, gen>> /\ Idle

\* The end of an operation, with its cleanup.
Complete ==
  /\ phase \notin {"none", "ready"} /\ todo = {}
  /\ phase' = (IF phase \in {"undo", "delete"} THEN "none" ELSE "ready")
  /\ LET surplus == live \ Resources(options)
         drop    == IF phase' = "ready" THEN surplus ELSE {}
     IN /\ live' = live \ drop
        /\ orphans' = orphans \cup (drop \cap Retained(options, FALSE))
  /\ done' = {} /\ before' = options
  /\ UNCHANGED <<todo, options, gen, arn, Data>> /\ Idle

-----------------------------------------------------------------------------
(* The rotation                                                            *)

\* The schedule's rule is there while the stack is.
Scheduled == phase \in {"ready", "update", "revert"}
NoCfn == UNCHANGED <<cfn, gen, arn, ssm, edge, crossed>>

RotGet ==
  /\ Scheduled /\ rot = "idle" /\ "secret" \in live
  /\ rot' = "put" /\ read' = secret.config /\ NoCfn /\ UNCHANGED <<secret, cur>>

\* Mutant of RotPut: the configuration is not carried over.
RotPutKeyOnly ==
  /\ rot = "put" /\ "secret" \in live /\ rot' = "copy" /\ NoCfn
  /\ secret' = [config |-> NoRead, key |-> FreshKey]
  /\ read' = NoRead /\ UNCHANGED cur
\* put_secret_value writes the whole secret, with the configuration as read.
RotPut ==
  /\ rot = "put" /\ "secret" \in live /\ rot' = "copy" /\ NoCfn
  /\ secret' = [config |-> read, key |-> FreshKey]
  /\ read' = NoRead /\ UNCHANGED cur

RotCopy ==
  /\ rot = "copy" /\ {"secret", "kvs"} \subseteq live /\ rot' = "idle"
  /\ CopyKey /\ NoCfn /\ UNCHANGED <<read, secret>>
\* The call failed, every attempt of it, or its lambda ended.
RotFail ==
  /\ rot # "idle" /\ rot' = "idle" /\ read' = NoRead
  /\ NoCfn /\ UNCHANGED <<secret, cur>>

-----------------------------------------------------------------------------
(* The edge stack                                                          *)

\* CloudFormation resolves the parameters; one that is missing fails the
\* deployment, which leaves the stack as it was.
DeployEdge(variant, identity) ==
  LET reads == EdgeReads(variant, identity)
  IN /\ edge.variant \in {"none", variant} /\ \A p \in reads : ssm[p] # 0
     /\ edge' = [variant |-> variant, identity |-> identity,
                 baked |-> [p \in Param |-> IF p \in reads THEN ssm[p] ELSE 0]]
     /\ UNCHANGED <<cfn, gen, arn, secret, cur, ssm, rotation, crossed>>

EdgeVariants == IF options.backend = "azure" THEN {"azure"}
                                             ELSE {"cognito", "customui"}

Init ==
  /\ phase = "none" /\ options = NoRead
  /\ before = options /\ todo = {} /\ done = {} /\ live = {} /\ orphans = {}
  /\ gen = 0 /\ arn = [r \in Resource |-> 0]
  /\ secret = [config |-> options, key |-> 0] /\ cur = 0
  /\ ssm = [p \in Param |-> 0] /\ rot = "idle" /\ read = options
  /\ edge = NoEdge /\ crossed = FALSE

CloudFormation ==
  \/ \E o \in Options : CreateStack(o) \/ UpdateStack(o)
  \/ DeleteStack \/ Fail \/ Complete
  \/ \E r \in Resource : Provide(r) \/ TakeAway(r) \/ Revert(r)
Rotation == RotGet \/ RotPut \/ RotCopy \/ RotFail

Next ==
  \/ CloudFormation \/ Rotation
  \/ \E v \in EdgeVariants, i \in BOOLEAN :
       (i => v = "azure") /\ DeployEdge(v, i)

Spec == Init /\ [][Next]_vars

\* The schedule starts a rotation every few hours, and not all of them fail.
FairSpec == Spec /\ WF_vars(RotGet) /\ SF_vars(RotPut) /\ SF_vars(RotCopy)

-----------------------------------------------------------------------------
(* Properties                                                              *)

TypeOK ==
  /\ phase \in {"none", "create", "ready", "update", "undo", "revert", "delete"}
  /\ options \in Options /\ before \in Options
  /\ todo \subseteq Resource /\ done \subseteq Resource
  /\ live \subseteq Resource /\ orphans \subseteq {"table", "key", "webkey"}
  /\ gen \in Gen /\ arn \in [Resource -> Gen]
  /\ secret \in [config : Options, key : Key] /\ cur \in Key
  /\ ssm \in [Param -> Gen] /\ edge.baked \in [Param -> Gen]
  /\ rot \in {"idle", "put", "copy"} /\ read \in Options
  /\ crossed \in BOOLEAN

\* After every operation, rolled back or not, the secret holds the stack's
\* options, whatever rotations have rewritten it (rotateSecret/index.py:58),
\* but for one that had read it before the operation wrote it and wrote after.
ConfigCurrent == (phase = "ready" /\ ~crossed) => secret.config = options

\* From the moment a backend stack is ready, through updates and their
\* rollbacks, the store has a key and so has the secret.
Keyed == phase \in {"ready", "update", "revert"} => cur # 0 /\ secret.key # 0

\* What an edge stack of the backend reads (securedCloudFront.ts:202) has been
\* published (ssm-writer/index.py:31), and names the resources there are.
ParamsServeEdge ==
  phase = "ready" =>
    \A v \in EdgeVariants, i \in BOOLEAN :
      (i => options.identity) =>
        \A p \in EdgeReads(v, i) : ssm[p] # 0 /\ ssm[p] = arn[Named(p)]

\* An edge stack is deployed once and keeps the identifiers of that day.  They
\* are those of the backend whenever it is ready, even deleted and created
\* again, since its retained table lets no other backend come to be; except
\* for the web identity key, which is made anew each time it is turned on.
BakedCurrent ==
  (phase = "ready" /\ edge.variant # "none") =>
    \A p \in EdgeReads(edge.variant, FALSE) : edge.baked[p] = arn[Named(p)]

\* An update draws a key that nothing copies (authSecretManager.ts:165); the
\* next rotation brings the store and the secret together again.
InStep == phase = "ready" => secret.key = cur
DriftHeals == ~InStep ~> InStep
=============================================================================
