# A verification project for raindancers-cloudfront

TLA+ models of the parts of `src/` that keep state, run concurrently or decide:
the request gate and the session layer of a CloudFront distribution (CloudFront
Functions, Lambda@Edge, DynamoDB, the KeyValueStore "KVS"), the rotation of the
key that signs its tokens, the constructs that put a distribution and its stacks
together, the deployment to Azure, and the directories behind it. TLC checks
them on small instances; TLAPS proves theorems for every instance. Paths are
relative to `src/src/cloudfront/` unless they begin with `src/`; "the callback"
is `lambda/edge-auth/oauth-callback.py`, "the edge" is
`cloudfront-functions/modules/auth-check.js`.

## 1. Inventory

| Part | State it keeps | Operations | Talks to |
|---|---|---|---|
| Edge gate (`cloudfront-functions/`) | none; reads KVS | on every request: TLS, bypass paths, signature (two keys), `exp`, denylist, roles, MFA, headers, rewriting, redirects | KVS; browser cookies |
| Composer (`functionComposer.ts`) | none | pastes check modules into one function per combination | constructs |
| Callback (`lambda/edge-auth/`) | cached config and key; `STATE#`, `SESSION#`, `REFRESH#` items | sign-in, scope switch, scope token | DynamoDB, IdP, STS, SNS |
| Refresh, logout (`lambda/refresh`, `lambda/logout`) | cached config and key | rotate a refresh token and mint a session; end a session | DynamoDB, KVS, IdP |
| Session revocation, stream processor | none | mark and denylist a user's sessions; remove the entry of a record that is gone | SNS, DynamoDB, KVS |
| Auth security table (`authSecurityTable.ts`) | items with `expiresAt`, GSI1 | TTL sweep, index propagation, stream | all of the above |
| Key rotation (`lambda/rotateSecret`, `lambda/hmacSecret`) | `hmac_key` in Secrets Manager; `jwt.secret`, `jwt.secret.old` in KVS | generate, store, copy with ETag, retry | Secrets Manager, KVS, CloudFormation |
| Cognito custom UI (`lambda/cognito-customui-*`) | sessions, refresh records, Cognito's tokens | sign in, renew, log out | Cognito, DynamoDB, KVS |
| Distribution constructs (`patterns/*`) | behaviours, functions and their cache, the last function created | constructors, `addBehavior` (two forms), `protect`, mTLS attachment | CloudFormation, CloudFront |
| Backend and edge stacks | resources, retained resources, parameters | create, update, roll back, delete | CloudFormation, Secrets Manager, SSM |
| Viewer mTLS | revocation and grant stores, connection context | the construct's options, the handshake, the signal cookie | CloudFront, registry |
| Azure deployment (`src/src/bicep`) | custom resource, ARM deployment, Azure resources, function package | create, update, delete, wiring script | CloudFormation, ARM, Graph |
| SCIM (`lambda/scim-provisioning`) | user and group items, memberships copied into users | users, groups, members | DynamoDB, Entra |
| Permissions (`lambda/permissions-admin`) | role and assignment items, index | create, delete or archive a role; assign | DynamoDB |
| Certificates, DNS, web ACL custom resources; web identity; JWT decoder; audit log and front-end deployment | | | |

What is hard in it (`PROJECT.json` lists each hazard at its line):

- **Interleaving.** Nothing locks, and no DynamoDB write has a condition;
  `update_item` is an upsert. Two invocations of any lambda run at once, each
  with three or four calls to two stores.
- **Partial failure.** Most failed calls are logged and ignored and the answer
  is sent as if they had succeeded; the revocation and the Azure lambda raise
  instead, and are run again.
- **Staleness.** Indexes trail their tables; `hmacSecret` writes with an ETag it
  read earlier; containers keep the first key they read; tabs send the cookies
  of the moment; an edge stack keeps the parameters of its day.
- **Movement between reads.** The edge awaits one KVS read after another while
  keys and denylist change; so does the mTLS function with its two stores.
- **Expiry.** Cookies, tokens, session records, `STATE#` and `REFRESH#` items
  have lives of their own, and a denylist entry goes when a record goes.
- **Order of calls at synthesis.** The constructs are programs an application
  calls in any order, with a cache of functions whose key can forget.

What makes the parts correct, in short: whoever reaches an origin was entitled
to; a token that is dead stays dead; one that is accepted can be found by the
next revocation; what a logout deleted does not come back; a replaced key is preserved, and success
means the stores agree; a state is used once; each behaviour runs the function
it asked for and redirects arrive; the stores and parameters of a ready stack
agree; Azure has what the stack asked for; the directory says what it was told.

## 2. Modules

| Module | Models | Composed with |
|---|---|---|
| `TokenAuthority` | the abstract promise: a token is unissued, live, then dead, and stays so while a record stands behind it | implemented by `SessionLifecycle` |
| `SessionLifecycle` | the tokens of one user, call by call | |
| `SecretRotation` | `rotateSecret`, `hmacSecret` and the store they write | |
| `FunctionComposer` | the function a behaviour's extensions compose to | used by `EdgeGate`, `Distribution` |
| `EdgeGate` | one evaluation of a function, read by read, over a moving store | |
| `GateDuringRotation` | the evaluations read what the copies write | `SecretRotation` + `EdgeGate` |
| `LoginFlow` | tabs, PKCE cookies, redirect, callback, `STATE#` | |
| `Distribution` | constructors and methods, CloudFormation, a browser that follows redirects | the answers of `EdgeGate` |
| `StackDeployment` | backend and edge stacks under CloudFormation, rotation meanwhile | |
| `ViewerMtls` | options, handshake, signal | |
| `AzureDeployment` | CloudFormation, repeated invocations, the ARM deployment | |
| `CustomUiSession` | sign-in, refresh, logout of the Cognito variant | |
| `ScimDirectory` | SCIM requests on users and groups | |
| `RoleDirectory` | roles, assignments, archive-not-delete | |
| `Entrance` | the entrance of an application | `Distribution`, `ViewerMtls` |
| `Services` | the services behind it | `ScimDirectory`, `RoleDirectory`, `CustomUiSession` |

`MC...` modules hold the values a .cfg cannot write and the symmetry sets.
`Entrance` and `Services` put parts that share no state side by side, a variable
that never changes saying which of them a behaviour is of. The states of such a
run are the sum of its parts, and TLC's coverage reports every action of each as
taken; that each part behaves in them as its own specification is a theorem.
`...Proofs` modules hold the theorems. A definition named in a comment "Mutant
of X" is a plausible bug of X, used only to show that a property notices it.

**SessionLifecycle.** `session`, `sessionExp`, `refresh` are the items
`SESSION#<user>/SESSION#<jti>` (absent, active, revoked, or the *ghost* an
upsert makes of a missing key) and `REFRESH#<jti>`; `denied` the
`revoked:<jti>` keys; `lag` the items GSI1 does not show yet; `stream` the
removals of the sweep with the last image `StreamClean` filters on; `held` the
tokens a browser has received, which anyone can go on presenting. Each
invocation has a program counter with one value per service call. A call that
may fail has an alternative that is ignored (`Ignored`, noted in `lost`); a call
that was applied although its answer was lost is covered by the success and a
failure of the next one. `Abandon` ends an invocation anywhere: an error, a
crash, a timeout. The clock counts units of the 3600 s of a session record and
waits for the index. One user and one revocation message at a time.
`RevokeQuery` is one query, so one page (`PageSizes`): what it cannot see is
`missed` when the index trails and `beyond` when it lies past the page, in which
records already revoked take their place. `LogoutDeny` changes nothing: the
construct gives the lambda an ARN that is the text of an unresolved token, and
the put always fails (section 3). A token whose record ends first
(oauth-callback.py:892 and 931 are never compared) has `lapsed` when the sweep
takes the record: no revocation finds it, and if it was denied the stream
processor takes its denylist entry away while it is valid. The properties count
it among their causes, `TokenAuthority` promises nothing of it from then on, and
`session_expiry` has such lifetimes. `TokensWithinRecords`, which the code does
not enforce, says that there are none. The read of a `REFRESH#` record may trail
the table; what it misses ends the request, as `Abandon` may, and what it sees
still is an earlier step's view, so no variable keeps track of it.

**SecretRotation.** `sm` numbers the keys in Secrets Manager, `cur` and `prior`
are `jwt.secret` and `jwt.secret.old`, `etag` the version of the store.
`hmacSecret` is a process per instance, one action per call, three writes
conditional on the tag it holds; the broad `except` makes each failure between
them an alternative that goes on to the last write. A write may be applied
although its answer is lost. `rotateSecret` waits for one instance, retries, and
may time out while the instance runs on. The role of the construct lacks
`GetKey`: the denial is swallowed and the key is replaced without being
preserved, so `ReplacedKeyKept` speaks of copies that did preserve it, and the
run adds the grant (`ExtraGrants`) to reach them.

**FunctionComposer, EdgeGate.** A composed function is a record: its check
module, TLS, roles and mode, MFA, header injection, refresh, rewriting. An
evaluation is `Receive`, the screen (TLS, bypass, cookie), the reads of the keys
by each of the four hand-made copies of `validateHmacSignature`, expiry, the
denylist, roles and answer, with `Change` and `Tick` in between. Histories
record what moved: keys `held` since arrival, tokens denied all along
(`barred`), a key `lost` or gone `back`. A request and a token are small
records; a signature is the key that made it.

**GateDuringRotation.** The same evaluations, with the store moved by the
actions of `SecretRotation`. Tokens are signed with any key Secrets Manager has
had, since containers keep the key they started with.

**LoginFlow.** A flow is a state and a verifier minted together. `jar` is the
browser's cookies with their Max-Age, `sent` those a request carried, stale when
the answer arrives. `Redirect` is `redirectToAuth` with `inflightAuthFlow`. The
callback compares, gets, puts, exchanges and answers in separate steps. The get
(oauth-callback.py:659) is eventually consistent: while a put is in `lag`, until
`Settle`, it may miss the item. A state a callback has gone on with (`used`)
passes again for one of three causes, which `ReplayRefused` lists: another
callback is between its get and its put, the put has not reached every replica,
or a call on the item has failed (`unrecorded`), which lets a callback pass. 600 s
are `Age` units and a callback ends within one.

**Distribution.** `Construct` builds the behaviours of one of three constructs
in the order CloudFront tries them, `AddBehavior`, `AddBehaviorLegacy`,
`Protect`, `AttachMtls` are the methods, `functions` the CloudFront Functions
with the dependency each was given, `Synthesise`, `Create`, `Complete` and
`Publish` what CloudFormation and CloudFront do, `Visit` and `Follow` a browser.
A path pattern is the set of URIs it matches.

**StackDeployment.** `CreateStack`, `UpdateStack`, `DeleteStack`, then
`Provide`, `TakeAway`, `Revert` resource by resource in the order of `Needs`,
`Fail` and `Complete`. Retained resources become `orphans`; identifiers are
generations, so that a parameter that names an old one shows. The copy of the
key is one step here; `SecretRotation` takes it apart. Settings live in the
secret only, and removal policies are the defaults.

**ViewerMtls.** `Construct` settles the options or throws; `Connect`,
`ReadRevocation`, `ReadGrant`, `Respond` are the handshake and the
viewer-response function, `Register` writes either store between them. The
checks of the attach mode's constructor are not in `Refused`.

**AzureDeployment.** `inv` is the invocation of each CloudFormation request,
which Lambda repeats after it raises, `dep` the one ARM deployment of the
construct's name, `azure` what exists. Resources are provided in waves by their
references; incremental mode never removes any. The script goes on after failed
calls, and since no `forceUpdateTag` is set Azure keeps an ended script an hour
and skips it (`SkipScript`). `Template` adds the resources call by call to a map,
in which a later one of an identifier replaces an earlier one; in the run one
Graph permission stands for five. The deletion
of the deployment's record is not a step. Applications without the session-tag
mapping never deploy: the lambda passes a parameter the template does not
declare, which ARM refuses.

**CustomUiSession.** One action per call of the three lambdas; `live` is what
Cognito honours, and a renewal may answer the same or a new refresh token, as
the pool is set. Both reads of a record (refresh:158, logout:122) may trail the
table, which adds nothing: a miss is their other alternative, a stale hit an
earlier step's view. The `put_key` with `IfMatch='*'` here and in the session
revocation is taken to be one the service accepts; were it refused, each would
be the failure that its action also allows. The identity hook and the scope resolver end a request before
any write when they fail. `ended` holds sign-ins whose logout had every call
succeed on a token still honoured, `unsaved` sessions sent after
a failed write or left half logged out.

**ScimDirectory.** `item` and `view` are a user's item and what GSI1 shows,
`groups` the group items, `req` each invocation with what it has read. POST and
PUT replace the item, PATCH and the member operations are upserts, `ScanMembers`,
`StripMember`, `DropGroup` are `delete_group`. `meant` and `told` record what the
identity provider asked for, in the order of the writes; `blind`, `lost`, `late`
and a status sent as a text the only ways the directory departs from it. `active`
is a boolean or the text False (`word`): `bool()` (store.py:49) makes it true in a
POST or PUT (`Truthy`), `_as_bool` reads it in a PATCH (`AsBool`). A user is not
created inactive with a boolean, which bounds the states: a PUT does the same.
Reads of the table itself (store.py:65, 125, 152) are taken to be current although
they are not consistent ones: with one that trails, every read of an item would
be an excuse like `blind`. A PATCH of a group has one operation; PUT of a group, display names,
filters, discovery and the token endpoint are left out.

**RoleDirectory.** `ReadRole`, `QueryUse`, then `Archive` or `DeleteItem` are
`delete_role`; `index` trails `asg`. The look at the role (index.py:305) is
eventually consistent: of a role in `trailing` a replica still has the item, or
has it not yet, and `ghost` records deletions that found one that was gone.
Refused requests change nothing and are left
out, as are permissions, scopes and audit rows, which no operation reads.

## 3. What TLC checks

A behaviour of a run that joins several parts is one of any of them (section 2).

| Run | Question | Bounds | States |
|---|---|---|---|
| `session_races` | `Revocable`, `CleanRevocationKills`, `LogoutForgets` under every interleaving | 2 tokens, 2 invocations, 3 requests, 1 revocation with 2 attempts and pages of 1 or 2 records, 1 ignored failure, no time | 693,000 |
| `session_expiry` | `ImplementsAuthority`; `DenylistDrains`, `RevocationSettles` under `FairSpec` | 1 token, which may outlive its record, 1 invocation, 3 requests, 3 units of time | 194,000 |
| `rotation` | `RotationSynchronises`, `NoRollback`, `ReplacedKeyKept`, and `KeyChangeSpares` of the composition | 2 copies, 2 attempts, 2 keys (the first and one rotation), 1 deployment, 1 foreign write | 800,000 |
| `edge` | `PassJustified`, `KeptKeyVerifies`, `DecidesAsPolicy` | 7 functions (each module, each variant of roles, MFA, TLS), 2 keys, 2 units of time, 1 token id | 185,000 |
| `login` | `VerifierMatches`, `MismatchExplained`, `ReplayRefused` | 2 tabs, 2 flows, Age 2, 5 units of time, 1 failure | 900,000 |
| `distribution` | `AsAsked`, `OneAtATime`, `RejectionExplained`, `RedirectsLand`, `LoopsExplained`, `StrongNotUpgraded` | 10 constructs, 3 roles, 2 method calls, an upgrade page behind a check | 84,000 |
| | `AllowJustified`, `SignalTruthful` of viewer mTLS | every combination of options, 2 serials | |
| `deployment` | `ConfigCurrent`, `Keyed`, `ParamsServeEdge`, `BakedCurrent`; `DriftHeals` under `FairSpec` | 2 settings, 2 generations of resources | 193,000 |
| `azure` | `TypeOK`, `GroupsServed`, `WiringExplained`, `SettledMatches` | 3 requests, 2 repetitions, 1 fault, 4 sets of properties | 1,200,000 |
| `services` | `StatusAsMeant`, `MembershipAsTold`, `DanglingExplained` of SCIM | 2 users, 1 group, 2 scimIds, 2 invocations, 4 requests, status as boolean or text | 654,000 |
| | `OrphansExplained`, `StubsExplained` of roles | 2 roles, 2 principals, 2 invocations, 6 requests | |
| | `Recorded`, `RenewalEnds` of the custom sign-in page | 3 sessions, 1 sign-in, 2 invocations, 4 requests, both answers of Cognito | |
| `session_retry`, `session_switch`, `userinfo` | documented claims the code does not keep | as above, or smaller | violations |

Type correctness is a theorem of every module of a component (section 4), for
every size, so the runs leave it out, but for `azure`, whose deployment record is
typed by the template it is of.

Why the bounds are enough: the session properties relate a token to its own
record and to at most one token that replaces it, and a logout, switch, refresh
or revocation to one other operation on it. A race of the directories takes one
write between the read and the write of another request, so two invocations; the
number of requests leaves room to set the scene before it. A rotation goes wrong
by a second copy, and one new key is enough for a key to be replaced, preserved
or brought back (a key that is lost by two rotations in a row is left to the
theorems, which hold for any number). The gate
evaluates one request, whose reads are at most four, against a store that moves
freely. The method calls of `Distribution` matter in pairs, since the cache and
the chain of dependencies relate a function to the one before. Where a module
has a proof, the theorem covers every size. `MaxRequests`, `MaxLost`, `MaxTime`,
`LastMint`, `MaxRevokes`, `MaxKey`, `MaxDeploys`, `MaxWrites`, `MaxErrors`, `MaxGen`,
`MaxCalls`, `MaxFaults`, `MaxAdmin`, `MaxSessions` bound the exploration and appear in guards only;
`MaxRetries`, `MaxAttempts` and `PageSizes` are limits of the code, of Lambda and
of DynamoDB. Deadlock
checking is off: with its requests spent and its clock stopped a model ends, and
a stack can really get stuck in CloudFormation.

Symmetry is used in runs without liveness only, over identifiers the modules
never compare by order.

**Disagreements with the documentation**, each a run TLC ends with a trace:

- `session_switch`: the scope switch revokes the prior jti in the table
  (oauth-callback.py:455), where the edge does not look: the prior token is
  accepted until it expires, and later revocations skip its record.
- `session_retry`: a revocation that fails after marking a record and before the
  denylist is retried, finds no unrevoked record, and is acknowledged.
- `userinfo`: with an old key in the store, the userinfo function compares the
  signature it computed with itself (userinfo-endpoint.js:59), so any token
  passes.

Also met, and kept in the text:

- A user who is created or added to a group between the scan and the deletion in
  `delete_group` keeps its id, where store.py:165 says that none does
  (`DanglingExplained` lists the case under `late`).
- `update_item` recreates a user who was deleted meanwhile, without the `active`
  that SCIM_PROVISIONING.md:46 has consumers read (`blind` of `StatusAsMeant`).
- Whether a role is in use is asked of a trailing index, and the deletion has no
  condition: a role in use can be deleted, where permissions-admin/index.py:25
  says it is archived (`loose` of `OrphansExplained`).
- The two calls on `STATE#` are not atomic, so that two callbacks with one state
  may both pass.
- The get of `STATE#` is not a consistent read either, so a callback that comes
  just after another has answered may pass with its state.
- A logout does not end a session at the edge. `KVS_ARN` is baked into the logout
  lambda from a parameter that has no value at synthesis
  (`patterns/securedCloudFront.ts:206`, 568; the comment at 217-222 says of another
  such value what it serialises to), so the put of `revoked:<jti>` fails, which is
  logged (logout/index.py:217). The immediate rejection of its docstring
  (logout/index.py:4-5) never happens: the token is accepted until its `exp`, and,
  its record deleted, no later revocation of the user finds it. `LogoutForgets`
  says what a logout does achieve, and `loggedOut` is an excuse of the others.
- A revocation makes one query and follows no `LastEvaluatedKey`
  (session-revocation/index.py:37-46): a user whose records, revoked ones included,
  do not fit in a page keeps the sessions past it (`beyond`).
- `active` sent as the text False activates a user by POST or PUT (store.py:49),
  where PATCH deactivates (scim.py:192-197).
- The look at a role before its deletion is not a consistent read, so that a
  deletion may find a role that is gone, see a new assignment in the index and,
  archiving it, leave a role without a name (`ghost` of `StubsExplained`).
- The role of the key copy lacks `GetKey`; a token may outlive its record, and then
  its denylist entry.
- `REQUIRE_TLS_13` of the custom-UI construct attaches no policy that shows the
  function the TLS version, so `StrongNotUpgraded` leaves it out.
- The signal cookie under Required never says yes (`SignalTruthful`).
- An application without the session-tag mapping never deploys (above).

**Fairness.** `session_expiry`: time passes, DynamoDB sweeps and propagates,
Lambda runs what SNS delivered and retries a bounded number of times, the event
source mapping delivers stream records; each is a standing promise of the
platform, so weak fairness of its action. Nothing is assumed of browsers.
`deployment`: the schedule starts a rotation every few hours (weak fairness of
`RotGet`) and not every one of them fails (strong fairness of `RotPut` and
`RotCopy`, which deployments and failures interrupt). No other run uses any.

## 4. What is proved

Each proof module shows an inductive invariant, one step per action, and cites
for each the definitions it needs; TLC found no counterexample to the invariants
before they were proved. Constants are arbitrary, under the assumptions their
modules name (`NoneAssumption`, `NatAssumption`, `TimeAssumption`,
`JtiAssumption`, `RequestAssumption`, `BoundAssumption`, `OptionsAssumption`,
`CopierAssumption`, `RoleAssumption`, `DistributionAssumption` and the two
`DeploymentAssumption`s, joined in `EntranceAssumption` and `ServicesAssumption`):
an absent value is no member of the set it is absent from, bounds are naturals,
functions are ones the composer can generate. Of the identifiers in a template
`AzureDeployment` assumes what the two ways of making them give: those of a
group and of its assignment begin like no other, and come from one rendering of
the name; groups may well collide with each other.

- **SessionLifecycleProofs.** `TypeCorrect`, `InvAlways`, `RevocableAlways`,
  `LogoutForgotten`, `CleanRevocation`, `Refinement`, whatever the lifetimes of
  tokens and records, and `NothingLapses`, the only one under
  `TokensWithinRecords`. Types are not inductive alone: `Wiring` says that a
  prior token has been handed out, and that a generated one has not and is
  nobody else's; `Lifetime` that whatever the stream deals with has expired or
  lapsed.
  `RecordedRevocable` starts from the write of the record and not from the
  handing out of the token; `LogoutProgress` and `RevocationProgress` say what
  the calls so far have achieved; `StepEffects` reduces every action to one of
  two effects, which `TokenAuthority` allows. The two-token refinement, too
  large for the run with its liveness, rests on this proof.
- **GateDuringRotationProofs.** Of the rotation, `TypeCorrect`, `Synchronises`,
  `NeverBack`, `ReplacedIsKept`: `Attempts` ties the caller to the copies it started; while
  copies do not overlap, `Alone` says one copy writes, `Forward` that it does not
  hold an older key than the store's, `Preserves` and `Synchronised` what its
  writes leave. `Composition`: with the gate beside it the rotation behaves as
  `SecretRotation`, so that these theorems hold of the composition. `Sparing`:
  `KeyChangeSpares`, by `Spared`, which says of each position of an evaluation
  where the key it wants is.
- **EdgeGateProofs.** `TypeCorrect`, `Justified`, `KeptVerifies`, `OnePolicy`.
  `Follows` ties the program counter to the module of the function, `Screened`,
  `Validated` and `Traced` say what the checks passed so far imply of the token
  and of the histories, `Excused` accounts for refusals, `Decided` gives the
  policy where nothing moves.
- **LoginFlowProofs.** `TypeCorrect`, `VerifierPaired`, `Mismatch`, `Replay`:
  `Paired` (cookies in a jar, a request or an answer belong to one flow),
  `Timed` and `Kept` (the record outlives every copy of its cookies, for every
  Max-Age), `Recorded`, and `Excused` for the causes of a mismatch. For `Replay`,
  `Accounted`: of a state a callback has gone on with there is an item, its put is
  still to come, a call for it failed, or its cookies are over.
- **EntranceProofs.** Of a distribution, `TypeCorrect`, `Asked`, `OneByOne`,
  `Rejections`, `Landing`, `Loops`, `Shown`, the six properties of the run. `Made`
  (what a function's key says of its code), `Fitted` and `Stocked` (what a
  behaviour asked for is what it got, with the policy it needs), `Merged` (past
  synthesis no behaviour has both an application's function and one of the
  construct's), `Placed` (the
  callback and refresh endpoints come before the patterns that would swallow
  them), `Chained` (a function is created after all those before it), and
  `Browsed` (each page the browser has been to sends it to another it has been
  to), from which follows whose fault a circle of redirects is. The
  behaviours an application spreads in (`WithExtra`) are a recursive function over
  its list; what it leaves is proved by the least number at which it would go
  wrong. Of the handshake, `HandshakeTyped`,
  `Justified`, `Truthful`: `FunctionBaked` (the code is that of the options),
  `Screened`, `Read` and `Noted`, one per stage. `Composition` carries both over
  to what the run checks.
- **StackDeploymentProofs.** `TypeCorrect`, `Current`, `AlwaysKeyed`,
  `Parameters`, `Baked`. `Progress` says which resources an operation can be at,
  `Configured`, `HasKeys`, `Published` what the resources provided so far have
  established, `Held` that a retained table keeps other backends away.
- **AzureDeploymentProofs.** `TypeCorrect`, `GroupsHaveRoles`, `Wiring`,
  `Settled`, the four properties of the run, for any lists of groups, collisions
  of their identifiers, repetitions and faults. First the template: `TemplateHolds`
  says that an identifier stands for the last resource added under it, and
  `TemplateSound` that therefore an assignment whose principal is a group at all
  assigns the role of that very group, and that a group keeps both its resources
  unless a later one takes one of its identifiers. Then the steps: `Asked` and
  `Owned` tie request, invocation and deployment together, `Latest` says what the
  last invocation has behind it, `Finished` what is left of it in a ready stack,
  `Applied` and `Served` what the resources provided so far have established,
  `Scripted` what the script has made, or why not. Types need it: that the step
  counter stays in range rests on the script being there until it ends.
- **ServicesProofs.** Of SCIM, `TypeCorrect`, `StatusMeant`, `MembershipTold`,
  `Dangling`: `Items` says that an item with a scimId is complete and one that
  is not there is empty, `Shape` what a request has in hand at each step;
  `Removing` that a deletion has yet to strip whoever carries its group, but for
  the memberships that came late; `Converted` says what the two conversions of a
  status store. The excuses are enough for any number
  of users, groups and invocations. Of roles, `RolesTyped`, `Orphans`, `Stubs`:
  `Uncovered` (what is about to lose its role is already accounted for),
  `Overlapping` (two that have found one role are known to overlap, and a role
  at work that is gone or nameless is in `overlap` or `ghost`). Of the
  custom-UI sessions, `SessionsTyped`, `SessionsRecorded`, `LogoutEndsRenewal`:
  `Knows` says what an invocation has learned and done at each step, `Apart` that
  a session is minted by one of them, `Tokens` that Cognito honours one refresh
  token of a sign-in and a record holds one of its own sign-in, and `Over` that a
  sign-in whose token is gone gets no other. `Composition` carries them over to
  what the run checks.

Only model-checked: liveness (`DenylistDrains`, `RevocationSettles`,
`DriftHeals`), which needs fairness and ENABLED. Every invariant and every action
property of a run that is to pass is a theorem; the three runs that end with a
trace check what does not hold. The theorems of induction the library offers take
an operator as a parameter, which the provers cannot instantiate; the two
recursive functions that proofs are about, `WithExtra` and `Template`, are
reasoned about with the least element of a set of naturals (`WFMin`).

## 5. Plan

Done, in the order of what the system depends on most: the session layer; the
rotation; the sign-in; the gate, alone and during a rotation; the constructs;
the stacks; viewer mTLS; Azure; the custom-UI sessions; the directories.

Next, in this order:

1. Containers of callback, refresh and logout that cache the key, with a life of
   their own, composed with `SessionLifecycle` (today: any earlier key).
2. The Cognito callback, and the user pool of the custom-UI variant.
3. Certificates, DNS records and the web ACL: create, update, roll back, delete
   with partial failures and waits.
4. SCIM's token endpoint and PUT of groups.
5. Where a proof's invariant names an excuse, the fix that would make it
   unnecessary (a condition on a write, a read of the table for the index), as a
   variant of the module with the stronger property.

## 6. Abstractions, and what is not modelled

- Names of roles in the cache keys: a role whose name holds `,` or `|`, or
  equals `AND`, and so could make two keys one, is not modelled; a role has at
  least eight letters and its first eight identify it (`Stem`).
- The name by which the edge stack finds the configuration secret is taken to
  match. Aliases, prices, geography and logs of a distribution are left out.
- `modules/auth-check.js` has MFA and roles; the stand-alone `auth-check.js` has
  neither. `role-enforcer.js` and `tls-enforcer.js` are loaded by no construct.
- Writes of the KVS are seen by the edge at once; its propagation is not
  modelled, and properties about the denylist speak of the store.
- What revocation promises of a refresh token is stated nowhere: refresh
  consults neither session record nor denylist (refresh/index.py:250), and no
  property is about it.
- The `NONCE#` item of the callback (oauth-callback.py:745) and the record that the
  Cognito callback reads (`lambda/cognito-auth`:121); both are written and read
  like `STATE#`.
- Rendering, claims mapping, URL building and open-redirect checks, JWKS and
  RS256 verification (their outcome is a guard), STS and Entra exchanges (one
  step that succeeds or fails), the post-auth hook, metrics and logs.
- AWS web identity federation, the JWT decoder, audit logging and front-end
  deployment keep no state whose order matters, or only declare resources.
