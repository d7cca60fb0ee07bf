--------------------------- MODULE AzureDeployment ---------------------------
(***************************************************************************)
(* AzureAdApplicationFederated: a CloudFormation custom resource whose     *)
(* lambda deploys a Bicep template to Azure.  Three parties run at once:   *)
(* CloudFormation, which asks, times out and rolls back; invocations of    *)
(* the lambda, which Lambda repeats when they raise or die; and the Azure  *)
(* deployment, which goes on without the lambda, provides resources in the *)
(* order of their references, never removes any, and ends with a script    *)
(* that wires the claims provider to the application.                      *)
(***************************************************************************)
EXTENDS Naturals, Sequences

CONSTANTS
  Group,          \* names of groups
  GroupId,        \* what `group${sanitizeIdentifier(name)}` comes to
  AssignmentId,   \* and `groupAssignment${sanitizeIdentifier(name)}`
  Permission,     \* identifiers of the Graph permissions of the managed identity,
                  \* as they are declared, five in the code
  Options,        \* what applications ask for, a set of Props
  MaxRequests,    \* bound: requests of CloudFormation
  MaxRetries,     \* repetitions of an invocation that raised, two on Lambda
  MaxFaults       \* bound: failed calls, lost answers, lambdas that die

\* mapping: enableAwsSessionTagMapping.  code: version of the function package.
Props == [groups : Seq(Group), mapping : BOOLEAN, code : Nat]

\* The identifiers that are written out in the code.
Fixed ==
  {"Application", "Serviceprincipal", "Federatedcredential", "Managedidentity",
   "Storageaccount", "Appserviceplan", "Loganalyticsworkspace",
   "Applicationinsights", "Functionapp", "Managedidentitycontributor",
   "Deploymentspblobcontributor", "Functionappregistration",
   "Graphserviceprincipal", "Wirecustomclaimsextension"}
Permissions == {Permission[n] : n \in DOMAIN Permission}

ASSUME DeploymentAssumption ==
  /\ Options \subseteq Props /\ Options # {}
  /\ DOMAIN GroupId = Group /\ DOMAIN AssignmentId = Group
  /\ Permission \in Seq(Permissions) /\ Permissions \cap Fixed = {}
  \* Both put a prefix of their own before one rendering of the name, Group and
  \* Groupassignment, and no other identifier begins like that.
  /\ \A g \in Group :
       /\ GroupId[g] # AssignmentId[g]
       /\ {GroupId[g], AssignmentId[g]} \cap (Fixed \cup Permissions) = {}
       /\ \A h \in Group : GroupId[g] = GroupId[h] => AssignmentId[g] = AssignmentId[h]
  /\ MaxRequests \in Nat \ {0} /\ MaxRetries \in Nat /\ MaxFaults \in Nat
  \* enableAwsSessionTagMapping requires groups.
  /\ \A p \in Options : p.mapping => p.groups # <<>>

VARIABLES
  stack,      \* CloudFormation: phase, properties, those asked for, request
  inv,        \* the invocation of each request
  dep,        \* the Azure deployment of the construct's name, and the outcome
              \* of the script that ran last
  azure,      \* what there is in Azure
  meddled,    \* history: an invocation of an earlier request wrote after this
              \* request was made
  faults

vars == <<stack, inv, dep, azure, meddled, faults>>

Request == 1 .. MaxRequests
Fault   == faults < MaxFaults /\ faults' = faults + 1

-----------------------------------------------------------------------------
(* The template                                                            *)

\* One resource: the references and dependsOn of its declaration are what it
\* waits for.
Resource(id, kind, needs, group) ==
  [id |-> id, kind |-> kind, needs |-> needs, group |-> group]
Support(id, needs) == Resource(id, "support", needs, "none")

ApplicationResource == Resource("Application", "application", {}, "none")
ServicePrincipalResource ==
  Resource("Serviceprincipal", "principal", {"Application"}, "none")
CredentialResource == Support("Federatedcredential", {"Application"})
GroupResource(g) == Resource(GroupId[g], "group", {}, g)
AssignmentResource(g) ==
  Resource(AssignmentId[g], "assignment", {"Serviceprincipal", GroupId[g]}, g)

\* The synthesize() calls of buildResources, group by group.
GroupCalls(p) ==
  [n \in 1 .. 2 * Len(p.groups) |->
     LET g == p.groups[(n + 1) \div 2]
     IN IF n % 2 = 1 THEN GroupResource(g) ELSE AssignmentResource(g)]

IdentityResource  == Support("Managedidentity", {})
StorageResource   == Support("Storageaccount", {})
PlanResource      == Support("Appserviceplan", {})
WorkspaceResource == Support("Loganalyticsworkspace", {})
InsightsResource  == Support("Applicationinsights", {"Loganalyticsworkspace"})
FunctionAppResource ==
  Resource("Functionapp", "functionapp",
           {"Managedidentity", "Appserviceplan", "Storageaccount",
            "Applicationinsights"}, "none")
RoleAssignmentResources ==
  <<Support("Managedidentitycontributor", {"Managedidentity"}),
    Support("Deploymentspblobcontributor", {"Storageaccount"})>>
RegistrationResource == Support("Functionappregistration", {})
GraphResource        == Support("Graphserviceprincipal", {})
PermissionResources ==
  [n \in DOMAIN Permission |->
     Support(Permission[n], {"Graphserviceprincipal", "Managedidentity"})]
ScriptResource ==
  Resource("Wirecustomclaimsextension", "script",
           {"Managedidentity", "Functionapp", "Functionappregistration",
            "Application"} \cup Permissions, "none")

\* buildCustomClaimsProvider
ClaimsCalls ==
  <<IdentityResource, StorageResource, PlanResource, WorkspaceResource,
    InsightsResource, FunctionAppResource>> \o RoleAssignmentResources
    \o <<RegistrationResource, GraphResource>> \o PermissionResources
    \o <<ScriptResource>>

\* Mutant of AddResource: the first of an identifier is kept.
AddResourceOnce(t, r) ==
  [id \in DOMAIN t \cup {r.id} |-> IF id \in DOMAIN t THEN t[id] ELSE r]
\* addResource: a map from identifiers, in which a second resource of the same
\* identifier replaces the first.
AddResource(t, r) ==
  [id \in DOMAIN t \cup {r.id} |-> IF id = r.id THEN r ELSE t[id]]

OtherCalls(p) ==
  <<ApplicationResource, ServicePrincipalResource, CredentialResource>>
    \o (IF p.mapping THEN ClaimsCalls ELSE <<>>)
Calls(p) == GroupCalls(p) \o OtherCalls(p)
Template(p) ==
  LET added[n \in 0 .. Len(Calls(p))] ==
        IF n = 0 THEN [id \in {} |-> ApplicationResource]
        ELSE AddResource(added[n - 1], Calls(p)[n])
  IN added[Len(Calls(p))]

Templates == [p \in Options |-> Template(p)]

\* The parameters the template declares, and those the lambda is given.
Declared(p) == IF p.mapping THEN {"location", "deploymentSpObjectId"} ELSE {}
Parameters(p) == {"deploymentSpObjectId"}

\* The roles of the application, one for each group.
Groups(p) == {p.groups[n] : n \in DOMAIN p.groups}

-----------------------------------------------------------------------------
(* CloudFormation                                                          *)

Pending == stack.phase \in {"creating", "updating", "undoing"}

NoInvocation == [step |-> "none", tries |-> 0, props |-> CHOOSE p \in Options : TRUE]

Ask(phase, p) ==
  /\ stack.request < MaxRequests
  /\ stack' = [stack EXCEPT !.phase = phase, !.target = p, !.request = @ + 1]
  /\ inv' = [inv EXCEPT ![stack.request + 1] =
               [step |-> "login", tries |-> 0, props |-> p]]
  /\ meddled' = FALSE

CreateStack(p) ==
  /\ stack.phase = "none" /\ Ask("creating", p)
  /\ UNCHANGED <<dep, azure, faults>>
UpdateStack(p) ==
  /\ stack.phase = "ready" /\ p # stack.props /\ Ask("updating", p)
  /\ UNCHANGED <<dep, azure, faults>>

\* on_delete removes the record of the deployment, or not, and never fails.
DeleteStack ==
  /\ stack.phase = "ready" /\ stack' = [stack EXCEPT !.phase = "gone"]
  /\ \/ dep.status # "running" /\ dep' = [dep EXCEPT !.status = "none"]
     \/ UNCHANGED dep
  /\ UNCHANGED <<inv, azure, meddled, faults>>

\* What CloudFormation makes of the outcome of a request: the create that
\* failed has no physical id, so that deleting it does nothing; the update that
\* failed is undone by an update.
Conclude(outcome, i) ==
  CASE outcome = "SUCCESS" ->
         /\ stack' = [stack EXCEPT !.phase = "ready", !.props = stack.target]
         /\ inv' = i /\ UNCHANGED meddled
    [] outcome = "FAILED" /\ stack.phase = "creating" ->
         /\ stack' = [stack EXCEPT !.phase = "gone"]
         /\ inv' = i /\ UNCHANGED meddled
    [] outcome = "FAILED" /\ stack.phase = "undoing" ->
         /\ stack' = [stack EXCEPT !.phase = "stuck"]
         /\ inv' = i /\ UNCHANGED meddled
    [] OTHER ->
         /\ stack.request < MaxRequests
         /\ stack' = [stack EXCEPT !.phase = "undoing", !.target = stack.props,
                                   !.request = @ + 1]
         /\ inv' = [i EXCEPT ![stack.request + 1] =
                      [step |-> "login", tries |-> 0, props |-> stack.props]]
         /\ meddled' = FALSE

\* send_response: an answer that cannot be sent is logged and forgotten, and
\* one to a request that is over is ignored.
Answer(r, outcome, i) ==
  \/ /\ IF Pending /\ r = stack.request THEN Conclude(outcome, i)
        ELSE inv' = i /\ UNCHANGED <<stack, meddled>>
     /\ UNCHANGED faults
  \/ Pending /\ r = stack.request /\ Fault /\ inv' = i /\ UNCHANGED <<stack, meddled>>

\* CloudFormation waits an hour, longer than the invocations of a request last.
TimeOut ==
  /\ Pending /\ inv[stack.request].step = "over"
  /\ Conclude("FAILED", inv) /\ UNCHANGED <<dep, azure, faults>>

-----------------------------------------------------------------------------
(* The lambda                                                              *)

At(r, step) == inv[r].step = step
GoTo(r, step) == [inv EXCEPT ![r].step = step]
Again(r) ==
  IF inv[r].tries < MaxRetries
  THEN [inv EXCEPT ![r].step = "login", ![r].tries = @ + 1]
  ELSE GoTo(r, "over")

\* An exception is answered, and raised again for Lambda to see.
Raise(r) == Answer(r, "FAILED", Again(r))
Quietly == UNCHANGED <<dep, azure>>

\* Every call can fail.  The faults of Raise and of the call are counted apart.
Fails(r) ==
  /\ inv[r].step \in {"login", "upload", "setting"}
  /\ faults < MaxFaults /\ faults' = faults + 1
  /\ IF Pending /\ r = stack.request THEN Conclude("FAILED", Again(r))
     ELSE inv' = Again(r) /\ UNCHANGED <<stack, meddled>>
  /\ Quietly

\* The lambda reaches its timeout, or its container ends.
Dies(r) ==
  /\ inv[r].step \notin {"none", "over"} /\ Fault
  /\ inv' = Again(r) /\ Quietly /\ UNCHANGED <<stack, meddled>>

Login(r) ==
  /\ At(r, "login") /\ inv' = GoTo(r, "submit")
  /\ Quietly /\ UNCHANGED <<stack, meddled, faults>>

Meddle(r) == meddled' = (meddled \/ r < stack.request)

Deploy(r) ==
  /\ dep.status # "running"
  /\ dep' = [dep EXCEPT !.status = "running", !.owner = r,
                        !.props = inv[r].props, !.done = {}, !.script = 0]
  /\ inv' = GoTo(r, "deploying") /\ Meddle(r) /\ UNCHANGED <<stack, azure, faults>>

\* Mutant of Wait: the deployment that was waited for is taken for this one.
WaitTakesOther(r) ==
  /\ At(r, "blocked") /\ Quietly
  /\ \/ /\ dep.status # "running"
        /\ inv' = GoTo(r, IF inv[r].props.mapping THEN "upload" ELSE "success")
        /\ UNCHANGED <<stack, meddled, faults>>
     \/ dep.status = "running" /\ Raise(r)
\* deploy_bicep: az refuses parameters the template does not declare, and a
\* deployment of a name that is being deployed; then the lambda waits, and
\* tries once more.
Submit(r) ==
  /\ At(r, "submit")
  /\ LET known == Parameters(inv[r].props) \subseteq Declared(inv[r].props)
     IN \/ known /\ Deploy(r)
        \/ known /\ dep.status = "running" /\ inv' = GoTo(r, "blocked")
           /\ Quietly /\ UNCHANGED <<stack, meddled, faults>>
        \/ ~known /\ Raise(r) /\ Quietly
Wait(r) ==
  /\ At(r, "blocked") /\ Quietly
  /\ \/ /\ dep.status # "running" /\ inv' = GoTo(r, "resubmit")
        /\ UNCHANGED <<stack, meddled, faults>>
     \/ dep.status = "running" /\ Raise(r)
Resubmit(r) ==
  /\ At(r, "resubmit")
  /\ \/ Deploy(r)
     \/ dep.status = "running" /\ Raise(r) /\ Quietly

DeploymentFailed(r) == At(r, "failure") /\ Raise(r) /\ Quietly

\* deploy_function_code: the package replaces the one the setting points to
\* before the setting is made.
Upload(r) ==
  /\ At(r, "upload") /\ inv' = GoTo(r, "setting")
  /\ azure' = [azure EXCEPT !.blob = inv[r].props.code]
  /\ Meddle(r) /\ UNCHANGED <<stack, dep, faults>>
Setting(r) ==
  /\ At(r, "setting") /\ inv' = GoTo(r, "success")
  /\ azure' = [azure EXCEPT !.setting = TRUE]
  /\ Meddle(r) /\ UNCHANGED <<stack, dep, faults>>

Succeed(r) == At(r, "success") /\ Answer(r, "SUCCESS", GoTo(r, "over")) /\ Quietly

-----------------------------------------------------------------------------
(* The Azure deployment                                                    *)

template == Templates[dep.props]
Ready ==
  {id \in DOMAIN template \ dep.done : template[id].needs \subseteq dep.done}
Running == dep.status = "running"
Of(kind) == {id \in Ready : template[id].kind = kind}

Provided(ids, a) ==
  /\ dep' = [dep EXCEPT !.done = @ \cup ids] /\ azure' = a
  /\ UNCHANGED <<stack, inv, meddled, faults>>

\* Resources that only others refer to are provided wave by wave.
ProvideSupport == Running /\ Of("support") # {} /\ Provided(Of("support"), azure)

ProvideApplication ==
  /\ Running /\ Of("application") # {}
  /\ Provided(Of("application"), [azure EXCEPT !.roles = Groups(dep.props)])
ProvidePrincipal ==
  /\ Running /\ Of("principal") # {}
  /\ Provided(Of("principal"), [azure EXCEPT !.principal = TRUE])
\* A group whose uniqueName exists is updated.
ProvideGroup ==
  Running /\ \E id \in Of("group") :
    Provided({id}, [azure EXCEPT !.groups = @ \cup {template[id].group}])

\* The assignment of a role, to what the identifier of the group stands for.
Principal(id) == template[GroupId[template[id].group]]
ProvideAssignment ==
  Running /\ \E id \in Of("assignment") :
    /\ Principal(id).kind = "group"
    /\ Provided({id}, [azure EXCEPT !.assigned =
                         @ \cup {<<Principal(id).group, template[id].group>>}])

\* The list of settings is replaced, and the one deploy_function_code made is
\* not on it.
ProvideFunctionApp ==
  /\ Running /\ Of("functionapp") # {}
  /\ Provided(Of("functionapp"), [azure EXCEPT !.setting = FALSE])

EndsAs(status, step) ==
  /\ dep' = [dep EXCEPT !.status = status]
  /\ inv' = [inv EXCEPT ![dep.owner].step = IF @ = "deploying" THEN step ELSE @]
  /\ UNCHANGED <<stack, azure, meddled>>
\* A resource fails; among them an assignment to what is not a group, and a
\* script whose identity has not got its roles after six attempts.
EndFailed ==
  /\ Running /\ Ready # {}
  /\ IF \E id \in Of("assignment") : Principal(id).kind # "group"
     THEN UNCHANGED faults ELSE Fault
  /\ EndsAs("failed", "failure")
EndOk ==
  /\ Running /\ dep.done = DOMAIN template
  /\ EndsAs("ok", IF dep.props.mapping THEN "upload" ELSE "success")
  /\ UNCHANGED faults

\* wire-custom-claims-extension.sh: each step is a call of Graph, after a look
\* whether it is done; no failure of a step ends the script.
ScriptSteps == <<"identifierUris", "acceptMappedClaims", "servicePrincipal",
                 "extension", "policy", "assignment", "listener">>
Wired == {ScriptSteps[n] : n \in DOMAIN ScriptSteps}

Possible(s) ==
  CASE s = "assignment" -> azure.principal /\ "policy" \in azure.wired
    [] s = "listener"   -> "extension" \in azure.wired
    [] OTHER            -> TRUE

FinalPastEnd(n) == n > Len(ScriptSteps)    \* Mutant of Final
\* Mutant of Final: an extension that exists ends the script.
FinalUnlessWired(n) ==
  n = Len(ScriptSteps) \/ (ScriptSteps[n] = "extension" /\ "extension" \in azure.wired)
Final(n) == n = Len(ScriptSteps)

StartScript ==
  /\ Running /\ dep.script = 0 /\ Of("script") # {}
  /\ dep' = [dep EXCEPT !.script = 1, !.kept = FALSE, !.failed = FALSE,
                        !.late = FALSE]
  /\ UNCHANGED <<stack, inv, azure, meddled, faults>>
\* No forceUpdateTag is given: for the hour Azure keeps a script that ended, a
\* deployment with the same script does not run it again.
SkipScript ==
  /\ Running /\ dep.script = 0 /\ dep.kept /\ Of("script") # {}
  /\ Provided(Of("script"), azure)
ScriptStep ==
  /\ Running /\ dep.script \in DOMAIN ScriptSteps
  /\ UNCHANGED <<stack, inv, meddled>>
  /\ LET s    == ScriptSteps[dep.script]
         over == IF Final(dep.script) THEN Of("script") ELSE {}
         next == [dep EXCEPT !.script = IF over = {} THEN @ + 1 ELSE 0,
                             !.done = @ \cup over, !.kept = over # {}]
     IN \/ /\ Possible(s)
           /\ azure' = [azure EXCEPT !.wired = @ \cup {s}]
           /\ dep' = next /\ UNCHANGED faults
        \/ /\ ~Possible(s)
           /\ dep' = [next EXCEPT !.late = @ \/ (s = "assignment" /\ ~azure.principal)]
           /\ UNCHANGED <<azure, faults>>
        \/ /\ dep' = [next EXCEPT !.failed = TRUE]
           /\ Fault /\ UNCHANGED azure

-----------------------------------------------------------------------------
Init ==
  /\ stack = [phase |-> "none", props |-> NoInvocation.props,
              target |-> NoInvocation.props, request |-> 0]
  /\ inv = [r \in Request |-> NoInvocation]
  /\ dep = [status |-> "none", owner |-> 1, props |-> NoInvocation.props,
            done |-> {}, script |-> 0, kept |-> FALSE, failed |-> FALSE,
            late |-> FALSE]
  /\ azure = [roles |-> {}, groups |-> {}, assigned |-> {}, principal |-> FALSE,
              setting |-> FALSE, blob |-> 0, wired |-> {}]
  /\ meddled = FALSE /\ faults = 0

CloudFormation ==
  \/ \E p \in Options : CreateStack(p) \/ UpdateStack(p)
  \/ DeleteStack \/ TimeOut
Lambda ==
  \E r \in Request :
    \/ Login(r) \/ Submit(r) \/ Wait(r) \/ Resubmit(r) \/ DeploymentFailed(r)
    \/ Upload(r) \/ Setting(r) \/ Succeed(r) \/ Fails(r) \/ Dies(r)
Azure ==
  \/ ProvideSupport \/ ProvideApplication \/ ProvidePrincipal \/ ProvideGroup
  \/ ProvideAssignment \/ ProvideFunctionApp
  \/ StartScript \/ SkipScript \/ ScriptStep
  \/ EndFailed \/ EndOk

Next == CloudFormation \/ Lambda \/ Azure
Spec == Init /\ [][Next]_vars

-----------------------------------------------------------------------------
(* Properties                                                              *)

Step == {"none", "login", "submit", "blocked", "resubmit", "deploying",
         "failure", "upload", "setting", "success", "over"}

TypeOK ==
  /\ stack \in [phase : {"none", "creating", "ready", "updating", "undoing",
                         "gone", "stuck"},
                props : Options, target : Options, request : 0 .. MaxRequests]
  /\ inv \in [Request -> [step : Step, tries : 0 .. MaxRetries, props : Options]]
  /\ dep \in [status : {"none", "running", "ok", "failed"}, owner : Request,
              props : Options, done : SUBSET DOMAIN template,
              script : 0 .. Len(ScriptSteps), kept : BOOLEAN, failed : BOOLEAN,
              late : BOOLEAN]
  /\ azure \in [roles : SUBSET Group, groups : SUBSET Group,
                assigned : SUBSET (Group \X Group), principal : BOOLEAN,
                setting : BOOLEAN, blob : Nat, wired : SUBSET Wired]
  /\ meddled \in BOOLEAN /\ faults \in 0 .. MaxFaults

\* Whenever a deployment has succeeded, each of its groups is there and carries
\* its role, except one whose identifier a group listed later has taken
\* (template.ts:91 overwrites); and nothing carries the role of another.
Taken(p, n) ==
  \E m \in n + 1 .. Len(p.groups) :
    LET g == p.groups[n]  h == p.groups[m]
    IN {GroupId[g], AssignmentId[g]} \cap {GroupId[h], AssignmentId[h]} # {}
GroupsServed ==
  /\ dep.status = "ok" =>
       \A n \in DOMAIN dep.props.groups :
         LET g == dep.props.groups[n]
         IN \/ Taken(dep.props, n)
            \/ g \in azure.groups /\ <<g, g>> \in azure.assigned
  /\ \A a \in azure.assigned : a[1] = a[2]

\* A deployment that succeeded has left the claims provider wired, whatever
\* earlier ones left undone, unless in the script it counts on, its own or the
\* one Azure has kept, a call of Graph failed, which the script does not notice,
\* or the service principal of the application, which the script reads but
\* does not wait for, was not there yet.
WiringExplained ==
  (dep.status = "ok" /\ dep.props.mapping) =>
    azure.wired = Wired \/ dep.failed \/ dep.late

\* A stack that is done, with nothing running, has in Azure what it asked for:
\* the roles, and the function package with the setting that points to it;
\* unless an invocation of an earlier request, which Lambda repeats after it
\* has answered FAILED, has written since.
SettledMatches ==
  (/\ stack.phase = "ready" /\ dep.status # "running" /\ ~meddled
   /\ \A r \in Request : inv[r].step \in {"none", "over"}) =>
    /\ azure.roles = Groups(stack.props)
    /\ stack.props.mapping => azure.setting /\ azure.blob = stack.props.code
=============================================================================
