----------------------- MODULE StackDeploymentProofs -----------------------
(***************************************************************************)
(* What StackDeployment promises for all settings and for any number of    *)
(* generations: the configuration, the keys and the parameters of a        *)
(* backend stack agree whenever it is ready, whatever CloudFormation and   *)
(* the rotation have done to it, and an edge stack is never left behind by *)
(* its backend.                                                            *)
(***************************************************************************)
EXTENDS StackDeployment, TLAPS

\* The resources of every backend stack, those whose ARN every edge stack
\* reads, and the phases in which they are all there.
Base == {"table", "key", "secret", "kvs", "copy", "ssm"}
Shared == {"table", "key", "secret", "kvs"}
Standing == {"ready", "update", "revert"}

\* Where an operation stands: what it has dealt with is live, and what a
\* removal has not dealt with is all that is left.
Progress ==
  /\ phase \in Standing => Base \subseteq live
  /\ phase = "ready" => todo = {}
  /\ phase = "create" => todo \cup done = Resources(options) /\ done = live
                         /\ before = options
  /\ phase = "update" => todo \cup done = Touched(before, options)
                         /\ before.backend = options.backend
  /\ phase = "revert" => todo \subseteq {"secret", "ssm"}
  /\ phase \in {"undo", "delete"} => live \subseteq todo
  /\ (phase \in {"undo", "delete"} /\ "ssm" \in live) => "table" \in live
  /\ phase = "none" => live = {}
  /\ phase # "none" => gen # 0
  /\ \A r \in live : arn[r] # 0
  /\ (phase = "create" /\ "ssm" \in done) => Shared \subseteq done
  /\ (phase = "create" /\ "ssm" \in done /\ options.identity)
       => "webkey" \in done
  /\ (phase \in {"ready", "revert"} /\ options.identity) => "webkey" \in live
  /\ (phase = "update" /\ (before.identity \/ "webkey" \in done))
       => "webkey" \in live

\* The configuration in the secret is that of the template last written, and
\* so is the one a rotation has read.
Configured ==
  ~crossed =>
    /\ rot = "put" => read = secret.config
    /\ phase = "ready" => secret.config = options
    /\ (phase = "create" /\ "secret" \in done) => secret.config = options
    /\ (phase = "update" /\ "secret" \in done) => secret.config = options
    /\ (phase = "update" /\ "secret" \notin done) => secret.config = before
    /\ (phase = "revert" /\ "secret" \notin todo) => secret.config = options

\* A secret has a key, and a store that has been copied to has one too.
HasKeys ==
  /\ "secret" \in live => secret.key # 0
  /\ phase \in Standing => cur # 0
  /\ (phase = "create" /\ "copy" \in done) => cur # 0

\* The parameters name the resources from when they are written on; a backend
\* that has not written them has none.
Named0(o) == Params(o) \ {"webIdentityKeyArn", "webIdentityKeyRegion"}
Web == ssm["webIdentityKeyArn"] = arn["webkey"]
Published ==
  /\ (phase \in Standing \/ (phase = "create" /\ "ssm" \in done)) =>
       \A p \in Named0(options) : ssm[p] = arn[Named(p)]
  /\ (phase \in {"ready", "revert"} /\ options.identity) => Web
  /\ (phase = "create" /\ "ssm" \in done /\ options.identity) => Web
  /\ (phase = "update" /\ before.identity) => Web
  /\ (phase = "update" /\ options.identity /\ "ssm" \in done)
       => Web /\ "webkey" \in live
  /\ "ssm" \notin live => ssm["configSecretArn"] = 0

\* An edge stack names the resources of the backend, or its backend is gone and
\* the table that is left keeps another from being completed.
Faithful == \A p \in CustomUiEdgeReads \cup EdgeReads(edge.variant, FALSE) :
              edge.baked[p] = arn[Named(p)]
Held ==
  /\ ~("table" \in orphans /\ "table" \in live)
  /\ edge.variant \in {"none", "azure", "cognito", "customui"}
  /\ edge.variant # "none" =>
       /\ phase \in Standing => Faithful
       /\ phase \notin Standing =>
            \/ "table" \in orphans
            \/ /\ "table" \in live
               /\ phase = "create" => "ssm" \in live /\ Faithful

Inv == TypeOK /\ Progress /\ Configured /\ HasKeys /\ Published /\ Held

-----------------------------------------------------------------------------
(* Facts about the constructs                                              *)

\* There is an option to choose.
LEMMA SomeOption == NoRead \in Options
<1>1. PICK s \in Setting : TRUE BY DeploymentAssumption
<1>2. [backend |-> "azure", identity |-> FALSE, setting |-> s] \in Options
  BY <1>1 DEF Options
<1> QED BY <1>2 DEF NoRead

\* A drawn key is one, and not that of an empty store.
LEMMA DrawnKey ==
  ASSUME TypeOK
  PROVE  FreshKey \in Key \ {0}
<1> DEFINE S == Key \ {0, secret.key, cur}
<1>1. S \subseteq {1, 2, 3} /\ S # {}
  BY DEF Key, TypeOK
<1>2. \E x \in S : \A y \in S : x <= y
  <2>1. CASE 1 \in S BY <1>1, <2>1
  <2>2. CASE 1 \notin S /\ 2 \in S BY <1>1, <2>2
  <2>3. CASE 1 \notin S /\ 2 \notin S BY <1>1, <2>3
  <2> QED BY <2>1, <2>2, <2>3
<1>3. Smallest(S) \in S BY <1>2 DEF Smallest
<1> QED BY <1>1, <1>3 DEF FreshKey, Key

\* What the parameters name, and what becomes of them with the options.
LEMMA ParamFacts ==
  /\ \A p : Named(p) \in Resource
  /\ Named("webIdentityKeyArn") = "webkey"
  /\ \A o \in Options :
       /\ Named0(o) \subseteq Param /\ Named0(o) \subseteq Params(o)
       /\ "configSecretArn" \in Named0(o)
       /\ CustomUiEdgeReads \subseteq Named0(o)
       /\ \A p \in Named0(o) : Named(p) \in Shared
       /\ o.identity => "webIdentityKeyArn" \in Params(o)
       /\ ~o.identity => "webIdentityKeyArn" \notin Params(o)
       /\ Params(o) \subseteq Param
<1>1. \A p : Named(p) \in Resource BY DEF Named, Resource
<1>2. Named("webIdentityKeyArn") = "webkey" BY DEF Named
<1>3. ASSUME NEW o \in Options
      PROVE  /\ Named0(o) \subseteq Param /\ Named0(o) \subseteq Params(o)
             /\ "configSecretArn" \in Named0(o)
             /\ CustomUiEdgeReads \subseteq Named0(o)
             /\ o.identity => "webIdentityKeyArn" \in Params(o)
             /\ ~o.identity => "webIdentityKeyArn" \notin Params(o)
             /\ Params(o) \subseteq Param
  BY DEF Named0, Params, AzureParams, CognitoParams, CustomUiEdgeReads, Param,
         Options
<1>4. ASSUME NEW o \in Options, NEW p \in Named0(o) PROVE Named(p) \in Shared
  BY DEF Named0, Params, AzureParams, CognitoParams, Named, Shared
<1> QED BY <1>1, <1>2, <1>3, <1>4

\* The published parameters depend on the backend alone.
LEMMA SameBackend ==
  ASSUME NEW o \in Options, NEW n \in Options, o.backend = n.backend
  PROVE  Named0(o) = Named0(n)
BY DEF Named0, Params, AzureParams, CognitoParams

\* Every stack has the base resources, and the web identity key on request.
LEMMA ResourceFacts ==
  ASSUME NEW o \in Options
  PROVE  /\ Base \subseteq Resources(o) /\ Resources(o) \subseteq Resource
         /\ o.identity => "webkey" \in Resources(o)
         /\ \A undoing : /\ Retained(o, undoing) \subseteq {"table", "key", "webkey"}
                         /\ "table" \in Retained(o, undoing)
BY DEF Base, Resources, AzureResources, CognitoResources, Resource, Options,
       Retained, AzureRetained, CognitoRetained

\* What dealing with a resource changes.
LEMMA DealEffect ==
  ASSUME TypeOK, NEW r \in Resource, NEW o \in Options, NEW kind,
         Deal(r, o, kind)
  PROVE  /\ live' = live \cup {r}
         /\ arn' \in [Resource -> Gen]
         /\ \A s \in Resource : s # r \/ s \in live => arn'[s] = arn[s]
         /\ r \notin live => arn'[r] = gen
         /\ orphans' \subseteq orphans /\ (r \in live => orphans' = orphans)
         /\ (r # "table" /\ "table" \in orphans) => "table" \in orphans'
         /\ r \notin live => r \notin orphans'
         /\ r # "secret" => secret' = secret /\ crossed' = crossed
         /\ r = "secret" => /\ secret' = [config |-> o, key |-> FreshKey]
                            /\ crossed' <=> (rot = "put")
                            /\ crossed' \in BOOLEAN
         /\ r # "copy" => cur' = cur
         /\ r = "copy" => cur' = secret.key
         /\ r # "ssm" => ssm' = ssm
         /\ r = "ssm" => WriteParams(o, kind)
<1>1. /\ live' = live \cup {r}
      /\ arn' = [arn EXCEPT ![r] = IF r \in live THEN @ ELSE gen]
      /\ orphans' = IF r \in live THEN orphans ELSE orphans \ {r}
  BY DEF Deal
<1>2. arn \in [Resource -> Gen] /\ gen \in Gen BY DEF TypeOK
<1>3. CASE r = "secret"
  <2>1. secret' = [config |-> o, key |-> FreshKey] /\ crossed' = (rot = "put")
        /\ UNCHANGED <<cur, ssm>>
    BY <1>3 DEF Deal, Draw
  <2>2. (rot = "put") \in BOOLEAN OBVIOUS
  <2>3. crossed' \in BOOLEAN BY ONLY <2>1, <2>2, Zenon
  <2> QED BY <1>1, <1>2, <1>3, <2>1, <2>3
<1>4. CASE r = "copy"
  BY <1>1, <1>2, <1>4 DEF Deal, CopyKey
<1>5. CASE r = "ssm"
  BY <1>1, <1>2, <1>5 DEF Deal
<1>6. CASE r \notin {"secret", "copy", "ssm"}
  BY <1>1, <1>2, <1>6 DEF Deal, Data
<1> QED BY <1>3, <1>4, <1>5, <1>6

\* What the writer has written.
LEMMA WriteEffect ==
  ASSUME TypeOK, NEW o \in Options, NEW kind, WriteParams(o, kind)
  PROVE  /\ ssm' \in [Param -> Gen]
         /\ kind # "Delete" => \A p \in Params(o) : ssm'[p] = arn[Named(p)]
         /\ kind = "Delete" => \A p \in Params(o) : ssm'[p] = 0
         /\ \A p \in Param \ Params(o) : ssm'[p] = ssm[p]
<1>1. \A p : arn[Named(p)] \in Gen /\ 0 \in Gen
  BY ParamFacts, DeploymentAssumption DEF TypeOK, Gen
<1>2. \A p \in Param : ssm[p] \in Gen BY DEF TypeOK
<1>3. Params(o) \subseteq Param BY ParamFacts
<1> QED BY <1>1, <1>2, <1>3 DEF WriteParams

\* What taking a resource away changes.
LEMMA RemoveEffect ==
  ASSUME TypeOK, NEW r \in Resource, NEW undoing, Remove(r, undoing)
  PROVE  /\ live' = live \ {r} /\ arn' = arn /\ orphans \subseteq orphans'
         /\ orphans' \subseteq orphans \cup ({r} \cap {"table", "key", "webkey"})
         /\ r = "table" => "table" \in orphans'
         /\ crossed' = crossed
         /\ r # "secret" => secret' = secret
         /\ r = "secret" => secret' = [secret EXCEPT !.key = 0]
         /\ r # "kvs" => cur' = cur
         /\ r = "kvs" => cur' = 0
         /\ r # "ssm" => ssm' = ssm
         /\ r = "ssm" => WriteParams(options, "Delete")
<1>1. /\ live' = live \ {r} /\ arn' = arn
      /\ orphans' = IF r \in Retained(options, undoing) THEN orphans \cup {r}
                                                        ELSE orphans
  BY DEF Remove
<1>2. /\ Retained(options, undoing) \subseteq {"table", "key", "webkey"}
      /\ "table" \in Retained(options, undoing)
  BY ResourceFacts DEF TypeOK
<1>3. CASE r = "ssm" BY <1>1, <1>2, <1>3 DEF Remove
<1>4. CASE r = "secret" BY <1>1, <1>2, <1>4 DEF Remove
<1>5. CASE r = "kvs" BY <1>1, <1>2, <1>5 DEF Remove
<1>6. CASE r \notin {"ssm", "secret", "kvs"} BY <1>1, <1>2, <1>6 DEF Remove, Data
<1> QED BY <1>3, <1>4, <1>5, <1>6

\* No stack at first.
LEMMA InitInv == Init => Inv
<1> SUFFICES ASSUME Init PROVE Inv OBVIOUS
<1>1. NoRead \in Options BY SomeOption
<1>2. 0 \in Gen /\ 0 \in Key BY DeploymentAssumption DEF Gen, Key
<1>3. TypeOK
  BY <1>1, <1>2 DEF Init, TypeOK, NoEdge
<1>4. Published
  BY DEF Init, Published, Standing, Param
<1> QED
  BY <1>3, <1>4 DEF Init, Inv, Progress, Configured, HasKeys, Held, NoEdge, Standing

-----------------------------------------------------------------------------
(* The rotation and the edge stack                                         *)

\* The rotation reads the secret.
LEMMA RotGetInv ==
  ASSUME Inv, RotGet
  PROVE  Inv'
<1>0. TypeOK /\ Progress /\ Configured /\ HasKeys /\ Published /\ Held
  BY DEF Inv
<1>1. /\ rot' = "put" /\ read' = secret.config /\ UNCHANGED <<secret, cur>>
      /\ UNCHANGED <<phase, options, before, todo, done, live, orphans, gen, arn, ssm,
                     edge, crossed>>
  BY <1>0 DEF RotGet, NoCfn, cfn
<1>2. TypeOK'
  BY <1>0, <1>1 DEF TypeOK
<1>3. Progress'
  BY <1>0, <1>1 DEF Progress, Standing, Base, Shared
<1>4. Configured'
  BY <1>0, <1>1 DEF Configured, Standing
<1>5. HasKeys'
  BY <1>0, <1>1 DEF HasKeys, Progress, Standing, Base
<1>6. Published'
  BY <1>0, <1>1 DEF Published, Progress, Standing, Web, Base
<1>7. Held'
  BY <1>0, <1>1 DEF Held, Progress, Standing, Faithful, Base
<1> QED BY <1>2, <1>3, <1>4, <1>5, <1>6, <1>7 DEF Inv

\* The rotation writes the whole secret back.
LEMMA RotPutInv ==
  ASSUME Inv, RotPut
  PROVE  Inv'
<1>0. TypeOK /\ Progress /\ Configured /\ HasKeys /\ Published /\ Held
  BY DEF Inv
<1>1. /\ rot = "put" /\ rot' = "copy" /\ "secret" \in live
      /\ secret' = [config |-> read, key |-> FreshKey] /\ read' \in Options
      /\ UNCHANGED cur
      /\ FreshKey \in Key \ {0}
      /\ UNCHANGED <<phase, options, before, todo, done, live, orphans, gen, arn, ssm,
                     edge, crossed>>
  BY <1>0, DrawnKey, SomeOption DEF RotPut, NoCfn, cfn
<1>2. TypeOK'
  BY <1>0, <1>1 DEF TypeOK
<1>3. Progress'
  BY <1>0, <1>1 DEF Progress, Standing, Base, Shared
<1>4. Configured'
  BY <1>0, <1>1 DEF Configured, Standing
<1>5. HasKeys'
  BY <1>0, <1>1 DEF HasKeys, Progress, Standing, Base
<1>6. Published'
  BY <1>0, <1>1 DEF Published, Progress, Standing, Web, Base
<1>7. Held'
  BY <1>0, <1>1 DEF Held, Progress, Standing, Faithful, Base
<1> QED BY <1>2, <1>3, <1>4, <1>5, <1>6, <1>7 DEF Inv

\* The rotation has the key copied.
LEMMA RotCopyInv ==
  ASSUME Inv, RotCopy
  PROVE  Inv'
<1>0. TypeOK /\ Progress /\ Configured /\ HasKeys /\ Published /\ Held
  BY DEF Inv
<1>1. /\ rot' = "idle" /\ "secret" \in live /\ cur' = secret.key
      /\ UNCHANGED <<read, secret>>
      /\ UNCHANGED <<phase, options, before, todo, done, live, orphans, gen, arn, ssm,
                     edge, crossed>>
  BY <1>0 DEF RotCopy, CopyKey, NoCfn, cfn
<1>2. TypeOK'
  BY <1>0, <1>1 DEF TypeOK
<1>3. Progress'
  BY <1>0, <1>1 DEF Progress, Standing, Base, Shared
<1>4. Configured'
  BY <1>0, <1>1 DEF Configured, Standing
<1>5. HasKeys'
  BY <1>0, <1>1 DEF HasKeys, Progress, Standing, Base
<1>6. Published'
  BY <1>0, <1>1 DEF Published, Progress, Standing, Web, Base
<1>7. Held'
  BY <1>0, <1>1 DEF Held, Progress, Standing, Faithful, Base
<1> QED BY <1>2, <1>3, <1>4, <1>5, <1>6, <1>7 DEF Inv

\* A rotation fails.
LEMMA RotFailInv ==
  ASSUME Inv, RotFail
  PROVE  Inv'
<1>0. TypeOK /\ Progress /\ Configured /\ HasKeys /\ Published /\ Held
  BY DEF Inv
<1>1. /\ rot' = "idle" /\ read' \in Options /\ UNCHANGED <<secret, cur>>
      /\ UNCHANGED <<phase, options, before, todo, done, live, orphans, gen, arn, ssm,
                     edge, crossed>>
  BY <1>0, SomeOption DEF RotFail, NoCfn, cfn
<1>2. TypeOK'
  BY <1>0, <1>1 DEF TypeOK
<1>3. Progress'
  BY <1>0, <1>1 DEF Progress, Standing, Base, Shared
<1>4. Configured'
  BY <1>0, <1>1 DEF Configured, Standing
<1>5. HasKeys'
  BY <1>0, <1>1 DEF HasKeys, Progress, Standing, Base
<1>6. Published'
  BY <1>0, <1>1 DEF Published, Progress, Standing, Web, Base
<1>7. Held'
  BY <1>0, <1>1 DEF Held, Progress, Standing, Faithful, Base
<1> QED BY <1>2, <1>3, <1>4, <1>5, <1>6, <1>7 DEF Inv

\* The edge stack is deployed.
LEMMA DeployEdgeInv ==
  ASSUME Inv, NEW v \in EdgeVariants, NEW i \in BOOLEAN, i => v = "azure",
         DeployEdge(v, i)
  PROVE  Inv'
<1>0. TypeOK /\ Progress /\ Configured /\ HasKeys /\ Published /\ Held
  BY DEF Inv
<1>1. /\ \A p \in EdgeReads(v, i) : ssm[p] # 0
      /\ edge' = [variant |-> v, identity |-> i,
                  baked |-> [p \in Param |-> IF p \in EdgeReads(v, i) THEN ssm[p]
                                                                     ELSE 0]]
      /\ UNCHANGED <<phase, options, before, todo, done, live, orphans, gen, arn, ssm,
                     secret, cur, rot, read, crossed>>
  BY <1>0 DEF DeployEdge, cfn, rotation
<1>a. v \in {"azure", "cognito", "customui"}
  BY DEF EdgeVariants
<1>b. /\ CustomUiEdgeReads \cup EdgeReads(v, FALSE) \subseteq EdgeReads(v, i)
      /\ CustomUiEdgeReads \cup EdgeReads(v, FALSE) \subseteq Named0(options)
      /\ "configSecretArn" \in EdgeReads(v, i)
  BY <1>0, <1>a DEF TypeOK, EdgeVariants, EdgeReads, AzureEdgeReads,
     CognitoEdgeReads, CustomUiEdgeReads, Named0, Params, AzureParams,
     CognitoParams, Options
<1>c. /\ Named0(options) \subseteq Param
      /\ \A p \in CustomUiEdgeReads \cup EdgeReads(v, FALSE) :
           edge'.baked[p] = ssm[p]
  BY <1>0, <1>1, <1>b, ParamFacts DEF TypeOK
<1>d. "ssm" \in live
  BY <1>0, <1>1, <1>b DEF Published
<1>2. TypeOK'
  <2>1. edge'.baked \in [Param -> Gen]
    BY <1>0, <1>1, DeploymentAssumption DEF TypeOK, Gen
  <2> QED BY <1>0, <1>1, <2>1 DEF TypeOK
<1>3. Progress'
  BY <1>0, <1>1 DEF Progress, Standing, Base, Shared
<1>4. Configured'
  BY <1>0, <1>1 DEF Configured, Standing
<1>5. HasKeys'
  BY <1>0, <1>1 DEF HasKeys, Progress, Standing, Base
<1>6. Published'
  BY <1>0, <1>1 DEF Published, Web
<1>7. Held'
  <2>1. edge'.variant = v BY <1>1
  <2>2. (phase \in Standing \/ (phase = "create" /\ "ssm" \in done)) =>
          \A p \in CustomUiEdgeReads \cup EdgeReads(v, FALSE) :
            edge'.baked[p] = arn[Named(p)]
    BY <1>0, <1>b, <1>c DEF Published
  <2>3. phase = "create" => "ssm" \in done
    BY <1>0, <1>d DEF Progress
  <2>4. (phase \in Standing \/ phase = "create") => Faithful'
    BY <1>1, <2>1, <2>2, <2>3 DEF Faithful
  <2>5. phase \notin Standing => "table" \in live
    BY <1>0, <1>d, <2>3 DEF Progress, TypeOK, Standing, Shared
  <2> QED BY <1>0, <1>1, <1>a, <1>d, <2>1, <2>4, <2>5 DEF Held
<1> QED BY <1>2, <1>3, <1>4, <1>5, <1>6, <1>7 DEF Inv

-----------------------------------------------------------------------------
(* CloudFormation                                                          *)

\* A stack is created.
LEMMA CreateInv ==
  ASSUME Inv, NEW o \in Options, CreateStack(o)
  PROVE  Inv'
<1>0. TypeOK /\ Progress /\ Configured /\ HasKeys /\ Published /\ Held
  BY DEF Inv
<1>1. /\ phase = "none" /\ phase' = "create" /\ options' = o /\ before' = o
      /\ gen' = gen + 1 /\ gen' \in Gen /\ gen' # 0
      /\ todo' = Resources(o) /\ done' = {}
      /\ UNCHANGED <<live, orphans, arn, secret, cur, ssm, crossed, rot, read, edge>>
  BY <1>0, DeploymentAssumption DEF CreateStack, Idle, Nothing, rotation, Data, TypeOK, Gen
<1>2. TypeOK'
  BY <1>0, <1>1, ResourceFacts DEF TypeOK
<1>3. Progress'
  BY <1>0, <1>1 DEF Progress, Standing, Base, Shared
<1>4. Configured'
  BY <1>0, <1>1 DEF Configured, Standing
<1>5. HasKeys'
  BY <1>0, <1>1 DEF HasKeys, Progress, Standing, Base
<1>6. Published'
  BY <1>0, <1>1 DEF Published, Progress, Standing, Web, Base
<1>7. Held'
  BY <1>0, <1>1 DEF Held, Progress, Standing, Faithful, Base
<1> QED BY <1>2, <1>3, <1>4, <1>5, <1>6, <1>7 DEF Inv

\* A stack is updated.
LEMMA UpdateInv ==
  ASSUME Inv, NEW o \in Options, UpdateStack(o)
  PROVE  Inv'
<1>0. TypeOK /\ Progress /\ Configured /\ HasKeys /\ Published /\ Held
  BY DEF Inv
<1>1. /\ phase = "ready" /\ phase' = "update" /\ o.backend = options.backend
      /\ before' = options /\ options' = o /\ gen' \in Gen /\ (gen # 0 => gen' # 0)
      /\ todo' = Touched(options, o) /\ done' = {}
      /\ UNCHANGED <<live, orphans, arn, secret, cur, ssm, crossed, rot, read, edge>>
  BY <1>0, DeploymentAssumption DEF UpdateStack, Idle, Nothing, rotation, Data, TypeOK, Gen
<1>a. Touched(options, o) \subseteq {"secret", "ssm", "webkey"} BY DEF Touched
<1>b. Named0(o) = Named0(options)
  BY <1>0, <1>1, SameBackend DEF TypeOK
<1>2. TypeOK'
  BY <1>0, <1>1, <1>a DEF TypeOK, Resource
<1>3. Progress'
  BY <1>0, <1>1 DEF Progress, Standing, Base, Shared
<1>4. Configured'
  BY <1>0, <1>1 DEF Configured, Standing
<1>5. HasKeys'
  BY <1>0, <1>1 DEF HasKeys, Progress, Standing, Base
<1>6. Published'
  BY <1>0, <1>1, <1>b DEF Published, Web, Standing
<1>7. Held'
  BY <1>0, <1>1 DEF Held, Progress, Standing, Faithful, Base
<1> QED BY <1>2, <1>3, <1>4, <1>5, <1>6, <1>7 DEF Inv

\* A stack is deleted.
LEMMA DeleteInv ==
  ASSUME Inv, DeleteStack
  PROVE  Inv'
<1>0. TypeOK /\ Progress /\ Configured /\ HasKeys /\ Published /\ Held
  BY DEF Inv
<1>1. /\ phase = "ready" /\ phase' = "delete" /\ todo' = live /\ done' = {}
      /\ UNCHANGED <<options, before, gen, live, orphans, arn, secret, cur, ssm,
                     crossed, rot, read, edge>>
  BY <1>0 DEF DeleteStack, Idle, Nothing, rotation, Data
<1>2. TypeOK'
  BY <1>0, <1>1 DEF TypeOK
<1>3. Progress'
  BY <1>0, <1>1 DEF Progress, Standing, Base, Shared
<1>4. Configured'
  BY <1>0, <1>1 DEF Configured, Standing
<1>5. HasKeys'
  BY <1>0, <1>1 DEF HasKeys, Progress, Standing, Base
<1>6. Published'
  BY <1>0, <1>1 DEF Published, Progress, Standing, Web, Base
<1>7. Held'
  BY <1>0, <1>1 DEF Held, Progress, Standing, Faithful, Base
<1> QED BY <1>2, <1>3, <1>4, <1>5, <1>6, <1>7 DEF Inv

\* An operation fails.
LEMMA FailInv ==
  ASSUME Inv, Fail
  PROVE  Inv'
<1>0. TypeOK /\ Progress /\ Configured /\ HasKeys /\ Published /\ Held
  BY DEF Inv
<1>1. /\ \/ phase = "create" /\ phase' = "undo" /\ todo' = done
         \/ phase = "update" /\ phase' = "revert" /\ todo' = done \ {"webkey"}
      /\ done' = {} /\ options' = before
      /\ UNCHANGED <<before, gen, live, orphans, arn, secret, cur, ssm,
                     crossed, rot, read, edge>>
  BY <1>0 DEF Fail, Idle, Nothing, rotation, Data
<1>a. phase = "update" =>
        /\ Named0(before) = Named0(options)
        /\ Touched(before, options) \subseteq {"secret", "ssm", "webkey"}
  BY <1>0, SameBackend DEF Touched, TypeOK, Progress
<1>2. TypeOK'
  BY <1>0, <1>1 DEF TypeOK
<1>3. Progress'
  BY <1>0, <1>1, <1>a DEF Progress, Standing, Base, Shared
<1>4. Configured'
  BY <1>0, <1>1 DEF Configured, Standing
<1>5. HasKeys'
  BY <1>0, <1>1 DEF HasKeys, Progress, Standing, Base
<1>6. Published'
  BY <1>0, <1>1, <1>a DEF Published, Web, Standing
<1>7. Held'
  BY <1>0, <1>1 DEF Held, Progress, Standing, Faithful, Base
<1> QED BY <1>2, <1>3, <1>4, <1>5, <1>6, <1>7 DEF Inv

\* An operation is complete.
LEMMA CompleteInv ==
  ASSUME Inv, Complete
  PROVE  Inv'
<1>0. TypeOK /\ Progress /\ Configured /\ HasKeys /\ Published /\ Held
  BY DEF Inv
<1>1. /\ todo = {} /\ todo' = {} /\ done' = {} /\ before' = options
      /\ \/ phase \in {"undo", "delete"} /\ phase' = "none" /\ live' = live
            /\ orphans' = orphans
         \/ /\ phase \in {"create", "update", "revert"} /\ phase' = "ready"
            /\ live' = live \cap Resources(options)
            /\ orphans \subseteq orphans'
            /\ orphans' \subseteq orphans \cup {"key", "webkey"}
      /\ UNCHANGED <<options, gen, arn, secret, cur, ssm, crossed, rot, read, edge>>
  BY <1>0, ResourceFacts DEF Complete, Idle, rotation, Data, TypeOK, Base
<1>a. Base \subseteq Resources(options)
      /\ (options.identity => "webkey" \in Resources(options))
  BY <1>0, ResourceFacts DEF TypeOK
<1>b. phase = "update" => "secret" \in done
      /\ (options.identity /\ ~before.identity => {"ssm", "webkey"} \subseteq done)
  BY <1>0, <1>1 DEF Progress, Touched, TypeOK, Options
<1>c. phase = "create" => Base \subseteq done
      /\ (options.identity => "webkey" \in done)
  BY <1>0, <1>1, <1>a DEF Progress
<1>2. TypeOK'
  BY <1>0, <1>1 DEF TypeOK
<1>3. Progress'
  BY <1>0, <1>1, <1>a, <1>b, <1>c DEF Progress, Standing, Base
<1>4. Configured'
  BY <1>0, <1>1, <1>b, <1>c DEF Configured, Base
<1>5. HasKeys'
  BY <1>0, <1>1, <1>c DEF HasKeys, Progress, Standing, Base
<1>6. Published'
  BY <1>0, <1>1, <1>a, <1>b, <1>c DEF Published, Web, Standing, Base, Progress
<1>7. Held'
  BY <1>0, <1>1, <1>a, <1>c DEF Held, Faithful, Standing, Base, Progress
<1> QED BY <1>2, <1>3, <1>4, <1>5, <1>6, <1>7 DEF Inv

\* A resource is created or updated.
LEMMA ProvideInv ==
  ASSUME Inv, NEW r \in Resource, Provide(r)
  PROVE  Inv'
<1>0. TypeOK /\ Progress /\ Configured /\ HasKeys /\ Published /\ Held
  BY DEF Inv
<1>1. /\ live' = live \cup {r} /\ arn' \in [Resource -> Gen]
      /\ \A s \in Resource : s # r \/ s \in live => arn'[s] = arn[s]
      /\ r \notin live => arn'[r] = gen
      /\ orphans' \subseteq orphans /\ (r \in live => orphans' = orphans)
      /\ (r # "table" /\ "table" \in orphans) => "table" \in orphans'
      /\ r \notin live => r \notin orphans'
  BY <1>0, DealEffect DEF Provide, TypeOK
<1>x. Deal(r, options, (IF phase = "create" THEN "Create" ELSE "Update"))
  BY DEF Provide

<1>a. r \in todo /\ todo' = todo \ {r} /\ done' = done \cup {r}
      /\ UNCHANGED <<phase, options, before, gen, rot, read, edge>>
  BY DEF Provide, Dealt, Idle, rotation
<1>b. /\ r # "secret" => secret' = secret /\ crossed' = crossed
      /\ r = "secret" => /\ secret' = [config |-> options, key |-> FreshKey]
                         /\ crossed' <=> (rot = "put")
                         /\ crossed' \in BOOLEAN
      /\ r # "copy" => cur' = cur
      /\ r = "copy" => cur' = secret.key
  BY <1>0, <1>x, DealEffect DEF TypeOK
<1>c. FreshKey \in Key \ {0} BY <1>0, DrawnKey
<1>d. /\ r # "ssm" => ssm' = ssm
      /\ r = "ssm" => /\ \A p \in Params(options) : ssm'[p] = arn[Named(p)]
                      /\ \A p \in Param \ Params(options) : ssm'[p] = ssm[p]
      /\ ssm' \in [Param -> Gen]
  <2>1. CASE r # "ssm"
    BY <1>0, <1>x, <2>1, DealEffect DEF TypeOK
  <2>2. CASE r = "ssm"
    <3>1. WriteParams(options, (IF phase = "create" THEN "Create" ELSE "Update")) /\ (IF phase = "create" THEN "Create" ELSE "Update") # "Delete"
      BY <1>0, <1>x, <2>2, DealEffect DEF TypeOK
    <3> QED BY <1>0, <2>2, <3>1, WriteEffect DEF TypeOK
  <2> QED BY <2>1, <2>2

<1>e. /\ phase \in {"create", "update"} /\ Needs(r) \cap todo = {}
      /\ "table" \notin orphans \/ r # "table" \/ r \in live
  BY DEF Provide, Free
<1>2. TypeOK'
  <2>1. secret' \in [config : Options, key : Key] /\ cur' \in Key
    BY <1>0, <1>b, <1>c DEF TypeOK
  <2>2. crossed' \in BOOLEAN BY <1>0, <1>b DEF TypeOK
  <2> QED BY <1>0, <1>1, <1>a, <1>d, <2>1, <2>2 DEF TypeOK
<1>3. Progress'
  <2>1. CASE phase = "create"
    <3>1. r = "ssm" => Shared \subseteq done
      <4>1. ASSUME r = "ssm" PROVE Shared \cap todo = {}
        BY <1>e, <4>1 DEF Needs, Shared
      <4>2. Shared \subseteq Resources(options)
        BY <1>0, ResourceFacts DEF TypeOK, Base, Shared
      <4> QED BY <1>0, <2>1, <4>1, <4>2 DEF Progress
    <3>2. r = "ssm" /\ options.identity => "webkey" \in done
      <4>1. r = "ssm" => "webkey" \notin todo BY <1>e DEF Needs
      <4>2. options.identity => "webkey" \in Resources(options)
        BY <1>0, ResourceFacts DEF TypeOK
      <4> QED BY <1>0, <2>1, <4>1, <4>2 DEF Progress
    <3>3. \A s \in live' : arn'[s] # 0
      BY <1>0, <1>1, <2>1 DEF Progress, TypeOK
    <3> QED BY <1>0, <1>1, <1>a, <2>1, <3>1, <3>2, <3>3 DEF Progress, Standing
  <2>2. CASE phase = "update"
    <3>1. \A s \in live' : arn'[s] # 0
      BY <1>0, <1>1, <2>2 DEF Progress, TypeOK
    <3> QED BY <1>0, <1>1, <1>a, <2>2, <3>1 DEF Progress, Standing, Base
  <2> QED BY <1>e, <2>1, <2>2
<1>4. Configured'
  <2>1. CASE r = "secret"
    BY <1>0, <1>a, <1>b, <1>e, <2>1 DEF Configured
  <2>2. CASE r # "secret"
    BY <1>0, <1>a, <1>b, <1>e, <2>2 DEF Configured
  <2> QED BY <2>1, <2>2
<1>5. HasKeys'
  <2>1. r = "secret" => secret'.key # 0 BY <1>b, <1>c
  <2>2. r = "copy" => secret.key # 0
    <3>1. CASE phase = "update"
      BY <1>0, <3>1 DEF HasKeys, Progress, Standing, Base
    <3>2. ASSUME phase = "create", r = "copy" PROVE secret.key # 0
      <4>1. "secret" \notin todo BY <1>e, <3>2 DEF Needs
      <4>2. "secret" \in Resources(options)
        BY <1>0, ResourceFacts DEF TypeOK, Base
      <4> QED BY <1>0, <3>2, <4>1, <4>2 DEF HasKeys, Progress
    <3> QED BY <1>e, <3>1, <3>2
  <2> QED BY <1>0, <1>1, <1>a, <1>b, <1>e, <2>1, <2>2 DEF HasKeys, Standing
<1>6. Published'
  <2>1. Named0(options) \subseteq Params(options) /\ Named0(options) \subseteq Param
        /\ \A p \in Named0(options) : Named(p) \in Shared
        /\ "configSecretArn" \in Params(options)
    BY <1>0, ParamFacts DEF TypeOK
  <2>2. /\ options.identity => "webIdentityKeyArn" \in Params(options)
        /\ ~options.identity => "webIdentityKeyArn" \notin Params(options)
        /\ Named("webIdentityKeyArn") = "webkey"
        /\ "webIdentityKeyArn" \in Param
    BY <1>0, ParamFacts DEF TypeOK, Param
  <2>3. Shared \subseteq Resource /\ "webkey" \in Resource
    BY DEF Shared, Resource
  <2>4. "ssm" \notin live' => ssm'["configSecretArn"] = 0
    BY <1>0, <1>1, <1>d DEF Published
  <2>5. CASE phase = "create"
    <3>1. CASE r = "ssm"
      <4>1. Shared \subseteq live
        <5>1. Shared \cap todo = {} BY <1>e, <3>1 DEF Needs, Shared
        <5>2. Shared \subseteq Resources(options)
          BY <1>0, ResourceFacts DEF TypeOK, Base, Shared
        <5> QED BY <1>0, <2>5, <5>1, <5>2 DEF Progress
      <4>2. options.identity => "webkey" \in live
        <5>1. "webkey" \notin todo BY <1>e, <3>1 DEF Needs
        <5>2. options.identity => "webkey" \in Resources(options)
          BY <1>0, ResourceFacts DEF TypeOK
        <5> QED BY <1>0, <2>5, <5>1, <5>2 DEF Progress
      <4>3. \A p \in Named0(options) : ssm'[p] = arn'[Named(p)]
        BY <1>1, <1>d, <2>1, <2>3, <3>1, <4>1
      <4>4. options.identity => Web'
        BY <1>1, <1>d, <2>2, <2>3, <3>1, <4>2 DEF Web
      <4> QED BY <1>a, <2>4, <2>5, <4>3, <4>4 DEF Published, Standing
    <3>2. CASE r # "ssm"
      <4>1. "ssm" \in done =>
              \A p \in Named0(options) : ssm'[p] = arn'[Named(p)]
        BY <1>0, <1>1, <1>d, <2>1, <2>3, <2>5, <3>2 DEF Published, Progress
      <4>2. "ssm" \in done /\ options.identity => Web'
        BY <1>0, <1>1, <1>d, <2>3, <2>5, <3>2 DEF Published, Progress, Web
      <4> QED BY <1>a, <2>4, <2>5, <3>2, <4>1, <4>2 DEF Published, Standing
    <3> QED BY <3>1, <3>2
  <2>6. CASE phase = "update"
    <3>1. Base \subseteq live BY <1>0, <2>6 DEF Progress, Standing
    <3>2. \A p \in Named0(options) : ssm'[p] = arn'[Named(p)]
      <4>1. \A p \in Named0(options) : arn'[Named(p)] = arn[Named(p)]
        BY <1>1, <2>1, <2>3, <3>1 DEF Shared, Base
      <4>2. \A p \in Named0(options) : ssm'[p] = arn[Named(p)]
        BY <1>0, <1>d, <2>1, <2>6 DEF Published, Standing
      <4> QED BY <4>1, <4>2
    <3>3. before.identity => Web'
      <4>1. before.identity => arn'["webkey"] = arn["webkey"]
        BY <1>0, <1>1, <2>3, <2>6 DEF Progress
      <4>2. before.identity => ssm'["webIdentityKeyArn"] = arn["webkey"]
        BY <1>0, <1>d, <2>2, <2>6 DEF Published, Web
      <4> QED BY <4>1, <4>2 DEF Web
    <3>4. options.identity /\ "ssm" \in done' => Web' /\ "webkey" \in live'
      <4>1. CASE r = "ssm"
        <5>1. options.identity => "webkey" \in live
          <6>1. "webkey" \notin todo BY <1>e, <4>1 DEF Needs
          <6>2. CASE before.identity BY <1>0, <2>6, <6>2 DEF Progress
          <6>3. CASE ~before.identity
            BY <1>0, <2>6, <6>1, <6>3 DEF Progress, Touched
          <6> QED BY <6>2, <6>3
        <5> QED BY <1>1, <1>d, <2>2, <2>3, <4>1, <5>1 DEF Web
      <4>2. CASE r # "ssm"
        BY <1>0, <1>1, <1>a, <1>d, <2>3, <2>6, <4>2 DEF Published, Web
      <4> QED BY <4>1, <4>2
    <3> QED BY <1>a, <2>4, <2>6, <3>2, <3>3, <3>4 DEF Published, Standing
  <2> QED BY <1>e, <2>5, <2>6
<1>7. Held'
  <2>1. /\ "table" \in orphans => "table" \in orphans' /\ "table" \notin live'
        /\ ~("table" \in orphans' /\ "table" \in live')
    BY <1>0, <1>1, <1>e DEF Held
  <2>2. CASE edge.variant = "none"
    BY <1>0, <1>a, <2>1, <2>2 DEF Held
  <2>3. CASE edge.variant # "none"
    <3>1. (phase = "update" \/ (phase = "create" /\ "table" \notin orphans)) =>
            /\ Faithful /\ "ssm" \in live /\ Shared \subseteq live
      BY <1>0, <2>3 DEF Held, Progress, Standing, Base, Shared
    <3>2. \A p \in CustomUiEdgeReads \cup EdgeReads(edge.variant, FALSE) :
            Named(p) \in Shared
      BY <1>0, <2>3 DEF Held, CustomUiEdgeReads, EdgeReads, AzureEdgeReads,
         CognitoEdgeReads, Named, Shared
    <3>3. Shared \subseteq Resource BY DEF Shared, Resource
    <3>4. Shared \subseteq live /\ Faithful => Faithful'
      BY <1>1, <1>a, <3>2, <3>3 DEF Faithful
    <3> QED BY <1>0, <1>1, <1>a, <1>e, <2>1, <2>3, <3>1, <3>4
            DEF Held, Standing, Shared
  <2> QED BY <2>2, <2>3
<1> QED BY <1>2, <1>3, <1>4, <1>5, <1>6, <1>7 DEF Inv

\* A resource is put back.
LEMMA RevertInv ==
  ASSUME Inv, NEW r \in Resource, Revert(r)
  PROVE  Inv'
<1>0. TypeOK /\ Progress /\ Configured /\ HasKeys /\ Published /\ Held
  BY DEF Inv
<1>1. /\ live' = live \cup {r} /\ arn' \in [Resource -> Gen]
      /\ \A s \in Resource : s # r \/ s \in live => arn'[s] = arn[s]
      /\ r \notin live => arn'[r] = gen
      /\ orphans' \subseteq orphans /\ (r \in live => orphans' = orphans)
      /\ (r # "table" /\ "table" \in orphans) => "table" \in orphans'
      /\ r \notin live => r \notin orphans'
  BY <1>0, DealEffect DEF Revert, TypeOK
<1>x. Deal(r, options, "Update") BY DEF Revert

<1>a. r \in todo /\ todo' = todo \ {r} /\ done' = done \cup {r}
      /\ UNCHANGED <<phase, options, before, gen, rot, read, edge>>
  BY DEF Revert, Dealt, Idle, rotation
<1>b. /\ r # "secret" => secret' = secret /\ crossed' = crossed
      /\ r = "secret" => /\ secret' = [config |-> options, key |-> FreshKey]
                         /\ crossed' <=> (rot = "put")
                         /\ crossed' \in BOOLEAN
      /\ r # "copy" => cur' = cur
      /\ r = "copy" => cur' = secret.key
  BY <1>0, <1>x, DealEffect DEF TypeOK
<1>c. FreshKey \in Key \ {0} BY <1>0, DrawnKey
<1>d. /\ r # "ssm" => ssm' = ssm
      /\ r = "ssm" => /\ \A p \in Params(options) : ssm'[p] = arn[Named(p)]
                      /\ \A p \in Param \ Params(options) : ssm'[p] = ssm[p]
      /\ ssm' \in [Param -> Gen]
  <2>1. CASE r # "ssm"
    BY <1>0, <1>x, <2>1, DealEffect DEF TypeOK
  <2>2. CASE r = "ssm"
    <3>1. WriteParams(options, "Update") /\ "Update" # "Delete"
      BY <1>0, <1>x, <2>2, DealEffect DEF TypeOK
    <3> QED BY <1>0, <2>2, <3>1, WriteEffect DEF TypeOK
  <2> QED BY <2>1, <2>2

<1>e. phase = "revert" /\ r \in {"secret", "ssm"} /\ Base \subseteq live
      /\ live' = live /\ arn' = arn /\ orphans' = orphans
  BY <1>0, <1>1, <1>a DEF Revert, Progress, Standing, Base, TypeOK
<1>2. TypeOK'
  <2>1. secret' \in [config : Options, key : Key] /\ cur' \in Key
    BY <1>0, <1>b, <1>c DEF TypeOK
  <2>2. crossed' \in BOOLEAN BY <1>0, <1>b DEF TypeOK
  <2> QED BY <1>0, <1>1, <1>a, <1>d, <2>1, <2>2 DEF TypeOK
<1>3. Progress'
  BY <1>0, <1>a, <1>e DEF Progress, Standing, Base
<1>4. Configured'
  BY <1>0, <1>a, <1>b, <1>e DEF Configured
<1>5. HasKeys'
  BY <1>0, <1>a, <1>b, <1>c, <1>e DEF HasKeys, Standing
<1>6. Published'
  <2>1. Named0(options) \subseteq Params(options)
    BY <1>0, ParamFacts DEF TypeOK
  <2>2. options.identity => "webIdentityKeyArn" \in Params(options)
        /\ Named("webIdentityKeyArn") = "webkey"
    BY <1>0, ParamFacts DEF TypeOK
  <2> QED BY <1>0, <1>a, <1>d, <1>e, <2>1, <2>2
          DEF Published, Standing, Web, Base
<1>7. Held'
  BY <1>0, <1>a, <1>e DEF Held, Standing, Faithful
<1> QED BY <1>2, <1>3, <1>4, <1>5, <1>6, <1>7 DEF Inv

\* A resource is taken away.
LEMMA TakeAwayInv ==
  ASSUME Inv, NEW r \in Resource, TakeAway(r)
  PROVE  Inv'
<1>0. TypeOK /\ Progress /\ Configured /\ HasKeys /\ Published /\ Held
  BY DEF Inv
<1>1. /\ live' = live \ {r} /\ arn' = arn /\ orphans \subseteq orphans'
      /\ orphans' \subseteq orphans \cup ({r} \cap {"table", "key", "webkey"})
      /\ r = "table" => "table" \in orphans'
      /\ crossed' = crossed
      /\ r # "secret" => secret' = secret
      /\ r = "secret" => secret' = [secret EXCEPT !.key = 0]
      /\ r # "kvs" => cur' = cur
      /\ r = "kvs" => cur' = 0
  BY <1>0, RemoveEffect DEF TakeAway, TypeOK
<1>a. r \in todo /\ todo' = todo \ {r} /\ done' = done \cup {r}
      /\ UNCHANGED <<phase, options, before, gen, rot, read, edge>>
      /\ phase \in {"undo", "delete"} /\ Takers(r) \cap todo = {}
  BY DEF TakeAway, Dealt, Idle, rotation
<1>b. /\ r # "ssm" => ssm' = ssm
      /\ r = "ssm" => \A p \in Params(options) : ssm'[p] = 0
      /\ ssm' \in [Param -> Gen]
  <2>1. Remove(r, phase = "undo") BY DEF TakeAway
  <2>2. CASE r # "ssm" BY <1>0, <2>1, <2>2, RemoveEffect DEF TypeOK
  <2>3. CASE r = "ssm"
    <3>1. WriteParams(options, "Delete") BY <1>0, <2>1, <2>3, RemoveEffect
    <3> QED BY <1>0, <2>3, <3>1, WriteEffect DEF TypeOK
  <2> QED BY <2>2, <2>3
<1>2. TypeOK'
  <2>1. secret' \in [config : Options, key : Key] /\ cur' \in Key
    BY <1>0, <1>1 DEF TypeOK, Key
  <2> QED BY <1>0, <1>1, <1>a, <1>b, <2>1 DEF TypeOK
<1>3. Progress'
  <2>1. r = "table" => "ssm" \notin todo
    BY <1>a DEF Takers, Needs, Resource
  <2> QED BY <1>0, <1>1, <1>a, <2>1 DEF Progress, Standing
<1>4. Configured'
  BY <1>0, <1>1, <1>a DEF Configured, TypeOK
<1>5. HasKeys'
  BY <1>0, <1>1, <1>a DEF HasKeys, Standing
<1>6. Published'
  <2>1. "configSecretArn" \in Params(options) BY <1>0, ParamFacts DEF TypeOK
  <2> QED BY <1>0, <1>1, <1>a, <1>b, <2>1 DEF Published, Standing
<1>7. Held'
  BY <1>0, <1>1, <1>a DEF Held, Standing
<1> QED BY <1>2, <1>3, <1>4, <1>5, <1>6, <1>7 DEF Inv

-----------------------------------------------------------------------------
(* The theorems                                                            *)

\* Every step keeps the invariant.
LEMMA StepInv ==
  ASSUME Inv, [Next]_vars
  PROVE  Inv'
<1>1. CASE UNCHANGED vars
  <2>1. UNCHANGED <<phase, options, before, todo, done, live, orphans, gen, arn,
                    secret, cur, ssm, rot, read, edge, crossed>>
    BY <1>1 DEF vars, cfn, rotation
  <2>2. TypeOK' BY <2>1 DEF Inv, TypeOK
  <2>3. Progress' BY <2>1 DEF Inv, Progress
  <2>4. Configured' /\ HasKeys' BY <2>1 DEF Inv, Configured, HasKeys
  <2>5. Published' BY <2>1 DEF Inv, Published, Web
  <2>6. Held' BY <2>1 DEF Inv, Held, Faithful
  <2> QED BY <2>2, <2>3, <2>4, <2>5, <2>6 DEF Inv
<1>2. ASSUME NEW o \in Options, CreateStack(o) \/ UpdateStack(o) PROVE Inv'
  BY <1>2, CreateInv, UpdateInv
<1>3. CASE DeleteStack \/ Fail \/ Complete
  BY <1>3, DeleteInv, FailInv, CompleteInv
<1>4. ASSUME NEW r \in Resource, Provide(r) \/ TakeAway(r) \/ Revert(r)
      PROVE  Inv'
  BY <1>4, ProvideInv, TakeAwayInv, RevertInv
<1>5. CASE Rotation
  BY <1>5, RotGetInv, RotPutInv, RotCopyInv, RotFailInv DEF Rotation
<1>6. ASSUME NEW v \in EdgeVariants, NEW i \in BOOLEAN, i => v = "azure",
             DeployEdge(v, i)
      PROVE  Inv'
  BY <1>6, DeployEdgeInv
<1> QED BY <1>1, <1>2, <1>3, <1>4, <1>5, <1>6 DEF Next, CloudFormation

\* The invariant holds of every behaviour of the stacks.
LEMMA Invariance == Spec => []Inv
BY InitInv, StepInv, PTL DEF Spec

\* Every variable of the stacks keeps its type.
THEOREM TypeCorrect == Spec => []TypeOK
<1>1. Inv => TypeOK BY DEF Inv
<1> QED BY <1>1, Invariance, PTL

\* After every operation, rolled back or not, the secret holds the options of
\* the stack, unless a rotation straddled the write of its template.
THEOREM Current == Spec => []ConfigCurrent
<1>1. Inv => ConfigCurrent BY DEF Inv, Configured, ConfigCurrent
<1> QED BY <1>1, Invariance, PTL

\* From the moment a backend is ready the store and the secret have keys: the
\* copy waits for the secret, and no update or rollback removes either.
THEOREM AlwaysKeyed == Spec => []Keyed
<1>1. Inv => Keyed BY DEF Inv, HasKeys, Progress, Keyed, Standing, Base
<1> QED BY <1>1, Invariance, PTL

\* The parameters an edge stack reads are published, and name the resources
\* there are, web identity switched on, off and on again.
THEOREM Parameters == Spec => []ParamsServeEdge
<1>1. ASSUME Inv, phase = "ready", NEW v \in EdgeVariants, NEW i \in BOOLEAN,
             i => options.identity, NEW p \in EdgeReads(v, i)
      PROVE  ssm[p] # 0 /\ ssm[p] = arn[Named(p)]
  <2>1. p \in Named0(options) \/ (p = "webIdentityKeyArn" /\ options.identity)
    BY <1>1 DEF Inv, TypeOK, EdgeVariants, EdgeReads, AzureEdgeReads,
       CognitoEdgeReads, CustomUiEdgeReads, Named0, Params, AzureParams,
       CognitoParams, Options
  <2>2. \A r \in live : arn[r] # 0 BY <1>1 DEF Inv, Progress
  <2>3. CASE p \in Named0(options)
    <3>1. ssm[p] = arn[Named(p)]
      BY <1>1, <2>3 DEF Inv, Published, Standing
    <3>2. Named(p) \in live
      BY <1>1, <2>3, ParamFacts DEF Inv, TypeOK, Progress, Standing, Base, Shared
    <3> QED BY <2>2, <3>1, <3>2
  <2>4. CASE p = "webIdentityKeyArn" /\ options.identity
    <3>1. ssm[p] = arn["webkey"] /\ "webkey" \in live
      BY <1>1, <2>4 DEF Inv, Published, Web, Progress
    <3> QED BY <2>2, <2>4, <3>1, ParamFacts
  <2> QED BY <2>1, <2>3, <2>4
<1>2. Inv => ParamsServeEdge BY <1>1 DEF ParamsServeEdge
<1> QED BY <1>2, Invariance, PTL

\* A ready backend is the one its edge stack names: the table that outlives a
\* backend keeps any other from being completed under its name.
THEOREM Baked == Spec => []BakedCurrent
<1>1. Inv => BakedCurrent
  BY DEF Inv, Held, Faithful, BakedCurrent, Standing
<1> QED BY <1>1, Invariance, PTL
=============================================================================
