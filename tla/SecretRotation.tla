--------------------------- MODULE SecretRotation ---------------------------
(***************************************************************************)
(* The HMAC key that signs session tokens: rotated on a schedule in        *)
(* Secrets Manager by rotateSecret, copied to the KeyValueStore by         *)
(* hmacSecret, whose entries jwt.secret and jwt.secret.old the edge reads. *)
(* hmacSecret is invoked by rotateSecret, which retries it, and by         *)
(* CloudFormation on a deployment; every write to the store takes the ETag *)
(* of an earlier read of its version, and other lambdas (the denylist's)   *)
(* write to the same store.                                                *)
(***************************************************************************)
EXTENDS Naturals

CONSTANTS
  Copier,         \* instances of hmacSecret that can run at the same time
  NoCopier,       \* not an instance
  ExtraGrants,    \* permissions an application may add to hmacSecret's role
  MaxRetries,     \* MAX_RETRIES of rotateSecret, 3
  MaxKey,         \* bound: keys generated
  MaxDeploys,     \* bound: deployments
  MaxWrites       \* bound: writes of other lambdas to the store

ASSUME CopierAssumption == NoCopier \notin Copier
ASSUME BoundAssumption ==
  /\ {MaxRetries, MaxKey} \subseteq Nat \ {0}
  /\ {MaxDeploys, MaxWrites} \subseteq Nat

\* Keys are numbered in the order of their generation; 0 is "no entry".
Key == 0 .. MaxKey

VARIABLES
  grants,     \* what hmacSecret's role may do on the store, beyond PutKey
              \* and DescribeKeyValueStore
  sm,         \* hmac_key in Secrets Manager
  cur, prior, \* jwt.secret and jwt.secret.old in the KeyValueStore
  etag,       \* the version of the store
  rot,        \* rotateSecret's next step
  attempt,    \* its attempt at the copy, from 0
  callee,     \* the instance whose answer it waits for
  pc,         \* next step of each hmacSecret instance
  want, seen, tag,  \* its new_secret, old_secret and etag
  kept,       \* it has preserved the current key
  deploys, writes,  \* deployments and foreign writes so far
  overlap     \* history: two copies have run at the same time

rotator == <<rot, attempt, callee>>
copier  == <<pc, want, seen, tag, kept>>
store   == <<cur, prior, etag>>
bounds  == <<deploys, writes>>
vars    == <<grants, sm, store, rotator, copier, bounds, overlap>>

RotSteps  == {"idle", "invoke", "wait", "done", "failed"}
CopySteps == {"idle", "read", "describe", "get", "putOld", "redescribe",
              "putCur", "ok", "raised"}

TypeOK ==
  /\ grants \subseteq ExtraGrants
  /\ sm \in Key \ {0} /\ cur \in Key /\ prior \in Key /\ etag \in Nat
  /\ rot \in RotSteps /\ attempt \in 0 .. MaxRetries
  /\ callee \in Copier \cup {NoCopier}
  /\ pc \in [Copier -> CopySteps]
  /\ want \in [Copier -> Key] /\ seen \in [Copier -> Key]
  /\ tag \in [Copier -> Nat] /\ kept \in [Copier -> BOOLEAN]
  /\ deploys \in Nat /\ writes \in Nat
  /\ overlap \in BOOLEAN

\* The stack creates the secret with a generated key and an empty store.  The
\* construct grants PutKey and DescribeKeyValueStore; the lambda is a public
\* property of it, so that an application may have granted it more.
Init ==
  /\ grants \in {{}, ExtraGrants}
  /\ sm = 1 /\ cur = 0 /\ prior = 0 /\ etag = 0
  /\ rot = "idle" /\ attempt = 0 /\ callee = NoCopier
  /\ pc = [i \in Copier |-> "idle"]
  /\ want = [i \in Copier |-> 0] /\ seen = [i \in Copier |-> 0]
  /\ tag = [i \in Copier |-> 0] /\ kept = [i \in Copier |-> FALSE]
  /\ deploys = 0 /\ writes = 0 /\ overlap = FALSE

-----------------------------------------------------------------------------
(* hmacSecret: copy_secret_to_kvs                                          *)

Running(i) == pc[i] \notin {"idle", "ok", "raised"}

Goto(i, from, to) ==
  /\ pc[i] = from
  /\ pc' = [pc EXCEPT ![i] = to]

\* A fresh invocation, of rotateSecret or of CloudFormation.
Start(i) ==
  /\ Goto(i, "idle", "read")
  /\ overlap' = (overlap \/ \E k \in Copier : Running(k))
  /\ UNCHANGED <<want, seen, tag, kept>>

\* The invocation is over and its local state gone.
Finish(i) ==
  /\ pc' = [pc EXCEPT ![i] = "idle"]
  /\ want' = [want EXCEPT ![i] = 0] /\ seen' = [seen EXCEPT ![i] = 0]
  /\ tag' = [tag EXCEPT ![i] = 0] /\ kept' = [kept EXCEPT ![i] = FALSE]

Read(i) ==
  /\ Goto(i, "read", "describe")
  /\ want' = [want EXCEPT ![i] = sm]
  /\ UNCHANGED <<grants, sm, store, rotator, seen, tag, kept, bounds, overlap>>

Describe(i) ==
  /\ Goto(i, "describe", "get")
  /\ tag' = [tag EXCEPT ![i] = etag]
  /\ UNCHANGED <<grants, sm, store, rotator, want, seen, kept,
                 bounds, overlap>>

\* get_key: no entry yet, access denied or any other error: all are caught,
\* and the copy goes on to overwrite jwt.secret.
GetKey(i) ==
  /\ \/ /\ Goto(i, "get", "putOld")
        /\ "GetKey" \in grants /\ cur # 0
        /\ seen' = [seen EXCEPT ![i] = cur]
     \/ Goto(i, "get", "putCur") /\ UNCHANGED seen
  /\ UNCHANGED <<grants, sm, store, rotator, want, tag, kept, bounds, overlap>>

\* A conditional write of the store.
Write(i) == tag[i] = etag /\ etag' = etag + 1

\* Mutant of PutOld: the new secret is written to jwt.secret.old.
PutOldWritesNew(i) ==
  /\ Goto(i, "putOld", "redescribe")
  /\ Write(i) /\ prior' = want[i]
  /\ UNCHANGED <<grants, sm, cur, rotator, want, seen, tag, kept,
                 bounds, overlap>>

\* put_key jwt.secret.old.  Any error is caught as well, which leaves a tag
\* that is stale where the write was refused for it, or has been applied
\* although its answer was lost.
PutOld(i) ==
  /\ \/ /\ Goto(i, "putOld", "redescribe")
        /\ Write(i) /\ prior' = seen[i]
     \/ /\ Goto(i, "putOld", "putCur")
        /\ \/ Write(i) /\ prior' = seen[i]
           \/ UNCHANGED <<etag, prior>>
  /\ UNCHANGED <<grants, sm, cur, rotator, want, seen, tag, kept,
                 bounds, overlap>>

\* The ETag is read anew, and not taken from the answer of the write.
Redescribe(i) ==
  /\ Goto(i, "redescribe", "putCur")
  /\ \/ /\ tag' = [tag EXCEPT ![i] = etag]
        /\ kept' = [kept EXCEPT ![i] = TRUE]
     \/ UNCHANGED <<tag, kept>>
  /\ UNCHANGED <<grants, sm, store, rotator, want, seen, bounds, overlap>>

\* Mutant of PutCur: the preserved secret is written back to jwt.secret.
PutCurWritesOld(i) ==
  /\ Goto(i, "putCur", "ok")
  /\ Write(i) /\ cur' = seen[i]
  /\ UNCHANGED <<grants, sm, prior, rotator, want, seen, tag, kept,
                 bounds, overlap>>

PutCur(i) ==
  /\ Goto(i, "putCur", "ok")
  /\ Write(i) /\ cur' = want[i]
  /\ UNCHANGED <<grants, sm, prior, rotator, want, seen, tag, kept,
                 bounds, overlap>>

\* A call outside the try blocks fails (the write for its stale tag or, its
\* answer lost, after it was applied), or the lambda times out.
Raise(i) ==
  /\ Running(i)
  /\ pc' = [pc EXCEPT ![i] = "raised"]
  /\ \/ pc[i] = "putCur" /\ Write(i) /\ cur' = want[i]
     \/ UNCHANGED <<cur, etag>>
  /\ UNCHANGED <<grants, sm, prior, rotator, want, seen, tag, kept,
                 bounds, overlap>>

\* An invocation nobody waits for ends: CloudFormation's, or one whose
\* rotateSecret has timed out.
End(i) ==
  /\ pc[i] \in {"ok", "raised"} /\ callee # i
  /\ Finish(i)
  /\ UNCHANGED <<grants, sm, store, rotator, bounds, overlap>>

\* CloudFormation's Create or Update of SecretCopyResource.
Deploy(i) ==
  /\ deploys < MaxDeploys
  /\ deploys' = deploys + 1
  /\ Start(i)
  /\ UNCHANGED <<grants, sm, store, rotator, writes>>

-----------------------------------------------------------------------------
(* rotateSecret: handler and invoke_copy_lambda_with_retry                 *)

\* The schedule, or Lambda's retry of a failed run, starts the handler: it
\* generates a key and stores it.
Rotate ==
  /\ rot \in {"idle", "done", "failed"}
  /\ sm < MaxKey /\ sm' = sm + 1
  /\ rot' = "invoke" /\ attempt' = 0
  /\ UNCHANGED <<grants, store, callee, copier, bounds, overlap>>

Invoke(i) ==
  /\ rot = "invoke" /\ rot' = "wait" /\ callee' = i
  /\ Start(i)
  /\ UNCHANGED <<grants, sm, store, attempt, bounds>>

\* Mutant of Success: StatusCode 200 is taken for success, which it is of a
\* function error too.
SuccessOnStatus ==
  /\ rot = "wait" /\ pc[callee] \in {"ok", "raised"}
  /\ rot' = "done"
  /\ Finish(callee) /\ callee' = NoCopier
  /\ UNCHANGED <<grants, sm, store, attempt, bounds, overlap>>

Success ==
  /\ rot = "wait" /\ pc[callee] = "ok"
  /\ rot' = "done"
  /\ Finish(callee) /\ callee' = NoCopier
  /\ UNCHANGED <<grants, sm, store, attempt, bounds, overlap>>

\* A function error, or an answer that was lost: another attempt, or the end.
Failure ==
  /\ rot = "wait" /\ ~Running(callee)
  /\ attempt' = attempt + 1
  /\ rot' = IF attempt + 1 < MaxRetries THEN "invoke" ELSE "failed"
  /\ Finish(callee) /\ callee' = NoCopier
  /\ UNCHANGED <<grants, sm, store, bounds, overlap>>

\* The handler's own timeout; the copy it waits for goes on.
TimeOut ==
  /\ rot \in {"invoke", "wait"}
  /\ rot' = "failed" /\ callee' = NoCopier
  /\ UNCHANGED <<grants, sm, store, attempt, copier, bounds, overlap>>

-----------------------------------------------------------------------------
\* session-revocation or the stream processor writes to the store.
OtherWrite ==
  /\ writes < MaxWrites
  /\ writes' = writes + 1 /\ etag' = etag + 1
  /\ UNCHANGED <<grants, sm, cur, prior, rotator, copier, deploys, overlap>>

Copy(i) == \/ Read(i) \/ Describe(i) \/ GetKey(i) \/ PutOld(i) \/ Redescribe(i)
           \/ PutCur(i) \/ Raise(i) \/ End(i)

Next ==
  \/ \E i \in Copier : Copy(i) \/ Deploy(i) \/ Invoke(i)
  \/ Rotate \/ Success \/ Failure \/ TimeOut
  \/ OtherWrite

Spec == Init /\ [][Next]_vars

-----------------------------------------------------------------------------
(* Properties                                                              *)

\* rotateSecret/index.py:85, "Secret rotated and synchronized successfully":
\* from when the handler says so until the next rotation the edge verifies with
\* the key that Secrets Manager holds, retries, timeouts and lost answers of
\* earlier rotations and the copies of deployments notwithstanding, as long as
\* no two copies ran at the same time.
RotationSynchronises == (rot = "done" /\ ~overlap) => cur = sm

\* While copies do not overlap, the edge never goes back to an older key.
NoRollback == [][~overlap' => cur' >= cur]_vars

\* A copy that preserved the current key and then replaces it leaves exactly
\* the replaced key as jwt.secret.old: tokens signed just before the switch
\* verify after it.  Overlapping copies are excluded.
ReplacedKeyKept ==
  [][\A i \in Copier :
       (pc[i] = "putCur" /\ kept[i] /\ cur' # cur /\ ~overlap)
           => prior' = cur]_vars
=============================================================================
