---------------------------- MODULE RoleDirectory ----------------------------
(***************************************************************************)
(* Custom roles and their assignments as the permissions-admin function    *)
(* keeps them: one item per role, one per principal and role, two tables,  *)
(* no condition on any write.  Whether a role is in use is asked of an     *)
(* index that trails the assignments, and the look at a role before its    *)
(* deletion is an eventually consistent read: a replica may still hold the *)
(* item that is gone, or not yet the one that is there.  A request that is *)
(* refused (token, management role, predefined or locked ids, escalation)  *)
(* changes nothing, so the requests here are those let through;            *)
(* permissions, scopes and the rows of the audit trail, which no operation *)
(* reads, are left out.                                                    *)
(***************************************************************************)
EXTENDS Naturals

CONSTANTS
  Role,          \* ids of custom roles
  Principal,     \* principals roles are assigned to
  Handler,       \* invocations under way at once
  None,          \* no role
  MaxRequests    \* bound: requests let through

\* What the constants have to be.
RoleAssumption == None \notin Role /\ MaxRequests \in Nat

VARIABLES
  role,      \* role items: none, active, archived or, without a name, stub
  trailing,  \* roles of which a replica still has, or has not yet, an item
  asg,       \* items of the table of assignments, <<principal, role>>
  index,     \* what roleId-index holds of them
  req,       \* each invocation: its step and the role it works on
  requests,  \* counts towards MaxRequests
  loose,     \* history: pairs no look at the role or at its use took in
  overlap,   \* history: roles two deletions have worked on at once
  ghost      \* history: roles a deletion has found after they were gone

history == <<loose, overlap, ghost>>
vars    == <<role, trailing, asg, index, req, requests, history>>

Pair == Principal \X Role
Idle == [step |-> "idle", role |-> None]
Step == {"idle", "read", "query", "archive", "delete"}

TypeOK ==
  /\ role \in [Role -> {"none", "active", "archived", "stub"}]
  /\ asg \subseteq Pair /\ index \subseteq Pair
  /\ req \in [Handler -> [step : Step, role : Role \cup {None}]]
  /\ \A h \in Handler : (req[h].step = "idle") = (req[h].role = None)
  /\ requests \in 0..MaxRequests
  /\ loose \subseteq Pair
  /\ trailing \subseteq Role /\ overlap \subseteq Role /\ ghost \subseteq Role

Uses(pairs, r) == {pair \in pairs : pair[2] = r}

\* Invocations that are deleting the role, from the read of its item on.
Deleting(r, steps) ==
  {h \in Handler : req[h].role = r /\ req[h].step \in steps}

\* A write of the item, none where it is deleted.
WriteRole(r, status) ==
  /\ role' = [role EXCEPT ![r] = status]
  /\ trailing' = IF (role[r] = "none") # (status = "none")
                   THEN trailing \cup {r} ELSE trailing
NoRole == UNCHANGED <<role, trailing>>

\* The next request, of the operations that are a single call.
Call == requests < MaxRequests /\ requests' = requests + 1

-----------------------------------------------------------------------------
\* create_role: put_item, over whatever item has the id.
CreateRole(r) ==
  /\ Call
  /\ WriteRole(r, "active")
  /\ UNCHANGED <<asg, index, req, history>>

\* create_assignment: put_item; the role is not looked up.  The pair is loose
\* when there is no such role, or a deletion has already asked for its uses.
CreateAssignment(p, r) ==
  /\ Call
  /\ asg' = asg \cup {<<p, r>>}
  /\ loose' = IF role[r] = "none" \/ Deleting(r, {"archive", "delete"}) # {}
                THEN loose \cup {<<p, r>>} ELSE loose
  /\ NoRole /\ UNCHANGED <<index, req, overlap, ghost>>

DeleteAssignment(p, r) ==
  /\ Call
  /\ asg' = asg \ {<<p, r>>}
  /\ loose' = loose \ {<<p, r>>}
  /\ NoRole /\ UNCHANGED <<index, req, overlap, ghost>>

BeginDelete(h, r) ==
  /\ Call /\ req[h].step = "idle"
  /\ req' = [req EXCEPT ![h] = [step |-> "read", role |-> r]]
  /\ NoRole /\ UNCHANGED <<asg, index, history>>

\* The deletion goes on with the role.
FoundRole(h) ==
  LET r == req[h].role IN
  /\ req' = [req EXCEPT ![h].step = "query"]
  /\ overlap' = IF Deleting(r, {"query", "archive", "delete"}) # {}
                  THEN overlap \cup {r} ELSE overlap
  /\ ghost' = IF role[r] = "none" THEN ghost \cup {r} ELSE ghost

\* Mutant of ReadRole: the answer is not looked at.
ReadRoleUnchecked(h) ==
  /\ req[h].step = "read"
  /\ req' = [req EXCEPT ![h].step = "query"]
  /\ UNCHANGED <<overlap, ghost>>
  /\ NoRole /\ UNCHANGED <<asg, index, requests, loose>>
\* get_item of delete_role, without ConsistentRead; 404 when there is none.
ReadRole(h) ==
  LET r == req[h].role IN
  /\ req[h].step = "read"
  /\ \/ (role[r] # "none" \/ r \in trailing) /\ FoundRole(h)
     \/ /\ role[r] = "none" \/ r \in trailing
        /\ req' = [req EXCEPT ![h] = Idle] /\ UNCHANGED <<overlap, ghost>>
  /\ NoRole /\ UNCHANGED <<asg, index, requests, loose>>

\* Mutant of QueryUse: uses are looked up under another key, and none found.
QueryUseElsewhere(h) ==
  LET r == req[h].role IN
  /\ req[h].step = "query"
  /\ req' = [req EXCEPT ![h].step = "delete"]
  /\ loose' = loose \cup Uses(asg \ index, r)
  /\ NoRole /\ UNCHANGED <<asg, index, requests, overlap, ghost>>
\* role_in_use: any one entry of the index.
QueryUse(h) ==
  LET r == req[h].role IN
  /\ req[h].step = "query"
  /\ req' = [req EXCEPT ![h].step =
               IF Uses(index, r) # {} THEN "archive" ELSE "delete"]
  /\ loose' = loose \cup Uses(asg \ index, r)
  /\ NoRole /\ UNCHANGED <<asg, index, requests, overlap, ghost>>

\* update_item SET status: an item that is gone comes back without its name.
Archive(h) ==
  LET r == req[h].role IN
  /\ req[h].step = "archive"
  /\ WriteRole(r, IF role[r] \in {"none", "stub"} THEN "stub" ELSE "archived")
  /\ req' = [req EXCEPT ![h] = Idle]
  /\ UNCHANGED <<asg, index, requests, history>>

DeleteItem(h) ==
  LET r == req[h].role IN
  /\ req[h].step = "delete"
  /\ WriteRole(r, "none")
  /\ req' = [req EXCEPT ![h] = Idle]
  /\ UNCHANGED <<asg, index, requests, history>>

\* A call of delete_role fails, or the invocation ends.
Fail(h) ==
  /\ req[h].step # "idle"
  /\ req' = [req EXCEPT ![h] = Idle]
  /\ NoRole /\ UNCHANGED <<asg, index, requests, history>>

\* DynamoDB brings the index up to the table, pair by pair.
Propagate(pair) ==
  /\ (pair \in asg) # (pair \in index)
  /\ index' = IF pair \in asg THEN index \cup {pair} ELSE index \ {pair}
  /\ NoRole /\ UNCHANGED <<asg, req, requests, history>>

\* A write of a role reaches the last replica of its table.
SettleRole(r) ==
  /\ r \in trailing
  /\ trailing' = trailing \ {r}
  /\ UNCHANGED <<role, asg, index, req, requests, history>>

Init ==
  /\ role = [r \in Role |-> "none"]
  /\ asg = {} /\ index = {}
  /\ req = [h \in Handler |-> Idle] /\ requests = 0
  /\ trailing = {} /\ loose = {} /\ overlap = {} /\ ghost = {}

Next ==
  \/ \E r \in Role :
       \/ CreateRole(r) \/ SettleRole(r)
       \/ \E p \in Principal : CreateAssignment(p, r) \/ DeleteAssignment(p, r)
       \/ \E h \in Handler : BeginDelete(h, r)
  \/ \E h \in Handler :
       ReadRole(h) \/ QueryUse(h) \/ Archive(h) \/ DeleteItem(h) \/ Fail(h)
  \/ \E pair \in Pair : Propagate(pair)

Spec == Init /\ [][Next]_vars

-----------------------------------------------------------------------------
\* An assignment refers to a role that is gone only if the role was missing
\* when it was assigned, or a deletion had asked for the uses of the role
\* before it was, or before the index had it.
OrphansExplained ==
  \A pair \in asg : role[pair[2]] # "none" \/ pair \in loose

\* A role without a name, which the screens list, is left behind only where
\* two deletions of one role have overlapped, one deleting what the other
\* then archives, or where a deletion has found the role in a replica that
\* still had it, and an assignment made since.
StubsExplained ==
  \A r \in Role : role[r] = "stub" => r \in overlap \cup ghost
=============================================================================
