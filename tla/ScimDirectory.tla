---------------------------- MODULE ScimDirectory ----------------------------
(***************************************************************************)
(* The directory an identity provider keeps through SCIM: one item per     *)
(* user, with the ids of its groups copied into it, and one per group.     *)
(* Each request runs in an invocation of its own, call by call, while      *)
(* others do; no write has a condition, update_item creates the item it    *)
(* does not find, and a user is looked up by scimId in an index that       *)
(* trails the table.  Reads of the table itself are taken as current.      *)
(* Names, filters, discovery and authentication are left out, and a PATCH  *)
(* of a group has one operation, adding or removing any set of members.    *)
(***************************************************************************)
EXTENDS Naturals, FiniteSets

CONSTANTS
  User,          \* external ids of users
  Group,         \* ids of groups
  ScimId,        \* the uuids POST /Users draws
  Handler,       \* invocations of the function under way at once
  None,          \* an attribute or a value that is absent
  MaxRequests    \* bound: requests the identity provider sends

VARIABLES
  item,      \* user items, Absent where there is none
  view,      \* what index GSI1 holds of each
  groups,    \* ids with a group item
  minted,    \* scimIds handed out
  req,       \* each invocation: its step, the request and what it has read
  requests,  \* counts towards MaxRequests
  meant,     \* history: the status each user was last asked to have, word
             \* where a POST or PUT put it in a text
  told,      \* history: the memberships asked for, <<user, group>>
  blind,     \* history: users last written from a read that was out of date
  lost,      \* history: pairs a request could not or did not carry over
  late       \* history: pairs written when the group was absent or going

history == <<meant, told, blind, lost, late>>
vars    == <<item, view, groups, minted, req, requests, history>>

\* The item of a user; the index keys and the names go with scim.
Absent == [there |-> FALSE, scim |-> None, active |-> None, groups |-> {}]

\* What active can be in a body: true, false, or the text "False".
Value == {"yes", "no", "word"}

\* Bodies and paths of the requests.  None: the body has no active; a PUT of
\* the kind replaceSome has no groups.  No user is created with active
\* false, which put_user treats as it does in a PUT.
Request ==
  [kind : {"createUser"}, user : User, active : {"yes", "word"},
   groups : SUBSET Group]
  \cup [kind : {"replaceUser"}, scim : ScimId, active : Value \cup {None},
        groups : SUBSET Group]
  \cup [kind : {"replaceSome"}, scim : ScimId, active : Value \cup {None}]
  \cup [kind : {"setActive"}, scim : ScimId, active : Value]
  \cup [kind : {"deleteUser"}, scim : ScimId]
  \cup [kind : {"createGroup", "addMembers", "removeMembers"}, group : Group,
        members : SUBSET ScimId]
  \cup [kind : {"deleteGroup"}, group : Group]

ASSUME NoneAssumption ==
  /\ None \notin User \cup Group \cup ScimId \cup Value \cup Request
  /\ MaxRequests \in Nat

\* What an invocation keeps of the item it has looked up.
Lookup(i) == [scim |-> i.scim, active |-> i.active]

\* An invocation that serves no request.
Idle == [step |-> "idle", body |-> None, user |-> None,
         read |-> Lookup(Absent), todo |-> {}]

Item == [there : BOOLEAN, scim : ScimId \cup {None},
         active : {"yes", "no", None}, groups : SUBSET Group]

Read == [scim : ScimId \cup {None}, active : {"yes", "no", None}]

Step == {"idle", "check", "find", "write", "group", "resolve", "member",
         "scan", "strip", "drop"}

Invocation == [step : Step, body : Request \cup {None},
               user : User \cup {None}, read : Read,
               todo : SUBSET (User \cup ScimId)]

TypeOK ==
  /\ item \in [User -> Item] /\ view \in [User -> Item]
  /\ groups \subseteq Group /\ minted \subseteq ScimId
  /\ req \in [Handler -> Invocation]
  /\ \A h \in Handler : (req[h].step = "idle") = (req[h].body = None)
  /\ requests \in 0..MaxRequests
  /\ meant \in [User -> {"gone"} \cup Value]
  /\ told \subseteq User \X Group
  /\ blind \subseteq User
  /\ lost \subseteq User \X Group /\ late \subseteq User \X Group

-----------------------------------------------------------------------------
(* Requests                                                                *)

\* The identity provider knows the scimIds it was answered, and groups by id.
Known(r) ==
  /\ "scim" \in DOMAIN r => r.scim \in minted
  /\ "members" \in DOMAIN r => r.members \subseteq minted

FirstStep(r) ==
  CASE r.kind = "createUser"                                   -> "write"
    [] r.kind = "createGroup"                                  -> "group"
    [] r.kind \in {"addMembers", "removeMembers", "deleteGroup"} -> "check"
    [] OTHER                                                   -> "find"

Arrive(h, r) ==
  /\ req[h].step = "idle" /\ requests < MaxRequests /\ Known(r)
  /\ requests' = requests + 1
  /\ req' = [req EXCEPT ![h] = [Idle EXCEPT !.step = FirstStep(r), !.body = r]]
  /\ UNCHANGED <<item, view, groups, minted, history>>

Finish(h) == req' = [req EXCEPT ![h] = Idle]

\* A call fails, or the invocation ends: nothing in these files catches it.
Fail(h) ==
  /\ req[h].step # "idle"
  /\ Finish(h)
  /\ UNCHANGED <<item, view, groups, minted, requests, history>>

-----------------------------------------------------------------------------
(* Users                                                                   *)

\* get_user_by_scim_id: what the index has, which may not be the item's.
Found(s) == {u \in User : view[u].there /\ view[u].scim = s}

\* The item a request replaced or updated was read as it is.
Fresh(h, u) == req[h].read.scim = item[u].scim

Pairs(u, gs) == {u} \X gs

\* A deletion of the group has listed its members and will remove it.
Going(g) ==
  \E h \in Handler : /\ req[h].step \in {"strip", "drop"}
                     /\ req[h].body.group = g

\* Those of the groups a membership would outlive.
Leaving(gs) == {g \in gs : g \notin groups \/ Going(g)}

\* bool(active) of put_user: a text that is not empty is true.
Truthy(v) == IF v = "no" THEN "no" ELSE "yes"
\* _as_bool of PATCH: a text is true when it says so.
AsBool(v) == IF v = "yes" THEN "yes" ELSE "no"

\* POST /Users: put_user replaces whatever item there is, under a new scimId.
CreateUser(h, s) ==
  LET r == req[h].body
      u == r.user
  IN
  /\ req[h].step = "write" /\ r.kind = "createUser" /\ s \notin minted
  /\ minted' = minted \cup {s}
  /\ item' = [item EXCEPT ![u] = [there |-> TRUE, scim |-> s,
                                  active |-> Truthy(r.active),
                                  groups |-> r.groups]]
  /\ meant' = [meant EXCEPT ![u] = r.active]
  /\ told' = (told \ Pairs(u, Group)) \cup Pairs(u, r.groups)
  /\ lost' = lost \ Pairs(u, Group)
  /\ late' = late \cup Pairs(u, Leaving(r.groups))
  /\ blind' = blind \ {u}
  /\ Finish(h)
  /\ UNCHANGED <<view, groups, requests>>

\* The lookup of PUT, PATCH and DELETE /Users/{id}; 404 when nothing is found.
FindUser(h) ==
  /\ req[h].step = "find"
  /\ LET found == Found(req[h].body.scim) IN
       \/ /\ found = {} /\ Finish(h)
       \/ \E u \in found :
            req' = [req EXCEPT ![h].step = "write", ![h].user = u,
                               ![h].read = Lookup(view[u])]
  /\ UNCHANGED <<item, view, groups, minted, requests, history>>

\* Mutant of Active: a body without active activates.
ActiveByDefault(h) ==
  IF req[h].body.active = None THEN "yes" ELSE req[h].body.active
\* body.get('active', existing.get('active', True)), before its bool()
Active(h) ==
  IF req[h].body.active # None THEN req[h].body.active
  ELSE IF req[h].read.active # None THEN req[h].read.active
  ELSE "yes"

\* PUT: the item is rebuilt, its groups from the body alone.
ReplaceUser(h) ==
  LET r     == req[h].body
      u     == req[h].user
      given == IF r.kind = "replaceUser" THEN r.groups ELSE {}
  IN
  /\ req[h].step = "write" /\ r.kind \in {"replaceUser", "replaceSome"}
  /\ item' = [item EXCEPT ![u] = [there |-> TRUE, scim |-> r.scim,
                                  active |-> Truthy(Active(h)),
                                  groups |-> given]]
  /\ meant' = [meant EXCEPT ![u] = IF r.active = None THEN @ ELSE r.active]
  /\ IF r.kind = "replaceSome"
       THEN told' = told /\ lost' = lost \cup Pairs(u, Group)
       ELSE told' = (told \ Pairs(u, Group)) \cup Pairs(u, given)
            /\ lost' = lost \ Pairs(u, Group)
  /\ late' = late \cup Pairs(u, Leaving(given))
  /\ blind' = IF Fresh(h, u) /\ (r.active # None
                                 \/ req[h].read.active = item[u].active)
                THEN blind ELSE blind \cup {u}
  /\ Finish(h)
  /\ UNCHANGED <<view, groups, minted, requests>>

\* Mutant of SetActive: the item is rebuilt, as a PUT does.
SetActiveByPut(h) ==
  LET r == req[h].body
      u == req[h].user
  IN
  /\ req[h].step = "write" /\ r.kind = "setActive"
  /\ item' = [item EXCEPT ![u] = [there |-> TRUE, scim |-> r.scim,
                                  active |-> AsBool(r.active), groups |-> {}]]
  /\ meant' = [meant EXCEPT ![u] = AsBool(r.active)]
  /\ blind' = IF Fresh(h, u) THEN blind ELSE blind \cup {u}
  /\ Finish(h)
  /\ UNCHANGED <<view, groups, minted, requests, told, lost, late>>
\* PATCH replace active.
SetActive(h) ==
  LET r == req[h].body
      u == req[h].user
  IN
  /\ req[h].step = "write" /\ r.kind = "setActive"
  /\ item' = [item EXCEPT ![u].there = TRUE, ![u].active = AsBool(r.active)]
  /\ meant' = [meant EXCEPT ![u] = AsBool(r.active)]
  /\ blind' = IF Fresh(h, u) THEN blind ELSE blind \cup {u}
  /\ Finish(h)
  /\ UNCHANGED <<view, groups, minted, requests, told, lost, late>>

\* DELETE, by the key of the item that was found.
DeleteUser(h) ==
  LET u == req[h].user IN
  /\ req[h].step = "write" /\ req[h].body.kind = "deleteUser"
  /\ item' = [item EXCEPT ![u] = Absent]
  /\ meant' = [meant EXCEPT ![u] = "gone"]
  /\ told' = told \ Pairs(u, Group) /\ lost' = lost \ Pairs(u, Group)
  /\ late' = late \ Pairs(u, Group)
  /\ blind' = IF Fresh(h, u) THEN blind \ {u} ELSE blind \cup {u}
  /\ Finish(h)
  /\ UNCHANGED <<view, groups, minted, requests>>

-----------------------------------------------------------------------------
(* Groups                                                                  *)

\* Members one after the other, in any order; the answer when none is left.
NextMember(h, todo) ==
  IF todo = {} THEN Finish(h)
  ELSE req' = [req EXCEPT ![h] = [Idle EXCEPT !.step = "resolve",
                                              !.body = req[h].body,
                                              !.todo = todo]]

\* POST /Groups: put_group.
CreateGroup(h) ==
  /\ req[h].step = "group"
  /\ groups' = groups \cup {req[h].body.group}
  /\ NextMember(h, req[h].body.members)
  /\ UNCHANGED <<item, view, minted, requests, history>>

\* get_group of PATCH and DELETE; 404 when there is none.
CheckGroup(h) ==
  LET r == req[h].body IN
  /\ req[h].step = "check"
  /\ IF r.group \notin groups THEN Finish(h)
     ELSE IF r.kind = "deleteGroup"
       THEN req' = [req EXCEPT ![h].step = "scan"]
       ELSE NextMember(h, r.members)
  /\ UNCHANGED <<item, view, groups, minted, requests, history>>

\* get_user_by_scim_id of add_member and remove_member.  A member that is not
\* found is passed over, and the request answers as if it had been.
ResolveMember(h, s) ==
  LET r     == req[h].body
      found == Found(s)
      owner == {u \in User : item[u].there /\ item[u].scim = s}
  IN
  /\ req[h].step = "resolve" /\ s \in req[h].todo
  /\ \/ /\ found = {}
        /\ NextMember(h, req[h].todo \ {s})
        /\ lost' = lost \cup (owner \X {r.group})
        /\ told' = IF r.kind = "removeMembers"
                     THEN told \ (owner \X {r.group})
                     ELSE told \cup (owner \X {r.group})
     \/ /\ \E u \in found :
             req' = [req EXCEPT ![h].step = "member", ![h].user = u,
                                ![h].read = Lookup(view[u]),
                                ![h].todo = @ \ {s}]
        /\ UNCHANGED <<told, lost>>
  /\ UNCHANGED <<item, view, groups, minted, requests, meant, blind, late>>

\* update_item of the user with ADD or DELETE groupIds.
WriteMember(h) ==
  LET r      == req[h].body
      u      == req[h].user
      pair   == {<<u, r.group>>}
      adding == r.kind # "removeMembers"
  IN
  /\ req[h].step = "member"
  /\ item' = [item EXCEPT ![u].there = TRUE,
                          ![u].groups = IF adding THEN @ \cup {r.group}
                                        ELSE @ \ {r.group}]
  /\ told' = (IF adding THEN told \cup pair ELSE told \ pair)
  /\ lost' = lost \ pair
  /\ late' = IF adding THEN late \cup Pairs(u, Leaving({r.group}))
             ELSE late \ pair
  /\ blind' = IF Fresh(h, u) THEN blind ELSE blind \cup {u}
  /\ NextMember(h, req[h].todo)
  /\ UNCHANGED <<view, groups, minted, requests, meant>>

\* delete_group: the scan for the members.
ScanMembers(h) ==
  LET g       == req[h].body.group
      members == {u \in User : item[u].there /\ g \in item[u].groups}
  IN
  /\ req[h].step = "scan"
  /\ req' = [req EXCEPT ![h].todo = members,
                        ![h].step = IF members = {} THEN "drop" ELSE "strip"]
  /\ UNCHANGED <<item, view, groups, minted, requests, history>>

\* Mutant of StripMember: the loop stops after its first member.
StripFirst(h, u) ==
  LET g == req[h].body.group IN
  /\ req[h].step = "strip" /\ u \in req[h].todo
  /\ item' = [item EXCEPT ![u].there = TRUE, ![u].groups = @ \ {g}]
  /\ told' = told \ {<<u, g>>} /\ lost' = lost \ {<<u, g>>}
  /\ late' = late \ {<<u, g>>}
  /\ blind' = IF item[u].there THEN blind ELSE blind \cup {u}
  /\ req' = [req EXCEPT ![h].step = "drop"]
  /\ UNCHANGED <<view, groups, minted, requests, meant>>
\* One member is rid of the group, by update_item again.
StripMember(h, u) ==
  LET g    == req[h].body.group
      rest == req[h].todo \ {u}
  IN
  /\ req[h].step = "strip" /\ u \in req[h].todo
  /\ item' = [item EXCEPT ![u].there = TRUE, ![u].groups = @ \ {g}]
  /\ told' = told \ {<<u, g>>} /\ lost' = lost \ {<<u, g>>}
  /\ late' = late \ {<<u, g>>}
  /\ blind' = IF item[u].there THEN blind ELSE blind \cup {u}
  /\ req' = [req EXCEPT ![h].todo = rest,
                        ![h].step = IF rest = {} THEN "drop" ELSE "strip"]
  /\ UNCHANGED <<view, groups, minted, requests, meant>>

DropGroup(h) ==
  /\ req[h].step = "drop"
  /\ groups' = groups \ {req[h].body.group}
  /\ Finish(h)
  /\ UNCHANGED <<item, view, minted, requests, history>>

-----------------------------------------------------------------------------
\* DynamoDB brings the index up to the table.
Propagate(u) ==
  /\ view[u] # item[u]
  /\ view' = [view EXCEPT ![u] = item[u]]
  /\ UNCHANGED <<item, groups, minted, req, requests, history>>

Init ==
  /\ item = [u \in User |-> Absent] /\ view = item
  /\ groups = {} /\ minted = {}
  /\ req = [h \in Handler |-> Idle] /\ requests = 0
  /\ meant = [u \in User |-> "gone"]
  /\ told = {} /\ blind = {} /\ lost = {} /\ late = {}

Serve(h) ==
  \/ \E r \in Request : Arrive(h, r)
  \/ \E s \in ScimId : CreateUser(h, s) \/ ResolveMember(h, s)
  \/ FindUser(h) \/ ReplaceUser(h) \/ SetActive(h) \/ DeleteUser(h)
  \/ CreateGroup(h) \/ CheckGroup(h) \/ WriteMember(h)
  \/ ScanMembers(h) \/ DropGroup(h) \/ Fail(h)
  \/ \E u \in User : StripMember(h, u)

Next ==
  \/ \E h \in Handler : Serve(h)
  \/ \E u \in User : Propagate(u)

Spec == Init /\ [][Next]_vars

-----------------------------------------------------------------------------
\* What GetItem tells a consumer of the status of a user.
Status(u) == IF item[u].there THEN item[u].active ELSE "gone"

\* The status of a user in the directory is the one the identity provider
\* asked for last, in the order of the writes.  A user who was deactivated is
\* active again, or one who was deleted is back, only if a request wrote from
\* a read the index or another request had made out of date, the lookups of
\* store.py and the upserts behind them, or a POST or PUT put the status in a
\* text, which put_user takes for true.
StatusAsMeant ==
  \A u \in User : u \in blind \/ meant[u] \in {Status(u), "word"}

\* The groups copied into a user are the memberships asked for, except where
\* the index did not show the user yet, a PUT left the groups out (put_user
\* rebuilds the item), or the user was written from an outdated read.
MembershipAsTold ==
  \A u \in User, g \in Group :
    \/ u \in blind \/ <<u, g>> \in lost
    \/ g \in item[u].groups <=> <<u, g>> \in told

\* A user names a group that does not exist only if the membership was
\* written when the group did not exist, which no request on a user checks,
\* or after its deletion had listed the members: all others are stripped.
DanglingExplained ==
  \A u \in User : \A g \in item[u].groups \ groups : <<u, g>> \in late
=============================================================================
