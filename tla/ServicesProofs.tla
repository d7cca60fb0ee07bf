---------------------------- MODULE ServicesProofs ----------------------------
(***************************************************************************)
(* What the services promise for any number of users, groups, roles,       *)
(* principals, sessions, invocations and requests.  SCIM: status and       *)
(* memberships in the table are those asked for, and no deleted group is   *)
(* named.  Roles: no assignment outlives its role, and no role loses its   *)
(* name.  Sign-in page: sessions can be found, and a logout ends renewal.  *)
(* Each except for the listed reasons.                                     *)
(***************************************************************************)
EXTENDS Services, TLAPS

UserKinds  == {"replaceUser", "replaceSome", "setActive", "deleteUser"}
GroupKinds == {"createGroup", "addMembers", "removeMembers"}

\* An item with a scimId is one put_user has written, and an item that is not
\* there is empty; the index holds items as they were.
Complete(i) ==
  /\ i.scim # None => i.there /\ i.active # None
  /\ ~i.there => i.scim = None /\ i.active = None /\ i.groups = {}
Items == \A u \in User : Complete(item[u]) /\ Complete(view[u])

\* What an invocation has in hand at each step.
Shaped(q) ==
  /\ q.step = "write" => q.body.kind \in UserKinds \cup {"createUser"}
  /\ q.step = "find"  => q.body.kind \in UserKinds
  /\ q.step = "group" => q.body.kind = "createGroup"
  /\ q.step = "check" => q.body.kind \in {"addMembers", "removeMembers",
                                          "deleteGroup"}
  /\ q.step \in {"resolve", "member"} => q.body.kind \in GroupKinds
  /\ q.step \in {"scan", "strip", "drop"} => q.body.kind = "deleteGroup"
  /\ q.step = "strip" => q.todo \subseteq User
  /\ (q.step = "member" \/ (q.step = "write" /\ q.body.kind \in UserKinds))
       => /\ q.user \in User /\ q.read.scim # None /\ q.read.active # None
          /\ q.step = "write" => q.body.scim = q.read.scim
Shape == \A h \in Handler : Shaped(req[h])

\* A deletion that has listed the members has yet to strip those who carry
\* the group, but for the memberships that came after.
Removing(h) ==
  req[h].step \in {"strip", "drop"} =>
    \A u \in User : req[h].body.group \in item[u].groups =>
      \/ <<u, req[h].body.group>> \in late
      \/ req[h].step = "strip" /\ u \in req[h].todo
Removal == \A h \in Handler : Removing(h)

Base == TypeOK /\ Items /\ Shape

-----------------------------------------------------------------------------
(* Requests, by kind                                                       *)

\* What the body of each kind of request carries.
LEMMA Bodies ==
  ASSUME NEW r \in Request
  PROVE  /\ r.kind = "createUser" =>
              r.user \in User /\ r.active \in Value
              /\ r.groups \in SUBSET Group
         /\ r.kind = "replaceUser" =>
              r.scim \in ScimId /\ r.active \in Value \cup {None}
              /\ r.groups \in SUBSET Group
         /\ r.kind = "replaceSome" =>
              r.scim \in ScimId /\ r.active \in Value \cup {None}
         /\ r.kind = "setActive" =>
              r.scim \in ScimId /\ r.active \in Value
         /\ r.kind = "deleteUser" => r.scim \in ScimId
         /\ r.kind \in GroupKinds =>
              r.group \in Group /\ r.members \in SUBSET ScimId
         /\ r.kind = "deleteGroup" => r.group \in Group
         /\ r.kind \in UserKinds \cup GroupKinds
                       \cup {"createUser", "deleteGroup"}
  BY DEF Request, UserKinds, GroupKinds, Value

\* put_user and set_user_active store one of two statuses.
LEMMA Converted ==
  \A v : /\ Truthy(v) \in {"yes", "no"} /\ AsBool(v) \in {"yes", "no"}
         /\ v \in {"yes", "no"} => Truthy(v) = v
         /\ v \in Value => Truthy(v) = v \/ v = "word"
         /\ AsBool(v) \in Value
  BY DEF Truthy, AsBool, Value

\* No request is the absence of one.
LEMMA Bodied ==
  ASSUME TypeOK, NEW h \in Handler, req[h].step # "idle"
  PROVE  req[h].body \in Request /\ req[h] \in Invocation
  BY DEF TypeOK, Invocation

\* The two ways an invocation goes on through its members.
LEMMA Members ==
  ASSUME TypeOK, NEW h \in Handler, NEW todo \in SUBSET (User \cup ScimId),
         req[h].step # "idle", NextMember(h, todo)
  PROVE  /\ req' \in [Handler -> Invocation]
         /\ \A k \in Handler \ {h} : req'[k] = req[k]
         /\ \/ req'[h] = Idle
            \/ /\ req'[h].step = "resolve" /\ req'[h].body = req[h].body
               /\ req'[h].body # None
  <1>1. req[h].body \in Request /\ req[h].body # None
    BY Bodied DEF TypeOK
  <1>2. Idle \in Invocation
    BY DEF Idle, Invocation, Step, Absent, Lookup, Read
  <1>3. CASE todo = {}
    BY <1>2, <1>3 DEF NextMember, Finish, TypeOK
  <1>4. CASE todo # {}
    <2> DEFINE new == [Idle EXCEPT !.step = "resolve", !.body = req[h].body,
                                   !.todo = todo]
    <2>1. req' = [req EXCEPT ![h] = new]
      BY <1>4 DEF NextMember
    <2>2. new \in Invocation /\ new.step = "resolve" /\ new.body = req[h].body
      BY <1>1, <1>2 DEF Invocation, Idle, Step
    <2> QED
      BY <1>1, <2>1, <2>2 DEF TypeOK
  <1> QED
    BY <1>3, <1>4

LEMMA IdleInvocation == Idle \in Invocation /\ Idle.step = "idle" /\ Idle.body = None
  BY DEF Idle, Invocation, Step, Absent, Lookup, Read

\* A request that is answered leaves its invocation idle.
LEMMA Answered ==
  ASSUME TypeOK, NEW h \in Handler, Finish(h)
  PROVE  /\ req' \in [Handler -> Invocation]
         /\ \A k \in Handler \ {h} : req'[k] = req[k]
         /\ req'[h] = Idle
         /\ \A k \in Handler : (req'[k].step = "idle") = (req'[k].body = None)
  BY IdleInvocation DEF Finish, TypeOK

\* An invocation that goes on keeps its request.
LEMMA Continued ==
  ASSUME TypeOK, NEW h \in Handler, NEW q \in Invocation,
         req' = [req EXCEPT ![h] = q], q.step # "idle", q.body # None
  PROVE  /\ req' \in [Handler -> Invocation]
         /\ \A k \in Handler \ {h} : req'[k] = req[k]
         /\ req'[h] = q
         /\ \A k \in Handler : (req'[k].step = "idle") = (req'[k].body = None)
  BY DEF TypeOK

-----------------------------------------------------------------------------
(* Types and shapes                                                        *)

LEMMA TypeInit == Init => Base
  <1> SUFFICES ASSUME Init PROVE Base
    OBVIOUS
  <1>1. Absent \in Item /\ Complete(Absent)
    BY DEF Absent, Item, Complete
  <1>2. TypeOK
    BY <1>1, IdleInvocation, NoneAssumption DEF Init, TypeOK
  <1>3. Items
    BY <1>1 DEF Init, Items
  <1>4. Shape
    BY IdleInvocation DEF Init, Shape, Shaped
  <1> QED
    BY <1>2, <1>3, <1>4 DEF Base

\* A request that comes in.
LEMMA Opening ==
  ASSUME NEW h \in Handler, NEW r \in Request, Arrive(h, r), TypeOK
  PROVE  /\ req' \in [Handler -> Invocation]
         /\ \A k \in Handler \ {h} : req'[k] = req[k]
         /\ req'[h].step = FirstStep(r) /\ req'[h].body = r
         /\ \A k \in Handler : (req'[k].step = "idle") = (req'[k].body = None)
  <1> DEFINE q == [Idle EXCEPT !.step = FirstStep(r), !.body = r]
  <1>1. r # None
    BY NoneAssumption
  <1>2. FirstStep(r) \in Step /\ FirstStep(r) # "idle"
    BY Bodies DEF FirstStep, Step, UserKinds, GroupKinds
  <1>3. q \in Invocation /\ q.step = FirstStep(r) /\ q.body = r
    BY <1>2 DEF Idle, Invocation, Absent, Lookup, Read
  <1>4. req' = [req EXCEPT ![h] = q]
    BY DEF Arrive
  <1> QED
    BY <1>1, <1>2, <1>3, <1>4, Continued

\* The index is brought up to date, or an item is written whole.
LEMMA ItemsKept ==
  ASSUME Items, NEW u \in User, NEW i \in Item, Complete(i), TypeOK,
         item' = [item EXCEPT ![u] = i], UNCHANGED view
  PROVE  Items' /\ item' \in [User -> Item]
  BY DEF Items, TypeOK

LEMMA ItemsSame == Items /\ UNCHANGED <<item, view>> => Items'
  BY DEF Items

\* A step of one invocation keeps the shape of the others.
LEMMA ShapeKept ==
  ASSUME Shape, NEW h \in Handler, Shaped(req'[h]),
         \A k \in Handler \ {h} : req'[k] = req[k]
  PROVE  Shape'
  BY DEF Shape

LEMMA ShapedIdle == Shaped(Idle)
  BY IdleInvocation DEF Shaped

LEMMA ArriveBase ==
  ASSUME Base, NEW h \in Handler, NEW r \in Request, Arrive(h, r)
  PROVE  Base'
  <1> USE DEF Base
  <1>1. TypeOK'
    <2>1. requests' \in 0..MaxRequests
      BY NoneAssumption DEF Arrive, TypeOK
    <2>2. UNCHANGED <<item, view, groups, minted, meant, told, blind, lost,
                      late>>
      BY DEF Arrive, history
    <2>3. /\ req' \in [Handler -> Invocation]
          /\ \A k \in Handler : (req'[k].step = "idle") = (req'[k].body = None)
      BY Opening
    <2> QED
      BY <2>1, <2>2, <2>3 DEF TypeOK
  <1>2. Items'
    BY ItemsSame DEF Arrive
  <1>3. Shaped(req'[h])
    BY Opening, Bodies DEF Shaped, FirstStep, UserKinds, GroupKinds
  <1> QED
    BY <1>1, <1>2, <1>3, Opening, ShapeKept

\* Steps that only move an invocation on.
LEMMA MoveType ==
  ASSUME TypeOK,
         UNCHANGED <<item, view, groups, minted, requests, history>>,
         req' \in [Handler -> Invocation],
         \A k \in Handler : (req'[k].step = "idle") = (req'[k].body = None)
  PROVE  TypeOK'
  BY DEF TypeOK, history

LEMMA MoveBase ==
  ASSUME Base, NEW h \in Handler,
         UNCHANGED <<item, view, groups, minted, requests, history>>,
         \/ Finish(h)
         \/ \E q \in Invocation :
              /\ req' = [req EXCEPT ![h] = q]
              /\ q.step # "idle" /\ q.body # None /\ Shaped(q)
  PROVE  Base'
  <1> USE DEF Base
  <1>1. CASE Finish(h)
    BY <1>1, Answered, MoveType, ItemsSame, ShapedIdle, ShapeKept
  <1>2. CASE \E q \in Invocation :
               /\ req' = [req EXCEPT ![h] = q]
               /\ q.step # "idle" /\ q.body # None /\ Shaped(q)
    <2> PICK q \in Invocation : /\ req' = [req EXCEPT ![h] = q]
                                /\ q.step # "idle" /\ q.body # None /\ Shaped(q)
      BY <1>2
    <2>1. /\ req' \in [Handler -> Invocation]
          /\ \A k \in Handler \ {h} : req'[k] = req[k]
          /\ req'[h] = q
          /\ \A k \in Handler : (req'[k].step = "idle") = (req'[k].body = None)
      BY Continued
    <2> QED
      BY <2>1, MoveType, ItemsSame, ShapeKept
  <1> QED
    BY <1>1, <1>2

\* Steps that go on through the members without writing a user.
LEMMA NextMemberBase ==
  ASSUME Base, NEW h \in Handler, NEW todo \in SUBSET (User \cup ScimId),
         req[h].step # "idle", req[h].body.kind \in GroupKinds,
         NextMember(h, todo)
  PROVE  /\ req' \in [Handler -> Invocation]
         /\ \A k \in Handler : (req'[k].step = "idle") = (req'[k].body = None)
         /\ Shape'
  <1> USE DEF Base
  <1>1. /\ req' \in [Handler -> Invocation]
        /\ \A k \in Handler \ {h} : req'[k] = req[k]
        /\ \/ req'[h] = Idle
           \/ /\ req'[h].step = "resolve" /\ req'[h].body = req[h].body
              /\ req'[h].body # None
    BY Members
  <1>2. \A k \in Handler : (req'[k].step = "idle") = (req'[k].body = None)
    BY <1>1, IdleInvocation DEF TypeOK
  <1>3. Shaped(req'[h])
    BY <1>1, ShapedIdle DEF Shaped
  <1> QED
    BY <1>1, <1>2, <1>3, ShapeKept

LEMMA FailBase ==
  ASSUME Base, NEW h \in Handler, Fail(h)
  PROVE  Base'
  BY MoveBase DEF Fail

LEMMA FindUserBase ==
  ASSUME Base, NEW h \in Handler, FindUser(h)
  PROVE  Base'
  <1> USE DEF Base
  <1>1. CASE Finish(h)
    BY <1>1, MoveBase DEF FindUser
  <1>2. CASE ~Finish(h)
    <2>1. PICK u \in Found(req[h].body.scim) :
            req' = [req EXCEPT ![h].step = "write", ![h].user = u,
                               ![h].read = Lookup(view[u])]
      BY <1>2 DEF FindUser
    <2> DEFINE q == [[[req[h] EXCEPT !.step = "write"] EXCEPT !.user = u]
                       EXCEPT !.read = Lookup(view[u])]
    <2>2. /\ req[h] \in Invocation /\ req[h].body \in Request
          /\ req[h].body.kind \in UserKinds /\ req[h].body # None
      BY Bodied DEF FindUser, Shape, Shaped, TypeOK
    <2>3. /\ u \in User /\ view[u] \in Item /\ Complete(view[u])
          /\ view[u].scim = req[h].body.scim
      BY <2>1 DEF Found, TypeOK, Items
    <2>8. /\ Lookup(view[u]) \in Read /\ Lookup(view[u]).scim = view[u].scim
          /\ view[u].scim # None => Lookup(view[u]).active # None
      BY <2>3 DEF Lookup, Read, Item, Complete
    <2>4. req[h].body.scim \in ScimId
      BY <2>2, Bodies DEF UserKinds
    <2>5. q \in Invocation /\ q.step = "write" /\ q.body = req[h].body
          /\ q.user = u /\ q.read = Lookup(view[u])
      BY <2>2, <2>3, <2>8 DEF Invocation, Step
    <2>6. Shaped(q)
      BY <2>2, <2>3, <2>4, <2>5, <2>8, NoneAssumption DEF Shaped, UserKinds
    <2>7. req' = [req EXCEPT ![h] = q]
      BY <2>1 DEF TypeOK
    <2> QED
      BY <2>2, <2>5, <2>6, <2>7, MoveBase DEF FindUser
  <1> QED
    BY <1>1, <1>2

LEMMA CheckGroupBase ==
  ASSUME Base, NEW h \in Handler, CheckGroup(h)
  PROVE  Base'
  <1> USE DEF Base
  <1>1. /\ req[h] \in Invocation /\ req[h].body \in Request
        /\ req[h].body # None /\ req[h].step # "idle"
        /\ req[h].body.kind \in {"addMembers", "removeMembers", "deleteGroup"}
    BY Bodied DEF CheckGroup, Shape, Shaped, TypeOK
  <1>2. CASE Finish(h)
    BY <1>2, MoveBase DEF CheckGroup
  <1>3. CASE req' = [req EXCEPT ![h].step = "scan"]
             /\ req[h].body.kind = "deleteGroup"
    <2> DEFINE q == [req[h] EXCEPT !.step = "scan"]
    <2>1. q \in Invocation /\ q.step = "scan" /\ q.body = req[h].body
      BY <1>1 DEF Invocation, Step
    <2>2. Shaped(q)
      BY <1>3, <2>1 DEF Shaped
    <2>3. req' = [req EXCEPT ![h] = q]
      BY <1>3 DEF TypeOK
    <2> QED
      BY <1>1, <2>1, <2>2, <2>3, MoveBase DEF CheckGroup
  <1>4. CASE NextMember(h, req[h].body.members)
             /\ req[h].body.kind # "deleteGroup"
    <2>1. req[h].body.kind \in GroupKinds /\ req[h].body.members \in SUBSET ScimId
      BY <1>1, <1>4, Bodies DEF GroupKinds
    <2>2. /\ req' \in [Handler -> Invocation]
          /\ \A k \in Handler : (req'[k].step = "idle") = (req'[k].body = None)
          /\ Shape'
      BY <1>1, <1>4, <2>1, NextMemberBase
    <2>3. UNCHANGED <<item, view, groups, minted, requests, history>>
      BY DEF CheckGroup
    <2> QED
      BY <2>2, <2>3, MoveType, ItemsSame
  <1> QED
    BY <1>2, <1>3, <1>4 DEF CheckGroup

LEMMA ScanMembersBase ==
  ASSUME Base, NEW h \in Handler, ScanMembers(h)
  PROVE  Base'
  <1> USE DEF Base
  <1>1. /\ req[h] \in Invocation /\ req[h].body \in Request
        /\ req[h].body # None /\ req[h].body.kind = "deleteGroup"
    BY Bodied DEF ScanMembers, Shape, Shaped, TypeOK
  <1> DEFINE members == {u \in User : item[u].there
                                      /\ req[h].body.group \in item[u].groups}
             next    == IF members = {} THEN "drop" ELSE "strip"
             q       == [[req[h] EXCEPT !.todo = members] EXCEPT !.step = next]
  <1>2. q \in Invocation /\ q.step = next /\ q.body = req[h].body
        /\ q.todo = members
    BY <1>1 DEF Invocation, Step
  <1>3. Shaped(q)
    BY <1>1, <1>2 DEF Shaped
  <1>4. req' = [req EXCEPT ![h] = q]
    BY DEF ScanMembers, TypeOK
  <1>5. q.step # "idle" /\ q.body # None
    BY <1>1, <1>2
  <1>6. UNCHANGED <<item, view, groups, minted, requests, history>>
    BY DEF ScanMembers
  <1> HIDE DEF q
  <1> QED
    BY <1>2, <1>3, <1>4, <1>5, <1>6, MoveBase

\* Steps that write an item, and their histories.
LEMMA WriteBase ==
  ASSUME Base, NEW u \in User, NEW i \in Item, Complete(i),
         item' = [item EXCEPT ![u] = i],
         UNCHANGED <<view, groups, requests>>, minted' \subseteq ScimId,
         req' \in [Handler -> Invocation],
         \A k \in Handler : (req'[k].step = "idle") = (req'[k].body = None),
         Shape',
         meant' \in [User -> {"gone"} \cup Value],
         told' \subseteq User \X Group, blind' \subseteq User,
         lost' \subseteq User \X Group, late' \subseteq User \X Group
  PROVE  Base'
  <1>1. Items' /\ item' \in [User -> Item]
    BY ItemsKept DEF Base
  <1> QED
    BY <1>1 DEF Base, TypeOK

LEMMA FinishBase ==
  ASSUME Base, NEW h \in Handler, Finish(h)
  PROVE  /\ req' \in [Handler -> Invocation]
         /\ \A k \in Handler : (req'[k].step = "idle") = (req'[k].body = None)
         /\ Shape'
  BY Answered, ShapedIdle, ShapeKept DEF Base

LEMMA PairsType ==
  ASSUME NEW u \in User, NEW gs \in SUBSET Group
  PROVE  Pairs(u, gs) \subseteq User \X Group
         /\ Pairs(u, Leaving(gs)) \subseteq User \X Group
  BY DEF Pairs, Leaving

LEMMA CreateUserBase ==
  ASSUME Base, NEW h \in Handler, NEW s \in ScimId, CreateUser(h, s)
  PROVE  Base'
  <1> USE DEF Base
  <1> DEFINE r == req[h].body
             i == [there |-> TRUE, scim |-> s, active |-> Truthy(r.active),
                   groups |-> r.groups]
  <1>1. /\ r.user \in User /\ r.active \in Value
        /\ r.groups \in SUBSET Group
    BY Bodied, Bodies DEF CreateUser
  <1>2. i \in Item /\ Complete(i)
    BY <1>1, Converted, NoneAssumption DEF Item, Complete, Value
  <1>3. /\ req' \in [Handler -> Invocation]
        /\ \A k \in Handler : (req'[k].step = "idle") = (req'[k].body = None)
        /\ Shape'
    BY FinishBase DEF CreateUser
  <1>4. /\ told' \subseteq User \X Group /\ lost' \subseteq User \X Group
        /\ late' \subseteq User \X Group /\ blind' \subseteq User
    BY <1>1, PairsType DEF CreateUser, TypeOK
  <1>5. meant' \in [User -> {"gone"} \cup Value] /\ minted' \subseteq ScimId
    BY <1>1 DEF CreateUser, TypeOK
  <1>6. item' = [item EXCEPT ![r.user] = i] /\ UNCHANGED <<view, groups, requests>>
    BY DEF CreateUser
  <1> HIDE DEF i
  <1> QED
    BY <1>1, <1>2, <1>3, <1>4, <1>5, <1>6, WriteBase

\* A write of a user that was looked up.
LEMMA InHand ==
  ASSUME Base, NEW h \in Handler,
         \/ req[h].step = "member"
         \/ req[h].step = "write" /\ req[h].body.kind \in UserKinds
  PROVE  /\ req[h].body \in Request /\ req[h].user \in User
         /\ req[h].read \in Read /\ req[h].read.active # None
         /\ req[h].read.scim # None
         /\ req[h].step = "write" => req[h].body.scim = req[h].read.scim
         /\ req[h].step = "member" => req[h].body.kind \in GroupKinds
  <1>1. req[h].body \in Request /\ req[h] \in Invocation
    BY Bodied DEF Base
  <1>2. Shaped(req[h])
    BY DEF Base, Shape
  <1> QED
    BY <1>1, <1>2 DEF Shaped, Invocation

LEMMA ActiveType ==
  ASSUME Base, NEW h \in Handler, req[h].step = "write",
         req[h].body.kind \in {"replaceUser", "replaceSome"}
  PROVE  Active(h) \in Value
  <1>1. req[h].body \in Request /\ req[h].read \in Read
    BY InHand DEF UserKinds
  <1>2. req[h].body.active \in Value \cup {None}
    BY <1>1, Bodies
  <1>3. req[h].read.active \in {"yes", "no", None}
    BY <1>1 DEF Read
  <1> QED
    BY <1>2, <1>3 DEF Active, Value

LEMMA ReplaceUserBase ==
  ASSUME Base, NEW h \in Handler, ReplaceUser(h)
  PROVE  Base'
  <1> USE DEF Base
  <1> DEFINE r == req[h].body
             u == req[h].user
             given == IF r.kind = "replaceUser" THEN r.groups ELSE {}
             i == [there |-> TRUE, scim |-> r.scim, active |-> Truthy(Active(h)),
                   groups |-> given]
  <1>0. req[h].step = "write" /\ r.kind \in {"replaceUser", "replaceSome"}
    BY DEF ReplaceUser
  <1>1. /\ r \in Request /\ u \in User /\ r.scim \in ScimId
        /\ given \in SUBSET Group /\ r.active \in Value \cup {None}
    BY <1>0, InHand, Bodies DEF UserKinds
  <1>2. i \in Item /\ Complete(i)
    BY <1>0, <1>1, Converted, NoneAssumption DEF Item, Complete, Value
  <1>3. /\ req' \in [Handler -> Invocation]
        /\ \A k \in Handler : (req'[k].step = "idle") = (req'[k].body = None)
        /\ Shape'
    BY FinishBase DEF ReplaceUser
  <1>4. /\ told' \subseteq User \X Group /\ lost' \subseteq User \X Group
        /\ late' \subseteq User \X Group
    <2>1. /\ Pairs(u, given) \subseteq User \X Group
          /\ Pairs(u, Group) \subseteq User \X Group
          /\ Pairs(u, Leaving(given)) \subseteq User \X Group
      BY <1>1, PairsType
    <2> QED
      BY <2>1 DEF ReplaceUser, TypeOK
  <1>5. /\ meant' \in [User -> {"gone"} \cup Value] /\ minted' \subseteq ScimId
        /\ blind' \subseteq User
    BY <1>1 DEF ReplaceUser, TypeOK
  <1>6. item' = [item EXCEPT ![u] = i] /\ UNCHANGED <<view, groups, requests>>
    BY DEF ReplaceUser
  <1> HIDE DEF i
  <1> QED
    BY <1>1, <1>2, <1>3, <1>4, <1>5, <1>6, WriteBase

\* An upsert makes an item that is complete of one that was.
LEMMA Upserted ==
  ASSUME NEW i \in Item, Complete(i), NEW a \in {"yes", "no"},
         NEW gs \in SUBSET Group
  PROVE  /\ [[i EXCEPT !.there = TRUE] EXCEPT !.active = a] \in Item
         /\ Complete([[i EXCEPT !.there = TRUE] EXCEPT !.active = a])
         /\ [[i EXCEPT !.there = TRUE] EXCEPT !.groups = gs] \in Item
         /\ Complete([[i EXCEPT !.there = TRUE] EXCEPT !.groups = gs])
  BY NoneAssumption DEF Item, Complete, Value

LEMMA SetActiveBase ==
  ASSUME Base, NEW h \in Handler, SetActive(h)
  PROVE  Base'
  <1> USE DEF Base
  <1> DEFINE r == req[h].body
             u == req[h].user
             i == [[item[u] EXCEPT !.there = TRUE] EXCEPT !.active = AsBool(r.active)]
  <1>1. u \in User /\ AsBool(r.active) \in {"yes", "no"} /\ r.active \in Value
    BY InHand, Bodies, Converted DEF SetActive, UserKinds
  <1>2. i \in Item /\ Complete(i)
    <2>1. item[u] \in Item /\ Complete(item[u])
      BY <1>1 DEF TypeOK, Items
    <2>2. {} \in SUBSET Group
      OBVIOUS
    <2> QED
      BY <1>1, <2>1, <2>2, Upserted
  <1>3. /\ req' \in [Handler -> Invocation]
        /\ \A k \in Handler : (req'[k].step = "idle") = (req'[k].body = None)
        /\ Shape'
    BY FinishBase DEF SetActive
  <1>4. /\ told' \subseteq User \X Group /\ lost' \subseteq User \X Group
        /\ late' \subseteq User \X Group
        /\ meant' \in [User -> {"gone"} \cup Value] /\ minted' \subseteq ScimId
        /\ blind' \subseteq User
    BY <1>1, Converted DEF SetActive, TypeOK
  <1>5. item' = [item EXCEPT ![u] = i] /\ UNCHANGED <<view, groups, requests>>
    BY DEF SetActive, TypeOK
  <1> HIDE DEF i
  <1> QED
    BY <1>1, <1>2, <1>3, <1>4, <1>5, WriteBase

LEMMA DeleteUserBase ==
  ASSUME Base, NEW h \in Handler, DeleteUser(h)
  PROVE  Base'
  <1> USE DEF Base
  <1> DEFINE u == req[h].user
  <1>1. u \in User
    BY InHand DEF DeleteUser, UserKinds
  <1>2. Absent \in Item /\ Complete(Absent)
    BY DEF Absent, Item, Complete
  <1>3. /\ req' \in [Handler -> Invocation]
        /\ \A k \in Handler : (req'[k].step = "idle") = (req'[k].body = None)
        /\ Shape'
    BY FinishBase DEF DeleteUser
  <1>4. /\ told' \subseteq User \X Group /\ lost' \subseteq User \X Group
        /\ late' \subseteq User \X Group
        /\ meant' \in [User -> {"gone"} \cup Value] /\ minted' \subseteq ScimId
        /\ blind' \subseteq User
    BY <1>1 DEF DeleteUser, TypeOK
  <1>5. item' = [item EXCEPT ![u] = Absent] /\ UNCHANGED <<view, groups, requests>>
    BY DEF DeleteUser
  <1> QED
    BY <1>1, <1>2, <1>3, <1>4, <1>5, WriteBase

LEMMA CreateGroupBase ==
  ASSUME Base, NEW h \in Handler, CreateGroup(h)
  PROVE  Base'
  <1> USE DEF Base
  <1>1. /\ req[h].body \in Request /\ req[h].step # "idle"
        /\ req[h].body.kind = "createGroup"
    BY Bodied DEF CreateGroup, Shape, Shaped
  <1>2. req[h].body.group \in Group /\ req[h].body.members \in SUBSET ScimId
    BY <1>1, Bodies DEF GroupKinds
  <1>3. /\ req' \in [Handler -> Invocation]
        /\ \A k \in Handler : (req'[k].step = "idle") = (req'[k].body = None)
        /\ Shape'
    BY <1>1, <1>2, NextMemberBase DEF CreateGroup, GroupKinds
  <1>4. TypeOK'
    BY <1>2, <1>3 DEF CreateGroup, TypeOK, history
  <1> QED
    BY <1>3, <1>4, ItemsSame DEF CreateGroup

LEMMA DropGroupBase ==
  ASSUME Base, NEW h \in Handler, DropGroup(h)
  PROVE  Base'
  <1>1. /\ req' \in [Handler -> Invocation]
        /\ \A k \in Handler : (req'[k].step = "idle") = (req'[k].body = None)
        /\ Shape'
    BY FinishBase DEF DropGroup
  <1>2. TypeOK'
    BY <1>1 DEF DropGroup, Base, TypeOK, history
  <1> QED
    BY <1>1, <1>2, ItemsSame DEF DropGroup, Base

LEMMA ResolveMemberBase ==
  ASSUME Base, NEW h \in Handler, NEW s \in ScimId, ResolveMember(h, s)
  PROVE  Base'
  <1> USE DEF Base
  <1> DEFINE r == req[h].body
             owner == {u \in User : item[u].there /\ item[u].scim = s}
  <1>1. /\ req[h].step = "resolve" /\ r \in Request /\ r # None
        /\ req[h] \in Invocation /\ r.kind \in GroupKinds
    BY Bodied DEF ResolveMember, Shape, Shaped, TypeOK
  <1>2. r.group \in Group
    BY <1>1, Bodies
  <1>3. /\ req' \in [Handler -> Invocation]
        /\ \A k \in Handler : (req'[k].step = "idle") = (req'[k].body = None)
        /\ Shape'
    <2>1. CASE \E u \in Found(s) :
                 req' = [req EXCEPT ![h].step = "member", ![h].user = u,
                                    ![h].read = Lookup(view[u]), ![h].todo = @ \ {s}]
      <3>1. PICK u \in Found(s) :
                 req' = [req EXCEPT ![h].step = "member", ![h].user = u,
                                    ![h].read = Lookup(view[u]), ![h].todo = @ \ {s}]
        BY <2>1
      <3> DEFINE q == [[[[req[h] EXCEPT !.step = "member"] EXCEPT !.user = u]
                        EXCEPT !.read = Lookup(view[u])] EXCEPT !.todo = @ \ {s}]
      <3>2. /\ u \in User /\ view[u] \in Item /\ Complete(view[u])
            /\ view[u].scim # None
        BY <3>1, NoneAssumption DEF Found, TypeOK, Items
      <3>6. /\ Lookup(view[u]) \in Read /\ Lookup(view[u]).scim # None
            /\ Lookup(view[u]).active # None
        BY <3>2 DEF Lookup, Read, Item, Complete
      <3>3. q \in Invocation /\ q.step = "member" /\ q.body = r
            /\ q.user = u /\ q.read = Lookup(view[u])
        BY <1>1, <3>2, <3>6 DEF Invocation, Step
      <3>4. Shaped(q)
        BY <1>1, <3>2, <3>3, <3>6 DEF Shaped
      <3>5. req' = [req EXCEPT ![h] = q]
        BY <3>1 DEF TypeOK
      <3> HIDE DEF q
      <3> QED
        BY <1>1, <3>3, <3>4, <3>5, Continued, ShapeKept
    <2>2. CASE NextMember(h, req[h].todo \ {s}) /\ Found(s) = {}
      <3>1. req[h].todo \ {s} \in SUBSET (User \cup ScimId)
        BY <1>1 DEF Invocation
      <3> QED
        BY <1>1, <2>2, <3>1, NextMemberBase
    <2> QED
      BY <2>1, <2>2 DEF ResolveMember
  <1>4. owner \X {r.group} \subseteq User \X Group
    BY <1>2
  <1>5. told' \subseteq User \X Group /\ lost' \subseteq User \X Group
    BY <1>4 DEF ResolveMember, TypeOK
  <1>6. UNCHANGED <<item, view, groups, minted, requests, meant, blind, late>>
    BY DEF ResolveMember
  <1>7. TypeOK'
    BY <1>3, <1>5, <1>6 DEF TypeOK
  <1> QED
    BY <1>3, <1>6, <1>7, ItemsSame

LEMMA WriteMemberBase ==
  ASSUME Base, NEW h \in Handler, WriteMember(h)
  PROVE  Base'
  <1> USE DEF Base
  <1> DEFINE r    == req[h].body
             u    == req[h].user
             gs   == IF r.kind # "removeMembers" THEN item[u].groups \cup {r.group}
                     ELSE item[u].groups \ {r.group}
             i    == [[item[u] EXCEPT !.there = TRUE] EXCEPT !.groups = gs]
  <1>1. /\ u \in User /\ r.group \in Group /\ req[h].step # "idle"
        /\ r.kind \in GroupKinds /\ req[h].todo \in SUBSET (User \cup ScimId)
    BY InHand, Bodied, Bodies DEF WriteMember, Invocation
  <1>2. i \in Item /\ Complete(i)
    <2>1. item[u] \in Item /\ Complete(item[u])
      BY <1>1 DEF TypeOK, Items
    <2>2. gs \in SUBSET Group
      BY <1>1, <2>1 DEF Item
    <2> HIDE DEF gs
    <2> QED
      BY <2>1, <2>2, Upserted
  <1>3. /\ req' \in [Handler -> Invocation]
        /\ \A k \in Handler : (req'[k].step = "idle") = (req'[k].body = None)
        /\ Shape'
    BY <1>1, NextMemberBase DEF WriteMember
  <1>4. /\ told' \subseteq User \X Group /\ lost' \subseteq User \X Group
        /\ late' \subseteq User \X Group
    <2>1. /\ {<<u, r.group>>} \subseteq User \X Group
          /\ Pairs(u, Leaving({r.group})) \subseteq User \X Group
      BY <1>1, PairsType
    <2> QED
      BY <2>1 DEF WriteMember, TypeOK
  <1>5. /\ meant' \in [User -> {"gone"} \cup Value] /\ minted' \subseteq ScimId
        /\ blind' \subseteq User
    BY <1>1 DEF WriteMember, TypeOK
  <1>6. item' = [item EXCEPT ![u] = i] /\ UNCHANGED <<view, groups, requests>>
    BY <1>1 DEF WriteMember, TypeOK
  <1> HIDE DEF i
  <1> QED
    BY <1>1, <1>2, <1>3, <1>4, <1>5, <1>6, WriteBase

\* A deletion at work on its members.
LEMMA Stripping ==
  ASSUME Base, NEW h \in Handler, NEW u \in User, StripMember(h, u)
  PROVE  /\ req[h].body \in Request /\ req[h].body.group \in Group
         /\ req[h].body.kind = "deleteGroup" /\ req[h].todo \subseteq User
         /\ req' \in [Handler -> Invocation]
         /\ \A k \in Handler : (req'[k].step = "idle") = (req'[k].body = None)
         /\ Shape'
         /\ \A k \in Handler \ {h} : req'[k] = req[k]
         /\ req'[h].body = req[h].body /\ req'[h].todo = req[h].todo \ {u}
         /\ req'[h].step = IF req[h].todo \ {u} = {} THEN "drop" ELSE "strip"
  <1> USE DEF Base
  <1> DEFINE rest == req[h].todo \ {u}
             next == IF rest = {} THEN "drop" ELSE "strip"
             q    == [[req[h] EXCEPT !.todo = rest] EXCEPT !.step = next]
  <1>1. /\ req[h] \in Invocation /\ req[h].body \in Request
        /\ req[h].body # None /\ req[h].body.kind = "deleteGroup"
        /\ req[h].todo \subseteq User
    BY Bodied DEF StripMember, Shape, Shaped, TypeOK
  <1>2. q \in Invocation /\ q.step = next /\ q.body = req[h].body
        /\ q.todo = rest
    BY <1>1 DEF Invocation, Step
  <1>3. Shaped(q)
    BY <1>1, <1>2 DEF Shaped
  <1>4. req' = [req EXCEPT ![h] = q]
    BY DEF StripMember, TypeOK
  <1>5. q.step # "idle" /\ q.body # None
    BY <1>1, <1>2
  <1> HIDE DEF q
  <1>6. /\ req' \in [Handler -> Invocation]
        /\ \A k \in Handler : (req'[k].step = "idle") = (req'[k].body = None)
        /\ \A k \in Handler \ {h} : req'[k] = req[k]
        /\ req'[h] = q
    BY <1>2, <1>4, <1>5, Continued
  <1> QED
    BY <1>1, <1>2, <1>3, <1>6, Bodies, ShapeKept

LEMMA StripMemberBase ==
  ASSUME Base, NEW h \in Handler, NEW u \in User, StripMember(h, u)
  PROVE  Base'
  <1> USE DEF Base
  <1> DEFINE g  == req[h].body.group
             gs == item[u].groups \ {g}
             i  == [[item[u] EXCEPT !.there = TRUE] EXCEPT !.groups = gs]
  <1>1. /\ g \in Group /\ req' \in [Handler -> Invocation]
        /\ \A k \in Handler : (req'[k].step = "idle") = (req'[k].body = None)
        /\ Shape'
    BY Stripping
  <1>2. i \in Item /\ Complete(i)
    <2>1. item[u] \in Item /\ Complete(item[u])
      BY DEF TypeOK, Items
    <2>2. gs \in SUBSET Group
      BY <2>1 DEF Item
    <2> HIDE DEF gs
    <2> QED
      BY <2>1, <2>2, Upserted
  <1>3. /\ told' \subseteq User \X Group /\ lost' \subseteq User \X Group
        /\ late' \subseteq User \X Group
        /\ meant' \in [User -> {"gone"} \cup Value] /\ minted' \subseteq ScimId
        /\ blind' \subseteq User
    BY DEF StripMember, TypeOK
  <1>4. item' = [item EXCEPT ![u] = i] /\ UNCHANGED <<view, groups, requests>>
    BY DEF StripMember, TypeOK
  <1> HIDE DEF i
  <1> QED
    BY <1>1, <1>2, <1>3, <1>4, WriteBase

LEMMA PropagateBase ==
  ASSUME Base, NEW u \in User, Propagate(u)
  PROVE  Base'
  <1>1. TypeOK'
    BY DEF Propagate, Base, TypeOK, history
  <1>2. Items'
    BY DEF Propagate, Base, Items, TypeOK
  <1>3. Shape'
    BY DEF Propagate, Base, Shape
  <1> QED
    BY <1>1, <1>2, <1>3 DEF Base

LEMMA StutterBase == Base /\ UNCHANGED vars => Base'
  BY DEF Base, TypeOK, Items, Shape, vars, history

LEMMA BaseNext == Base /\ [Next]_vars => Base'
  <1> SUFFICES ASSUME Base, [Next]_vars PROVE Base'
    OBVIOUS
  <1>1. ASSUME NEW h \in Handler, Serve(h) PROVE Base'
    BY <1>1, ArriveBase, CreateUserBase, ResolveMemberBase, FindUserBase,
       ReplaceUserBase, SetActiveBase, DeleteUserBase, CreateGroupBase,
       CheckGroupBase, WriteMemberBase, ScanMembersBase, DropGroupBase,
       FailBase, StripMemberBase DEF Serve
  <1> QED
    BY <1>1, PropagateBase, StutterBase DEF Next

\* The base holds throughout.
LEMMA BaseAlways == Spec => []Base
  BY TypeInit, BaseNext, PTL DEF Spec

\* Every variable keeps its type, for all users, groups and invocations.
THEOREM TypeCorrect == Spec => []TypeOK
  BY BaseAlways, PTL DEF Base

-----------------------------------------------------------------------------
(* Status                                                                  *)

\* An item as it was read is there, and has a status.
LEMMA FreshThere ==
  ASSUME Base, NEW h \in Handler, Fresh(h, req[h].user),
         \/ req[h].step = "member"
         \/ req[h].step = "write" /\ req[h].body.kind \in UserKinds
  PROVE  /\ item[req[h].user].there /\ item[req[h].user].active # None
         /\ req[h].read.active # None
  <1>1. /\ req[h].user \in User /\ req[h].read.scim # None
        /\ req[h].read.active # None
    BY InHand
  <1>2. Complete(item[req[h].user])
    BY <1>1 DEF Base, Items
  <1> QED
    BY <1>1, <1>2 DEF Fresh, Complete

\* A step that writes one user leaves the status of the others.
LEMMA StatusOfOne ==
  ASSUME Base, StatusAsMeant, NEW u \in User, NEW i, NEW m,
         item' = [item EXCEPT ![u] = i], meant' = [meant EXCEPT ![u] = m],
         \A v \in User \ {u} : v \in blind => v \in blind',
         u \in blind' \/ m \in {IF i.there THEN i.active ELSE "gone", "word"}
  PROVE  StatusAsMeant'
  <1> SUFFICES ASSUME NEW v \in User
               PROVE  v \in blind' \/ meant'[v] \in {Status(v)', "word"}
    BY DEF StatusAsMeant
  <1>1. CASE v = u
    BY <1>1 DEF Status, Base, TypeOK
  <1>2. CASE v # u
    BY <1>2 DEF Status, StatusAsMeant, Base, TypeOK
  <1> QED
    BY <1>1, <1>2

LEMMA StatusNext ==
  ASSUME Base, StatusAsMeant, [Next]_vars
  PROVE  StatusAsMeant'
  <1>1. CASE UNCHANGED <<item, meant, blind>>
    BY <1>1 DEF StatusAsMeant, Status
  <1>2. ASSUME NEW h \in Handler, NEW s \in ScimId, CreateUser(h, s)
        PROVE  StatusAsMeant'
    <2> DEFINE r == req[h].body
               i == [there |-> TRUE, scim |-> s, active |-> Truthy(r.active),
                     groups |-> r.groups]
    <2>1. r.user \in User /\ r.active \in Value
      BY <1>2, Bodied, Bodies DEF CreateUser, Base
    <2>2. i.there /\ r.active \in {i.active, "word"}
      BY <2>1, Converted
    <2>3. item' = [item EXCEPT ![r.user] = i]
          /\ meant' = [meant EXCEPT ![r.user] = r.active]
          /\ blind' = blind \ {r.user}
      BY <1>2 DEF CreateUser
    <2> HIDE DEF i
    <2> QED
      BY <2>1, <2>2, <2>3, StatusOfOne
  <1>3. ASSUME NEW h \in Handler, ReplaceUser(h)
        PROVE  StatusAsMeant'
    <2> DEFINE r == req[h].body
               u == req[h].user
               given == IF r.kind = "replaceUser" THEN r.groups ELSE {}
               m == IF r.active = None THEN meant[u] ELSE r.active
               i == [there |-> TRUE, scim |-> r.scim, active |-> Truthy(Active(h)),
                     groups |-> given]
    <2>0. /\ req[h].step = "write" /\ r.kind \in UserKinds
          /\ r.kind \in {"replaceUser", "replaceSome"}
      BY <1>3 DEF ReplaceUser, UserKinds
    <2>1. u \in User
      BY <2>0, InHand
    <2>2. i.there /\ i.active = Truthy(Active(h))
      OBVIOUS
    <2>3. item' = [item EXCEPT ![u] = i] /\ meant' = [meant EXCEPT ![u] = m]
          /\ (blind' = blind \/ blind' = blind \cup {u})
      BY <1>3, <2>1 DEF ReplaceUser, Base, TypeOK
    <2>4. u \in blind' \/ m \in {Truthy(Active(h)), "word"}
      <3> SUFFICES ASSUME u \notin blind', m # "word"
                   PROVE  Truthy(Active(h)) = m
        OBVIOUS
      <3>1. /\ Fresh(h, u) /\ u \notin blind
            /\ r.active # None \/ req[h].read.active = item[u].active
        BY <1>3 DEF ReplaceUser
      <3>2. item[u].there /\ req[h].read.active # None
        BY <2>0, <3>1, FreshThere
      <3>3. CASE r.active # None
        <4>1. Active(h) = r.active /\ m = r.active /\ r.active \in Value
          BY <2>0, <3>3, InHand, Bodies DEF Active, UserKinds
        <4> QED
          BY <4>1, Converted
      <3>4. CASE r.active = None
        <4>1. item[u].active = meant[u]
          BY <2>1, <3>1, <3>2, <3>4 DEF StatusAsMeant, Status
        <4>2. Active(h) = m /\ m = item[u].active
          BY <3>1, <3>2, <3>4, <4>1 DEF Active
        <4>3. item[u] \in Item
          BY <2>1 DEF Base, TypeOK
        <4> QED
          BY <3>1, <3>2, <3>4, <4>2, <4>3, Converted DEF Item
      <3> QED
        BY <3>3, <3>4
    <2> HIDE DEF i, m
    <2> QED
      BY <2>1, <2>2, <2>3, <2>4, StatusOfOne
  <1>4. ASSUME NEW h \in Handler, SetActive(h)
        PROVE  StatusAsMeant'
    <2> DEFINE r == req[h].body
               u == req[h].user
               i == [[item[u] EXCEPT !.there = TRUE] EXCEPT !.active = AsBool(r.active)]
    <2>1. u \in User /\ item[u] \in Item
      BY <1>4, InHand DEF SetActive, UserKinds, Base, TypeOK
    <2>2. i.there /\ i.active = AsBool(r.active)
      BY <2>1 DEF Item
    <2>3. item' = [item EXCEPT ![u] = i]
          /\ meant' = [meant EXCEPT ![u] = AsBool(r.active)]
          /\ (blind' = blind \/ blind' = blind \cup {u})
      BY <1>4 DEF SetActive, Base, TypeOK
    <2> HIDE DEF i
    <2> QED
      BY <2>1, <2>2, <2>3, StatusOfOne
  <1>5. ASSUME NEW h \in Handler, DeleteUser(h)
        PROVE  StatusAsMeant'
    <2> DEFINE u == req[h].user
    <2>1. u \in User
      BY <1>5, InHand DEF DeleteUser, UserKinds
    <2>2. item' = [item EXCEPT ![u] = Absent] /\ ~Absent.there
          /\ meant' = [meant EXCEPT ![u] = "gone"]
          /\ (blind' = blind \ {u} \/ blind' = blind \cup {u})
      BY <1>5 DEF DeleteUser, Absent
    <2> QED
      BY <2>1, <2>2, StatusOfOne
  <1>6. ASSUME NEW h \in Handler, NEW u \in User, NEW gs,
               item' = [item EXCEPT ![u] =
                          [[item[u] EXCEPT !.there = TRUE] EXCEPT !.groups = gs]],
               UNCHANGED meant,
               \/ blind' = blind /\ item[u].there
               \/ blind' = blind \cup {u}
        PROVE  StatusAsMeant'
    <2> DEFINE i == [[item[u] EXCEPT !.there = TRUE] EXCEPT !.groups = gs]
    <2>1. i.there /\ i.active = item[u].active
      BY DEF Base, TypeOK, Item
    <2>2. meant' = [meant EXCEPT ![u] = meant[u]]
      BY <1>6 DEF Base, TypeOK
    <2>3. u \in blind' \/ meant[u] \in {item[u].active, "word"}
      BY <1>6 DEF StatusAsMeant, Status
    <2>4. item' = [item EXCEPT ![u] = i]
          /\ \A v \in User \ {u} : v \in blind => v \in blind'
      BY <1>6
    <2> HIDE DEF i
    <2> QED
      BY <2>1, <2>2, <2>3, <2>4, StatusOfOne
  <1>7. ASSUME NEW h \in Handler, WriteMember(h)
        PROVE  StatusAsMeant'
    <2> DEFINE r  == req[h].body
               u  == req[h].user
               gs == IF r.kind # "removeMembers"
                       THEN item[u].groups \cup {r.group}
                       ELSE item[u].groups \ {r.group}
    <2>1. u \in User
      BY <1>7, InHand DEF WriteMember
    <2>2. item' = [item EXCEPT ![u] =
                     [[item[u] EXCEPT !.there = TRUE] EXCEPT !.groups = gs]]
      BY <1>7, <2>1 DEF WriteMember, Base, TypeOK
    <2>3. \/ blind' = blind /\ item[u].there
          \/ blind' = blind \cup {u}
      BY <1>7, FreshThere DEF WriteMember
    <2>4. UNCHANGED meant
      BY <1>7 DEF WriteMember
    <2> HIDE DEF gs
    <2> QED
      BY <1>6, <2>1, <2>2, <2>3, <2>4
  <1>8. ASSUME NEW h \in Handler, NEW u \in User, StripMember(h, u)
        PROVE  StatusAsMeant'
    <2> DEFINE gs == item[u].groups \ {req[h].body.group}
    <2>1. item' = [item EXCEPT ![u] =
                     [[item[u] EXCEPT !.there = TRUE] EXCEPT !.groups = gs]]
      BY <1>8 DEF StripMember, Base, TypeOK
    <2>2. \/ blind' = blind /\ item[u].there
          \/ blind' = blind \cup {u}
      BY <1>8 DEF StripMember
    <2>3. UNCHANGED meant
      BY <1>8 DEF StripMember
    <2> HIDE DEF gs
    <2> QED
      BY <1>6, <2>1, <2>2, <2>3
  <1>9. ASSUME NEW h \in Handler, Serve(h), ~UNCHANGED <<item, meant, blind>>
        PROVE  StatusAsMeant'
    BY <1>2, <1>3, <1>4, <1>5, <1>7, <1>8, <1>9
       DEF Serve, Arrive, FindUser, ResolveMember, CreateGroup, CheckGroup,
           ScanMembers, DropGroup, Fail, history
  <1> QED
    BY <1>1, <1>9 DEF Next, Propagate, vars, history

\* Status as the identity provider meant it, for any number of users,
\* invocations and requests, wherever it was not given to put_user as a text.
THEOREM StatusMeant == Spec => []StatusAsMeant
  <1>1. Init => StatusAsMeant
    BY DEF Init, StatusAsMeant, Status, Absent
  <1> QED
    BY <1>1, BaseAlways, StatusNext, PTL DEF Spec

-----------------------------------------------------------------------------
(* Memberships                                                             *)

LEMMA InPairs ==
  ASSUME NEW u, NEW gs, NEW v, NEW g
  PROVE  <<v, g>> \in Pairs(u, gs) <=> v = u /\ g \in gs
  BY DEF Pairs

\* A step that writes one user leaves the memberships of the others.
LEMMA MembershipOfOne ==
  ASSUME Base, MembershipAsTold, NEW u \in User, NEW i,
         item' = [item EXCEPT ![u] = i],
         \A v \in User \ {u} : v \in blind => v \in blind',
         \A v \in User \ {u}, g \in Group :
           /\ <<v, g>> \in told' <=> <<v, g>> \in told
           /\ <<v, g>> \in lost => <<v, g>> \in lost',
         \/ u \in blind'
         \/ \A g \in Group : \/ <<u, g>> \in lost'
                             \/ g \in i.groups <=> <<u, g>> \in told'
  PROVE  MembershipAsTold'
  <1> SUFFICES ASSUME NEW v \in User, NEW g \in Group,
                      v \notin blind', <<v, g>> \notin lost'
               PROVE  (g \in item'[v].groups <=> <<v, g>> \in told')
    BY DEF MembershipAsTold
  <1>1. CASE v = u
    BY <1>1 DEF Base, TypeOK
  <1>2. CASE v # u
    <2>1. item'[v] = item[v]
      BY <1>2 DEF Base, TypeOK
    <2>2. (g \in item[v].groups <=> <<v, g>> \in told)
      BY <1>2 DEF MembershipAsTold
    <2> QED
      BY <1>2, <2>1, <2>2
  <1> QED
    BY <1>1, <1>2

\* A step that writes the pair of one user and one group.
LEMMA MembershipOfPair ==
  ASSUME Base, MembershipAsTold, NEW u \in User, NEW a \in Group, NEW gs,
         item' = [item EXCEPT ![u] =
                    [[item[u] EXCEPT !.there = TRUE] EXCEPT !.groups = gs]],
         blind' = blind \/ blind' = blind \cup {u},
         lost' = lost \ {<<u, a>>},
         \/ gs = item[u].groups \cup {a} /\ told' = told \cup {<<u, a>>}
         \/ gs = item[u].groups \ {a} /\ told' = told \ {<<u, a>>}
  PROVE  MembershipAsTold'
  <1> DEFINE i == [[item[u] EXCEPT !.there = TRUE] EXCEPT !.groups = gs]
  <1>1. i.groups = gs
    BY DEF Base, TypeOK, Item
  <1>2. \/ u \in blind'
        \/ \A g \in Group : \/ <<u, g>> \in lost'
                            \/ g \in gs <=> <<u, g>> \in told'
    <2> SUFFICES ASSUME u \notin blind', NEW g \in Group, <<u, g>> \notin lost'
                 PROVE  g \in gs <=> <<u, g>> \in told'
      OBVIOUS
    <2>1. CASE g = a
      BY <2>1
    <2>2. CASE g # a
      <3>1. g \in item[u].groups <=> <<u, g>> \in told
        BY <2>2 DEF MembershipAsTold
      <3> QED
        BY <2>2, <3>1
    <2> QED
      BY <2>1, <2>2
  <1>3. \A v \in User \ {u}, g \in Group :
          /\ <<v, g>> \in told' <=> <<v, g>> \in told
          /\ <<v, g>> \in lost => <<v, g>> \in lost'
    OBVIOUS
  <1>4. item' = [item EXCEPT ![u] = i]
        /\ \A v \in User \ {u} : v \in blind => v \in blind'
    OBVIOUS
  <1> HIDE DEF i
  <1> QED
    BY <1>1, <1>2, <1>3, <1>4, MembershipOfOne

LEMMA MembershipNext ==
  ASSUME Base, MembershipAsTold, [Next]_vars
  PROVE  MembershipAsTold'
  <1>1. CASE UNCHANGED <<item, told, blind, lost>>
    BY <1>1 DEF MembershipAsTold
  <1>2. ASSUME NEW h \in Handler, NEW s \in ScimId, CreateUser(h, s)
        PROVE  MembershipAsTold'
    <2> DEFINE r == req[h].body
               i == [there |-> TRUE, scim |-> s, active |-> Truthy(r.active),
                     groups |-> r.groups]
    <2>1. r.user \in User /\ r.groups \in SUBSET Group
      BY <1>2, Bodied, Bodies DEF CreateUser, Base
    <2>2. i.groups = r.groups
      OBVIOUS
    <2>3. /\ item' = [item EXCEPT ![r.user] = i]
          /\ told' = (told \ Pairs(r.user, Group)) \cup Pairs(r.user, r.groups)
          /\ lost' = lost \ Pairs(r.user, Group)
          /\ blind' = blind \ {r.user}
      BY <1>2 DEF CreateUser
    <2>4. \A v \in User \ {r.user}, g \in Group :
            /\ <<v, g>> \in told' <=> <<v, g>> \in told
            /\ <<v, g>> \in lost => <<v, g>> \in lost'
      <3> TAKE v \in User \ {r.user}, g \in Group
      <3>1. <<v, g>> \notin Pairs(r.user, Group) /\ <<v, g>> \notin Pairs(r.user, r.groups)
        BY InPairs
      <3> QED
        BY <2>3, <3>1
    <2>5. \A g \in Group : g \in r.groups <=> <<r.user, g>> \in told'
      BY <2>3, InPairs
    <2> HIDE DEF i
    <2> QED
      BY <2>1, <2>2, <2>3, <2>4, <2>5, MembershipOfOne
  <1>3. ASSUME NEW h \in Handler, ReplaceUser(h)
        PROVE  MembershipAsTold'
    <2> DEFINE r == req[h].body
               u == req[h].user
               given == IF r.kind = "replaceUser" THEN r.groups ELSE {}
               i == [there |-> TRUE, scim |-> r.scim, active |-> Truthy(Active(h)),
                     groups |-> given]
    <2>1. u \in User
      BY <1>3, InHand DEF ReplaceUser, UserKinds
    <2>2. i.groups = given
      OBVIOUS
    <2>3. /\ item' = [item EXCEPT ![u] = i]
          /\ (blind' = blind \/ blind' = blind \cup {u})
          /\ \/ told' = told /\ lost' = lost \cup Pairs(u, Group)
             \/ /\ told' = (told \ Pairs(u, Group)) \cup Pairs(u, given)
                /\ lost' = lost \ Pairs(u, Group)
      BY <1>3 DEF ReplaceUser
    <2> HIDE DEF i, given
    <2>4. \A v \in User \ {u}, g \in Group :
            /\ <<v, g>> \in told' <=> <<v, g>> \in told
            /\ <<v, g>> \in lost => <<v, g>> \in lost'
      <3> TAKE v \in User \ {u}, g \in Group
      <3>1. <<v, g>> \notin Pairs(u, Group) /\ <<v, g>> \notin Pairs(u, given)
        BY InPairs
      <3> QED
        BY <2>3, <3>1
    <2>5. \A g \in Group : \/ <<u, g>> \in lost'
                           \/ g \in given <=> <<u, g>> \in told'
      BY <2>3, InPairs
    <2> QED
      BY <2>1, <2>2, <2>3, <2>4, <2>5, MembershipOfOne
  <1>4. ASSUME NEW h \in Handler, SetActive(h)
        PROVE  MembershipAsTold'
    <2> DEFINE r == req[h].body
               u == req[h].user
               i == [[item[u] EXCEPT !.there = TRUE] EXCEPT !.active = AsBool(r.active)]
    <2>1. u \in User /\ item[u] \in Item
      BY <1>4, InHand DEF SetActive, UserKinds, Base, TypeOK
    <2>2. i.groups = item[u].groups
      BY <2>1 DEF Item
    <2>3. /\ item' = [item EXCEPT ![u] = i] /\ UNCHANGED <<told, lost>>
          /\ (blind' = blind \/ blind' = blind \cup {u})
      BY <1>4 DEF SetActive, Base, TypeOK
    <2> HIDE DEF i
    <2>4. \/ u \in blind'
          \/ \A g \in Group : \/ <<u, g>> \in lost'
                              \/ g \in i.groups <=> <<u, g>> \in told'
      BY <2>1, <2>2, <2>3 DEF MembershipAsTold
    <2> QED
      BY <2>1, <2>3, <2>4, MembershipOfOne
  <1>5. ASSUME NEW h \in Handler, DeleteUser(h)
        PROVE  MembershipAsTold'
    <2> DEFINE u == req[h].user
    <2>1. u \in User
      BY <1>5, InHand DEF DeleteUser, UserKinds
    <2>2. /\ item' = [item EXCEPT ![u] = Absent] /\ Absent.groups = {}
          /\ told' = told \ Pairs(u, Group) /\ lost' = lost \ Pairs(u, Group)
          /\ (blind' = blind \ {u} \/ blind' = blind \cup {u})
      BY <1>5 DEF DeleteUser, Absent
    <2>3. \A v \in User \ {u}, g \in Group :
            /\ <<v, g>> \in told' <=> <<v, g>> \in told
            /\ <<v, g>> \in lost => <<v, g>> \in lost'
      <3> TAKE v \in User \ {u}, g \in Group
      <3>1. <<v, g>> \notin Pairs(u, Group)
        BY InPairs
      <3> QED
        BY <2>2, <3>1
    <2>4. \A g \in Group : (g \in Absent.groups <=> <<u, g>> \in told')
      BY <2>2, InPairs
    <2> QED
      BY <2>1, <2>2, <2>3, <2>4, MembershipOfOne
  <1>6. ASSUME NEW h \in Handler, NEW s \in ScimId, ResolveMember(h, s)
        PROVE  MembershipAsTold'
    <2> DEFINE pairs == {u \in User : item[u].there /\ item[u].scim = s}
                          \X {req[h].body.group}
    <2>1. /\ UNCHANGED <<item, blind>>
          /\ \/ UNCHANGED <<told, lost>>
             \/ /\ lost' = lost \cup pairs
                /\ told' = told \ pairs \/ told' = told \cup pairs
      BY <1>6 DEF ResolveMember
    <2> HIDE DEF pairs
    <2>2. \A p : p \notin lost' => p \notin lost /\ (p \in told') = (p \in told)
      BY <2>1
    <2> QED
      BY <2>1, <2>2 DEF MembershipAsTold
  <1>7. ASSUME NEW h \in Handler, WriteMember(h)
        PROVE  MembershipAsTold'
    <2> DEFINE r  == req[h].body
               u  == req[h].user
               gs == IF r.kind # "removeMembers"
                       THEN item[u].groups \cup {r.group}
                       ELSE item[u].groups \ {r.group}
    <2>1. u \in User /\ r.group \in Group
      BY <1>7, InHand, Bodies DEF WriteMember
    <2>2. item' = [item EXCEPT ![u] =
                     [[item[u] EXCEPT !.there = TRUE] EXCEPT !.groups = gs]]
      BY <1>7, <2>1 DEF WriteMember, Base, TypeOK
    <2>3. /\ blind' = blind \/ blind' = blind \cup {u}
          /\ lost' = lost \ {<<u, r.group>>}
          /\ \/ gs = item[u].groups \cup {r.group}
                /\ told' = told \cup {<<u, r.group>>}
             \/ gs = item[u].groups \ {r.group}
                /\ told' = told \ {<<u, r.group>>}
      BY <1>7 DEF WriteMember
    <2> HIDE DEF gs
    <2> QED
      BY <2>1, <2>2, <2>3, MembershipOfPair
  <1>8. ASSUME NEW h \in Handler, NEW u \in User, StripMember(h, u)
        PROVE  MembershipAsTold'
    <2> DEFINE g  == req[h].body.group
               gs == item[u].groups \ {g}
    <2>1. g \in Group
      BY <1>8, Stripping
    <2>2. item' = [item EXCEPT ![u] =
                     [[item[u] EXCEPT !.there = TRUE] EXCEPT !.groups = gs]]
      BY <1>8 DEF StripMember, Base, TypeOK
    <2>3. /\ blind' = blind \/ blind' = blind \cup {u}
          /\ lost' = lost \ {<<u, g>>} /\ told' = told \ {<<u, g>>}
      BY <1>8 DEF StripMember
    <2> QED
      BY <2>1, <2>2, <2>3, MembershipOfPair
  <1>9. ASSUME NEW h \in Handler, Serve(h),
               ~UNCHANGED <<item, told, blind, lost>>
        PROVE  MembershipAsTold'
    BY <1>2, <1>3, <1>4, <1>5, <1>6, <1>7, <1>8, <1>9
       DEF Serve, Arrive, FindUser, CreateGroup, CheckGroup,
           ScanMembers, DropGroup, Fail, history
  <1> QED
    BY <1>1, <1>9 DEF Next, Propagate, vars, history

\* Memberships as the identity provider asked for them, for any number of
\* users, groups, invocations and requests.
THEOREM MembershipTold == Spec => []MembershipAsTold
  <1>1. Init => MembershipAsTold
    BY DEF Init, MembershipAsTold, Absent
  <1> QED
    BY <1>1, BaseAlways, MembershipNext, PTL DEF Spec

-----------------------------------------------------------------------------
(* Groups that are gone                                                    *)

Accounted == Removal /\ DanglingExplained

\* A step that writes one user, all of whose new groups are accounted for.
LEMMA AccountedOfOne ==
  ASSUME Base, Accounted, NEW h \in Handler, NEW u \in User, NEW gs,
         item'[u].groups = gs, \A v \in User \ {u} : item'[v] = item[v],
         \A k \in Handler \ {h} : req'[k] = req[k],
         UNCHANGED groups, Removing(h)',
         \A v \in User \ {u}, g \in Group : <<v, g>> \in late => <<v, g>> \in late',
         \A g \in gs :
           \/ <<u, g>> \in late'
           \/ g \in item[u].groups /\ <<u, g>> \notin late
           \/ g \in groups /\ ~Going(g),
         gs \in SUBSET Group
  PROVE  Accounted'
  <1>1. DanglingExplained'
    <2> SUFFICES ASSUME NEW v \in User, NEW g \in item'[v].groups,
                        g \notin groups'
                 PROVE  <<v, g>> \in late'
      BY DEF DanglingExplained
    <2>1. CASE v = u
      BY <2>1 DEF Accounted, DanglingExplained
    <2>2. CASE v # u
      BY <2>2 DEF Accounted, DanglingExplained, Base, TypeOK, Item
    <2> QED
      BY <2>1, <2>2
  <1>2. ASSUME NEW k \in Handler \ {h}
        PROVE  Removing(k)'
    <2> DEFINE a == req[k].body.group
    <2> SUFFICES ASSUME req[k].step \in {"strip", "drop"},
                        NEW v \in User, a \in item'[v].groups
                 PROVE  \/ <<v, a>> \in late'
                        \/ req[k].step = "strip" /\ v \in req[k].todo
      BY DEF Removing
    <2>1. Going(a)
      BY DEF Going
    <2>2. Removing(k)
      BY DEF Accounted, Removal
    <2>3. CASE v = u
      BY <2>1, <2>2, <2>3 DEF Removing
    <2>4. CASE v # u
      BY <2>2, <2>4 DEF Removing, Base, TypeOK, Item
    <2> QED
      BY <2>3, <2>4
  <1> QED
    BY <1>1, <1>2 DEF Accounted, Removal

\* Steps that write no user.
LEMMA AccountedMoves ==
  ASSUME Accounted, NEW h \in Handler, UNCHANGED <<item, late>>,
         \A k \in Handler \ {h} : req'[k] = req[k],
         Removing(h)', DanglingExplained'
  PROVE  Accounted'
  BY DEF Accounted, Removal, Removing

LEMMA Leavers ==
  ASSUME NEW gs, NEW g \in gs, NEW u
  PROVE  <<u, g>> \in Pairs(u, Leaving(gs)) \/ (g \in groups /\ ~Going(g))
  BY DEF Pairs, Leaving

LEMMA AccountedNext ==
  ASSUME Base, Accounted, [Next]_vars
  PROVE  Accounted'
  <1> USE DEF Base
  <1>1. CASE UNCHANGED <<item, late, req, groups>>
    BY <1>1 DEF Accounted, Removal, Removing, DanglingExplained
  \* Invocations that are not at work on a deletion.
  <1>2. ASSUME NEW h \in Handler, req'[h].step \notin {"strip", "drop"}
        PROVE  Removing(h)'
    BY <1>2 DEF Removing
  <1>3. ASSUME NEW h \in Handler, Finish(h)
        PROVE  /\ Removing(h)' /\ \A k \in Handler \ {h} : req'[k] = req[k]
    BY <1>2, <1>3, Answered, IdleInvocation
  <1>4. ASSUME NEW h \in Handler, NEW todo \in SUBSET (User \cup ScimId),
               req[h].step # "idle", NextMember(h, todo)
        PROVE  /\ Removing(h)' /\ \A k \in Handler \ {h} : req'[k] = req[k]
    BY <1>2, <1>4, Members, IdleInvocation
  <1>5. UNCHANGED <<item, late, groups>> => DanglingExplained'
    BY DEF Accounted, DanglingExplained
  <1>6. ASSUME NEW h \in Handler, NEW s \in ScimId, CreateUser(h, s)
        PROVE  Accounted'
    <2> DEFINE r == req[h].body
    <2>1. r.user \in User /\ r.groups \in SUBSET Group
      BY <1>6, Bodied, Bodies DEF CreateUser
    <2>2. /\ item'[r.user].groups = r.groups
          /\ \A v \in User \ {r.user} : item'[v] = item[v]
      BY <1>6, <2>1 DEF CreateUser, TypeOK
    <2>3. late' = late \cup Pairs(r.user, Leaving(r.groups)) /\ UNCHANGED groups
      BY <1>6 DEF CreateUser
    <2>4. /\ Removing(h)' /\ \A k \in Handler \ {h} : req'[k] = req[k]
      BY <1>3, <1>6 DEF CreateUser
    <2>5. \A g \in r.groups : <<r.user, g>> \in late' \/ (g \in groups /\ ~Going(g))
      BY <2>3, Leavers
    <2> QED
      BY <2>1, <2>2, <2>3, <2>4, <2>5, AccountedOfOne
  <1>7. ASSUME NEW h \in Handler, ReplaceUser(h)
        PROVE  Accounted'
    <2> DEFINE r == req[h].body
               u == req[h].user
               given == IF r.kind = "replaceUser" THEN r.groups ELSE {}
    <2>1. u \in User /\ given \in SUBSET Group
      BY <1>7, InHand, Bodies DEF ReplaceUser, UserKinds
    <2>2. /\ item'[u].groups = given
          /\ \A v \in User \ {u} : item'[v] = item[v]
      BY <1>7, <2>1 DEF ReplaceUser, TypeOK
    <2>3. late' = late \cup Pairs(u, Leaving(given)) /\ UNCHANGED groups
      BY <1>7 DEF ReplaceUser
    <2>4. /\ Removing(h)' /\ \A k \in Handler \ {h} : req'[k] = req[k]
      BY <1>3, <1>7 DEF ReplaceUser
    <2> HIDE DEF given
    <2>5. \A g \in given : <<u, g>> \in late' \/ (g \in groups /\ ~Going(g))
      BY <2>3, Leavers
    <2> QED
      BY <2>1, <2>2, <2>3, <2>4, <2>5, AccountedOfOne
  <1>8. ASSUME NEW h \in Handler, SetActive(h)
        PROVE  Accounted'
    <2> DEFINE u == req[h].user
    <2>1. u \in User /\ item[u] \in Item
      BY <1>8, InHand DEF SetActive, UserKinds, TypeOK
    <2>2. /\ item'[u].groups = item[u].groups
          /\ \A v \in User \ {u} : item'[v] = item[v]
      BY <1>8, <2>1 DEF SetActive, TypeOK, Item
    <2>3. UNCHANGED <<late, groups>>
      BY <1>8 DEF SetActive
    <2>4. /\ Removing(h)' /\ \A k \in Handler \ {h} : req'[k] = req[k]
      BY <1>3, <1>8 DEF SetActive
    <2>5. item[u].groups \in SUBSET Group
      BY <2>1 DEF Item
    <2> QED
      BY <2>1, <2>2, <2>3, <2>4, <2>5, AccountedOfOne
  <1>9. ASSUME NEW h \in Handler, DeleteUser(h)
        PROVE  Accounted'
    <2> DEFINE u == req[h].user
    <2>1. u \in User
      BY <1>9, InHand DEF DeleteUser, UserKinds
    <2>2. /\ item'[u].groups = {} /\ {} \in SUBSET Group
          /\ \A v \in User \ {u} : item'[v] = item[v]
      BY <1>9, <2>1 DEF DeleteUser, Absent, TypeOK
    <2>3. late' = late \ Pairs(u, Group) /\ UNCHANGED groups
      BY <1>9 DEF DeleteUser
    <2>4. /\ Removing(h)' /\ \A k \in Handler \ {h} : req'[k] = req[k]
      BY <1>3, <1>9 DEF DeleteUser
    <2>5. \A v \in User \ {u}, g \in Group : <<v, g>> \in late => <<v, g>> \in late'
      BY <2>3, InPairs
    <2> QED
      BY <2>1, <2>2, <2>3, <2>4, <2>5, AccountedOfOne
  <1>10. ASSUME NEW h \in Handler, WriteMember(h)
         PROVE  Accounted'
    <2> DEFINE r  == req[h].body
               u  == req[h].user
               gs == IF r.kind # "removeMembers"
                       THEN item[u].groups \cup {r.group}
                       ELSE item[u].groups \ {r.group}
    <2>1. /\ u \in User /\ r.group \in Group /\ item[u] \in Item
          /\ req[h].step # "idle" /\ req[h].todo \in SUBSET (User \cup ScimId)
      BY <1>10, InHand, Bodies DEF WriteMember, TypeOK, Invocation
    <2>2. /\ item'[u].groups = gs
          /\ \A v \in User \ {u} : item'[v] = item[v]
      BY <1>10, <2>1 DEF WriteMember, TypeOK, Item
    <2>3. /\ UNCHANGED groups
          /\ \/ /\ gs = item[u].groups \cup {r.group}
                /\ late' = late \cup Pairs(u, Leaving({r.group}))
             \/ /\ gs = item[u].groups \ {r.group}
                /\ late' = late \ {<<u, r.group>>}
      BY <1>10 DEF WriteMember
    <2>4. /\ Removing(h)' /\ \A k \in Handler \ {h} : req'[k] = req[k]
      BY <1>4, <1>10, <2>1 DEF WriteMember
    <2>5. gs \in SUBSET Group
      BY <2>1 DEF Item
    <2> HIDE DEF gs
    <2>6. \A g \in gs : \/ <<u, g>> \in late'
                        \/ g \in item[u].groups /\ <<u, g>> \notin late
                        \/ g \in groups /\ ~Going(g)
      <3> TAKE g \in gs
      <3>1. CASE g = r.group
        BY <2>3, <3>1, Leavers
      <3>2. CASE g # r.group
        BY <2>3, <3>2
      <3> QED
        BY <3>1, <3>2
    <2>7. \A v \in User \ {u}, g \in Group : <<v, g>> \in late => <<v, g>> \in late'
      BY <2>3
    <2> QED
      BY <2>1, <2>2, <2>3, <2>4, <2>5, <2>6, <2>7, AccountedOfOne
  <1>11. ASSUME NEW h \in Handler, NEW u \in User, StripMember(h, u)
         PROVE  Accounted'
    <2> DEFINE a  == req[h].body.group
               gs == item[u].groups \ {a}
    <2>1. /\ a \in Group /\ item[u] \in Item
          /\ \A k \in Handler \ {h} : req'[k] = req[k]
          /\ req'[h].body = req[h].body /\ req'[h].todo = req[h].todo \ {u}
          /\ req'[h].step = IF req[h].todo \ {u} = {} THEN "drop" ELSE "strip"
      BY <1>11, Stripping DEF TypeOK
    <2>2. /\ item'[u].groups = gs
          /\ \A v \in User \ {u} : item'[v] = item[v]
      BY <1>11, <2>1 DEF StripMember, TypeOK, Item
    <2>3. late' = late \ {<<u, a>>} /\ UNCHANGED groups /\ req[h].step = "strip"
      BY <1>11 DEF StripMember
    <2>4. gs \in SUBSET Group
      BY <2>1 DEF Item
    <2>5. Removing(h)'
      <3> SUFFICES ASSUME NEW v \in User, a \in item'[v].groups
                   PROVE  \/ <<v, a>> \in late'
                          \/ req'[h].step = "strip" /\ v \in req'[h].todo
        BY <2>1 DEF Removing
      <3>1. v # u /\ a \in item[v].groups
        BY <2>2
      <3>2. <<v, a>> \in late \/ v \in req[h].todo
        BY <2>3, <3>1 DEF Accounted, Removal, Removing
      <3> QED
        BY <2>1, <2>3, <3>1, <3>2
    <2>6. \A g \in gs : \/ <<u, g>> \in late'
                        \/ g \in item[u].groups /\ <<u, g>> \notin late
      BY <2>3
    <2>7. \A v \in User \ {u}, g \in Group : <<v, g>> \in late => <<v, g>> \in late'
      BY <2>3
    <2> HIDE DEF gs
    <2> QED
      BY <2>1, <2>2, <2>3, <2>4, <2>5, <2>6, <2>7, AccountedOfOne
  <1>12. ASSUME NEW h \in Handler, ScanMembers(h)
         PROVE  Accounted'
    <2> DEFINE a == req[h].body.group
               members == {u \in User : item[u].there /\ a \in item[u].groups}
    <2>1. /\ req[h] \in Invocation
          /\ req' = [req EXCEPT ![h].todo = members,
                               ![h].step = IF members = {} THEN "drop" ELSE "strip"]
      BY <1>12, Bodied DEF ScanMembers
    <2> HIDE DEF members
    <2>2. /\ \A k \in Handler \ {h} : req'[k] = req[k]
          /\ req'[h].body = req[h].body /\ req'[h].todo = members
          /\ req'[h].step = IF members = {} THEN "drop" ELSE "strip"
      BY <2>1 DEF TypeOK, Invocation
    <2>3. \A u \in User : a \in item[u].groups => u \in members
      BY DEF Items, Complete, members
    <2>4. UNCHANGED <<item, late, groups>>
      BY <1>12 DEF ScanMembers, history
    <2>5. Removing(h)'
      BY <2>2, <2>3, <2>4 DEF Removing
    <2> QED
      BY <1>5, <2>2, <2>4, <2>5, AccountedMoves
  <1>13. ASSUME NEW h \in Handler, DropGroup(h)
         PROVE  Accounted'
    <2> DEFINE a == req[h].body.group
    <2>1. /\ groups' = groups \ {a} /\ UNCHANGED <<item, late>>
          /\ req[h].step = "drop"
      BY <1>13 DEF DropGroup, history
    <2>2. \A u \in User : a \in item[u].groups => <<u, a>> \in late
      BY <2>1 DEF Accounted, Removal, Removing
    <2>3. DanglingExplained'
      BY <2>1, <2>2 DEF Accounted, DanglingExplained
    <2> QED
      BY <1>3, <1>13, <2>1, <2>3, AccountedMoves DEF DropGroup
  <1>14. ASSUME NEW h \in Handler, NEW r \in Request, Arrive(h, r)
         PROVE  Accounted'
    <2>1. /\ req'[h].step = FirstStep(r)
          /\ \A k \in Handler \ {h} : req'[k] = req[k]
      BY <1>14, Opening
    <2>2. FirstStep(r) \notin {"strip", "drop"}
      BY DEF FirstStep
    <2> QED
      BY <1>2, <1>5, <1>14, <2>1, <2>2, AccountedMoves DEF Arrive, history
  <1>15. ASSUME NEW h \in Handler, FindUser(h)
         PROVE  Accounted'
    <2>1. CASE Finish(h)
      BY <1>3, <1>5, <1>15, <2>1, AccountedMoves DEF FindUser, history
    <2>2. CASE ~Finish(h)
      <3>1. /\ req'[h].step = "write"
            /\ \A k \in Handler \ {h} : req'[k] = req[k]
        BY <1>15, <2>2 DEF FindUser, TypeOK, Invocation
      <3> QED
        BY <1>2, <1>5, <1>15, <3>1, AccountedMoves DEF FindUser, history
    <2> QED
      BY <2>1, <2>2
  <1>16. ASSUME NEW h \in Handler, CreateGroup(h)
         PROVE  Accounted'
    <2>1. req[h].body.members \in SUBSET (User \cup ScimId) /\ req[h].step # "idle"
      BY <1>16, Bodied, Bodies DEF CreateGroup, Shape, Shaped, GroupKinds
    <2>2. DanglingExplained'
      BY <1>16 DEF CreateGroup, history, Accounted, DanglingExplained
    <2> QED
      BY <1>4, <1>16, <2>1, <2>2, AccountedMoves DEF CreateGroup, history
  <1>17. ASSUME NEW h \in Handler, CheckGroup(h)
         PROVE  Accounted'
    <2>1. UNCHANGED <<item, late, groups>>
      BY <1>17 DEF CheckGroup, history
    <2>2. CASE Finish(h)
      BY <1>3, <1>5, <2>1, <2>2, AccountedMoves
    <2>3. CASE req' = [req EXCEPT ![h].step = "scan"]
      <3>1. /\ req'[h].step = "scan"
            /\ \A k \in Handler \ {h} : req'[k] = req[k]
        BY <2>3 DEF TypeOK, Invocation
      <3> QED
        BY <1>2, <1>5, <2>1, <3>1, AccountedMoves
    <2>4. CASE NextMember(h, req[h].body.members)
               /\ req[h].body.kind # "deleteGroup"
      <3>1. req[h].body.members \in SUBSET (User \cup ScimId)
            /\ req[h].step # "idle"
        BY <1>17, <2>4, Bodied, Bodies DEF CheckGroup, Shape, Shaped, GroupKinds
      <3> QED
        BY <1>4, <1>5, <2>1, <2>4, <3>1, AccountedMoves
    <2> QED
      BY <1>17, <2>2, <2>3, <2>4 DEF CheckGroup
  <1>18. ASSUME NEW h \in Handler, NEW s \in ScimId, ResolveMember(h, s)
         PROVE  Accounted'
    <2>1. UNCHANGED <<item, late, groups>> /\ req[h].step = "resolve"
          /\ req[h] \in Invocation
      BY <1>18, Bodied DEF ResolveMember
    <2>2. CASE NextMember(h, req[h].todo \ {s})
      <3>1. req[h].todo \ {s} \in SUBSET (User \cup ScimId)
        BY <2>1 DEF Invocation
      <3> QED
        BY <1>4, <1>5, <2>1, <2>2, <3>1, AccountedMoves
    <2>3. CASE ~NextMember(h, req[h].todo \ {s})
      <3>1. /\ req'[h].step = "member"
            /\ \A k \in Handler \ {h} : req'[k] = req[k]
        <4>1. PICK u \in Found(s) :
                 req' = [req EXCEPT ![h].step = "member", ![h].user = u,
                                    ![h].read = Lookup(view[u]), ![h].todo = @ \ {s}]
          BY <1>18, <2>3 DEF ResolveMember
        <4> DEFINE q == [[[[req[h] EXCEPT !.step = "member"] EXCEPT !.user = u]
                          EXCEPT !.read = Lookup(view[u])] EXCEPT !.todo = @ \ {s}]
        <4>2. q.step = "member"
          BY <2>1 DEF Invocation
        <4>3. req' = [req EXCEPT ![h] = q]
          BY <4>1 DEF TypeOK
        <4> HIDE DEF q
        <4> QED
          BY <4>2, <4>3 DEF TypeOK
      <3> QED
        BY <1>2, <1>5, <2>1, <3>1, AccountedMoves
    <2> QED
      BY <2>2, <2>3
  <1>19. ASSUME NEW h \in Handler, Fail(h)
         PROVE  Accounted'
    BY <1>3, <1>5, <1>19, AccountedMoves DEF Fail, history
  <1>20. ASSUME NEW h \in Handler, Serve(h)
         PROVE  Accounted'
    BY <1>6, <1>7, <1>8, <1>9, <1>10, <1>11, <1>12, <1>13, <1>14, <1>15,
       <1>16, <1>17, <1>18, <1>19, <1>20 DEF Serve
  <1> QED
    BY <1>1, <1>20 DEF Next, Propagate, vars, history

\* A user names a group that is gone only if the membership came too late for
\* its deletion, for any number of users, groups, invocations and requests.
THEOREM Dangling == Spec => []DanglingExplained
  <1>1. Init => Accounted
    BY IdleInvocation DEF Init, Accounted, Removal, Removing, DanglingExplained,
                          Absent
  <1> QED
    BY <1>1, BaseAlways, AccountedNext, PTL DEF Spec, Accounted

-----------------------------------------------------------------------------
(* The directory of roles                                                  *)

\* What is about to lose its role is loose already.
Uncovered ==
  \A h \in Handler : admin[h].step = "delete" =>
    Roles!Uses(asg, admin[h].role) \subseteq loose

\* The invocations that work on a role they have found.
Working(h) == admin[h].step \in {"query", "archive", "delete"}

\* Two invocations that have found one role overlap, and so do one that has
\* found it and the one that deleted it since, if not before.
Overlapping ==
  /\ \A h, k \in Handler :
       (h # k /\ Working(h) /\ Working(k) /\ admin[h].role = admin[k].role)
         => admin[h].role \in overlap
  /\ \A h \in Handler :
       (Working(h) /\ role[admin[h].role] \in {"none", "stub"})
         => admin[h].role \in overlap \cup ghost

RolesInv ==
  Roles!TypeOK /\ OrphansExplained /\ Uncovered /\ StubsExplained /\ Overlapping

LEMMA RolesInit == Roles!Init => RolesInv
  BY ServicesAssumption
  DEF Roles!Init, Roles!RoleAssumption, RolesInv, Roles!TypeOK,
      OrphansExplained,
      Roles!OrphansExplained, Uncovered, StubsExplained, Roles!StubsExplained,
      Overlapping, Working, Roles!Idle, Roles!Step, Roles!Pair

LEMMA RolesNext == RolesInv /\ [Roles!Next]_Roles!vars => RolesInv'
<1> SUFFICES ASSUME RolesInv, [Roles!Next]_Roles!vars PROVE RolesInv'
  OBVIOUS
<1> USE DEF RolesInv, Roles!TypeOK, Working, Uncovered, Overlapping, Roles!Pair,
        OrphansExplained, Roles!OrphansExplained, StubsExplained,
        Roles!StubsExplained, Roles!Uses, Roles!Idle, Roles!Step, Roles!NoRole,
        Roles!WriteRole
<1>a. None \notin Role /\ MaxAdmin \in Nat
  BY ServicesAssumption DEF Roles!RoleAssumption
<1>1. ASSUME NEW r \in Role, Roles!CreateRole(r) PROVE RolesInv'
  BY <1>1, <1>a DEF Roles!CreateRole, Roles!Call, Roles!history
<1>2. ASSUME NEW r \in Role, NEW p \in Principal, Roles!CreateAssignment(p, r)
      PROVE  RolesInv'
  BY <1>2, <1>a DEF Roles!CreateAssignment, Roles!Call, Roles!Deleting
<1>3. ASSUME NEW r \in Role, NEW p \in Principal, Roles!DeleteAssignment(p, r)
      PROVE  RolesInv'
  BY <1>3, <1>a DEF Roles!DeleteAssignment, Roles!Call
<1>4. ASSUME NEW r \in Role, NEW h \in Handler, Roles!BeginDelete(h, r)
      PROVE  RolesInv'
  BY <1>4, <1>a DEF Roles!BeginDelete, Roles!Call, Roles!history
<1>5. ASSUME NEW h \in Handler, Roles!ReadRole(h) PROVE RolesInv'
  BY <1>5, <1>a DEF Roles!ReadRole, Roles!FoundRole, Roles!Deleting
<1>6. ASSUME NEW h \in Handler, Roles!QueryUse(h) PROVE RolesInv'
  BY <1>6, <1>a DEF Roles!QueryUse
<1>7. ASSUME NEW h \in Handler, Roles!Archive(h) PROVE RolesInv'
  BY <1>7, <1>a DEF Roles!Archive, Roles!history
<1>8. ASSUME NEW h \in Handler, Roles!DeleteItem(h) PROVE RolesInv'
  BY <1>8, <1>a DEF Roles!DeleteItem, Roles!history
<1>9. ASSUME NEW h \in Handler, Roles!Fail(h) PROVE RolesInv'
  BY <1>9, <1>a DEF Roles!Fail, Roles!history
<1>10. ASSUME NEW pair \in Roles!Pair, Roles!Propagate(pair) PROVE RolesInv'
  BY <1>10 DEF Roles!Propagate, Roles!history
<1>12. ASSUME NEW r \in Role, Roles!SettleRole(r) PROVE RolesInv'
  BY <1>12, <1>a DEF Roles!SettleRole, Roles!history
<1>11. ASSUME UNCHANGED Roles!vars PROVE RolesInv'
  BY <1>11 DEF Roles!vars, Roles!history
<1> QED
  BY <1>1, <1>2, <1>3, <1>4, <1>5, <1>6, <1>7, <1>8, <1>9, <1>10, <1>11,
     <1>12
  DEF Roles!Next

\* Types of the directory of roles, for any number of roles, principals,
\* invocations and requests.
THEOREM RolesTyped == Roles!Spec => []Roles!TypeOK
  BY RolesInit, RolesNext, PTL DEF Roles!Spec, RolesInv

\* An assignment refers to a role that is gone only if the role was missing
\* when it was assigned, or a deletion had asked for the uses of the role
\* before it was, or before the index had it.
THEOREM Orphans == Roles!Spec => []OrphansExplained
  BY RolesInit, RolesNext, PTL DEF Roles!Spec, RolesInv

\* A role is left without a name only where two deletions of it overlapped, or
\* one found it in a replica after another had deleted it.
THEOREM Stubs == Roles!Spec => []StubsExplained
  BY RolesInit, RolesNext, PTL DEF Roles!Spec, RolesInv

-----------------------------------------------------------------------------
(* The sessions of the custom sign-in page                                 *)

Minting == {"putSession", "putRefresh", "respond"}
Moving  == {"putNew", "deleteOld", "putNewSession", "respondNew"}
Closing == {"dropRefresh", "dropSession", "deny"}

Invoked ==
  [step : Custom!Step, signIn : SignIn \cup {None}, old : Jti \cup {None},
   new : Jti \cup {None}, token : Custom!RefreshToken \cup {None}, ok : BOOLEAN]

\* Types as far as the argument needs them; a browser is given no cookie of a
\* session that is not minted, and lets none expire that it has not got.
SessionShape ==
  /\ refresh \in [Jti -> Custom!RefreshToken \cup {None}]
  /\ live \subseteq Custom!RefreshToken
  /\ serving \in [Handler -> Invoked]
  /\ origin \in [Jti -> SignIn \cup {None}]
  /\ held \subseteq Jti /\ expired \subseteq held /\ ended \subseteq SignIn
  /\ \A j \in held : origin[j] # None

\* A sign-in with sessions of which Cognito honours no token: it is over, for
\* Cognito issues a token on a sign-in, which came before them, or in exchange.
Over(c) ==
  /\ \E j \in Jti : origin[j] = c
  /\ \A t \in live : t.signIn # c

\* What an invocation knows.  A session it mints is not sent yet, and before its
\* cookie is sent every write succeeded or one was shrugged off; what it read
\* belongs to its sign-in, and a logout that went well has ended that.
Knows(q) ==
  /\ q.step # "idle" => q.signIn \in SignIn
  /\ q.step \in Minting \cup Moving =>
       q.new \in Jti \ held /\ origin[q.new] = q.signIn
  /\ q.step \in {"get", "read", "revoke"} \cup Closing => q.old # None
  /\ q.old # None => q.old \in held /\ origin[q.old] = q.signIn
  /\ q.token # None => q.token.signIn = q.signIn
  /\ q.step \in {"get", "exchange"} \cup ((Minting \cup Moving) \ {"respondNew"})
       => q.ok
  /\ (q.step \in {"putRefresh", "respond", "respondNew"} /\ q.ok)
       => q.new \in session
  /\ (q.step \in Closing /\ q.ok) => Over(q.signIn)
Knowing == \A h \in Handler : Knows(serving[h])

\* A session is minted by one invocation.
Apart ==
  \A h, k \in Handler :
    (h # k /\ serving[h].step \in Minting \cup Moving
       /\ serving[k].step \in Minting \cup Moving)
      => serving[h].new # serving[k].new

\* Cognito honours one refresh token of a sign-in, and a record holds one of the
\* sign-in its session is of.
Tokens ==
  /\ \A t, u \in live : t.signIn = u.signIn => t = u
  /\ \A t \in live : \E j \in Jti : origin[j] = t.signIn
  /\ \A j \in Jti : refresh[j] # None => refresh[j].signIn = origin[j]
  /\ \A c \in ended : Over(c)

SessionsInv == SessionShape /\ Knowing /\ Apart /\ Tokens /\ Recorded

\* The other invocations are where they were.
Others(h) == \A k \in Handler \ {h} : serving'[k] = serving[k]

\* A step of an invocation that keeps what it has in hand.
Moves(h, step) ==
  /\ serving' \in [Handler -> Invoked] /\ Others(h)
  /\ serving'[h].step = step
  /\ serving'[h].signIn = serving[h].signIn
  /\ serving'[h].old = serving[h].old /\ serving'[h].new = serving[h].new
  /\ serving'[h].token = serving[h].token
-----------------------------------------------------------------------------
LEMMA Distinct ==
  /\ None \notin Jti /\ None \notin SignIn /\ None \notin Custom!RefreshToken
  /\ \A t \in Custom!RefreshToken : t.signIn \in SignIn
  /\ \A c \in SignIn :
       Custom!First(c) \in Custom!RefreshToken /\ Custom!First(c).signIn = c
  /\ \A c \in SignIn, j \in Jti :
       /\ [signIn |-> c, for |-> j] \in Custom!RefreshToken
       /\ [signIn |-> c, for |-> j].signIn = c
<1>1. None \notin Jti \cup SignIn \cup Custom!RefreshToken
  BY ServicesAssumption DEF Custom!NoneAssumption
<1> QED
  BY <1>1 DEF Custom!First, Custom!RefreshToken

LEMMA GoesOn ==
  ASSUME SessionShape, NEW h \in Handler, NEW s \in Custom!Step, Custom!Goto(h, s)
  PROVE  Moves(h, s) /\ serving'[h].ok = serving[h].ok
BY DEF SessionShape, Custom!Goto, Moves, Others, Invoked

LEMMA ShrugsOff ==
  ASSUME SessionShape, NEW h \in Handler, NEW s \in Custom!Step, Custom!Shrug(h, s)
  PROVE  Moves(h, s) /\ ~serving'[h].ok
BY DEF SessionShape, Custom!Shrug, Moves, Others, Invoked

LEMMA Finishes ==
  ASSUME SessionShape, NEW h \in Handler, Custom!Finish(h)
  PROVE  /\ serving' \in [Handler -> Invoked] /\ Others(h)
         /\ serving'[h].step = "idle" /\ serving'[h].old = None
         /\ serving'[h].token = None
BY DEF SessionShape, Custom!Finish, Others, Invoked, Custom!Idle, Custom!Step

LEMMA Holding ==
  ASSUME SessionShape, NEW h \in Handler
  PROVE  /\ serving[h].new \in Jti \cup {None}
         /\ serving[h].old \in Jti \cup {None}
         /\ serving[h].signIn \in SignIn \cup {None}
         /\ serving[h].token \in Custom!RefreshToken \cup {None}
         /\ serving[h].ok \in BOOLEAN
BY DEF SessionShape, Invoked

LEMMA SessionsInit == Custom!Init => SessionsInv
<1> SUFFICES ASSUME Custom!Init PROVE SessionsInv OBVIOUS
<1>1. SessionShape
  BY Distinct DEF Custom!Init, SessionShape, Invoked, Custom!Idle, Custom!Step
<1>2. Knowing /\ Apart
  BY DEF Custom!Init, Knowing, Knows, Apart, Custom!Idle, Minting, Moving, Closing
<1>3. Tokens /\ Recorded
  BY DEF Custom!Init, Tokens, Recorded, Custom!Recorded, Custom!Accepts
<1> QED
  BY <1>1, <1>2, <1>3 DEF SessionsInv

LEMMA AtPutSession ==
  ASSUME SessionsInv, NEW h \in Handler, Custom!PutSession(h)
  PROVE  SessionsInv'
<1> USE DEF SessionsInv
<1>1. \/ Moves(h, "respond") /\ serving[h].token = None
      \/ Moves(h, "putRefresh")
  BY GoesOn DEF Custom!PutSession, Custom!Step
<1>2. serving'[h].ok = serving[h].ok
  BY GoesOn DEF Custom!PutSession, Custom!Step
<1>3. SessionShape'
  BY <1>1, <1>2, Distinct
  DEF Custom!PutSession, Custom!stores, Custom!history, Moves, Others,
      SessionShape
<1>4. Knowing'
  BY <1>1, <1>2, Distinct
  DEF Custom!PutSession, Custom!stores, Custom!history, Moves, Others, Knowing,
      Knows, Minting, Moving, Closing, SessionShape, Over
<1>5. Apart'
  BY <1>1, <1>2, Distinct
  DEF Custom!PutSession, Custom!stores, Custom!history, Moves, Others, Apart,
      Minting, Moving, Closing
<1>6. Tokens'
  BY <1>1, <1>2, Distinct
  DEF Custom!PutSession, Custom!stores, Custom!history, Moves, Others, Tokens,
      SessionShape, Over
<1>7. Recorded'
  BY <1>1, <1>2, Distinct
  DEF Custom!PutSession, Custom!stores, Custom!history, Moves, Others, Recorded,
      Custom!Recorded, Custom!Accepts, Custom!LoggingOut, Knowing, Knows,
      SessionShape, Minting, Moving, Closing
<1> QED
  BY <1>3, <1>4, <1>5, <1>6, <1>7

LEMMA AtPutRefresh ==
  ASSUME SessionsInv, NEW h \in Handler, Custom!PutRefresh(h)
  PROVE  SessionsInv'
<1> USE DEF SessionsInv
<1>1. Moves(h, "respond") /\ serving'[h].ok = serving[h].ok
  BY GoesOn DEF Custom!PutRefresh, Custom!Step
<1>2. SessionShape'
  BY <1>1, Distinct, Holding
  DEF Custom!PutRefresh, Custom!stores, Custom!history, Moves, Others,
      SessionShape, Knowing, Knows, Minting, Moving
<1>3. Knowing'
  BY <1>1, Distinct
  DEF Custom!PutRefresh, Custom!stores, Custom!history, Moves, Others, Knowing,
      Knows, Minting, Moving, Closing, SessionShape, Over
<1>4. Apart'
  BY <1>1, Distinct
  DEF Custom!PutRefresh, Custom!stores, Custom!history, Moves, Others, Apart,
      Minting, Moving, Closing
<1>5. Tokens'
  BY <1>1, Distinct, Holding
  DEF Custom!PutRefresh, Custom!stores, Custom!history, Moves, Others, Tokens,
      SessionShape, Over, Knowing, Knows, Minting, Moving
<1>6. Recorded'
  BY <1>1, Distinct
  DEF Custom!PutRefresh, Custom!stores, Custom!history, Moves, Others, Recorded,
      Custom!Recorded, Custom!Accepts, Custom!LoggingOut, Knowing, Knows,
      SessionShape, Minting, Moving, Closing
<1> QED
  BY <1>2, <1>3, <1>4, <1>5, <1>6

LEMMA AtRespond ==
  ASSUME SessionsInv, NEW h \in Handler, Custom!Respond(h)
  PROVE  SessionsInv'
<1> USE DEF SessionsInv
<1>1. /\ serving' \in [Handler -> Invoked] /\ Others(h)
      /\ serving'[h].step = "idle" /\ serving'[h].old = None
      /\ serving'[h].token = None
  BY Finishes DEF Custom!Respond
<1>2. SessionShape'
  BY <1>1, Distinct, Holding
  DEF Custom!Respond, Custom!stores, Custom!history, Moves, Others,
      SessionShape, Knowing, Knows, Minting, Moving
<1>3. Knowing'
  BY <1>1, Distinct, Holding
  DEF Custom!Respond, Custom!stores, Custom!history, Moves, Others, Knowing,
      Knows, Minting, Moving, Closing, SessionShape, Over, Apart
<1>4. Apart'
  BY <1>1, Distinct
  DEF Custom!Respond, Custom!stores, Custom!history, Moves, Others, Apart,
      Minting, Moving, Closing
<1>5. Tokens'
  BY <1>1, Distinct
  DEF Custom!Respond, Custom!stores, Custom!history, Moves, Others, Tokens,
      SessionShape, Over
<1>6. Recorded'
  BY <1>1, Distinct
  DEF Custom!Respond, Custom!stores, Custom!history, Moves, Others, Recorded,
      Custom!Recorded, Custom!Accepts, Custom!LoggingOut, Knowing, Knows,
      SessionShape, Minting, Moving, Closing
<1> QED
  BY <1>2, <1>3, <1>4, <1>5, <1>6

LEMMA AtDeny ==
  ASSUME SessionsInv, NEW h \in Handler, Custom!Deny(h)
  PROVE  SessionsInv'
<1> USE DEF SessionsInv
<1>1. /\ serving' \in [Handler -> Invoked] /\ Others(h)
      /\ serving'[h].step = "idle" /\ serving'[h].old = None
      /\ serving'[h].token = None
  BY Finishes DEF Custom!Deny
<1>2. SessionShape'
  BY <1>1, Distinct, Holding
  DEF Custom!Deny, Custom!stores, Custom!history, Moves, Others, SessionShape,
      Knowing, Knows, Closing
<1>3. Knowing'
  BY <1>1, Distinct
  DEF Custom!Deny, Custom!stores, Custom!history, Moves, Others, Knowing, Knows,
      Minting, Moving, Closing, SessionShape, Over
<1>4. Apart'
  BY <1>1, Distinct
  DEF Custom!Deny, Custom!stores, Custom!history, Moves, Others, Apart, Minting,
      Moving, Closing
<1>5. Tokens'
  BY <1>1, Distinct, Holding
  DEF Custom!Deny, Custom!stores, Custom!history, Moves, Others, Tokens,
      SessionShape, Over, Knowing, Knows, Closing
<1>6. Recorded'
  BY <1>1, Distinct
  DEF Custom!Deny, Custom!stores, Custom!history, Moves, Others, Recorded,
      Custom!Recorded, Custom!Accepts, Custom!LoggingOut, Knowing, Knows,
      SessionShape, Minting, Moving, Closing
<1> QED
  BY <1>2, <1>3, <1>4, <1>5, <1>6

LEMMA AtAbandon ==
  ASSUME SessionsInv, NEW h \in Handler, Custom!Abandon(h)
  PROVE  SessionsInv'
<1> USE DEF SessionsInv
<1>1. /\ serving' \in [Handler -> Invoked] /\ Others(h)
      /\ serving'[h].step = "idle" /\ serving'[h].old = None
      /\ serving'[h].token = None
  BY Finishes DEF Custom!Abandon
<1>2. SessionShape'
  BY <1>1, Distinct
  DEF Custom!Abandon, Custom!stores, Custom!history, Moves, Others, SessionShape
<1>3. Knowing'
  BY <1>1, Distinct
  DEF Custom!Abandon, Custom!stores, Custom!history, Moves, Others, Knowing,
      Knows, Minting, Moving, Closing, SessionShape, Over
<1>4. Apart'
  BY <1>1, Distinct
  DEF Custom!Abandon, Custom!stores, Custom!history, Moves, Others, Apart,
      Minting, Moving, Closing
<1>5. Tokens'
  BY <1>1, Distinct
  DEF Custom!Abandon, Custom!stores, Custom!history, Moves, Others, Tokens,
      SessionShape, Over
<1>6. Recorded'
  BY <1>1, Distinct
  DEF Custom!Abandon, Custom!stores, Custom!history, Moves, Others, Recorded,
      Custom!Recorded, Custom!Accepts, Custom!LoggingOut, Knowing, Knows,
      SessionShape, Minting, Moving, Closing
<1> QED
  BY <1>2, <1>3, <1>4, <1>5, <1>6

LEMMA AtPutNew ==
  ASSUME SessionsInv, NEW h \in Handler, Custom!PutNew(h)
  PROVE  SessionsInv'
<1> USE DEF SessionsInv
<1>1. \/ Moves(h, "deleteOld") /\ serving'[h].ok = serving[h].ok
      \/ Moves(h, "respondNew") /\ ~serving'[h].ok
  BY GoesOn, ShrugsOff DEF Custom!PutNew, Custom!Step
<1>a. /\ refresh' \in [Jti -> Custom!RefreshToken \cup {None}]
      /\ \A j \in Jti : \/ refresh'[j] = refresh[j]
                        \/ j = serving[h].new /\ refresh'[j] = serving[h].token
  <2>1. CASE refresh' = [refresh EXCEPT ![serving[h].new] = serving[h].token]
    BY <2>1, Holding DEF SessionShape
  <2>2. CASE UNCHANGED refresh
    BY <2>2 DEF SessionShape
  <2> QED
    BY <2>1, <2>2 DEF Custom!PutNew
<1>2. SessionShape'
  BY <1>1, <1>a, Distinct, Holding
  DEF Custom!PutNew, Custom!stores, Custom!history, Moves, Others, SessionShape,
      Knowing, Knows, Minting, Moving
<1>3. Knowing'
  BY <1>1, Distinct
  DEF Custom!PutNew, Custom!stores, Custom!history, Moves, Others, Knowing,
      Knows, Minting, Moving, Closing, SessionShape, Over
<1>4. Apart'
  BY <1>1, Distinct
  DEF Custom!PutNew, Custom!stores, Custom!history, Moves, Others, Apart,
      Minting, Moving, Closing
<1>5. Tokens'
  BY <1>1, <1>a, Distinct, Holding
  DEF Custom!PutNew, Custom!stores, Custom!history, Moves, Others, Tokens,
      SessionShape, Over, Knowing, Knows, Minting, Moving
<1>6. Recorded'
  BY <1>1, Distinct
  DEF Custom!PutNew, Custom!stores, Custom!history, Moves, Others, Recorded,
      Custom!Recorded, Custom!Accepts, Custom!LoggingOut, Knowing, Knows,
      SessionShape, Minting, Moving, Closing
<1> QED
  BY <1>2, <1>3, <1>4, <1>5, <1>6

LEMMA AtDeleteOld ==
  ASSUME SessionsInv, NEW h \in Handler, Custom!DeleteOld(h)
  PROVE  SessionsInv'
<1> USE DEF SessionsInv
<1>1. \/ Moves(h, "putNewSession") /\ serving'[h].ok = serving[h].ok
      \/ Moves(h, "respondNew") /\ ~serving'[h].ok
  BY GoesOn, ShrugsOff DEF Custom!DeleteOld, Custom!Step
<1>2. SessionShape'
  BY <1>1, Distinct, Holding
  DEF Custom!DeleteOld, Custom!stores, Custom!history, Moves, Others,
      SessionShape
<1>3. Knowing'
  BY <1>1, Distinct
  DEF Custom!DeleteOld, Custom!stores, Custom!history, Moves, Others, Knowing,
      Knows, Minting, Moving, Closing, SessionShape, Over
<1>4. Apart'
  BY <1>1, Distinct
  DEF Custom!DeleteOld, Custom!stores, Custom!history, Moves, Others, Apart,
      Minting, Moving, Closing
<1>5. Tokens'
  BY <1>1, Distinct, Holding
  DEF Custom!DeleteOld, Custom!stores, Custom!history, Moves, Others, Tokens,
      SessionShape, Over
<1>6. Recorded'
  BY <1>1, Distinct
  DEF Custom!DeleteOld, Custom!stores, Custom!history, Moves, Others, Recorded,
      Custom!Recorded, Custom!Accepts, Custom!LoggingOut, Knowing, Knows,
      SessionShape, Minting, Moving, Closing
<1> QED
  BY <1>2, <1>3, <1>4, <1>5, <1>6

LEMMA AtDropRefresh ==
  ASSUME SessionsInv, NEW h \in Handler, Custom!DropRefresh(h)
  PROVE  SessionsInv'
<1> USE DEF SessionsInv
<1>1. \/ Moves(h, "dropSession") /\ serving'[h].ok = serving[h].ok
      \/ Moves(h, "dropSession") /\ ~serving'[h].ok
  BY GoesOn, ShrugsOff DEF Custom!DropRefresh, Custom!Step
<1>2. SessionShape'
  BY <1>1, Distinct, Holding
  DEF Custom!DropRefresh, Custom!stores, Custom!history, Moves, Others,
      SessionShape
<1>3. Knowing'
  BY <1>1, Distinct
  DEF Custom!DropRefresh, Custom!stores, Custom!history, Moves, Others, Knowing,
      Knows, Minting, Moving, Closing, SessionShape, Over
<1>4. Apart'
  BY <1>1, Distinct
  DEF Custom!DropRefresh, Custom!stores, Custom!history, Moves, Others, Apart,
      Minting, Moving, Closing
<1>5. Tokens'
  BY <1>1, Distinct, Holding
  DEF Custom!DropRefresh, Custom!stores, Custom!history, Moves, Others, Tokens,
      SessionShape, Over
<1>6. Recorded'
  BY <1>1, Distinct
  DEF Custom!DropRefresh, Custom!stores, Custom!history, Moves, Others,
      Recorded, Custom!Recorded, Custom!Accepts, Custom!LoggingOut, Knowing,
      Knows, SessionShape, Minting, Moving, Closing
<1> QED
  BY <1>2, <1>3, <1>4, <1>5, <1>6

LEMMA AtDropSession ==
  ASSUME SessionsInv, NEW h \in Handler, Custom!DropSession(h)
  PROVE  SessionsInv'
<1> USE DEF SessionsInv
<1>1. \/ Moves(h, "deny") /\ serving'[h].ok = serving[h].ok
      \/ Moves(h, "deny") /\ ~serving'[h].ok
  BY GoesOn, ShrugsOff DEF Custom!DropSession, Custom!Step
<1>2. SessionShape'
  BY <1>1, Distinct
  DEF Custom!DropSession, Custom!stores, Custom!history, Moves, Others,
      SessionShape
<1>3. Knowing'
  BY <1>1, Distinct
  DEF Custom!DropSession, Custom!stores, Custom!history, Moves, Others, Knowing,
      Knows, Minting, Moving, Closing, SessionShape, Over
<1>4. Apart'
  BY <1>1, Distinct
  DEF Custom!DropSession, Custom!stores, Custom!history, Moves, Others, Apart,
      Minting, Moving, Closing
<1>5. Tokens'
  BY <1>1, Distinct
  DEF Custom!DropSession, Custom!stores, Custom!history, Moves, Others, Tokens,
      SessionShape, Over
<1>6. Recorded'
  BY <1>1, Distinct
  DEF Custom!DropSession, Custom!stores, Custom!history, Moves, Others,
      Recorded, Custom!Recorded, Custom!Accepts, Custom!LoggingOut, Knowing,
      Knows, SessionShape, Minting, Moving, Closing
<1> QED
  BY <1>2, <1>3, <1>4, <1>5, <1>6

LEMMA AtPutNewSession ==
  ASSUME SessionsInv, NEW h \in Handler, Custom!PutNewSession(h)
  PROVE  SessionsInv'
<1> USE DEF SessionsInv, Custom!PutNewSession, Custom!history
<1>1. \/ /\ Moves(h, "respondNew") /\ serving'[h].ok = serving[h].ok
         /\ session' = session \cup {serving[h].new}
      \/ /\ Moves(h, "respondNew") /\ ~serving'[h].ok
         /\ UNCHANGED session
  BY GoesOn, ShrugsOff DEF Custom!Step
<1>2. SessionShape'
  BY <1>1 DEF SessionShape, Moves
<1>3. Knowing' /\ Apart'
  BY <1>1 DEF Moves, Others, Knowing, Knows, Apart, Over, Minting, Moving, Closing
<1>4. Tokens' /\ Recorded'
  BY <1>1
  DEF Moves, Others, Tokens, Over, Recorded, Custom!Recorded, Custom!Accepts,
      Custom!LoggingOut
<1> QED
  BY <1>2, <1>3, <1>4

\* A refresh or a logout that has read the record of its session.
LEMMA AtGetRefresh ==
  ASSUME SessionsInv, NEW h \in Handler, Custom!GetRefresh(h) \/ Custom!ReadRefresh(h)
  PROVE  SessionsInv'
<1> USE DEF SessionsInv
<1> DEFINE token == refresh[serving[h].old]
<1>1. \/ /\ serving' \in [Handler -> Invoked] /\ Others(h)
         /\ serving'[h].step = "idle" /\ serving'[h].old = None
         /\ serving'[h].token = None
      \/ Moves(h, "dropRefresh") /\ ~serving'[h].ok
      \/ /\ token # None
         /\ \E step \in {"exchange", "revoke"} :
              /\ serving' = [serving EXCEPT ![h].step = step, ![h].token = token]
              /\ step = "exchange" => serving[h].step = "get"
  BY Finishes, ShrugsOff DEF Custom!GetRefresh, Custom!ReadRefresh, Custom!Step
<1>2. /\ serving[h].step \in {"get", "read"}
      /\ UNCHANGED <<session, refresh, live, denied, held, expired, origin, unsaved,
                     ended>>
  BY DEF Custom!GetRefresh, Custom!ReadRefresh, Custom!stores, Custom!history
<1>3. CASE /\ token # None
           /\ \E step \in {"exchange", "revoke"} :
                /\ serving' = [serving EXCEPT ![h].step = step, ![h].token = token]
                /\ step = "exchange" => serving[h].step = "get"
  <2>1. PICK step \in {"exchange", "revoke"} :
          /\ serving' = [serving EXCEPT ![h].step = step, ![h].token = token]
          /\ step = "exchange" => serving[h].step = "get"
    BY <1>3
  <2>2. token \in Custom!RefreshToken
    BY <1>2, <1>3, Holding DEF SessionShape, Knowing, Knows
  <2>3. /\ serving' \in [Handler -> Invoked] /\ Others(h)
        /\ serving'[h].step = step /\ serving'[h].token = token
        /\ serving'[h].signIn = serving[h].signIn
        /\ serving'[h].old = serving[h].old /\ serving'[h].new = serving[h].new
        /\ serving'[h].ok = serving[h].ok
    BY <2>1, <2>2 DEF SessionShape, Others, Invoked, Custom!Step
  <2>4. token.signIn = serving[h].signIn
    BY <1>2, <1>3, Holding, Distinct DEF Tokens, Knowing, Knows
  <2>5. SessionShape'
    BY <2>3, <1>2 DEF SessionShape
  <2>6. Knowing' /\ Apart'
    BY <2>1, <2>3, <2>4, <1>2
    DEF Knowing, Knows, Apart, Over, Minting, Moving, Closing, Others
  <2>7. Tokens' /\ Recorded'
    BY <2>3, <1>2
    DEF Others, Tokens, Over, Recorded, Custom!Recorded, Custom!Accepts,
        Custom!LoggingOut
  <2> QED
    BY <2>5, <2>6, <2>7
<1>4. CASE \/ /\ serving' \in [Handler -> Invoked] /\ Others(h)
              /\ serving'[h].step = "idle" /\ serving'[h].old = None
              /\ serving'[h].token = None
           \/ Moves(h, "dropRefresh") /\ ~serving'[h].ok
  <2>1. SessionShape'
    BY <1>4, <1>2 DEF SessionShape, Moves
  <2>2. Knowing' /\ Apart'
    BY <1>4, <1>2
    DEF Knowing, Knows, Apart, Over, Minting, Moving, Closing, Others, Moves
  <2>3. Tokens' /\ Recorded'
    BY <1>4, <1>2
    DEF Others, Tokens, Over, Recorded, Custom!Recorded, Custom!Accepts,
        Custom!LoggingOut, Moves
  <2> QED
    BY <2>1, <2>2, <2>3
<1> QED
  BY <1>1, <1>3, <1>4

\* A logout that revoked a token Cognito honoured has ended the sign-in: that
\* was the only one.
LEMMA AtRevokeToken ==
  ASSUME SessionsInv, NEW h \in Handler, Custom!RevokeToken(h)
  PROVE  SessionsInv'
<1> USE DEF SessionsInv
<1>1. /\ serving[h].step = "revoke" /\ Moves(h, "dropRefresh")
      /\ \/ live' = live \ {serving[h].token}
         \/ UNCHANGED live
      /\ serving'[h].ok =>
           live' = live \ {serving[h].token} /\ serving[h].token \in live
      /\ UNCHANGED <<session, refresh, denied, held, expired, origin, unsaved, ended>>
  <2>1. CASE /\ live' = live \ {serving[h].token}
             /\ serving' = [serving EXCEPT ![h].step = "dropRefresh",
                               ![h].ok = @ /\ serving[h].token \in live]
    <3>1. Moves(h, "dropRefresh") /\ (serving'[h].ok => serving[h].token \in live)
      BY <2>1 DEF SessionShape, Moves, Others, Invoked, Custom!Step
    <3> QED
      BY <2>1, <3>1 DEF Custom!RevokeToken, Custom!history
  <2>2. CASE Custom!Shrug(h, "dropRefresh") /\ UNCHANGED live
    BY <2>2, ShrugsOff DEF Custom!RevokeToken, Custom!history, Custom!Step
  <2> QED
    BY <2>1, <2>2 DEF Custom!RevokeToken
<1>2. SessionShape'
  BY <1>1 DEF SessionShape, Moves
<1>3. serving'[h].ok => Over(serving[h].signIn)'
  <2>1. serving[h].token \in live =>
          /\ \A t \in live : t.signIn = serving[h].signIn => t = serving[h].token
          /\ \E j \in Jti : origin[j] = serving[h].signIn
    BY Distinct DEF Knowing, Knows, Tokens, SessionShape
  <2> QED
    BY <1>1, <2>1 DEF Over, Moves
<1>4. \A c : Over(c) => Over(c)'
  BY <1>1 DEF Over
<1>5. Knowing' /\ Apart'
  BY <1>1, <1>3, <1>4
  DEF Knowing, Knows, Apart, Minting, Moving, Closing, Others, Moves
<1>6. Tokens' /\ Recorded'
  BY <1>1, <1>4
  DEF Others, Tokens, Recorded, Custom!Recorded, Custom!Accepts,
      Custom!LoggingOut, Moves
<1> QED
  BY <1>2, <1>5, <1>6

LEMMA AtBeginSession ==
  ASSUME SessionsInv, NEW h \in Handler, NEW j \in Jti, NEW c \in SignIn,
         NEW withToken \in BOOLEAN, Custom!BeginSession(h, c, j, withToken)
  PROVE  SessionsInv'
<1> USE DEF SessionsInv
<1>1. /\ serving' \in [Handler -> Invoked] /\ Others(h)
      /\ serving'[h].step = "putSession" /\ serving'[h].signIn = c
      /\ serving'[h].new = j /\ serving'[h].old = None /\ serving'[h].ok
      /\ serving'[h].token \in {None, Custom!First(c)}
  <2> DEFINE q == [Custom!Idle EXCEPT !.step = "putSession", !.signIn = c, !.new = j,
                     !.token = IF withToken THEN Custom!First(c) ELSE None]
  <2>1. /\ q \in Invoked /\ q.step = "putSession" /\ q.signIn = c
        /\ q.new = j /\ q.old = None /\ q.ok /\ q.token \in {None, Custom!First(c)}
    BY Distinct DEF Custom!Idle, Invoked, Custom!Step
  <2>2. serving' = [serving EXCEPT ![h] = q]
    BY DEF Custom!BeginSession, Custom!Begin
  <2> HIDE DEF q
  <2> QED
    BY <2>1, <2>2 DEF SessionShape, Others
<1>2. /\ origin' = [origin EXCEPT ![j] = c] /\ origin[j] = None /\ j \notin held
      /\ UNCHANGED <<session, refresh, denied, held, expired, unsaved, ended>>
      /\ \/ live' = live
         \/ live' = live \cup {Custom!First(c)} /\ \A i \in Jti : origin[i] # c
      /\ serving[h].step = "idle"
  BY DEF Custom!BeginSession, SessionShape, Custom!Begin, Custom!Idle
<1>3. SessionShape'
  BY <1>1, <1>2, Distinct DEF SessionShape
<1>4. \A e \in SignIn : Over(e) => Over(e)'
  BY <1>2, Distinct DEF Over, SessionShape
<1>5. Knowing'
  BY <1>1, <1>2, <1>3, <1>4, Distinct
  DEF Knowing, Knows, Minting, Moving, Closing, Others, SessionShape
<1>6. Apart'
  BY <1>1, <1>2, Distinct
  DEF Knowing, Knows, Apart, Minting, Moving, Others
<1>7. Tokens'
  BY <1>1, <1>2, <1>4, Distinct DEF Tokens, SessionShape
<1>8. Recorded'
  BY <1>1, <1>2
  DEF Others, Recorded, Custom!Recorded, Custom!Accepts, Custom!LoggingOut
<1> QED
  BY <1>3, <1>5, <1>6, <1>7, <1>8

LEMMA AtBeginOther ==
  ASSUME SessionsInv, NEW h \in Handler, NEW j \in Jti,
         Custom!BeginRefresh(h, j) \/ Custom!BeginLogout(h, j)
  PROVE  SessionsInv'
<1> USE DEF SessionsInv
<1>1. PICK step \in {"get", "read"} :
        serving' = [serving EXCEPT ![h] =
                      [Custom!Idle EXCEPT !.step = step, !.signIn = origin[j],
                                          !.old = j]]
  BY DEF Custom!BeginRefresh, Custom!BeginLogout, Custom!Begin
<1>2. /\ j \in held /\ serving[h].step = "idle"
      /\ UNCHANGED <<session, refresh, live, denied, held, expired, origin, unsaved,
                     ended>>
  BY DEF Custom!BeginRefresh, Custom!BeginLogout, Custom!Begin, Custom!stores,
         Custom!Idle
<1>3. origin[j] \in SignIn
  BY <1>2 DEF SessionShape
<1>4. /\ serving' \in [Handler -> Invoked] /\ Others(h)
      /\ serving'[h].step = step /\ serving'[h].signIn = origin[j]
      /\ serving'[h].old = j /\ serving'[h].token = None /\ serving'[h].ok
  <2> DEFINE q == [Custom!Idle EXCEPT !.step = step, !.signIn = origin[j], !.old = j]
  <2>1. /\ q \in Invoked /\ q.step = step /\ q.signIn = origin[j]
        /\ q.old = j /\ q.token = None /\ q.ok
    BY <1>3 DEF Custom!Idle, Invoked, Custom!Step
  <2>2. serving' = [serving EXCEPT ![h] = q]
    BY <1>1
  <2> HIDE DEF q
  <2> QED
    BY <2>1, <2>2 DEF SessionShape, Others
<1>5. SessionShape'
  BY <1>2, <1>4 DEF SessionShape
<1>6. Knowing'
  BY <1>2, <1>3, <1>4, Distinct
  DEF Knowing, Knows, Over, Minting, Moving, Closing, Others
<1>7. Apart'
  BY <1>4 DEF Apart, Minting, Moving, Others
<1>8. Tokens' /\ Recorded'
  BY <1>2, <1>4
  DEF Others, Tokens, Over, Recorded, Custom!Recorded, Custom!Accepts,
      Custom!LoggingOut
<1> QED
  BY <1>5, <1>6, <1>7, <1>8

\* An exchange leaves Cognito with one token of the sign-in, as before.
LEMMA AtExchange ==
  ASSUME SessionsInv, NEW h \in Handler, NEW j \in Jti, Custom!Exchange(h, j)
  PROVE  SessionsInv'
<1> USE DEF SessionsInv
<1> DEFINE token == serving[h].token
<1> DEFINE c == token.signIn
<1> DEFINE next == [signIn |-> c, for |-> j]
<1>1. /\ serving[h].step = "exchange" /\ origin[j] = None /\ j \notin held
      /\ UNCHANGED <<session, refresh, denied, held, expired, unsaved, ended>>
  BY DEF Custom!Exchange, SessionShape
<1>2. CASE Custom!Finish(h) /\ UNCHANGED <<live, origin>>
  <2>1. SessionShape'
    BY <1>1, <1>2, Finishes DEF SessionShape
  <2>2. Knowing' /\ Apart'
    BY <1>1, <1>2, Finishes
    DEF Knowing, Knows, Apart, Over, Minting, Moving, Closing, Others
  <2>3. Tokens' /\ Recorded'
    BY <1>1, <1>2, Finishes
    DEF Others, Tokens, Over, Recorded, Custom!Recorded, Custom!Accepts,
        Custom!LoggingOut
  <2> QED
    BY <2>1, <2>2, <2>3
<1>3. CASE token \in live
  <2>1. /\ token \in Custom!RefreshToken /\ c \in SignIn /\ c = serving[h].signIn
        /\ next \in Custom!RefreshToken /\ next.signIn = c
        /\ serving[h].ok \in BOOLEAN
    BY <1>3, Distinct, Holding DEF SessionShape, Knowing, Knows
  <2>2. /\ origin' = [origin EXCEPT ![j] = c]
        /\ \/ live' = live
           \/ live' = (live \ {token}) \cup {next}
    BY <1>3 DEF Custom!Exchange
  <2>3. /\ serving' \in [Handler -> Invoked] /\ Others(h)
        /\ serving'[h].step = "putNew" /\ serving'[h].signIn = c
        /\ serving'[h].new = j /\ serving'[h].old = serving[h].old
        /\ serving'[h].token \in {token, next} /\ serving'[h].ok = serving[h].ok
    <3>1. PICK t \in {token, next} :
            serving' = [serving EXCEPT ![h] = [serving[h] EXCEPT !.step = "putNew",
                                                 !.new = j, !.token = t]]
      <4>1. CASE serving' = [serving EXCEPT ![h].step = "putNew", ![h].new = j]
        BY <4>1, <2>1 DEF SessionShape, Invoked
      <4>2. CASE serving' = [serving EXCEPT ![h].step = "putNew", ![h].new = j,
                                            ![h].token = next]
        BY <4>2
      <4> QED
        BY <1>3, <4>1, <4>2 DEF Custom!Exchange
    <3> DEFINE q == [serving[h] EXCEPT !.step = "putNew", !.new = j, !.token = t]
    <3>2. /\ q \in Invoked /\ q.step = "putNew" /\ q.signIn = c /\ q.new = j
          /\ q.old = serving[h].old /\ q.token = t /\ q.ok = serving[h].ok
      BY <2>1 DEF SessionShape, Invoked, Custom!Step
    <3>3. serving' = [serving EXCEPT ![h] = q]
      BY <3>1
    <3> HIDE DEF q
    <3> QED
      BY <3>2, <3>3 DEF SessionShape, Others
  <2> HIDE DEF token, c, next
  <2>4. SessionShape'
    BY <1>1, <2>1, <2>2, <2>3, Distinct DEF SessionShape
  <2>5. /\ \A t \in live' : \E u \in live : t.signIn = u.signIn
        /\ \E u \in live : u.signIn = c
    BY <1>3, <2>1, <2>2 DEF c
  <2>6. \A e \in SignIn : Over(e) => Over(e)'
    <3> SUFFICES ASSUME NEW e \in SignIn, Over(e) PROVE Over(e)'
      OBVIOUS
    <3>1. PICK i \in Jti : origin[i] = e
      BY DEF Over
    <3>2. origin'[i] = e
      BY <1>1, <2>2, <3>1, Distinct DEF SessionShape
    <3> QED
      BY <2>5, <3>2 DEF Over
  <2>7. serving[h].ok
    BY <1>1 DEF Knowing, Knows
  <2>8. Knowing'
    <3>1. Knows(serving[h])'
      <4>1. /\ origin'[j] = c
            /\ \A i \in Jti : i # j => origin'[i] = origin[i]
        BY <2>2 DEF SessionShape
      <4>2. /\ serving[h].old # None =>
                 serving[h].old \in held /\ origin[serving[h].old] = c
            /\ held \subseteq Jti
        BY <2>1 DEF Knowing, Knows, SessionShape
      <4>3. \A t \in {token, next} : t.signIn = c
        BY <2>1 DEF c
      <4> QED
        BY <1>1, <2>1, <2>3, <2>7, <4>1, <4>2, <4>3
        DEF Knows, Minting, Moving, Closing
    <3>2. ASSUME NEW k \in Handler \ {h} PROVE Knows(serving[k])'
      <4>1. Knows(serving[k]) /\ serving'[k] = serving[k]
        BY <2>3 DEF Knowing, Others
      <4>2. /\ serving[k].step \in Minting \cup Moving => serving[k].new # j
            /\ serving[k].old # j
        BY <1>1, <4>1, Distinct, Holding DEF Knows, SessionShape, Minting, Moving
      <4>3. \A i \in Jti : i # j => origin'[i] = origin[i]
        BY <2>2 DEF SessionShape
      <4> QED
        BY <1>1, <2>6, <4>1, <4>2, <4>3, Holding
        DEF Knows, Minting, Moving, Closing, SessionShape
    <3> QED
      BY <3>1, <3>2 DEF Knowing
  <2>9. Apart'
    BY <1>1, <2>1, <2>3, Distinct
    DEF Knowing, Knows, Apart, Minting, Moving, Others
  <2>10. Tokens'
    BY <1>1, <1>3, <2>1, <2>2, <2>6, Distinct DEF Tokens, SessionShape, token, c
  <2>11. Recorded'
    BY <1>1, <2>3
    DEF Others, Recorded, Custom!Recorded, Custom!Accepts, Custom!LoggingOut
  <2> QED
    BY <2>4, <2>8, <2>9, <2>10, <2>11
<1> QED
  BY <1>2, <1>3 DEF Custom!Exchange

LEMMA AtExpiry ==
  ASSUME SessionsInv, NEW j \in Jti, Custom!Expire(j) \/ Custom!Sweep(j)
  PROVE  SessionsInv'
<1> USE DEF SessionsInv, Custom!Expire, Custom!Sweep, Custom!stores, Custom!history
<1>1. SessionShape'
  BY DEF SessionShape
<1>2. Knowing' /\ Apart'
  BY DEF Knowing, Knows, Apart, Over, Minting, Moving, Closing, SessionShape
<1>3. Tokens' /\ Recorded'
  BY DEF Tokens, Over, Recorded, Custom!Recorded, Custom!Accepts, Custom!LoggingOut
<1> QED
  BY <1>1, <1>2, <1>3

LEMMA SessionsNext == SessionsInv /\ [Custom!Next]_Custom!vars => SessionsInv'
<1> SUFFICES ASSUME SessionsInv, [Custom!Next]_Custom!vars PROVE SessionsInv'
  OBVIOUS
<1>1. ASSUME UNCHANGED Custom!vars PROVE SessionsInv'
  BY <1>1
  DEF SessionsInv, SessionShape, Knowing, Knows, Apart, Tokens, Over, Recorded,
      Custom!Recorded, Custom!Accepts, Custom!LoggingOut, Custom!vars,
      Custom!stores, Custom!history
<1> QED
  BY <1>1, AtPutSession, AtPutRefresh, AtRespond, AtGetRefresh, AtPutNew,
     AtDeleteOld, AtPutNewSession, AtRevokeToken, AtDropRefresh, AtDropSession,
     AtDeny, AtAbandon, AtBeginSession, AtBeginOther, AtExchange, AtExpiry
  DEF Custom!Next

LEMMA SessionsAlways == Custom!Spec => []SessionsInv
  BY SessionsInit, SessionsNext, PTL DEF Custom!Spec

\* What the argument did without.
Stored ==
  /\ session \subseteq Jti /\ denied \subseteq Jti /\ unsaved \subseteq Jti
  /\ served \in 0..MaxSessions

LEMMA StoredNext ==
  ASSUME SessionsInv, Stored, [Custom!Next]_Custom!vars
  PROVE  Stored'
<1>1. \A h \in Handler :
        /\ serving[h].new \in Jti \cup {None} /\ serving[h].old \in Jti \cup {None}
        /\ serving[h].step \in Minting \cup Moving => serving[h].new \in Jti
        /\ serving[h].step \in Closing => serving[h].old \in Jti
  BY Holding DEF SessionsInv, Knowing, Knows
<1>2. MaxSessions \in Nat
  BY ServicesAssumption DEF Custom!NoneAssumption
<1> USE <1>1, <1>2 DEF Stored, Minting, Moving, Closing, Custom!history, Custom!stores
<1>3. ASSUME NEW h \in Handler,
             \/ Custom!PutSession(h) \/ Custom!PutRefresh(h) \/ Custom!Respond(h)
             \/ Custom!GetRefresh(h) \/ Custom!PutNew(h) \/ Custom!DeleteOld(h)
             \/ Custom!PutNewSession(h)
      PROVE  Stored'
  BY <1>3
  DEF Custom!PutSession, Custom!PutRefresh, Custom!Respond, Custom!GetRefresh,
      Custom!PutNew, Custom!DeleteOld, Custom!PutNewSession
<1>4. ASSUME NEW h \in Handler,
             \/ Custom!ReadRefresh(h) \/ Custom!RevokeToken(h)
             \/ Custom!DropRefresh(h) \/ Custom!DropSession(h)
             \/ Custom!Deny(h) \/ Custom!Abandon(h)
      PROVE  Stored'
  BY <1>4
  DEF Custom!ReadRefresh, Custom!RevokeToken, Custom!DropRefresh,
      Custom!DropSession, Custom!Deny, Custom!Abandon
<1>5. ASSUME NEW h \in Handler, NEW j \in Jti,
             \/ Custom!BeginRefresh(h, j) \/ Custom!BeginLogout(h, j)
             \/ Custom!Exchange(h, j)
             \/ \E c \in SignIn, withToken \in BOOLEAN :
                  Custom!BeginSession(h, c, j, withToken)
      PROVE  Stored'
  <2>1. UNCHANGED <<session, denied, unsaved>>
    BY <1>5
    DEF Custom!BeginRefresh, Custom!BeginLogout, Custom!Exchange,
        Custom!BeginSession
  <2>2. served' = served \/ (served < MaxSessions /\ served' = served + 1)
    BY <1>5
    DEF Custom!BeginRefresh, Custom!BeginLogout, Custom!Exchange,
        Custom!BeginSession, Custom!Begin
  <2> QED
    BY <2>1, <2>2
<1>6. ASSUME NEW j \in Jti, Custom!Expire(j) \/ Custom!Sweep(j)
      PROVE  Stored'
  BY <1>6 DEF Custom!Expire, Custom!Sweep
<1>7. CASE UNCHANGED Custom!vars
  BY <1>7 DEF Custom!vars
<1> QED
  BY <1>3, <1>4, <1>5, <1>6, <1>7 DEF Custom!Next

\* Types of the sessions of the custom sign-in page, for any number of sign-ins,
\* sessions, invocations and requests.
THEOREM SessionsTyped == Custom!Spec => []Custom!TypeOK
<1>1. Custom!Init => Stored
  BY ServicesAssumption DEF Custom!Init, Stored, Custom!NoneAssumption
<1>2. SessionsInv /\ Stored => Custom!TypeOK
  BY DEF SessionsInv, SessionShape, Stored, Custom!TypeOK, Invoked
<1> QED
  BY <1>1, <1>2, SessionsInit, SessionsNext, StoredNext, PTL DEF Custom!Spec

\* A session the edge accepts has a record a revocation can find, unless a write
\* of its refresh or the denial of its logout failed, or its logout is about to
\* deny it.
THEOREM SessionsRecorded == Custom!Spec => []Recorded
  BY SessionsAlways, PTL DEF SessionsInv

\* No session of a sign-in can be renewed once a logout has revoked its token,
\* whether Cognito replaces tokens or not and whatever ran beside the logout.
THEOREM LogoutEndsRenewal == Custom!Spec => []RenewalEnds
<1>1. SessionsInv => RenewalEnds
  BY Distinct
  DEF SessionsInv, SessionShape, Tokens, Over, RenewalEnds, Custom!RenewalEnds
<1> QED
  BY <1>1, SessionsAlways, PTL

-----------------------------------------------------------------------------
\* What holds of each service holds of them side by side.
THEOREM Composition == SpecAny => Spec /\ Roles!Spec /\ Custom!Spec
<1>1. InitAny => Init /\ Roles!Init /\ Custom!Init
  BY DEF InitAny
<1>2. [NextAny]_allVars => [Next]_vars /\ [Roles!Next]_Roles!vars /\ [Custom!Next]_Custom!vars
  BY DEF NextAny, allVars, roles, custom, Roles!vars, Roles!history, Custom!vars,
         Custom!stores, Custom!history
<1> QED
  BY <1>1, <1>2, PTL DEF SpecAny, Spec, Roles!Spec, Custom!Spec
=============================================================================
