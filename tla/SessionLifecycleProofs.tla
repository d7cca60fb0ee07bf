----------------------- MODULE SessionLifecycleProofs -----------------------
(***************************************************************************)
(* What SessionLifecycle promises, for every set of tokens and invocations *)
(* and every value of its bounds.                                          *)
(***************************************************************************)
EXTENDS SessionLifecycle, TLAPS

\* The steps at which an invocation holds a prior token, and a generated one.
OldSteps == {"rfLookup", "rfExchange", "rfPut", "rfDelete", "rfSession",
             "rfRespond", "loRefresh", "loSession", "loDeny",
             "swRevoke", "swSession", "swRespond"}
NewSteps == {"cbSession", "cbRefresh", "cbRespond", "rfPut", "rfDelete",
             "rfSession", "rfRespond", "swRevoke", "swSession", "swRespond"}

\* A prior token was handed out; a generated one was not, and is nobody
\* else's.  The revocation has a jti between its two calls.
Wiring ==
  /\ \A i \in Invocation :
       /\ pc[i] \in OldSteps => old[i] \in held
       /\ pc[i] \in NewSteps => new[i] \in Jti \ held /\ exp[new[i]] # 0
       /\ pc[i] \notin NewSteps => new[i] = None
  /\ \A i, k \in Invocation : new[i] = new[k] /\ new[i] # None => i = k
  /\ revPc = "deny" => cur \in Jti
  /\ target \subseteq held /\ loggedOut \subseteq held
  /\ now >= 1 /\ \A j \in held : exp[j] # 0

\* Records are of generated tokens; the stream deals with tokens that have
\* expired or lapsed.
Lifetime ==
  \A j \in Jti :
    /\ Indexed(j) => exp[j] # 0
    /\ \A image \in Images :
         <<j, image>> \in stream =>
           exp[j] # 0 /\ (Expired(j) \/ j \in lapsed)

\* Where the IdP's tokens fit into their records: a record lives as long as
\* its token, and nothing lapses.
Fits ==
  /\ \A j \in Jti : Indexed(j) => exp[j] <= sessionExp[j]
  /\ \A i \in Invocation :
       pc[i] = "cbSession" => exp[new[i]] <= now + SessionTtl
  /\ lapsed = {}

\* The tokens whose session record has been written, or failed to be.
Recorded(j) ==
  \/ j \in held
  \/ \E i \in Invocation :
       /\ pc[i] \in {"cbRefresh", "cbRespond", "rfRespond", "swRespond"}
       /\ new[i] = j

\* Revocable, from the write of the record on.
RecordedRevocable ==
  \A j \in Jti :
    Recorded(j) =>
      \/ Dead(j)
      \/ session[j] = "active"
      \/ Failed({"putSession", "revoke"}, j)
      \/ j \in switched \cup loggedOut \cup lapsed
      \/ Pending(j)

\* What a logout has achieved before it deletes the record.
LogoutProgress ==
  \A i \in Invocation :
    pc[i] = "loSession" =>
      old[i] \notin refresh \/ Failed({"dropRefresh"}, old[i])

\* The loop of the revocation has dealt with all but its batch.
RevocationProgress ==
  revPc \in {"loop", "deny"} =>
    \A j \in target \ (switched \cup loggedOut \cup lapsed
                      \cup missed \cup beyond) :
      \/ Dead(j) \/ Pending(j)
      \/ Failed({"putSession", "revoke"}, j)
      \/ j \in batch

\* The base of every other proof.
Inv == TypeOK /\ Wiring /\ Lifetime

LogoutInv == LogoutProgress /\ LogoutForgets

RevocationInv == RevocationProgress /\ CleanRevocationKills

\* What a step can do to the tokens that are out: none of the dead ones
\* revives, or one lapses, or one more is handed out and nothing else changes.
HeldStep ==
  \/ /\ UNCHANGED <<held, lapsed>>
     /\ \A j \in held \ lapsed : Dead(j) => Dead(j)'
  \/ /\ UNCHANGED <<now, exp, denied, held>>
     /\ \E j \in Jti : lapsed' = lapsed \cup {j}
  \/ /\ UNCHANGED <<now, exp, denied, lapsed>>
     /\ \E j \in Jti \ held : held' = held \cup {j}

-----------------------------------------------------------------------------
(* Type correctness, wiring and lifetimes                                  *)

\* The initial state has no invocation, no token and no record.
LEMMA InvInit == Init => Inv
PROOF
  BY NoneAssumption DEF Init, Inv, TypeOK, Wiring, Lifetime, Items, Steps,
    Calls, RevSteps, OldSteps, NewSteps, Indexed, Images

\* Every step keeps the types: an invocation writes under jtis it holds.
LEMMA TypeStep ==
  ASSUME TypeOK, Wiring, [Next]_vars
  PROVE  TypeOK'
PROOF
  <1> USE DEF TypeOK
  <1>1. ASSUME NEW i \in Invocation, NEW j \in Jti, BeginCallback(i, j)
        PROVE  TypeOK'
    BY <1>1, TimeAssumption DEF BeginCallback, Begin, Generate, NoItems,
      NoHistory, revocation, Steps
  <1>2. ASSUME NEW i \in Invocation, CallbackPutSession(i) PROVE TypeOK'
    BY <1>2, TimeAssumption DEF CallbackPutSession, Goto, PutSession,
      Ignored, NoItems, revocation, Items, Steps, Calls, Wiring, NewSteps
  <1>3. ASSUME NEW i \in Invocation, CallbackPutRefresh(i) PROVE TypeOK'
    BY <1>3 DEF CallbackPutRefresh, Goto, Ignored, NoItems, revocation,
      Steps, Calls, Wiring, NewSteps
  <1>4. ASSUME NEW i \in Invocation, CallbackRespond(i) PROVE TypeOK'
    BY <1>4 DEF CallbackRespond, Respond, Finish, NoItems, NoHistory,
      revocation, Steps, Wiring, NewSteps
  <1>5. ASSUME NEW i \in Invocation, NEW j \in Jti, BeginRefresh(i, j)
        PROVE  TypeOK'
    BY <1>5 DEF BeginRefresh, Begin, NoItems, NoHistory, revocation, Steps
  <1>6. ASSUME NEW i \in Invocation, RefreshLookup(i) PROVE TypeOK'
    BY <1>6 DEF RefreshLookup, Goto, Finish, NoItems, NoHistory, revocation,
      Steps
  <1>7. ASSUME NEW i \in Invocation, NEW j \in Jti, RefreshExchange(i, j)
        PROVE  TypeOK'
    BY <1>7, TimeAssumption DEF RefreshExchange, Generate, NoItems,
      NoHistory, revocation, Steps
  <1>8. ASSUME NEW i \in Invocation, RefreshPut(i) PROVE TypeOK'
    BY <1>8 DEF RefreshPut, Goto, Ignored, NoItems, revocation, Steps, Calls,
      Wiring, NewSteps
  <1>9. ASSUME NEW i \in Invocation, RefreshDelete(i) PROVE TypeOK'
    BY <1>9 DEF RefreshDelete, Goto, Ignored, NoItems, revocation, Steps,
      Calls, Wiring, OldSteps
  <1>10. ASSUME NEW i \in Invocation, RefreshPutSession(i) PROVE TypeOK'
    BY <1>10 DEF RefreshPutSession, Goto, PutSession, Ignored, NoItems,
      revocation, Items, Steps, Calls, Wiring, NewSteps
  <1>11. ASSUME NEW i \in Invocation, RefreshRespond(i) PROVE TypeOK'
    BY <1>11 DEF RefreshRespond, Respond, Finish, NoItems, NoHistory,
      revocation, Steps, Wiring, NewSteps
  <1>12. ASSUME NEW i \in Invocation, NEW j \in Jti, BeginLogout(i, j)
         PROVE  TypeOK'
    BY <1>12 DEF BeginLogout, Begin, NoItems, NoHistory, revocation, Steps
  <1>13. ASSUME NEW i \in Invocation, LogoutDropRefresh(i) PROVE TypeOK'
    BY <1>13 DEF LogoutDropRefresh, Goto, Ignored, NoItems, revocation,
      Steps, Calls, Wiring, OldSteps
  <1>14. ASSUME NEW i \in Invocation, LogoutDropSession(i) PROVE TypeOK'
    BY <1>14 DEF LogoutDropSession, Goto, DropSession, Indexed, Ignored,
      NoItems, revocation, Items, Steps, Calls, Wiring, OldSteps
  <1>15. ASSUME NEW i \in Invocation, LogoutDeny(i) PROVE TypeOK'
    BY <1>15 DEF LogoutDeny, Finish, NoItems, NoHistory, revocation, Steps,
      Calls, Wiring, OldSteps
  <1>16. ASSUME NEW i \in Invocation, NEW j \in Jti, NEW k \in Jti,
                BeginSwitch(i, j, k)
         PROVE  TypeOK'
    BY <1>16 DEF BeginSwitch, Begin, Generate, NoItems, NoHistory,
      revocation, Steps
  <1>17. ASSUME NEW i \in Invocation, SwitchRevoke(i) PROVE TypeOK'
    BY <1>17 DEF SwitchRevoke, Goto, MarkRevoked, Indexed, NoItems,
      revocation, Items, Steps, Wiring, OldSteps
  <1>18. ASSUME NEW i \in Invocation, SwitchPutSession(i) PROVE TypeOK'
    BY <1>18 DEF SwitchPutSession, Goto, PutSession, Ignored, NoItems,
      revocation, Items, Steps, Calls, Wiring, NewSteps
  <1>19. ASSUME NEW i \in Invocation, SwitchRespond(i) PROVE TypeOK'
    BY <1>19 DEF SwitchRespond, Respond, Finish, NoItems, NoHistory,
      revocation, Steps, Wiring, NewSteps
  <1>20. ASSUME NEW i \in Invocation, Abandon(i) PROVE TypeOK'
    BY <1>20 DEF Abandon, Finish, NoItems, NoHistory, revocation, Steps, Calls,
      Wiring, OldSteps
  <1>21. CASE PublishRevoke
    BY <1>21 DEF PublishRevoke, NoItems, NoHistory, invocations, RevSteps
  <1>22. CASE RevokeQuery
    BY <1>22 DEF RevokeQuery, NoItems, NoHistory, invocations, RevSteps
  <1>23. ASSUME NEW j \in Jti, RevokeUpdate(j) PROVE TypeOK'
    BY <1>23 DEF RevokeUpdate, MarkRevoked, Indexed, NoHistory, invocations,
      Items, RevSteps
  <1>24. CASE RevokeDeny
    BY <1>24 DEF RevokeDeny, NoItems, NoHistory, invocations, RevSteps,
      Wiring
  <1>25. CASE RevokeDone
    BY <1>25 DEF RevokeDone, NoItems, NoHistory, invocations, RevSteps
  <1>26. CASE RevokeFail
    BY <1>26 DEF RevokeFail, Ignored, NoItems, invocations, Calls, RevSteps,
      Wiring
  <1>27. ASSUME NEW j \in Jti, IndexCatchUp(j) PROVE TypeOK'
    BY <1>27 DEF IndexCatchUp, NoHistory, invocations, revocation
  <1>28. ASSUME NEW j \in Jti, TtlRemove(j) PROVE TypeOK'
    BY <1>28 DEF TtlRemove, DropSession, Indexed, NoHistory, invocations,
      revocation, Items
  <1>29. ASSUME NEW j \in Jti, TtlRemoveRefresh(j) PROVE TypeOK'
    BY <1>29 DEF TtlRemoveRefresh, NoItems, NoHistory, invocations,
      revocation
  <1>30. ASSUME NEW j \in Jti, StreamClean(j) PROVE TypeOK'
    BY <1>30 DEF StreamClean, Ignored, NoItems, invocations, revocation,
      Calls
  <1>31. CASE Tick
    BY <1>31 DEF Tick, NoItems, NoHistory, invocations, revocation
  <1>32. CASE UNCHANGED vars
    BY <1>32 DEF vars, invocations, revocation
  <1> QED
    BY <1>1, <1>2, <1>3, <1>4, <1>5, <1>6, <1>7, <1>8, <1>9, <1>10, <1>11,
      <1>12, <1>13, <1>14, <1>15, <1>16, <1>17, <1>18, <1>19, <1>20, <1>21,
      <1>22, <1>23, <1>24, <1>25, <1>26, <1>27, <1>28, <1>29, <1>30, <1>31,
      <1>32 DEF Next, Invoke, Table, Revocation

\* Every step of an invocation keeps prior tokens among those handed out, and
\* generated ones fresh and unshared; a generated jti is one with no token
\* yet.
LEMMA WiringStep ==
  ASSUME TypeOK, Wiring, [Next]_vars
  PROVE  Wiring'
PROOF
  <1> USE DEF TypeOK, Wiring
  <1>1. ASSUME NEW i \in Invocation, NEW j \in Jti, BeginCallback(i, j)
        PROVE  Wiring'
    BY <1>1, TimeAssumption DEF BeginCallback, Begin, Generate, NoItems,
      NoHistory, revocation, OldSteps, NewSteps
  <1>2. ASSUME NEW i \in Invocation, CallbackPutSession(i) PROVE Wiring'
    BY <1>2 DEF CallbackPutSession, Goto, PutSession, Ignored, NoItems,
      revocation, OldSteps, NewSteps
  <1>3. ASSUME NEW i \in Invocation, CallbackPutRefresh(i) PROVE Wiring'
    BY <1>3 DEF CallbackPutRefresh, Goto, Ignored, NoItems, revocation,
      OldSteps, NewSteps
  <1>4. ASSUME NEW i \in Invocation, CallbackRespond(i) PROVE Wiring'
    BY <1>4, NoneAssumption DEF CallbackRespond, Respond, Finish, NoItems,
      NoHistory, revocation, OldSteps, NewSteps
  <1>5. ASSUME NEW i \in Invocation, NEW j \in Jti, BeginRefresh(i, j)
        PROVE  Wiring'
    BY <1>5 DEF BeginRefresh, Begin, NoItems, NoHistory, revocation, NewSteps
  <1>6. ASSUME NEW i \in Invocation, RefreshLookup(i) PROVE Wiring'
    BY <1>6 DEF RefreshLookup, Goto, Finish, NoItems, NoHistory, revocation,
      OldSteps, NewSteps
  <1>7. ASSUME NEW i \in Invocation, NEW j \in Jti, RefreshExchange(i, j)
        PROVE  Wiring'
    BY <1>7, TimeAssumption DEF RefreshExchange, Generate, NoItems,
      NoHistory, revocation, OldSteps, NewSteps
  <1>8. ASSUME NEW i \in Invocation, RefreshPut(i) PROVE Wiring'
    BY <1>8 DEF RefreshPut, Goto, Ignored, NoItems, revocation, OldSteps,
      NewSteps
  <1>9. ASSUME NEW i \in Invocation, RefreshDelete(i) PROVE Wiring'
    BY <1>9 DEF RefreshDelete, Goto, Ignored, NoItems, revocation, OldSteps,
      NewSteps
  <1>10. ASSUME NEW i \in Invocation, RefreshPutSession(i) PROVE Wiring'
    BY <1>10 DEF RefreshPutSession, Goto, PutSession, Ignored, NoItems,
      revocation, OldSteps, NewSteps
  <1>11. ASSUME NEW i \in Invocation, RefreshRespond(i) PROVE Wiring'
    BY <1>11, NoneAssumption DEF RefreshRespond, Respond, Finish, NoItems,
      NoHistory, revocation, OldSteps, NewSteps
  <1>12. ASSUME NEW i \in Invocation, NEW j \in Jti, BeginLogout(i, j)
         PROVE  Wiring'
    BY <1>12 DEF BeginLogout, Begin, NoItems, NoHistory, revocation, NewSteps
  <1>13. ASSUME NEW i \in Invocation, LogoutDropRefresh(i) PROVE Wiring'
    BY <1>13 DEF LogoutDropRefresh, Goto, Ignored, NoItems, revocation,
      OldSteps, NewSteps
  <1>14. ASSUME NEW i \in Invocation, LogoutDropSession(i) PROVE Wiring'
    BY <1>14 DEF LogoutDropSession, Goto, DropSession, Indexed, Ignored,
      NoItems, revocation, OldSteps, NewSteps
  <1>15. ASSUME NEW i \in Invocation, LogoutDeny(i) PROVE Wiring'
    BY <1>15 DEF LogoutDeny, Finish, NoItems, NoHistory, revocation, OldSteps,
      NewSteps
  <1>16. ASSUME NEW i \in Invocation, NEW j \in Jti, NEW k \in Jti,
                BeginSwitch(i, j, k)
         PROVE  Wiring'
    BY <1>16 DEF BeginSwitch, Begin, Generate, NoItems, NoHistory,
      revocation, NewSteps
  <1>17. ASSUME NEW i \in Invocation, SwitchRevoke(i) PROVE Wiring'
    BY <1>17 DEF SwitchRevoke, Goto, MarkRevoked, Indexed, NoItems,
      revocation, OldSteps, NewSteps
  <1>18. ASSUME NEW i \in Invocation, SwitchPutSession(i) PROVE Wiring'
    BY <1>18 DEF SwitchPutSession, Goto, PutSession, Ignored, NoItems,
      revocation, OldSteps, NewSteps
  <1>19. ASSUME NEW i \in Invocation, SwitchRespond(i) PROVE Wiring'
    BY <1>19, NoneAssumption DEF SwitchRespond, Respond, Finish, NoItems,
      NoHistory, revocation, OldSteps, NewSteps
  <1>20. ASSUME NEW i \in Invocation, Abandon(i) PROVE Wiring'
    BY <1>20 DEF Abandon, Finish, NoItems, NoHistory, revocation, OldSteps,
      NewSteps
  <1>21. CASE PublishRevoke
    BY <1>21 DEF PublishRevoke, NoItems, NoHistory, invocations
  <1>22. CASE RevokeQuery
    BY <1>22 DEF RevokeQuery, NoItems, NoHistory, invocations
  <1>23. ASSUME NEW j \in Jti, RevokeUpdate(j) PROVE Wiring'
    BY <1>23 DEF RevokeUpdate, MarkRevoked, Indexed, NoHistory, invocations
  <1>24. CASE RevokeDeny
    BY <1>24 DEF RevokeDeny, NoItems, NoHistory, invocations
  <1>25. CASE RevokeDone
    BY <1>25 DEF RevokeDone, NoItems, NoHistory, invocations
  <1>26. CASE RevokeFail
    BY <1>26 DEF RevokeFail, Ignored, NoItems, invocations
  <1>27. ASSUME NEW j \in Jti, IndexCatchUp(j) PROVE Wiring'
    BY <1>27 DEF IndexCatchUp, NoHistory, invocations, revocation
  <1>28. ASSUME NEW j \in Jti, TtlRemove(j) PROVE Wiring'
    BY <1>28 DEF TtlRemove, DropSession, Indexed, NoHistory, invocations,
      revocation
  <1>29. ASSUME NEW j \in Jti, TtlRemoveRefresh(j) PROVE Wiring'
    BY <1>29 DEF TtlRemoveRefresh, NoItems, NoHistory, invocations,
      revocation
  <1>30. ASSUME NEW j \in Jti, StreamClean(j) PROVE Wiring'
    BY <1>30 DEF StreamClean, Ignored, NoItems, invocations, revocation
  <1>31. CASE Tick
    BY <1>31 DEF Tick, NoItems, NoHistory, invocations, revocation
  <1>32. CASE UNCHANGED vars
    BY <1>32 DEF vars, invocations, revocation
  <1> QED
    BY <1>1, <1>2, <1>3, <1>4, <1>5, <1>6, <1>7, <1>8, <1>9, <1>10, <1>11,
      <1>12, <1>13, <1>14, <1>15, <1>16, <1>17, <1>18, <1>19, <1>20, <1>21,
      <1>22, <1>23, <1>24, <1>25, <1>26, <1>27, <1>28, <1>29, <1>30, <1>31,
      <1>32 DEF Next, Invoke, Table, Revocation

\* Records are written under generated jtis, and the stream carries what the
\* sweep removed: records that have expired, and with them their tokens or not.
LEMMA LifetimeStep ==
  ASSUME TypeOK, Wiring, Lifetime, [Next]_vars
  PROVE  Lifetime'
PROOF
  <1> USE DEF TypeOK, Lifetime, Expired, Indexed, Images
  <1>1. ASSUME NEW i \in Invocation, NEW j \in Jti, BeginCallback(i, j)
        PROVE  Lifetime'
    BY <1>1, TimeAssumption DEF BeginCallback, Begin,
      Generate, NoItems, NoHistory, revocation
  <1>2. ASSUME NEW i \in Invocation, CallbackPutSession(i) PROVE Lifetime'
    BY <1>2 DEF CallbackPutSession, Goto, PutSession, Ignored, NoItems,
      revocation, Wiring, NewSteps
  <1>3. ASSUME NEW i \in Invocation, CallbackPutRefresh(i) PROVE Lifetime'
    BY <1>3 DEF CallbackPutRefresh, Goto, Ignored, NoItems, revocation
  <1>4. ASSUME NEW i \in Invocation, CallbackRespond(i) PROVE Lifetime'
    BY <1>4 DEF CallbackRespond, Respond, Finish, NoItems, NoHistory,
      revocation, Wiring, NewSteps
  <1>5. ASSUME NEW i \in Invocation, NEW j \in Jti, BeginRefresh(i, j)
        PROVE  Lifetime'
    BY <1>5 DEF BeginRefresh, Begin, NoItems, NoHistory, revocation
  <1>6. ASSUME NEW i \in Invocation, RefreshLookup(i) PROVE Lifetime'
    BY <1>6 DEF RefreshLookup, Goto, Finish, NoItems, NoHistory, revocation
  <1>7. ASSUME NEW i \in Invocation, NEW j \in Jti, RefreshExchange(i, j)
        PROVE  Lifetime'
    BY <1>7 DEF RefreshExchange, Generate, NoItems, NoHistory, revocation,
      Wiring, NewSteps
  <1>8. ASSUME NEW i \in Invocation, RefreshPut(i) PROVE Lifetime'
    BY <1>8 DEF RefreshPut, Goto, Ignored, NoItems, revocation
  <1>9. ASSUME NEW i \in Invocation, RefreshDelete(i) PROVE Lifetime'
    BY <1>9 DEF RefreshDelete, Goto, Ignored, NoItems, revocation
  <1>10. ASSUME NEW i \in Invocation, RefreshPutSession(i) PROVE Lifetime'
    BY <1>10 DEF RefreshPutSession, Goto, PutSession, Ignored, NoItems,
      revocation, Wiring, NewSteps
  <1>11. ASSUME NEW i \in Invocation, RefreshRespond(i) PROVE Lifetime'
    BY <1>11 DEF RefreshRespond, Respond, Finish, NoItems, NoHistory,
      revocation, Wiring, NewSteps
  <1>12. ASSUME NEW i \in Invocation, NEW j \in Jti, BeginLogout(i, j)
         PROVE  Lifetime'
    BY <1>12 DEF BeginLogout, Begin, NoItems, NoHistory, revocation
  <1>13. ASSUME NEW i \in Invocation, LogoutDropRefresh(i) PROVE Lifetime'
    BY <1>13 DEF LogoutDropRefresh, Goto, Ignored, NoItems, revocation
  <1>14. ASSUME NEW i \in Invocation, LogoutDropSession(i) PROVE Lifetime'
    BY <1>14 DEF LogoutDropSession, Goto, DropSession, Indexed, Ignored,
      NoItems, revocation
  <1>15. ASSUME NEW i \in Invocation, LogoutDeny(i) PROVE Lifetime'
    BY <1>15 DEF LogoutDeny, Finish, NoItems, NoHistory, revocation
  <1>16. ASSUME NEW i \in Invocation, NEW j \in Jti, NEW k \in Jti,
                BeginSwitch(i, j, k)
         PROVE  Lifetime'
    BY <1>16 DEF BeginSwitch, Begin, Generate, NoItems, NoHistory,
      revocation, Wiring, NewSteps
  <1>17. ASSUME NEW i \in Invocation, SwitchRevoke(i) PROVE Lifetime'
    BY <1>17 DEF SwitchRevoke, Goto, MarkRevoked, Indexed, NoItems,
      revocation
  <1>18. ASSUME NEW i \in Invocation, SwitchPutSession(i) PROVE Lifetime'
    BY <1>18 DEF SwitchPutSession, Goto, PutSession, Ignored, NoItems,
      revocation, Wiring, NewSteps
  <1>19. ASSUME NEW i \in Invocation, SwitchRespond(i) PROVE Lifetime'
    BY <1>19 DEF SwitchRespond, Respond, Finish, NoItems, NoHistory,
      revocation, Wiring, NewSteps
  <1>20. ASSUME NEW i \in Invocation, Abandon(i) PROVE Lifetime'
    BY <1>20 DEF Abandon, Finish, NoItems, NoHistory, revocation
  <1>21. CASE PublishRevoke
    BY <1>21 DEF PublishRevoke, NoItems, NoHistory, invocations
  <1>22. CASE RevokeQuery
    BY <1>22 DEF RevokeQuery, NoItems, NoHistory, invocations
  <1>23. ASSUME NEW j \in Jti, RevokeUpdate(j) PROVE Lifetime'
    BY <1>23 DEF RevokeUpdate, MarkRevoked, Indexed, NoHistory, invocations
  <1>24. CASE RevokeDeny
    BY <1>24 DEF RevokeDeny, NoItems, NoHistory, invocations
  <1>25. CASE RevokeDone
    BY <1>25 DEF RevokeDone, NoItems, NoHistory, invocations
  <1>26. CASE RevokeFail
    BY <1>26 DEF RevokeFail, Ignored, NoItems, invocations
  <1>27. ASSUME NEW j \in Jti, IndexCatchUp(j) PROVE Lifetime'
    BY <1>27 DEF IndexCatchUp, NoHistory, invocations, revocation
  <1>28. ASSUME NEW j \in Jti, TtlRemove(j) PROVE Lifetime'
    <2>1. UNCHANGED <<exp, now>> /\ lapsed \subseteq lapsed'
      BY <1>28 DEF TtlRemove, invocations
    <2>2. \A k \in Jti : Indexed(k)' => Indexed(k)
      BY <1>28 DEF TtlRemove, DropSession
    <2>3. exp[j] # 0 /\ (Expired(j) \/ j \in lapsed')
      <3>1. sessionExp[j] < now /\ exp[j] # 0
        BY <1>28 DEF TtlRemove
      <3>2. sessionExp[j] < exp[j] => j \in lapsed'
        BY <1>28 DEF TtlRemove
      <3>3. sessionExp[j] \in Nat /\ exp[j] \in Nat /\ now \in Nat
        OBVIOUS
      <3> QED
        BY <3>1, <3>2, <3>3, SMT
    <2>4. \A k \in Jti, image \in Images :
            <<k, image>> \in stream' => <<k, image>> \in stream \/ k = j
      BY <1>28 DEF TtlRemove
    <2> QED
      BY <2>1, <2>2, <2>3, <2>4
  <1>29. ASSUME NEW j \in Jti, TtlRemoveRefresh(j) PROVE Lifetime'
    BY <1>29 DEF TtlRemoveRefresh, NoItems, NoHistory, invocations,
      revocation
  <1>30. ASSUME NEW j \in Jti, StreamClean(j) PROVE Lifetime'
    BY <1>30 DEF StreamClean, Ignored, NoItems, invocations, revocation
  <1>31. CASE Tick
    <2>1. /\ now' = now + 1
          /\ UNCHANGED <<exp, session, stream, lapsed>>
      BY <1>31 DEF Tick, NoItems, NoHistory
    <2>2. \A j \in Jti : Expired(j) => Expired(j)'
      BY <2>1
    <2>3. \A j \in Jti : Indexed(j)' <=> Indexed(j)
      BY <2>1
    <2> QED
      BY <2>1, <2>2, <2>3
  <1>32. CASE UNCHANGED vars
    BY <1>32 DEF vars, invocations, revocation
  <1> QED
    BY <1>1, <1>2, <1>3, <1>4, <1>5, <1>6, <1>7, <1>8, <1>9, <1>10, <1>11,
      <1>12, <1>13, <1>14, <1>15, <1>16, <1>17, <1>18, <1>19, <1>20, <1>21,
      <1>22, <1>23, <1>24, <1>25, <1>26, <1>27, <1>28, <1>29, <1>30, <1>31,
      <1>32 DEF Next, Invoke, Table, Revocation

\* Type correctness of the session layer, whatever the lifetimes.
THEOREM TypeCorrect == Spec => []TypeOK
PROOF
  <1>1. Init => TypeOK /\ Wiring
    BY InvInit DEF Inv
  <1>2. TypeOK /\ Wiring /\ [Next]_vars => (TypeOK /\ Wiring)'
    BY TypeStep, WiringStep
  <1> QED
    BY <1>1, <1>2, PTL DEF Spec

\* Types, wiring and lifetimes hold throughout: the inductive base of the
\* theorems below.
THEOREM InvAlways == Spec => []Inv
PROOF
  <1>1. Inv /\ [Next]_vars => Inv'
    BY TypeStep, WiringStep, LifetimeStep DEF Inv
  <1> QED
    BY <1>1, InvInit, PTL DEF Spec

\* A record is written with a life at least its token's, where the callback's
\* tokens fit.
LEMMA FitsStep ==
  ASSUME TokensWithinRecords, TypeOK, Wiring, Lifetime, Fits, [Next]_vars
  PROVE  Fits'
PROOF
  <1> USE DEF TypeOK, Fits, Indexed, Images
  <1>1. ASSUME NEW i \in Invocation, NEW j \in Jti, BeginCallback(i, j)
        PROVE  Fits'
    <2>1. PICK L \in IdpLifetimes : exp' = [exp EXCEPT ![j] = now + L]
      BY <1>1 DEF BeginCallback, Generate
    <2>2. L <= SessionTtl /\ L \in Nat /\ SessionTtl \in Nat
      BY TimeAssumption DEF TokensWithinRecords
    <2>3. /\ exp[j] = 0 /\ new' = [new EXCEPT ![i] = j]
          /\ pc' = [pc EXCEPT ![i] = "cbSession"]
          /\ UNCHANGED <<now, session, sessionExp, lapsed>>
      BY <1>1 DEF BeginCallback, Begin, Generate, NoItems, NoHistory
    <2>4. \A k \in Jti : Indexed(k)' => exp'[k] = exp[k] /\ Indexed(k)
      BY <2>1, <2>3 DEF Lifetime
    <2>5. ASSUME NEW k \in Invocation, k # i, pc'[k] = "cbSession"
          PROVE  exp'[new'[k]] <= now' + SessionTtl
      BY <2>1, <2>3, <2>5 DEF Wiring, NewSteps
    <2>6. exp'[new'[i]] <= now' + SessionTtl
      BY <2>1, <2>2, <2>3
    <2> QED
      BY <2>3, <2>4, <2>5, <2>6
  <1>2. ASSUME NEW i \in Invocation, CallbackPutSession(i) PROVE Fits'
    BY <1>2 DEF CallbackPutSession, Goto, PutSession, Ignored, NoItems,
      revocation, Wiring, NewSteps
  <1>3. ASSUME NEW i \in Invocation, CallbackPutRefresh(i) PROVE Fits'
    BY <1>3 DEF CallbackPutRefresh, Goto, Ignored, NoItems, revocation
  <1>4. ASSUME NEW i \in Invocation, CallbackRespond(i) PROVE Fits'
    BY <1>4 DEF CallbackRespond, Respond, Finish, NoItems, NoHistory,
      revocation, Wiring, NewSteps
  <1>5. ASSUME NEW i \in Invocation, NEW j \in Jti, BeginRefresh(i, j)
        PROVE  Fits'
    BY <1>5 DEF BeginRefresh, Begin, NoItems, NoHistory, revocation
  <1>6. ASSUME NEW i \in Invocation, RefreshLookup(i) PROVE Fits'
    BY <1>6 DEF RefreshLookup, Goto, Finish, NoItems, NoHistory, revocation
  <1>7. ASSUME NEW i \in Invocation, NEW j \in Jti, RefreshExchange(i, j)
        PROVE  Fits'
    <2>1. /\ exp[j] = 0 /\ new' = [new EXCEPT ![i] = j]
          /\ \A k \in Jti : k # j => exp'[k] = exp[k]
          /\ pc' = [pc EXCEPT ![i] = "rfPut"]
          /\ UNCHANGED <<now, session, sessionExp, lapsed>>
      BY <1>7 DEF RefreshExchange, Generate, NoItems, NoHistory
    <2>2. \A k \in Jti : Indexed(k)' => exp'[k] = exp[k] /\ Indexed(k)
      BY <2>1 DEF Lifetime
    <2>3. ASSUME NEW k \in Invocation, pc'[k] = "cbSession"
          PROVE  exp'[new'[k]] <= now' + SessionTtl
      BY <2>1, <2>3 DEF Wiring, NewSteps
    <2> QED
      BY <2>1, <2>2, <2>3
  <1>8. ASSUME NEW i \in Invocation, RefreshPut(i) PROVE Fits'
    BY <1>8 DEF RefreshPut, Goto, Ignored, NoItems, revocation
  <1>9. ASSUME NEW i \in Invocation, RefreshDelete(i) PROVE Fits'
    BY <1>9 DEF RefreshDelete, Goto, Ignored, NoItems, revocation
  <1>10. ASSUME NEW i \in Invocation, RefreshPutSession(i) PROVE Fits'
    BY <1>10 DEF RefreshPutSession, Goto, PutSession, Ignored, NoItems,
      revocation, Wiring, NewSteps
  <1>11. ASSUME NEW i \in Invocation, RefreshRespond(i) PROVE Fits'
    BY <1>11 DEF RefreshRespond, Respond, Finish, NoItems, NoHistory,
      revocation, Wiring, NewSteps
  <1>12. ASSUME NEW i \in Invocation, NEW j \in Jti, BeginLogout(i, j)
         PROVE  Fits'
    BY <1>12 DEF BeginLogout, Begin, NoItems, NoHistory, revocation
  <1>13. ASSUME NEW i \in Invocation, LogoutDropRefresh(i) PROVE Fits'
    BY <1>13 DEF LogoutDropRefresh, Goto, Ignored, NoItems, revocation
  <1>14. ASSUME NEW i \in Invocation, LogoutDropSession(i) PROVE Fits'
    BY <1>14 DEF LogoutDropSession, Goto, DropSession, Indexed, Ignored,
      NoItems, revocation
  <1>15. ASSUME NEW i \in Invocation, LogoutDeny(i) PROVE Fits'
    BY <1>15 DEF LogoutDeny, Finish, NoItems, NoHistory, revocation
  <1>16. ASSUME NEW i \in Invocation, NEW j \in Jti, NEW k \in Jti,
                BeginSwitch(i, j, k)
         PROVE  Fits'
    BY <1>16 DEF BeginSwitch, Begin, Generate, NoItems, NoHistory,
      revocation, Lifetime, Wiring, NewSteps
  <1>17. ASSUME NEW i \in Invocation, SwitchRevoke(i) PROVE Fits'
    BY <1>17 DEF SwitchRevoke, Goto, MarkRevoked, Indexed, NoItems,
      revocation
  <1>18. ASSUME NEW i \in Invocation, SwitchPutSession(i) PROVE Fits'
    BY <1>18 DEF SwitchPutSession, Goto, PutSession, Ignored, NoItems,
      revocation, Wiring, NewSteps
  <1>19. ASSUME NEW i \in Invocation, SwitchRespond(i) PROVE Fits'
    BY <1>19 DEF SwitchRespond, Respond, Finish, NoItems, NoHistory,
      revocation, Wiring, NewSteps
  <1>20. ASSUME NEW i \in Invocation, Abandon(i) PROVE Fits'
    BY <1>20 DEF Abandon, Finish, NoItems, NoHistory, revocation
  <1>21. CASE PublishRevoke
    BY <1>21 DEF PublishRevoke, NoItems, NoHistory, invocations
  <1>22. CASE RevokeQuery
    BY <1>22 DEF RevokeQuery, NoItems, NoHistory, invocations
  <1>23. ASSUME NEW j \in Jti, RevokeUpdate(j) PROVE Fits'
    BY <1>23 DEF RevokeUpdate, MarkRevoked, Indexed, NoHistory, invocations
  <1>24. CASE RevokeDeny
    BY <1>24 DEF RevokeDeny, NoItems, NoHistory, invocations
  <1>25. CASE RevokeDone
    BY <1>25 DEF RevokeDone, NoItems, NoHistory, invocations
  <1>26. CASE RevokeFail
    BY <1>26 DEF RevokeFail, Ignored, NoItems, invocations
  <1>27. ASSUME NEW j \in Jti, IndexCatchUp(j) PROVE Fits'
    BY <1>27 DEF IndexCatchUp, NoHistory, invocations, revocation
  <1>28. ASSUME NEW j \in Jti, TtlRemove(j) PROVE Fits'
    BY <1>28 DEF TtlRemove, DropSession, Indexed, NoHistory, invocations,
      revocation
  <1>29. ASSUME NEW j \in Jti, TtlRemoveRefresh(j) PROVE Fits'
    BY <1>29 DEF TtlRemoveRefresh, NoItems, NoHistory, invocations,
      revocation
  <1>30. ASSUME NEW j \in Jti, StreamClean(j) PROVE Fits'
    BY <1>30 DEF StreamClean, Ignored, NoItems, invocations, revocation
  <1>31. CASE Tick
    BY <1>31, TimeAssumption DEF Tick, NoItems, NoHistory, invocations,
      revocation, Wiring, NewSteps
  <1>32. CASE UNCHANGED vars
    BY <1>32 DEF vars, invocations, revocation
  <1> QED
    BY <1>1, <1>2, <1>3, <1>4, <1>5, <1>6, <1>7, <1>8, <1>9, <1>10, <1>11,
      <1>12, <1>13, <1>14, <1>15, <1>16, <1>17, <1>18, <1>19, <1>20, <1>21,
      <1>22, <1>23, <1>24, <1>25, <1>26, <1>27, <1>28, <1>29, <1>30, <1>31,
      <1>32 DEF Next, Invoke, Table, Revocation

\* Where the IdP's tokens do not outlive the 3600 s of a callback's record (the
\* code does not check it), no token lapses, so that none of the excuses above
\* and of TokenAuthority for lapsed tokens is ever needed.
THEOREM NothingLapses ==
  ASSUME TokensWithinRecords
  PROVE  Spec => [](lapsed = {})
PROOF
  <1>1. Init => Fits
    BY DEF Init, Fits, Indexed, Images
  <1>2. Inv /\ Fits /\ [Next]_vars => Fits'
    BY FitsStep DEF Inv
  <1>3. Fits => lapsed = {}
    BY DEF Fits
  <1> QED
    BY <1>1, <1>2, <1>3, InvAlways, PTL DEF Spec

-----------------------------------------------------------------------------
(* Revocable                                                               *)

\* From the write of its record on a token stays findable: every step that
\* takes the record away denies the token, is about to, failed to, or is a
\* switch.
LEMMA RecordedStep ==
  ASSUME TypeOK, Wiring, Lifetime, RecordedRevocable, [Next]_vars
  PROVE  RecordedRevocable'
PROOF
  <1> USE DEF TypeOK, RecordedRevocable, Recorded, Dead, Expired, Pending,
    Failed
  <1>1. ASSUME NEW i \in Invocation, NEW j \in Jti, BeginCallback(i, j)
        PROVE  RecordedRevocable'
    BY <1>1 DEF BeginCallback, Begin, Generate, NoItems, NoHistory,
      revocation, Wiring, Lifetime, NewSteps
  <1>2. ASSUME NEW i \in Invocation, CallbackPutSession(i)
        PROVE  RecordedRevocable'
    BY <1>2 DEF CallbackPutSession, Goto, PutSession, Ignored, NoItems,
      revocation
  <1>3. ASSUME NEW i \in Invocation, CallbackPutRefresh(i)
        PROVE  RecordedRevocable'
    BY <1>3 DEF CallbackPutRefresh, Goto, Ignored, NoItems, revocation
  <1>4. ASSUME NEW i \in Invocation, CallbackRespond(i)
        PROVE  RecordedRevocable'
    BY <1>4 DEF CallbackRespond, Respond, Finish, NoItems, NoHistory,
      revocation
  <1>5. ASSUME NEW i \in Invocation, NEW j \in Jti, BeginRefresh(i, j)
        PROVE  RecordedRevocable'
    BY <1>5 DEF BeginRefresh, Begin, NoItems, NoHistory, revocation
  <1>6. ASSUME NEW i \in Invocation, RefreshLookup(i)
        PROVE  RecordedRevocable'
    BY <1>6 DEF RefreshLookup, Goto, Finish, NoItems, NoHistory, revocation
  <1>7. ASSUME NEW i \in Invocation, NEW j \in Jti, RefreshExchange(i, j)
        PROVE  RecordedRevocable'
    BY <1>7 DEF RefreshExchange, Generate, NoItems, NoHistory, revocation,
      Wiring, Lifetime, NewSteps
  <1>8. ASSUME NEW i \in Invocation, RefreshPut(i) PROVE RecordedRevocable'
    BY <1>8 DEF RefreshPut, Goto, Ignored, NoItems, revocation
  <1>9. ASSUME NEW i \in Invocation, RefreshDelete(i)
        PROVE  RecordedRevocable'
    BY <1>9 DEF RefreshDelete, Goto, Ignored, NoItems, revocation
  <1>10. ASSUME NEW i \in Invocation, RefreshPutSession(i)
         PROVE  RecordedRevocable'
    BY <1>10 DEF RefreshPutSession, Goto, PutSession, Ignored, NoItems,
      revocation
  <1>11. ASSUME NEW i \in Invocation, RefreshRespond(i)
         PROVE  RecordedRevocable'
    BY <1>11 DEF RefreshRespond, Respond, Finish, NoItems, NoHistory,
      revocation
  <1>12. ASSUME NEW i \in Invocation, NEW j \in Jti, BeginLogout(i, j)
         PROVE  RecordedRevocable'
    BY <1>12 DEF BeginLogout, Begin, NoItems, NoHistory, revocation
  <1>13. ASSUME NEW i \in Invocation, LogoutDropRefresh(i)
         PROVE  RecordedRevocable'
    BY <1>13 DEF LogoutDropRefresh, Goto, Ignored, NoItems, revocation
  <1>14. ASSUME NEW i \in Invocation, LogoutDropSession(i)
         PROVE  RecordedRevocable'
    BY <1>14 DEF LogoutDropSession, Goto, DropSession, Indexed, Ignored,
      NoItems, revocation
  <1>15. ASSUME NEW i \in Invocation, LogoutDeny(i) PROVE RecordedRevocable'
    BY <1>15 DEF LogoutDeny, Finish, NoItems, NoHistory, revocation
  <1>16. ASSUME NEW i \in Invocation, NEW j \in Jti, NEW k \in Jti,
                BeginSwitch(i, j, k)
         PROVE  RecordedRevocable'
    BY <1>16 DEF BeginSwitch, Begin, Generate, NoItems, NoHistory,
      revocation, Wiring, Lifetime, NewSteps
  <1>17. ASSUME NEW i \in Invocation, SwitchRevoke(i)
         PROVE  RecordedRevocable'
    BY <1>17 DEF SwitchRevoke, Goto, MarkRevoked, Indexed, NoItems,
      revocation
  <1>18. ASSUME NEW i \in Invocation, SwitchPutSession(i)
         PROVE  RecordedRevocable'
    BY <1>18 DEF SwitchPutSession, Goto, PutSession, Ignored, NoItems,
      revocation
  <1>19. ASSUME NEW i \in Invocation, SwitchRespond(i)
         PROVE  RecordedRevocable'
    BY <1>19 DEF SwitchRespond, Respond, Finish, NoItems, NoHistory,
      revocation
  <1>20. ASSUME NEW i \in Invocation, Abandon(i) PROVE RecordedRevocable'
    BY <1>20 DEF Abandon, Finish, NoItems, NoHistory, revocation
  <1>21. CASE PublishRevoke
    BY <1>21 DEF PublishRevoke, NoItems, NoHistory, invocations
  <1>22. CASE RevokeQuery
    BY <1>22 DEF RevokeQuery, NoItems, NoHistory, invocations
  <1>23. ASSUME NEW j \in Jti, RevokeUpdate(j) PROVE RecordedRevocable'
    BY <1>23 DEF RevokeUpdate, MarkRevoked, Indexed, NoHistory, invocations
  <1>24. CASE RevokeDeny
    BY <1>24 DEF RevokeDeny, NoItems, NoHistory, invocations
  <1>25. CASE RevokeDone
    BY <1>25 DEF RevokeDone, NoItems, NoHistory, invocations
  <1>26. CASE RevokeFail
    BY <1>26 DEF RevokeFail, Ignored, NoItems, invocations
  <1>27. ASSUME NEW j \in Jti, IndexCatchUp(j) PROVE RecordedRevocable'
    BY <1>27 DEF IndexCatchUp, NoHistory, invocations, revocation
  <1>28. ASSUME NEW j \in Jti, TtlRemove(j) PROVE RecordedRevocable'
    BY <1>28 DEF TtlRemove, DropSession, Indexed, NoHistory, invocations,
      revocation, Wiring, Lifetime
  <1>29. ASSUME NEW j \in Jti, TtlRemoveRefresh(j) PROVE RecordedRevocable'
    BY <1>29 DEF TtlRemoveRefresh, NoItems, NoHistory, invocations,
      revocation
  <1>30. ASSUME NEW j \in Jti, StreamClean(j) PROVE RecordedRevocable'
    BY <1>30 DEF StreamClean, Ignored, NoItems, invocations, revocation,
      Wiring, Lifetime
  <1>31. CASE Tick
    BY <1>31 DEF Tick, NoItems, NoHistory, invocations, revocation
  <1>32. CASE UNCHANGED vars
    BY <1>32 DEF vars, invocations, revocation
  <1> QED
    BY <1>1, <1>2, <1>3, <1>4, <1>5, <1>6, <1>7, <1>8, <1>9, <1>10, <1>11,
      <1>12, <1>13, <1>14, <1>15, <1>16, <1>17, <1>18, <1>19, <1>20, <1>21,
      <1>22, <1>23, <1>24, <1>25, <1>26, <1>27, <1>28, <1>29, <1>30, <1>31,
      <1>32 DEF Next, Invoke, Table, Revocation

\* A token the edge still accepts has an active session record, or one of the
\* listed reasons not to: what the callback, refresh, logout, switch and
\* revocation lambdas write against what the edge reads.
THEOREM RevocableAlways == Spec => []Revocable
PROOF
  <1>1. Init => RecordedRevocable
    BY DEF Init, RecordedRevocable, Recorded
  <1>2. Inv /\ RecordedRevocable /\ [Next]_vars => RecordedRevocable'
    BY RecordedStep DEF Inv
  <1>3. Inv /\ RecordedRevocable => Revocable
    BY DEF Inv, TypeOK, RecordedRevocable, Recorded, Revocable
  <1> QED
    BY <1>1, <1>2, <1>3, InvAlways, PTL DEF Spec

-----------------------------------------------------------------------------
(* Logout                                                                  *)

\* No step undoes what a logout achieved: other invocations write refresh and
\* session items under generated tokens only, and marking a deleted record
\* leaves a ghost.
LEMMA LogoutStep ==
  ASSUME TypeOK, Wiring, Lifetime, LogoutInv, [Next]_vars
  PROVE  LogoutInv'
PROOF
  <1> USE DEF TypeOK, LogoutInv, LogoutProgress, LogoutForgets, Dead,
    Expired, Indexed, Failed
  <1>1. ASSUME NEW i \in Invocation, NEW j \in Jti, BeginCallback(i, j)
        PROVE  LogoutInv'
    BY <1>1 DEF BeginCallback, Begin, Generate, NoItems, NoHistory,
      revocation, Wiring, Lifetime
  <1>2. ASSUME NEW i \in Invocation, CallbackPutSession(i) PROVE LogoutInv'
    BY <1>2 DEF CallbackPutSession, Goto, PutSession, Ignored, NoItems,
      revocation, Wiring, OldSteps, NewSteps
  <1>3. ASSUME NEW i \in Invocation, CallbackPutRefresh(i) PROVE LogoutInv'
    BY <1>3 DEF CallbackPutRefresh, Goto, Ignored, NoItems, revocation,
      Wiring, OldSteps, NewSteps
  <1>4. ASSUME NEW i \in Invocation, CallbackRespond(i) PROVE LogoutInv'
    BY <1>4 DEF CallbackRespond, Respond, Finish, NoItems, NoHistory,
      revocation
  <1>5. ASSUME NEW i \in Invocation, NEW j \in Jti, BeginRefresh(i, j)
        PROVE  LogoutInv'
    BY <1>5 DEF BeginRefresh, Begin, NoItems, NoHistory, revocation
  <1>6. ASSUME NEW i \in Invocation, RefreshLookup(i)
        PROVE  (LogoutProgress /\ LogoutForgets)'
    BY <1>6 DEF RefreshLookup, Goto, Finish, NoItems, NoHistory, revocation
  <1>7. ASSUME NEW i \in Invocation, NEW j \in Jti, RefreshExchange(i, j)
        PROVE  LogoutInv'
    BY <1>7 DEF RefreshExchange, Generate, NoItems, NoHistory, revocation,
      Wiring, Lifetime
  <1>8. ASSUME NEW i \in Invocation, RefreshPut(i)
        PROVE  (LogoutProgress /\ LogoutForgets)'
    BY <1>8 DEF RefreshPut, Goto, Ignored, NoItems, revocation, Wiring,
      OldSteps, NewSteps
  <1>9. ASSUME NEW i \in Invocation, RefreshDelete(i)
        PROVE  (LogoutProgress /\ LogoutForgets)'
    BY <1>9 DEF RefreshDelete, Goto, Ignored, NoItems, revocation
  <1>10. ASSUME NEW i \in Invocation, RefreshPutSession(i) PROVE LogoutInv'
    BY <1>10 DEF RefreshPutSession, Goto, PutSession, Ignored, NoItems,
      revocation, Wiring, OldSteps, NewSteps
  <1>11. ASSUME NEW i \in Invocation, RefreshRespond(i) PROVE LogoutInv'
    BY <1>11 DEF RefreshRespond, Respond, Finish, NoItems, NoHistory,
      revocation
  <1>12. ASSUME NEW i \in Invocation, NEW j \in Jti, BeginLogout(i, j)
         PROVE  LogoutInv'
    BY <1>12 DEF BeginLogout, Begin, NoItems, NoHistory, revocation
  <1>13. ASSUME NEW i \in Invocation, LogoutDropRefresh(i) PROVE LogoutInv'
    BY <1>13 DEF LogoutDropRefresh, Goto, Ignored, NoItems, revocation
  <1>14. ASSUME NEW i \in Invocation, LogoutDropSession(i) PROVE LogoutInv'
    BY <1>14 DEF LogoutDropSession, Goto, DropSession, Indexed, Images,
      Ignored, NoItems, revocation, Wiring, OldSteps
  <1>15. ASSUME NEW i \in Invocation, LogoutDeny(i)
         PROVE  (LogoutProgress /\ LogoutForgets)'
    BY <1>15 DEF LogoutDeny, Finish, NoItems, NoHistory, revocation
  <1>16. ASSUME NEW i \in Invocation, NEW j \in Jti, NEW k \in Jti,
                BeginSwitch(i, j, k)
         PROVE  LogoutInv'
    BY <1>16 DEF BeginSwitch, Begin, Generate, NoItems, NoHistory,
      revocation, Wiring, Lifetime
  <1>17. ASSUME NEW i \in Invocation, SwitchRevoke(i)
         PROVE  (LogoutProgress /\ LogoutForgets)'
    BY <1>17 DEF SwitchRevoke, Goto, MarkRevoked, Indexed, Images, NoItems,
      revocation, Wiring, OldSteps
  <1>18. ASSUME NEW i \in Invocation, SwitchPutSession(i) PROVE LogoutInv'
    BY <1>18 DEF SwitchPutSession, Goto, PutSession, Ignored, NoItems,
      revocation, Wiring, OldSteps, NewSteps
  <1>19. ASSUME NEW i \in Invocation, SwitchRespond(i)
         PROVE  (LogoutProgress /\ LogoutForgets)'
    BY <1>19 DEF SwitchRespond, Respond, Finish, NoItems, NoHistory,
      revocation
  <1>20. ASSUME NEW i \in Invocation, Abandon(i)
         PROVE  (LogoutProgress /\ LogoutForgets)'
    BY <1>20 DEF Abandon, Finish, NoItems, NoHistory, revocation
  <1>21. CASE PublishRevoke
    BY <1>21 DEF PublishRevoke, NoItems, NoHistory, invocations
  <1>22. CASE RevokeQuery
    BY <1>22 DEF RevokeQuery, NoItems, NoHistory, invocations
  <1>23. ASSUME NEW j \in Jti, RevokeUpdate(j)
         PROVE  (LogoutProgress /\ LogoutForgets)'
    BY <1>23 DEF RevokeUpdate, MarkRevoked, Indexed, Images, NoHistory,
      invocations
  <1>24. CASE RevokeDeny
    BY <1>24 DEF RevokeDeny, NoItems, NoHistory, invocations
  <1>25. CASE RevokeDone
    BY <1>25 DEF RevokeDone, NoItems, NoHistory, invocations
  <1>26. CASE RevokeFail
    BY <1>26 DEF RevokeFail, Ignored, NoItems, invocations
  <1>27. ASSUME NEW j \in Jti, IndexCatchUp(j)
         PROVE  (LogoutProgress /\ LogoutForgets)'
    BY <1>27 DEF IndexCatchUp, NoHistory, invocations, revocation
  <1>28. ASSUME NEW j \in Jti, TtlRemove(j)
         PROVE  (LogoutProgress /\ LogoutForgets)'
    BY <1>28 DEF TtlRemove, DropSession, Indexed, Images, NoHistory,
      invocations, revocation
  <1>29. ASSUME NEW j \in Jti, TtlRemoveRefresh(j)
         PROVE  (LogoutProgress /\ LogoutForgets)'
    BY <1>29 DEF TtlRemoveRefresh, NoItems, NoHistory, invocations,
      revocation
  <1>30. ASSUME NEW j \in Jti, StreamClean(j)
         PROVE  (LogoutProgress /\ LogoutForgets)'
    BY <1>30 DEF StreamClean, Ignored, NoItems, invocations, revocation,
      Wiring, Lifetime
  <1>31. CASE Tick
    BY <1>31 DEF Tick, NoItems, NoHistory, invocations, revocation
  <1>32. CASE UNCHANGED vars
    BY <1>32 DEF vars, invocations, revocation
  <1> QED
    BY <1>1, <1>2, <1>3, <1>4, <1>5, <1>6, <1>7, <1>8, <1>9, <1>10, <1>11,
      <1>12, <1>13, <1>14, <1>15, <1>16, <1>17, <1>18, <1>19, <1>20, <1>21,
      <1>22, <1>23, <1>24, <1>25, <1>26, <1>27, <1>28, <1>29, <1>30, <1>31,
      <1>32 DEF Next, Invoke, Table, Revocation

\* What a logout deleted does not come back, whatever else runs on the token
\* (logout/index.py against refresh, switch and revocation).
THEOREM LogoutForgotten == Spec => []LogoutForgets
PROOF
  <1>1. Init => LogoutInv
    BY DEF Init, LogoutInv, LogoutProgress, LogoutForgets
  <1>2. Inv /\ LogoutInv /\ [Next]_vars => LogoutInv'
    BY LogoutStep DEF Inv
  <1>3. LogoutInv => LogoutForgets
    BY DEF LogoutInv
  <1> QED
    BY <1>1, <1>2, <1>3, InvAlways, PTL DEF Spec

-----------------------------------------------------------------------------
(* Revocation                                                              *)

\* The query returns every record Revocable promises, but for those it cannot
\* see, and the loop removes a jti from its batch only to denylist it.
LEMMA RevocationStep ==
  ASSUME TypeOK, Wiring, Lifetime, Revocable, RevocationInv, [Next]_vars
  PROVE  RevocationInv'
PROOF
  <1> USE DEF TypeOK, RevocationInv, RevocationProgress,
    CleanRevocationKills, Dead, Expired, Pending, Failed
  <1>1. ASSUME NEW i \in Invocation, NEW j \in Jti, BeginCallback(i, j)
        PROVE  RevocationInv'
    BY <1>1 DEF BeginCallback, Begin, Generate, NoItems, NoHistory,
      revocation, Wiring, Lifetime
  <1>2. ASSUME NEW i \in Invocation, CallbackPutSession(i)
        PROVE  RevocationInv'
    BY <1>2 DEF CallbackPutSession, Goto, PutSession, Ignored, NoItems,
      revocation
  <1>3. ASSUME NEW i \in Invocation, CallbackPutRefresh(i)
        PROVE  RevocationInv'
    BY <1>3 DEF CallbackPutRefresh, Goto, Ignored, NoItems, revocation
  <1>4. ASSUME NEW i \in Invocation, CallbackRespond(i) PROVE RevocationInv'
    BY <1>4 DEF CallbackRespond, Respond, Finish, NoItems, NoHistory,
      revocation
  <1>5. ASSUME NEW i \in Invocation, NEW j \in Jti, BeginRefresh(i, j)
        PROVE  RevocationInv'
    BY <1>5 DEF BeginRefresh, Begin, NoItems, NoHistory, revocation
  <1>6. ASSUME NEW i \in Invocation, RefreshLookup(i) PROVE RevocationInv'
    BY <1>6 DEF RefreshLookup, Goto, Finish, NoItems, NoHistory, revocation
  <1>7. ASSUME NEW i \in Invocation, NEW j \in Jti, RefreshExchange(i, j)
        PROVE  RevocationInv'
    BY <1>7 DEF RefreshExchange, Generate, NoItems, NoHistory, revocation,
      Wiring, Lifetime
  <1>8. ASSUME NEW i \in Invocation, RefreshPut(i)
        PROVE  (RevocationProgress /\ CleanRevocationKills)'
    BY <1>8 DEF RefreshPut, Goto, Ignored, NoItems, revocation
  <1>9. ASSUME NEW i \in Invocation, RefreshDelete(i) PROVE RevocationInv'
    BY <1>9 DEF RefreshDelete, Goto, Ignored, NoItems, revocation
  <1>10. ASSUME NEW i \in Invocation, RefreshPutSession(i)
         PROVE  RevocationInv'
    BY <1>10 DEF RefreshPutSession, Goto, PutSession, Ignored, NoItems,
      revocation
  <1>11. ASSUME NEW i \in Invocation, RefreshRespond(i) PROVE RevocationInv'
    BY <1>11 DEF RefreshRespond, Respond, Finish, NoItems, NoHistory,
      revocation
  <1>12. ASSUME NEW i \in Invocation, NEW j \in Jti, BeginLogout(i, j)
         PROVE  RevocationInv'
    BY <1>12 DEF BeginLogout, Begin, NoItems, NoHistory, revocation
  <1>13. ASSUME NEW i \in Invocation, LogoutDropRefresh(i)
         PROVE  RevocationInv'
    BY <1>13 DEF LogoutDropRefresh, Goto, Ignored, NoItems, revocation
  <1>14. ASSUME NEW i \in Invocation, LogoutDropSession(i)
         PROVE  RevocationInv'
    BY <1>14 DEF LogoutDropSession, Goto, DropSession, Indexed, Ignored,
      NoItems, revocation
  <1>15. ASSUME NEW i \in Invocation, LogoutDeny(i) PROVE RevocationInv'
    BY <1>15 DEF LogoutDeny, Finish, NoItems, NoHistory, revocation
  <1>16. ASSUME NEW i \in Invocation, NEW j \in Jti, NEW k \in Jti,
                BeginSwitch(i, j, k)
         PROVE  RevocationInv'
    BY <1>16 DEF BeginSwitch, Begin, Generate, NoItems, NoHistory,
      revocation, Wiring, Lifetime
  <1>17. ASSUME NEW i \in Invocation, SwitchRevoke(i) PROVE RevocationInv'
    BY <1>17 DEF SwitchRevoke, Goto, MarkRevoked, Indexed, NoItems,
      revocation
  <1>18. ASSUME NEW i \in Invocation, SwitchPutSession(i)
         PROVE  RevocationInv'
    BY <1>18 DEF SwitchPutSession, Goto, PutSession, Ignored, NoItems,
      revocation
  <1>19. ASSUME NEW i \in Invocation, SwitchRespond(i) PROVE RevocationInv'
    BY <1>19 DEF SwitchRespond, Respond, Finish, NoItems, NoHistory,
      revocation
  <1>20. ASSUME NEW i \in Invocation, Abandon(i)
         PROVE  (RevocationProgress /\ CleanRevocationKills)'
    BY <1>20 DEF Abandon, Finish, NoItems, NoHistory, revocation
  <1>21. CASE PublishRevoke
    BY <1>21 DEF PublishRevoke, NoItems, NoHistory, invocations
  <1>22. CASE RevokeQuery
    <2>1. revPc' = "loop"
      BY <1>22 DEF RevokeQuery
    <2>2. ASSUME NEW j \in target \ (switched \cup loggedOut \cup lapsed),
                 session[j] = "active", j \notin missed', j \notin beyond'
          PROVE  j \in batch'
      BY <1>22, <2>2 DEF RevokeQuery, Indexed, Images, Wiring
    <2>3. UNCHANGED <<now, exp, session, denied, held, lost, switched,
                      loggedOut, lapsed, target, cur>>
      BY <1>22 DEF RevokeQuery, NoItems, NoHistory
    <2> QED
      BY <2>1, <2>2, <2>3, <1>22 DEF RevokeQuery, Revocable, Wiring
  <1>23. ASSUME NEW j \in Jti, RevokeUpdate(j)
         PROVE  (RevocationProgress /\ CleanRevocationKills)'
    BY <1>23 DEF RevokeUpdate, MarkRevoked, Indexed, NoHistory, invocations
  <1>24. CASE RevokeDeny
    BY <1>24 DEF RevokeDeny, NoItems, NoHistory, invocations
  <1>25. CASE RevokeDone
    BY <1>25 DEF RevokeDone, NoItems, NoHistory, invocations
  <1>26. CASE RevokeFail
    BY <1>26 DEF RevokeFail, Ignored, NoItems, invocations
  <1>27. ASSUME NEW j \in Jti, IndexCatchUp(j)
         PROVE  (RevocationProgress /\ CleanRevocationKills)'
    BY <1>27 DEF IndexCatchUp, NoHistory, invocations, revocation
  <1>28. ASSUME NEW j \in Jti, TtlRemove(j)
         PROVE  (RevocationProgress /\ CleanRevocationKills)'
    BY <1>28 DEF TtlRemove, DropSession, Indexed, NoHistory, invocations,
      revocation
  <1>29. ASSUME NEW j \in Jti, TtlRemoveRefresh(j)
         PROVE  (RevocationProgress /\ CleanRevocationKills)'
    BY <1>29 DEF TtlRemoveRefresh, NoItems, NoHistory, invocations,
      revocation
  <1>30. ASSUME NEW j \in Jti, StreamClean(j)
         PROVE  (RevocationProgress /\ CleanRevocationKills)'
    BY <1>30 DEF StreamClean, Ignored, NoItems, invocations, revocation,
      Wiring, Lifetime
  <1>31. CASE Tick
    BY <1>31 DEF Tick, NoItems, NoHistory, invocations, revocation
  <1>32. CASE UNCHANGED vars
    BY <1>32 DEF vars, invocations, revocation
  <1> QED
    BY <1>1, <1>2, <1>3, <1>4, <1>5, <1>6, <1>7, <1>8, <1>9, <1>10, <1>11,
      <1>12, <1>13, <1>14, <1>15, <1>16, <1>17, <1>18, <1>19, <1>20, <1>21,
      <1>22, <1>23, <1>24, <1>25, <1>26, <1>27, <1>28, <1>29, <1>30, <1>31,
      <1>32 DEF Next, Invoke, Table, Revocation

\* A revocation message processed to its end has killed the tokens that were
\* out when it was published, but for those its query could not find
\* (session-revocation/index.py, retries included).
THEOREM CleanRevocation == Spec => []CleanRevocationKills
PROOF
  <1>1. Init => RevocationInv
    BY DEF Init, RevocationInv, RevocationProgress, CleanRevocationKills
  <1>2. Inv /\ Revocable /\ RevocationInv /\ [Next]_vars => RevocationInv'
    BY RevocationStep DEF Inv
  <1>3. RevocationInv => CleanRevocationKills
    BY DEF RevocationInv
  <1> QED
    BY <1>1, <1>2, <1>3, InvAlways, RevocableAlways, PTL DEF Spec

-----------------------------------------------------------------------------
(* Refinement                                                              *)

\* Only answers hand tokens out, and a denylist entry is only ever removed
\* when its token has expired.
LEMMA StepEffects ==
  ASSUME Inv, [Next]_vars
  PROVE  HeldStep
PROOF
  <1> USE DEF Inv, TypeOK, HeldStep, Dead, Expired
  <1>1. ASSUME NEW i \in Invocation, NEW j \in Jti, BeginCallback(i, j)
        PROVE  HeldStep
    BY <1>1 DEF BeginCallback, Begin, Generate, NoItems, NoHistory,
      revocation, Wiring, Lifetime
  <1>2. ASSUME NEW i \in Invocation, CallbackPutSession(i) PROVE HeldStep
    BY <1>2 DEF CallbackPutSession, Goto, PutSession, Ignored, NoItems,
      revocation
  <1>3. ASSUME NEW i \in Invocation, CallbackPutRefresh(i) PROVE HeldStep
    BY <1>3 DEF CallbackPutRefresh, Goto, Ignored, NoItems, revocation
  <1>4. ASSUME NEW i \in Invocation, CallbackRespond(i) PROVE HeldStep
    BY <1>4 DEF CallbackRespond, Respond, Finish, NoItems, NoHistory,
      revocation, Wiring, NewSteps
  <1>5. ASSUME NEW i \in Invocation, NEW j \in Jti, BeginRefresh(i, j)
        PROVE  HeldStep
    BY <1>5 DEF BeginRefresh, Begin, NoItems, NoHistory, revocation
  <1>6. ASSUME NEW i \in Invocation, RefreshLookup(i) PROVE HeldStep
    BY <1>6 DEF RefreshLookup, Goto, Finish, NoItems, NoHistory, revocation
  <1>7. ASSUME NEW i \in Invocation, NEW j \in Jti, RefreshExchange(i, j)
        PROVE  HeldStep
    BY <1>7 DEF RefreshExchange, Generate, NoItems, NoHistory, revocation,
      Wiring, Lifetime
  <1>8. ASSUME NEW i \in Invocation, RefreshPut(i) PROVE HeldStep
    BY <1>8 DEF RefreshPut, Goto, Ignored, NoItems, revocation
  <1>9. ASSUME NEW i \in Invocation, RefreshDelete(i) PROVE HeldStep
    BY <1>9 DEF RefreshDelete, Goto, Ignored, NoItems, revocation
  <1>10. ASSUME NEW i \in Invocation, RefreshPutSession(i) PROVE HeldStep
    BY <1>10 DEF RefreshPutSession, Goto, PutSession, Ignored, NoItems,
      revocation
  <1>11. ASSUME NEW i \in Invocation, RefreshRespond(i) PROVE HeldStep
    BY <1>11 DEF RefreshRespond, Respond, Finish, NoItems, NoHistory,
      revocation, Wiring, NewSteps
  <1>12. ASSUME NEW i \in Invocation, NEW j \in Jti, BeginLogout(i, j)
         PROVE  HeldStep
    BY <1>12 DEF BeginLogout, Begin, NoItems, NoHistory, revocation
  <1>13. ASSUME NEW i \in Invocation, LogoutDropRefresh(i) PROVE HeldStep
    BY <1>13 DEF LogoutDropRefresh, Goto, Ignored, NoItems, revocation
  <1>14. ASSUME NEW i \in Invocation, LogoutDropSession(i) PROVE HeldStep
    BY <1>14 DEF LogoutDropSession, Goto, DropSession, Indexed, Ignored,
      NoItems, revocation
  <1>15. ASSUME NEW i \in Invocation, LogoutDeny(i) PROVE HeldStep
    BY <1>15 DEF LogoutDeny, Finish, NoItems, NoHistory, revocation
  <1>16. ASSUME NEW i \in Invocation, NEW j \in Jti, NEW k \in Jti,
                BeginSwitch(i, j, k)
         PROVE  HeldStep
    BY <1>16 DEF BeginSwitch, Begin, Generate, NoItems, NoHistory,
      revocation, Wiring, Lifetime
  <1>17. ASSUME NEW i \in Invocation, SwitchRevoke(i) PROVE HeldStep
    BY <1>17 DEF SwitchRevoke, Goto, MarkRevoked, Indexed, NoItems,
      revocation
  <1>18. ASSUME NEW i \in Invocation, SwitchPutSession(i) PROVE HeldStep
    BY <1>18 DEF SwitchPutSession, Goto, PutSession, Ignored, NoItems,
      revocation
  <1>19. ASSUME NEW i \in Invocation, SwitchRespond(i) PROVE HeldStep
    BY <1>19 DEF SwitchRespond, Respond, Finish, NoItems, NoHistory,
      revocation, Wiring, NewSteps
  <1>20. ASSUME NEW i \in Invocation, Abandon(i) PROVE HeldStep
    BY <1>20 DEF Abandon, Finish, NoItems, NoHistory, revocation
  <1>21. CASE PublishRevoke
    BY <1>21 DEF PublishRevoke, NoItems, NoHistory, invocations
  <1>22. CASE RevokeQuery
    BY <1>22 DEF RevokeQuery, NoItems, NoHistory, invocations
  <1>23. ASSUME NEW j \in Jti, RevokeUpdate(j) PROVE HeldStep
    BY <1>23 DEF RevokeUpdate, MarkRevoked, Indexed, NoHistory, invocations
  <1>24. CASE RevokeDeny
    BY <1>24 DEF RevokeDeny, NoItems, NoHistory, invocations
  <1>25. CASE RevokeDone
    BY <1>25 DEF RevokeDone, NoItems, NoHistory, invocations
  <1>26. CASE RevokeFail
    BY <1>26 DEF RevokeFail, Ignored, NoItems, invocations
  <1>27. ASSUME NEW j \in Jti, IndexCatchUp(j) PROVE HeldStep
    BY <1>27 DEF IndexCatchUp, NoHistory, invocations, revocation
  <1>28. ASSUME NEW j \in Jti, TtlRemove(j) PROVE HeldStep
    BY <1>28 DEF TtlRemove, DropSession, Indexed, NoHistory, invocations,
      revocation
  <1>29. ASSUME NEW j \in Jti, TtlRemoveRefresh(j) PROVE HeldStep
    BY <1>29 DEF TtlRemoveRefresh, NoItems, NoHistory, invocations,
      revocation
  <1>30. ASSUME NEW j \in Jti, StreamClean(j) PROVE HeldStep
    BY <1>30 DEF StreamClean, Ignored, NoItems, invocations, revocation,
      Wiring, Lifetime
  <1>31. CASE Tick
    BY <1>31 DEF Tick, NoItems, NoHistory, invocations, revocation
  <1>32. CASE UNCHANGED vars
    BY <1>32 DEF vars, invocations, revocation
  <1> QED
    BY <1>1, <1>2, <1>3, <1>4, <1>5, <1>6, <1>7, <1>8, <1>9, <1>10, <1>11,
      <1>12, <1>13, <1>14, <1>15, <1>16, <1>17, <1>18, <1>19, <1>20, <1>21,
      <1>22, <1>23, <1>24, <1>25, <1>26, <1>27, <1>28, <1>29, <1>30, <1>31,
      <1>32 DEF Next, Invoke, Table, Revocation

\* The session layer implements TokenAuthority, whatever lifetimes the IdP
\* chooses: a token is handed out once, and a dead one never revives, the
\* removal of denylist entries by the stream processor included, but for those
\* whose record was swept before they expired.
THEOREM Refinement == Spec => ImplementsAuthority
PROOF
  <1>1. Init => Authority!Init
    BY DEF Init, Authority!Init, Standing
  <1>2. Inv /\ [Next]_vars => [Authority!Next]_Standing
    <2> SUFFICES ASSUME Inv, [Next]_vars PROVE [Authority!Next]_Standing
      OBVIOUS
    <2>1. CASE /\ UNCHANGED <<held, lapsed>>
               /\ \A j \in held \ lapsed : Dead(j) => Dead(j)'
      <3> DEFINE S == {j \in held \ lapsed : ~Dead(j) /\ Dead(j)'}
      <3>1. S \in SUBSET Jti
        BY DEF Inv, TypeOK
      <3>2. Authority!Kill(S)
        BY <2>1 DEF Authority!Kill, Standing, Inv, TypeOK
      <3> QED
        BY <3>1, <3>2 DEF Authority!Next
    <2>2. ASSUME UNCHANGED <<now, exp, denied, lapsed>>,
                 NEW j \in Jti \ held, held' = held \cup {j}
          PROVE  Authority!Issue(j)
      BY <2>2 DEF Authority!Issue, Authority!Statuses, Standing, Dead, Expired
    <2>3. ASSUME UNCHANGED <<now, exp, denied, held>>,
                 NEW j \in Jti, lapsed' = lapsed \cup {j}
          PROVE  Authority!Lapse(j) \/ UNCHANGED Standing
      BY <2>3 DEF Authority!Lapse, Standing, Dead, Expired
    <2> QED
      BY <2>1, <2>2, <2>3, StepEffects DEF HeldStep, Authority!Next
  <1> QED
    BY <1>1, <1>2, InvAlways, PTL DEF Spec, ImplementsAuthority, Authority!Spec
=============================================================================
