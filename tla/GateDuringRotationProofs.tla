------------------------ MODULE GateDuringRotationProofs ------------------------
(***************************************************************************)
(* The rotation, of every number of copies, retries, keys and deployments; *)
(* and the gate beside it.  Everything the rotation promises but type      *)
(* correctness is conditional on copies that do not overlap, and rests on  *)
(* the fact that then one copy alone moves the keys of the store.  The     *)
(* gate takes nothing from the rotation, whose theorems therefore hold     *)
(* beside it, and a change of the key spares the requests that are under   *)
(* way.                                                                    *)
(***************************************************************************)
EXTENDS GateDuringRotation, TLAPS

-----------------------------------------------------------------------------
(* The rotation                                                            *)

\* An attempt of the handler is one of those it has, and it waits for a copy.
Attempts ==
  /\ rot \in {"invoke", "wait"} => attempt < MaxRetries
  /\ rot = "wait" => callee \in Copier

\* Without overlap one copy runs.
Alone ==
  ~overlap => \A i, k \in Copier : (Running(i) /\ Running(k)) => i = k

\* What a copy wants is a key that Secrets Manager has, or has had, and is not
\* older than the one it is to replace.  There is always one.
Past(i) == Running(i) /\ pc[i] # "read"
Forward ==
  /\ cur <= sm
  /\ \A i \in Copier : Past(i) => want[i] # 0 /\ want[i] <= sm
  /\ ~overlap => \A i \in Copier : Past(i) => cur <= want[i]

\* What a copy has done to preserve the key it is to replace.
Preserves ==
  \A i \in Copier :
    /\ kept[i] => pc[i] \in {"putCur", "ok", "raised"}
    /\ ~overlap =>
         /\ pc[i] = "putOld" => seen[i] = cur
         /\ pc[i] = "redescribe" => prior = cur
         /\ (pc[i] = "putCur" /\ kept[i]) => prior = cur

\* From the answer of a copy that succeeded on, the store has the key of the
\* rotation, and every copy wants it.
Reached == rot = "done" \/ (rot = "wait" /\ pc[callee] = "ok")
Synchronised ==
  ~overlap =>
    /\ (rot = "wait" /\ Past(callee)) => want[callee] = sm
    /\ Reached => cur = sm /\ \A i \in Copier : Past(i) => want[i] = sm

Inv == TypeOK /\ Attempts /\ Alone /\ Forward /\ Preserves /\ Synchronised

\* The empty store of a new stack.
LEMMA InitInv == Init => Inv
<1> SUFFICES ASSUME Init PROVE Inv OBVIOUS
<1>1. /\ pc = [i \in Copier |-> "idle"] /\ rot = "idle" /\ cur = 0 /\ sm = 1
      /\ kept = [i \in Copier |-> FALSE]
  BY DEF Init
<1>2. TypeOK
  <2>1. MaxKey \in Nat \ {0} /\ MaxRetries \in Nat \ {0} BY BoundAssumption
  <2>2. 0 \in Key /\ 1 \in Key /\ 0 \in 0 .. MaxRetries BY <2>1 DEF Key
  <2>3. grants \subseteq ExtraGrants BY DEF Init
  <2>4. /\ pc \in [Copier -> CopySteps]
        /\ want \in [Copier -> Key] /\ seen \in [Copier -> Key]
        /\ tag \in [Copier -> Nat] /\ kept \in [Copier -> BOOLEAN]
    BY <2>2 DEF Init, CopySteps
  <2>5. sm \in Key \ {0} /\ cur \in Key /\ prior \in Key BY <2>2 DEF Init
  <2>6. etag \in Nat /\ deploys \in Nat /\ writes \in Nat BY DEF Init
  <2>7. rot \in RotSteps /\ attempt \in 0 .. MaxRetries
    BY <2>1 DEF Init, RotSteps
  <2>8. callee \in Copier \cup {NoCopier} /\ overlap \in BOOLEAN BY DEF Init
  <2> QED BY <2>3, <2>4, <2>5, <2>6, <2>7, <2>8 DEF TypeOK
<1>3. \A i \in Copier : ~Running(i) BY <1>1 DEF Running
<1> QED
  BY <1>1, <1>2, <1>3
     DEF Inv, Attempts, Alone, Forward, Preserves, Synchronised, Reached, Past

-----------------------------------------------------------------------------
(* The steps of a copy                                                     *)

\* A step of one copy, between two of its calls or out of the last one, that
\* leaves the keys of Secrets Manager and of the edge alone.
LEMMA QuietStep ==
  ASSUME Inv, NEW i \in Copier, NEW s \in CopySteps,
         pc' = [pc EXCEPT ![i] = s],
         Running(i), s \notin {"idle", "read", "ok"},
         TypeOK', UNCHANGED <<sm, cur, rotator, overlap>>,
         \A k \in Copier \ {i} :
           want'[k] = want[k] /\ seen'[k] = seen[k] /\ kept'[k] = kept[k],
         s = "raised" \/ want'[i] = IF pc[i] = "read" THEN sm ELSE want[i],
         kept'[i] => s \in {"putCur", "raised"},
         ~overlap => /\ s = "putOld" => seen'[i] = cur
                     /\ s = "redescribe" => prior' = cur
                     /\ (s = "putCur" /\ kept'[i]) => prior' = cur
  PROVE  Inv'
<1>1. TypeOK BY DEF Inv
<1>2. /\ pc'[i] = s /\ \A k \in Copier \ {i} : pc'[k] = pc[k]
      /\ UNCHANGED <<rot, attempt, callee>>
  BY <1>1 DEF TypeOK, rotator
<1>3. \A k \in Copier : Running(k)' => Running(k)
  BY <1>2 DEF Running
<1>4. ~overlap => \A k \in Copier \ {i} : ~Running(k)
  BY DEF Inv, Alone
<1>5. Attempts' /\ Alone' BY <1>2, <1>3 DEF Inv, Attempts, Alone
<1>6. Forward'
  <2>1. ASSUME NEW k \in Copier, Past(k)'
        PROVE  want'[k] # 0 /\ want'[k] <= sm /\ (~overlap => cur <= want'[k])
    <3>0. s = "raised" => k # i BY <1>2, <2>1 DEF Past, Running
    <3>1. CASE k # i BY <1>2, <2>1, <3>1 DEF Inv, Forward, Past, Running
    <3>2. CASE k = i /\ pc[i] = "read" BY <1>1, <3>0, <3>2 DEF Inv, Forward, TypeOK, Key
    <3>3. CASE k = i /\ pc[i] # "read" BY <3>0, <3>3 DEF Inv, Forward, Past
    <3> QED BY <3>1, <3>2, <3>3
  <2> QED BY <2>1 DEF Inv, Forward
<1>7. Preserves'
  <2>1. ASSUME NEW k \in Copier, k # i PROVE
           /\ kept'[k] => pc'[k] \in {"putCur", "ok", "raised"}
           /\ ~overlap' => pc'[k] \notin {"putOld", "redescribe", "putCur"}
    BY <1>2, <1>4, <2>1 DEF Inv, Preserves, Running
  <2> QED BY <1>2, <2>1 DEF Preserves
<1>8. Synchronised'
  <2>1. ASSUME ~overlap, rot = "wait", Past(callee)' PROVE want'[callee] = sm
    <3>1. callee = i BY <1>2, <1>3, <1>4, <2>1 DEF Inv, Attempts, Past
    <3>2. s # "raised" BY <1>2, <2>1, <3>1 DEF Past, Running
    <3> QED BY <2>1, <3>1, <3>2 DEF Inv, Synchronised, Past
  <2>2. ASSUME ~overlap, Reached'
        PROVE  cur = sm /\ \A k \in Copier : Past(k)' => want'[k] = sm
    <3>1. Reached BY <1>2, <2>2 DEF Reached, Inv, Attempts
    <3>2. cur = sm /\ \A k \in Copier : Past(k) => want[k] = sm
      BY <2>2, <3>1 DEF Inv, Synchronised
    <3> QED BY <1>2, <3>2 DEF Past, Running
  <2> QED BY <1>2, <2>1, <2>2 DEF Synchronised
<1> QED BY <1>1, <1>5, <1>6, <1>7, <1>8 DEF Inv

\* The write of jwt.secret, whose answer may be lost.
LEMMA WriteStep ==
  ASSUME Inv, NEW i \in Copier, NEW s \in {"ok", "raised"},
         pc[i] = "putCur", pc' = [pc EXCEPT ![i] = s], cur' = want[i],
         TypeOK', UNCHANGED <<sm, rotator, overlap, want, seen, kept, prior>>
  PROVE  Inv'
<1>1. TypeOK BY DEF Inv
<1>2. /\ pc'[i] = s /\ \A k \in Copier \ {i} : pc'[k] = pc[k]
      /\ UNCHANGED <<rot, attempt, callee>>
  BY <1>1 DEF TypeOK, rotator
<1>3. /\ Past(i) /\ ~Past(i)'
      /\ \A k \in Copier \ {i} : Running(k)' = Running(k) /\ Past(k)' = Past(k)
  BY <1>2 DEF Running, Past
<1>4. ~overlap => \A k \in Copier \ {i} : ~Running(k)
  BY <1>3 DEF Inv, Alone, Past
<1>5. Attempts' /\ Alone' BY <1>2, <1>3, <1>4 DEF Inv, Attempts, Alone, Past, Running
<1>6. Forward' BY <1>3, <1>4 DEF Inv, Forward, Past
<1>7. Preserves'
  BY <1>2, <1>4 DEF Inv, Preserves, Running
<1>8. Synchronised'
  <2>1. ASSUME ~overlap PROVE \A k \in Copier : ~Past(k)'
    BY <1>3, <1>4, <2>1 DEF Past
  <2>2. ASSUME ~overlap, Reached' PROVE cur' = sm
    <3>1. CASE Reached BY <1>3, <2>2, <3>1 DEF Inv, Synchronised
    <3>2. CASE ~Reached
      <4>1. rot = "wait" /\ callee = i
        BY <1>2, <2>2, <3>2 DEF Reached, Inv, Attempts
      <4> QED BY <1>3, <2>2, <4>1 DEF Inv, Synchronised
    <3> QED BY <3>1, <3>2
  <2> QED BY <1>2, <2>1, <2>2 DEF Synchronised, Inv, Attempts
<1> QED BY <1>5, <1>6, <1>7, <1>8 DEF Inv

\* The end of an invocation that has answered, or been given up.
LEMMA FinishStep ==
  ASSUME Inv, NEW i \in Copier, Finish(i), ~Running(i),
         TypeOK', UNCHANGED <<sm, cur, prior, overlap>>, Attempts',
         \/ UNCHANGED <<rot, callee>> /\ ~(rot = "wait" /\ callee = i)
         \/ rot' = "done" /\ Reached
         \/ rot' \in {"invoke", "failed"}
  PROVE  Inv'
<1>1. TypeOK BY DEF Inv
<1>2. /\ pc'[i] = "idle" /\ ~kept'[i]
      /\ \A k \in Copier \ {i} : /\ pc'[k] = pc[k] /\ want'[k] = want[k]
                                 /\ seen'[k] = seen[k] /\ kept'[k] = kept[k]
  BY <1>1 DEF TypeOK, Finish
<1>3. /\ ~Running(i)' /\ ~Past(i)'
      /\ \A k \in Copier \ {i} : Running(k)' = Running(k) /\ Past(k)' = Past(k)
  BY <1>2 DEF Running, Past
<1>4. Alone' BY <1>3 DEF Inv, Alone
<1>5. Forward' BY <1>2, <1>3 DEF Inv, Forward
<1>6. Preserves'
  <2>1. ASSUME NEW k \in Copier, k # i PROVE
          /\ kept'[k] => pc'[k] \in {"putCur", "ok", "raised"}
          /\ ~overlap' => /\ pc'[k] = "putOld" => seen'[k] = cur'
                          /\ pc'[k] = "redescribe" => prior' = cur'
                          /\ (pc'[k] = "putCur" /\ kept'[k]) => prior' = cur'
    BY <1>2, <2>1 DEF Inv, Preserves
  <2> QED BY <1>2, <2>1 DEF Preserves
<1>7. Synchronised'
  <2>1. ASSUME rot' = "wait", Past(callee)'
        PROVE  rot = "wait" /\ callee' = callee /\ Past(callee)
               /\ want'[callee] = want[callee]
    BY <1>2, <1>3, <2>1 DEF Inv, Attempts
  <2>2. Reached' => Reached
    BY <1>2 DEF Reached, Inv, Attempts
  <2> QED BY <1>2, <1>3, <2>1, <2>2 DEF Inv, Synchronised
<1> QED BY <1>4, <1>5, <1>6, <1>7 DEF Inv

\* A copy begins, beside others that run or alone.
LEMMA StartStep ==
  ASSUME Inv, NEW i \in Copier, Start(i),
         TypeOK', UNCHANGED <<sm, cur, prior>>, Attempts',
         \/ UNCHANGED <<rot, callee>>
         \/ rot' = "wait" /\ callee' = i
  PROVE  Inv'
<1>1. TypeOK BY DEF Inv
<1>2. /\ pc[i] = "idle" /\ pc'[i] = "read"
      /\ \A k \in Copier \ {i} : pc'[k] = pc[k]
      /\ UNCHANGED <<want, seen, kept>>
  BY <1>1 DEF TypeOK, Start, Goto
<1>3. /\ \A k \in Copier : Past(k)' = Past(k)
      /\ \A k \in Copier \ {i} : Running(k)' = Running(k)
  BY <1>2 DEF Running, Past
<1>4. ~overlap' => ~overlap /\ \A k \in Copier : ~Running(k) BY DEF Start
<1>5. Alone' BY <1>3, <1>4 DEF Alone
<1>6. Forward' BY <1>2, <1>3, <1>4 DEF Inv, Forward
<1>7. Preserves'
  <2>1. ASSUME NEW k \in Copier, k # i PROVE
          /\ kept'[k] => pc'[k] \in {"putCur", "ok", "raised"}
          /\ ~overlap' => pc'[k] \notin {"putOld", "redescribe", "putCur"}
    BY <1>2, <1>4, <2>1 DEF Inv, Preserves, Running
  <2>2. ~kept'[i] BY <1>2 DEF Inv, Preserves
  <2> QED BY <1>2, <2>1, <2>2 DEF Preserves
<1>8. Synchronised'
  <2>1. ~overlap' => \A k \in Copier : ~Past(k)'
    BY <1>3, <1>4 DEF Past
  <2>2. Reached' => Reached BY <1>2 DEF Reached, Inv, Attempts
  <2> QED BY <1>4, <2>1, <2>2 DEF Inv, Attempts, Synchronised
<1> QED BY <1>5, <1>6, <1>7, <1>8 DEF Inv

-----------------------------------------------------------------------------
(* Types                                                                   *)

\* Every step keeps the types.
LEMMA StepType == Inv /\ [Next]_vars => TypeOK' /\ Attempts'
<1> SUFFICES ASSUME Inv, [Next]_vars PROVE TypeOK' /\ Attempts' OBVIOUS
<1> USE DEF TypeOK, RotSteps, CopySteps, rotator, copier, store, bounds
<1>1. TypeOK /\ Attempts BY DEF Inv
<1>2. MaxKey \in Nat \ {0} /\ MaxRetries \in Nat \ {0} BY BoundAssumption
<1>3. ASSUME NEW i \in Copier, Copy(i) PROVE TypeOK' /\ Attempts'
  <2>1. CASE Read(i) BY <1>1, <2>1 DEF Read, Goto, Attempts
  <2>2. CASE Describe(i) BY <1>1, <2>2 DEF Describe, Goto, Attempts
  <2>3. CASE GetKey(i) BY <1>1, <2>3 DEF GetKey, Goto, Attempts
  <2>4. CASE PutOld(i) BY <1>1, <2>4 DEF PutOld, Goto, Write, Attempts
  <2>5. CASE Redescribe(i) BY <1>1, <2>5 DEF Redescribe, Goto, Attempts
  <2>6. CASE PutCur(i) BY <1>1, <2>6 DEF PutCur, Goto, Write, Attempts
  <2>7. CASE Raise(i) BY <1>1, <2>7 DEF Raise, Write, Attempts
  <2>8. CASE End(i) BY <1>1, <1>2, <2>8 DEF End, Finish, Attempts, Key
  <2> QED BY <1>3, <2>1, <2>2, <2>3, <2>4, <2>5, <2>6, <2>7, <2>8 DEF Copy
<1>4. ASSUME NEW i \in Copier, Start(i) PROVE
        /\ pc' \in [Copier -> CopySteps] /\ overlap' \in BOOLEAN
        /\ UNCHANGED <<want, seen, tag, kept>>
  <2>1. (overlap \/ \E k \in Copier : Running(k)) \in BOOLEAN BY <1>1
  <2>2. overlap' \in BOOLEAN
    <3>1. overlap' = (overlap \/ \E k \in Copier : Running(k))
      BY <1>4 DEF Start
    <3> QED BY ONLY <2>1, <3>1, Zenon
  <2> QED BY <1>1, <1>4, <2>2 DEF Start, Goto
<1>5. ASSUME NEW i \in Copier, Deploy(i) PROVE TypeOK' /\ Attempts'
  BY <1>1, <1>4, <1>5 DEF Deploy, Attempts
<1>6. ASSUME NEW i \in Copier, Invoke(i) PROVE TypeOK' /\ Attempts'
  BY <1>1, <1>4, <1>6 DEF Invoke, Attempts
<1>7. CASE Rotate BY <1>1, <1>2, <1>7 DEF Rotate, Attempts, Key
<1>8. CASE Success BY <1>1, <1>2, <1>8 DEF Success, Finish, Attempts, Key
<1>9. CASE Failure BY <1>1, <1>2, <1>9 DEF Failure, Finish, Attempts, Key
<1>10. CASE TimeOut BY <1>1, <1>10 DEF TimeOut, Attempts
<1>11. CASE OtherWrite BY <1>1, <1>11 DEF OtherWrite, Attempts
<1>12. CASE UNCHANGED vars BY <1>1, <1>12 DEF vars, Attempts
<1> QED BY <1>3, <1>5, <1>6, <1>7, <1>8, <1>9, <1>10, <1>11, <1>12 DEF Next

-----------------------------------------------------------------------------
(* Every step                                                              *)

\* Every step of the rotation, its copies and the other writers.
LEMMA StepInv == Inv /\ [Next]_vars => Inv'
<1> SUFFICES ASSUME Inv, [Next]_vars PROVE Inv' OBVIOUS
<1>1. TypeOK' /\ Attempts' BY StepType
<1>2. TypeOK /\ Attempts BY DEF Inv
<1>3. ASSUME NEW i \in Copier, Copy(i) PROVE Inv'
  <2>1. CASE Read(i)
    <3>1. /\ pc[i] = "read" /\ pc' = [pc EXCEPT ![i] = "describe"]
          /\ want' = [want EXCEPT ![i] = sm]
          /\ UNCHANGED <<sm, cur, rotator, overlap, seen, kept>>
      BY <2>1 DEF Read, Goto, store
    <3> QED
      BY <1>1, <1>2, <3>1, QuietStep
         DEF Running, TypeOK, CopySteps, Inv, Preserves
  <2>2. CASE Describe(i)
    <3>1. /\ pc[i] = "describe" /\ pc' = [pc EXCEPT ![i] = "get"]
          /\ UNCHANGED <<sm, cur, rotator, overlap, want, seen, kept>>
      BY <2>2 DEF Describe, Goto, store
    <3> QED
      BY <1>1, <1>2, <3>1, QuietStep
         DEF Running, TypeOK, CopySteps, Inv, Preserves
  <2>3. CASE GetKey(i)
    <3>1. pc[i] = "get" /\ UNCHANGED <<sm, cur, rotator, overlap, want, kept>>
      BY <2>3 DEF GetKey, Goto, store
    <3>2. ~kept[i] BY <3>1 DEF Inv, Preserves
    <3>3. CASE pc' = [pc EXCEPT ![i] = "putOld"] /\ seen' = [seen EXCEPT ![i] = cur]
      BY <1>1, <1>2, <3>1, <3>2, <3>3, QuietStep DEF Running, TypeOK, CopySteps
    <3>4. CASE pc' = [pc EXCEPT ![i] = "putCur"] /\ UNCHANGED seen
      BY <1>1, <1>2, <3>1, <3>2, <3>4, QuietStep DEF Running, TypeOK, CopySteps
    <3> QED BY <2>3, <3>3, <3>4 DEF GetKey, Goto
  <2>4. CASE PutOld(i)
    <3>1. pc[i] = "putOld"
          /\ UNCHANGED <<sm, cur, rotator, overlap, want, seen, kept>>
      BY <2>4 DEF PutOld, Goto
    <3>2. ~kept[i] /\ (~overlap => seen[i] = cur) BY <3>1 DEF Inv, Preserves
    <3>3. CASE pc' = [pc EXCEPT ![i] = "redescribe"] /\ prior' = seen[i]
      BY <1>1, <1>2, <3>1, <3>2, <3>3, QuietStep DEF Running, TypeOK, CopySteps
    <3>4. CASE pc' = [pc EXCEPT ![i] = "putCur"]
      BY <1>1, <1>2, <3>1, <3>2, <3>4, QuietStep DEF Running, TypeOK, CopySteps
    <3> QED BY <2>4, <3>3, <3>4 DEF PutOld, Goto
  <2>5. CASE Redescribe(i)
    <3>1. /\ pc[i] = "redescribe" /\ pc' = [pc EXCEPT ![i] = "putCur"]
          /\ UNCHANGED <<sm, cur, prior, rotator, overlap, want, seen>>
          /\ kept' = [kept EXCEPT ![i] = TRUE] \/ UNCHANGED kept
      BY <2>5 DEF Redescribe, Goto, store
    <3>2. ~overlap => prior = cur BY <3>1 DEF Inv, Preserves
    <3> QED
      BY <1>1, <1>2, <3>1, <3>2, QuietStep DEF Running, TypeOK, CopySteps
  <2>6. CASE PutCur(i)
    BY <1>1, <2>6, WriteStep DEF PutCur, Goto
  <2>7. CASE Raise(i)
    <3>1. /\ Running(i) /\ pc' = [pc EXCEPT ![i] = "raised"]
          /\ UNCHANGED <<sm, prior, rotator, overlap, want, seen, kept>>
      BY <2>7 DEF Raise
    <3>2. CASE pc[i] = "putCur" /\ cur' = want[i]
      BY <1>1, <3>1, <3>2, WriteStep
    <3>3. CASE UNCHANGED cur
      BY <1>1, <1>2, <3>1, <3>3, QuietStep DEF TypeOK, CopySteps
    <3> QED BY <2>7, <3>2, <3>3 DEF Raise
  <2>8. CASE End(i)
    <3>1. ~Running(i) /\ Finish(i) /\ callee # i
          /\ UNCHANGED <<sm, cur, prior, overlap, rot, callee>>
      BY <2>8 DEF End, Running, store, rotator
    <3> QED BY <1>1, <3>1, FinishStep
  <2> QED BY <1>3, <2>1, <2>2, <2>3, <2>4, <2>5, <2>6, <2>7, <2>8 DEF Copy
<1>4. ASSUME NEW i \in Copier, Deploy(i) PROVE Inv'
  BY <1>1, <1>4, StartStep DEF Deploy, store, rotator
<1>5. ASSUME NEW i \in Copier, Invoke(i) PROVE Inv'
  BY <1>1, <1>5, StartStep DEF Invoke, store
<1>6. CASE Rotate
  <2>1. /\ sm' = sm + 1 /\ rot' = "invoke" /\ UNCHANGED <<cur, prior, overlap>>
        /\ UNCHANGED <<pc, want, seen, kept>>
    BY <1>6 DEF Rotate, store, copier
  <2>2. \A i \in Copier : Running(i)' = Running(i) /\ Past(i)' = Past(i)
    BY <2>1 DEF Running, Past
  <2>3. Alone' BY <2>1, <2>2 DEF Inv, Alone
  <2>4. Forward'
    BY <1>2, <2>1, <2>2, BoundAssumption DEF Inv, Forward, TypeOK, Key
  <2>5. Preserves' BY <2>1 DEF Inv, Preserves
  <2>6. Synchronised' BY <2>1 DEF Synchronised, Reached
  <2> QED BY <1>1, <2>3, <2>4, <2>5, <2>6 DEF Inv
<1>7. CASE Success
  <2>1. callee \in Copier /\ ~Running(callee) /\ Reached
    BY <1>2, <1>7 DEF Success, Attempts, Running, Reached
  <2> QED BY <1>1, <1>7, <2>1, FinishStep DEF Success, store
<1>8. CASE Failure
  <2>1. callee \in Copier /\ rot' \in {"invoke", "failed"}
    BY <1>2, <1>8 DEF Failure, Attempts
  <2> QED BY <1>1, <1>8, <2>1, FinishStep DEF Failure, store
<1>9. CASE TimeOut
  <2>1. /\ rot' = "failed"
        /\ UNCHANGED <<sm, cur, prior, overlap, pc, want, seen, kept>>
    BY <1>9 DEF TimeOut, store, copier
  <2>2. \A i \in Copier : Running(i)' = Running(i) /\ Past(i)' = Past(i)
    BY <2>1 DEF Running, Past
  <2>3. Alone' /\ Forward' /\ Preserves'
    BY <2>1, <2>2 DEF Inv, Alone, Forward, Preserves
  <2>4. Synchronised' BY <2>1 DEF Synchronised, Reached
  <2> QED BY <1>1, <2>3, <2>4 DEF Inv
<1>10. CASE OtherWrite \/ UNCHANGED vars
  <2>1. UNCHANGED <<rot, attempt, callee, sm, cur, prior, overlap, pc, want, seen,
                    kept>>
    BY <1>10 DEF OtherWrite, vars, store, copier, rotator
  <2>2. \A i \in Copier : Running(i)' = Running(i) /\ Past(i)' = Past(i)
    BY <2>1 DEF Running, Past
  <2>3. Alone' /\ Forward' /\ Preserves'
    BY <2>1, <2>2 DEF Inv, Alone, Forward, Preserves
  <2>4. Synchronised'
    <3>1. Reached' = Reached /\ Past(callee)' = Past(callee)
      BY <2>1 DEF Reached, Past, Running
    <3> QED BY <2>1, <2>2, <3>1 DEF Inv, Synchronised
  <2> QED BY <1>1, <2>3, <2>4 DEF Inv
<1> QED
  BY <1>3, <1>4, <1>5, <1>6, <1>7, <1>8, <1>9, <1>10 DEF Next

\* The invariant holds throughout.
LEMMA Invariance == Spec => []Inv
BY InitInv, StepInv, PTL DEF Spec

\* Every variable keeps its type, for all numbers of copies, retries and keys.
THEOREM TypeCorrect == Spec => []TypeOK
<1>1. Inv => TypeOK BY DEF Inv
<1> QED BY Invariance, <1>1, PTL

\* A rotation that says it has succeeded has: until the next one, and whatever
\* deployments copy meanwhile, the edge has the key of Secrets Manager.
THEOREM Synchronises == Spec => []RotationSynchronises
<1>1. Inv => RotationSynchronises
  BY DEF Inv, Synchronised, Reached, RotationSynchronises
<1> QED BY Invariance, <1>1, PTL

\* What a step does to the keys of the edge: nothing, or a copy writes what it
\* wants over jwt.secret alone, or preserves what it has seen.
LEMMA KeySteps ==
  ASSUME Inv, [Next]_vars, cur' # cur
  PROVE  /\ prior' = prior /\ overlap' = overlap
         /\ \E i \in Copier : pc[i] = "putCur" /\ cur' = want[i]
<1>1. ASSUME NEW i \in Copier, PutCur(i) \/ Raise(i) PROVE
        /\ prior' = prior /\ overlap' = overlap
        /\ pc[i] = "putCur" /\ cur' = want[i]
  BY <1>1 DEF PutCur, Raise, Goto
<1>2. \E i \in Copier : PutCur(i) \/ Raise(i)
  BY DEF Next, Copy, Read, Describe, GetKey, PutOld, Redescribe, End, Deploy,
         Invoke, Rotate, Success, Failure, TimeOut, OtherWrite, vars, store
<1> QED BY <1>1, <1>2

\* The edge never goes back to an older key while copies do not overlap,
\* whatever is retried, given up or lost.
THEOREM NeverBack == Spec => NoRollback
<1>1. ASSUME Inv, [Next]_vars PROVE [~overlap' => cur' >= cur]_vars
  <2>1. CASE cur' = cur BY <1>1, <2>1 DEF Inv, TypeOK, Key
  <2>2. CASE cur' # cur
    <3>1. overlap' = overlap
          /\ \E i \in Copier : pc[i] = "putCur" /\ cur' = want[i]
      BY <1>1, <2>2, KeySteps
    <3> QED BY <1>1, <3>1 DEF Inv, Forward, Past, Running
  <2> QED BY <2>1, <2>2
<1> QED BY Invariance, <1>1, PTL DEF Spec, NoRollback

\* A copy that has preserved the key it replaces leaves it as jwt.secret.old,
\* whatever other lambdas write to the store between its calls.
THEOREM ReplacedIsKept == Spec => ReplacedKeyKept
<1>1. ASSUME Inv, [Next]_vars
      PROVE  [\A i \in Copier :
                (pc[i] = "putCur" /\ kept[i] /\ cur' # cur /\ ~overlap)
                   => prior' = cur]_vars
  <2>1. ASSUME NEW i \in Copier, pc[i] = "putCur", kept[i], cur' # cur, ~overlap
        PROVE  prior' = cur
    BY <1>1, <2>1, KeySteps DEF Inv, Preserves
  <2> QED BY <2>1
<1> QED BY Invariance, <1>1, PTL DEF Spec, ReplacedKeyKept

-----------------------------------------------------------------------------
(* The gate beside the rotation                                            *)

Underway == at \notin {"idle", "done"}

\* What is known of a request whose key was current when it came in: the key is
\* still current; or it has been replaced, and preserved unless excused.
Spared ==
  /\ at = "idle" => ~current
  /\ at # "done" => ~refused
  /\ current => cur # 0
  /\ (Underway /\ current /\ ~turned) => Gate!token.key = cur
  /\ (current /\ turned /\ ~unkept /\ ~again) => prior = Gate!token.key
  /\ (current /\ turned /\ ~unkept /\ ~again) => prior # 0
  /\ (at = "old" /\ current) => turned
  /\ KeyChangeSpares

\* The evaluation of a request is no step of the rotation.
LEMMA RotationStep == [NextAll]_allVars => [Next]_vars
BY DEF NextAll, Request, Validate, Consult, Leave, Rotating, Revoking, allVars,
       Next

\* The rotation beside the gate is the rotation: what SecretRotation promises
\* holds in the composition.
THEOREM Composition == SpecAll => Spec
<1>1. InitAll => Init BY DEF InitAll
<1> QED BY <1>1, RotationStep, PTL DEF SpecAll, Spec

\* A step of the evaluation itself leaves the store and the causes alone.
LEMMA ReadStep ==
  ASSUME Inv, Spared, Validate \/ Consult
  PROVE  Spared'
<1>1. /\ UNCHANGED <<cur, prior, causes, fn, visit>>
      /\ Gate!token' = Gate!token /\ at \in {"secret", "old", "denylist"}
      /\ at' \in {"old", "denylist", "done"}
  BY DEF Validate, Consult, vars, store, Gate!ComposedValidate, Gate!TryCurrent,
         Gate!TryOld, Gate!Accept, Gate!Verified, Gate!Refuse, Gate!Step,
         Gate!ReadDenylist, Gate!request, Gate!token, Gate!Session
<1>2. (at' = "old") => Gate!token.key # cur /\ at = "secret"
  BY DEF Validate, Consult, Gate!ComposedValidate, Gate!TryCurrent,
         Gate!TryOld, Gate!Accept, Gate!Verified, Gate!Refuse, Gate!Step,
         Gate!ReadDenylist
<1>3. refused' => fault' \/ (at = "secret" /\ cur = 0)
                         \/ (at = "old" /\ (prior = 0 \/ Gate!token.key # prior))
  <2>1. ~refused BY <1>1 DEF Spared
  <2>2. ASSUME NEW from, Gate!Accept(from), fn.module = "auth-check"
        PROVE  refused' = refused
    BY <2>2 DEF Gate!Accept, Gate!Verified
  <2>3. CASE Consult BY <2>1, <2>3 DEF Consult, Gate!ReadDenylist
  <2>4. CASE Gate!TryCurrent /\ fn.module = "auth-check"
    BY <2>1, <2>2, <2>4 DEF Gate!TryCurrent, Gate!outcome
  <2>5. CASE Gate!TryOld(Gate!token.key = prior) /\ fn.module = "auth-check"
    BY <2>1, <2>2, <2>5 DEF Gate!TryOld
  <2> QED BY <2>3, <2>4, <2>5 DEF Validate, Gate!ComposedValidate
<1>4. at' # "done" => ~refused'
  BY DEF Spared, Validate, Consult, Gate!ComposedValidate, Gate!TryCurrent,
         Gate!TryOld, Gate!Accept, Gate!Verified, Gate!Refuse, Gate!Step,
         Gate!ReadDenylist, Gate!outcome
<1>5. UNCHANGED <<current, turned, unkept, again>> BY <1>1 DEF causes
<1> QED
  BY <1>1, <1>2, <1>3, <1>4, <1>5 DEF Spared, KeyChangeSpares, Underway

\* A step of the rotation, or of another writer, under a request.
LEMMA MoveStep ==
  ASSUME Inv, Spared, Rotating \/ Revoking
  PROVE  Spared'
<1>1. /\ UNCHANGED <<at, fn, visit, refused, fault, current>>
      /\ Gate!token' = Gate!token
      /\ at = "done" => UNCHANGED <<cur, prior>>
  BY DEF Rotating, Revoking, OtherWrite, causes, evaluation, Gate!Observe,
         Gate!request, Gate!outcome, Gate!token, Gate!Session
<1>2. /\ turned' <=> turned \/ (current /\ cur' # cur)
      /\ unkept' <=> unkept \/ (current /\ cur' # cur /\ prior' # cur)
      /\ again' <=> again \/ (turned /\ prior' # prior)
  <2>1. CASE Rotating BY <2>1 DEF Rotating
  <2>2. CASE Revoking
    <3>1. UNCHANGED <<cur, prior, turned, unkept, again>>
      BY <2>2 DEF Revoking, OtherWrite, causes
    <3> QED BY <3>1
  <2> QED BY <2>1, <2>2
<1>3. cur' # cur => cur' # 0
  <2>1. [Next]_vars BY DEF Rotating, Revoking, Next
  <2> QED BY <2>1, KeySteps DEF Inv, Forward, Past, Running
<1>4. at = "done" => (unkept' <=> unkept) /\ (again' <=> again)
  BY <1>1, <1>2
<1> QED BY <1>1, <1>2, <1>3, <1>4 DEF Spared, KeyChangeSpares, Underway

\* Every step of the composition.
LEMMA StepSpared == Inv /\ Spared /\ [NextAll]_allVars => Spared'
<1> SUFFICES ASSUME Inv, Spared, [NextAll]_allVars PROVE Spared' OBVIOUS
<1>1. CASE Request
  <2>1. PICK f \in Functions, v \in Visits :
          /\ Gate!Arrive(f, v)
          /\ current' = (cur # 0 /\ Gate!Session(f, v).key = cur)
    BY <1>1 DEF Request
  <2>2. /\ Gate!token' = Gate!Session(f, v) /\ at' \in {"secret", "done"}
        /\ ~refused' /\ ~turned' /\ UNCHANGED <<cur, prior>>
    BY <1>1, <2>1 DEF Request, Gate!Arrive, Gate!token, vars, store
  <2> QED BY <2>1, <2>2 DEF Spared, KeyChangeSpares, Underway
<1>2. CASE Validate \/ Consult BY <1>2, ReadStep
<1>3. CASE Leave
  BY <1>3 DEF Leave, Gate!Leave, Spared, KeyChangeSpares, Underway
<1>4. CASE Rotating \/ Revoking BY <1>4, MoveStep
<1>5. CASE UNCHANGED allVars
  BY <1>5 DEF allVars, vars, store, evaluation, causes, Spared, KeyChangeSpares,
              Underway, Gate!token, Gate!Session
<1> QED BY <1>1, <1>2, <1>3, <1>4, <1>5 DEF NextAll

\* A change of the key spares every request under way whose token it replaces,
\* at whatever step of the evaluation and of the copy it happens: it is refused
\* only after a read that failed, a copy that did not preserve the key, or one
\* more copy.
THEOREM Sparing == SpecAll => []KeyChangeSpares
<1>1. InitAll => Inv /\ Spared
  BY InitInv DEF InitAll, Gate!Init, Spared, KeyChangeSpares, Underway
<1>2. Inv /\ Spared /\ [NextAll]_allVars => Inv' /\ Spared'
  BY StepInv, StepSpared, RotationStep
<1>3. Spared => KeyChangeSpares BY DEF Spared
<1> QED BY <1>1, <1>2, <1>3, PTL DEF SpecAll
=============================================================================
