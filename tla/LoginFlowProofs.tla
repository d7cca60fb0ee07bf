-------------------------- MODULE LoginFlowProofs --------------------------
(***************************************************************************)
(* What LoginFlow promises of every number of tabs, flows and failures:    *)
(* the cookies of a sign-in stay paired, a state that comes back is that   *)
(* of the jar or has one of the listed excuses, and the record of a state  *)
(* outlives the cookies that can bring it back.                            *)
(***************************************************************************)
EXTENDS LoginFlow, TLAPS

\* State and verifier go together, in the jar, in a request and in a tab; the
\* flows they name have been minted, and from the check of the state on a
\* callback is about the flow it was sent with.
Answering == {"get", "put", "exchange", "respond"}
Paired ==
  /\ jar.state = jar.verifier /\ jar.state \in minted \cup {None}
  /\ \A t \in Tab :
       /\ sent[t].state = sent[t].verifier
       /\ sent[t].state \in minted \cup {None}
       /\ state[t] = challenge[t]
       /\ pc[t] \in {"idp"} \cup Callback => state[t] # None
       /\ pc[t] \in Answering => sent[t].state = state[t]

\* The cookies of a flow end Age after it was minted, and a callback, which
\* takes less than a unit, carries none that had ended.
Timed ==
  /\ jar.exp = IF jar.state = None THEN 0 ELSE born[jar.state] + Age
  /\ \A f \in minted : born[f] <= now
  /\ \A t \in Tab : pc[t] \in Callback =>
       /\ since[t] <= now /\ now <= since[t] + 1
       /\ sent[t].state # None => since[t] < born[sent[t].state] + Age

\* The STATE# item of a flow lasts as long as its cookies.
Recorded ==
  /\ now >= 1
  /\ \A f \in Flow \ minted : item[f] = 0
  /\ \A f \in minted : item[f] # 0 => item[f] >= born[f] + Age

\* Why the jar can hold another flow than f, or none.
Gone(f) ==
  \/ f \in raced
  \/ born[f] + Age <= now
  \/ \E u \in Tab : pc[u] = "done"
Kept == \A f \in minted : Gone(f) \/ jar.state = f

\* A callback whose state is not that of its cookies has an excuse.
Excused ==
  \A t \in Tab :
    /\ pc[t] = "edge" => why[t] = "none"
    /\ (pc[t] = "check" /\ sent[t].state \notin {None, state[t]})
         => Gone(state[t])
    /\ why[t] = "mismatch" => state[t] # None /\ Gone(state[t])

Inv == TypeOK /\ Paired /\ Timed /\ Recorded /\ Kept /\ Excused

\* A browser without cookies.
LEMMA InitInv == Init => Inv
<1> SUFFICES ASSUME Init PROVE Inv OBVIOUS
<1>1. TypeOK
  BY DEF Init, TypeOK, Steps, Reasons, Cookies, NoCookies
<1> QED
  BY <1>1 DEF Init, Inv, Paired, Timed, Recorded, Kept, Excused, NoCookies,
              Callback, Answering

\* The bounds and the times are numbers.
LEMMA Numbers ==
  ASSUME TypeOK
  PROVE  /\ Age \in Nat /\ now \in Nat /\ jar.exp \in Nat
         /\ \A f \in Flow : born[f] \in Nat /\ item[f] \in Nat
         /\ \A t \in Tab : since[t] \in Nat
BY NatAssumption DEF TypeOK

\* An excuse stays one.
LEMMA GoneStays ==
  ASSUME Inv, now' \in Nat, now' >= now, raced \subseteq raced',
         \A f \in minted : born'[f] = born[f],
         \A u \in Tab : pc[u] = "done" => pc'[u] = "done",
         NEW f \in minted, Gone(f)
  PROVE  Gone(f)'
<1>1. Age \in Nat /\ now \in Nat /\ born[f] \in Nat
  BY Numbers DEF Inv, TypeOK
<1> QED BY <1>1 DEF Gone

-----------------------------------------------------------------------------
\* A page is asked for, with the cookies of the moment.
LEMMA VisitInv ==
  ASSUME Inv, NEW t \in Tab, Visit(t)
  PROVE  Inv'
<1>0. TypeOK /\ Paired /\ Timed /\ Recorded /\ Kept /\ Excused BY DEF Inv
<1>1. /\ pc[t] \in {"idle", "failed"} /\ pc' = [pc EXCEPT ![t] = "edge"]
      /\ sent' = [sent EXCEPT ![t] = JarCookies]
      /\ JarCookies \in {NoCookies, [state |-> jar.state, verifier |-> jar.verifier]}
      /\ why' = [why EXCEPT ![t] = "none"]
      /\ UNCHANGED <<now, jar, minted, born, raced, state, challenge, redeemed, since,
                     item, lag, errors, used, unrecorded>>
  BY DEF Visit, JarCookies, browser, table
<1>2. TypeOK'
  BY <1>0, <1>1, NoneAssumption DEF TypeOK, Steps, Reasons, Cookies, NoCookies
<1>3. Paired'
  BY <1>0, <1>1, NoneAssumption DEF Paired, Callback, Answering, NoCookies, TypeOK
<1>4. Timed'
  BY <1>0, <1>1, NoneAssumption, Numbers DEF Timed, Callback, NoCookies, TypeOK
<1>5. Recorded'
  BY <1>0, <1>1, NoneAssumption, Numbers DEF Recorded, TypeOK
<1>6. Kept'
  BY <1>0, <1>1, NoneAssumption, Numbers DEF Kept, Gone, TypeOK
<1>7. Excused'
  BY <1>0, <1>1, NoneAssumption, Numbers DEF Excused, Gone, NoCookies, TypeOK
<1> QED BY <1>2, <1>3, <1>4, <1>5, <1>6, <1>7 DEF Inv

\* The IdP sends the browser back, or the user reloads.
LEMMA SendInv ==
  ASSUME Inv, NEW t \in Tab, SendCallback(t)
  PROVE  Inv'
<1>0. TypeOK /\ Paired /\ Timed /\ Recorded /\ Kept /\ Excused BY DEF Inv
<1>1. /\ pc[t] = "idp" \/ (pc[t] = "failed" /\ state[t] # None)
      /\ pc' = [pc EXCEPT ![t] = "check"] /\ sent' = [sent EXCEPT ![t] = JarCookies]
      /\ IF now < jar.exp
         THEN JarCookies = [state |-> jar.state, verifier |-> jar.verifier]
         ELSE JarCookies = NoCookies
      /\ since' = [since EXCEPT ![t] = now] /\ why' = [why EXCEPT ![t] = "none"]
      /\ UNCHANGED <<now, jar, minted, born, raced, state, challenge, redeemed, item,
                     lag, errors, used,
                     unrecorded>>
  BY DEF SendCallback, JarCookies, Live, browser, table
<1>2. TypeOK'
  BY <1>0, <1>1, NoneAssumption DEF TypeOK, Steps, Reasons, Cookies, NoCookies
<1>3. Paired'
  BY <1>0, <1>1, NoneAssumption DEF Paired, Callback, Answering, NoCookies, TypeOK
<1>4. Timed'
  BY <1>0, <1>1, NoneAssumption, Numbers DEF Timed, Callback, NoCookies, TypeOK
<1>5. Recorded'
  BY <1>0, <1>1, NoneAssumption, Numbers DEF Recorded, TypeOK
<1>6. Kept'
  BY <1>0, <1>1, NoneAssumption, Numbers DEF Kept, Gone, TypeOK
<1>7. Excused'
  <2>1. \A f \in minted : Gone(f) => Gone(f)'
    BY <1>0, <1>1, GoneStays, Numbers DEF Inv, TypeOK
  <2>2. \A u \in Tab : state[u] # None => state[u] \in minted
    BY <1>0 DEF TypeOK
  <2>3. state' = state BY <1>1
  <2>4. \A u \in Tab : Gone(state[u]) /\ state[u] # None => Gone(state[u])'
    BY <2>1, <2>2, <2>3
  <2>5. ASSUME NEW u \in Tab, u # t
        PROVE  pc'[u] = pc[u] /\ sent'[u] = sent[u] /\ why'[u] = why[u]
    BY <1>0, <1>1, <2>5 DEF TypeOK
  <2>6. /\ pc'[t] = "check" /\ why'[t] = "none"
        /\ sent'[t].state \in {None, jar.state}
    BY <1>0, <1>1 DEF TypeOK, NoCookies
  <2>7. state[t] # None
    BY <1>0, <1>1 DEF Paired
  <2>8. sent'[t].state \notin {None, state[t]} => Gone(state[t])
    BY <1>0, <2>2, <2>6, <2>7 DEF Kept
  <2>9. \A u \in Tab : pc[u] = "check" => state[u] # None
    BY <1>0 DEF Paired, Callback
  <2> QED BY <1>0, <2>3, <2>4, <2>5, <2>6, <2>7, <2>8, <2>9 DEF Excused
<1> QED BY <1>2, <1>3, <1>4, <1>5, <1>6, <1>7 DEF Inv

\* The comparison of the state with its cookie.
LEMMA CheckInv ==
  ASSUME Inv, NEW t \in Tab, Check(t)
  PROVE  Inv'
<1>0. TypeOK /\ Paired /\ Timed /\ Recorded /\ Kept /\ Excused BY DEF Inv
<1>1. /\ pc[t] = "check"
      /\ UNCHANGED <<now, jar, minted, born, raced, state, challenge, redeemed, item,
                     lag, errors, used,
                     unrecorded>>
      /\ \/ /\ pc' = [pc EXCEPT ![t] = "failed"]
            /\ sent' = [sent EXCEPT ![t] = NoCookies]
            /\ since' = [since EXCEPT ![t] = 0]
            /\ \/ why' = [why EXCEPT ![t] = "missing"]
               \/ /\ why' = [why EXCEPT ![t] = "mismatch"]
                  /\ sent[t].verifier # None /\ sent[t].state # state[t]
         \/ /\ pc' = [pc EXCEPT ![t] = "get"] /\ UNCHANGED <<why, sent, since>>
            /\ sent[t].state = state[t]
  BY DEF Check, Fail, Goto, browser, table
<1>2. TypeOK'
  <2>1. pc' \in [Tab -> Steps] BY <1>0, <1>1 DEF TypeOK, Steps
  <2>2. sent' \in [Tab -> Cookies]
    BY <1>0, <1>1 DEF TypeOK, Cookies, NoCookies
  <2>3. since' \in [Tab -> Nat] BY <1>0, <1>1 DEF TypeOK
  <2>4. why' \in [Tab -> Reasons] BY <1>0, <1>1 DEF TypeOK, Reasons
  <2> QED BY <1>0, <1>1, <2>1, <2>2, <2>3, <2>4 DEF TypeOK
<1>3. Paired'
  BY <1>0, <1>1, NoneAssumption DEF Paired, Callback, Answering, NoCookies, TypeOK
<1>4. Timed'
  BY <1>0, <1>1, NoneAssumption, Numbers DEF Timed, Callback, NoCookies, TypeOK
<1>5. Recorded'
  BY <1>0, <1>1, NoneAssumption, Numbers DEF Recorded, TypeOK
<1>6. Kept'
  BY <1>0, <1>1, NoneAssumption, Numbers DEF Kept, Gone, TypeOK
<1>7. Excused'
  <2>1. \A f \in minted : Gone(f) => Gone(f)'
    BY <1>0, <1>1, GoneStays, Numbers DEF Inv, TypeOK
  <2>2. \A u \in Tab : state[u] # None => state[u] \in minted
    BY <1>0 DEF TypeOK
  <2>3. ASSUME NEW u \in Tab, u # t
        PROVE  /\ pc'[u] = pc[u] /\ sent'[u] = sent[u] /\ why'[u] = why[u]
               /\ state'[u] = state[u]
    BY <1>0, <1>1, <2>3 DEF TypeOK
  <2>4. pc'[t] \notin {"edge", "check"} /\ state'[t] = state[t]
    BY <1>0, <1>1 DEF TypeOK
  <2>5. why'[t] = "mismatch" => state[t] # None /\ Gone(state[t])
    BY <1>0, <1>1 DEF TypeOK, Excused, Paired, Callback
  <2>6. \A u \in Tab : why[u] = "mismatch" => state[u] # None /\ Gone(state[u])
    BY <1>0 DEF Excused
  <2>7. \A u \in Tab : why'[u] = "mismatch" => state[u] # None /\ Gone(state[u])
    BY <2>3, <2>5, <2>6
  <2>8. \A u \in Tab : pc[u] = "check" => state[u] # None
    BY <1>0 DEF Paired, Callback
  <2>9. \A u \in Tab : /\ (pc'[u] = "check" => pc[u] = "check")
                       /\ (pc'[u] = "edge" => u # t /\ pc[u] = "edge")
                       /\ (pc'[u] = "check" => sent'[u] = sent[u])
    BY <2>3, <2>4
  <2>10. state' = state BY <1>1
  <2>11. \A u \in Tab : Gone(state[u]) /\ state[u] # None => Gone(state[u])'
    BY <2>1, <2>2, <2>10
  <2> QED BY <1>0, <2>3, <2>7, <2>8, <2>9, <2>10, <2>11 DEF Excused
<1> QED BY <1>2, <1>3, <1>4, <1>5, <1>6, <1>7 DEF Inv

\* The look at the STATE# item.
LEMMA GetInv ==
  ASSUME Inv, NEW t \in Tab, GetState(t)
  PROVE  Inv'
<1>0. TypeOK /\ Paired /\ Timed /\ Recorded /\ Kept /\ Excused BY DEF Inv
<1>1. /\ pc[t] = "get"
      /\ UNCHANGED <<now, jar, minted, born, raced, state, challenge, redeemed, item, lag>>
      /\ errors' \in Nat
      /\ {used', unrecorded'} \subseteq SUBSET minted
      /\ \/ /\ pc' = [pc EXCEPT ![t] = "failed"]
            /\ sent' = [sent EXCEPT ![t] = NoCookies]
            /\ since' = [since EXCEPT ![t] = 0]
            /\ why' = [why EXCEPT ![t] = "reuse"]
         \/ /\ \E s \in {"put", "exchange"} : pc' = [pc EXCEPT ![t] = s]
            /\ UNCHANGED <<why, sent, since>>
  <2>1. state[t] \in minted /\ {used, unrecorded} \subseteq SUBSET minted
        /\ errors \in Nat
    BY <1>0 DEF GetState, Goto, TypeOK, Paired, Callback
  <2> QED BY <2>1 DEF GetState, SkipCheck, Fail, Goto, browser
<1>2. TypeOK'
  <2>1. pc' \in [Tab -> Steps] BY <1>0, <1>1 DEF TypeOK, Steps
  <2>2. sent' \in [Tab -> Cookies]
    BY <1>0, <1>1 DEF TypeOK, Cookies, NoCookies
  <2>3. since' \in [Tab -> Nat] BY <1>0, <1>1 DEF TypeOK
  <2>4. why' \in [Tab -> Reasons] BY <1>0, <1>1 DEF TypeOK, Reasons
  <2> QED BY <1>0, <1>1, <2>1, <2>2, <2>3, <2>4 DEF TypeOK
<1>3. Paired'
  BY <1>0, <1>1, NoneAssumption DEF Paired, Callback, Answering, NoCookies, TypeOK
<1>4. Timed'
  BY <1>0, <1>1, NoneAssumption, Numbers DEF Timed, Callback, NoCookies, TypeOK
<1>5. Recorded'
  BY <1>0, <1>1, NoneAssumption, Numbers DEF Recorded, TypeOK
<1>6. Kept'
  BY <1>0, <1>1, NoneAssumption, Numbers DEF Kept, Gone, TypeOK
<1>7. Excused'
  BY <1>0, <1>1, NoneAssumption, Numbers DEF Excused, Gone, NoCookies, TypeOK
<1> QED BY <1>2, <1>3, <1>4, <1>5, <1>6, <1>7 DEF Inv

\* The write of the STATE# item.
LEMMA PutInv ==
  ASSUME Inv, NEW t \in Tab, PutState(t)
  PROVE  Inv'
<1>0. TypeOK /\ Paired /\ Timed /\ Recorded /\ Kept /\ Excused BY DEF Inv
<1>1. /\ pc[t] = "put" /\ pc' = [pc EXCEPT ![t] = "exchange"]
      /\ UNCHANGED <<now, jar, minted, born, raced, sent, state, challenge, redeemed,
                     since, why, used>>
      /\ errors' \in Nat
      /\ \/ /\ item' = [item EXCEPT ![state[t]] = now + Age]
            /\ lag' = lag \cup {state[t]} /\ UNCHANGED unrecorded
         \/ /\ UNCHANGED <<item, lag>>
            /\ unrecorded' = unrecorded \cup {state[t]}
  BY DEF PutState, SkipCheck, Goto, browser, Inv, TypeOK
<1>2. TypeOK'
  <2>1. pc' \in [Tab -> Steps] BY <1>0, <1>1 DEF TypeOK, Steps
  <2>2. state[t] \in minted BY <1>0, <1>1 DEF TypeOK, Paired, Callback
  <2>3. item' \in [Flow -> Nat]
    <3>1. now + Age \in Nat BY <1>0, Numbers
    <3> QED BY <1>0, <1>1, <3>1 DEF TypeOK
  <2>4. {lag', used', unrecorded'} \subseteq SUBSET minted'
    BY <1>0, <1>1, <2>2 DEF TypeOK
  <2> QED BY <1>0, <1>1, <2>1, <2>3, <2>4 DEF TypeOK
<1>3. Paired'
  BY <1>0, <1>1, NoneAssumption DEF Paired, Callback, Answering, NoCookies, TypeOK
<1>4. Timed'
  BY <1>0, <1>1, NoneAssumption, Numbers DEF Timed, Callback, NoCookies, TypeOK
<1>5. Recorded'
  <2>1. state[t] \in minted /\ minted \subseteq Flow
    BY <1>0, <1>1 DEF TypeOK, Paired, Callback
  <2>2. CASE UNCHANGED item
    BY <1>0, <1>1, <2>2 DEF Recorded
  <2>3. CASE item' = [item EXCEPT ![state[t]] = now + Age]
    <3>1. /\ now >= 1 /\ born[state[t]] <= now /\ born[state[t]] \in Nat
          /\ Age \in Nat /\ now \in Nat
      BY <1>0, <2>1, Numbers DEF Recorded, Timed
    <3>2. /\ item'[state[t]] = now + Age
          /\ \A f \in Flow : f # state[t] => item'[f] = item[f]
      BY <1>0, <2>1, <2>3 DEF TypeOK
    <3>3. now' = now /\ minted' = minted /\ born' = born BY <1>1
    <3>4. now + Age # 0 /\ now + Age >= born[state[t]] + Age BY <3>1
    <3>5. \A f \in Flow \ minted : item'[f] = 0
      BY <1>0, <2>1, <3>2 DEF Recorded
    <3>6. \A f \in minted : item'[f] # 0 => item'[f] >= born[f] + Age
      BY <1>0, <2>1, <3>2, <3>4 DEF Recorded
    <3> QED BY <3>1, <3>3, <3>5, <3>6 DEF Recorded
  <2> QED BY <1>1, <2>2, <2>3
<1>6. Kept'
  BY <1>0, <1>1, NoneAssumption, Numbers DEF Kept, Gone, TypeOK
<1>7. Excused'
  BY <1>0, <1>1, NoneAssumption, Numbers DEF Excused, Gone, NoCookies, TypeOK
<1> QED BY <1>2, <1>3, <1>4, <1>5, <1>6, <1>7 DEF Inv

\* The exchange of the code.
LEMMA ExchangeInv ==
  ASSUME Inv, NEW t \in Tab, Exchange(t)
  PROVE  Inv'
<1>0. TypeOK /\ Paired /\ Timed /\ Recorded /\ Kept /\ Excused BY DEF Inv
<1>1. /\ pc[t] = "exchange" /\ pc' = [pc EXCEPT ![t] = "respond"]
      /\ redeemed' = [redeemed EXCEPT ![t] = TRUE]
      /\ UNCHANGED <<now, jar, minted, born, raced, sent, state, challenge, since, why,
                     item, lag, errors, used,
                     unrecorded>>
  BY DEF Exchange, browser, table
<1>2. TypeOK'
  BY <1>0, <1>1, NoneAssumption DEF TypeOK, Steps, Reasons, Cookies, NoCookies
<1>3. Paired'
  BY <1>0, <1>1, NoneAssumption DEF Paired, Callback, Answering, NoCookies, TypeOK
<1>4. Timed'
  BY <1>0, <1>1, NoneAssumption, Numbers DEF Timed, Callback, NoCookies, TypeOK
<1>5. Recorded'
  BY <1>0, <1>1, NoneAssumption, Numbers DEF Recorded, TypeOK
<1>6. Kept'
  BY <1>0, <1>1, NoneAssumption, Numbers DEF Kept, Gone, TypeOK
<1>7. Excused'
  BY <1>0, <1>1, NoneAssumption, Numbers DEF Excused, Gone, NoCookies, TypeOK
<1> QED BY <1>2, <1>3, <1>4, <1>5, <1>6, <1>7 DEF Inv

\* An error answer after the check.
LEMMA RefuseInv ==
  ASSUME Inv, NEW t \in Tab, Refuse(t)
  PROVE  Inv'
<1>0. TypeOK /\ Paired /\ Timed /\ Recorded /\ Kept /\ Excused BY DEF Inv
<1>1. /\ pc[t] \in {"exchange", "respond"}
      /\ UNCHANGED <<now, jar, minted, born, raced, state, challenge, redeemed, item,
                     lag, errors, used,
                     unrecorded>>
      /\ pc' = [pc EXCEPT ![t] = "failed"]
      /\ sent' = [sent EXCEPT ![t] = NoCookies]
      /\ since' = [since EXCEPT ![t] = 0]
      /\ why' = [why EXCEPT ![t] = "error"]
  BY DEF Refuse, Fail, browser, table
<1>2. TypeOK'
  BY <1>0, <1>1, NoneAssumption DEF TypeOK, Steps, Reasons, Cookies, NoCookies
<1>3. Paired'
  BY <1>0, <1>1, NoneAssumption DEF Paired, Callback, Answering, NoCookies, TypeOK
<1>4. Timed'
  BY <1>0, <1>1, NoneAssumption, Numbers DEF Timed, Callback, NoCookies, TypeOK
<1>5. Recorded'
  BY <1>0, <1>1, NoneAssumption, Numbers DEF Recorded, TypeOK
<1>6. Kept'
  BY <1>0, <1>1, NoneAssumption, Numbers DEF Kept, Gone, TypeOK
<1>7. Excused'
  BY <1>0, <1>1, NoneAssumption, Numbers DEF Excused, Gone, NoCookies, TypeOK
<1> QED BY <1>2, <1>3, <1>4, <1>5, <1>6, <1>7 DEF Inv

\* The session is answered, and the cookies cleared.
LEMMA RespondInv ==
  ASSUME Inv, NEW t \in Tab, Respond(t)
  PROVE  Inv'
<1>0. TypeOK /\ Paired /\ Timed /\ Recorded /\ Kept /\ Excused BY DEF Inv
<1>1. /\ pc[t] = "respond" /\ pc' = [pc EXCEPT ![t] = "done"]
      /\ jar' = [state |-> None, verifier |-> None, exp |-> 0]
      /\ UNCHANGED <<now, minted, born, raced, sent, state, challenge, redeemed, since,
                     why, item, lag, errors, used,
                     unrecorded>>
  BY DEF Respond, Goto, table
<1>2. TypeOK'
  BY <1>0, <1>1, NoneAssumption DEF TypeOK, Steps, Reasons, Cookies, NoCookies
<1>3. Paired'
  BY <1>0, <1>1, NoneAssumption DEF Paired, Callback, Answering, NoCookies, TypeOK
<1>4. Timed'
  BY <1>0, <1>1, NoneAssumption, Numbers DEF Timed, Callback, NoCookies, TypeOK
<1>5. Recorded'
  BY <1>0, <1>1, NoneAssumption, Numbers DEF Recorded, TypeOK
<1>6. Kept'
  BY <1>0, <1>1, NoneAssumption, Numbers DEF Kept, Gone, TypeOK
<1>7. Excused'
  BY <1>0, <1>1, NoneAssumption, Numbers DEF Excused, Gone, NoCookies, TypeOK
<1> QED BY <1>2, <1>3, <1>4, <1>5, <1>6, <1>7 DEF Inv

\* An item is removed after its time.
LEMMA SweepInv ==
  ASSUME Inv, NEW f \in Flow, Sweep(f)
  PROVE  Inv'
<1>0. TypeOK /\ Paired /\ Timed /\ Recorded /\ Kept /\ Excused BY DEF Inv
<1>1. /\ item[f] # 0 /\ item[f] < now /\ item' = [item EXCEPT ![f] = 0]
      /\ UNCHANGED <<now, jar, minted, born, raced, sent, state, challenge, redeemed,
                     since, why, lag, errors, used,
                     unrecorded, pc>>
  BY DEF Sweep, browser, tabs
<1>2. TypeOK'
  BY <1>0, <1>1, NoneAssumption DEF TypeOK, Steps, Reasons, Cookies, NoCookies
<1>3. Paired'
  BY <1>0, <1>1, NoneAssumption DEF Paired, Callback, Answering, NoCookies, TypeOK
<1>4. Timed'
  BY <1>0, <1>1, NoneAssumption, Numbers DEF Timed, Callback, NoCookies, TypeOK
<1>5. Recorded'
  BY <1>0, <1>1, NoneAssumption, Numbers DEF Recorded, TypeOK
<1>6. Kept'
  BY <1>0, <1>1, NoneAssumption, Numbers DEF Kept, Gone, TypeOK
<1>7. Excused'
  BY <1>0, <1>1, NoneAssumption, Numbers DEF Excused, Gone, NoCookies, TypeOK
<1> QED BY <1>2, <1>3, <1>4, <1>5, <1>6, <1>7 DEF Inv

\* A put reaches the last replica.
LEMMA SettleInv ==
  ASSUME Inv, NEW f \in Flow, Settle(f)
  PROVE  Inv'
<1>0. TypeOK /\ Paired /\ Timed /\ Recorded /\ Kept /\ Excused BY DEF Inv
<1>1. /\ lag' = lag \ {f}
      /\ UNCHANGED <<now, jar, minted, born, raced, sent, state, challenge, redeemed,
                     since, why, item, errors, used, unrecorded, pc>>
  BY DEF Settle, browser, tabs
<1>2. TypeOK' BY <1>0, <1>1 DEF TypeOK
<1>3. Paired' /\ Timed' /\ Recorded' /\ Kept' /\ Excused'
  BY <1>0, <1>1 DEF Paired, Timed, Recorded, Kept, Excused, Gone
<1> QED BY <1>2, <1>3 DEF Inv

\* Time passes.
LEMMA TickInv ==
  ASSUME Inv, Tick
  PROVE  Inv'
<1>0. TypeOK /\ Paired /\ Timed /\ Recorded /\ Kept /\ Excused BY DEF Inv
<1>1. /\ now' = now + 1 /\ \A t \in Tab : pc[t] \in Callback => since[t] = now
      /\ UNCHANGED <<jar, minted, born, raced, sent, state, challenge, redeemed,
                     since, why, item, lag, errors, used,
                     unrecorded, pc>>
  BY DEF Tick, browser, tabs, table
<1>2. TypeOK'
  BY <1>0, <1>1, NoneAssumption DEF TypeOK, Steps, Reasons, Cookies, NoCookies
<1>3. Paired'
  BY <1>0, <1>1, NoneAssumption DEF Paired, Callback, Answering, NoCookies, TypeOK
<1>4. Timed'
  BY <1>0, <1>1, NoneAssumption, Numbers DEF Timed, Callback, NoCookies, TypeOK
<1>5. Recorded'
  BY <1>0, <1>1, NoneAssumption, Numbers DEF Recorded, TypeOK
<1>6. Kept'
  BY <1>0, <1>1, NoneAssumption, Numbers DEF Kept, Gone, TypeOK
<1>7. Excused'
  <2>0. now \in Nat /\ now' \in Nat /\ now' >= now
    BY <1>0, <1>1, Numbers
  <2>1. \A f \in minted : Gone(f) => Gone(f)'
    BY <1>1, <2>0, GoneStays
  <2>2. \A u \in Tab : state[u] # None => state[u] \in minted
    BY <1>0 DEF TypeOK
  <2>3. state' = state /\ pc' = pc /\ why' = why /\ sent' = sent BY <1>1
  <2>4. \A u \in Tab : Gone(state[u]) /\ state[u] # None => Gone(state[u])'
    BY <2>1, <2>2, <2>3
  <2>5. \A u \in Tab : pc[u] = "check" => state[u] # None
    BY <1>0 DEF Paired, Callback
  <2> QED BY <1>0, <2>3, <2>4, <2>5 DEF Excused
<1> QED BY <1>2, <1>3, <1>4, <1>5, <1>6, <1>7 DEF Inv

\* The edge reuses the flow of a request, or mints one.
LEMMA RedirectInv ==
  ASSUME Inv, NEW t \in Tab, Redirect(t)
  PROVE  Inv'
<1>0. TypeOK /\ Paired /\ Timed /\ Recorded /\ Kept /\ Excused BY DEF Inv
<1>1. /\ pc[t] = "edge" /\ pc' = [pc EXCEPT ![t] = "idp"]
      /\ redeemed' = [redeemed EXCEPT ![t] = FALSE]
      /\ UNCHANGED <<now, sent, since, why, item, lag, errors, used,
                     unrecorded>>
      /\ \/ /\ sent[t].state # None
            /\ state' = [state EXCEPT ![t] = sent[t].state]
            /\ challenge' = [challenge EXCEPT ![t] = sent[t].verifier]
            /\ UNCHANGED <<jar, minted, born, raced>>
         \/ \E f \in Flow \ minted :
              /\ minted' = minted \cup {f} /\ born' = [born EXCEPT ![f] = now]
              /\ jar' = [state |-> f, verifier |-> f, exp |-> now + Age]
              /\ state' = [state EXCEPT ![t] = f]
              /\ challenge' = [challenge EXCEPT ![t] = f]
              /\ raced' = IF now < jar.exp THEN raced \cup {jar.state} ELSE raced
  BY DEF Redirect, Goto, Live, browser, table
<1>2. TypeOK'
  <2>1. pc' \in [Tab -> Steps] /\ redeemed' \in [Tab -> BOOLEAN]
    BY <1>0, <1>1 DEF TypeOK, Steps
  <2>2. now + Age \in Nat BY <1>0, Numbers
  <2>3. jar' \in [state : Flow \cup {None}, verifier : Flow \cup {None},
                  exp : Nat]
    BY <1>0, <1>1, <2>2 DEF TypeOK
  <2>4. jar'.state = jar'.verifier
    BY <1>0, <1>1 DEF Paired
  <2>5. (jar'.state = None) = (jar'.verifier = None) BY <2>4
  <2>6. born' \in [Flow -> Nat] BY <1>0, <1>1 DEF TypeOK
  <2>7. minted \subseteq minted' /\ minted' \subseteq Flow
    BY <1>0, <1>1 DEF TypeOK
  <2>8. raced' \subseteq minted'
    <3>1. raced \subseteq minted BY <1>0 DEF TypeOK
    <3>2. now < jar.exp => jar.state \in minted
      BY <1>0, Numbers DEF Timed, Paired
    <3> QED BY <1>1, <2>7, <3>1, <3>2
  <2>9. {lag', used', unrecorded'} \subseteq SUBSET minted'
    BY <1>0, <1>1, <2>7 DEF TypeOK
  <2>10. \A s \in {sent[t].state, sent[t].verifier} : s \in minted \cup {None}
    BY <1>0 DEF Paired
  <2>11. \E s \in minted' \cup {None} : state' = [state EXCEPT ![t] = s]
    BY <1>1, <2>7, <2>10
  <2>12. \E s \in minted' \cup {None} : challenge' = [challenge EXCEPT ![t] = s]
    BY <1>1, <2>7, <2>10
  <2>13. {state', challenge'} \subseteq [Tab -> minted' \cup {None}]
    BY <1>0, <2>7, <2>11, <2>12 DEF TypeOK
  <2> QED BY <1>0, <1>1, <2>1, <2>3, <2>5, <2>6, <2>7, <2>8, <2>9, <2>13
          DEF TypeOK
<1>3. Paired'
  BY <1>0, <1>1, NoneAssumption DEF Paired, Callback, Answering, NoCookies, TypeOK
<1>4. Timed'
  <2>1. CASE UNCHANGED <<jar, minted, born, raced>>
    <3>1. \A u \in Tab : pc'[u] \in Callback => pc[u] \in Callback
      BY <1>0, <1>1 DEF TypeOK, Callback
    <3> QED BY <1>0, <1>1, <2>1, <3>1 DEF Timed
  <2>2. ASSUME NEW f \in Flow \ minted,
               minted' = minted \cup {f}, born' = [born EXCEPT ![f] = now],
               jar' = [state |-> f, verifier |-> f, exp |-> now + Age]
        PROVE  Timed'
    <3>1. born'[f] = now /\ \A g \in minted : born'[g] = born[g]
      BY <1>0, <2>2 DEF TypeOK
    <3>2. jar'.state = f /\ jar'.exp = born'[f] + Age /\ f # None
      BY <2>2, <3>1, NoneAssumption
    <3>3. now' = now /\ sent' = sent /\ since' = since BY <1>1
    <3>4. \A g \in minted' : born'[g] <= now'
      BY <1>0, <2>2, <3>1, <3>3, Numbers DEF Timed
    <3>5. \A u \in Tab : pc'[u] \in Callback => pc[u] \in Callback
      BY <1>0, <1>1 DEF TypeOK, Callback
    <3>6. \A u \in Tab : sent[u].state # None => sent[u].state \in minted
      BY <1>0 DEF Paired
    <3>7. \A u \in Tab : pc'[u] \in Callback =>
            /\ since[u] <= now /\ now <= since[u] + 1
            /\ sent[u].state # None => since[u] < born'[sent[u].state] + Age
      BY <1>0, <3>1, <3>5, <3>6 DEF Timed
    <3> QED BY <3>2, <3>3, <3>4, <3>7 DEF Timed
  <2> QED BY <1>1, <2>1, <2>2
<1>5. Recorded'
  BY <1>0, <1>1, NoneAssumption, Numbers DEF Recorded, TypeOK
<1>6. Kept'
  <2>1. \A f \in minted : born'[f] = born[f] /\ (Gone(f) => Gone(f)')
    <3>1. \A f \in minted : born'[f] = born[f] BY <1>0, <1>1 DEF TypeOK
    <3>2. \A u \in Tab : pc[u] = "done" => pc'[u] = "done"
      BY <1>0, <1>1 DEF TypeOK
    <3>3. now' \in Nat /\ now' >= now BY <1>0, <1>1, Numbers
    <3>4. raced \subseteq raced' BY <1>1
    <3> QED BY <3>1, <3>2, <3>3, <3>4, GoneStays
  <2>2. CASE UNCHANGED <<jar, minted, born, raced>>
    BY <1>0, <2>1, <2>2 DEF Kept
  <2>3. ASSUME NEW f \in Flow \ minted, minted' = minted \cup {f},
               jar' = [state |-> f, verifier |-> f, exp |-> now + Age],
               raced' = IF now < jar.exp THEN raced \cup {jar.state} ELSE raced
        PROVE  Kept'
    <3>1. ASSUME NEW g \in minted, ~Gone(g) PROVE Gone(g)'
      <4>1. jar.state = g /\ g # None
        BY <1>0, <3>1, NoneAssumption DEF Kept, TypeOK
      <4>2. jar.exp = born[g] + Age
        BY <1>0, <4>1 DEF Timed
      <4>3. now < jar.exp
        BY <1>0, <3>1, <4>2, Numbers DEF Gone, TypeOK
      <4> QED BY <2>3, <4>1, <4>3 DEF Gone
    <3> QED BY <2>1, <2>3, <3>1 DEF Kept
  <2> QED BY <1>1, <2>2, <2>3
<1>7. Excused'
  <2>1. \A f \in minted : Gone(f) => Gone(f)'
    <3>1. \A f \in minted : born'[f] = born[f] BY <1>0, <1>1 DEF TypeOK
    <3>2. \A u \in Tab : pc[u] = "done" => pc'[u] = "done"
      BY <1>0, <1>1 DEF TypeOK
    <3>3. now' \in Nat /\ now' >= now BY <1>0, <1>1, Numbers
    <3>4. raced \subseteq raced' BY <1>1
    <3> QED BY <3>1, <3>2, <3>3, <3>4, GoneStays
  <2>2. \A u \in Tab : state[u] # None => state[u] \in minted
    BY <1>0 DEF TypeOK
  <2>3. ASSUME NEW u \in Tab, u # t
        PROVE  pc'[u] = pc[u] /\ state'[u] = state[u]
    BY <1>0, <1>1, <2>3 DEF TypeOK
  <2>4. pc'[t] = "idp" /\ why[t] = "none"
    BY <1>0, <1>1 DEF TypeOK, Excused
  <2>5. sent' = sent /\ why' = why BY <1>1
  <2>6. \A u \in Tab : pc[u] = "check" => state[u] # None
    BY <1>0 DEF Paired, Callback
  <2>7. ASSUME NEW u \in Tab
        PROVE  /\ pc'[u] = "edge" => why'[u] = "none"
               /\ (pc'[u] = "check" /\ sent'[u].state \notin {None, state'[u]})
                    => Gone(state[u]) /\ state[u] # None /\ u # t
               /\ why'[u] = "mismatch"
                    => state[u] # None /\ Gone(state[u]) /\ u # t
    <3>1. CASE u = t BY <2>4, <2>5, <3>1
    <3>2. CASE u # t BY <1>0, <2>3, <2>5, <2>6, <3>2 DEF Excused
    <3> QED BY <3>1, <3>2
  <2>8. \A u \in Tab : u # t /\ Gone(state[u]) /\ state[u] # None
                         => Gone(state[u])' /\ state'[u] # None
    <3> SUFFICES ASSUME NEW u \in Tab, u # t, Gone(state[u]), state[u] # None
                 PROVE  Gone(state[u])' /\ state'[u] # None
      OBVIOUS
    <3>1. state'[u] = state[u] /\ state[u] \in minted BY <2>2, <2>3
    <3> QED BY <2>1, <3>1
  <2> QED BY <2>7, <2>8 DEF Excused
<1> QED BY <1>2, <1>3, <1>4, <1>5, <1>6, <1>7 DEF Inv

-----------------------------------------------------------------------------
\* Every step keeps the invariant.
LEMMA StepInv ==
  ASSUME Inv, [Next]_vars
  PROVE  Inv'
<1>1. CASE UNCHANGED vars
  BY <1>1 DEF Inv, TypeOK, Paired, Timed, Recorded, Kept, Excused, Gone, vars,
              browser, tabs, table
<1>2. ASSUME NEW t \in Tab,
             \/ Visit(t) \/ Redirect(t) \/ SendCallback(t)
             \/ Check(t) \/ GetState(t) \/ PutState(t) \/ Exchange(t)
             \/ Refuse(t) \/ Respond(t)
      PROVE  Inv'
  BY <1>2, VisitInv, RedirectInv, SendInv, CheckInv, GetInv, PutInv,
     ExchangeInv, RefuseInv, RespondInv
<1>3. ASSUME NEW f \in Flow, Sweep(f) \/ Settle(f) PROVE Inv'
  BY <1>3, SweepInv, SettleInv
<1>4. CASE Tick BY <1>4, TickInv
<1> QED BY <1>1, <1>2, <1>3, <1>4 DEF Next

\* The invariant holds of every behaviour of the browser and the callback.
LEMMA Invariance == Spec => []Inv
BY InitInv, StepInv, PTL DEF Spec

\* Every variable of the sign-in keeps its type.
THEOREM TypeCorrect == Spec => []TypeOK
<1>1. Inv => TypeOK BY DEF Inv
<1> QED BY <1>1, Invariance, PTL

\* A callback that passed the state comparison of oauth-callback.py brings the
\* IdP the verifier of its own challenge: state and verifier are minted, reused
\* and cleared together.
THEOREM VerifierPaired == Spec => []VerifierMatches
<1>1. Inv => VerifierMatches
  BY DEF Inv, Paired, VerifierMatches, Answering
<1> QED BY <1>1, Invariance, PTL

\* An "Invalid state parameter" answer has one of its three causes: the jar
\* holds every flow that was not raced, has not expired and found no other tab
\* done.
THEOREM Mismatch == Spec => []MismatchExplained
<1>1. Inv => MismatchExplained
  BY DEF Inv, Excused, MismatchExplained, Gone
<1> QED BY <1>1, Invariance, PTL

-----------------------------------------------------------------------------
\* A state a callback went on with is on record, or has left its cookies behind,
\* or one of its calls failed, or its put is still to come.
Accounted ==
  \A f \in used :
    \/ item[f] # 0
    \/ born[f] + Age < now
    \/ f \in unrecorded
    \/ \E u \in Tab : pc[u] = "put" /\ state[u] = f

\* A step that leaves the records and the puts to come alone.
LEMMA AccountedStays ==
  ASSUME Inv, Accounted, used' = used, unrecorded' = unrecorded, item' = item,
         now' \in Nat, now' >= now,
         \A f \in minted : born'[f] = born[f],
         \A u \in Tab : pc[u] = "put" => pc'[u] = "put" /\ state'[u] = state[u]
  PROVE  Accounted'
<1>1. /\ Age \in Nat /\ now \in Nat /\ used \subseteq minted
      /\ \A f \in minted : born[f] \in Nat
  BY Numbers DEF Inv, TypeOK
<1> QED BY <1>1 DEF Accounted

\* The steps of a callback around the record.
LEMMA AccountedCallback ==
  ASSUME Inv, Accounted, NEW t \in Tab, GetState(t) \/ PutState(t)
  PROVE  Accounted'
<1>0. TypeOK /\ Paired /\ Timed /\ Recorded BY DEF Inv
<1>1. /\ now' = now /\ born' = born /\ state' = state /\ minted' = minted
      /\ \A u \in Tab \ {t} : pc'[u] = pc[u]
  BY <1>0 DEF GetState, PutState, SkipCheck, Goto, Fail, browser, TypeOK
<1>2. CASE GetState(t)
  <2>1. /\ pc[t] = "get" /\ item' = item /\ unrecorded \subseteq unrecorded'
        /\ \/ used' = used
           \/ used' = used \cup {state[t]} /\ pc'[t] = "put"
           \/ used' = used \cup {state[t]} /\ state[t] \in unrecorded'
    BY <1>0, <1>2 DEF GetState, SkipCheck, Goto, Fail, TypeOK
  <2>2. \A u \in Tab : pc[u] = "put" => pc'[u] = "put" /\ state'[u] = state[u]
    BY <1>1, <2>1
  <2>3. ASSUME NEW f \in used
        PROVE  \/ item'[f] # 0 \/ born'[f] + Age < now' \/ f \in unrecorded'
               \/ \E u \in Tab : pc'[u] = "put" /\ state'[u] = f
    BY <1>1, <2>1, <2>2 DEF Accounted
  <2>4. \/ used' = used
        \/ /\ used' = used \cup {state[t]}
           /\ \/ state[t] \in unrecorded'
              \/ \E u \in Tab : pc'[u] = "put" /\ state'[u] = state[t]
    BY <1>1, <2>1
  <2> QED BY <2>3, <2>4 DEF Accounted
<1>3. CASE PutState(t)
  <2>1. state[t] \in minted /\ minted \subseteq Flow /\ used \subseteq minted
    BY <1>0, <1>3 DEF PutState, Goto, TypeOK, Paired, Callback
  <2>2. now + Age # 0 BY <1>0, Numbers DEF Recorded
  <2>3. /\ used' = used /\ unrecorded \subseteq unrecorded'
        /\ \/ item' = [item EXCEPT ![state[t]] = now + Age]
           \/ item' = item /\ state[t] \in unrecorded'
    BY <1>3 DEF PutState, SkipCheck
  <2>4. item'[state[t]] # 0 \/ state[t] \in unrecorded'
    BY <1>0, <2>1, <2>2, <2>3 DEF TypeOK
  <2>5. \A f \in Flow : f # state[t] => item'[f] = item[f]
    BY <1>0, <2>1, <2>3 DEF TypeOK
  <2>6. ASSUME NEW f \in used
        PROVE  \/ item'[f] # 0 \/ born'[f] + Age < now' \/ f \in unrecorded'
               \/ \E u \in Tab : pc'[u] = "put" /\ state'[u] = f
    <3>1. CASE f = state[t] BY <2>4, <3>1
    <3>2. CASE f # state[t]
      <4>1. item'[f] = item[f] BY <2>1, <2>5, <3>2
      <4>2. \A u \in Tab : pc[u] = "put" /\ state[u] = f =>
                           pc'[u] = "put" /\ state'[u] = f
        BY <1>1, <3>2
      <4> QED BY <1>1, <2>3, <4>1, <4>2 DEF Accounted
    <3> QED BY <3>1, <3>2
  <2> QED BY <2>3, <2>6 DEF Accounted
<1> QED BY <1>2, <1>3

\* Every step keeps account.
LEMMA AccountedStep ==
  ASSUME Inv, Accounted, [Next]_vars
  PROVE  Accounted'
<1>0. TypeOK /\ Recorded BY DEF Inv
<1>00. now \in Nat /\ now + 1 \in Nat /\ now >= now /\ now + 1 >= now
  BY <1>0, Numbers
<1>1. CASE UNCHANGED vars
  BY <1>1, <1>00, AccountedStays DEF vars, browser, tabs, table
<1>2. ASSUME NEW t \in Tab, GetState(t) \/ PutState(t) PROVE Accounted'
  BY <1>2, AccountedCallback
<1>3. ASSUME NEW t \in Tab,
             \/ Visit(t) \/ SendCallback(t) \/ Check(t) \/ Exchange(t)
             \/ Refuse(t) \/ Respond(t)
      PROVE  Accounted'
  <2>1. UNCHANGED <<now, minted, born, state, item, used, unrecorded>>
    BY <1>3 DEF Visit, SendCallback, Check, Exchange, Refuse, Respond,
       browser, table
  <2>2. pc[t] # "put" /\ \A u \in Tab \ {t} : pc'[u] = pc[u]
    BY <1>0, <1>3 DEF Visit, SendCallback, Check, Exchange, Refuse, Respond,
       Goto, Fail, TypeOK
  <2> QED BY <1>00, <2>1, <2>2, AccountedStays
<1>4. ASSUME NEW t \in Tab, Redirect(t) PROVE Accounted'
  <2>1. UNCHANGED <<now, item, used, unrecorded>> /\ pc[t] = "edge"
    BY <1>4 DEF Redirect, Goto, table
  <2>2. \A u \in Tab \ {t} : pc'[u] = pc[u] /\ state'[u] = state[u]
    BY <1>0, <1>4 DEF Redirect, Goto, TypeOK
  <2>3. \A f \in minted : born'[f] = born[f]
    BY <1>0, <1>4 DEF Redirect, TypeOK, browser
  <2>4. \A u \in Tab : pc[u] = "put" => pc'[u] = "put" /\ state'[u] = state[u]
    BY <2>1, <2>2
  <2> QED BY <1>00, <2>1, <2>3, <2>4, AccountedStays
<1>5. ASSUME NEW f \in Flow, Sweep(f) PROVE Accounted'
  <2>1. /\ item[f] # 0 /\ item[f] < now /\ item' = [item EXCEPT ![f] = 0]
        /\ UNCHANGED <<now, born, pc, state, used, unrecorded>>
    BY <1>5 DEF Sweep, browser, tabs
  <2>2. f \in minted => born[f] + Age < now
    BY <1>0, <2>1, Numbers DEF Recorded, TypeOK
  <2>3. \A g \in Flow : g # f => item'[g] = item[g]
    BY <1>0, <2>1 DEF TypeOK
  <2>4. used \subseteq minted /\ minted \subseteq Flow BY <1>0 DEF TypeOK
  <2> QED BY <2>1, <2>2, <2>3, <2>4 DEF Accounted
<1>6. ASSUME NEW f \in Flow, Settle(f) PROVE Accounted'
  BY <1>6, <1>00, AccountedStays DEF Settle, browser, tabs
<1>7. CASE Tick
  BY <1>7, <1>00, AccountedStays DEF Tick, browser, tabs, table
<1> QED BY <1>1, <1>2, <1>3, <1>4, <1>5, <1>6, <1>7 DEF Next

\* A state is not used twice but for three reasons: while its first callback is
\* between look and put, while its put settles, or when a call for it failed.
\* Its item is swept only when the cookies that could bring it back have ended.
THEOREM Replay == Spec => ReplayRefused
<1> DEFINE Repeats(t) ==
      pc[t] = "get" /\ pc'[t] \in {"put", "exchange"} /\ state[t] \in used
<1> DEFINE Cause(t) ==
      \/ \E u \in Tab : pc[u] = "put" /\ state[u] = state[t]
      \/ state[t] \in lag
      \/ state[t] \in unrecorded'
<1> DEFINE Fresh == \A t \in Tab : Repeats(t) => Cause(t)
<1>1. Init => Accounted BY DEF Init, Accounted
<1>2. ASSUME Inv, Accounted, [Next]_vars PROVE [Fresh]_vars
  <2>0. pc \in [Tab -> Steps] BY <1>2 DEF Inv, TypeOK
  <2>1. ASSUME NEW t \in Tab, GetState(t) PROVE Fresh
    <3>1. ASSUME NEW u \in Tab, u # t PROVE pc'[u] = pc[u]
      BY <2>0, <2>1, <3>1 DEF GetState, Goto, Fail
    <3>2. ASSUME Repeats(t) PROVE Cause(t)
      <4>1. /\ unrecorded \subseteq unrecorded'
            /\ \/ item[state[t]] = 0 \/ state[t] \in lag
               \/ state[t] \in unrecorded'
        BY <2>0, <2>1, <3>2 DEF GetState, SkipCheck, Goto, Fail
      <4>2. ~(born[state[t]] + Age < now)
        <5>1. /\ sent[t].state = state[t] /\ state[t] # None
              /\ now <= since[t] + 1
          BY <1>2, <3>2 DEF Inv, Paired, Timed, Callback, Answering
        <5>2. since[t] < born[state[t]] + Age
          BY <1>2, <3>2, <5>1 DEF Inv, Timed, Callback
        <5>3. state[t] \in Flow BY <1>2, <3>2 DEF Inv, TypeOK
        <5>4. /\ now \in Nat /\ since[t] \in Nat /\ Age \in Nat
              /\ born[state[t]] \in Nat
          BY <1>2, <5>3, Numbers DEF Inv
        <5> QED BY <5>1, <5>2, <5>4
      <4>3. \/ item[state[t]] # 0
            \/ born[state[t]] + Age < now
            \/ state[t] \in unrecorded
            \/ \E u \in Tab : pc[u] = "put" /\ state[u] = state[t]
        BY <1>2, <3>2 DEF Accounted
      <4> QED BY <4>1, <4>2, <4>3
    <3>3. \A u \in Tab : u # t => ~Repeats(u) BY <3>1
    <3> QED BY <3>2, <3>3
  <2>2. ASSUME NEW t \in Tab,
               \/ Visit(t) \/ Redirect(t) \/ SendCallback(t) \/ Check(t)
               \/ PutState(t) \/ Exchange(t) \/ Refuse(t) \/ Respond(t)
        PROVE  Fresh
    <3>1. ASSUME NEW u \in Tab, u # t PROVE pc'[u] = pc[u]
      BY <2>0, <2>2, <3>1 DEF Visit, Redirect, SendCallback, Check, PutState,
         Exchange, Refuse, Respond, Goto, Fail
    <3>2. pc[t] # "get" \/ pc'[t] \notin {"put", "exchange"}
      BY <2>0, <2>2 DEF Visit, Redirect, SendCallback, Check, PutState,
         Exchange, Refuse, Respond, Goto, Fail
    <3> QED BY <3>1, <3>2
  <2>3. ASSUME UNCHANGED pc PROVE Fresh BY <2>3
  <2>4. (\E f \in Flow : Sweep(f) \/ Settle(f)) \/ Tick \/ UNCHANGED vars
          => UNCHANGED pc
    BY DEF Sweep, Settle, Tick, tabs, vars
  <2> QED BY <1>2, <2>1, <2>2, <2>3, <2>4 DEF Next
<1>3. Inv /\ Accounted /\ [Next]_vars => Accounted' BY AccountedStep
<1>4. Spec => []Accounted BY <1>1, <1>3, Invariance, PTL DEF Spec
<1> QED BY <1>2, <1>4, Invariance, PTL DEF Spec, ReplayRefused
=============================================================================
