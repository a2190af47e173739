----------------------- MODULE ContainerDetailProofs -----------------------
(***************************************************************************)
(* The types of the detail page, and that a page opened for one container  *)
(* shows nothing of another, for any number of containers and requests.    *)
(***************************************************************************)
EXTENDS ContainerDetail, TLAPS

\* A poll that is sent takes a free place.
LEMMA AskTakesOne ==
  ASSUME NEW e, Ask(e)
  PROVE  \E s \in Polls : /\ asker[s] = 0
                          /\ asker' = [asker EXCEPT ![s] = e]
                          /\ reply' = [reply EXCEPT ![s] = "pending"]
<1> DEFINE s == CHOOSE t \in Polls : asker[t] = 0
<1>1. s \in Polls /\ asker[s] = 0
  BY DEF Ask
<1> QED BY <1>1 DEF Ask

\* One step of the page or its requests keeps every variable in its type.
LEMMA TypeStep ==
  ASSUME TypeOK, [Next]_vars
  PROVE  TypeOK'
<1> USE BoundAssumption
<1> effect \in Nat /\ mountedAt \in Nat /\ mountedAt <= effect
  BY DEF TypeOK
<1>1. ASSUME NEW i \in Ids, Navigate(i) PROVE TypeOK'
  <2>1. effect' = effect + 1 /\ effect' \in 1..MaxEffects
    BY <1>1 DEF Navigate, Effect, Effects
  <2>2. PICK s \in Polls : /\ asker[s] = 0
                           /\ asker' = [asker EXCEPT ![s] = effect + 1]
                           /\ reply' = [reply EXCEPT ![s] = "pending"]
    BY <1>1, AskTakesOne DEF Navigate, Effect
  <2>3. asker' \in [Polls -> 0..effect'] /\ reply' \in [Polls -> Ids \cup {None, "pending"}]
    BY <2>1, <2>2 DEF TypeOK
  <2>4. id' = i /\ i # None
    BY <1>1, NoneAssumption DEF Navigate
  <2>5. interval' = {effect'}
    BY <1>1, <2>1 DEF Navigate, Effect, Cleaned, TypeOK
  <2>6. idOf' \in [Effects -> Ids \cup {None}] /\ inspect' \subseteq 1..effect'
    BY <1>1, <2>1 DEF Navigate, Effect, TypeOK, Effects
  <2>7. mountedAt' \in 0..effect'
    BY <1>1, <2>1 DEF Navigate
  <2> QED BY <1>1, <2>1, <2>3, <2>4, <2>5, <2>6, <2>7 DEF Navigate, TypeOK, shownVars
<1>2. ASSUME NEW i \in Ids, Flip(i) PROVE TypeOK'
  BY <1>2 DEF Flip, TypeOK, pageVars, shownVars, pollVars
<1>3. CASE Close
  BY <1>3 DEF Close, TypeOK, Cleaned, pollVars
<1>4. ASSUME NEW e \in Effects, Tick(e) PROVE TypeOK'
  <2>1. e \in 0..effect
    BY <1>4 DEF Tick, TypeOK
  <2>2. PICK s \in Polls : /\ asker[s] = 0
                           /\ asker' = [asker EXCEPT ![s] = e]
                           /\ reply' = [reply EXCEPT ![s] = "pending"]
    BY <1>4, AskTakesOne DEF Tick
  <2> QED BY <1>4, <2>1, <2>2 DEF Tick, TypeOK, pageVars, shownVars
<1>5. ASSUME NEW e \in Effects, InspectOk(e) PROVE TypeOK'
  BY <1>5 DEF InspectOk, Live, Redraw, TypeOK, pageVars, pollVars
<1>6. ASSUME NEW e \in Effects, InspectFails(e) PROVE TypeOK'
  BY <1>6 DEF InspectFails, TypeOK, pageVars, shownVars, pollVars
<1>7. ASSUME NEW s \in Polls, Measure(s) PROVE TypeOK'
  <2>1. asker[s] \in Effects
    BY <1>7 DEF Measure, TypeOK, Effects
  <2>2. Measured(idOf[asker[s]]) \in Ids \cup {None}
    BY <2>1 DEF Measured, TypeOK
  <2> QED BY <1>7, <2>2 DEF Measure, TypeOK, pageVars, shownVars
<1>8. ASSUME NEW s \in Polls, StatsOk(s) PROVE TypeOK'
  BY <1>8 DEF StatsOk, PollEnds, Live, Redraw, TypeOK, pageVars
<1>9. ASSUME NEW s \in Polls, StatsFails(s) PROVE TypeOK'
  BY <1>9 DEF StatsFails, PollEnds, TypeOK, pageVars
<1>10. ASSUME NEW tab \in {"detail", "logs"}, SelectTab(tab) PROVE TypeOK'
  BY <1>10 DEF SelectTab, Redraw, TypeOK, pageVars, pollVars
<1>11. CASE Draw
  BY <1>11 DEF Draw, TypeOK, pageVars, pollVars
<1>12. CASE UNCHANGED vars
  BY <1>12 DEF vars, TypeOK, pageVars, shownVars, pollVars
<1> QED BY <1>1, <1>2, <1>3, <1>4, <1>5, <1>6, <1>7, <1>8, <1>9, <1>10, <1>11,
         <1>12 DEF Next

\* Every variable of the detail page keeps its type, and only a page that is
\* shown has an interval: the effect and its cleanup (ContainerDetail.tsx 59-72).
THEOREM TypeCorrect == Spec => []TypeOK
<1>1. Init => TypeOK
  BY BoundAssumption DEF Init, TypeOK
<1>2. TypeOK /\ [Next]_vars => TypeOK'
  BY TypeStep
<1> QED BY <1>1, <1>2, PTL DEF Spec
-----------------------------------------------------------------------------
\* A page that is shown runs an effect for the id in the address.
EffectIsOwn == id # None => effect \in Effects /\ idOf[effect] = id

\* A poll is answered with the container it was sent for, if with one at all.
AnswersAreOwn ==
  \A s \in Polls : asker[s] # 0 => reply[s] \in {"pending", None, idOf[asker[s]]}

\* A page that is not shown has no content.
ClosedIsEmpty == id = None => {container, stats, series} = {None}

\* Redraw and Draw make of the gauges what they drew, what was answered, or nothing.
LEMMA RedrawTakes ==
  ASSUME Redraw
  PROVE  series' \in {None, series, stats'}
BY DEF Redraw

\* What a page that was opened for its container is drawn from.
Own == id # None /\ mountedAt = effect => {container, stats, series} \subseteq {None, id}

IInv == TypeOK /\ EffectIsOwn /\ AnswersAreOwn /\ ClosedIsEmpty /\ Own

\* Navigation starts an effect with a new number: no request has it yet.
LEMMA NavigateStep ==
  ASSUME IInv, NEW i \in Ids, Navigate(i), TypeOK'
  PROVE  IInv'
<1> USE BoundAssumption DEF IInv
<1>1. effect \in Nat /\ mountedAt \in 0..effect
  BY DEF TypeOK
<1>2. effect' = effect + 1 /\ effect' \in Effects /\ id' = i /\ i # None
  BY NoneAssumption DEF Navigate, Effect
<1>3. idOf' = [idOf EXCEPT ![effect + 1] = i] /\ idOf \in [Effects -> Ids \cup {None}]
  BY DEF Navigate, Effect, TypeOK
<1>4. EffectIsOwn'
  BY <1>2, <1>3 DEF EffectIsOwn
<1>5. AnswersAreOwn'
  <2>1. PICK t \in Polls : /\ asker[t] = 0
                           /\ asker' = [asker EXCEPT ![t] = effect + 1]
                           /\ reply' = [reply EXCEPT ![t] = "pending"]
    BY AskTakesOne DEF Navigate, Effect
  <2>2. ASSUME NEW s \in Polls, asker'[s] # 0
        PROVE  reply'[s] \in {"pending", None, idOf'[asker'[s]]}
    <3>1. CASE s = t
      BY <2>1, <3>1 DEF TypeOK
    <3>2. CASE s # t
      <4>1. asker'[s] = asker[s] /\ reply'[s] = reply[s]
        BY <2>1, <3>2 DEF TypeOK
      <4>2. asker[s] \in Effects /\ asker[s] # effect + 1
        BY <1>1, <2>2, <4>1 DEF TypeOK, Effects
      <4> QED BY <1>3, <2>2, <4>1, <4>2 DEF AnswersAreOwn
    <3> QED BY <3>1, <3>2
  <2> QED BY <2>2 DEF AnswersAreOwn
<1>6. ClosedIsEmpty'
  BY <1>2 DEF ClosedIsEmpty
<1>7. Own'
  BY <1>1, <1>2 DEF Navigate, ClosedIsEmpty, Own, shownVars
<1> QED BY <1>4, <1>5, <1>6, <1>7

\* On a page that was opened for its container, an answer that is still taken is
\* an answer to the last effect.
LEMMA LiveIsOwn ==
  ASSUME IInv, NEW e \in 1..effect, Live(e), mountedAt = effect
  PROVE  idOf[e] = id
BY DEF Live, IInv, EffectIsOwn, TypeOK

\* Every other step keeps the invariant.
LEMMA OtherSteps ==
  ASSUME IInv, TypeOK', [Next]_vars, \A i \in Ids : ~Navigate(i)
  PROVE  IInv'
<1> USE BoundAssumption DEF IInv
<1>1. CASE Close
  BY <1>1 DEF Close, EffectIsOwn, AnswersAreOwn, ClosedIsEmpty, Own, pollVars
<1>2. ASSUME NEW e \in Effects, Tick(e) PROVE IInv'
  <2>1. PICK t \in Polls : /\ asker[t] = 0
                           /\ asker' = [asker EXCEPT ![t] = e]
                           /\ reply' = [reply EXCEPT ![t] = "pending"]
    BY <1>2, AskTakesOne DEF Tick
  <2>2. AnswersAreOwn'
    BY <1>2, <2>1 DEF Tick, AnswersAreOwn, TypeOK, pageVars
  <2> QED BY <1>2, <2>2
          DEF Tick, EffectIsOwn, ClosedIsEmpty, Own, pageVars, shownVars
<1>3. ASSUME NEW e \in Effects, InspectOk(e) PROVE IInv'
  <2>1. e \in 1..effect
    BY <1>3 DEF InspectOk, TypeOK
  <2>2. Own'
    BY <1>3, <2>1, LiveIsOwn, RedrawTakes DEF InspectOk, Own, pageVars
  <2>3. ClosedIsEmpty'
    BY <1>3, RedrawTakes DEF InspectOk, Live, ClosedIsEmpty, pageVars
  <2> QED BY <1>3, <2>2, <2>3
          DEF InspectOk, EffectIsOwn, AnswersAreOwn, pageVars, pollVars
<1>4. ASSUME NEW s \in Polls, Measure(s) PROVE IInv'
  <2>1. AnswersAreOwn'
    BY <1>4 DEF Measure, Measured, AnswersAreOwn, TypeOK, pageVars
  <2> QED BY <1>4, <2>1
          DEF Measure, EffectIsOwn, ClosedIsEmpty, Own, pageVars, shownVars
<1>5. ASSUME NEW s \in Polls, PollEnds(s) PROVE AnswersAreOwn'
  BY <1>5 DEF PollEnds, AnswersAreOwn, TypeOK, pageVars
<1>6. ASSUME NEW s \in Polls, StatsOk(s) PROVE IInv'
  <2>1. asker[s] \in 1..effect /\ reply[s] \in {None, idOf[asker[s]]}
    BY <1>6 DEF StatsOk, AnswersAreOwn, TypeOK
  <2>2. Own'
    BY <1>6, <2>1, LiveIsOwn, RedrawTakes DEF StatsOk, PollEnds, Own, pageVars
  <2>3. ClosedIsEmpty'
    BY <1>6, RedrawTakes DEF StatsOk, PollEnds, Live, ClosedIsEmpty, pageVars
  <2>4. EffectIsOwn'
    BY <1>6 DEF StatsOk, PollEnds, EffectIsOwn, pageVars
  <2> QED BY <1>5, <1>6, <2>2, <2>3, <2>4 DEF StatsOk
<1>7. ASSUME NEW s \in Polls, StatsFails(s) PROVE IInv'
  BY <1>5, <1>7
  DEF StatsFails, PollEnds, EffectIsOwn, ClosedIsEmpty, Own, pageVars
<1>8. ASSUME UNCHANGED <<pageVars, shownVars, pollVars>> PROVE IInv'
  BY <1>8 DEF EffectIsOwn, AnswersAreOwn, ClosedIsEmpty, Own,
              pageVars, shownVars, pollVars
<1>9. ASSUME NEW i \in Ids, Flip(i) PROVE IInv'
  BY <1>8, <1>9 DEF Flip
<1>10. ASSUME NEW e \in Effects, InspectFails(e) PROVE IInv'
  BY <1>8, <1>10 DEF InspectFails
<1>11. ASSUME NEW tab \in {"detail", "logs"}, SelectTab(tab) PROVE IInv'
  BY <1>11, RedrawTakes
  DEF SelectTab, EffectIsOwn, AnswersAreOwn, ClosedIsEmpty, Own, pageVars, pollVars
<1>12. CASE Draw
  BY <1>12 DEF Draw, EffectIsOwn, AnswersAreOwn, ClosedIsEmpty, Own, pageVars, pollVars
<1>13. CASE UNCHANGED vars
  BY <1>8, <1>13 DEF vars
<1> QED BY <1>1, <1>2, <1>3, <1>4, <1>6, <1>7, <1>9, <1>10, <1>11, <1>12, <1>13 DEF Next

\* A page opened for a container, and not led to another one, shows nothing of
\* others, however many requests of earlier pages still answer.
THEOREM FreshPageIsAlwaysOwn == Spec => []FreshPageIsOwn
<1>1. Init => IInv
  <2>1. Init => TypeOK
    BY BoundAssumption DEF Init, TypeOK
  <2> QED BY <2>1 DEF Init, IInv, EffectIsOwn, AnswersAreOwn, ClosedIsEmpty, Own
<1>2. IInv /\ [Next]_vars => IInv'
  <2> SUFFICES ASSUME IInv, [Next]_vars PROVE IInv'
    OBVIOUS
  <2>1. TypeOK'
    BY TypeStep DEF IInv
  <2> QED BY <2>1, NavigateStep, OtherSteps
<1>3. IInv => FreshPageIsOwn
  BY DEF IInv, Own, FreshPageIsOwn, Title, Details
<1> QED BY <1>1, <1>2, <1>3, PTL DEF Spec
=============================================================================
