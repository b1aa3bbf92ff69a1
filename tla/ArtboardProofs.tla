--------------------------- MODULE ArtboardProofs ---------------------------
(***************************************************************************)
(* Proofs about UpdateCycle for every scene: any number of components, any *)
(* tree, any constraints and any feeds between updates.  Invariants that   *)
(* need no more than the flags come first; Fresh, which needs how dirt     *)
(* spreads, comes last and only for scenes without a constraint on a solo. *)
(***************************************************************************)
EXTENDS UpdateCycle, NestedAdvance, Induction, TLAPS

(* Marked: a component that addDirt(WorldTransform) would leave alone.     *)
Marked(d) == {j \in Comp : "WorldTransform" \in d[j]}

-----------------------------------------------------------------------------
(* How dirt spreads.                                                       *)

(* A dependent comes after what it depends on.                             *)
LEMMA DependentsFollow ==
  \A i \in Comp : Dependents[i] \subseteq Comp /\ \A j \in Dependents[i] : i < j
  BY GraphAssumption, SizeAssumption DEF Dependents, Children, Comp

(* Reached holds every given component that was not marked.                *)
LEMMA ReachedHasSources ==
  ASSUME NEW d, NEW M
  PROVE  M \cap Lacking(d, "WorldTransform") \subseteq Reached(d, M)
  BY DEF Reached

(* Reached is closed: recursion stops only at what was already marked.     *)
LEMMA ReachedIsClosed ==
  ASSUME NEW d, NEW M
  PROVE  SpreadClosed(d, Reached(d, M))
<1> DEFINE unmarked == Lacking(d, "WorldTransform")
<1>1. SUFFICES ASSUME NEW i \in Reached(d, M),
                      NEW j \in Dependents[i] \cap unmarked
               PROVE  j \in Reached(d, M)
  BY DEF SpreadClosed
<1>2. SUFFICES ASSUME NEW S \in SUBSET unmarked,
                      M \cap unmarked \subseteq S, SpreadClosed(d, S)
               PROVE  j \in S
  BY DEF Reached
<1>3. i \in S
  BY <1>2 DEF Reached
<1> QED BY <1>2, <1>3 DEF SpreadClosed

(* Reached stays among the unmarked components.                            *)
LEMMA ReachedIsUnmarked ==
  ASSUME NEW d, NEW M
  PROVE  Reached(d, M) \subseteq Lacking(d, "WorldTransform")
  BY DEF Reached

(* A call on c reaches nothing before c.                                   *)
LEMMA ReachedFollows ==
  ASSUME NEW d, NEW c \in Comp
  PROVE  \A j \in Reached(d, {c}) : c <= j
<1> DEFINE unmarked == Lacking(d, "WorldTransform")
           S == {j \in unmarked : c <= j}
<1>1. S \in SUBSET unmarked /\ {c} \cap unmarked \subseteq S
  BY SizeAssumption DEF Comp
<1>2. SpreadClosed(d, S)
  <2>1. SUFFICES ASSUME NEW i \in S, NEW j \in Dependents[i] \cap unmarked
                 PROVE  c <= j
    BY DEF SpreadClosed
  <2>2. i \in Comp /\ c <= i
    BY DEF Lacking
  <2>3. j \in Comp /\ i < j
    BY <2>2, DependentsFollow
  <2> QED BY <2>2, <2>3, SizeAssumption DEF Comp
<1>3. Reached(d, {c}) \subseteq S
  BY <1>1, <1>2 DEF Reached
<1> QED BY <1>3

-----------------------------------------------------------------------------
(* One call of markTransformDirty.                                         *)

Dirts == [Comp -> SUBSET Flags]

(* What a marked component has marked before it: all its dependents while  *)
(* it is visible; under a solo's hidden child only its children, since the *)
(* components constrained to it went on being updated without it.          *)
Owed(i, hidden) == IF i \in hidden THEN Children(i) ELSE Dependents[i]

Spread(d, hidden) ==
  \A i \in Comp : "WorldTransform" \in d[i]
                    => \A j \in Owed(i, hidden) : "WorldTransform" \in d[j]

WorldWithLocal(d) ==
  \A j \in Comp : "Transform" \in d[j] => "WorldTransform" \in d[j]

LEMMA OwedIsDependent ==
  ASSUME NEW i \in Comp, NEW hidden
  PROVE  Owed(i, hidden) \subseteq Dependents[i]
  BY DEF Owed, Dependents

(* A call only adds flags, and only to the components it newly dirties.    *)
LEMMA CallAddsFlags ==
  ASSUME NEW d \in Dirts, NEW c \in Comp
  PROVE  /\ MarkTransformDirty(d, c) \in Dirts
         /\ \A j \in Comp :
              /\ d[j] \subseteq MarkTransformDirty(d, c)[j]
              /\ j \notin NewlyDirty(d, c) => MarkTransformDirty(d, c)[j] = d[j]
  BY DEF Dirts, MarkTransformDirty, NewlyDirty, WithFlag, Flags

(* What a call marks lies at or after its component.                       *)
LEMMA CallGoesForward ==
  ASSUME NEW d \in Dirts, NEW c \in Comp, NewlyDirty(d, c) # {}
  PROVE  /\ NewlyDirty(d, c) \subseteq Comp
         /\ c \in NewlyDirty(d, c)
         /\ \A j \in NewlyDirty(d, c) : c <= j
<1>1. Reached(d, {c}) \subseteq Comp
  BY ReachedIsUnmarked DEF Lacking
<1>2. c <= c
  BY SizeAssumption DEF Comp
<1> QED BY <1>1, <1>2, ReachedFollows DEF NewlyDirty

(* A call leaves its own component marked.                                 *)
LEMMA CallMarksItself ==
  ASSUME NEW d \in Dirts, NEW c \in Comp, WorldWithLocal(d)
  PROVE  /\ "WorldTransform" \in MarkTransformDirty(d, c)[c]
         /\ WorldWithLocal(MarkTransformDirty(d, c))
<1>1. CASE "Transform" \in d[c]
  BY <1>1, SizeAssumption DEF MarkTransformDirty, WorldWithLocal
<1>2. CASE "Transform" \notin d[c]
  <2>1. "WorldTransform" \in d[c] \/ c \in Reached(d, {c})
    BY ReachedHasSources DEF Lacking
  <2> QED BY <1>2, <2>1 DEF MarkTransformDirty, WithFlag, WorldWithLocal, Dirts
<1> QED BY <1>1, <1>2

(* Marking all that is reached from some components keeps dirt spread.     *)
LEMMA ReachKeepsSpread ==
  ASSUME NEW d \in Dirts, NEW hidden, NEW M, Spread(d, hidden)
  PROVE  Spread(WithFlag(d, Reached(d, M), "WorldTransform"), hidden)
<1> DEFINE e == WithFlag(d, Reached(d, M), "WorldTransform")
<1>1. SUFFICES ASSUME NEW i \in Comp, "WorldTransform" \in e[i],
                      NEW j \in Owed(i, hidden)
               PROVE  "WorldTransform" \in e[j]
  BY DEF Spread
<1>2. j \in Dependents[i] /\ j \in Comp
  BY OwedIsDependent, DependentsFollow
<1>3. CASE "WorldTransform" \in d[i]
  BY <1>1, <1>2, <1>3 DEF Spread, WithFlag
<1>4. CASE i \in Reached(d, M)
  BY <1>2, <1>4, ReachedIsClosed DEF SpreadClosed, Lacking, WithFlag
<1> QED BY <1>1, <1>3, <1>4 DEF WithFlag

LEMMA CallKeepsSpread ==
  ASSUME NEW d \in Dirts, NEW hidden, NEW c \in Comp, Spread(d, hidden)
  PROVE  Spread(MarkTransformDirty(d, c), hidden)
<1> DEFINE e == WithFlag(d, Reached(d, {c}), "WorldTransform")
<1>1. Spread(e, hidden)
  BY ReachKeepsSpread
<1>2. e \in Dirts
  BY DEF Dirts, WithFlag, Flags
<1>3. \A j \in Comp : "WorldTransform" \in WithFlag(e, {c}, "Transform")[j]
                        <=> "WorldTransform" \in e[j]
  BY <1>2 DEF WithFlag, Dirts
<1>4. \A i \in Comp : Owed(i, hidden) \subseteq Comp
  BY OwedIsDependent, DependentsFollow
<1>5. Spread(WithFlag(e, {c}, "Transform"), hidden)
  BY <1>1, <1>3, <1>4 DEF Spread
<1> QED BY <1>5, SizeAssumption DEF MarkTransformDirty

-----------------------------------------------------------------------------
(* Types.                                                                  *)

(* A pass only runs while the call has passes left.                        *)
StepsLeft == pc = "pass" => step < MaxSteps

LEMMA TypeInit == Init => TypeOK /\ StepsLeft
  BY SizeAssumption DEF Init, TypeOK, StepsLeft, Flags, Comp

LEMMA FlagTyped ==
  ASSUME NEW d \in Dirts, NEW S, NEW f \in Flags
  PROVE  WithFlag(d, S, f) \in Dirts
  BY DEF Dirts, WithFlag

(* The dirt an update of i leaves when it feeds the components of fed.     *)
Fed(d, fed) ==
  [j \in Comp |-> d[j] \cup UNION {MarkTransformDirty(d, k)[j] : k \in fed}]

LEMMA FedIsTyped ==
  ASSUME NEW d \in Dirts, NEW fed \in SUBSET Comp
  PROVE  Fed(d, fed) \in Dirts
<1>1. \A k \in fed : MarkTransformDirty(d, k) \in Dirts
  BY CallAddsFlags
<1>2. \A j \in Comp : UNION {MarkTransformDirty(d, k)[j] : k \in fed} \subseteq Flags
  BY <1>1, SizeAssumption DEF Dirts
<1>3. \A j \in Comp : d[j] \subseteq Flags
  BY DEF Dirts
<1> QED BY <1>2, <1>3 DEF Fed, Dirts

LEMMA TypeStep == TypeOK /\ StepsLeft /\ [Next]_vars => TypeOK' /\ StepsLeft'
<1> SUFFICES ASSUME TypeOK, StepsLeft, [Next]_vars
             PROVE  TypeOK' /\ StepsLeft'
  OBVIOUS
<1>d. dirt \in Dirts
  BY DEF TypeOK, Dirts
<1>1. CASE UNCHANGED vars
  BY <1>1, SizeAssumption DEF vars, TypeOK, StepsLeft
<1>2. ASSUME NEW c \in Comp, SetTransform(c)
      PROVE  TypeOK' /\ StepsLeft'
  <2>1. dirt' \in Dirts
    BY <1>d, <1>2, CallAddsFlags DEF SetTransform
  <2> QED BY <1>2, <2>1 DEF SetTransform, OnComponentDirty, TypeOK, StepsLeft, Dirts
<1>3. ASSUME NEW c \in Comp, SetPaint(c)
      PROVE  TypeOK' /\ StepsLeft'
  <2>1. dirt' \in Dirts
    BY <1>d, <1>3, FlagTyped DEF SetPaint, Flags
  <2> QED BY <1>3, <2>1 DEF SetPaint, OnComponentDirty, TypeOK, StepsLeft, Dirts
<1>4. ASSUME NEW s \in Solos, NEW c \in Selectable(s), SetActive(s, c)
      PROVE  TypeOK' /\ StepsLeft'
  <2>1. dirt' \in Dirts
    BY <1>d, <1>4, FlagTyped DEF SetActive, Flags
  <2>2. active' \in [Solos -> Comp] /\ collapsed' \subseteq Comp
    BY <1>4 DEF SetActive, TypeOK, Selectable, Children
  <2> QED BY <1>4, <2>1, <2>2 DEF SetActive, OnComponentDirty, TypeOK, StepsLeft, Dirts
<1>5. CASE BeginUpdate
  <2>1. rootDirty' \in BOOLEAN
    BY <1>5 DEF BeginUpdate
  <2>2. pc' = "pass" /\ index' \in 0 .. N /\ step' \in 0 .. MaxSteps /\ step' < MaxSteps
    BY <1>5, SizeAssumption DEF BeginUpdate
  <2>3. UNCHANGED <<dirt, collapsed, active, stale>>
    BY <1>5 DEF BeginUpdate
  <2> QED BY <2>1, <2>2, <2>3 DEF TypeOK, StepsLeft
<1>6. CASE SkipComponent
  BY <1>6, SizeAssumption DEF SkipComponent, TypeOK, StepsLeft
<1>7. ASSUME NEW fed \in SUBSET Comp, UpdateComponent(fed)
      PROVE  TypeOK' /\ StepsLeft'
  <2> DEFINE clean == [dirt EXCEPT ![index] = {}]
  <2>1. clean \in Dirts
    BY <1>d DEF Dirts
  <2>2. dirt' \in Dirts
    BY <1>7, <2>1, FedIsTyped DEF UpdateComponent, Fed
  <2>3. index \in Comp
    BY <1>7, SizeAssumption DEF UpdateComponent, TypeOK, Comp
  <2>4. stale' \subseteq Comp
    BY <1>7, <2>3, DependentsFollow DEF UpdateComponent, StaleAfter, TypeOK
  <2>5. index' \in 0 .. N
    BY <1>7, <2>3, SizeAssumption DEF UpdateComponent, Comp
  <2>6. rootDirty' \in BOOLEAN
    BY <1>7 DEF UpdateComponent, OnComponentDirty, TypeOK
  <2>7. UNCHANGED <<collapsed, active, pc, step>>
    BY <1>7 DEF UpdateComponent
  <2> QED BY <2>2, <2>4, <2>5, <2>6, <2>7 DEF TypeOK, StepsLeft, Dirts
<1>8. CASE FinishPass
  <2>1. rootDirty' \in BOOLEAN /\ pc' \in {"idle", "pass"}
    BY <1>8 DEF FinishPass, TypeOK
  <2>2. step' \in 0 .. MaxSteps /\ (pc' = "pass" => step' < MaxSteps)
    BY <1>8, SizeAssumption DEF FinishPass, TypeOK, StepsLeft
  <2>3. index' \in 0 .. N
    BY <1>8, SizeAssumption DEF FinishPass, TypeOK
  <2>4. UNCHANGED <<dirt, collapsed, active, stale>>
    BY <1>8 DEF FinishPass
  <2> QED BY <2>1, <2>2, <2>3, <2>4 DEF TypeOK, StepsLeft
<1> QED BY <1>1, <1>2, <1>3, <1>4, <1>5, <1>6, <1>7, <1>8 DEF Next, Loop

(* Every variable keeps the type its declaration in the code gives it, and *)
(* updateComponents never counts past its bound on passes.                 *)
THEOREM TypeCorrect == Spec => []TypeOK
<1>1. Init => TypeOK /\ StepsLeft
  BY TypeInit
<1>2. TypeOK /\ StepsLeft /\ [Next]_vars => TypeOK' /\ StepsLeft'
  BY TypeStep
<1> QED BY <1>1, <1>2, PTL DEF Spec

-----------------------------------------------------------------------------
(* Dirt is not forgotten.                                                  *)

(* onComponentDirty raises the artboard's flag and never lowers it.        *)
LEMMA FlagIsRaised ==
  ASSUME NEW S, OnComponentDirty(S)
  PROVE  (rootDirty => rootDirty') /\ (S # {} => rootDirty')
  BY DEF OnComponentDirty

(* An update that feeds the components of fed newly dirties these.         *)
NewlyFed(d, fed) == UNION {NewlyDirty(d, k) : k \in fed}

(* A component that is not newly dirtied keeps its flags.                  *)
LEMMA FedOnlyNewly ==
  ASSUME NEW d \in Dirts, NEW fed \in SUBSET Comp, NEW j \in Comp,
         j \notin NewlyFed(d, fed)
  PROVE  Fed(d, fed)[j] = d[j]
<1>1. \A k \in fed : MarkTransformDirty(d, k)[j] = d[j]
  <2>1. SUFFICES ASSUME NEW k \in fed
                 PROVE  MarkTransformDirty(d, k)[j] = d[j]
    OBVIOUS
  <2>2. j \notin NewlyDirty(d, k)
    BY DEF NewlyFed
  <2> QED BY <2>2, CallAddsFlags
<1>2. UNION {MarkTransformDirty(d, k)[j] : k \in fed} \subseteq d[j]
  BY <1>1
<1> QED BY <1>2 DEF Fed

LEMMA PendingStep ==
  TypeOK /\ PendingIsFlagged /\ [Next]_vars => PendingIsFlagged'
<1> SUFFICES ASSUME TypeOK, PendingIsFlagged, [Next]_vars,
                    NEW j \in Comp, Live(j)'
             PROVE  rootDirty' \/ (pc' = "pass" /\ index' <= j)
  BY DEF PendingIsFlagged
<1>d. dirt \in Dirts
  BY DEF TypeOK, Dirts
<1>p. Live(j) => rootDirty \/ (pc = "pass" /\ index <= j)
  BY DEF PendingIsFlagged
<1>1. CASE UNCHANGED vars
  BY <1>1, <1>p DEF vars, Live
<1>2. ASSUME NEW c \in Comp, SetTransform(c)
      PROVE  rootDirty'
  <2>1. dirt'[j] = dirt[j] \/ j \in NewlyDirty(dirt, c)
    BY <1>d, <1>2, CallAddsFlags DEF SetTransform
  <2>2. Live(j) \/ NewlyDirty(dirt, c) # {}
    BY <1>2, <2>1 DEF SetTransform, Live
  <2> QED BY <1>2, <1>p, <2>2, FlagIsRaised DEF SetTransform
<1>3. ASSUME NEW c \in Comp, SetPaint(c)
      PROVE  rootDirty'
  BY <1>3, FlagIsRaised DEF SetPaint
<1>4. ASSUME NEW s \in Solos, NEW c \in Selectable(s), SetActive(s, c)
      PROVE  rootDirty'
  <2>1. PICK req \in [Comp -> {"none", "hide", "show"}] :
          LET changed == {k \in Comp : Changes(k, req[k])}
              marked  == Reached(dirt, MarksOnCollapse(changed))
          IN  /\ collapsed' = (collapsed \ changed) \cup (changed \ collapsed)
              /\ dirt' = WithFlag(dirt, marked, "WorldTransform")
              /\ OnComponentDirty(changed \cup marked)
    BY <1>4 DEF SetActive
  <2> DEFINE changed == {k \in Comp : Changes(k, req[k])}
             marked  == Reached(dirt, MarksOnCollapse(changed))
  <2>2. CASE j \in changed \cup marked
    BY <2>1, <2>2, FlagIsRaised
  <2>3. CASE j \notin changed \cup marked
    <3>1. Live(j)
      BY <2>1, <2>3 DEF Live, WithFlag
    <3>2. pc = "idle"
      BY <1>4 DEF SetActive
    <3> QED BY <2>1, <3>1, <3>2, <1>p, FlagIsRaised
  <2> QED BY <2>2, <2>3
<1>5. CASE BeginUpdate
  BY <1>5, SizeAssumption DEF BeginUpdate, Comp
<1>6. CASE SkipComponent
  <2>1. Live(j) /\ j # index
    BY <1>6 DEF SkipComponent, Live
  <2> QED BY <1>6, <1>p, <2>1, SizeAssumption DEF SkipComponent, TypeOK, Comp
<1>7. ASSUME NEW fed \in SUBSET Comp, UpdateComponent(fed)
      PROVE  rootDirty' \/ (pc' = "pass" /\ index' <= j)
  <2> DEFINE clean == [dirt EXCEPT ![index] = {}]
             newly == NewlyFed(clean, fed)
  <2>1. /\ dirt' = Fed(clean, fed)
        /\ OnComponentDirty(newly)
        /\ pc = "pass" /\ pc' = "pass"
        /\ collapsed' = collapsed
        /\ index' = IF BreaksOut(index, newly) THEN N ELSE index + 1
    BY <1>7 DEF UpdateComponent, Fed, NewlyFed
  <2>2. CASE newly # {}
    BY <2>1, <2>2, FlagIsRaised
  <2>3. CASE newly = {}
    <3>1. clean \in Dirts /\ index \in Comp
      <4>1. index \in Comp
        BY <1>7, SizeAssumption DEF UpdateComponent, TypeOK, Comp
      <4> QED BY <1>d, <4>1 DEF Dirts
    <3>2. dirt'[j] = clean[j]
      <4>1. j \notin newly
        BY <2>3
      <4>2. Fed(clean, fed)[j] = clean[j]
        BY <3>1, <4>1, FedOnlyNewly
      <4> QED BY <2>1, <4>2
    <3>3. j # index /\ dirt'[j] = dirt[j]
      <4>1. dirt'[j] # {}
        BY DEF Live
      <4>2. clean[index] = {} /\ (j # index => clean[j] = dirt[j])
        BY <3>1, <1>d DEF Dirts
      <4> QED BY <3>2, <4>1, <4>2
    <3>4. Live(j)
      BY <2>1, <3>3 DEF Live
    <3>5. index' = index + 1
      BY <2>1, <2>3 DEF BreaksOut
    <3>6. rootDirty \/ index <= j
      BY <1>p, <3>4
    <3>7. rootDirty => rootDirty'
      BY <2>1, FlagIsRaised
    <3>8. index <= j => index + 1 <= j
      BY <3>1, <3>3, SizeAssumption DEF Comp
    <3> QED BY <2>1, <3>5, <3>6, <3>7, <3>8
  <2> QED BY <2>2, <2>3
<1>8. CASE FinishPass
  <2>1. rootDirty
    <3>1. Live(j) /\ index = N /\ j < N
      BY <1>8, SizeAssumption DEF FinishPass, Live, Comp
    <3> QED BY <3>1, <1>p, SizeAssumption DEF Comp
  <2>2. \/ pc' = "pass" /\ index' = 0
        \/ rootDirty' = rootDirty
    BY <1>8, <2>1 DEF FinishPass
  <2>3. 0 <= j
    BY SizeAssumption DEF Comp
  <2> QED BY <2>1, <2>2, <2>3
<1> QED BY <1>1, <1>2, <1>3, <1>4, <1>5, <1>6, <1>7, <1>8 DEF Next, Loop

(* No dirt is forgotten, for every scene and however updates dirty other   *)
(* components: the early break on m_DirtDepth and the flag cleared before  *)
(* a pass never leave a visible dirty component unvisited and unannounced. *)
THEOREM NoDirtForgotten == Spec => []PendingIsFlagged
<1>1. Init => PendingIsFlagged
  BY DEF Init, PendingIsFlagged
<1>2. TypeOK /\ PendingIsFlagged /\ [Next]_vars => PendingIsFlagged'
  BY PendingStep
<1> QED BY <1>1, <1>2, TypeCorrect, PTL DEF Spec

-----------------------------------------------------------------------------
(* Collapse follows the solos.                                             *)

Requests == {"none", "hide", "show"}

Changed(req) == {j \in Comp : Changes(j, req[j])}

(* A component a solo does not show.                                       *)
Unchosen(act, j) == Parent[j] \in Solos /\ j \notin Pinned /\ act[Parent[j]] # j

(* What SetActive does to the collapsed components and their dirt.         *)
LEMMA SetActiveCalls ==
  ASSUME NEW s, NEW c, SetActive(s, c)
  PROVE  \E req \in [Comp -> Requests] :
           /\ Calls(active', s, req)
           /\ collapsed' = (collapsed \ Changed(req)) \cup (Changed(req) \ collapsed)
           /\ dirt' = WithFlag(dirt, Reached(dirt, MarksOnCollapse(Changed(req))),
                               "WorldTransform")
  BY DEF SetActive, Requests, Changed

(* A component called with a value has that value afterwards.              *)
LEMMA CallsAreObeyed ==
  ASSUME NEW req \in [Comp -> Requests], NEW j \in Comp,
         collapsed' = (collapsed \ Changed(req)) \cup (Changed(req) \ collapsed)
  PROVE  /\ req[j] = "hide" => j \in collapsed'
         /\ req[j] = "show" => j \notin collapsed'
         /\ ~Changes(j, req[j]) => (j \in collapsed' <=> j \in collapsed)
         /\ Changes(j, req[j]) => req[j] \in {"hide", "show"}
  BY DEF Changed, Changes

LEMMA CollapseStep ==
  TypeOK /\ CollapseMatchesSolos /\ [Next]_vars => CollapseMatchesSolos'
<1> SUFFICES ASSUME TypeOK, CollapseMatchesSolos, [Next]_vars
             PROVE  CollapseMatchesSolos'
  OBVIOUS
<1>1. ASSUME UNCHANGED <<collapsed, active>>
      PROVE  CollapseMatchesSolos'
  BY <1>1 DEF CollapseMatchesSolos, HiddenBy
<1>2. ASSUME NEW s \in Solos, NEW c \in Selectable(s), SetActive(s, c)
      PROVE  CollapseMatchesSolos'
  <2>1. PICK req \in [Comp -> Requests] :
          /\ Calls(active', s, req)
          /\ collapsed' = (collapsed \ Changed(req)) \cup (Changed(req) \ collapsed)
    BY <1>2, SetActiveCalls
  <2>2. s \in Comp \ {0} /\ active' = [active EXCEPT ![s] = c]
    BY <1>2, GraphAssumption DEF SetActive
  <2>3. \A j \in Comp : j <= s => req[j] = "none"
    BY <2>1 DEF Calls
  <2>4. 0 \in Comp /\ 0 <= s
    BY <2>2, SizeAssumption DEF Comp
  <2>5. 0 \notin collapsed'
    BY <2>1, <2>3, <2>4, CallsAreObeyed
       DEF Changes, CollapseMatchesSolos, HiddenBy
  <2>6. ASSUME NEW j \in Comp \ {0}
        PROVE  j \in collapsed' <=> Parent[j] \in collapsed' \/ Unchosen(active', j)
    <3>1. Parent[j] \in Comp /\ Parent[j] < j
      BY GraphAssumption
    <3>2. j \in collapsed <=> Parent[j] \in collapsed \/ Unchosen(active, j)
      BY DEF CollapseMatchesSolos, HiddenBy, Unchosen
    <3>3. Parent[j] # s => (Unchosen(active', j) <=> Unchosen(active, j))
      BY <2>2 DEF Unchosen, TypeOK
    <3>4. CASE Parent[j] = s
      <4>1. ~(j <= s)
        BY <3>1, <3>4, <2>2, SizeAssumption DEF Comp
      <4>2. req[j] = ChildRequest(active', s, j,
                                  IF s \in collapsed THEN "hide" ELSE "show")
        BY <2>1, <3>4, <4>1 DEF Calls
      <4>3. s \in collapsed' <=> s \in collapsed
        <5>1. s <= s
          BY <2>2, SizeAssumption DEF Comp
        <5>2. ~Changes(s, req[s])
          BY <2>2, <2>3, <5>1 DEF Changes
        <5> QED BY <2>1, <2>2, <5>2, CallsAreObeyed
      <4>4. req[j] \in {"hide", "show"}
            /\ (req[j] = "hide" <=> s \in collapsed \/ Unchosen(active', j))
        BY <3>4, <4>2 DEF ChildRequest, Unchosen
      <4> QED BY <2>1, <3>4, <4>3, <4>4, CallsAreObeyed
    <3>5. CASE Parent[j] # s /\ j <= s
      <4>1. Parent[j] <= s
        BY <3>1, <3>5, <2>2, SizeAssumption DEF Comp
      <4>2. ~Changes(j, req[j]) /\ ~Changes(Parent[j], req[Parent[j]])
        BY <2>3, <3>1, <3>5, <4>1 DEF Changes
      <4> QED BY <2>1, <3>1, <3>2, <3>3, <3>5, <4>2, CallsAreObeyed
    <3>6. CASE Parent[j] # s /\ ~(j <= s)
      <4> DEFINE p == Parent[j]
      <4>1. req[j] = IF Changes(p, req[p]) THEN ChildRequest(active', p, j, req[p])
                                           ELSE "none"
        BY <2>1, <3>6 DEF Calls
      <4>2. CASE ~Changes(p, req[p])
        <5>1. ~Changes(j, req[j])
          BY <4>1, <4>2 DEF Changes
        <5> QED BY <2>1, <3>1, <3>2, <3>3, <3>6, <4>2, <5>1, CallsAreObeyed
      <4>3. CASE Changes(p, req[p])
        <5>1. req[p] \in {"hide", "show"} /\ (p \in collapsed' <=> req[p] = "hide")
          BY <2>1, <3>1, <4>3, CallsAreObeyed
        <5>2. req[j] \in {"hide", "show"}
              /\ (req[j] = "hide" <=> req[p] = "hide" \/ Unchosen(active', j))
          BY <4>1, <4>3, <5>1 DEF ChildRequest, Unchosen
        <5> QED BY <2>1, <5>1, <5>2, CallsAreObeyed
      <4> QED BY <4>2, <4>3
    <3> QED BY <3>4, <3>5, <3>6
  <2> QED BY <2>5, <2>6 DEF CollapseMatchesSolos, HiddenBy, Unchosen
<1>3. CASE UNCHANGED vars
  BY <1>1, <1>3 DEF vars
<1>4. ASSUME NEW c \in Comp, SetTransform(c) \/ SetPaint(c)
      PROVE  CollapseMatchesSolos'
  BY <1>1, <1>4 DEF SetTransform, SetPaint
<1>5. CASE BeginUpdate
  BY <1>1, <1>5 DEF BeginUpdate
<1>6. CASE SkipComponent
  BY <1>1, <1>6 DEF SkipComponent
<1>7. ASSUME NEW fed \in SUBSET Comp, UpdateComponent(fed)
      PROVE  CollapseMatchesSolos'
  BY <1>1, <1>7 DEF UpdateComponent
<1>8. CASE FinishPass
  BY <1>1, <1>8 DEF FinishPass
<1> QED BY <1>2, <1>3, <1>4, <1>5, <1>6, <1>7, <1>8 DEF Next, Loop

(* A solo and everything below it are hidden exactly as the active children *)
(* say, in trees of any depth with solos inside solos: the early return of *)
(* collapse on an unchanged value never stops the recursion too soon.      *)
THEOREM CollapseFollowsSolos == Spec => []CollapseMatchesSolos
<1>1. Init => CollapseMatchesSolos
  BY DEF Init, CollapseMatchesSolos
<1> QED BY <1>1, CollapseStep, TypeCorrect, PTL DEF Spec

-----------------------------------------------------------------------------
(* World transforms are fresh.                                             *)

(* What is stale is marked, and so is still to be updated.                 *)
StaleIsMarked == stale \subseteq Marked(dirt)

(* What the pass has gone by is clean or hidden: whatever dirties it makes *)
(* the pass break.                                                         *)
PassedAreClean ==
  pc = "pass" /\ index < N => \A i \in Comp : i < index => ~Live(i)

DirtInv ==
  /\ WorldWithLocal(dirt)
  /\ Spread(dirt, collapsed)
  /\ StaleIsMarked
  /\ PassedAreClean

(* No constraint targets a solo: Solo::collapse does not mark what is      *)
(* constrained to it when it is shown again.                               *)
NoSoloTarget == \A j \in Comp : Targets[j] \cap Solos = {}

LEMMA DirtInit == Init => DirtInv
<1> SUFFICES ASSUME Init PROVE DirtInv
  OBVIOUS
<1>1. \A j \in Comp : "WorldTransform" \in dirt[j]
  BY DEF Init, Flags
<1>2. \A i \in Comp : Owed(i, collapsed) \subseteq Comp
  BY OwedIsDependent, DependentsFollow
<1> QED BY <1>1, <1>2 DEF Init, DirtInv, WorldWithLocal, Spread, StaleIsMarked,
                          Marked, PassedAreClean

(* Feeding keeps every fact about marks that one call keeps.               *)
LEMMA FedKeepsMarks ==
  ASSUME NEW d \in Dirts, NEW fed \in SUBSET Comp, NEW hidden,
         WorldWithLocal(d), Spread(d, hidden)
  PROVE  /\ WorldWithLocal(Fed(d, fed))
         /\ Spread(Fed(d, fed), hidden)
         /\ Marked(d) \cup fed \subseteq Marked(Fed(d, fed))
<1> DEFINE m(k) == MarkTransformDirty(d, k)
<1>1. \A j \in Comp : \A f : f \in Fed(d, fed)[j]
                               <=> f \in d[j] \/ \E k \in fed : f \in m(k)[j]
  BY DEF Fed
<1>2. \A k \in fed : WorldWithLocal(m(k)) /\ "WorldTransform" \in m(k)[k]
  BY CallMarksItself
<1>3. \A k \in fed : Spread(m(k), hidden)
  BY CallKeepsSpread
<1>4. \A i \in Comp : Owed(i, hidden) \subseteq Comp
  BY OwedIsDependent, DependentsFollow
<1>5. WorldWithLocal(Fed(d, fed))
  BY <1>1, <1>2 DEF WorldWithLocal
<1>6. Spread(Fed(d, fed), hidden)
  <2>1. SUFFICES ASSUME NEW i \in Comp, "WorldTransform" \in Fed(d, fed)[i],
                        NEW j \in Owed(i, hidden)
                 PROVE  "WorldTransform" \in Fed(d, fed)[j]
    BY DEF Spread
  <2>2. j \in Comp
    BY <1>4
  <2>3. CASE "WorldTransform" \in d[i]
    BY <1>1, <2>2, <2>3 DEF Spread
  <2>4. CASE \E k \in fed : "WorldTransform" \in m(k)[i]
    BY <1>1, <1>3, <2>2, <2>4 DEF Spread
  <2> QED BY <1>1, <2>1, <2>3, <2>4
<1>7. Marked(d) \cup fed \subseteq Marked(Fed(d, fed))
  BY <1>1, <1>2 DEF Marked
<1> QED BY <1>5, <1>6, <1>7

(* A solo's new choice: what it marks keeps dirt spread, though components *)
(* become visible and owe their marks to what is constrained to them.      *)
LEMMA SetActiveKeepsDirtInv ==
  ASSUME NoSoloTarget, TypeOK, DirtInv,
         NEW s \in Solos, NEW c \in Selectable(s), SetActive(s, c)
  PROVE  DirtInv'
<1>d. dirt \in Dirts
  BY DEF TypeOK, Dirts
<1>1. PICK req \in [Comp -> Requests] :
        /\ collapsed' = (collapsed \ Changed(req)) \cup (Changed(req) \ collapsed)
        /\ dirt' = WithFlag(dirt, Reached(dirt, MarksOnCollapse(Changed(req))),
                            "WorldTransform")
  BY SetActiveCalls
<1> DEFINE marks == MarksOnCollapse(Changed(req))
<1>2. Spread(dirt', collapsed)
  BY <1>1, <1>d, ReachKeepsSpread DEF DirtInv
<1>3. \A j \in Comp : dirt[j] \subseteq dirt'[j]
                        /\ ("Transform" \in dirt'[j] => "Transform" \in dirt[j])
  BY <1>1, <1>d DEF WithFlag, Dirts
<1>4. marks \subseteq Marked(dirt')
  <2>1. SUFFICES ASSUME NEW j \in marks
                 PROVE  j \in Marked(dirt')
    OBVIOUS
  <2>2. j \in Comp
    BY DEF MarksOnCollapse
  <2>3. "WorldTransform" \in dirt[j] \/ j \in Reached(dirt, marks)
    BY <2>2, ReachedHasSources DEF Lacking
  <2> QED BY <1>1, <1>3, <2>2, <2>3 DEF Marked, WithFlag
<1>5. Spread(dirt', collapsed')
  <2>1. SUFFICES ASSUME NEW i \in Comp, "WorldTransform" \in dirt'[i],
                        NEW j \in Owed(i, collapsed')
                 PROVE  "WorldTransform" \in dirt'[j]
    BY DEF Spread
  <2>2. j \in Dependents[i] /\ j \in Comp
    BY OwedIsDependent, DependentsFollow
  <2>3. CASE j \in Owed(i, collapsed)
    BY <1>2, <2>1, <2>3 DEF Spread
  <2>4. CASE j \notin Owed(i, collapsed)
    <3>1. i \in collapsed /\ i \notin collapsed' /\ j \notin Children(i)
      BY <2>1, <2>2, <2>4 DEF Owed, Dependents
    <3>2. i \in Changed(req)
      BY <1>1, <3>1
    <3>3. i \in Targets[j]
      BY <2>2, <3>1 DEF Dependents
    <3>4. i \notin Solos /\ IsConstrained(j)
      BY <2>2, <3>3 DEF NoSoloTarget, IsConstrained
    <3>5. j \in marks
      BY <2>2, <3>2, <3>4 DEF MarksOnCollapse
    <3> QED BY <1>4, <3>5 DEF Marked
  <2> QED BY <2>3, <2>4
<1>6. WorldWithLocal(dirt')
  BY <1>3 DEF DirtInv, WorldWithLocal
<1>7. stale' \subseteq Marked(dirt')
  BY <1>3 DEF SetActive, DirtInv, StaleIsMarked, Marked
<1>8. PassedAreClean'
  BY DEF SetActive, PassedAreClean
<1> QED BY <1>5, <1>6, <1>7, <1>8 DEF DirtInv, StaleIsMarked, WorldWithLocal, Marked,
                                       Spread, Owed

(* What an update of a component meets: everything it derives from is      *)
(* either clean and fresh, or hidden.                                      *)
LEMMA SourcesAreClean ==
  ASSUME TypeOK, DirtInv, NEW fed, UpdateComponent(fed),
         NEW i \in Comp, index \in Dependents[i]
  PROVE  i \in collapsed \/ (dirt[i] = {} /\ i \notin stale)
<1>1. i < index
  BY DependentsFollow
<1>2. i \in collapsed \/ dirt[i] = {}
  BY <1>1 DEF UpdateComponent, DirtInv, PassedAreClean, Live
<1> QED BY <1>2 DEF DirtInv, StaleIsMarked, Marked

LEMMA UpdateKeepsDirtInv ==
  ASSUME TypeOK, CollapseMatchesSolos, DirtInv,
         NEW fed \in SUBSET Comp, UpdateComponent(fed)
  PROVE  DirtInv'
<1> DEFINE clean == [dirt EXCEPT ![index] = {}]
           newly == NewlyFed(clean, fed)
<1>d. dirt \in Dirts
  BY DEF TypeOK, Dirts
<1>1. /\ dirt' = Fed(clean, fed)
      /\ collapsed' = collapsed
      /\ stale' = StaleAfter(index, dirt[index]) \cup fed
      /\ index' = IF BreaksOut(index, newly) THEN N ELSE index + 1
      /\ fed \subseteq Feeds[index] /\ index \notin collapsed
  BY DEF UpdateComponent, Fed, NewlyFed
<1>2. index \in Comp
  BY SizeAssumption DEF UpdateComponent, TypeOK, Comp
<1>3. clean \in Dirts /\ clean[index] = {}
      /\ \A j \in Comp : j # index => clean[j] = dirt[j]
  BY <1>d, <1>2 DEF Dirts
<1>4. WorldWithLocal(clean)
  BY <1>3 DEF WorldWithLocal, DirtInv
<1>5. Spread(clean, collapsed)
  <2>1. SUFFICES ASSUME NEW i \in Comp, "WorldTransform" \in clean[i],
                        NEW j \in Owed(i, collapsed)
                 PROVE  "WorldTransform" \in clean[j]
    BY DEF Spread
  <2>2. i # index /\ "WorldTransform" \in dirt[i]
    BY <1>3, <2>1
  <2>3. j \in Comp /\ j \in Dependents[i] /\ "WorldTransform" \in dirt[j]
    BY <2>2, OwedIsDependent, DependentsFollow DEF DirtInv, Spread
  <2>4. j # index
    <3>1. SUFFICES ASSUME j = index PROVE FALSE
      OBVIOUS
    <3>2. i \in collapsed
      BY <2>2, <2>3, <3>1, SourcesAreClean
    <3>3. index # 0 /\ Parent[index] = i
      BY <2>1, <3>1, <3>2 DEF Owed, Children
    <3> QED BY <1>1, <1>2, <3>2, <3>3 DEF CollapseMatchesSolos, HiddenBy
  <2> QED BY <1>3, <2>3, <2>4
<1>6. /\ WorldWithLocal(dirt') /\ Spread(dirt', collapsed)
      /\ Marked(clean) \cup fed \subseteq Marked(dirt')
  BY <1>1, <1>3, <1>4, <1>5, FedKeepsMarks
<1>7. stale' \subseteq Marked(dirt')
  <2>1. stale \subseteq Marked(dirt)
    BY DEF DirtInv, StaleIsMarked
  <2>2. stale \ {index} \subseteq Marked(clean)
    BY <1>3, <2>1 DEF Marked
  <2>3. CASE "WorldTransform" \in dirt[index]
    <3>1. Dependents[index] \subseteq Marked(dirt)
      BY <1>1, <1>2, <2>3, DependentsFollow DEF DirtInv, Spread, Owed, Marked
    <3>2. index \notin Dependents[index]
      BY <1>2, DependentsFollow, SizeAssumption DEF Comp
    <3>3. Dependents[index] \subseteq Marked(clean)
      BY <1>3, <3>1, <3>2 DEF Marked
    <3> QED BY <1>1, <1>6, <2>2, <2>3, <3>3 DEF StaleAfter
  <2>4. CASE "WorldTransform" \notin dirt[index]
    <3>1. index \notin stale
      BY <2>1, <2>4 DEF Marked
    <3> QED BY <1>1, <1>6, <2>2, <2>4, <3>1 DEF StaleAfter
  <2> QED BY <2>3, <2>4
<1>8. PassedAreClean'
  <2>1. SUFFICES ASSUME ~BreaksOut(index, newly), NEW i \in Comp, i < index + 1
                 PROVE  i \in collapsed \/ dirt'[i] = {}
    <3>1. BreaksOut(index, newly) => ~(index' < N)
      BY <1>1, SizeAssumption
    <3> QED BY <1>1, <3>1 DEF PassedAreClean, Live
  <2>2. i \notin newly
    <3>1. SUFFICES ASSUME NEW k \in fed, i \in NewlyDirty(clean, k)
                   PROVE  FALSE
      BY DEF NewlyFed
    <3>2. k \in newly /\ k <= i /\ k \in Comp
      BY <1>3, <3>1, CallGoesForward DEF NewlyFed
    <3>3. ~(k < index)
      BY <2>1, <3>2 DEF BreaksOut
    <3>4. k # index
      BY <1>1, <1>2, <3>1, GraphAssumption
    <3> QED BY <1>2, <2>1, <3>2, <3>3, <3>4, SizeAssumption DEF Comp
  <2>3. dirt'[i] = clean[i]
    BY <1>1, <1>3, <2>2, FedOnlyNewly
  <2>4. CASE i = index
    BY <1>3, <2>3, <2>4
  <2>5. CASE i # index
    <3>1. i < index
      BY <1>2, <2>1, <2>5, SizeAssumption DEF Comp
    <3>2. ~Live(i)
      BY <3>1 DEF DirtInv, PassedAreClean, UpdateComponent
    <3> QED BY <1>3, <2>3, <2>5, <3>2 DEF Live
  <2> QED BY <2>4, <2>5
<1> QED BY <1>1, <1>6, <1>7, <1>8 DEF DirtInv, StaleIsMarked, WorldWithLocal,
                                       Marked, Spread, Owed

LEMMA DirtStep ==
  ASSUME NoSoloTarget
  PROVE  TypeOK /\ CollapseMatchesSolos /\ DirtInv /\ [Next]_vars => DirtInv'
<1> SUFFICES ASSUME TypeOK, CollapseMatchesSolos, DirtInv, [Next]_vars
             PROVE  DirtInv'
  OBVIOUS
<1>d. dirt \in Dirts
  BY DEF TypeOK, Dirts
<1> USE DEF DirtInv, StaleIsMarked, WorldWithLocal, Marked, Spread, Owed
<1>1. CASE UNCHANGED vars
  BY <1>1 DEF vars, PassedAreClean, Live
<1>2. ASSUME NEW c \in Comp, SetTransform(c)
      PROVE  DirtInv'
  <2>1. /\ WorldWithLocal(dirt') /\ Spread(dirt', collapsed)
        /\ "WorldTransform" \in dirt'[c]
    BY <1>d, <1>2, CallMarksItself, CallKeepsSpread DEF SetTransform
  <2>2. \A j \in Comp : dirt[j] \subseteq dirt'[j]
    BY <1>d, <1>2, CallAddsFlags DEF SetTransform
  <2>3. stale' \subseteq Marked(dirt')
    BY <1>2, <2>1, <2>2 DEF SetTransform
  <2>4. PassedAreClean' /\ collapsed' = collapsed
    BY <1>2 DEF SetTransform, PassedAreClean
  <2> QED BY <2>1, <2>3, <2>4
<1>3. ASSUME NEW c \in Comp, SetPaint(c)
      PROVE  DirtInv'
  <2>1. \A j \in Comp : \A f \in {"Transform", "WorldTransform"} :
          f \in dirt'[j] <=> f \in dirt[j]
    BY <1>d, <1>3 DEF SetPaint, WithFlag, Dirts
  <2>2. UNCHANGED <<collapsed, stale>> /\ PassedAreClean'
    BY <1>3 DEF SetPaint, PassedAreClean
  <2>3. \A i \in Comp : Owed(i, collapsed) \subseteq Comp
    BY OwedIsDependent, DependentsFollow
  <2>4. WorldWithLocal(dirt') /\ Spread(dirt', collapsed) /\ stale \subseteq Marked(dirt')
    BY <2>1, <2>3
  <2> QED BY <2>2, <2>4
<1>4. ASSUME NEW s \in Solos, NEW c \in Selectable(s), SetActive(s, c)
      PROVE  DirtInv'
  BY <1>4, SetActiveKeepsDirtInv
<1>5. CASE BeginUpdate
  <2>1. PassedAreClean'
    BY <1>5, SizeAssumption DEF BeginUpdate, PassedAreClean, Comp
  <2> QED BY <1>5, <2>1 DEF BeginUpdate
<1>6. CASE SkipComponent
  <2>1. ~Live(index) /\ index \in Comp
    BY <1>6, SizeAssumption DEF SkipComponent, Live, TypeOK, Comp
  <2>2. \A i \in Comp : i < index + 1 => i < index \/ i = index
    BY <2>1, SizeAssumption DEF Comp
  <2>3. PassedAreClean'
    BY <1>6, <2>1, <2>2 DEF SkipComponent, PassedAreClean, Live
  <2> QED BY <1>6, <2>3 DEF SkipComponent
<1>7. ASSUME NEW fed \in SUBSET Comp, UpdateComponent(fed)
      PROVE  DirtInv'
  BY <1>7, UpdateKeepsDirtInv
<1>8. CASE FinishPass
  <2>1. PassedAreClean'
    <3>1. pc' = "pass" => index' = 0
      BY <1>8 DEF FinishPass
    <3>2. \A i \in Comp : ~(i < 0)
      BY SizeAssumption DEF Comp
    <3> QED BY <3>1, <3>2 DEF PassedAreClean
  <2> QED BY <1>8, <2>1 DEF FinishPass
<1> QED BY <1>1, <1>2, <1>3, <1>4, <1>5, <1>6, <1>7, <1>8 DEF Next, Loop

LEMMA DirtInvariant == ASSUME NoSoloTarget PROVE Spec => []DirtInv
<1>1. TypeOK /\ CollapseMatchesSolos /\ DirtInv /\ [Next]_vars => DirtInv'
  BY DirtStep
<1> QED BY <1>1, DirtInit, TypeCorrect, CollapseFollowsSolos, PTL DEF Spec

(* The promise of the update cycle: an artboard with nothing left to       *)
(* update shows every visible component where its own properties, its      *)
(* parents and its constraint targets put it, as long as no constraint     *)
(* targets a solo.                                                         *)
THEOREM FreshWhenSettled == ASSUME NoSoloTarget PROVE Spec => []Fresh
<1>1. PendingIsFlagged /\ DirtInv => Fresh
  <2> SUFFICES ASSUME PendingIsFlagged, DirtInv, pc = "idle", ~rootDirty,
                      NEW j \in stale
               PROVE  j \in collapsed
    BY DEF Fresh
  <2>1. j \in Comp /\ dirt[j] # {}
    BY DEF DirtInv, StaleIsMarked, Marked
  <2> QED BY <2>1 DEF PendingIsFlagged, Live
<1> QED BY <1>1, NoDirtForgotten, DirtInvariant, PTL

(* No world transform is computed from one that is itself out of date and  *)
(* visible, whatever the tree, the constraints and the feeds.              *)
THEOREM ParentsUpdateFirst == ASSUME NoSoloTarget PROVE Spec => ParentsFirst
<1> DEFINE Act == \A j \in Comp :
                    j \in stale /\ j \notin stale' =>
                      \A i \in Comp : j \in Dependents[i] => i \notin stale \/ i \in collapsed
<1>1. TypeOK /\ DirtInv /\ [Next]_vars => [Act]_vars
  <2> SUFFICES ASSUME TypeOK, DirtInv, Next,
                      NEW j \in Comp, j \in stale, j \notin stale',
                      NEW i \in Comp, j \in Dependents[i]
               PROVE  i \notin stale \/ i \in collapsed
    OBVIOUS
  <2>1. PICK fed \in SUBSET Comp : UpdateComponent(fed)
    BY DEF Next, Loop, SetTransform, SetPaint, SetActive, BeginUpdate, SkipComponent,
           FinishPass
  <2>2. j = index
    BY <2>1 DEF UpdateComponent, StaleAfter
  <2> QED BY <2>1, <2>2, SourcesAreClean
<1> QED BY <1>1, TypeCorrect, DirtInvariant, PTL DEF Spec, ParentsFirst
-----------------------------------------------------------------------------
(***************************************************************************)
(* Frames of nested artboards.                                             *)
(***************************************************************************)
(* Everything that the operators of a frame work on.                       *)
AllValues == UNION {Takes(p) : p \in Properties}
Values == {f \in [Properties -> AllValues] : \A p \in Properties : f[p] \in Takes(p)}
AllStates == UNION {States(m) : m \in Machines}
StatesNow == {f \in [Machines -> AllStates] : \A m \in Machines : f[m] \in States(m)}
EventsOf(a) == [of : {a}, id : Ids]
Reports == {f \in [Machines -> Seq(Events)] : \A m \in Machines : f[m] \in Seq(EventsOf(In[m]))}

Works ==
  [value : Values, dirty : SUBSET Artboards, needs : [Machines -> BOOLEAN], state : StatesNow,
   reports : Reports, told : Seq(Events), updated : BOOLEAN, owed : [Ears -> Int]]

(* The same, field by field. *)
Typed(w) ==
  /\ w.value \in Values /\ w.dirty \in SUBSET Artboards /\ w.needs \in [Machines -> BOOLEAN]
  /\ w.state \in StatesNow /\ w.reports \in Reports /\ w.told \in Seq(Events)
  /\ w.updated \in BOOLEAN /\ w.owed \in [Ears -> Int]
Record(w) ==
  w = [value |-> w.value, dirty |-> w.dirty, needs |-> w.needs, state |-> w.state,
       reports |-> w.reports, told |-> w.told, updated |-> w.updated, owed |-> w.owed]

LEMMA WorkIsTyped == ASSUME NEW w \in Works PROVE Typed(w) /\ Record(w)
  BY DEF Works, Typed, Record

LEMMA TypedIsWork == ASSUME NEW w, Typed(w), Record(w) PROVE w \in Works
<1> DEFINE v == w.value  d == w.dirty  n == w.needs  s == w.state  r == w.reports  t == w.told
           u == w.updated  o == w.owed
<1>1. /\ v \in Values /\ d \in SUBSET Artboards /\ n \in [Machines -> BOOLEAN] /\ s \in StatesNow
      /\ r \in Reports /\ t \in Seq(Events) /\ u \in BOOLEAN /\ o \in [Ears -> Int]
  BY DEF Typed
<1>2. w = [value |-> v, dirty |-> d, needs |-> n, state |-> s, reports |-> r, told |-> t,
           updated |-> u, owed |-> o]
  BY DEF Record
<1> HIDE DEF v, d, n, s, r, t, u, o
<1> QED BY <1>1, <1>2 DEF Works

-----------------------------------------------------------------------------
(* Setters.                                                                *)

(* The properties that a pose changes, and that a call changed. *)
ChangedBy(w, pose) == {p \in DOMAIN pose : w.value[p] /= pose[p]}

LEMMA PosedValue ==
  ASSUME NEW v \in Values, NEW pose, IsPose(pose)
  PROVE  [p \in DOMAIN v |-> IF p \in DOMAIN pose THEN pose[p] ELSE v[p]] \in Values
<1> DEFINE u == [p \in DOMAIN v |-> IF p \in DOMAIN pose THEN pose[p] ELSE v[p]]
<1>1. DOMAIN v = Properties /\ \A p \in Properties : v[p] \in Takes(p)
  BY DEF Values
<1>2. \A p \in Properties : u[p] \in Takes(p)
  BY <1>1 DEF IsPose
<1>3. u = [p \in Properties |-> u[p]]
  BY <1>1
<1>4. \A p \in Properties : u[p] \in AllValues
  <2> HIDE DEF u
  <2> QED BY <1>2 DEF AllValues
<1> HIDE DEF u
<1>5. u \in [Properties -> AllValues]
  BY <1>3, <1>4
<1>6. u \in Values
  BY <1>2, <1>5 DEF Values
<1> QED BY <1>6 DEF u

LEMMA ApplyIs ==
  ASSUME NEW w \in Works, NEW pose, IsPose(pose)
  PROVE  LET u == Apply(w, pose) IN
         /\ u \in Works
         /\ \A p \in Properties : u.value[p] = IF p \in DOMAIN pose THEN pose[p] ELSE w.value[p]
         /\ u.dirty = w.dirty \cup {a \in Artboards : \E p \in ChangedBy(w, pose) : Dirties(p, a)}
         /\ \A m \in Machines :
              u.needs[m] = (w.needs[m] \/ \E p \in ChangedBy(w, pose) : p[1] = "input" /\ p[2] = m)
         /\ u.state = w.state /\ u.reports = w.reports /\ u.told = w.told
         /\ u.updated = w.updated /\ u.owed = w.owed
<1> DEFINE u == Apply(w, pose)
           C == ChangedBy(w, pose)
           v == [p \in DOMAIN w.value |-> IF p \in DOMAIN pose THEN pose[p] ELSE w.value[p]]
           d == w.dirty \cup {a \in Artboards : \E p \in C : Dirties(p, a)}
           n == [m \in Machines |-> w.needs[m] \/ \E p \in C : p[1] = "input" /\ p[2] = m]
<1>1. Typed(w) /\ Record(w)
  BY WorkIsTyped
<1>2. u = [w EXCEPT !.value = v, !.dirty = d, !.needs = n]
  BY DEF Apply, ChangedBy
<1>3. v \in Values
  BY <1>1, PosedValue DEF Typed
<1>4. d \in SUBSET Artboards /\ n \in [Machines -> BOOLEAN]
  BY <1>1 DEF Typed
<1>5. \A p \in Properties : v[p] = IF p \in DOMAIN pose THEN pose[p] ELSE w.value[p]
  BY <1>1 DEF Typed, Values
<1>6. \A m \in Machines : n[m] = (w.needs[m] \/ \E p \in C : p[1] = "input" /\ p[2] = m)
  OBVIOUS
<1>7. d = w.dirty \cup {a \in Artboards : \E p \in C : Dirties(p, a)}
  OBVIOUS
<1> HIDE DEF u, v, d, n, C
<1>8. /\ u.value = v /\ u.dirty = d /\ u.needs = n /\ u.state = w.state /\ u.reports = w.reports
      /\ u.told = w.told /\ u.updated = w.updated /\ u.owed = w.owed /\ Record(u)
  BY <1>1, <1>2 DEF Record
<1>9. u \in Works
  <2>1. Typed(u)
    BY <1>1, <1>3, <1>4, <1>8 DEF Typed
  <2> QED BY <1>8, <2>1, TypedIsWork
<1>10. /\ \A p \in Properties : u.value[p] = IF p \in DOMAIN pose THEN pose[p] ELSE w.value[p]
       /\ u.dirty = w.dirty \cup {a \in Artboards : \E p \in C : Dirties(p, a)}
       /\ \A m \in Machines : u.needs[m] = (w.needs[m] \/ \E p \in C : p[1] = "input" /\ p[2] = m)
  BY <1>5, <1>6, <1>7, <1>8
<1> QED BY <1>8, <1>9, <1>10 DEF u, C

-----------------------------------------------------------------------------
(* Where animations are, and the machine in an artboard.                   *)
LEMMA InIs ==
  ASSUME NEW p \in Animation
  PROVE  In[p] \in Artboards /\ p \in ToSet(Animations[In[p]])
<1>1. \E a \in Artboards : p \in ToSet(Animations[a])
  BY TreeAssumption
<1> QED BY <1>1 DEF In

LEMMA InIsOnly ==
  ASSUME NEW a \in Artboards, NEW p \in ToSet(Animations[a])
  PROVE  p \in Animation /\ In[p] = a
<1>1. p \in Animation
  <2>1. Animations[a] \in Seq(Animation)
    BY TreeAssumption
  <2> QED BY <2>1 DEF ToSet
<1>2. In[p] \in Artboards /\ p \in ToSet(Animations[In[p]])
  BY <1>1, InIs
<1>3. \A b, c \in Artboards : b # c => ToSet(Animations[b]) \cap ToSet(Animations[c]) = {}
  BY TreeAssumption
<1> QED BY <1>1, <1>2, <1>3

LEMMA MachineInIs ==
  ASSUME NEW m \in Machines
  PROVE  m \in Animation /\ In[m] \in Artboards /\ MachineIn(In[m]) = m /\ m # None
<1>1. m \in Animation /\ In[m] \in Artboards /\ None \notin Animation
  BY InIs, TreeAssumption DEF Machines
<1>2. \A k \in Machines : In[k] = In[m] => k = m
  BY TreeAssumption
<1>3. (CHOOSE k \in Machines : In[k] = In[m]) = m
  BY <1>2
<1> QED BY <1>1, <1>3 DEF MachineIn

LEMMA SomeMachineIn ==
  ASSUME NEW a, MachineIn(a) # None
  PROVE  MachineIn(a) \in Machines /\ In[MachineIn(a)] = a
  BY DEF MachineIn

(* Where an artboard is nested.                                            *)
LEMMA PathIs ==
  ASSUME NEW a \in Artboards
  PROVE  /\ Path[a] \in Seq(Artboards) /\ Len(Path[a]) > 0 /\ Path[a][1] = a
         /\ a = Root => Path[a] = <<Root>>
         /\ a # Root => /\ Len(Path[a]) > 1 /\ Host(a) \in Artboards /\ a \in ToSet(Nested[Host(a)])
                        /\ Path[a] = <<a>> \o Path[Host(a)]
                        /\ Len(Path[a]) = Len(Path[Host(a)]) + 1
<1>1. /\ Path[a] \in Seq(Artboards)
      /\ a = Root => Path[a] = <<Root>>
      /\ a # Root => Len(Path[a]) > 1 /\ Path[a] = <<a>> \o Path[Host(a)] /\ a \in ToSet(Nested[Host(a)])
  BY TreeAssumption
<1>2. CASE a = Root
  <2>1. Path[a] = <<Root>>
    BY <1>1, <1>2
  <2>2. Len(<<Root>>) = 1 /\ <<Root>>[1] = Root
    OBVIOUS
  <2>3. Len(Path[a]) = 1 /\ Path[a][1] = Root
    BY <2>1, <2>2
  <2> QED BY ONLY <1>1, <1>2, <2>1, <2>3
<1>3. CASE a # Root
  <2>1. Host(a) \in Artboards
    BY <1>1, <1>3 DEF Host
  <2>2. Path[Host(a)] \in Seq(Artboards)
    BY <2>1, TreeAssumption
  <2> DEFINE h == Host(a)
  <2> HIDE DEF h
  <2>3. Path[h] \in Seq(Artboards) /\ Path[a] = <<a>> \o Path[h]
    BY <1>1, <1>3, <2>2 DEF h
  <2>4. Path[a][1] = a /\ Len(Path[a]) = Len(Path[h]) + 1
    BY <2>3
  <2> QED BY <1>1, <1>3, <2>1, <2>4 DEF h
<1> QED BY <1>2, <1>3

LEMMA HostIs ==
  ASSUME NEW a \in Artboards, NEW n \in ToSet(Nested[a])
  PROVE  n \in Artboards /\ n # Root /\ Host(n) = a
<1>1. Nested[a] \in Seq(Artboards)
  BY TreeAssumption
<1>2. n \in Artboards
  BY <1>1 DEF ToSet
<1>3. n # Root /\ Host(n) = a
  BY TreeAssumption
<1> QED BY <1>2, <1>3

(* No artboard is nested in itself.                                        *)
LEMMA HostIsOther ==
  ASSUME NEW a \in Artboards, a # Root
  PROVE  Host(a) \in Artboards /\ Host(a) # a
<1>1. Host(a) \in Artboards /\ Len(Path[a]) = Len(Path[Host(a)]) + 1 /\ Path[a] \in Seq(Artboards)
  BY PathIs
<1>2. Len(Path[a]) \in Nat
  BY <1>1
<1> QED BY <1>1, <1>2

-----------------------------------------------------------------------------
(* Who is to hear what.                                                    *)
EventFor(l) == Event(Listener(l).target, Listener(l).event)

LEMMA EarIs ==
  ASSUME NEW l \in Ears
  PROVE  /\ l[1] \in Machines /\ l[2] \in DOMAIN Listeners[l[1]] /\ l = <<l[1], l[2]>>
         /\ Listener(l).target \in {In[l[1]]} \cup ToSet(Nested[In[l[1]]])
         /\ EventFor(l) \in Events
<1>1. PICK m \in Machines : l \in {m} \X DOMAIN Listeners[m]
  BY DEF Ears
<1>2. l[1] = m /\ l[2] \in DOMAIN Listeners[m] /\ l = <<l[1], l[2]>>
  BY <1>1
<1>3. /\ Listener(l).target \in {In[m]} \cup ToSet(Nested[In[m]])
      /\ Listener(l).event \in Ids
  BY <1>2, MachineAssumption DEF Listener
<1>4. In[m] \in Artboards /\ \A n \in ToSet(Nested[In[m]]) : n \in Artboards
  BY MachineInIs, HostIs
<1>5. Listener(l).target \in Artboards
  BY <1>3, <1>4
<1> QED BY <1>2, <1>3, <1>5 DEF EventFor, Event, Events

LEMMA EarOf ==
  ASSUME NEW m \in Machines, NEW i \in DOMAIN Listeners[m]
  PROVE  <<m, i>> \in Ears /\ Listener(<<m, i>>) = Listeners[m][i]
<1>1. <<m, i>> \in {m} \X DOMAIN Listeners[m]
  OBVIOUS
<1> QED BY <1>1 DEF Ears, Listener

LEMMA EventIs ==
  ASSUME NEW a \in Artboards, NEW id \in Ids
  PROVE  Event(a, id) \in Events /\ Event(a, id) \in EventsOf(a) /\ Event(a, id).of = a
  BY DEF Event, Events, EventsOf

(* A machine's events are all of its artboard.                             *)
LEMMA ReportsAreOwn ==
  ASSUME NEW r \in Reports, NEW m \in Machines
  PROVE  /\ r[m] \in Seq(Events) /\ r[m] \in Seq(EventsOf(In[m]))
         /\ \A e \in ToSet(r[m]) : e \in Events /\ e.of = In[m]
<1>1. r[m] \in Seq(Events) /\ r[m] \in Seq(EventsOf(In[m]))
  BY DEF Reports
<1>2. ASSUME NEW e \in ToSet(r[m]) PROVE e \in Events /\ e.of = In[m]
  <2>1. PICK i \in DOMAIN r[m] : e = r[m][i]
    BY DEF ToSet
  <2>2. e \in EventsOf(In[m]) /\ e \in Events
    BY <1>1, <2>1
  <2> QED BY <2>2 DEF EventsOf
<1> QED BY <1>1, <1>2

-----------------------------------------------------------------------------
(* Reporting.                                                              *)
Appended(m, ids) == [i \in DOMAIN ids |-> Event(In[m], ids[i])]

LEMMA AppendedIs ==
  ASSUME NEW m \in Machines, NEW ids \in Seq(Ids)
  PROVE  Appended(m, ids) \in Seq(EventsOf(In[m])) /\ Appended(m, ids) \in Seq(Events)
<1>1. In[m] \in Artboards
  BY MachineInIs
<1>2. \A i \in DOMAIN ids : Event(In[m], ids[i]) \in Events /\ Event(In[m], ids[i]) \in EventsOf(In[m])
  BY <1>1, EventIs
<1>3. DOMAIN ids = 1 .. Len(ids) /\ Len(ids) \in Nat
  OBVIOUS
<1> QED BY <1>2, <1>3 DEF Appended

(* Concatenation, and what is in it. *)
LEMMA JoinedSet ==
  ASSUME NEW S, NEW s \in Seq(S), NEW t \in Seq(S)
  PROVE  s \o t \in Seq(S) /\ ToSet(s \o t) = ToSet(s) \cup ToSet(t)
<1>1. s \o t \in Seq(S)
  OBVIOUS
<1>2. ASSUME NEW e \in ToSet(s \o t) PROVE e \in ToSet(s) \cup ToSet(t)
  <2>1. PICK i \in 1 .. Len(s) + Len(t) : e = (s \o t)[i]
    BY DEF ToSet
  <2>2. CASE i <= Len(s)
    <3>1. e = s[i] /\ i \in DOMAIN s
      BY <2>1, <2>2
    <3> QED BY <3>1 DEF ToSet
  <2>3. CASE i > Len(s)
    <3>1. e = t[i - Len(s)] /\ i - Len(s) \in DOMAIN t
      BY <2>1, <2>3
    <3> QED BY <3>1 DEF ToSet
  <2> QED BY <2>1, <2>2, <2>3
<1>3. ASSUME NEW e \in ToSet(s) PROVE e \in ToSet(s \o t)
  <2>1. PICK i \in DOMAIN s : e = s[i]
    BY DEF ToSet
  <2>2. i \in DOMAIN (s \o t) /\ (s \o t)[i] = e
    BY <2>1
  <2> QED BY <2>2 DEF ToSet
<1>4. ASSUME NEW e \in ToSet(t) PROVE e \in ToSet(s \o t)
  <2>1. PICK i \in DOMAIN t : e = t[i]
    BY DEF ToSet
  <2>2. Len(s) + i \in DOMAIN (s \o t) /\ (s \o t)[Len(s) + i] = e
    BY <2>1
  <2> QED BY <2>2 DEF ToSet
<1> QED BY <1>1, <1>2, <1>3, <1>4

LEMMA ReportIs ==
  ASSUME NEW w \in Works, NEW m \in Machines, NEW ids \in Seq(Ids)
  PROVE  LET u == Report(w, m, ids)
             new == Appended(m, ids)
         IN
         /\ u \in Works
         /\ u.reports[m] = w.reports[m] \o new
         /\ \A k \in Machines : k # m => u.reports[k] = w.reports[k]
         /\ \A l \in Ears : u.owed[l] =
              IF EventFor(l) \in ToSet(new) /\ EventFor(l) \notin ToSet(w.reports[m])
              THEN w.owed[l] + 1 ELSE w.owed[l]
         /\ u.value = w.value /\ u.dirty = w.dirty /\ u.needs = w.needs /\ u.state = w.state
         /\ u.told = w.told /\ u.updated = w.updated
<1> DEFINE u == Report(w, m, ids)
           new == Appended(m, ids)
           r == [w.reports EXCEPT ![m] = @ \o new]
           Due(l) == \E e \in ToSet(new) : e \notin ToSet(w.reports[m]) /\ IsFor(l, e)
           o == [l \in DOMAIN w.owed |-> IF Due(l) THEN w.owed[l] + 1 ELSE w.owed[l]]
<1>1. Typed(w) /\ Record(w)
  BY WorkIsTyped
<1>2. u = [w EXCEPT !.reports = r, !.owed = o]
  BY <1>1 DEF Report, Appended, Record
<1>3. new \in Seq(EventsOf(In[m])) /\ new \in Seq(Events)
  BY AppendedIs
<1>4. w.reports \in Reports /\ w.owed \in [Ears -> Int]
  BY <1>1 DEF Typed
<1>5. /\ r \in Reports /\ r[m] = w.reports[m] \o new
      /\ \A k \in Machines : k # m => r[k] = w.reports[k]
  <2>1. \A k \in Machines : r[k] = IF k = m THEN w.reports[m] \o new ELSE w.reports[k]
    BY <1>4 DEF Reports
  <2>2. w.reports[m] \in Seq(Events) /\ w.reports[m] \in Seq(EventsOf(In[m]))
    BY <1>4, ReportsAreOwn
  <2> HIDE DEF new
  <2>3. w.reports[m] \o new \in Seq(Events) /\ w.reports[m] \o new \in Seq(EventsOf(In[m]))
    BY <1>3, <2>2
  <2>4. DOMAIN r = Machines /\ r = [k \in Machines |-> r[k]]
    BY <1>4 DEF Reports
  <2> HIDE DEF r
  <2>5. \A k \in Machines : r[k] \in Seq(Events) /\ r[k] \in Seq(EventsOf(In[k]))
    <3> TAKE k \in Machines
    <3>1. w.reports[k] \in Seq(Events) /\ w.reports[k] \in Seq(EventsOf(In[k]))
      BY <1>4, ReportsAreOwn
    <3> QED BY <2>1, <2>3, <3>1
  <2>6. r \in Reports
    BY <2>4, <2>5 DEF Reports
  <2> QED BY <2>1, <2>6
<1>6. ASSUME NEW l \in Ears
      PROVE  Due(l) = (EventFor(l) \in ToSet(new) /\ EventFor(l) \notin ToSet(w.reports[m]))
  BY DEF EventFor, IsFor
<1>7. /\ o \in [Ears -> Int]
      /\ \A l \in Ears : o[l] = IF Due(l) THEN w.owed[l] + 1 ELSE w.owed[l]
  <2> HIDE DEF Due
  <2> QED BY <1>4
<1> HIDE DEF u, r, o, new, Due
<1>8. /\ u.reports = r /\ u.owed = o /\ u.value = w.value /\ u.dirty = w.dirty /\ u.needs = w.needs
      /\ u.state = w.state /\ u.told = w.told /\ u.updated = w.updated /\ Record(u)
  BY <1>1, <1>2 DEF Record
<1>9. u \in Works
  <2>1. Typed(u)
    BY <1>1, <1>5, <1>7, <1>8 DEF Typed
  <2> QED BY <1>8, <2>1, TypedIsWork
<1>10. \A l \in Ears : u.owed[l] =
              IF EventFor(l) \in ToSet(new) /\ EventFor(l) \notin ToSet(w.reports[m])
              THEN w.owed[l] + 1 ELSE w.owed[l]
  BY <1>6, <1>7, <1>8
<1> QED BY <1>5, <1>8, <1>9, <1>10 DEF u, new

-----------------------------------------------------------------------------
(* Performing what a listener does.                                        *)
One(b) == IF b THEN 1 ELSE 0

LEMMA OneIs == ASSUME NEW b, b \in BOOLEAN PROVE One(b) \in Int /\ (b => One(b) = 1) /\ (~b => One(b) = 0)
  BY DEF One

Paid(w, k, i) == [w EXCEPT !.owed[<<k, i>>] = @ - 1]

LEMMA PaidIs ==
  ASSUME NEW w \in Works, NEW k \in Machines, NEW i \in DOMAIN Listeners[k]
  PROVE  LET u == Paid(w, k, i) IN
         /\ u \in Works
         /\ \A l \in Ears : u.owed[l] = w.owed[l] - One(l = <<k, i>>)
         /\ u.value = w.value /\ u.dirty = w.dirty /\ u.needs = w.needs /\ u.state = w.state
         /\ u.reports = w.reports /\ u.told = w.told /\ u.updated = w.updated
<1> DEFINE u == Paid(w, k, i)
           o == [w.owed EXCEPT ![<<k, i>>] = @ - 1]
<1>1. Typed(w) /\ Record(w)
  BY WorkIsTyped
<1>2. u = [w EXCEPT !.owed = o]
  BY <1>1 DEF Paid, Record
<1>3. w.owed \in [Ears -> Int] /\ <<k, i>> \in Ears
  BY <1>1, EarOf DEF Typed
<1>4. o \in [Ears -> Int] /\ \A l \in Ears : o[l] = w.owed[l] - One(l = <<k, i>>)
  BY <1>3 DEF One
<1> HIDE DEF u, o
<1>5. /\ u.reports = w.reports /\ u.owed = o /\ u.value = w.value /\ u.dirty = w.dirty
      /\ u.needs = w.needs
      /\ u.state = w.state /\ u.told = w.told /\ u.updated = w.updated /\ Record(u)
  BY <1>1, <1>2 DEF Record
<1>6. u \in Works
  <2>1. Typed(u)
    BY <1>1, <1>4, <1>5 DEF Typed
  <2> QED BY <1>5, <2>1, TypedIsWork
<1> QED BY <1>4, <1>5, <1>6 DEF u

(* The list that is being told is replaced.                                *)
Tells(w, events) == [w EXCEPT !.told = events]

LEMMA TellsIs ==
  ASSUME NEW w \in Works, NEW events \in Seq(Events)
  PROVE  LET u == Tells(w, events) IN
         /\ u \in Works /\ u.told = events
         /\ u.value = w.value /\ u.dirty = w.dirty /\ u.needs = w.needs /\ u.state = w.state
         /\ u.reports = w.reports /\ u.owed = w.owed /\ u.updated = w.updated
<1> DEFINE u == Tells(w, events)
<1>1. Typed(w) /\ Record(w)
  BY WorkIsTyped
<1>2. u = [w EXCEPT !.told = events]
  BY DEF Tells
<1> HIDE DEF u
<1>3. /\ u.reports = w.reports /\ u.owed = w.owed /\ u.value = w.value /\ u.dirty = w.dirty
      /\ u.needs = w.needs
      /\ u.state = w.state /\ u.told = events /\ u.updated = w.updated /\ Record(u)
  BY <1>1, <1>2 DEF Record
<1>4. u \in Works
  <2>1. Typed(u)
    BY <1>1, <1>3 DEF Typed
  <2> QED BY <1>3, <2>1, TypedIsWork
<1> QED BY <1>3, <1>4 DEF u

(* An input takes a Boolean.                                               *)
SetTo(l) == [p \in {l.what} |-> l.value]

LEMMA SetToIs ==
  ASSUME NEW k \in Machines, NEW i \in DOMAIN Listeners[k], Listeners[k][i].does = "set"
  PROVE  /\ IsPose(SetTo(Listeners[k][i]))
         /\ \A p \in DOMAIN SetTo(Listeners[k][i]) : p \in Properties /\ p[1] = "input"
<1> DEFINE l == Listeners[k][i]
<1>1. /\ l.value \in BOOLEAN
      /\ \/ l.what \in Inputs(k)
         \/ \E n \in Machines : In[n] \in ToSet(Nested[In[k]]) /\ l.what \in Inputs(n)
  BY MachineAssumption
<1> HIDE DEF l
<1>2. l.what \in Properties /\ l.what[1] = "input"
  BY <1>1 DEF Inputs
<1>3. Takes(l.what) = BOOLEAN
  BY <1>2 DEF Takes
<1>4. DOMAIN SetTo(l) = {l.what} /\ SetTo(l)[l.what] = l.value
  BY DEF SetTo
<1>5. IsPose(SetTo(l)) /\ \A p \in DOMAIN SetTo(l) : p \in Properties /\ p[1] = "input"
  BY <1>1, <1>2, <1>3, <1>4 DEF IsPose
<1> QED BY <1>5 DEF l

LEMMA ListenerIs ==
  ASSUME NEW k \in Machines, NEW i \in DOMAIN Listeners[k]
  PROVE  LET l == Listeners[k][i] IN
         /\ l.target \in {In[k]} \cup ToSet(Nested[In[k]]) /\ l.event \in Ids
         /\ l.does \in {"set", "report"} /\ (l.does = "report" => l.what \in Ids)
  BY MachineAssumption

(* It sets an input. *)
LEMMA SetPerforms ==
  ASSUME NEW w \in Works, NEW k \in Machines, NEW i \in DOMAIN Listeners[k], NEW source,
         Listeners[k][i].does = "set"
  PROVE  LET u == Perform(w, k, i, source)
             paid == Paid(w, k, i)
         IN
         /\ u = Apply(paid, SetTo(Listeners[k][i])) /\ u \in Works
         /\ u.reports = w.reports /\ u.told = w.told /\ u.state = w.state
         /\ \A l \in Ears : u.owed[l] = w.owed[l] - One(l = <<k, i>>)
<1> DEFINE u == Perform(w, k, i, source)
           paid == Paid(w, k, i)
           pose == SetTo(Listeners[k][i])
<1>1. u = Apply(paid, pose)
  BY DEF Perform, SetTo, Paid
<1>2. IsPose(pose)
  BY SetToIs
<1>3. /\ paid \in Works /\ \A l \in Ears : paid.owed[l] = w.owed[l] - One(l = <<k, i>>)
      /\ paid.reports = w.reports /\ paid.told = w.told /\ paid.state = w.state
  BY PaidIs
<1> HIDE DEF u, paid, pose
<1>4. u \in Works /\ u.reports = paid.reports /\ u.told = paid.told /\ u.owed = paid.owed /\ u.state = paid.state
  BY <1>1, <1>2, <1>3, ApplyIs
<1> QED BY <1>1, <1>3, <1>4 DEF u, paid, pose

(* It reports an event. *)
Answer(k, i) == Event(In[k], Listeners[k][i].what)

LEMMA AnswerIs ==
  ASSUME NEW k \in Machines, NEW i \in DOMAIN Listeners[k], Listeners[k][i].does = "report"
  PROVE  /\ <<Listeners[k][i].what>> \in Seq(Ids) /\ Answer(k, i) \in Events /\ Answer(k, i).of = In[k]
         /\ Appended(k, <<Listeners[k][i].what>>) = <<Answer(k, i)>>
<1>1. Listeners[k][i].what \in Ids
  BY ListenerIs
<1> DEFINE x == Listeners[k][i].what
<1>2. Answer(k, i) \in Events /\ Answer(k, i).of = In[k]
  BY <1>1, MachineInIs, EventIs DEF Answer
<1>3. Appended(k, <<x>>) = <<Event(In[k], x)>>
  <2> HIDE DEF x
  <2>1. <<x>> = [j \in 1 .. 1 |-> x] /\ <<Event(In[k], x)>> = [j \in 1 .. 1 |-> Event(In[k], x)]
    OBVIOUS
  <2>2. Appended(k, <<x>>) = [j \in 1 .. 1 |-> Event(In[k], x)]
    BY DEF Appended
  <2> QED BY <2>1, <2>2
<1> QED BY <1>1, <1>2, <1>3 DEF Answer

LEMMA ReportPerforms ==
  ASSUME NEW w \in Works, NEW k \in Machines, NEW i \in DOMAIN Listeners[k], NEW source,
         Listeners[k][i].does = "report"
  PROVE  LET u == Perform(w, k, i, source)
             e == Answer(k, i)
         IN
         /\ u \in Works
         /\ u.reports[k] = Append(w.reports[k], e)
         /\ \A m \in Machines : m # k => u.reports[m] = w.reports[m]
         /\ u.told = IF source = None THEN Append(w.told, e) ELSE w.told
         /\ \A l \in Ears : u.owed[l] = w.owed[l] - One(l = <<k, i>>)
                                        + One(EventFor(l) = e /\ e \notin ToSet(w.reports[k]))
         /\ u.value = w.value /\ u.dirty = w.dirty /\ u.needs = w.needs /\ u.state = w.state
<1> DEFINE u == Perform(w, k, i, source)
           e == Answer(k, i)
           paid == Paid(w, k, i)
           ids == <<Listeners[k][i].what>>
           r == Report(paid, k, ids)
           t == IF source = None THEN Append(w.told, e) ELSE w.told
<1>1. ids \in Seq(Ids) /\ e \in Events /\ Appended(k, ids) = <<e>>
  BY AnswerIs
<1>2. /\ paid \in Works /\ \A l \in Ears : paid.owed[l] = w.owed[l] - One(l = <<k, i>>)
      /\ paid.reports = w.reports /\ paid.told = w.told
      /\ paid.value = w.value /\ paid.dirty = w.dirty /\ paid.needs = w.needs /\ paid.state = w.state
  BY PaidIs
<1>3. /\ r \in Works
      /\ r.reports[k] = paid.reports[k] \o <<e>>
      /\ \A m \in Machines : m # k => r.reports[m] = paid.reports[m]
      /\ \A l \in Ears : r.owed[l] =
           IF EventFor(l) \in ToSet(<<e>>) /\ EventFor(l) \notin ToSet(paid.reports[k])
           THEN paid.owed[l] + 1 ELSE paid.owed[l]
      /\ r.told = paid.told
      /\ r.value = paid.value /\ r.dirty = paid.dirty /\ r.needs = paid.needs /\ r.state = paid.state
  <2> DEFINE new == Appended(k, ids)
  <2>1. new = <<e>>
    BY <1>1
  <2> HIDE DEF paid, ids, e
  <2>2. /\ r \in Works
        /\ r.reports[k] = paid.reports[k] \o new
        /\ \A m \in Machines : m # k => r.reports[m] = paid.reports[m]
        /\ \A l \in Ears : r.owed[l] =
             IF EventFor(l) \in ToSet(new) /\ EventFor(l) \notin ToSet(paid.reports[k])
             THEN paid.owed[l] + 1 ELSE paid.owed[l]
        /\ r.told = paid.told
        /\ r.value = paid.value /\ r.dirty = paid.dirty /\ r.needs = paid.needs /\ r.state = paid.state
    BY <1>1, <1>2, ReportIs
  <2> HIDE DEF r, new
  <2> QED BY <2>1, <2>2
<1>4. w.told \in Seq(Events) /\ w.owed \in [Ears -> Int]
  BY WorkIsTyped DEF Typed
<1>5. t \in Seq(Events)
  BY <1>1, <1>4
<1>6. u = Tells(r, t)
  <2>1. u = [r EXCEPT !.told = IF source = None THEN Append(r.told, e) ELSE r.told]
    <3>1. Listeners[k][i].does # "set"
      OBVIOUS
    <3> QED BY <3>1 DEF Perform, Paid, Answer
  <2> HIDE DEF paid, r, e
  <2>2. t = IF source = None THEN Append(r.told, e) ELSE r.told
    BY <1>2, <1>3
  <2> QED BY <2>1, <2>2 DEF Tells
<1>7. ToSet(<<e>>) = {e}
  <2> HIDE DEF e
  <2> QED BY DEF ToSet
<1> HIDE DEF u, e, paid, ids, r, t
<1>8. /\ u \in Works /\ u.told = t /\ u.reports = r.reports /\ u.owed = r.owed
      /\ u.value = r.value /\ u.dirty = r.dirty /\ u.needs = r.needs /\ u.state = r.state
  BY <1>3, <1>5, <1>6, TellsIs
<1>9. u.reports[k] = Append(w.reports[k], e)
  <2>1. w.reports[k] \in Seq(Events)
    BY WorkIsTyped, ReportsAreOwn DEF Typed
  <2>2. \A s \in Seq(Events) : s \o <<e>> = Append(s, e)
    BY <1>1
  <2> QED BY <1>2, <1>3, <1>8, <2>1, <2>2
<1>10. \A l \in Ears : u.owed[l] = w.owed[l] - One(l = <<k, i>>)
                                        + One(EventFor(l) = e /\ e \notin ToSet(w.reports[k]))
  <2> TAKE l \in Ears
  <2> DEFINE x == One(l = <<k, i>>)
             b == EventFor(l) = e /\ e \notin ToSet(w.reports[k])
  <2>1. w.owed[l] \in Int /\ x \in Int
    BY <1>4 DEF One
  <2>2. paid.owed[l] = w.owed[l] - x
    BY <1>2
  <2>3. u.owed[l] = IF b THEN paid.owed[l] + 1 ELSE paid.owed[l]
    BY <1>2, <1>3, <1>7, <1>8
  <2> HIDE DEF x, b
  <2>4. u.owed[l] = w.owed[l] - x + One(b)
    BY <2>1, <2>2, <2>3 DEF One
  <2> QED BY <2>4 DEF x, b
<1> QED BY <1>2, <1>3, <1>8, <1>9, <1>10 DEF u, e, t

-----------------------------------------------------------------------------
(* Counting what is to be heard: the events of the list that is being told  *)
(* are all of the artboard o; muted is the machine they are taken from, if  *)
(* any; the ears of P have had their turn.                                  *)
Waits(w, l, muted) == \E m \in Machines : m # muted /\ EventFor(l) \in ToSet(w.reports[m])

Fine(w, o, muted, P) ==
  /\ w \in Works
  /\ \A e \in ToSet(w.told) : e.of = o
  /\ \A m \in Machines : m = muted => w.told = w.reports[m]
  /\ \A l \in Ears : w.owed[l] = One(Waits(w, l, muted)) + One(EventFor(l) \in ToSet(w.told) /\ l \notin P)

LEMMA AppendedSet ==
  ASSUME NEW S, NEW s \in Seq(S), NEW e \in S
  PROVE  Append(s, e) \in Seq(S) /\ ToSet(Append(s, e)) = ToSet(s) \cup {e}
<1>1. Append(s, e) = s \o <<e>> /\ <<e>> \in Seq(S)
  OBVIOUS
<1>2. ToSet(<<e>>) = {e}
  BY DEF ToSet
<1>3. s \o <<e>> \in Seq(S) /\ ToSet(s \o <<e>>) = ToSet(s) \cup ToSet(<<e>>)
  BY <1>1, JoinedSet
<1> QED BY <1>1, <1>2, <1>3

LEMMA HearsIs ==
  ASSUME NEW w, NEW k \in Machines, NEW i \in DOMAIN Listeners[k], NEW source, NEW o,
         o = IF source = None THEN In[k] ELSE source,
         \A e \in ToSet(w.told) : e.of = o
  PROVE  Hears(w, k, Listeners[k][i], source) <=> EventFor(<<k, i>>) \in ToSet(w.told)
<1> DEFINE l == Listeners[k][i]
<1>1. EventFor(<<k, i>>) = Event(l.target, l.event) /\ Event(l.target, l.event).of = l.target
  BY EarOf DEF EventFor, Event
<1>2. Hears(w, k, l, source) <=> l.target = o /\ Event(o, l.event) \in ToSet(w.told)
  BY DEF Hears, Aims
<1> HIDE DEF l
<1>3. Hears(w, k, l, source) <=> EventFor(<<k, i>>) \in ToSet(w.told)
  BY <1>1, <1>2
<1> QED BY <1>3 DEF l

(* Reporting an event makes those wait that are for it, unless they do.     *)
LEMMA ReportedWaits ==
  ASSUME NEW w \in Works, NEW u \in Works, NEW k \in Machines, NEW e \in Events, e.of = In[k],
         u.reports[k] = Append(w.reports[k], e),
         \A m \in Machines : m # k => u.reports[m] = w.reports[m],
         NEW l \in Ears, NEW muted
  PROVE  One(Waits(u, l, muted)) =
           One(Waits(w, l, muted)) + One(k # muted /\ EventFor(l) = e /\ e \notin ToSet(w.reports[k]))
<1>1. \A m \in Machines : \A x \in ToSet(w.reports[m]) : x.of = In[m]
  BY WorkIsTyped, ReportsAreOwn DEF Typed
<1>2. \A m \in Machines : In[m] = In[k] => m = k
  BY TreeAssumption
<1>3. ToSet(u.reports[k]) = ToSet(w.reports[k]) \cup {e}
  <2>1. w.reports[k] \in Seq(Events)
    BY WorkIsTyped, ReportsAreOwn DEF Typed
  <2> QED BY <2>1, AppendedSet
<1>4. Waits(w, l, muted) \in BOOLEAN /\ Waits(u, l, muted) \in BOOLEAN
  BY DEF Waits
<1>5. CASE EventFor(l) = e
  <2>1. \A m \in Machines : e \in ToSet(w.reports[m]) => m = k
    BY <1>1, <1>2
  <2>2. Waits(w, l, muted) <=> k # muted /\ e \in ToSet(w.reports[k])
    BY <1>5, <2>1 DEF Waits
  <2>3. Waits(u, l, muted) <=> k # muted
    BY <1>3, <1>5, <2>1 DEF Waits
  <2> QED BY <1>4, <1>5, <2>2, <2>3 DEF One
<1>6. CASE EventFor(l) # e
  <2>1. \A m \in Machines : EventFor(l) \in ToSet(u.reports[m]) <=> EventFor(l) \in ToSet(w.reports[m])
    BY <1>3, <1>6
  <2>2. Waits(u, l, muted) <=> Waits(w, l, muted)
    BY <2>1 DEF Waits
  <2> QED BY <1>4, <1>6, <2>2 DEF One
<1> QED BY <1>5, <1>6

LEMMA SameWaits ==
  ASSUME NEW w, NEW u, u.reports = w.reports, NEW l, NEW muted
  PROVE  Waits(u, l, muted) = Waits(w, l, muted)
  BY DEF Waits

LEMMA FineIsTyped ==
  ASSUME NEW w, NEW o, NEW muted, NEW P, Fine(w, o, muted, P)
  PROVE  w \in Works /\ w.told \in Seq(Events) /\ w.owed \in [Ears -> Int]
  BY WorkIsTyped DEF Fine, Typed

(* The turn of one that does not hear: it may as well have had it.          *)
LEMMA UnheardTurn ==
  ASSUME NEW w, NEW o, NEW muted, NEW P, Fine(w, o, muted, P), NEW l \in Ears,
         EventFor(l) \notin ToSet(w.told)
  PROVE  Fine(w, o, muted, P \cup {l})
<1>1. \A k \in Ears : (EventFor(k) \in ToSet(w.told) /\ k \notin P)
                      = (EventFor(k) \in ToSet(w.told) /\ k \notin P \cup {l})
  OBVIOUS
<1> QED BY <1>1 DEF Fine

(* The turn of one that does, and sets an input.                            *)
LEMMA SetTurn ==
  ASSUME NEW w, NEW o, NEW muted, NEW P, Fine(w, o, muted, P),
         NEW k \in Machines, NEW i \in DOMAIN Listeners[k], NEW source,
         <<k, i>> \notin P, EventFor(<<k, i>>) \in ToSet(w.told),
         Listeners[k][i].does = "set"
  PROVE  Fine(Perform(w, k, i, source), o, muted, P \cup {<<k, i>>})
<1> DEFINE u == Perform(w, k, i, source)
           Q == P \cup {<<k, i>>}
<1>1. w \in Works /\ w.owed \in [Ears -> Int]
  BY FineIsTyped
<1>2. /\ u \in Works /\ u.reports = w.reports /\ u.told = w.told
      /\ \A l \in Ears : u.owed[l] = w.owed[l] - One(l = <<k, i>>)
  BY <1>1, SetPerforms
<1> HIDE DEF u
<1>3. ASSUME NEW l \in Ears
      PROVE  u.owed[l] = One(Waits(u, l, muted)) + One(EventFor(l) \in ToSet(u.told) /\ l \notin Q)
  <2> DEFINE x == One(Waits(w, l, muted))
  <2>1. w.owed[l] = x + One(EventFor(l) \in ToSet(w.told) /\ l \notin P)
    BY DEF Fine
  <2>2. One(Waits(u, l, muted)) = x /\ x \in Int
    BY <1>2, SameWaits DEF One
  <2> HIDE DEF x
  <2>3. CASE l = <<k, i>>
    BY <1>2, <2>1, <2>2, <2>3 DEF One
  <2>4. CASE l # <<k, i>>
    BY <1>2, <2>1, <2>2, <2>4 DEF One
  <2> QED BY <2>3, <2>4
<1>4. Fine(u, o, muted, Q)
  BY <1>2, <1>3 DEF Fine
<1> QED BY <1>4 DEF u

(* The turn of one that hears what is not its own, and reports an event.    *)
LEMMA ReportTurn ==
  ASSUME NEW w, NEW o, NEW muted, NEW P, Fine(w, o, muted, P),
         NEW k \in Machines, NEW i \in DOMAIN Listeners[k], NEW source,
         <<k, i>> \notin P, EventFor(<<k, i>>) \in ToSet(w.told),
         Listeners[k][i].does = "report", source \in Artboards, k # muted
  PROVE  Fine(Perform(w, k, i, source), o, muted, P \cup {<<k, i>>})
<1> DEFINE u == Perform(w, k, i, source)
           Q == P \cup {<<k, i>>}
           e == Answer(k, i)
<1>1. w \in Works /\ w.owed \in [Ears -> Int]
  BY FineIsTyped
<1>2. e \in Events /\ e.of = In[k]
  BY AnswerIs
<1> HIDE DEF e
<1>3. /\ u \in Works /\ u.told = w.told
      /\ u.reports[k] = Append(w.reports[k], e)
      /\ \A m \in Machines : m # k => u.reports[m] = w.reports[m]
      /\ \A l \in Ears : u.owed[l] = w.owed[l] - One(l = <<k, i>>)
                                        + One(EventFor(l) = e /\ e \notin ToSet(w.reports[k]))
  <2>1. source # None
    BY TreeAssumption
  <2> QED BY <1>1, <2>1, ReportPerforms DEF e
<1> HIDE DEF u
<1>4. ASSUME NEW l \in Ears
      PROVE  u.owed[l] = One(Waits(u, l, muted)) + One(EventFor(l) \in ToSet(u.told) /\ l \notin Q)
  <2> DEFINE x == One(Waits(w, l, muted))
             y == One(EventFor(l) = e /\ e \notin ToSet(w.reports[k]))
  <2>1. w.owed[l] = x + One(EventFor(l) \in ToSet(w.told) /\ l \notin P)
    BY DEF Fine
  <2>2. One(Waits(u, l, muted)) = x + y
    <3>1. One(Waits(u, l, muted)) =
           One(Waits(w, l, muted)) + One(k # muted /\ EventFor(l) = e /\ e \notin ToSet(w.reports[k]))
      BY <1>1, <1>2, <1>3, ReportedWaits
    <3> QED BY <3>1 DEF One
  <2>3. x \in Int /\ y \in Int
    BY DEF One
  <2>4. u.owed[l] = w.owed[l] - One(l = <<k, i>>) + y
    BY <1>3
  <2> HIDE DEF x, y
  <2>5. CASE l = <<k, i>>
    BY <1>3, <2>1, <2>2, <2>3, <2>4, <2>5 DEF One
  <2>6. CASE l # <<k, i>>
    BY <1>3, <2>1, <2>2, <2>3, <2>4, <2>6 DEF One
  <2> QED BY <2>5, <2>6
<1>5. \A m \in Machines : m = muted => u.told = u.reports[m]
  BY <1>3 DEF Fine
<1>6. \A x \in ToSet(u.told) : x.of = o
  BY <1>3 DEF Fine
<1>7. Fine(u, o, muted, Q)
  BY <1>3, <1>4, <1>5, <1>6 DEF Fine
<1> QED BY <1>7 DEF u

(* The turn of one that reports an event of the list it hears: of the ears   *)
(* that have had their turn none is for it that did not hear it.             *)
LEMMA OwnReportTurn ==
  ASSUME NEW k \in Machines, NEW i \in DOMAIN Listeners[k],
         NEW w, NEW P, Fine(w, In[k], k, P),
         <<k, i>> \notin P, EventFor(<<k, i>>) \in ToSet(w.told),
         Listeners[k][i].does = "report",
         \A l \in P : EventFor(l) # Answer(k, i)
  PROVE  Fine(Perform(w, k, i, None), In[k], k, P \cup {<<k, i>>})
<1> DEFINE u == Perform(w, k, i, None)
           Q == P \cup {<<k, i>>}
           e == Answer(k, i)
<1>1. w \in Works /\ w.owed \in [Ears -> Int] /\ w.told \in Seq(Events)
  BY FineIsTyped
<1>2. e \in Events /\ e.of = In[k]
  BY AnswerIs
<1>3. \A l \in P : EventFor(l) # e
  OBVIOUS
<1>4. /\ u \in Works /\ u.told = Append(w.told, e)
      /\ u.reports[k] = Append(w.reports[k], e)
      /\ \A m \in Machines : m # k => u.reports[m] = w.reports[m]
      /\ \A l \in Ears : u.owed[l] = w.owed[l] - One(l = <<k, i>>)
                                        + One(EventFor(l) = e /\ e \notin ToSet(w.reports[k]))
  <2>1. u.told = IF None = None THEN Append(w.told, e) ELSE w.told
    BY <1>1, ReportPerforms
  <2>2. /\ u \in Works
        /\ u.reports[k] = Append(w.reports[k], e)
        /\ \A m \in Machines : m # k => u.reports[m] = w.reports[m]
        /\ \A l \in Ears : u.owed[l] = w.owed[l] - One(l = <<k, i>>)
                                          + One(EventFor(l) = e /\ e \notin ToSet(w.reports[k]))
    BY <1>1, ReportPerforms
  <2> QED BY <2>1, <2>2
<1> HIDE DEF e, u
<1>5. w.told = w.reports[k] /\ \A x \in ToSet(w.told) : x.of = In[k]
  BY DEF Fine
<1>6. ToSet(u.told) = ToSet(w.told) \cup {e}
  BY <1>1, <1>2, <1>4, AppendedSet
<1>7. ASSUME NEW l \in Ears
      PROVE  u.owed[l] = One(Waits(u, l, k)) + One(EventFor(l) \in ToSet(u.told) /\ l \notin Q)
  <2> DEFINE x == One(Waits(w, l, k))
             y == One(EventFor(l) = e /\ e \notin ToSet(w.told))
  <2>1. w.owed[l] = x + One(EventFor(l) \in ToSet(w.told) /\ l \notin P)
    BY DEF Fine
  <2>2. One(Waits(u, l, k)) = x
    <3>1. One(Waits(u, l, k)) =
           One(Waits(w, l, k)) + One(k # k /\ EventFor(l) = e /\ e \notin ToSet(w.reports[k]))
      BY <1>1, <1>2, <1>4, ReportedWaits
    <3> QED BY <3>1 DEF One
  <2>3. x \in Int /\ y \in Int
    BY DEF One
  <2>4. u.owed[l] = w.owed[l] - One(l = <<k, i>>) + y
    BY <1>4, <1>5
  <2> HIDE DEF x
  <2>5. CASE l = <<k, i>>
    BY <1>6, <2>1, <2>2, <2>3, <2>4, <2>5 DEF One
  <2>6. CASE l # <<k, i>>
    BY <1>3, <1>6, <2>1, <2>2, <2>3, <2>4, <2>6 DEF One
  <2> QED BY <2>5, <2>6
<1>8. \A m \in Machines : m = k => u.told = u.reports[m]
  BY <1>4, <1>5
<1>9. \A x \in ToSet(u.told) : x.of = In[k]
  BY <1>2, <1>5, <1>6
<1>10. Fine(u, In[k], k, Q)
  BY <1>4, <1>7, <1>8, <1>9 DEF Fine
<1> QED BY <1>10 DEF u

-----------------------------------------------------------------------------
(* Telling the listeners of a machine.                                     *)
LEMMA ListenersAre ==
  ASSUME NEW k \in Machines
  PROVE  Len(Listeners[k]) \in Nat /\ DOMAIN Listeners[k] = 1 .. Len(Listeners[k])
  BY MachineAssumption

LEMMA ToldIs ==
  ASSUME NEW w \in Works, NEW k \in Machines, NEW i \in DOMAIN Listeners[k], NEW source
  PROVE  Told(w, k, i, source) \in Works
<1>1. Perform(w, k, i, source) \in Works
  BY SetPerforms, ReportPerforms, ListenerIs
<1> QED BY <1>1 DEF Told

(* It is defined, and each listener has its turn. *)
LEMMA TellIs ==
  ASSUME NEW w \in Works, NEW k \in Machines, NEW source
  PROVE  \E f \in [0 .. Len(Listeners[k]) -> Works] :
           /\ f[0] = w /\ Tell(w, k, source) = f[Len(Listeners[k])]
           /\ \A i \in 1 .. Len(Listeners[k]) : f[i] = Told(f[i - 1], k, i, source)
<1> DEFINE End == Len(Listeners[k])
           start == w
           Go(v, i) == Told(v, k, i, source)
           Step == [q \in Works \X (1 .. End) |-> Go(q[1], q[2])]
           Is(f) == f = [i \in 0 .. End |-> IF i = 0 THEN start ELSE Go(f[i - 1], i)]
           G == CHOOSE f : Is(f)
<1>1. Tell(w, k, source) = G[End]
  BY DEF Tell
<1>2. End \in Nat
  BY ListenersAre
<1>3. ASSUME NEW v \in Works, NEW i \in 1 .. End PROVE Go(v, i) \in Works
  BY ListenersAre, ToldIs
<1>4. start \in Works
  OBVIOUS
<1> HIDE DEF Go, End, G, start
<1>5. Step \in StepsOf(Works, End)
  BY <1>3 DEF StepsOf
<1> HIDE DEF Step
<1>6. PICK f : CountsUp(f, End, Works, start, Step)
  BY <1>2, <1>4, <1>5, CountingDefines
<1>7. /\ f \in [0 .. End -> Works] /\ f[0] = start
      /\ \A i \in 1 .. End : f[i] = Step[<<f[i - 1], i>>]
  BY <1>6 DEF CountsUp
<1>8. ASSUME NEW i \in 1 .. End PROVE f[i] = Go(f[i - 1], i)
  <2>1. f[i - 1] \in Works
    BY <1>2, <1>7
  <2>2. Step[<<f[i - 1], i>>] = Go(f[i - 1], i)
    BY <2>1 DEF Step
  <2> QED BY <1>7, <2>2
<1>9. Is(f)
  <2>1. f = [i \in 0 .. End |-> f[i]]
    BY <1>7
  <2>2. \A i \in 0 .. End : f[i] = IF i = 0 THEN start ELSE Go(f[i - 1], i)
    <3> TAKE i \in 0 .. End
    <3>1. i = 0 \/ (i \in 1 .. End /\ i # 0)
      BY <1>2
    <3> QED BY <1>7, <1>8, <3>1
  <2> QED BY <2>1, <2>2, Zenon
<1>10. Is(G)
  <2> HIDE DEF Is
  <2> QED BY <1>9 DEF G
<1>11. G = [i \in 0 .. End |-> G[i]] /\ G[0] = start /\ \A i \in 1 .. End : G[i] = Go(G[i - 1], i)
  <2>1. /\ G = [i \in 0 .. End |-> G[i]]
        /\ \A i \in 0 .. End : G[i] = IF i = 0 THEN start ELSE Go(G[i - 1], i)
    BY <1>10
  <2>2. 0 \in 0 .. End /\ \A i \in 1 .. End : i \in 0 .. End /\ i # 0
    BY <1>2
  <2> HIDE DEF Is
  <2> QED BY <2>1, <2>2
<1> HIDE DEF Is
<1> DEFINE M == {i \in 0 .. End : G[i] \in Works}
<1>12. 0 .. End \subseteq M
  <2>1. 0 \in M
    BY <1>2, <1>4, <1>11
  <2>2. ASSUME NEW i \in 0 .. End - 1, i \in M PROVE i + 1 \in M
    <3>1. i + 1 \in 1 .. End /\ i + 1 \in 0 .. End /\ (i + 1) - 1 = i
      BY <1>2
    <3>2. G[i + 1] = Go(G[i], i + 1)
      BY <1>11, <3>1
    <3> QED BY <1>3, <2>2, <3>1, <3>2
  <2> HIDE DEF M
  <2> QED BY <1>2, <2>1, <2>2, BoundedInduction
<1>13. G \in [0 .. End -> Works]
  BY <1>11, <1>12
<1> QED BY <1>1, <1>11, <1>13 DEF Go, End, start

(* A report of a listener comes after those before it had their turn: none  *)
(* of them is for it.                                                       *)
ReportsComeLater ==
  \A m \in Machines : \A i, j \in DOMAIN Listeners[m] :
    j < i /\ Listeners[m][i].does = "report"
      /\ Listeners[m][i].target = In[m] /\ Listeners[m][j].target = In[m]
    => Listeners[m][j].event # Listeners[m][i].what

(* The ears of a machine, up to one of them. *)
Upto(k, i) == {k} \X (1 .. i)

LEMMA UptoIs ==
  ASSUME NEW k \in Machines, NEW i \in 1 .. Len(Listeners[k])
  PROVE  /\ Upto(k, i) = Upto(k, i - 1) \cup {<<k, i>>} /\ <<k, i>> \notin Upto(k, i - 1)
         /\ <<k, i>> \in Ears /\ i \in DOMAIN Listeners[k]
<1>1. i \in Nat /\ 1 .. i = 1 .. (i - 1) \cup {i} /\ i \notin 1 .. (i - 1) /\ i \in DOMAIN Listeners[k]
  BY ListenersAre
<1>2. <<k, i>> \in Ears
  BY <1>1, EarOf
<1> QED BY <1>1, <1>2 DEF Upto

(* Its own list: all of its listeners have had their turn.                  *)
LEMMA OwnTell ==
  ASSUME ReportsComeLater, NEW k \in Machines, NEW w, Fine(w, In[k], k, {}), NEW own \in {None}
  PROVE  Fine(Tell(w, k, own), In[k], k, Upto(k, Len(Listeners[k])))
<1> DEFINE End == Len(Listeners[k])
<1>1. w \in Works
  BY FineIsTyped
<1>2. PICK f \in [0 .. End -> Works] :
        /\ f[0] = w /\ Tell(w, k, own) = f[End]
        /\ \A i \in 1 .. End : f[i] = Told(f[i - 1], k, i, own)
  BY <1>1, TellIs
<1>3. End \in Nat
  BY ListenersAre
<1> DEFINE M == {i \in 0 .. End : Fine(f[i], In[k], k, Upto(k, i))}
<1>4. 0 \in M
  <2>1. Upto(k, 0) = {}
    BY DEF Upto
  <2>2. Fine(f[0], In[k], k, Upto(k, 0))
    BY <1>2, <2>1
  <2> QED BY <1>3, <2>2
<1>5. ASSUME NEW j \in 0 .. End - 1, j \in M PROVE j + 1 \in M
  <2> DEFINE i == j + 1
             l == Listeners[k][i]
             v == f[j]
             P == Upto(k, j)
  <2>1. i \in 1 .. End /\ i \in 0 .. End /\ i - 1 = j
    BY <1>3
  <2>2. f[i] = Told(v, k, i, own)
    BY <1>2, <2>1
  <2>3. Fine(v, In[k], k, P)
    BY <1>5
  <2>4. Upto(k, i) = P \cup {<<k, i>>} /\ <<k, i>> \notin P /\ <<k, i>> \in Ears /\ i \in DOMAIN Listeners[k]
    BY <2>1, UptoIs
  <2>5. Hears(v, k, l, own) <=> EventFor(<<k, i>>) \in ToSet(v.told)
    <3>1. \A e \in ToSet(v.told) : e.of = In[k]
      BY <2>3 DEF Fine
    <3> HIDE DEF v, i
    <3> QED BY <2>4, <3>1, HearsIs
  <2> HIDE DEF v, P, i, End
  <2>6. CASE EventFor(<<k, i>>) \notin ToSet(v.told)
    <3>1. f[i] = v
      BY <2>2, <2>5, <2>6 DEF Told
    <3>2. Fine(v, In[k], k, P \cup {<<k, i>>})
      BY <2>3, <2>4, <2>6, UnheardTurn
    <3> QED BY <2>1, <2>4, <3>1, <3>2 DEF i
  <2>7. CASE EventFor(<<k, i>>) \in ToSet(v.told)
    <3>1. f[i] = Perform(v, k, i, own)
      BY <2>2, <2>5, <2>7 DEF Told
    <3>2. CASE l.does = "set"
      <4>1. Fine(Perform(v, k, i, own), In[k], k, P \cup {<<k, i>>})
        BY <2>3, <2>4, <2>7, <3>2, SetTurn
      <4> QED BY <2>1, <2>4, <3>1, <4>1 DEF i
    <3>3. CASE l.does = "report"
      <4>1. ASSUME NEW x \in P PROVE EventFor(x) # Answer(k, i)
        <5>1. PICK n \in 1 .. j : x = <<k, n>>
          BY DEF P, Upto
        <5>2. n \in DOMAIN Listeners[k] /\ n < i
          BY <1>3, <2>1, <2>4, ListenersAre DEF End
        <5>3. EventFor(x) = Event(Listeners[k][n].target, Listeners[k][n].event)
          BY <5>1, <5>2, EarOf DEF EventFor
        <5>4. Listeners[k][i].target = In[k]
          <6>1. EventFor(<<k, i>>) = Event(Listeners[k][i].target, Listeners[k][i].event)
            BY <2>4, EarOf DEF EventFor
          <6>2. EventFor(<<k, i>>).of = In[k]
            BY <2>3, <2>7 DEF Fine
          <6> QED BY <6>1, <6>2 DEF Event
        <5>5. CASE Listeners[k][n].target = In[k]
          <6>1. Listeners[k][n].event # Listeners[k][i].what
            BY <2>4, <3>3, <5>2, <5>4, <5>5 DEF ReportsComeLater
          <6> QED BY <5>3, <6>1 DEF Event, Answer
        <5>6. CASE Listeners[k][n].target # In[k]
          BY <5>3, <5>6 DEF Event, Answer
        <5> QED BY <5>5, <5>6
      <4>2. Fine(Perform(v, k, i, own), In[k], k, P \cup {<<k, i>>})
        BY <2>3, <2>4, <2>7, <3>3, <4>1, OwnReportTurn
      <4> QED BY <2>1, <2>4, <3>1, <4>2 DEF i
    <3>4. l.does \in {"set", "report"}
      BY <2>4, ListenerIs
    <3> QED BY <3>2, <3>3, <3>4
  <2> QED BY <2>6, <2>7
<1>6. End \in M
  <2>1. 0 .. End \subseteq M
    <3> HIDE DEF M, End
    <3> QED BY <1>3, <1>4, <1>5, BoundedInduction
  <2> QED BY <1>3, <2>1
<1> QED BY <1>2, <1>6

(* Only a machine's own list changes while it is told.                      *)
LEMMA ToldStays ==
  ASSUME NEW w \in Works, NEW k \in Machines, NEW i \in DOMAIN Listeners[k], NEW source \in Artboards
  PROVE  Told(w, k, i, source).told = w.told
<1>1. source # None
  BY TreeAssumption
<1>2. Listeners[k][i].does \in {"set", "report"}
  BY ListenerIs
<1>3. Perform(w, k, i, source).told = w.told
  <2>1. CASE Listeners[k][i].does = "set"
    BY <2>1, SetPerforms
  <2>2. CASE Listeners[k][i].does = "report"
    BY <1>1, <2>2, ReportPerforms
  <2> QED BY <1>2, <2>1, <2>2
<1> QED BY <1>3 DEF Told

(* What comes from below: the same, and the list stays as it is.            *)
LEMMA UpTell ==
  ASSUME NEW k \in Machines, NEW o \in Artboards, NEW muted, k # muted,
         NEW w, NEW P, Fine(w, o, muted, P), \A l \in P : l[1] # k
  PROVE  /\ Fine(Tell(w, k, o), o, muted, P \cup Upto(k, Len(Listeners[k])))
         /\ Tell(w, k, o).told = w.told
<1> DEFINE End == Len(Listeners[k])
<1>1. w \in Works
  BY FineIsTyped
<1>2. PICK f \in [0 .. End -> Works] :
        /\ f[0] = w /\ Tell(w, k, o) = f[End]
        /\ \A i \in 1 .. End : f[i] = Told(f[i - 1], k, i, o)
  BY <1>1, TellIs
<1>3. End \in Nat
  BY ListenersAre
<1> DEFINE M == {i \in 0 .. End : Fine(f[i], o, muted, P \cup Upto(k, i)) /\ f[i].told = w.told}
<1>4. 0 \in M
  <2>1. P \cup Upto(k, 0) = P
    BY DEF Upto
  <2>2. Fine(f[0], o, muted, P \cup Upto(k, 0)) /\ f[0].told = w.told
    BY <1>2, <2>1
  <2> QED BY <1>3, <2>2
<1>5. ASSUME NEW j \in 0 .. End - 1, j \in M PROVE j + 1 \in M
  <2> DEFINE i == j + 1
             l == Listeners[k][i]
             v == f[j]
             Q == P \cup Upto(k, j)
  <2>1. i \in 1 .. End /\ i \in 0 .. End /\ i - 1 = j
    BY <1>3
  <2>2. f[i] = Told(v, k, i, o)
    BY <1>2, <2>1
  <2>3. Fine(v, o, muted, Q) /\ v.told = w.told
    BY <1>5
  <2>4. P \cup Upto(k, i) = Q \cup {<<k, i>>} /\ <<k, i>> \notin Q /\ <<k, i>> \in Ears /\ i \in DOMAIN Listeners[k]
    <3>1. Upto(k, i) = Upto(k, j) \cup {<<k, i>>} /\ <<k, i>> \notin Upto(k, j) /\ <<k, i>> \in Ears
          /\ i \in DOMAIN Listeners[k]
      BY <2>1, UptoIs
    <3>2. <<k, i>> \notin P
      OBVIOUS
    <3> QED BY <3>1, <3>2
  <2>5. Hears(v, k, l, o) <=> EventFor(<<k, i>>) \in ToSet(v.told)
    <3>1. \A e \in ToSet(v.told) : e.of = o
      BY <2>3 DEF Fine
    <3>2. o = IF o = None THEN In[k] ELSE o
      BY TreeAssumption
    <3> HIDE DEF v, i
    <3> QED BY <2>4, <3>1, <3>2, HearsIs
  <2> HIDE DEF v, Q, i, End
  <2>6. CASE EventFor(<<k, i>>) \notin ToSet(v.told)
    <3>1. f[i] = v
      BY <2>2, <2>5, <2>6 DEF Told
    <3>2. Fine(v, o, muted, Q \cup {<<k, i>>})
      BY <2>3, <2>4, <2>6, UnheardTurn
    <3> QED BY <2>1, <2>3, <2>4, <3>1, <3>2 DEF i
  <2>7. CASE EventFor(<<k, i>>) \in ToSet(v.told)
    <3>1. f[i] = Perform(v, k, i, o)
      BY <2>2, <2>5, <2>7 DEF Told
    <3>2. l.does \in {"set", "report"}
      BY <2>4, ListenerIs
    <3>3. Fine(Perform(v, k, i, o), o, muted, Q \cup {<<k, i>>})
      <4> HIDE DEF l
      <4>1. CASE l.does = "set"
        <5>1. Listeners[k][i].does = "set"
          BY <4>1 DEF l
        <5> QED BY <2>3, <2>4, <2>7, <5>1, SetTurn
      <4>2. CASE l.does = "report"
        <5>1. Listeners[k][i].does = "report"
          BY <4>2 DEF l
        <5> QED BY <2>3, <2>4, <2>7, <5>1, ReportTurn
      <4> QED BY <3>2, <4>1, <4>2
    <3>4. f[i].told = v.told
      <4>1. v \in Works
        BY <2>3, FineIsTyped
      <4> QED BY <2>2, <2>4, <4>1, ToldStays
    <3> QED BY <2>1, <2>3, <2>4, <3>1, <3>3, <3>4 DEF i
  <2> QED BY <2>6, <2>7
<1>6. End \in M
  <2>1. 0 .. End \subseteq M
    <3> HIDE DEF M, End
    <3> QED BY <1>3, <1>4, <1>5, BoundedInduction
  <2>2. End \in 0 .. End
    BY <1>3
  <2> HIDE DEF M, End
  <2> QED BY <2>1, <2>2
<1> QED BY <1>2, <1>6

(* Events of another artboard than they come from are not heard at all.     *)
LEMMA DeafTell ==
  ASSUME NEW k \in Machines, NEW w \in Works, NEW source \in Artboards,
         \A e \in ToSet(w.told) : e.of # source
  PROVE  Tell(w, k, source) = w
<1> DEFINE End == Len(Listeners[k])
<1>1. PICK f \in [0 .. End -> Works] :
        /\ f[0] = w /\ Tell(w, k, source) = f[End]
        /\ \A i \in 1 .. End : f[i] = Told(f[i - 1], k, i, source)
  BY TellIs
<1>2. End \in Nat
  BY ListenersAre
<1>3. \A i \in 1 .. End : Told(w, k, i, source) = w
  BY DEF Told, Hears, Event
<1> DEFINE M == {i \in 0 .. End : f[i] = w}
<1>4. 0 \in M
  BY <1>1, <1>2
<1>5. ASSUME NEW j \in 0 .. End - 1, j \in M PROVE j + 1 \in M
  <2>1. j + 1 \in 1 .. End /\ j + 1 \in 0 .. End /\ (j + 1) - 1 = j
    BY <1>2
  <2>2. f[j + 1] = Told(f[j], k, j + 1, source)
    BY <1>1, <2>1
  <2> QED BY <1>3, <1>5, <2>1, <2>2
<1>6. End \in M
  <2>1. 0 .. End \subseteq M
    <3> HIDE DEF M, End
    <3> QED BY <1>2, <1>4, <1>5, BoundedInduction
  <2> QED BY <1>2, <2>1
<1> QED BY <1>1, <1>6

-----------------------------------------------------------------------------
(* Bubbling.                                                               *)
(* The artboards above one are nested less deep.                            *)
LEMMA PathsShrink ==
  ASSUME NEW a \in Artboards, NEW i \in DOMAIN Path[a]
  PROVE  Path[a][i] \in Artboards /\ Len(Path[Path[a][i]]) = Len(Path[a]) - i + 1
<1> DEFINE Good(b) == \A j \in DOMAIN Path[b] : Len(Path[Path[b][j]]) = Len(Path[b]) - j + 1
           M == {n \in Nat : \A b \in Artboards : Len(Path[b]) = n => Good(b)}
<1>1. \A b \in Artboards : Path[b] \in Seq(Artboards) /\ Len(Path[b]) > 0 /\ Len(Path[b]) \in Nat
                           /\ DOMAIN Path[b] = 1 .. Len(Path[b])
  <2> TAKE b \in Artboards
  <2>1. Path[b] \in Seq(Artboards) /\ Len(Path[b]) > 0
    BY PathIs
  <2> QED BY <2>1
<1>2. 0 \in M
  BY <1>1
<1>3. ASSUME NEW n \in Nat, n \in M PROVE n + 1 \in M
  <2> SUFFICES ASSUME NEW b \in Artboards, Len(Path[b]) = n + 1, NEW j \in DOMAIN Path[b]
               PROVE  Len(Path[Path[b][j]]) = Len(Path[b]) - j + 1
    OBVIOUS
  <2>1. j \in 1 .. Len(Path[b]) /\ Path[b][1] = b
    BY <1>1, PathIs
  <2>2. CASE j = 1
    BY <1>1, <2>1, <2>2
  <2>3. CASE j # 1
    <3>1. Len(Path[b]) > 1
      BY <1>1, <2>1, <2>3
    <3>2. b # Root
      <4>1. Len(<<Root>>) = 1
        OBVIOUS
      <4>2. b = Root => Path[b] = <<Root>>
        BY PathIs
      <4>3. ASSUME b = Root PROVE FALSE
        <5>1. Len(Path[b]) = Len(<<Root>>)
          BY <4>2, <4>3
        <5> QED BY ONLY <3>1, <4>1, <5>1
      <4> QED BY <4>3
    <3> DEFINE h == Host(b)
    <3>3. h \in Artboards /\ Path[b] = <<b>> \o Path[h] /\ Len(Path[b]) = Len(Path[h]) + 1
      BY <3>2, PathIs
    <3> HIDE DEF h
    <3>4. Path[h] \in Seq(Artboards) /\ Len(Path[h]) = n /\ DOMAIN Path[h] = 1 .. n
      BY <1>1, <3>3
    <3>5. j - 1 \in DOMAIN Path[h] /\ Path[b][j] = Path[h][j - 1]
      BY <2>1, <2>3, <3>3, <3>4
    <3>6. Len(Path[Path[h][j - 1]]) = Len(Path[h]) - (j - 1) + 1
      BY <1>3, <3>3, <3>4, <3>5
    <3> QED BY <2>1, <3>3, <3>4, <3>5, <3>6
  <2> QED BY <2>2, <2>3
<1>4. Nat \subseteq M
  <2> HIDE DEF M
  <2> QED BY <1>2, <1>3, SetInduction
<1>5. Good(a)
  BY <1>1, <1>4
<1>6. Path[a][i] \in Artboards
  BY <1>1
<1> QED BY <1>5, <1>6

LEMMA AboveIsOther ==
  ASSUME NEW a \in Artboards, NEW i \in DOMAIN Path[a], i # 1
  PROVE  Path[a][i] # a
<1>1. Len(Path[Path[a][i]]) = Len(Path[a]) - i + 1
  BY PathsShrink
<1>2. Len(Path[a]) \in Nat /\ i \in Nat
  <2>1. Path[a] \in Seq(Artboards)
    BY PathIs
  <2> QED BY <2>1
<1> QED BY <1>1, <1>2

LEMMA UpIs ==
  ASSUME NEW w \in Works, NEW a \in Artboards, NEW i \in 1 .. Len(Path[a]) - 1
  PROVE  /\ Up(w, a, i) \in Works
         /\ Reaches(a, i) => MachineIn(Path[a][i + 1]) \in Machines
         /\ i \in DOMAIN Path[a] /\ Path[a][i] \in Artboards
<1>1. Path[a] \in Seq(Artboards)
  BY PathIs
<1>2. i \in DOMAIN Path[a] /\ Path[a][i] \in Artboards /\ i + 1 \in 2 .. i + 1
  BY <1>1
<1>3. Reaches(a, i) => MachineIn(Path[a][i + 1]) \in Machines
  BY <1>2, SomeMachineIn DEF Reaches
<1>4. \A k \in Machines : \A source : Tell(w, k, source) \in Works
  <2> TAKE k \in Machines
  <2> TAKE source
  <2>1. PICK f \in [0 .. Len(Listeners[k]) -> Works] : Tell(w, k, source) = f[Len(Listeners[k])]
    BY TellIs
  <2> QED BY <2>1, ListenersAre
<1> QED BY <1>2, <1>3, <1>4 DEF Up

LEMMA BubblesIs ==
  ASSUME NEW a \in Artboards PROVE Len(Path[a]) - 1 \in Nat
<1>1. Path[a] \in Seq(Artboards) /\ Len(Path[a]) > 0
  BY PathIs
<1> QED BY <1>1

(* It is defined, and goes up level by level. *)
LEMMA BubbleIs ==
  ASSUME NEW w \in Works, NEW a \in Artboards
  PROVE  \E f \in [0 .. Len(Path[a]) - 1 -> Works] :
           /\ f[0] = w /\ Bubble(w, a) = f[Len(Path[a]) - 1]
           /\ \A i \in 1 .. Len(Path[a]) - 1 : f[i] = Up(f[i - 1], a, i)
<1> DEFINE End == Len(Path[a]) - 1
           start == w
           Go(v, i) == Up(v, a, i)
           Step == [q \in Works \X (1 .. End) |-> Go(q[1], q[2])]
           Is(f) == f = [i \in 0 .. End |-> IF i = 0 THEN start ELSE Go(f[i - 1], i)]
           G == CHOOSE f : Is(f)
<1>1. Bubble(w, a) = G[End]
  BY DEF Bubble
<1>2. End \in Nat
  BY BubblesIs
<1>3. ASSUME NEW v \in Works, NEW i \in 1 .. End PROVE Go(v, i) \in Works
  BY UpIs
<1>4. start \in Works
  OBVIOUS
<1> HIDE DEF Go, End, G, start
<1>5. Step \in StepsOf(Works, End)
  BY <1>3 DEF StepsOf
<1> HIDE DEF Step
<1>6. PICK f : CountsUp(f, End, Works, start, Step)
  BY <1>2, <1>4, <1>5, CountingDefines
<1>7. /\ f \in [0 .. End -> Works] /\ f[0] = start
      /\ \A i \in 1 .. End : f[i] = Step[<<f[i - 1], i>>]
  BY <1>6 DEF CountsUp
<1>8. ASSUME NEW i \in 1 .. End PROVE f[i] = Go(f[i - 1], i)
  <2>1. f[i - 1] \in Works
    BY <1>2, <1>7
  <2>2. Step[<<f[i - 1], i>>] = Go(f[i - 1], i)
    BY <2>1 DEF Step
  <2> QED BY <1>7, <2>2
<1>9. Is(f)
  <2>1. f = [i \in 0 .. End |-> f[i]]
    BY <1>7
  <2>2. \A i \in 0 .. End : f[i] = IF i = 0 THEN start ELSE Go(f[i - 1], i)
    <3> TAKE i \in 0 .. End
    <3>1. i = 0 \/ (i \in 1 .. End /\ i # 0)
      BY <1>2
    <3> QED BY <1>7, <1>8, <3>1
  <2> QED BY <2>1, <2>2, Zenon
<1>10. Is(G)
  <2> HIDE DEF Is
  <2> QED BY <1>9 DEF G
<1>11. G = [i \in 0 .. End |-> G[i]] /\ G[0] = start /\ \A i \in 1 .. End : G[i] = Go(G[i - 1], i)
  <2>1. /\ G = [i \in 0 .. End |-> G[i]]
        /\ \A i \in 0 .. End : G[i] = IF i = 0 THEN start ELSE Go(G[i - 1], i)
    BY <1>10
  <2>2. 0 \in 0 .. End /\ \A i \in 1 .. End : i \in 0 .. End /\ i # 0
    BY <1>2
  <2> HIDE DEF Is
  <2> QED BY <2>1, <2>2
<1> HIDE DEF Is
<1> DEFINE M == {i \in 0 .. End : G[i] \in Works}
<1>12. 0 .. End \subseteq M
  <2>1. 0 \in M
    BY <1>2, <1>4, <1>11
  <2>2. ASSUME NEW i \in 0 .. End - 1, i \in M PROVE i + 1 \in M
    <3>1. i + 1 \in 1 .. End /\ i + 1 \in 0 .. End /\ (i + 1) - 1 = i
      BY <1>2
    <3>2. G[i + 1] = Go(G[i], i + 1)
      BY <1>11, <3>1
    <3> QED BY <1>3, <2>2, <3>1, <3>2
  <2> HIDE DEF M
  <2> QED BY <1>2, <2>1, <2>2, BoundedInduction
<1>13. G \in [0 .. End -> Works]
  BY <1>11, <1>12
<1> QED BY <1>1, <1>11, <1>13 DEF Go, End, start

(* What is reported in an artboard reaches those in the one it is nested in. *)
LEMMA BubbleCounts ==
  ASSUME NEW a \in Artboards, NEW muted, \A m \in Machines : m = muted => In[m] = a,
         NEW w, NEW P, Fine(w, a, muted, P), \A l \in P : In[l[1]] = a
  PROVE  /\ Bubble(w, a).told = w.told
         /\ \E Q : /\ Fine(Bubble(w, a), a, muted, Q) /\ P \subseteq Q
                   /\ \A l \in Ears : Listener(l).target = a /\ In[l[1]] # a => l \in Q
<1> DEFINE End == Len(Path[a]) - 1
<1>1. w \in Works /\ \A e \in ToSet(w.told) : e.of = a
  BY FineIsTyped DEF Fine
<1>2. PICK f \in [0 .. End -> Works] :
        /\ f[0] = w /\ Bubble(w, a) = f[End]
        /\ \A i \in 1 .. End : f[i] = Up(f[i - 1], a, i)
  BY <1>1, BubbleIs
<1>3. End \in Nat
  BY BubblesIs
<1>4. CASE a = Root
  <2>1. End = 0
    <3>1. Path[a] = <<Root>>
      BY <1>4, PathIs
    <3>2. Len(Path[a]) = Len(<<Root>>)
      BY <3>1
    <3>3. Len(<<Root>>) = 1
      OBVIOUS
    <3> QED BY <3>2, <3>3
  <2>2. ASSUME NEW l \in Ears, Listener(l).target = a PROVE In[l[1]] = a
    <3>1. l[1] \in Machines /\ Listener(l).target \in {In[l[1]]} \cup ToSet(Nested[In[l[1]]])
      BY EarIs
    <3>2. In[l[1]] \in Artboards
      BY <3>1, MachineInIs
    <3>3. a \notin ToSet(Nested[In[l[1]]])
      BY <1>4, <3>2, HostIs
    <3> QED BY <2>2, <3>1, <3>3
  <2> QED BY <1>2, <2>1, <2>2
<1>5. CASE a # Root
  <2> DEFINE h == Host(a)
             k == MachineIn(h)
             b == Up(w, a, 1)
  <2>1. End >= 1 /\ 1 \in 1 .. End /\ h \in Artboards /\ a \in ToSet(Nested[h]) /\ Path[a][1] = a /\ Path[a][2] = h
    <3>1. /\ Len(Path[a]) > 1 /\ Host(a) \in Artboards /\ a \in ToSet(Nested[Host(a)])
          /\ Path[a] \in Seq(Artboards) /\ Path[a][1] = a
      BY <1>5, PathIs
    <3>2. End >= 1 /\ 1 \in 1 .. End
      BY <1>3, <3>1
    <3> QED BY <3>1, <3>2 DEF Host
  <2>2. h # a
    BY <1>5, HostIsOther
  <2>3. Reaches(a, 1) <=> k # None
    BY <2>1 DEF Reaches
  <2>4. b = IF k # None THEN Tell(w, k, a) ELSE w
    BY <2>1, <2>3 DEF Up
  <2>5. f[1] = b /\ b \in Works
    BY <1>2, <2>1
  <2>6. ASSUME NEW l \in Ears, Listener(l).target = a, In[l[1]] # a
        PROVE  k # None /\ l \in Upto(k, Len(Listeners[k]))
    <3>1. /\ l[1] \in Machines /\ l[2] \in DOMAIN Listeners[l[1]] /\ l = <<l[1], l[2]>>
          /\ Listener(l).target \in {In[l[1]]} \cup ToSet(Nested[In[l[1]]])
      BY EarIs
    <3>2. In[l[1]] \in Artboards /\ MachineIn(In[l[1]]) = l[1] /\ l[1] # None
      BY <3>1, MachineInIs
    <3>3. In[l[1]] = h
      BY <2>6, <3>1, <3>2, HostIs
    <3>4. k = l[1]
      BY <3>2, <3>3
    <3> HIDE DEF k
    <3> QED BY <3>1, <3>2, <3>4, ListenersAre DEF Upto
  <2>7. /\ b.told = w.told
        /\ \E Q : /\ Fine(b, a, muted, Q) /\ P \subseteq Q
                  /\ \A l \in Ears : Listener(l).target = a /\ In[l[1]] # a => l \in Q
    <3>1. CASE k = None
      BY <2>4, <2>6, <3>1
    <3>2. CASE k # None
      <4>1. k \in Machines /\ In[k] = h
        BY <3>2, SomeMachineIn
      <4>2. k # muted /\ \A l \in P : l[1] # k
        BY <2>2, <4>1
      <4>3. b = Tell(w, k, a)
        BY <2>4, <3>2
      <4> HIDE DEF k, b
      <4>4. Fine(b, a, muted, P \cup Upto(k, Len(Listeners[k]))) /\ b.told = w.told
        <5>1. /\ Fine(Tell(w, k, a), a, muted, P \cup Upto(k, Len(Listeners[k])))
              /\ Tell(w, k, a).told = w.told
          BY <4>1, <4>2, UpTell
        <5> QED BY <4>3, <5>1
      <4>5. \A l \in Ears : Listener(l).target = a /\ In[l[1]] # a => l \in P \cup Upto(k, Len(Listeners[k]))
        BY <2>6
      <4> QED BY <4>4, <4>5
    <3> QED BY <3>1, <3>2
  <2>8. f[End] = b
    <3> DEFINE M == {i \in 0 .. End : i >= 1 => f[i] = b}
    <3>1. 0 \in M
      BY <1>3
    <3>2. ASSUME NEW j \in 0 .. End - 1, j \in M PROVE j + 1 \in M
      <4>1. j + 1 \in 1 .. End /\ j + 1 \in 0 .. End /\ (j + 1) - 1 = j
        BY <1>3
      <4>2. CASE j = 0
        BY <2>5, <4>1, <4>2
      <4>3. CASE j # 0
        <5> DEFINE i == j + 1
        <5>1. f[j] = b /\ i \in 1 .. End /\ f[i] = Up(f[j], a, i) /\ i # 1
          BY <1>2, <3>2, <4>1, <4>3
        <5> HIDE DEF b, i
        <5>2. /\ i \in DOMAIN Path[a] /\ Path[a][i] \in Artboards
              /\ Reaches(a, i) => MachineIn(Path[a][i + 1]) \in Machines
          BY <2>5, <5>1, UpIs
        <5>3. Path[a][i] # a
          BY <5>1, <5>2, AboveIsOther
        <5>4. \A e \in ToSet(b.told) : e.of # Path[a][i]
          BY <1>1, <2>7, <5>3
        <5>5. Up(b, a, i) = b
          <6>1. CASE Reaches(a, i)
            <7>1. Tell(b, MachineIn(Path[a][i + 1]), Path[a][i]) = b
              BY <2>5, <5>2, <5>4, <6>1, DeafTell
            <7> QED BY <6>1, <7>1 DEF Up
          <6>2. CASE ~Reaches(a, i)
            BY <6>2 DEF Up
          <6> QED BY <6>1, <6>2
        <5>6. f[i] = b
          BY <5>1, <5>5
        <5> QED BY <4>1, <5>6 DEF i
      <4> QED BY <4>2, <4>3
    <3>3. 0 .. End \subseteq M
      <4> HIDE DEF M, End, b
      <4> QED BY <1>3, <3>1, <3>2, BoundedInduction
    <3>4. End \in 0 .. End
      BY <1>3
    <3> HIDE DEF End, b
    <3> QED BY <2>1, <3>3, <3>4
  <2>9. Bubble(w, a) = b
    BY <1>2, <2>8
  <2>10. \E Q : /\ Fine(b, a, muted, Q) /\ P \subseteq Q
                /\ \A l \in Ears : Listener(l).target = a /\ In[l[1]] # a => l \in Q
    BY <2>7
  <2> HIDE DEF b
  <2> QED BY <2>7, <2>9, <2>10
<1> QED BY <1>4, <1>5

-----------------------------------------------------------------------------
(* Between calls nothing is being told: a listener waits for what the       *)
(* machines are going to tell.                                              *)
Balanced(w) == \A l \in Ears : w.owed[l] = One(Waits(w, l, None))

(* One machine tells what it reported, and clears it.                       *)
LEMMA SplitWaits ==
  ASSUME NEW w \in Works, NEW m \in Machines, NEW l \in Ears
  PROVE  One(Waits(w, l, None)) = One(Waits(w, l, m)) + One(EventFor(l) \in ToSet(w.reports[m]))
<1>1. \A k \in Machines : \A x \in ToSet(w.reports[k]) : x.of = In[k]
  BY WorkIsTyped, ReportsAreOwn DEF Typed
<1>2. \A k \in Machines : In[m] = In[k] => m = k
  BY TreeAssumption
<1>3. \A k \in Machines : k # None
  BY MachineInIs
<1>4. Waits(w, l, m) \in BOOLEAN /\ Waits(w, l, None) \in BOOLEAN
  BY DEF Waits
<1>5. CASE EventFor(l) \in ToSet(w.reports[m])
  <2>1. \A k \in Machines : EventFor(l) \in ToSet(w.reports[k]) => m = k
    BY <1>1, <1>2, <1>5
  <2>2. ~Waits(w, l, m) /\ Waits(w, l, None)
    BY <1>3, <1>5, <2>1 DEF Waits
  <2> QED BY <1>4, <1>5, <2>2 DEF One
<1>6. CASE EventFor(l) \notin ToSet(w.reports[m])
  <2>1. Waits(w, l, m) <=> Waits(w, l, None)
    BY <1>3, <1>6 DEF Waits
  <2> QED BY <1>4, <1>6, <2>1 DEF One
<1> QED BY <1>5, <1>6

(* Whoever is to hear of an artboard is in it or in its host. *)
LEMMA OwnEars ==
  ASSUME NEW m \in Machines, NEW l \in Ears, In[l[1]] = In[m]
  PROVE  l \in Upto(m, Len(Listeners[m]))
<1>1. l[1] \in Machines /\ l[2] \in DOMAIN Listeners[l[1]] /\ l = <<l[1], l[2]>>
  BY EarIs
<1>2. l[1] = m
  BY <1>1, TreeAssumption
<1>3. l[2] \in 1 .. Len(Listeners[m])
  BY <1>1, <1>2, ListenersAre
<1> QED BY <1>1, <1>2, <1>3 DEF Upto

LEMMA ReportBalances ==
  ASSUME NEW w \in Works, NEW m \in Machines, NEW ids \in Seq(Ids), Balanced(w)
  PROVE  Balanced(Report(w, m, ids))
<1> DEFINE u == Report(w, m, ids)
           new == Appended(m, ids)
<1>1. /\ u \in Works /\ u.reports[m] = w.reports[m] \o new
      /\ \A k \in Machines : k # m => u.reports[k] = w.reports[k]
      /\ \A l \in Ears : u.owed[l] =
           IF EventFor(l) \in ToSet(new) /\ EventFor(l) \notin ToSet(w.reports[m])
           THEN w.owed[l] + 1 ELSE w.owed[l]
  BY ReportIs
<1>2. new \in Seq(EventsOf(In[m])) /\ new \in Seq(Events)
  BY AppendedIs
<1> HIDE DEF u, new
<1>3. ToSet(u.reports[m]) = ToSet(w.reports[m]) \cup ToSet(new)
  <2>1. w.reports[m] \in Seq(Events)
    BY WorkIsTyped, ReportsAreOwn DEF Typed
  <2> QED BY <1>1, <1>2, <2>1, JoinedSet
<1>4. \A k \in Machines : \A x \in ToSet(w.reports[k]) : x.of = In[k]
  BY WorkIsTyped, ReportsAreOwn DEF Typed
<1>5. \A x \in ToSet(new) : x.of = In[m]
  <2> TAKE x \in ToSet(new)
  <2>1. PICK i \in DOMAIN new : x = new[i]
    BY DEF ToSet
  <2>2. x \in EventsOf(In[m])
    BY <1>2, <2>1
  <2> QED BY <2>2 DEF EventsOf
<1>6. \A k \in Machines : In[k] = In[m] => k = m
  BY TreeAssumption
<1>7. ASSUME NEW l \in Ears PROVE u.owed[l] = One(Waits(u, l, None))
  <2>1. w.owed[l] = One(Waits(w, l, None))
    BY DEF Balanced
  <2>2. m # None /\ \A k \in Machines : k # None
    BY MachineInIs
  <2>3. CASE EventFor(l) \in ToSet(new)
    <3>1. \A k \in Machines : EventFor(l) \in ToSet(w.reports[k]) => k = m
      BY <1>4, <1>5, <1>6, <2>3
    <3>2. Waits(w, l, None) <=> EventFor(l) \in ToSet(w.reports[m])
      BY <2>2, <3>1 DEF Waits
    <3>3. Waits(u, l, None)
      BY <1>3, <2>2, <2>3 DEF Waits
    <3>4. Waits(w, l, None) \in BOOLEAN
      BY DEF Waits
    <3> QED BY <1>1, <2>1, <2>3, <3>2, <3>3, <3>4 DEF One
  <2>4. CASE EventFor(l) \notin ToSet(new)
    <3>1. \A k \in Machines : EventFor(l) \in ToSet(u.reports[k]) <=> EventFor(l) \in ToSet(w.reports[k])
      BY <1>1, <1>3, <2>4
    <3>2. Waits(u, l, None) = Waits(w, l, None)
      BY <3>1 DEF Waits
    <3> QED BY <1>1, <2>1, <2>4, <3>2
  <2> QED BY <2>3, <2>4
<1>8. Balanced(u)
  BY <1>7 DEF Balanced
<1> QED BY <1>8 DEF u

LEMMA ApplyBalances ==
  ASSUME NEW w \in Works, NEW pose, IsPose(pose), Balanced(w)
  PROVE  Apply(w, pose) \in Works /\ Balanced(Apply(w, pose))
<1> DEFINE u == Apply(w, pose)
<1>1. u \in Works /\ u.reports = w.reports /\ u.owed = w.owed
  BY ApplyIs
<1> HIDE DEF u
<1>2. \A l \in Ears : Waits(u, l, None) = Waits(w, l, None)
  BY <1>1 DEF Waits
<1>3. Balanced(u)
  BY <1>1, <1>2 DEF Balanced
<1> QED BY <1>1, <1>3 DEF u

(* A machine tells what it reported. *)
HeardBy(w, m) == Bubble(Tell(Tells(w, w.reports[m]), m, None), In[m])

LEMMA MachineHeard ==
  ASSUME ReportsComeLater, NEW w \in Works, Balanced(w), NEW m \in Machines
  PROVE  HeardBy(w, m) \in Works /\ \A l \in Ears : HeardBy(w, m).owed[l] = One(Waits(HeardBy(w, m), l, m))
<1> DEFINE a == In[m]
           s == Tells(w, w.reports[m])
           t == Tell(s, m, None)
           h == Bubble(t, a)
           P == Upto(m, Len(Listeners[m]))
<1>1. a \in Artboards /\ \A k \in Machines : k = m => In[k] = a
  BY MachineInIs
<1>2. w.reports[m] \in Seq(Events) /\ \A e \in ToSet(w.reports[m]) : e.of = In[m]
  BY WorkIsTyped, ReportsAreOwn DEF Typed
<1>3. s \in Works /\ s.told = w.reports[m] /\ s.reports = w.reports /\ s.owed = w.owed
  BY <1>2, TellsIs
<1> HIDE DEF s
<1>4. Fine(s, a, m, {})
  <2>1. ASSUME NEW l \in Ears
        PROVE  s.owed[l] = One(Waits(s, l, m)) + One(EventFor(l) \in ToSet(s.told) /\ l \notin {})
    <3>1. w.owed[l] = One(Waits(w, l, m)) + One(EventFor(l) \in ToSet(w.reports[m]))
      BY SplitWaits DEF Balanced
    <3>2. Waits(s, l, m) = Waits(w, l, m)
      BY <1>3, SameWaits
    <3>3. (EventFor(l) \in ToSet(s.told) /\ l \notin {}) = (EventFor(l) \in ToSet(w.reports[m]))
      BY <1>3
    <3> QED BY <1>3, <3>1, <3>2, <3>3
  <2> QED BY <1>2, <1>3, <2>1 DEF Fine
<1>5. Fine(t, a, m, P)
  <2>1. \A own \in {None} : Fine(Tell(s, m, own), In[m], m, Upto(m, Len(Listeners[m])))
    BY <1>4, OwnTell
  <2> QED BY <2>1
<1>6. \A l \in P : In[l[1]] = a
  BY DEF Upto
<1> HIDE DEF t, P
<1>7. PICK Q : /\ Fine(h, a, m, Q) /\ P \subseteq Q
               /\ \A l \in Ears : Listener(l).target = a /\ In[l[1]] # a => l \in Q
  <2> HIDE DEF a
  <2> QED BY <1>1, <1>5, <1>6, BubbleCounts
<1> HIDE DEF h
<1>8. ASSUME NEW l \in Ears PROVE h.owed[l] = One(Waits(h, l, m))
  <2>1. h.owed[l] = One(Waits(h, l, m)) + One(EventFor(l) \in ToSet(h.told) /\ l \notin Q)
    BY <1>7 DEF Fine
  <2>2. ~(EventFor(l) \in ToSet(h.told) /\ l \notin Q)
    <3> SUFFICES ASSUME EventFor(l) \in ToSet(h.told) PROVE l \in Q
      OBVIOUS
    <3>1. EventFor(l).of = a
      BY <1>7 DEF Fine
    <3>2. Listener(l).target = a
      BY <3>1 DEF EventFor, Event
    <3>3. CASE In[l[1]] = a
      <4>1. l \in P
        BY <3>3, OwnEars DEF P
      <4> QED BY <1>7, <4>1
    <3> QED BY <1>7, <3>2, <3>3
  <2>3. One(Waits(h, l, m)) \in Int
    BY DEF One
  <2> QED BY <2>1, <2>2, <2>3 DEF One
<1>9. h \in Works
  BY <1>7, FineIsTyped
<1> QED BY <1>8, <1>9 DEF h, t, s, HeardBy

(* And clears it. *)
Cleared(w, m) == [w EXCEPT !.reports[m] = <<>>, !.needs[m] = FALSE]

LEMMA ClearedIs ==
  ASSUME NEW w \in Works, NEW m \in Machines
  PROVE  LET u == Cleared(w, m) IN
         /\ u \in Works /\ u.reports = [w.reports EXCEPT ![m] = <<>>] /\ u.needs = [w.needs EXCEPT ![m] = FALSE]
         /\ u.value = w.value /\ u.dirty = w.dirty /\ u.state = w.state /\ u.told = w.told
         /\ u.updated = w.updated /\ u.owed = w.owed
<1> DEFINE u == Cleared(w, m)
           r == [w.reports EXCEPT ![m] = <<>>]
           n == [w.needs EXCEPT ![m] = FALSE]
<1>1. Typed(w) /\ Record(w)
  BY WorkIsTyped
<1>2. u = [w EXCEPT !.reports = r, !.needs = n]
  BY <1>1 DEF Cleared, Record
<1>3. n \in [Machines -> BOOLEAN]
  BY <1>1 DEF Typed
<1>4. r \in Reports
  <2>1. w.reports \in Reports
    BY <1>1 DEF Typed
  <2>2. \A k \in Machines : w.reports[k] \in Seq(Events) /\ w.reports[k] \in Seq(EventsOf(In[k]))
    BY <2>1, ReportsAreOwn
  <2>3. DOMAIN r = Machines /\ r = [k \in Machines |-> r[k]]
    BY <2>1 DEF Reports
  <2>4. \A k \in Machines : r[k] \in Seq(Events) /\ r[k] \in Seq(EventsOf(In[k]))
    <3> TAKE k \in Machines
    <3>1. r[k] = IF k = m THEN <<>> ELSE w.reports[k]
      BY <2>1 DEF Reports
    <3>2. \A S : <<>> \in Seq(S)
      OBVIOUS
    <3> QED BY <2>2, <3>1, <3>2
  <2> HIDE DEF r
  <2> QED BY <2>3, <2>4 DEF Reports
<1> HIDE DEF u, r, n
<1>5. /\ u.reports = r /\ u.owed = w.owed /\ u.value = w.value /\ u.dirty = w.dirty
      /\ u.needs = n
      /\ u.state = w.state /\ u.told = w.told /\ u.updated = w.updated /\ Record(u)
  BY <1>1, <1>2 DEF Record
<1>6. u \in Works
  <2>1. Typed(u)
    BY <1>1, <1>3, <1>4, <1>5 DEF Typed
  <2> QED BY <1>5, <2>1, TypedIsWork
<1> QED BY <1>5, <1>6 DEF u, r, n

LEMMA ClearedBalances ==
  ASSUME NEW w \in Works, NEW m \in Machines, \A l \in Ears : w.owed[l] = One(Waits(w, l, m))
  PROVE  Cleared(w, m) \in Works /\ Balanced(Cleared(w, m))
<1> DEFINE u == Cleared(w, m)
<1>1. u \in Works /\ u.reports = [w.reports EXCEPT ![m] = <<>>] /\ u.owed = w.owed
  BY ClearedIs
<1> HIDE DEF u
<1>2. \A k \in Machines : u.reports[k] = IF k = m THEN <<>> ELSE w.reports[k]
  BY <1>1, WorkIsTyped DEF Typed, Reports
<1>3. ToSet(<<>>) = {}
  BY DEF ToSet
<1>4. \A k \in Machines : k # None
  BY MachineInIs
<1>5. \A l \in Ears : Waits(u, l, None) = Waits(w, l, m)
  BY <1>2, <1>3, <1>4 DEF Waits
<1>6. Balanced(u)
  BY <1>1, <1>5 DEF Balanced
<1> QED BY <1>1, <1>6 DEF u

-----------------------------------------------------------------------------
(* A machine takes its transitions.                                        *)
LEMMA PoseOf ==
  ASSUME NEW a \in Artboards, NEW q \in ToSet(Animations[a]) \cup ToSet(Joysticks[a]), NEW at \in DOMAIN Pose[q]
  PROVE  IsPose(Pose[q][at]) /\ DOMAIN Pose[q][at] \subseteq PropertiesOf(a)
  BY PropertyAssumption

LEMMA MachinePose ==
  ASSUME NEW m \in Machines, NEW at \in States(m)
  PROVE  IsPose(Pose[m][at]) /\ DOMAIN Pose[m][at] \subseteq PropertiesOf(In[m])
<1>1. m \in Animation
  BY MachineInIs
<1>2. In[m] \in Artboards /\ m \in ToSet(Animations[In[m]])
  BY <1>1, InIs
<1> QED BY <1>2, PoseOf DEF States

LEMMA StateOf ==
  ASSUME NEW w \in Works, NEW m \in Machines
  PROVE  w.state[m] \in States(m)
  BY WorkIsTyped DEF Typed, StatesNow

LEMMA FirstOpen ==
  ASSUME NEW w, NEW m \in Machines, Open(w, m) # {}
  PROVE  /\ Min(Open(w, m)) \in Open(w, m)
         /\ Arcs[m][Min(Open(w, m))].to \in States(m)
<1>1. /\ DOMAIN Arcs[m] = 1 .. Len(Arcs[m]) /\ Len(Arcs[m]) \in Nat
      /\ \A i \in DOMAIN Arcs[m] : Arcs[m][i].to \in States(m)
  BY MachineAssumption
<1>2. Open(w, m) \subseteq DOMAIN Arcs[m] /\ Open(w, m) \subseteq Nat
  BY <1>1 DEF Open
<1>3. \E x \in Open(w, m) : \A y \in Open(w, m) : x <= y
  BY <1>2, LeastOf
<1>4. Min(Open(w, m)) \in Open(w, m)
  BY <1>3 DEF Min
<1> QED BY <1>1, <1>2, <1>4

(* Where it goes, the events it fires on the way, and what it is then. *)
Goal(w, m) == Arcs[m][Min(Open(w, m))].to
Fired(w, m) == Report(w, m, Fires[m][Goal(w, m)])
Arrived(w, m) == [Fired(w, m) EXCEPT !.state[m] = Goal(w, m)]

LEMMA ArrivedIs ==
  ASSUME NEW w \in Works, NEW m \in Machines, Open(w, m) # {}
  PROVE  LET f == Fired(w, m)
             u == Arrived(w, m)
         IN
         /\ f \in Works /\ u \in Works /\ (Balanced(w) => Balanced(u))
         /\ u.state = [w.state EXCEPT ![m] = Goal(w, m)]
         /\ u.value = w.value /\ u.dirty = w.dirty /\ u.needs = w.needs /\ u.told = w.told
<1> DEFINE f == Fired(w, m)
           u == Arrived(w, m)
           to == Goal(w, m)
           s == [w.state EXCEPT ![m] = to]
<1>1. to \in States(m)
  BY FirstOpen DEF Goal
<1>2. Fires[m][to] \in Seq(Ids)
  BY <1>1, MachineAssumption
<1>3. /\ f \in Works /\ f.state = w.state /\ (Balanced(w) => Balanced(f))
      /\ f.value = w.value /\ f.dirty = w.dirty /\ f.needs = w.needs /\ f.told = w.told
  <2>1. f = Report(w, m, Fires[m][to])
    BY DEF Fired
  <2> HIDE DEF f, to
  <2> QED BY <1>2, <2>1, ReportIs, ReportBalances
<1>4. s \in StatesNow
  <2>1. w.state \in StatesNow
    BY WorkIsTyped DEF Typed
  <2>2. \A k \in Machines : s[k] = IF k = m THEN to ELSE w.state[k]
    BY <2>1 DEF StatesNow
  <2>3. \A k \in Machines : s[k] \in States(k)
    BY <1>1, <2>1, <2>2 DEF StatesNow
  <2>4. s = [k \in Machines |-> s[k]]
    BY <2>1 DEF StatesNow
  <2> HIDE DEF s
  <2>5. \A k \in Machines : s[k] \in AllStates
    BY <2>3 DEF AllStates
  <2> QED BY <2>3, <2>4, <2>5 DEF StatesNow
<1>5. Typed(f) /\ Record(f)
  BY <1>3, WorkIsTyped
<1>6. u = [f EXCEPT !.state = s]
  BY <1>3 DEF Arrived
<1> HIDE DEF u, f, s, to
<1>7. /\ u.reports = f.reports /\ u.owed = f.owed /\ u.value = f.value /\ u.dirty = f.dirty
      /\ u.needs = f.needs
      /\ u.state = s /\ u.told = f.told /\ u.updated = f.updated /\ Record(u)
  BY <1>5, <1>6 DEF Record
<1>8. u \in Works
  <2>1. Typed(u)
    BY <1>4, <1>5, <1>7 DEF Typed
  <2> QED BY <1>7, <2>1, TypedIsWork
<1>9. Balanced(f) => Balanced(u)
  BY <1>7 DEF Balanced, Waits
<1> QED BY <1>3, <1>7, <1>8, <1>9 DEF u, f, s, to

LEMMA MovedIs ==
  ASSUME NEW w \in Works, NEW m \in Machines, Open(w, m) # {}
  PROVE  /\ Moved(w, m) = Apply(Arrived(w, m), Pose[m][Goal(w, m)])
         /\ Goal(w, m) \in States(m) /\ IsPose(Pose[m][Goal(w, m)])
         /\ Moved(w, m) \in Works /\ (Balanced(w) => Balanced(Moved(w, m)))
<1>1. Moved(w, m) = Apply(Arrived(w, m), Pose[m][Goal(w, m)])
  BY DEF Moved, Arrived, Fired, Goal
<1>2. Goal(w, m) \in States(m)
  BY FirstOpen DEF Goal
<1>3. IsPose(Pose[m][Goal(w, m)])
  BY <1>2, MachinePose
<1>4. Arrived(w, m) \in Works /\ (Balanced(w) => Balanced(Arrived(w, m)))
  BY ArrivedIs
<1>5. Apply(Arrived(w, m), Pose[m][Goal(w, m)]) \in Works
  BY <1>3, <1>4, ApplyIs
<1>6. Balanced(Arrived(w, m)) => Balanced(Apply(Arrived(w, m), Pose[m][Goal(w, m)]))
  BY <1>3, <1>4, ApplyBalances
<1> QED BY <1>1, <1>2, <1>3, <1>4, <1>5, <1>6

LEMMA ChangeIs ==
  ASSUME NEW w \in Works, NEW m \in Machines
  PROVE  Change(w, m) \in Works /\ (Balanced(w) => Balanced(Change(w, m)))
  BY MovedIs DEF Change

LEMMA PosedIs ==
  ASSUME NEW w \in Works, NEW m \in Machines
  PROVE  /\ Apply(w, Pose[m][w.state[m]]) \in Works
         /\ Balanced(w) => Balanced(Apply(w, Pose[m][w.state[m]]))
  BY StateOf, MachinePose, ApplyIs, ApplyBalances

(* It is defined, one transition after another. *)
LEMMA LayerIs ==
  ASSUME NEW w \in Works, NEW m \in Machines
  PROVE  \E f \in [0 .. Len(Arcs[m]) -> Works] :
           /\ f[0] = Apply(w, Pose[m][w.state[m]]) /\ Layer(w, m) = f[Len(Arcs[m])]
           /\ \A i \in 1 .. Len(Arcs[m]) : f[i] = Change(f[i - 1], m)
<1> DEFINE End == Len(Arcs[m])
           start == Apply(w, Pose[m][w.state[m]])
           Go(v, i) == Change(v, m)
           Step == [q \in Works \X (1 .. End) |-> Go(q[1], q[2])]
           Is(f) == f = [i \in 0 .. End |-> IF i = 0 THEN start ELSE Go(f[i - 1], i)]
           G == CHOOSE f : Is(f)
<1>1. Layer(w, m) = G[End]
  BY DEF Layer
<1>2. End \in Nat
  BY MachineAssumption
<1>3. ASSUME NEW v \in Works, NEW i \in 1 .. End PROVE Go(v, i) \in Works
  BY ChangeIs
<1>4. start \in Works
  BY PosedIs
<1> HIDE DEF Go, End, G, start
<1>5. Step \in StepsOf(Works, End)
  BY <1>3 DEF StepsOf
<1> HIDE DEF Step
<1>6. PICK f : CountsUp(f, End, Works, start, Step)
  BY <1>2, <1>4, <1>5, CountingDefines
<1>7. /\ f \in [0 .. End -> Works] /\ f[0] = start
      /\ \A i \in 1 .. End : f[i] = Step[<<f[i - 1], i>>]
  BY <1>6 DEF CountsUp
<1>8. ASSUME NEW i \in 1 .. End PROVE f[i] = Go(f[i - 1], i)
  <2>1. f[i - 1] \in Works
    BY <1>2, <1>7
  <2>2. Step[<<f[i - 1], i>>] = Go(f[i - 1], i)
    BY <2>1 DEF Step
  <2> QED BY <1>7, <2>2
<1>9. Is(f)
  <2>1. f = [i \in 0 .. End |-> f[i]]
    BY <1>7
  <2>2. \A i \in 0 .. End : f[i] = IF i = 0 THEN start ELSE Go(f[i - 1], i)
    <3> TAKE i \in 0 .. End
    <3>1. i = 0 \/ (i \in 1 .. End /\ i # 0)
      BY <1>2
    <3> QED BY <1>7, <1>8, <3>1
  <2> QED BY <2>1, <2>2, Zenon
<1>10. Is(G)
  <2> HIDE DEF Is
  <2> QED BY <1>9 DEF G
<1>11. G = [i \in 0 .. End |-> G[i]] /\ G[0] = start /\ \A i \in 1 .. End : G[i] = Go(G[i - 1], i)
  <2>1. /\ G = [i \in 0 .. End |-> G[i]]
        /\ \A i \in 0 .. End : G[i] = IF i = 0 THEN start ELSE Go(G[i - 1], i)
    BY <1>10
  <2>2. 0 \in 0 .. End /\ \A i \in 1 .. End : i \in 0 .. End /\ i # 0
    BY <1>2
  <2> HIDE DEF Is
  <2> QED BY <2>1, <2>2
<1> HIDE DEF Is
<1> DEFINE M == {i \in 0 .. End : G[i] \in Works}
<1>12. 0 .. End \subseteq M
  <2>1. 0 \in M
    BY <1>2, <1>4, <1>11
  <2>2. ASSUME NEW i \in 0 .. End - 1, i \in M PROVE i + 1 \in M
    <3>1. i + 1 \in 1 .. End /\ i + 1 \in 0 .. End /\ (i + 1) - 1 = i
      BY <1>2
    <3>2. G[i + 1] = Go(G[i], i + 1)
      BY <1>11, <3>1
    <3> QED BY <1>3, <2>2, <3>1, <3>2
  <2> HIDE DEF M
  <2> QED BY <1>2, <2>1, <2>2, BoundedInduction
<1>13. G \in [0 .. End -> Works]
  BY <1>11, <1>12
<1> QED BY <1>1, <1>11, <1>13 DEF Go, End, start

LEMMA LayerBalances ==
  ASSUME NEW w \in Works, NEW m \in Machines, Balanced(w)
  PROVE  Layer(w, m) \in Works /\ Balanced(Layer(w, m))
<1> DEFINE End == Len(Arcs[m])
<1>1. PICK f \in [0 .. End -> Works] :
        /\ f[0] = Apply(w, Pose[m][w.state[m]]) /\ Layer(w, m) = f[End]
        /\ \A i \in 1 .. End : f[i] = Change(f[i - 1], m)
  BY LayerIs
<1>2. End \in Nat
  BY MachineAssumption
<1> DEFINE M == {i \in 0 .. End : Balanced(f[i])}
<1>3. 0 \in M
  BY <1>1, <1>2, PosedIs
<1>4. ASSUME NEW j \in 0 .. End - 1, j \in M PROVE j + 1 \in M
  <2>1. j + 1 \in 1 .. End /\ j + 1 \in 0 .. End /\ (j + 1) - 1 = j /\ j \in 0 .. End
    BY <1>2
  <2>2. f[j + 1] = Change(f[j], m) /\ f[j] \in Works /\ Balanced(f[j])
    BY <1>1, <1>4, <2>1
  <2> HIDE DEF End
  <2> QED BY <2>1, <2>2, ChangeIs
<1>5. 0 .. End \subseteq M
  <2> HIDE DEF M, End
  <2> QED BY <1>2, <1>3, <1>4, BoundedInduction
<1>6. End \in 0 .. End
  BY <1>2
<1>7. f[End] \in Works /\ Balanced(f[End])
  BY <1>5, <1>6
<1> QED BY <1>1, <1>7

(* And whether it goes on. *)
Asks(w, m, goes) == [w EXCEPT !.needs[m] = goes]

LEMMA AsksIs ==
  ASSUME NEW w \in Works, NEW m \in Machines, NEW goes \in BOOLEAN
  PROVE  LET u == Asks(w, m, goes) IN
         /\ u \in Works /\ u.needs = [w.needs EXCEPT ![m] = goes]
         /\ u.value = w.value /\ u.dirty = w.dirty /\ u.state = w.state /\ u.told = w.told
         /\ u.reports = w.reports /\ u.updated = w.updated /\ u.owed = w.owed
<1> DEFINE u == Asks(w, m, goes)
           n == [w.needs EXCEPT ![m] = goes]
<1>1. Typed(w) /\ Record(w)
  BY WorkIsTyped
<1>2. u = [w EXCEPT !.needs = n]
  BY DEF Asks
<1>3. n \in [Machines -> BOOLEAN]
  BY <1>1 DEF Typed
<1> HIDE DEF u, n
<1>4. /\ u.reports = w.reports /\ u.owed = w.owed /\ u.value = w.value /\ u.dirty = w.dirty
      /\ u.needs = n
      /\ u.state = w.state /\ u.told = w.told /\ u.updated = w.updated /\ Record(u)
  BY <1>1, <1>2 DEF Record
<1>5. u \in Works
  <2>1. Typed(u)
    BY <1>1, <1>3, <1>4 DEF Typed
  <2> QED BY <1>4, <2>1, TypedIsWork
<1> QED BY <1>4, <1>5 DEF u, n

LEMMA SameBalance ==
  ASSUME NEW w, NEW u, u.owed = w.owed, u.reports = w.reports, Balanced(w)
  PROVE  Balanced(u)
  BY DEF Balanced, Waits

-----------------------------------------------------------------------------
(* What an event keyed in a simple animation is told to.                   *)
Keys(w, s, id) ==
  [w EXCEPT !.told = <<Event(In[s], id)>>,
            !.owed = [l \in DOMAIN @ |-> IF IsFor(l, Event(In[s], id)) THEN @[l] + 1 ELSE @[l]]]

LEMMA KeysIs ==
  ASSUME NEW w \in Works, NEW s \in Simples, NEW id \in Ids
  PROVE  LET u == Keys(w, s, id)
             e == Event(In[s], id)
         IN
         /\ u \in Works /\ u.told = <<e>> /\ e.of = In[s] /\ In[s] \in Artboards
         /\ \A l \in Ears : u.owed[l] = w.owed[l] + One(EventFor(l) = e)
         /\ u.value = w.value /\ u.dirty = w.dirty /\ u.needs = w.needs /\ u.state = w.state
         /\ u.reports = w.reports /\ u.updated = w.updated
<1> DEFINE u == Keys(w, s, id)
           e == Event(In[s], id)
           t == <<e>>
           o == [l \in DOMAIN w.owed |-> IF IsFor(l, e) THEN w.owed[l] + 1 ELSE w.owed[l]]
<1>1. Typed(w) /\ Record(w)
  BY WorkIsTyped
<1>2. In[s] \in Artboards
  BY InIs DEF Simples
<1>3. e \in Events /\ e.of = In[s]
  BY <1>2, EventIs
<1>4. u = [w EXCEPT !.told = t, !.owed = o]
  BY <1>1 DEF Keys, Record
<1> HIDE DEF e
<1>5. o \in [Ears -> Int] /\ \A l \in Ears : o[l] = w.owed[l] + One(EventFor(l) = e)
  <2>1. w.owed \in [Ears -> Int]
    BY <1>1 DEF Typed
  <2>2. \A l \in Ears : IsFor(l, e) <=> EventFor(l) = e
    BY DEF IsFor, EventFor
  <2> QED BY <2>1, <2>2 DEF One
<1>6. t \in Seq(Events)
  BY <1>3
<1> HIDE DEF u, t, o
<1>7. /\ u.reports = w.reports /\ u.owed = o /\ u.value = w.value /\ u.dirty = w.dirty
      /\ u.needs = w.needs
      /\ u.state = w.state /\ u.told = t /\ u.updated = w.updated /\ Record(u)
  BY <1>1, <1>4 DEF Record
<1>8. u \in Works
  <2>1. Typed(u)
    BY <1>1, <1>5, <1>6, <1>7 DEF Typed
  <2> QED BY <1>7, <2>1, TypedIsWork
<1>9. u.told = <<e>>
  BY <1>7 DEF t
<1> QED BY <1>2, <1>3, <1>5, <1>7, <1>8, <1>9 DEF u, e

(* No machine beside a simple animation listens for an event keyed in it:   *)
(* the animation notifies only those above.                                 *)
NoneBesideSimples ==
  \A m \in Machines : \A s \in Simples : In[m] = In[s] =>
    \A i \in DOMAIN Listeners[m] : Listeners[m][i].target = In[m] =>
      \A f \in 1 .. Length[s] : Listeners[m][i].event \notin ToSet(Keyed[s][f])

LEMMA TellKeyedBalances ==
  ASSUME NoneBesideSimples, NEW w \in Works, Balanced(w), NEW s \in Simples, NEW f \in 1 .. Length[s],
         NEW id \in ToSet(Keyed[s][f]), id \in Ids
  PROVE  TellKeyed(w, s, id) \in Works /\ Balanced(TellKeyed(w, s, id))
<1> DEFINE a == In[s]
           e == Event(a, id)
           u == Keys(w, s, id)
           h == Bubble(u, a)
<1>1. TellKeyed(w, s, id) = h
  BY DEF TellKeyed, Keys
<1>2. /\ u \in Works /\ u.told = <<e>> /\ e.of = a /\ a \in Artboards /\ u.reports = w.reports
      /\ \A l \in Ears : u.owed[l] = w.owed[l] + One(EventFor(l) = e)
  BY KeysIs
<1>3. \A m \in Machines : m # None
  BY MachineInIs
<1> HIDE DEF u, e
<1>4. ToSet(u.told) = {e}
  BY <1>2 DEF ToSet
<1>5. Fine(u, a, None, {})
  <2>1. ASSUME NEW l \in Ears
        PROVE  u.owed[l] = One(Waits(u, l, None)) + One(EventFor(l) \in ToSet(u.told) /\ l \notin {})
    <3>1. (EventFor(l) \in ToSet(u.told) /\ l \notin {}) = (EventFor(l) = e)
      BY <1>4
    <3>2. w.owed[l] = One(Waits(w, l, None)) /\ Waits(u, l, None) = Waits(w, l, None)
      BY <1>2, SameWaits DEF Balanced
    <3> QED BY <1>2, <3>1, <3>2
  <2> QED BY <1>2, <1>3, <1>4, <2>1 DEF Fine
<1>6. /\ h.told = u.told
      /\ \E Q : /\ Fine(h, a, None, Q) /\ {} \subseteq Q
                /\ \A l \in Ears : Listener(l).target = a /\ In[l[1]] # a => l \in Q
  <2>1. PICK n : n = None
    OBVIOUS
  <2>2. \A m \in Machines : m = n => In[m] = a
    BY <1>3, <2>1
  <2>3. Fine(u, a, n, {})
    BY <1>5, <2>1
  <2>4. /\ h.told = u.told
        /\ \E Q : /\ Fine(h, a, n, Q) /\ {} \subseteq Q
                  /\ \A l \in Ears : Listener(l).target = a /\ In[l[1]] # a => l \in Q
    <3>1. \A l \in {} : In[l[1]] = a
      OBVIOUS
    <3> HIDE DEF a
    <3> QED BY <1>2, <2>2, <2>3, <3>1, BubbleCounts
  <2> QED BY <2>1, <2>4
<1> HIDE DEF h
<1>7. PICK Q : /\ Fine(h, a, None, Q)
               /\ \A l \in Ears : Listener(l).target = a /\ In[l[1]] # a => l \in Q
  BY <1>6
<1>8. ASSUME NEW l \in Ears PROVE h.owed[l] = One(Waits(h, l, None))
  <2>1. h.owed[l] = One(Waits(h, l, None)) + One(EventFor(l) \in ToSet(h.told) /\ l \notin Q)
    BY <1>7 DEF Fine
  <2>2. ~(EventFor(l) \in ToSet(h.told) /\ l \notin Q)
    <3> SUFFICES ASSUME EventFor(l) \in ToSet(h.told) PROVE l \in Q
      OBVIOUS
    <3>1. EventFor(l) = e
      BY <1>4, <1>6
    <3>2. Listener(l).target = a /\ Listener(l).event = id
      BY <3>1 DEF EventFor, Event, e
    <3>3. In[l[1]] # a
      <4> SUFFICES ASSUME In[l[1]] = a PROVE FALSE
        OBVIOUS
      <4>1. l[1] \in Machines /\ l[2] \in DOMAIN Listeners[l[1]]
        BY EarIs
      <4>2. Listeners[l[1]][l[2]].target = In[l[1]] /\ Listeners[l[1]][l[2]].event = id
        BY <3>2 DEF Listener
      <4> QED BY <4>1, <4>2 DEF NoneBesideSimples
    <3> QED BY <1>7, <3>2, <3>3
  <2>3. One(Waits(h, l, None)) \in Int
    BY DEF One
  <2> QED BY <2>1, <2>2, <2>3 DEF One
<1>9. h \in Works
  BY <1>7, FineIsTyped
<1> QED BY <1>1, <1>8, <1>9 DEF Balanced

LEMMA BubbleTyped ==
  ASSUME NEW w \in Works, NEW a \in Artboards
  PROVE  Bubble(w, a) \in Works
<1>1. PICK f \in [0 .. Len(Path[a]) - 1 -> Works] : Bubble(w, a) = f[Len(Path[a]) - 1]
  BY BubbleIs
<1>2. Len(Path[a]) - 1 \in 0 .. Len(Path[a]) - 1
  BY BubblesIs
<1> QED BY <1>1, <1>2

LEMMA TellKeyedIs ==
  ASSUME NEW w \in Works, NEW s \in Simples, NEW id \in Ids
  PROVE  TellKeyed(w, s, id) = Bubble(Keys(w, s, id), In[s]) /\ TellKeyed(w, s, id) \in Works
<1>1. TellKeyed(w, s, id) = Bubble(Keys(w, s, id), In[s])
  BY DEF TellKeyed, Keys
<1>2. Keys(w, s, id) \in Works /\ In[s] \in Artboards
  BY KeysIs
<1> QED BY <1>1, <1>2, BubbleTyped

(* It is defined, one event after another. *)
LEMMA TellAllKeyedIs ==
  ASSUME NEW w \in Works, NEW s \in Simples, NEW ids \in Seq(Ids)
  PROVE  \E f \in [0 .. Len(ids) -> Works] :
           /\ f[0] = w /\ TellAllKeyed(w, s, ids) = f[Len(ids)]
           /\ \A i \in 1 .. Len(ids) : f[i] = TellKeyed(f[i - 1], s, ids[i])
<1> DEFINE End == Len(ids)
           start == w
           Go(v, i) == TellKeyed(v, s, ids[i])
           Step == [q \in Works \X (1 .. End) |-> Go(q[1], q[2])]
           Is(f) == f = [i \in 0 .. End |-> IF i = 0 THEN start ELSE Go(f[i - 1], i)]
           G == CHOOSE f : Is(f)
<1>1. TellAllKeyed(w, s, ids) = G[End]
  BY DEF TellAllKeyed
<1>2. End \in Nat
  OBVIOUS
<1>3. ASSUME NEW v \in Works, NEW i \in 1 .. End PROVE Go(v, i) \in Works
  BY TellKeyedIs
<1>4. start \in Works
  OBVIOUS
<1> HIDE DEF Go, End, G, start
<1>5. Step \in StepsOf(Works, End)
  BY <1>3 DEF StepsOf
<1> HIDE DEF Step
<1>6. PICK f : CountsUp(f, End, Works, start, Step)
  BY <1>2, <1>4, <1>5, CountingDefines
<1>7. /\ f \in [0 .. End -> Works] /\ f[0] = start
      /\ \A i \in 1 .. End : f[i] = Step[<<f[i - 1], i>>]
  BY <1>6 DEF CountsUp
<1>8. ASSUME NEW i \in 1 .. End PROVE f[i] = Go(f[i - 1], i)
  <2>1. f[i - 1] \in Works
    BY <1>2, <1>7
  <2>2. Step[<<f[i - 1], i>>] = Go(f[i - 1], i)
    BY <2>1 DEF Step
  <2> QED BY <1>7, <2>2
<1>9. Is(f)
  <2>1. f = [i \in 0 .. End |-> f[i]]
    BY <1>7
  <2>2. \A i \in 0 .. End : f[i] = IF i = 0 THEN start ELSE Go(f[i - 1], i)
    <3> TAKE i \in 0 .. End
    <3>1. i = 0 \/ (i \in 1 .. End /\ i # 0)
      BY <1>2
    <3> QED BY <1>7, <1>8, <3>1
  <2> QED BY <2>1, <2>2, Zenon
<1>10. Is(G)
  <2> HIDE DEF Is
  <2> QED BY <1>9 DEF G
<1>11. G = [i \in 0 .. End |-> G[i]] /\ G[0] = start /\ \A i \in 1 .. End : G[i] = Go(G[i - 1], i)
  <2>1. /\ G = [i \in 0 .. End |-> G[i]]
        /\ \A i \in 0 .. End : G[i] = IF i = 0 THEN start ELSE Go(G[i - 1], i)
    BY <1>10
  <2>2. 0 \in 0 .. End /\ \A i \in 1 .. End : i \in 0 .. End /\ i # 0
    BY <1>2
  <2> HIDE DEF Is
  <2> QED BY <2>1, <2>2
<1> HIDE DEF Is
<1> DEFINE M == {i \in 0 .. End : G[i] \in Works}
<1>12. 0 .. End \subseteq M
  <2>1. 0 \in M
    BY <1>2, <1>4, <1>11
  <2>2. ASSUME NEW i \in 0 .. End - 1, i \in M PROVE i + 1 \in M
    <3>1. i + 1 \in 1 .. End /\ i + 1 \in 0 .. End /\ (i + 1) - 1 = i
      BY <1>2
    <3>2. G[i + 1] = Go(G[i], i + 1)
      BY <1>11, <3>1
    <3> QED BY <1>3, <2>2, <3>1, <3>2
  <2> HIDE DEF M
  <2> QED BY <1>2, <2>1, <2>2, BoundedInduction
<1>13. G \in [0 .. End -> Works]
  BY <1>11, <1>12
<1> QED BY <1>1, <1>11, <1>13 DEF Go, End, start

LEMMA TellAllKeyedBalances ==
  ASSUME NoneBesideSimples, NEW w \in Works, Balanced(w), NEW s \in Simples, NEW g \in 1 .. Length[s]
  PROVE  TellAllKeyed(w, s, Keyed[s][g]) \in Works /\ Balanced(TellAllKeyed(w, s, Keyed[s][g]))
<1> DEFINE ids == Keyed[s][g]
           End == Len(ids)
<1>1. ids \in Seq(Ids)
  BY MachineAssumption
<1>2. PICK f \in [0 .. End -> Works] :
        /\ f[0] = w /\ TellAllKeyed(w, s, ids) = f[End]
        /\ \A i \in 1 .. End : f[i] = TellKeyed(f[i - 1], s, ids[i])
  <2> HIDE DEF ids
  <2> QED BY <1>1, TellAllKeyedIs
<1>3. End \in Nat /\ \A i \in 1 .. End : ids[i] \in Ids /\ ids[i] \in ToSet(ids)
  <2> HIDE DEF ids
  <2> QED BY <1>1 DEF ToSet
<1> DEFINE M == {i \in 0 .. End : Balanced(f[i])}
<1>4. 0 \in M
  BY <1>2, <1>3
<1>5. ASSUME NEW j \in 0 .. End - 1, j \in M PROVE j + 1 \in M
  <2>1. j + 1 \in 1 .. End /\ j + 1 \in 0 .. End /\ (j + 1) - 1 = j /\ j \in 0 .. End
    BY <1>3
  <2>2. f[j + 1] = TellKeyed(f[j], s, ids[j + 1]) /\ f[j] \in Works /\ Balanced(f[j])
    BY <1>2, <1>5, <2>1
  <2>3. ids[j + 1] \in Ids /\ ids[j + 1] \in ToSet(Keyed[s][g])
    BY <1>3, <2>1
  <2> HIDE DEF End, ids
  <2> QED BY <2>1, <2>2, <2>3, TellKeyedBalances
<1>6. 0 .. End \subseteq M
  <2> HIDE DEF M, End
  <2> QED BY <1>3, <1>4, <1>5, BoundedInduction
<1>7. End \in 0 .. End
  BY <1>3
<1>8. f[End] \in Works /\ Balanced(f[End])
  BY <1>6, <1>7
<1> QED BY <1>2, <1>8

-----------------------------------------------------------------------------
(* Joysticks and updates.                                                  *)
LEMMA StickIs ==
  ASSUME NEW a \in Artboards, NEW j \in ToSet(Joysticks[a])
  PROVE  /\ <<"x", j>> \in Properties /\ Takes(<<"x", j>>) = DOMAIN Pose[j]
         /\ j \in Handled => <<"node", a>> \in Properties
  BY PropertyAssumption DEF Takes

LEMMA ValueTakes ==
  ASSUME NEW w \in Works, NEW p \in Properties
  PROVE  w.value[p] \in Takes(p)
  BY WorkIsTyped DEF Typed, Values

LEMMA ApplyJoystickIs ==
  ASSUME NEW w \in Works, NEW a \in Artboards, NEW j \in ToSet(Joysticks[a])
  PROVE  /\ w.value[<<"x", j>>] \in DOMAIN Pose[j] /\ IsPose(Pose[j][w.value[<<"x", j>>]])
         /\ DOMAIN Pose[j][w.value[<<"x", j>>]] \subseteq PropertiesOf(a)
         /\ ApplyJoystick(w, j) = Apply(w, Pose[j][w.value[<<"x", j>>]])
         /\ ApplyJoystick(w, j) \in Works
         /\ Balanced(w) => Balanced(ApplyJoystick(w, j))
<1> DEFINE x == w.value[<<"x", j>>]
<1>1. x \in DOMAIN Pose[j]
  BY StickIs, ValueTakes
<1> HIDE DEF x
<1>2. IsPose(Pose[j][x]) /\ DOMAIN Pose[j][x] \subseteq PropertiesOf(a)
  BY <1>1, PoseOf
<1>3. Apply(w, Pose[j][x]) \in Works /\ (Balanced(w) => Balanced(Apply(w, Pose[j][x])))
  BY <1>2, ApplyIs, ApplyBalances
<1> QED BY <1>1, <1>2, <1>3 DEF x, ApplyJoystick

(* What an update sets: joysticks with a handle, and opacities. *)
Sticks(a) == {<<"x", j>> : j \in ToSet(Joysticks[a]) \cap Handled}
Lit(w, a) == {<<"opacity", n>> : n \in {n \in ToSet(Nested[a]) : ~Collapsed(w, n)}}

LEMMA UpdatesIs ==
  ASSUME NEW w \in Works, NEW a \in Artboards
  PROVE  /\ DOMAIN Updates(w, a) = Sticks(a) \cup Lit(w, a)
         /\ \A j \in ToSet(Joysticks[a]) \cap Handled :
              <<"x", j>> \in DOMAIN Updates(w, a) /\ Updates(w, a)[<<"x", j>>] = w.value[<<"node", a>>]
         /\ \A n \in ToSet(Nested[a]) : ~Collapsed(w, n) =>
              <<"opacity", n>> \in DOMAIN Updates(w, a) /\ Updates(w, a)[<<"opacity", n>>] = Rendered(w, n)
         /\ IsPose(Updates(w, a))
<1>1. DOMAIN Updates(w, a) = Sticks(a) \cup Lit(w, a)
  BY DEF Updates, Sticks, Lit
<1>2. ASSUME NEW j \in ToSet(Joysticks[a]) \cap Handled
      PROVE  /\ <<"x", j>> \in DOMAIN Updates(w, a) /\ Updates(w, a)[<<"x", j>>] = w.value[<<"node", a>>]
             /\ <<"x", j>> \in Properties /\ w.value[<<"node", a>>] \in Takes(<<"x", j>>)
  <2>1. <<"x", j>> \in DOMAIN Updates(w, a) /\ <<"x", j>>[1] = "x"
    BY <1>1 DEF Sticks
  <2>2. Updates(w, a)[<<"x", j>>] = w.value[<<"node", a>>]
    BY <2>1 DEF Updates
  <2>3. <<"x", j>> \in Properties /\ Takes(<<"x", j>>) = DOMAIN Pose[j] /\ <<"node", a>> \in Properties
    BY StickIs
  <2>4. w.value[<<"node", a>>] \in Takes(<<"node", a>>)
    BY <2>3, ValueTakes
  <2>5. Takes(<<"node", a>>) = {v \in Nat : \A k \in ToSet(Joysticks[a]) \cap Handled : v \in DOMAIN Pose[k]}
    BY DEF Takes
  <2> QED BY <2>1, <2>2, <2>3, <2>4, <2>5
<1>3. ASSUME NEW n \in ToSet(Nested[a]), ~Collapsed(w, n)
      PROVE  /\ <<"opacity", n>> \in DOMAIN Updates(w, a) /\ Updates(w, a)[<<"opacity", n>>] = Rendered(w, n)
             /\ <<"opacity", n>> \in Properties /\ Rendered(w, n) \in Takes(<<"opacity", n>>)
  <2>1. <<"opacity", n>> \in DOMAIN Updates(w, a) /\ <<"opacity", n>>[1] = "opacity" /\ <<"opacity", n>>[2] = n
    BY <1>1, <1>3 DEF Lit
  <2>2. Updates(w, a)[<<"opacity", n>>] = Rendered(w, n)
    BY <2>1 DEF Updates
  <2>3. n \in Artboards /\ n # Root /\ Host(n) = a
    BY HostIs
  <2>4. <<"opacity", n>> \in Properties /\ <<"alpha", n>> \in Properties /\ <<"opacity", a>> \in Properties
    BY <2>3, PropertyAssumption
  <2>5. \A m : Takes(<<"opacity", m>>) = Nat /\ Takes(<<"alpha", m>>) = Nat
    BY DEF Takes
  <2>6. w.value[<<"alpha", n>>] \in Nat /\ w.value[<<"opacity", a>>] \in Nat
    BY <2>4, <2>5, ValueTakes
  <2>7. Rendered(w, n) \in Nat
    BY <2>3, <2>6 DEF Rendered
  <2> QED BY <2>1, <2>2, <2>4, <2>5, <2>7
<1>4. IsPose(Updates(w, a))
  <2>1. ASSUME NEW p \in DOMAIN Updates(w, a)
        PROVE  p \in Properties /\ Updates(w, a)[p] \in Takes(p)
    <3>1. p \in Sticks(a) \/ p \in Lit(w, a)
      BY <1>1
    <3>2. CASE p \in Sticks(a)
      <4>1. PICK j \in ToSet(Joysticks[a]) \cap Handled : p = <<"x", j>>
        BY <3>2 DEF Sticks
      <4> QED BY <1>2, <4>1
    <3>3. CASE p \in Lit(w, a)
      <4>1. PICK n \in ToSet(Nested[a]) : ~Collapsed(w, n) /\ p = <<"opacity", n>>
        BY <3>3 DEF Lit
      <4> QED BY <1>3, <4>1
    <3> QED BY <3>1, <3>2, <3>3
  <2> QED BY <2>1 DEF IsPose
<1> QED BY <1>1, <1>2, <1>3, <1>4

(* Clean, for as long as nothing is set. *)
Swept(w, a) == [w EXCEPT !.dirty = @ \ {a}, !.updated = TRUE]

LEMMA SweptIs ==
  ASSUME NEW w \in Works, NEW a
  PROVE  LET u == Swept(w, a) IN
         /\ u \in Works /\ u.dirty = w.dirty \ {a} /\ u.updated = TRUE
         /\ u.value = w.value /\ u.needs = w.needs /\ u.state = w.state /\ u.told = w.told
         /\ u.reports = w.reports /\ u.owed = w.owed
<1> DEFINE u == Swept(w, a)
           d == w.dirty \ {a}
<1>1. Typed(w) /\ Record(w)
  BY WorkIsTyped
<1>2. u = [w EXCEPT !.dirty = d, !.updated = TRUE]
  BY DEF Swept
<1>3. d \in SUBSET Artboards
  BY <1>1 DEF Typed
<1> HIDE DEF u, d
<1>4. /\ u.reports = w.reports /\ u.owed = w.owed /\ u.value = w.value /\ u.dirty = d
      /\ u.needs = w.needs
      /\ u.state = w.state /\ u.told = w.told /\ u.updated = TRUE /\ Record(u)
  BY <1>1, <1>2 DEF Record
<1>5. u \in Works
  <2>1. Typed(u)
    BY <1>1, <1>3, <1>4 DEF Typed
  <2> QED BY <1>4, <2>1, TypedIsWork
<1> QED BY <1>4, <1>5 DEF u, d

LEMMA UpdateIs ==
  ASSUME NEW w \in Works, NEW a \in Artboards
  PROVE  /\ a \in w.dirty => Update(w, a) = Apply(Swept(w, a), Updates(w, a))
         /\ a \notin w.dirty => Update(w, a) = w
         /\ Update(w, a) \in Works /\ (Balanced(w) => Balanced(Update(w, a)))
<1>1. CASE a \notin w.dirty
  BY <1>1 DEF Update
<1>2. CASE a \in w.dirty
  <2> DEFINE s == Swept(w, a)
             pose == Updates(w, a)
  <2>1. Update(w, a) = Apply(s, pose)
    BY <1>2 DEF Update, Swept
  <2>2. s \in Works /\ s.owed = w.owed /\ s.reports = w.reports
    BY SweptIs
  <2>3. IsPose(pose)
    BY UpdatesIs
  <2> HIDE DEF s, pose
  <2>4. Apply(s, pose) \in Works /\ (Balanced(s) => Balanced(Apply(s, pose)))
    BY <2>2, <2>3, ApplyIs, ApplyBalances
  <2>5. Balanced(w) => Balanced(s)
    BY <2>2, SameBalance
  <2> QED BY <1>2, <2>1, <2>4, <2>5 DEF s, pose
<1> QED BY <1>1, <1>2

LEMMA PulledIs ==
  ASSUME NEW w \in Works, NEW a \in Artboards, NEW j \in ToSet(Joysticks[a])
  PROVE  Pulled(w, a, j) \in Works /\ (Balanced(w) => Balanced(Pulled(w, a, j)))
<1> DEFINE u == IF j \in Handled /\ ~AllApplyBefore(a) THEN Update(w, a) ELSE w
<1>1. u \in Works /\ (Balanced(w) => Balanced(u))
  BY UpdateIs
<1>2. Pulled(w, a, j) = ApplyJoystick(u, j)
  BY DEF Pulled
<1> HIDE DEF u
<1> QED BY <1>1, <1>2, ApplyJoystickIs

LEMMA SticksAre ==
  ASSUME NEW a \in Artboards
  PROVE  Len(Joysticks[a]) \in Nat /\ \A i \in 1 .. Len(Joysticks[a]) : Joysticks[a][i] \in ToSet(Joysticks[a])
<1>1. Joysticks[a] \in Seq(AllJoysticks)
  BY TreeAssumption
<1> QED BY <1>1 DEF ToSet

(* It is defined, one joystick after another. *)
LEMMA PullIs ==
  ASSUME NEW w \in Works, NEW a \in Artboards
  PROVE  \E f \in [0 .. Len(Joysticks[a]) -> Works] :
           /\ f[0] = w /\ Pull(w, a) = f[Len(Joysticks[a])]
           /\ \A i \in 1 .. Len(Joysticks[a]) : f[i] = Pulled(f[i - 1], a, Joysticks[a][i])
<1> DEFINE End == Len(Joysticks[a])
           start == w
           Go(v, i) == Pulled(v, a, Joysticks[a][i])
           Step == [q \in Works \X (1 .. End) |-> Go(q[1], q[2])]
           Is(f) == f = [i \in 0 .. End |-> IF i = 0 THEN start ELSE Go(f[i - 1], i)]
           G == CHOOSE f : Is(f)
<1>1. Pull(w, a) = G[End]
  BY DEF Pull
<1>2. End \in Nat
  BY SticksAre
<1>3. ASSUME NEW v \in Works, NEW i \in 1 .. End PROVE Go(v, i) \in Works
  BY SticksAre, PulledIs
<1>4. start \in Works
  OBVIOUS
<1> HIDE DEF Go, End, G, start
<1>5. Step \in StepsOf(Works, End)
  BY <1>3 DEF StepsOf
<1> HIDE DEF Step
<1>6. PICK f : CountsUp(f, End, Works, start, Step)
  BY <1>2, <1>4, <1>5, CountingDefines
<1>7. /\ f \in [0 .. End -> Works] /\ f[0] = start
      /\ \A i \in 1 .. End : f[i] = Step[<<f[i - 1], i>>]
  BY <1>6 DEF CountsUp
<1>8. ASSUME NEW i \in 1 .. End PROVE f[i] = Go(f[i - 1], i)
  <2>1. f[i - 1] \in Works
    BY <1>2, <1>7
  <2>2. Step[<<f[i - 1], i>>] = Go(f[i - 1], i)
    BY <2>1 DEF Step
  <2> QED BY <1>7, <2>2
<1>9. Is(f)
  <2>1. f = [i \in 0 .. End |-> f[i]]
    BY <1>7
  <2>2. \A i \in 0 .. End : f[i] = IF i = 0 THEN start ELSE Go(f[i - 1], i)
    <3> TAKE i \in 0 .. End
    <3>1. i = 0 \/ (i \in 1 .. End /\ i # 0)
      BY <1>2
    <3> QED BY <1>7, <1>8, <3>1
  <2> QED BY <2>1, <2>2, Zenon
<1>10. Is(G)
  <2> HIDE DEF Is
  <2> QED BY <1>9 DEF G
<1>11. G = [i \in 0 .. End |-> G[i]] /\ G[0] = start /\ \A i \in 1 .. End : G[i] = Go(G[i - 1], i)
  <2>1. /\ G = [i \in 0 .. End |-> G[i]]
        /\ \A i \in 0 .. End : G[i] = IF i = 0 THEN start ELSE Go(G[i - 1], i)
    BY <1>10
  <2>2. 0 \in 0 .. End /\ \A i \in 1 .. End : i \in 0 .. End /\ i # 0
    BY <1>2
  <2> HIDE DEF Is
  <2> QED BY <2>1, <2>2
<1> HIDE DEF Is
<1> DEFINE M == {i \in 0 .. End : G[i] \in Works}
<1>12. 0 .. End \subseteq M
  <2>1. 0 \in M
    BY <1>2, <1>4, <1>11
  <2>2. ASSUME NEW i \in 0 .. End - 1, i \in M PROVE i + 1 \in M
    <3>1. i + 1 \in 1 .. End /\ i + 1 \in 0 .. End /\ (i + 1) - 1 = i
      BY <1>2
    <3>2. G[i + 1] = Go(G[i], i + 1)
      BY <1>11, <3>1
    <3> QED BY <1>3, <2>2, <3>1, <3>2
  <2> HIDE DEF M
  <2> QED BY <1>2, <2>1, <2>2, BoundedInduction
<1>13. G \in [0 .. End -> Works]
  BY <1>11, <1>12
<1> QED BY <1>1, <1>11, <1>13 DEF Go, End, start

LEMMA PullBalances ==
  ASSUME NEW w \in Works, NEW a \in Artboards, Balanced(w)
  PROVE  Pull(w, a) \in Works /\ Balanced(Pull(w, a))
<1> DEFINE End == Len(Joysticks[a])
<1>1. PICK f \in [0 .. End -> Works] :
        /\ f[0] = w /\ Pull(w, a) = f[End]
        /\ \A i \in 1 .. End : f[i] = Pulled(f[i - 1], a, Joysticks[a][i])
  BY PullIs
<1>2. End \in Nat
  BY SticksAre
<1> DEFINE M == {i \in 0 .. End : Balanced(f[i])}
<1>3. 0 \in M
  BY <1>1, <1>2
<1>4. ASSUME NEW j \in 0 .. End - 1, j \in M PROVE j + 1 \in M
  <2>1. j + 1 \in 1 .. End /\ j + 1 \in 0 .. End /\ (j + 1) - 1 = j /\ j \in 0 .. End
    BY <1>2
  <2>2. f[j + 1] = Pulled(f[j], a, Joysticks[a][j + 1]) /\ f[j] \in Works /\ Balanced(f[j])
    BY <1>1, <1>4, <2>1
  <2>3. Joysticks[a][j + 1] \in ToSet(Joysticks[a])
    BY <2>1, SticksAre
  <2> HIDE DEF End
  <2> QED BY <2>1, <2>2, <2>3, PulledIs
<1>5. 0 .. End \subseteq M
  <2> HIDE DEF M, End
  <2> QED BY <1>2, <1>3, <1>4, BoundedInduction
<1>6. End \in 0 .. End
  BY <1>2
<1>7. f[End] \in Works /\ Balanced(f[End])
  BY <1>5, <1>6
<1> QED BY <1>1, <1>7

LEMMA JoysticksBalance ==
  ASSUME NEW w \in Works, NEW a \in Artboards, Balanced(w)
  PROVE  JoysticksAndUpdates(w, a) \in Works /\ Balanced(JoysticksAndUpdates(w, a))
<1> DEFINE s == IF AllApplyBefore(a) THEN w ELSE Update(w, a)
           t == Pull(s, a)
<1>1. s \in Works /\ Balanced(s)
  BY UpdateIs
<1>2. t \in Works /\ Balanced(t)
  <2> HIDE DEF s
  <2> QED BY <1>1, PullBalances
<1>3. JoysticksAndUpdates(w, a) = Update(t, a)
  BY DEF JoysticksAndUpdates
<1> HIDE DEF s, t
<1> QED BY <1>2, <1>3, UpdateIs

-----------------------------------------------------------------------------
(* Between the calls of a frame.                                           *)
LEMMA BecomesIs ==
  ASSUME NEW w \in Works, Becomes(w)
  PROVE  Now' \in Works /\ (Balanced(w) => Balanced(Now'))
<1>1. Typed(w)
  BY WorkIsTyped
<1>2. /\ value' = w.value /\ dirty' = w.dirty /\ needs' = w.needs /\ state' = w.state
      /\ reports' = w.reports /\ owed' = w.owed
  BY DEF Becomes
<1>3. <<>> \in Seq(Events)
  OBVIOUS
<1>4. Now' \in Works
  BY <1>1, <1>2, <1>3 DEF Now, Works, Typed
<1>5. Now'.owed = w.owed /\ Now'.reports = w.reports
  BY <1>2 DEF Now
<1>6. Balanced(w) => Balanced(Now')
  BY <1>5 DEF Balanced, Waits
<1> QED BY <1>4, <1>6

LEMMA NowIs ==
  /\ Now.value = value /\ Now.dirty = dirty /\ Now.needs = needs /\ Now.state = state
  /\ Now.reports = reports /\ Now.told = <<>> /\ Now.updated = FALSE /\ Now.owed = owed
  BY DEF Now

LEMMA NowStays ==
  ASSUME UNCHANGED <<value, dirty, needs, state, reports, owed>>
  PROVE  Now' = Now
  BY DEF Now

(* The time of a simple animation is on one of its frames. *)
InLength == time \in [Simples -> Nat] /\ \A s \in Simples : time[s] <= Length[s]

(* The inductive invariant. *)
HeardInv == Now \in Works /\ InLength /\ Balanced(Now)

LEMMA HeardInit == ASSUME FrameInit PROVE HeardInv
<1>1. value \in Values
  <2>1. IsPose(Begin) /\ Begin = [p \in Properties |-> Begin[p]]
    BY PropertyAssumption
  <2>2. \A p \in Properties : Begin[p] \in Takes(p)
    BY <2>1 DEF IsPose, Properties
  <2>3. \A p \in Properties : Begin[p] \in AllValues
    BY <2>2 DEF AllValues
  <2>4. Begin \in [Properties -> AllValues]
    <3>1. PICK b : b = Begin
      OBVIOUS
    <3>2. b = [p \in Properties |-> b[p]] /\ \A p \in Properties : b[p] \in AllValues
      BY <2>1, <2>3, <3>1
    <3>3. b \in [Properties -> AllValues]
      BY ONLY <3>2
    <3> QED BY <3>1, <3>3
  <2> QED BY <2>2, <2>4 DEF Values, FrameInit
<1>2. dirty \in SUBSET Artboards
  BY DEF FrameInit
<1>3. needs \in [Machines -> BOOLEAN]
  BY DEF FrameInit
<1>4. state \in StatesNow
  <2>1. Entry = [m \in Machines |-> Entry[m]] /\ \A m \in Machines : Entry[m] \in States(m)
    BY MachineAssumption
  <2>2. \A m \in Machines : Entry[m] \in AllStates
    BY <2>1 DEF AllStates
  <2>3. Entry \in [Machines -> AllStates]
    BY <2>1, <2>2
  <2> QED BY <2>1, <2>3 DEF StatesNow, FrameInit
<1>5. reports \in Reports /\ \A m \in Machines : reports[m] = <<>>
  <2>1. \A S : <<>> \in Seq(S)
    OBVIOUS
  <2>2. reports = [m \in Machines |-> <<>>]
    BY DEF FrameInit
  <2> QED BY <2>1, <2>2 DEF Reports
<1>6. owed \in [Ears -> Int] /\ \A l \in Ears : owed[l] = 0
  BY DEF FrameInit
<1>7. Now \in Works
  <2>1. <<>> \in Seq(Events)
    OBVIOUS
  <2> QED BY <1>1, <1>2, <1>3, <1>4, <1>5, <1>6, <2>1 DEF Now, Works
<1>8. InLength
  <2>1. time = [s \in Simples |-> 0] /\ \A s \in Simples : Length[s] \in Nat
    BY MachineAssumption DEF FrameInit
  <2> QED BY <2>1 DEF InLength
<1>9. Balanced(Now)
  <2>1. \A m \in Machines : ToSet(Now.reports[m]) = {}
    BY <1>5, NowIs DEF ToSet
  <2>2. \A l \in Ears : ~Waits(Now, l, None)
    BY <2>1 DEF Waits
  <2> QED BY <1>6, <2>2, NowIs DEF Balanced, One
<1> QED BY <1>7, <1>8, <1>9 DEF HeardInv

LEMMA MachineKeepsHeard ==
  ASSUME ReportsComeLater, HeardInv, AdvanceMachine
  PROVE  HeardInv'
<1>1. PICK m \in Machines :
        /\ LET after == Advanced(Heard(m), m)
               goes == after.state[m] \in Looping
           IN  Becomes([after EXCEPT !.needs[m] = goes])
        /\ UNCHANGED time
  BY DEF AdvanceMachine
<1> DEFINE h == HeardBy(Now, m)
           c == Cleared(h, m)
           after == Layer(c, m)
           goes == after.state[m] \in Looping
<1>2. Heard(m) = h
  BY NowIs DEF Heard, HeardBy, Tells
<1>3. Advanced(Heard(m), m) = after
  BY <1>2 DEF Advanced, Cleared
<1>4. Becomes(Asks(after, m, goes))
  BY <1>1, <1>3 DEF Asks
<1>5. h \in Works /\ \A l \in Ears : h.owed[l] = One(Waits(h, l, m))
  BY MachineHeard DEF HeardInv
<1> HIDE DEF h
<1>6. c \in Works /\ Balanced(c)
  BY <1>5, ClearedBalances
<1> HIDE DEF c
<1>7. after \in Works /\ Balanced(after)
  BY <1>6, LayerBalances
<1> HIDE DEF after
<1> DEFINE u == Asks(after, m, goes)
<1>8. u \in Works /\ u.owed = after.owed /\ u.reports = after.reports
  <2>1. goes \in BOOLEAN
    OBVIOUS
  <2> HIDE DEF goes
  <2> QED BY <1>7, <2>1, AsksIs
<1> HIDE DEF u, goes
<1>9. Balanced(u)
  BY <1>7, <1>8, SameBalance
<1>10. Becomes(u)
  BY <1>4 DEF u
<1>11. Now' \in Works /\ Balanced(Now')
  BY <1>8, <1>9, <1>10, BecomesIs
<1>12. InLength'
  BY <1>1 DEF HeardInv, InLength
<1> QED BY <1>11, <1>12 DEF HeardInv

LEMMA SimplePose ==
  ASSUME NEW s \in Simples, NEW f \in 0 .. Length[s]
  PROVE  IsPose(Pose[s][f]) /\ DOMAIN Pose[s][f] \subseteq PropertiesOf(In[s])
<1>1. In[s] \in Artboards /\ s \in ToSet(Animations[In[s]])
  BY InIs DEF Simples
<1>2. f \in DOMAIN Pose[s]
  BY MachineAssumption
<1> QED BY <1>1, <1>2, PoseOf

(* How far a simple animation goes, and what it is told of on the way. *)
Moves(s) == value[<<"playing", s>>] /\ elapsed > 0 /\ time[s] < Length[s]
Next1(s) ==
  IF ~Moves(s) THEN time[s] ELSE IF s \in Loops /\ time[s] + 1 = Length[s] THEN 0 ELSE time[s] + 1
Plays(s) == IF Moves(s) THEN TellAllKeyed(Now, s, Keyed[s][time[s] + 1]) ELSE Now

LEMMA SimpleSteps ==
  ASSUME AdvanceSimple, InLength
  PROVE  \E s \in Simples :
           /\ Call("simple", s)
           /\ time' = [time EXCEPT ![s] = Next1(s)] /\ Next1(s) \in 0 .. Length[s]
           /\ Moves(s) => time[s] + 1 \in 1 .. Length[s]
           /\ Becomes(IF value[<<"mix", s>>] = 0 THEN Plays(s) ELSE Apply(Plays(s), Pose[s][Next1(s)]))
           /\ Returns(value[<<"playing", s>>] /\ (elapsed = 0 \/ s \in Loops \/ Next1(s) < Length[s]), <<>>)
<1>1. PICK s \in Simples :
           /\ Call("simple", s)
           /\ time' = [time EXCEPT ![s] = Next1(s)]
           /\ Becomes(IF value[<<"mix", s>>] = 0 THEN Plays(s) ELSE Apply(Plays(s), Pose[s][Next1(s)]))
           /\ Returns(value[<<"playing", s>>] /\ (elapsed = 0 \/ s \in Loops \/ Next1(s) < Length[s]), <<>>)
  BY DEF AdvanceSimple, Moves, Next1, Plays
<1>2. time[s] \in Nat /\ time[s] <= Length[s] /\ Length[s] \in Nat \ {0}
  BY MachineAssumption DEF InLength
<1>3. Moves(s) => time[s] < Length[s]
  BY DEF Moves
<1>4. Next1(s) \in 0 .. Length[s] /\ (Moves(s) => time[s] + 1 \in 1 .. Length[s])
  BY <1>2, <1>3 DEF Next1
<1> QED BY <1>1, <1>4

LEMMA SimpleKeepsHeard ==
  ASSUME NoneBesideSimples, HeardInv, AdvanceSimple
  PROVE  HeardInv'
<1>1. PICK s \in Simples :
           /\ time' = [time EXCEPT ![s] = Next1(s)] /\ Next1(s) \in 0 .. Length[s]
           /\ Moves(s) => time[s] + 1 \in 1 .. Length[s]
           /\ Becomes(IF value[<<"mix", s>>] = 0 THEN Plays(s) ELSE Apply(Plays(s), Pose[s][Next1(s)]))
  BY SimpleSteps DEF HeardInv
<1> DEFINE u == Plays(s)
           v == IF value[<<"mix", s>>] = 0 THEN u ELSE Apply(u, Pose[s][Next1(s)])
<1>2. u \in Works /\ Balanced(u)
  <2>1. CASE Moves(s)
    BY <1>1, <2>1, TellAllKeyedBalances DEF Plays, HeardInv
  <2>2. CASE ~Moves(s)
    BY <2>2 DEF Plays, HeardInv
  <2> QED BY <2>1, <2>2
<1> HIDE DEF u
<1>3. IsPose(Pose[s][Next1(s)])
  BY <1>1, SimplePose
<1>4. v \in Works /\ Balanced(v)
  BY <1>2, <1>3, ApplyBalances
<1>5. Becomes(v)
  BY <1>1 DEF u
<1> HIDE DEF v
<1>6. Now' \in Works /\ Balanced(Now')
  BY <1>4, <1>5, BecomesIs
<1>7. InLength'
  <2>1. time \in [Simples -> Nat] /\ \A k \in Simples : time[k] <= Length[k] /\ Length[k] \in Nat
    BY MachineAssumption DEF HeardInv, InLength
  <2>2. Next1(s) \in Nat /\ Next1(s) <= Length[s]
    BY <1>1, <2>1
  <2>3. time' \in [Simples -> Nat] /\ \A k \in Simples : time'[k] <= Length[k]
    BY <1>1, <2>1, <2>2
  <2> QED BY <2>3 DEF InLength
<1> QED BY <1>6, <1>7 DEF HeardInv

LEMMA RemapPose ==
  ASSUME NEW w \in Works, NEW r \in Remaps
  PROVE  /\ IsPose(Pose[r][w.value[<<"time", r>>]])
         /\ DOMAIN Pose[r][w.value[<<"time", r>>]] \subseteq PropertiesOf(In[r])
<1>1. In[r] \in Artboards /\ r \in ToSet(Animations[In[r]])
  BY InIs DEF Remaps
<1>2. <<"time", r>> \in Properties /\ Takes(<<"time", r>>) = DOMAIN Pose[r]
  BY PropertyAssumption DEF Takes
<1>3. w.value[<<"time", r>>] \in DOMAIN Pose[r]
  BY <1>2, ValueTakes
<1> QED BY <1>1, <1>3, PoseOf

LEMMA RemapKeepsHeard ==
  ASSUME HeardInv, AdvanceRemap
  PROVE  HeardInv'
<1>1. PICK r \in Remaps :
        /\ Becomes(IF value[<<"mix", r>>] # 0 THEN Apply(Now, Pose[r][value[<<"time", r>>]]) ELSE Now)
        /\ UNCHANGED time
  BY DEF AdvanceRemap
<1> DEFINE u == Apply(Now, Pose[r][value[<<"time", r>>]])
<1>2. Now \in Works /\ Balanced(Now)
  BY DEF HeardInv
<1>3. IsPose(Pose[r][value[<<"time", r>>]])
  <2>1. Now.value = value
    BY NowIs
  <2>2. IsPose(Pose[r][Now.value[<<"time", r>>]])
    BY <1>2, RemapPose
  <2> QED BY <2>1, <2>2
<1>4. u \in Works /\ Balanced(u)
  BY <1>2, <1>3, ApplyBalances
<1> HIDE DEF u
<1>5. Becomes(u) \/ Becomes(Now)
  BY <1>1 DEF u
<1>6. Now' \in Works /\ Balanced(Now')
  BY <1>2, <1>4, <1>5, BecomesIs
<1>7. InLength'
  BY <1>1 DEF HeardInv, InLength
<1> QED BY <1>6, <1>7 DEF HeardInv

LEMMA OthersKeepHeard ==
  ASSUME HeardInv, AdvanceNested \/ AdvanceArtboard \/ AdvanceAndApply \/ SetInput \/ UNCHANGED frameVars
  PROVE  HeardInv'
<1>1. Now \in Works /\ Balanced(Now) /\ InLength
  BY DEF HeardInv
<1>2. ASSUME NEW w \in Works, Balanced(w), Becomes(w), UNCHANGED time PROVE HeardInv'
  BY <1>1, <1>2, BecomesIs DEF HeardInv, InLength
<1>3. CASE AdvanceNested
  BY <1>1, <1>2, <1>3 DEF AdvanceNested
<1>4. CASE AdvanceArtboard
  <2>1. PICK a \in Artboards : Becomes(JoysticksAndUpdates(Now, a)) /\ UNCHANGED time
    BY <1>4 DEF AdvanceArtboard
  <2>2. JoysticksAndUpdates(Now, a) \in Works /\ Balanced(JoysticksAndUpdates(Now, a))
    BY <1>1, JoysticksBalance
  <2> QED BY <1>2, <2>1, <2>2
<1>5. CASE AdvanceAndApply
  <2>1. UNCHANGED <<value, dirty, needs, state, time, reports, owed>>
    BY <1>5 DEF AdvanceAndApply
  <2>2. Now' = Now /\ UNCHANGED time
    BY <2>1, NowStays
  <2> QED BY <1>1, <2>2 DEF HeardInv, InLength
<1>6. CASE SetInput
  <2>1. PICK p \in HostInputs : Becomes(Apply(Now, [q \in {p} |-> ~value[p]])) /\ UNCHANGED time
    BY <1>6 DEF SetInput
  <2> DEFINE pose == [q \in {p} |-> ~value[p]]
  <2>2. p \in Properties /\ Takes(p) = BOOLEAN
    BY PropertyAssumption DEF Inputs, Takes
  <2>3. IsPose(pose)
    BY <2>2 DEF IsPose
  <2> HIDE DEF pose
  <2>4. Apply(Now, pose) \in Works /\ Balanced(Apply(Now, pose))
    BY <1>1, <2>3, ApplyBalances
  <2> QED BY <1>2, <2>1, <2>4 DEF pose
<1>7. CASE UNCHANGED frameVars
  <2>1. Now' = Now /\ UNCHANGED time
    BY <1>7, NowStays DEF frameVars
  <2> QED BY <1>1, <2>1 DEF HeardInv, InLength
<1> QED BY <1>3, <1>4, <1>5, <1>6, <1>7

LEMMA HeardStep ==
  ASSUME ReportsComeLater, NoneBesideSimples, HeardInv, [FrameNext]_frameVars
  PROVE  HeardInv'
  BY MachineKeepsHeard, SimpleKeepsHeard, RemapKeepsHeard, OthersKeepHeard DEF FrameNext

LEMMA HeardFrom == ASSUME HeardInv PROVE HeardOnce
<1>1. ASSUME NEW l \in Ears
      PROVE  owed[l] = IF \E m \in Machines : \E e \in ToSet(reports[m]) : IsFor(l, e) THEN 1 ELSE 0
  <2>1. owed[l] = One(Waits(Now, l, None))
    BY NowIs DEF HeardInv, Balanced
  <2>2. \A m \in Machines : m # None
    BY MachineInIs
  <2>3. Waits(Now, l, None) <=> \E m \in Machines : \E e \in ToSet(reports[m]) : IsFor(l, e)
    BY <2>2, NowIs DEF Waits, IsFor, EventFor
  <2>4. Waits(Now, l, None) \in BOOLEAN
    BY DEF Waits
  <2> QED BY <2>1, <2>3, <2>4 DEF One
<1> QED BY <1>1 DEF HeardOnce

(* Every listener hears once of every event it is for and of no other, for  *)
(* any tree, if no listener before it in the list reports what it is for    *)
(* and no machine listens for what is keyed in an animation beside it.      *)
THEOREM EachEventOnce ==
  ReportsComeLater /\ NoneBesideSimples => (FrameSpec => []HeardOnce)
<1> SUFFICES ASSUME ReportsComeLater, NoneBesideSimples
             PROVE  FrameSpec => []HeardOnce
  OBVIOUS
<1>1. FrameInit => HeardInv
  BY HeardInit
<1>2. HeardInv /\ [FrameNext]_frameVars => HeardInv'
  BY HeardStep
<1>3. HeardInv => HeardOnce
  BY HeardFrom
<1> QED BY <1>1, <1>2, <1>3, PTL DEF FrameSpec

-----------------------------------------------------------------------------
(* The tree: what holds for the root, and for an artboard if for its host.  *)
LEMMA TreeInduction ==
  ASSUME NEW M, Root \in M, \A a \in Artboards : a # Root /\ Host(a) \in M => a \in M
  PROVE  Artboards \subseteq M
<1> DEFINE Levels == {n \in Nat : \A a \in Artboards : Len(Path[a]) = n => a \in M}
<1>1. \A a \in Artboards : Len(Path[a]) \in Nat /\ Len(Path[a]) > 0
  <2> TAKE a \in Artboards
  <2>1. Path[a] \in Seq(Artboards) /\ Len(Path[a]) > 0
    BY PathIs
  <2> QED BY <2>1
<1>2. 0 \in Levels
  BY <1>1
<1>3. ASSUME NEW n \in Nat, n \in Levels PROVE n + 1 \in Levels
  <2> SUFFICES ASSUME NEW a \in Artboards, Len(Path[a]) = n + 1 PROVE a \in M
    OBVIOUS
  <2>1. CASE a = Root
    BY <2>1
  <2>2. CASE a # Root
    <3>1. Host(a) \in Artboards /\ Len(Path[a]) = Len(Path[Host(a)]) + 1
      BY <2>2, PathIs
    <3>2. Len(Path[Host(a)]) \in Nat
      BY <1>1, <3>1
    <3>3. Len(Path[Host(a)]) = n
      BY <3>1, <3>2
    <3>4. Host(a) \in M
      BY <1>3, <3>1, <3>3
    <3> QED BY <2>2, <3>4
  <2> QED BY <2>1, <2>2
<1>4. Nat \subseteq Levels
  <2> HIDE DEF Levels
  <2> QED BY <1>2, <1>3, SetInduction
<1> QED BY <1>1, <1>4

(* The artboard and those it is nested in. *)
Above(a) == ToSet(Path[a])

LEMMA AboveIs ==
  ASSUME NEW a \in Artboards
  PROVE  /\ Above(a) \subseteq Artboards /\ a \in Above(a)
         /\ a = Root => Above(a) = {Root}
         /\ a # Root => Host(a) \in Artboards /\ Above(a) = {a} \cup Above(Host(a))
                        /\ a \in ToSet(Nested[Host(a)])
<1>1. Path[a] \in Seq(Artboards) /\ Len(Path[a]) > 0 /\ Path[a][1] = a
  BY PathIs
<1>2. Above(a) \subseteq Artboards /\ a \in Above(a)
  BY <1>1 DEF Above, ToSet
<1>3. CASE a = Root
  <2>1. Path[a] = <<Root>>
    BY <1>3, PathIs
  <2>2. ToSet(<<Root>>) = {Root}
    BY DEF ToSet
  <2> QED BY <1>2, <1>3, <2>1, <2>2 DEF Above
<1>4. CASE a # Root
  <2>1. Host(a) \in Artboards /\ Path[a] = <<a>> \o Path[Host(a)] /\ a \in ToSet(Nested[Host(a)])
    BY <1>4, PathIs
  <2>2. Path[Host(a)] \in Seq(Artboards) /\ <<a>> \in Seq(Artboards)
    <3>1. \A c \in Artboards : Path[c] \in Seq(Artboards)
      BY PathIs
    <3>2. <<a>> \in Seq(Artboards)
      OBVIOUS
    <3> QED BY <2>1, <3>1, <3>2
  <2>3. ToSet(<<a>> \o Path[Host(a)]) = ToSet(<<a>>) \cup ToSet(Path[Host(a)])
    BY <2>2, JoinedSet
  <2>4. ToSet(<<a>>) = {a}
    BY DEF ToSet
  <2> QED BY <1>2, <1>4, <2>1, <2>3, <2>4 DEF Above
<1> QED BY <1>3, <1>4

LEMMA AboveAbove ==
  ASSUME NEW b \in Artboards, NEW a \in Above(b)
  PROVE  Above(a) \subseteq Above(b)
<1> DEFINE M == {c \in Artboards : \A x \in Above(c) : Above(x) \subseteq Above(c)}
<1>1. Root \in M
  BY AboveIs, TreeAssumption
<1>2. ASSUME NEW c \in Artboards, c # Root, Host(c) \in M PROVE c \in M
  <2>1. Above(c) = {c} \cup Above(Host(c))
    BY <1>2, AboveIs
  <2> QED BY <1>2, <2>1
<1>3. Artboards \subseteq M
  <2> HIDE DEF M
  <2> QED BY <1>1, <1>2, TreeInduction
<1> QED BY <1>3

LEMMA RootAbove ==
  ASSUME NEW b \in Artboards
  PROVE  Root \in Above(b)
<1> DEFINE M == {c \in Artboards : Root \in Above(c)}
<1>1. Root \in M
  BY AboveIs, TreeAssumption
<1>2. ASSUME NEW c \in Artboards, c # Root, Host(c) \in M PROVE c \in M
  BY <1>2, AboveIs
<1>3. Artboards \subseteq M
  <2> HIDE DEF M
  <2> QED BY <1>1, <1>2, TreeInduction
<1> QED BY <1>3

LEMMA HostAbove ==
  ASSUME NEW b \in Artboards, NEW n \in Above(b), n # Root
  PROVE  n \in Artboards /\ Host(n) \in Above(b) /\ n \in ToSet(Nested[Host(n)])
<1>1. n \in Artboards
  BY AboveIs
<1>2. Host(n) \in Artboards /\ Above(n) = {n} \cup Above(Host(n)) /\ n \in ToSet(Nested[Host(n)])
  BY <1>1, AboveIs
<1>3. Host(n) \in Above(n)
  BY <1>2, AboveIs
<1> QED BY <1>1, <1>2, <1>3, AboveAbove

(* Of two artboards only one can be nested, directly or not, in the other.  *)
LEMMA AboveOnce ==
  ASSUME NEW a \in Artboards, NEW b \in Artboards, a \in Above(b), b \in Above(a)
  PROVE  a = b
<1>1. \A c \in Artboards : Path[c] \in Seq(Artboards) /\ Len(Path[c]) \in Nat
  <2> TAKE c \in Artboards
  <2>1. Path[c] \in Seq(Artboards)
    BY PathIs
  <2> QED BY <2>1
<1>2. ASSUME NEW c \in Artboards, NEW x \in Above(c), x # c
      PROVE  Len(Path[x]) < Len(Path[c])
  <2>1. PICK i \in DOMAIN Path[c] : x = Path[c][i]
    BY DEF Above, ToSet
  <2>2. i # 1
    BY <1>2, <2>1, PathIs
  <2>3. Len(Path[Path[c][i]]) = Len(Path[c]) - i + 1
    BY PathsShrink
  <2>4. i \in Nat /\ i > 1
    BY <1>1, <2>2
  <2> QED BY <1>1, <2>1, <2>3, <2>4
<1>3. Len(Path[a]) \in Nat /\ Len(Path[b]) \in Nat
  BY <1>1
<1>4. a # b => Len(Path[a]) < Len(Path[b]) /\ Len(Path[b]) < Len(Path[a])
  BY <1>2
<1> QED BY <1>3, <1>4

(* Between an artboard and one nested in it there is one of its own.        *)
LEMMA BelowNested ==
  ASSUME NEW b \in Artboards, NEW a \in Above(b), b # a
  PROVE  \E n \in ToSet(Nested[a]) : n \in Above(b)
<1> DEFINE M == {c \in Artboards : \A x \in Above(c) : c # x => \E n \in ToSet(Nested[x]) : n \in Above(c)}
<1>1. Root \in M
  BY AboveIs, TreeAssumption
<1>2. ASSUME NEW c \in Artboards, c # Root, Host(c) \in M PROVE c \in M
  <2>1. Above(c) = {c} \cup Above(Host(c)) /\ c \in ToSet(Nested[Host(c)])
    BY <1>2, AboveIs
  <2>2. ASSUME NEW x \in Above(c), c # x PROVE \E n \in ToSet(Nested[x]) : n \in Above(c)
    <3>1. CASE x = Host(c)
      BY <2>1, <3>1
    <3>2. CASE x # Host(c)
      <4>1. x \in Above(Host(c))
        BY <2>1, <2>2
      <4>2. \E n \in ToSet(Nested[x]) : n \in Above(Host(c))
        BY <1>2, <3>2, <4>1
      <4> QED BY <2>1, <4>2
    <3> QED BY <3>1, <3>2
  <2> QED BY <2>2
<1>3. Artboards \subseteq M
  <2> HIDE DEF M
  <2> QED BY <1>1, <1>2, TreeInduction
<1> QED BY <1>3

LEMMA NestedBelow ==
  ASSUME NEW a \in Artboards, NEW n \in ToSet(Nested[a])
  PROVE  n \in Artboards /\ n # Root /\ Host(n) = a /\ n # a /\ Above(n) = {n} \cup Above(a) /\ a \in Above(n)
<1>1. n \in Artboards /\ n # Root /\ Host(n) = a
  BY HostIs
<1>2. n # a
  BY <1>1, HostIsOther
<1> QED BY <1>1, <1>2, AboveIs

-----------------------------------------------------------------------------
(* What is keyed where.                                                    *)
LEMMA Dirtying ==
  ASSUME NEW a \in Artboards, NEW p \in PropertiesOf(a), NEW b \in Artboards, Dirties(p, b)
  PROVE  b = a
<1>1. CASE p[1] \in {"opacity", "node", "active"}
  BY <1>1 DEF Dirties, PropertiesOf
<1>2. CASE p[1] = "alpha"
  <2>1. p[2] \in ToSet(Nested[a]) /\ p[2] \in ToSet(Nested[b])
    BY <1>2 DEF Dirties, PropertiesOf
  <2>2. Host(p[2]) = a /\ Host(p[2]) = b
    BY <2>1, HostIs
  <2> QED BY <2>2
<1>3. CASE p[1] = "look"
  BY <1>3 DEF Dirties, PropertiesOf
<1> QED BY <1>1, <1>2, <1>3 DEF Dirties

LEMMA PropertiesApart ==
  ASSUME NEW a \in Artboards, NEW b \in Artboards, a # b, NEW p \in PropertiesOf(a)
  PROVE  p \notin PropertiesOf(b)
<1> SUFFICES ASSUME p \in PropertiesOf(b) PROVE FALSE
  OBVIOUS
<1>1. CASE p[1] \in {"opacity", "node", "active"}
  BY <1>1 DEF PropertiesOf
<1>2. CASE p[1] = "alpha"
  <2>1. p[2] \in ToSet(Nested[a]) /\ p[2] \in ToSet(Nested[b])
    BY <1>2 DEF PropertiesOf
  <2>2. Host(p[2]) = a /\ Host(p[2]) = b
    BY <2>1, HostIs
  <2> QED BY <2>2
<1>3. CASE p[1] \in {"input", "mix", "playing", "time"}
  <2>1. In[p[2]] \in ToSet(Nested[a]) /\ In[p[2]] \in ToSet(Nested[b])
    BY <1>3 DEF PropertiesOf
  <2>2. Host(In[p[2]]) = a /\ Host(In[p[2]]) = b
    BY <2>1, HostIs
  <2> QED BY <2>2
<1>4. CASE p[1] = "look"
  BY <1>4 DEF PropertiesOf
<1>5. CASE p[1] = "x"
  <2>1. p[2] \in ToSet(Joysticks[a]) /\ p[2] \in ToSet(Joysticks[b])
    BY <1>5 DEF PropertiesOf
  <2>2. ToSet(Joysticks[a]) \cap ToSet(Joysticks[b]) = {}
    BY TreeAssumption
  <2> QED BY <2>1, <2>2
<1> QED BY <1>1, <1>2, <1>3, <1>4, <1>5 DEF PropertiesOf

(* What an animation or joystick ever keys.                                 *)
KeyedBy(q) == UNION {DOMAIN Pose[q][at] : at \in DOMAIN Pose[q]}
Sources(a) == ToSet(Animations[a]) \cup ToSet(Joysticks[a])

-----------------------------------------------------------------------------
(* The calls of a frame that are still to be made.                         *)
CallsOfFrame == {<<Kind[p], p>> : p \in Animation} \cup {<<"artboard", a>> : a \in Artboards}
           \cup {<<"nested", n>> : n \in Artboards \ {Root}}
Whole(x) == x[1] \in {"artboard", "nested"}
Place(x) == IF Whole(x) THEN x[2] ELSE In[x[2]]
Apart(a, b) == a \notin Above(b) /\ b \notin Above(a)

(* An artboard is advanced after its animations, and before what is nested; *)
(* what is still to come are artboards that are not nested in one another. *)
InOrder(s) ==
  /\ s \in Seq(CallsOfFrame)
  /\ \A i, k \in DOMAIN s : i < k /\ Whole(s[i]) => s[k][1] = "nested"
  /\ \A i, k \in DOMAIN s : i # k /\ Whole(s[i]) /\ Whole(s[k]) => Apart(s[i][2], s[k][2])
  /\ \A i \in DOMAIN s : ~Whole(s[i]) => <<"artboard", Place(s[i])>> \in ToSet(s)

LEMMA CallIs ==
  ASSUME NEW x \in CallsOfFrame
  PROVE  /\ Place(x) \in Artboards
         /\ Whole(x) => x[2] = Place(x)
         /\ ~Whole(x) => x[2] \in Animation /\ x = <<Kind[x[2]], x[2]>> /\ Place(x) = In[x[2]]
         /\ x[1] = "nested" => x = <<"nested", x[2]>> /\ x[2] # Root
         /\ x[1] = "artboard" => x = <<"artboard", x[2]>>
<1>1. \A p \in Animation : Kind[p] \in {"machine", "simple", "remap"}
  BY TreeAssumption
<1>2. CASE \E p \in Animation : x = <<Kind[p], p>>
  BY <1>1, <1>2, InIs DEF Whole, Place
<1>3. CASE \E a \in Artboards : x = <<"artboard", a>>
  BY <1>3 DEF Whole, Place
<1>4. CASE \E n \in Artboards \ {Root} : x = <<"nested", n>>
  BY <1>4 DEF Whole, Place
<1> QED BY <1>2, <1>3, <1>4 DEF CallsOfFrame

LEMMA CallsAre ==
  /\ \A p \in Animation : <<Kind[p], p>> \in CallsOfFrame /\ ~Whole(<<Kind[p], p>>) /\ Place(<<Kind[p], p>>) = In[p]
  /\ \A a \in Artboards : <<"artboard", a>> \in CallsOfFrame /\ Whole(<<"artboard", a>>) /\ Place(<<"artboard", a>>) = a
  /\ \A n \in Artboards : Whole(<<"nested", n>>) /\ Place(<<"nested", n>>) = n
  /\ \A n \in Artboards \ {Root} : <<"nested", n>> \in CallsOfFrame
  BY TreeAssumption DEF CallsOfFrame, Whole, Place

LEMMA HeadAndTail ==
  ASSUME NEW S, NEW s \in Seq(S), s # <<>>
  PROVE  /\ Head(s) \in S /\ Head(s) = s[1] /\ 1 \in DOMAIN s /\ Tail(s) \in Seq(S)
         /\ ToSet(s) = {Head(s)} \cup ToSet(Tail(s))
         /\ \A i \in DOMAIN Tail(s) : i + 1 \in DOMAIN s /\ i \in Nat /\ i > 0 /\ Tail(s)[i] = s[i + 1]
<1>1. /\ Head(s) \in S /\ Head(s) = s[1] /\ 1 \in DOMAIN s /\ Tail(s) \in Seq(S)
      /\ \A i \in DOMAIN Tail(s) : i + 1 \in DOMAIN s /\ i \in Nat /\ i > 0 /\ Tail(s)[i] = s[i + 1]
  OBVIOUS
<1>2. ASSUME NEW i \in DOMAIN s, i # 1 PROVE i - 1 \in DOMAIN Tail(s) /\ Tail(s)[i - 1] = s[i]
  BY <1>2
<1>3. ToSet(s) = {s[i] : i \in DOMAIN s} /\ ToSet(Tail(s)) = {Tail(s)[i] : i \in DOMAIN Tail(s)}
  BY DEF ToSet
<1>4. ToSet(s) \subseteq {Head(s)} \cup ToSet(Tail(s))
  <2> SUFFICES ASSUME NEW x \in ToSet(s) PROVE x \in {Head(s)} \cup ToSet(Tail(s))
    OBVIOUS
  <2>1. PICK i \in DOMAIN s : x = s[i]
    BY <1>3
  <2>2. CASE i = 1
    BY <1>1, <2>1, <2>2
  <2>3. CASE i # 1
    BY <1>2, <1>3, <2>1, <2>3
  <2> QED BY <2>2, <2>3
<1>5. {Head(s)} \cup ToSet(Tail(s)) \subseteq ToSet(s)
  BY <1>1, <1>3
<1> QED BY <1>1, <1>4, <1>5

(* What is left after a call has been taken.                                *)
LEMMA RestIs ==
  ASSUME NEW s, InOrder(s), s # <<>>
  PROVE  LET x == Head(s)
             t == Tail(s)
         IN
         /\ x \in CallsOfFrame /\ t \in Seq(CallsOfFrame) /\ ToSet(s) = {x} \cup ToSet(t) /\ ToSet(t) \subseteq CallsOfFrame
         /\ ~Whole(x) => InOrder(t) /\ <<"artboard", Place(x)>> \in ToSet(t)
         /\ Whole(x) => \A y \in ToSet(t) : y[1] = "nested" /\ Apart(x[2], y[2])
         /\ \A i, k \in DOMAIN t : i # k /\ Whole(t[i]) /\ Whole(t[k]) => Apart(t[i][2], t[k][2])
<1> DEFINE x == Head(s)
           t == Tail(s)
<1>1. s \in Seq(CallsOfFrame)
  BY DEF InOrder
<1>2. /\ x \in CallsOfFrame /\ x = s[1] /\ 1 \in DOMAIN s /\ t \in Seq(CallsOfFrame)
      /\ ToSet(s) = {x} \cup ToSet(t)
      /\ \A i \in DOMAIN t : i + 1 \in DOMAIN s /\ i \in Nat /\ i > 0 /\ t[i] = s[i + 1]
  BY <1>1, HeadAndTail
<1> HIDE DEF x, t
<1>3. \A y \in ToSet(t) : \E i \in DOMAIN t : y = t[i]
  BY DEF ToSet
<1>4. ToSet(t) \subseteq CallsOfFrame
  BY <1>2, <1>3
<1>5. \A i, k \in DOMAIN t : i # k /\ Whole(t[i]) /\ Whole(t[k]) => Apart(t[i][2], t[k][2])
  <2> TAKE i, k \in DOMAIN t
  <2>1. i + 1 # k + 1 \/ i = k
    BY <1>2
  <2> QED BY <1>2, <2>1 DEF InOrder
<1>6. ASSUME Whole(x), NEW y \in ToSet(t) PROVE y[1] = "nested" /\ Apart(x[2], y[2])
  <2>1. PICK i \in DOMAIN t : y = t[i]
    BY <1>3
  <2>2. i + 1 \in DOMAIN s /\ y = s[i + 1] /\ 1 < i + 1 /\ 1 # i + 1
    BY <1>2, <2>1
  <2>3. y[1] = "nested"
    BY <1>2, <1>6, <2>2 DEF InOrder
  <2>4. Whole(y)
    BY <2>3 DEF Whole
  <2> QED BY <1>2, <1>6, <2>2, <2>3, <2>4 DEF InOrder
<1>7. ASSUME ~Whole(x) PROVE InOrder(t) /\ <<"artboard", Place(x)>> \in ToSet(t)
  <2>1. ASSUME NEW y \in ToSet(s), ~Whole(y) PROVE <<"artboard", Place(y)>> \in ToSet(t)
    <3>1. <<"artboard", Place(y)>> \in ToSet(s)
      <4>1. PICK i \in DOMAIN s : y = s[i]
        BY DEF ToSet
      <4> QED BY <2>1, <4>1 DEF InOrder
    <3>2. <<"artboard", Place(y)>> # x
      BY <1>7 DEF Whole
    <3> QED BY <1>2, <3>1, <3>2
  <2>2. \A i, k \in DOMAIN t : i < k /\ Whole(t[i]) => t[k][1] = "nested"
    <3> TAKE i, k \in DOMAIN t
    <3>1. i < k => i + 1 < k + 1
      BY <1>2
    <3> QED BY <1>2, <3>1 DEF InOrder
  <2>3. \A i \in DOMAIN t : t[i] \in ToSet(t) /\ ToSet(t) \subseteq ToSet(s)
    BY <1>2 DEF ToSet
  <2>4. \A i \in DOMAIN t : ~Whole(t[i]) => <<"artboard", Place(t[i])>> \in ToSet(t)
    BY <2>1, <2>3
  <2>5. <<"artboard", Place(x)>> \in ToSet(t)
    BY <1>2, <1>7, <2>1
  <2> QED BY <1>2, <1>5, <2>2, <2>4, <2>5 DEF InOrder
<1> QED BY <1>2, <1>4, <1>5, <1>6, <1>7 DEF x, t

(* CallsOfFrame put in front of the visits that are left.                          *)
LEMMA JoinInOrder ==
  ASSUME NEW s, InOrder(s), NEW t \in Seq(CallsOfFrame),
         \A y \in ToSet(t) : y[1] = "nested" /\ \A x \in ToSet(s) : Whole(x) => Apart(x[2], y[2]),
         \A i, k \in DOMAIN t : i # k => Apart(t[i][2], t[k][2])
  PROVE  InOrder(s \o t)
<1> DEFINE u == s \o t
<1>1. s \in Seq(CallsOfFrame)
  BY DEF InOrder
<1>2. /\ u \in Seq(CallsOfFrame) /\ Len(s) \in Nat
      /\ \A i \in DOMAIN u : i \in Nat /\ i > 0
                             /\ (i <= Len(s) => i \in DOMAIN s /\ u[i] = s[i])
                             /\ (i > Len(s) => i - Len(s) \in DOMAIN t /\ u[i] = t[i - Len(s)])
  BY <1>1
<1>3. ToSet(u) = ToSet(s) \cup ToSet(t)
  BY <1>1, JoinedSet
<1> HIDE DEF u
<1>4. /\ \A i \in DOMAIN s : s[i] \in ToSet(s)
      /\ \A i \in DOMAIN t : t[i] \in ToSet(t)
  BY DEF ToSet
<1>5. \A y \in ToSet(t) : Whole(y)
  BY DEF Whole
<1>6. ASSUME NEW i \in DOMAIN u, NEW k \in DOMAIN u, i < k, Whole(u[i]) PROVE u[k][1] = "nested"
  <2>1. CASE k <= Len(s)
    <3>1. i <= Len(s)
      BY <1>2, <1>6, <2>1
    <3> QED BY <1>2, <1>6, <2>1, <3>1 DEF InOrder
  <2>2. CASE k > Len(s)
    BY <1>2, <1>4, <2>2
  <2> QED BY <1>2, <2>1, <2>2
<1>7. ASSUME NEW i \in DOMAIN u, NEW k \in DOMAIN u, i # k, Whole(u[i]), Whole(u[k])
      PROVE  Apart(u[i][2], u[k][2])
  <2>1. \A a, b : Apart(a, b) => Apart(b, a)
    BY DEF Apart
  <2>2. CASE i <= Len(s) /\ k <= Len(s)
    BY <1>2, <1>7, <2>2 DEF InOrder
  <2>3. CASE i <= Len(s) /\ k > Len(s)
    BY <1>2, <1>4, <1>7, <2>3
  <2>4. CASE i > Len(s) /\ k <= Len(s)
    BY <1>2, <1>4, <1>7, <2>1, <2>4
  <2>5. CASE i > Len(s) /\ k > Len(s)
    <3>1. i - Len(s) # k - Len(s)
      BY <1>2, <1>7
    <3> QED BY <1>2, <2>5, <3>1
  <2> QED BY <1>2, <2>2, <2>3, <2>4, <2>5
<1>8. ASSUME NEW i \in DOMAIN u, ~Whole(u[i]) PROVE <<"artboard", Place(u[i])>> \in ToSet(u)
  <2>1. i <= Len(s)
    BY <1>2, <1>4, <1>5, <1>8
  <2>2. <<"artboard", Place(s[i])>> \in ToSet(s)
    BY <1>2, <1>8, <2>1 DEF InOrder
  <2> QED BY <1>2, <1>3, <2>1, <2>2
<1> QED BY <1>2, <1>6, <1>7, <1>8 DEF InOrder, u

LEMMA PlayAllIs ==
  ASSUME NEW n \in Artboards
  PROVE  /\ InOrder(PlayAll(n)) /\ PlayAll(n) # <<>>
         /\ ToSet(PlayAll(n)) = {<<Kind[p], p>> : p \in ToSet(Animations[n])} \cup {<<"artboard", n>>}
<1> DEFINE s == Animations[n]
           X == Play(s)
           y == <<"artboard", n>>
           u == X \o <<y>>
<1>1. s \in Seq(Animation) /\ Len(s) \in Nat /\ DOMAIN s = 1 .. Len(s)
  <2>1. s \in Seq(Animation)
    BY TreeAssumption
  <2> HIDE DEF s
  <2> QED BY <2>1
<1>2. \A i \in DOMAIN s : s[i] \in ToSet(s) /\ s[i] \in Animation /\ In[s[i]] = n
  BY <1>1, InIsOnly DEF ToSet
<1> HIDE DEF s
<1>3. X = [i \in 1 .. Len(s) |-> <<Kind[s[i]], s[i]>>]
  BY <1>1 DEF Play
<1>4. /\ X \in Seq(CallsOfFrame) /\ Len(X) = Len(s) /\ DOMAIN X = DOMAIN s
      /\ \A i \in DOMAIN s : X[i] = <<Kind[s[i]], s[i]>> /\ ~Whole(X[i]) /\ Place(X[i]) = n
  BY <1>1, <1>2, <1>3, CallsAre
<1>5. y \in CallsOfFrame /\ Whole(y)
  BY CallsAre
<1> HIDE DEF X, y
<1>6. /\ u \in Seq(CallsOfFrame) /\ Len(u) = Len(s) + 1 /\ DOMAIN u = 1 .. Len(s) + 1
      /\ \A i \in DOMAIN u : IF i \in DOMAIN s THEN u[i] = X[i] ELSE i = Len(s) + 1 /\ u[i] = y
      /\ u[Len(s) + 1] = y
  BY <1>1, <1>4, <1>5
<1>7. ToSet(u) = ToSet(X) \cup ToSet(<<y>>)
  <2>1. <<y>> \in Seq(CallsOfFrame)
    BY <1>5
  <2>2. X \in Seq(CallsOfFrame)
    BY <1>4
  <2> QED BY ONLY <2>1, <2>2, JoinedSet
<1>8. ToSet(<<y>>) = {y}
  BY DEF ToSet
<1>9. ToSet(X) = {<<Kind[p], p>> : p \in ToSet(s)}
  BY <1>4 DEF ToSet
<1> HIDE DEF u
<1>10. ASSUME NEW i \in DOMAIN u, Whole(u[i]) PROVE i = Len(s) + 1
  BY <1>4, <1>6, <1>10
<1>11. \A i, k \in DOMAIN u : i < k /\ Whole(u[i]) => u[k][1] = "nested"
  BY <1>1, <1>6, <1>10
<1>12. \A i, k \in DOMAIN u : i # k /\ Whole(u[i]) /\ Whole(u[k]) => Apart(u[i][2], u[k][2])
  BY <1>10
<1>13. \A i \in DOMAIN u : ~Whole(u[i]) => <<"artboard", Place(u[i])>> \in ToSet(u)
  BY <1>4, <1>5, <1>6, <1>7, <1>8 DEF y
<1>14. InOrder(u)
  BY <1>6, <1>11, <1>12, <1>13 DEF InOrder
<1>15. u # <<>>
  BY <1>1, <1>6
<1> QED BY <1>7, <1>8, <1>9, <1>14, <1>15 DEF u, X, s, y, PlayAll

LEMMA VisitsAre ==
  ASSUME NEW a \in Artboards
  PROVE  /\ InOrder(Visits("nested", Nested[a]))
         /\ ToSet(Visits("nested", Nested[a])) = {<<"nested", n>> : n \in ToSet(Nested[a])}
<1> DEFINE s == Nested[a]
           X == Visits("nested", s)
<1>1. s \in Seq(Artboards) /\ Len(s) \in Nat /\ DOMAIN s = 1 .. Len(s) /\ \A i, k \in DOMAIN s : i # k => s[i] # s[k]
  <2>1. s \in Seq(Artboards) /\ IsInjective(s)
    BY TreeAssumption
  <2> HIDE DEF s
  <2> QED BY <2>1 DEF IsInjective
<1>2. \A i \in DOMAIN s : s[i] \in ToSet(s)
  BY DEF ToSet
<1>3. \A n \in ToSet(s) : n \in Artboards \ {Root} /\ Above(n) = {n} \cup Above(a) /\ a \in Above(n) /\ n # a
  BY NestedBelow
<1> HIDE DEF s
<1>4. X = [i \in 1 .. Len(s) |-> <<"nested", s[i]>>]
  BY <1>1 DEF Visits
<1>5. /\ X \in Seq(CallsOfFrame) /\ DOMAIN X = DOMAIN s
      /\ \A i \in DOMAIN s : X[i] = <<"nested", s[i]>>
  <2>1. \A i \in DOMAIN s : <<"nested", s[i]>> \in CallsOfFrame
    BY <1>2, <1>3, CallsAre
  <2> QED BY <1>1, <1>4, <2>1
<1> HIDE DEF X
<1>6. \A i \in DOMAIN X : Whole(X[i]) /\ X[i][1] = "nested" /\ X[i][2] = s[i]
  BY <1>5 DEF Whole
<1>7. ASSUME NEW i \in DOMAIN s, NEW k \in DOMAIN s, i # k PROVE Apart(s[i], s[k])
  <2>1. s[i] # s[k]
    BY <1>1, <1>7
  <2>2. \A n \in ToSet(s) : n \notin Above(a)
    <3> TAKE n \in ToSet(s)
    <3>1. n \in Above(a) => n = a
      BY <1>3, AboveOnce
    <3> QED BY <1>3, <3>1
  <2> QED BY <1>2, <1>3, <2>1, <2>2 DEF Apart
<1>8. InOrder(X)
  BY <1>5, <1>6, <1>7 DEF InOrder
<1>9. ToSet(X) = {<<"nested", n>> : n \in ToSet(s)}
  BY <1>5 DEF ToSet
<1> QED BY <1>8, <1>9 DEF X, s

(* A call of an artboard replaced by others that are apart as it was.       *)
LEMMA PlayInOrder ==
  ASSUME NEW s, InOrder(s), s # <<>>, NEW n \in Artboards, Head(s) = <<"nested", n>>
  PROVE  InOrder(Tail(s)) /\ InOrder(PlayAll(n) \o Tail(s))
<1> DEFINE t == Tail(s)
<1>1. /\ t \in Seq(CallsOfFrame) /\ \A y \in ToSet(t) : y[1] = "nested" /\ Apart(n, y[2])
      /\ \A i, k \in DOMAIN t : i # k /\ Whole(t[i]) /\ Whole(t[k]) => Apart(t[i][2], t[k][2])
  <2>1. Whole(Head(s)) /\ Head(s)[2] = n
    <3>1. \A x : x = <<"nested", n>> => Whole(x) /\ x[2] = n
      BY DEF Whole
    <3> QED BY <3>1
  <2>2. InOrder(s) /\ s # <<>>
    OBVIOUS
  <2>3. /\ t \in Seq(CallsOfFrame) /\ ToSet(t) \subseteq CallsOfFrame
        /\ Whole(Head(s)) => \A y \in ToSet(t) : y[1] = "nested" /\ Apart(Head(s)[2], y[2])
        /\ \A i, k \in DOMAIN t : i # k /\ Whole(t[i]) /\ Whole(t[k]) => Apart(t[i][2], t[k][2])
    BY ONLY <2>2, RestIs
  <2> HIDE DEF t
  <2> QED BY <2>1, <2>3
<1>2. \A i \in DOMAIN t : t[i] \in ToSet(t)
  BY DEF ToSet
<1> HIDE DEF t
<1>3. \A i \in DOMAIN t : t[i][1] = "nested" /\ Whole(t[i])
  BY <1>1, <1>2 DEF Whole
<1>4. InOrder(t)
  BY <1>1, <1>3 DEF InOrder
<1>5. \A x \in ToSet(PlayAll(n)) : Whole(x) => x[2] = n
  BY PlayAllIs, CallsAre, InIsOnly
<1>6. InOrder(PlayAll(n) \o t)
  BY <1>1, <1>3, <1>5, PlayAllIs, JoinInOrder
<1> QED BY <1>4, <1>6 DEF t

LEMMA VisitsInOrder ==
  ASSUME NEW s, InOrder(s), s # <<>>, NEW a \in Artboards, Head(s) = <<"artboard", a>>
  PROVE  InOrder(Visits("nested", Nested[a]) \o Tail(s))
<1> DEFINE t == Tail(s)
           X == Visits("nested", Nested[a])
<1>1. /\ t \in Seq(CallsOfFrame) /\ ToSet(t) \subseteq CallsOfFrame /\ \A y \in ToSet(t) : y[1] = "nested" /\ Apart(a, y[2])
      /\ \A i, k \in DOMAIN t : i # k /\ Whole(t[i]) /\ Whole(t[k]) => Apart(t[i][2], t[k][2])
  <2>1. Whole(Head(s)) /\ Head(s)[2] = a
    <3>1. \A x : x = <<"artboard", a>> => Whole(x) /\ x[2] = a
      BY DEF Whole
    <3> QED BY <3>1
  <2>2. InOrder(s) /\ s # <<>>
    OBVIOUS
  <2>3. /\ t \in Seq(CallsOfFrame) /\ ToSet(t) \subseteq CallsOfFrame
        /\ Whole(Head(s)) => \A y \in ToSet(t) : y[1] = "nested" /\ Apart(Head(s)[2], y[2])
        /\ \A i, k \in DOMAIN t : i # k /\ Whole(t[i]) /\ Whole(t[k]) => Apart(t[i][2], t[k][2])
    BY ONLY <2>2, RestIs
  <2> HIDE DEF t
  <2> QED BY <2>1, <2>3
<1>2. \A i \in DOMAIN t : t[i] \in ToSet(t)
  BY DEF ToSet
<1> HIDE DEF t
<1>3. \A i \in DOMAIN t : t[i][1] = "nested" /\ Whole(t[i])
  BY <1>1, <1>2 DEF Whole
<1>4. ASSUME NEW n \in ToSet(Nested[a]), NEW y \in ToSet(t) PROVE Apart(n, y[2])
  <2>1. n \in Artboards /\ Above(n) = {n} \cup Above(a) /\ a \in Above(n)
    BY NestedBelow
  <2>2. y[2] \in Artboards /\ a \notin Above(y[2]) /\ y[2] \notin Above(a)
    BY <1>1, CallIs DEF Apart, Whole
  <2>3. n \notin Above(y[2])
    BY <2>1, <2>2, AboveAbove
  <2>4. y[2] # n
    BY <2>1, <2>2
  <2> QED BY <2>1, <2>2, <2>3, <2>4 DEF Apart
<1>5. InOrder(X) /\ \A x \in ToSet(X) : \E n \in ToSet(Nested[a]) : x = <<"nested", n>>
  BY VisitsAre
<1> HIDE DEF X
<1>6. \A y \in ToSet(t) : y[1] = "nested" /\ \A x \in ToSet(X) : Whole(x) => Apart(x[2], y[2])
  BY <1>1, <1>4, <1>5
<1>7. InOrder(X \o t)
  BY <1>1, <1>3, <1>5, <1>6, JoinInOrder
<1> QED BY <1>7 DEF X, t

-----------------------------------------------------------------------------
(* What a frame has still to come to, and what it is through with.          *)
Clear(b) == \A x \in ToSet(todo) : Place(x) \notin Above(b)
Ended(b) == Clear(b) /\ Visible(b)
Past(p) ==
  /\ <<Kind[p], p>> \notin ToSet(todo)
  /\ <<"artboard", In[p]>> \in ToSet(todo) \/ Ended(In[p])

(* A step in c changes what is collapsed nowhere but in c.                  *)
StaysShown(c) ==
  \A n \in Artboards \ {Root} : Host(n) # c => (Collapsed(Now', n) <=> Collapsed(Now, n))

LEMMA VisibleBefore ==
  ASSUME NEW c \in Artboards, StaysShown(c), NEW b \in Artboards, c \notin Above(b), Visible(b)'
  PROVE  Visible(b)
<1> SUFFICES ASSUME NEW n \in Above(b) \ {Root} PROVE ~Collapsed(Now, n)
  BY DEF Visible, Above
<1>1. n \in Artboards /\ Host(n) # c
  BY HostAbove
<1>2. ~Collapsed(Now', n)
  BY DEF Visible, Above
<1> QED BY <1>1, <1>2 DEF StaysShown

LEMMA HeadIs ==
  ASSUME NEW kind, NEW y, Call(kind, y)
  PROVE  todo # <<>> /\ Head(todo) = <<kind, y>>
  BY DEF Call

LEMMA AnimationPasses ==
  ASSUME InOrder(todo), NEW q \in Animation, Call(Kind[q], q), todo' = Tail(todo), StaysShown(In[q])
  PROVE  /\ InOrder(todo')
         /\ \A b \in Artboards : Ended(b)' => Ended(b) /\ In[q] \notin Above(b)
         /\ \A p \in Animation : p # q /\ Past(p)' => Past(p) /\ (In[p] = In[q] \/ In[q] \notin Above(In[p]))
<1> DEFINE x == <<Kind[q], q>>
           c == In[q]
           t == Tail(todo)
<1>1. x \in CallsOfFrame /\ ~Whole(x) /\ Place(x) = c /\ c \in Artboards
  BY CallsAre, InIs
<1>2. todo # <<>> /\ Head(todo) = x
  BY HeadIs
<1> HIDE DEF x
<1>3. ToSet(todo) = {x} \cup ToSet(t) /\ InOrder(t) /\ <<"artboard", c>> \in ToSet(t)
  BY <1>1, <1>2, RestIs
<1> HIDE DEF t
<1>4. \A y \in ToSet(t) : \E i \in DOMAIN t : y = t[i]
  BY DEF ToSet
<1>5. todo' = t
  BY DEF t
<1>6. ASSUME NEW b \in Artboards, Clear(b)' PROVE Clear(b) /\ c \notin Above(b)
  <2>1. \A y \in ToSet(t) : Place(y) \notin Above(b)
    BY <1>5, <1>6 DEF Clear
  <2>2. c \notin Above(b)
    BY <1>1, <1>3, <2>1, CallsAre
  <2> QED BY <1>1, <1>3, <2>1, <2>2 DEF Clear
<1>7. ASSUME NEW b \in Artboards, Ended(b)' PROVE Ended(b) /\ c \notin Above(b)
  <2>1. Clear(b) /\ c \notin Above(b)
    BY <1>6, <1>7 DEF Ended
  <2>2. Visible(b)
    BY <1>1, <1>7, <2>1, VisibleBefore DEF Ended
  <2> QED BY <2>1, <2>2 DEF Ended
<1>8. ASSUME NEW p \in Animation, p # q, Past(p)' PROVE Past(p) /\ (In[p] = c \/ c \notin Above(In[p]))
  <2>1. In[p] \in Artboards
    BY InIs
  <2>2. <<Kind[p], p>> \notin ToSet(todo)
    <3>1. <<Kind[p], p>> # x
      BY <1>8 DEF x
    <3>2. <<Kind[p], p>> \notin ToSet(t)
      BY <1>5, <1>8 DEF Past
    <3> QED BY <1>3, <3>1, <3>2
  <2>3. CASE <<"artboard", In[p]>> \in ToSet(t)
    <3>1. In[p] = c \/ c \notin Above(In[p])
      <4>1. PICK i \in DOMAIN t : t[i] = <<"artboard", In[p]>>
        BY <1>4, <2>3
      <4>2. PICK k \in DOMAIN t : t[k] = <<"artboard", c>>
        BY <1>3, <1>4
      <4>3. Whole(t[i]) /\ Whole(t[k]) /\ t[i][2] = In[p] /\ t[k][2] = c
        BY <4>1, <4>2 DEF Whole
      <4>4. i = k \/ Apart(In[p], c)
        BY <1>3, <4>3 DEF InOrder
      <4> QED BY <4>3, <4>4 DEF Apart
    <3> QED BY <1>3, <2>2, <2>3, <3>1 DEF Past
  <2>4. CASE Ended(In[p])'
    BY <1>7, <2>1, <2>2, <2>4 DEF Past
  <2> QED BY <1>5, <1>8, <2>3, <2>4 DEF Past
<1> QED BY <1>3, <1>5, <1>7, <1>8

LEMMA ArtboardPasses ==
  ASSUME InOrder(todo), NEW a \in Artboards, Call("artboard", a),
         todo' = Visits("nested", Nested[a]) \o Tail(todo), StaysShown(a)
  PROVE  /\ InOrder(todo')
         /\ \A b \in Artboards : Ended(b)' => b = a \/ (Ended(b) /\ a \notin Above(b))
         /\ \A p \in Animation : Past(p)' => Past(p) /\ (In[p] = a \/ a \notin Above(In[p]))
<1> DEFINE x == <<"artboard", a>>
           t == Tail(todo)
           v == Visits("nested", Nested[a])
<1>1. x \in CallsOfFrame /\ Whole(x) /\ Place(x) = a /\ x[2] = a
  BY CallsAre
<1>2. todo # <<>> /\ Head(todo) = x
  BY HeadIs
<1>3. InOrder(todo')
  BY <1>2, VisitsInOrder
<1>4. /\ InOrder(v) /\ ToSet(v) = {<<"nested", n>> : n \in ToSet(Nested[a])}
  BY VisitsAre
<1> HIDE DEF x, v
<1>5. /\ ToSet(todo) = {x} \cup ToSet(t) /\ t \in Seq(CallsOfFrame) /\ ToSet(t) \subseteq CallsOfFrame
      /\ \A y \in ToSet(t) : y[1] = "nested" /\ Apart(a, y[2])
  BY <1>1, <1>2, RestIs
<1> HIDE DEF t
<1>6. ToSet(todo') = ToSet(v) \cup ToSet(t)
  <2>1. v \in Seq(CallsOfFrame)
    BY <1>4 DEF InOrder
  <2>2. todo' = v \o t
    BY DEF v, t
  <2>3. t \in Seq(CallsOfFrame)
    BY <1>5
  <2>4. ToSet(v \o t) = ToSet(v) \cup ToSet(t)
    BY ONLY <2>1, <2>3, JoinedSet
  <2> QED BY <2>2, <2>4
<1>7. ASSUME NEW b \in Artboards, Clear(b)', b # a PROVE Clear(b) /\ a \notin Above(b)
  <2>1. \A y \in ToSet(v) \cup ToSet(t) : Place(y) \notin Above(b)
    BY <1>6, <1>7 DEF Clear
  <2>2. a \notin Above(b)
    <3> SUFFICES ASSUME a \in Above(b) PROVE FALSE
      OBVIOUS
    <3>1. PICK n \in ToSet(Nested[a]) : n \in Above(b)
      BY <1>7, BelowNested
    <3>2. n \in Artboards /\ <<"nested", n>> \in ToSet(v)
      BY <1>4, HostIs
    <3>3. Place(<<"nested", n>>) = n
      BY <3>2, CallsAre
    <3> QED BY <2>1, <3>1, <3>2, <3>3
  <2> QED BY <1>1, <1>5, <2>1, <2>2 DEF Clear
<1>8. ASSUME NEW b \in Artboards, Ended(b)', b # a PROVE Ended(b) /\ a \notin Above(b)
  <2>1. Clear(b) /\ a \notin Above(b)
    BY <1>7, <1>8 DEF Ended
  <2>2. Visible(b)
    BY <1>8, <2>1, VisibleBefore DEF Ended
  <2> QED BY <2>1, <2>2 DEF Ended
<1>9. ASSUME NEW p \in Animation, Past(p)' PROVE Past(p) /\ (In[p] = a \/ a \notin Above(In[p]))
  <2>1. In[p] \in Artboards /\ ~Whole(<<Kind[p], p>>)
    BY InIs, CallsAre
  <2>2. <<Kind[p], p>> \notin ToSet(todo)
    BY <1>1, <1>5, <1>6, <1>9, <2>1 DEF Past
  <2>3. <<"artboard", In[p]>> \notin ToSet(todo')
    <3>1. \A y \in ToSet(v) \cup ToSet(t) : y[1] = "nested"
      BY <1>4, <1>5
    <3> QED BY <1>6, <3>1
  <2>4. Ended(In[p])'
    BY <1>9, <2>3 DEF Past
  <2>5. CASE In[p] = a
    BY <1>5, <2>2, <2>5 DEF Past, x
  <2>6. CASE In[p] # a
    BY <1>8, <2>1, <2>2, <2>4, <2>6 DEF Past
  <2> QED BY <2>5, <2>6
<1> QED BY <1>3, <1>8, <1>9

LEMMA NestedPasses ==
  ASSUME InOrder(todo), NEW n \in Artboards, Call("nested", n), Now' = Now,
         todo' = (IF Collapsed(Now, n) THEN <<>> ELSE PlayAll(n)) \o Tail(todo)
  PROVE  /\ InOrder(todo')
         /\ \A b \in Artboards : Ended(b)' => Ended(b)
         /\ \A p \in Animation : Past(p)' => Past(p)
<1> DEFINE x == <<"nested", n>>
           t == Tail(todo)
           v == PlayAll(n)
<1>1. todo # <<>> /\ Head(todo) = x
  BY HeadIs
<1>2. InOrder(t) /\ InOrder(v \o t)
  BY <1>1, PlayInOrder
<1>3. x \in CallsOfFrame /\ Place(x) = n /\ Whole(x) /\ n # Root
  <2>1. x \in CallsOfFrame
    BY <1>1, RestIs
  <2>2. x[1] = "nested" /\ x[2] = n
    OBVIOUS
  <2> QED BY <2>1, <2>2, CallIs, CallsAre
<1>4. ToSet(v) = {<<Kind[p], p>> : p \in ToSet(Animations[n])} \cup {<<"artboard", n>>}
  BY PlayAllIs
<1>5. InOrder(v)
  BY PlayAllIs
<1> HIDE DEF x, v
<1>6. ToSet(todo) = {x} \cup ToSet(t)
  BY <1>1, RestIs
<1> HIDE DEF t
<1>7. ToSet(v \o t) = ToSet(v) \cup ToSet(t)
  <2>1. v \in Seq(CallsOfFrame) /\ t \in Seq(CallsOfFrame)
    BY <1>2, <1>5 DEF InOrder
  <2> QED BY ONLY <2>1, JoinedSet
<1>8. \A b : Visible(b)' <=> Visible(b)
  BY DEF Visible
<1>9. CASE Collapsed(Now, n)
  <2>1. todo' = t
    <3>1. t \in Seq(CallsOfFrame)
      BY <1>2 DEF InOrder
    <3>2. todo' = <<>> \o t
      BY <1>9 DEF t
    <3>3. \A u \in Seq(CallsOfFrame) : <<>> \o u = u
      OBVIOUS
    <3> QED BY <3>1, <3>2, <3>3
  <2>2. ASSUME NEW b \in Artboards, Ended(b)' PROVE Ended(b)
    <3>1. Visible(b) /\ \A y \in ToSet(t) : Place(y) \notin Above(b)
      BY <1>8, <2>1, <2>2 DEF Ended, Clear
    <3>2. n \notin Above(b)
      BY <1>3, <1>9, <3>1 DEF Visible, Above
    <3> QED BY <1>3, <1>6, <3>1, <3>2 DEF Ended, Clear
  <2>3. ASSUME NEW p \in Animation, Past(p)' PROVE Past(p)
    <3>1. In[p] \in Artboards /\ <<Kind[p], p>> # x
      BY <1>3, InIs, CallsAre
    <3> QED BY <1>6, <2>1, <2>2, <2>3, <3>1 DEF Past
  <2> QED BY <1>2, <2>1, <2>2, <2>3
<1>10. CASE ~Collapsed(Now, n)
  <2>1. todo' = v \o t
    BY <1>10 DEF v, t
  <2>2. <<"artboard", n>> \in ToSet(v) /\ Place(<<"artboard", n>>) = n
    BY <1>4, CallsAre
  <2>3. ASSUME NEW b \in Artboards, Ended(b)' PROVE Ended(b)
    <3>1. Visible(b) /\ \A y \in ToSet(v) \cup ToSet(t) : Place(y) \notin Above(b)
      BY <1>7, <1>8, <2>1, <2>3 DEF Ended, Clear
    <3>2. n \notin Above(b)
      BY <2>2, <3>1
    <3> QED BY <1>3, <1>6, <3>1, <3>2 DEF Ended, Clear
  <2>4. ASSUME NEW p \in Animation, Past(p)' PROVE Past(p)
    <3>1. In[p] \in Artboards /\ p \in ToSet(Animations[In[p]]) /\ <<Kind[p], p>> # x
      BY <1>3, InIs, CallsAre
    <3>2. <<Kind[p], p>> \notin ToSet(v) /\ <<Kind[p], p>> \notin ToSet(t)
      BY <1>7, <2>1, <2>4 DEF Past
    <3>3. In[p] # n
      BY <1>4, <3>1, <3>2
    <3>4. CASE <<"artboard", In[p]>> \in ToSet(v \o t)
      <4>1. <<"artboard", In[p]>> \notin ToSet(v)
        <5>1. ~Whole(<<Kind[p], p>>)
          BY CallsAre
        <5>2. \A q \in ToSet(Animations[n]) : <<Kind[q], q>> # <<"artboard", In[p]>>
          <6> TAKE q \in ToSet(Animations[n])
          <6>1. q \in Animation
            BY InIsOnly
          <6>2. ~Whole(<<Kind[q], q>>) /\ Whole(<<"artboard", In[p]>>)
            BY <3>1, <6>1, CallsAre
          <6> QED BY <6>2
        <5> QED BY <1>4, <3>3, <5>2
      <4> QED BY <1>6, <1>7, <3>1, <3>2, <3>4, <4>1 DEF Past
    <3>5. CASE Ended(In[p])'
      BY <1>6, <2>3, <3>1, <3>2, <3>5 DEF Past
    <3> QED BY <2>1, <2>4, <3>4, <3>5 DEF Past
  <2> QED BY <1>2, <2>1, <2>3, <2>4
<1> QED BY <1>9, <1>10

-----------------------------------------------------------------------------
(* What a part of a frame changes: some properties, marks on some artboards, *)
(* and of machines that are not its own at most that they are marked.      *)
Rested(w, m) == Open(w, m) # {} => w.needs[m]

(* Nothing but an update of the artboard it is in sets these.               *)
Guarded == {<<"opacity", n>> : n \in Artboards \ {Root}} \cup {<<"x", j>> : j \in Handled}

(* What is up to date has what an update sets.                              *)
Tied(w) ==
  /\ \A a \in Artboards : a \notin w.dirty =>
       \A j \in ToSet(Joysticks[a]) \cap Handled : w.value[<<"x", j>>] = w.value[<<"node", a>>]
  /\ \A n \in Artboards \ {Root} : ~Collapsed(w, n) /\ Host(n) \notin w.dirty =>
       w.value[<<"opacity", n>>] = Rendered(w, n)

Spreads(w, u, S, D, own) ==
  /\ u \in Works
  /\ \A p \in Properties \ S : u.value[p] = w.value[p]
  /\ u.dirty \subseteq w.dirty \cup D
  /\ \A m \in Machines \ own : u.state[m] = w.state[m] /\ (Rested(w, m) => Rested(u, m))
  /\ S \cap Guarded = {} /\ Tied(w) => Tied(u)

LEMMA SpreadsOn ==
  ASSUME NEW w, NEW v, NEW u, NEW S, NEW D, NEW own, Spreads(w, v, S, D, own), Spreads(v, u, S, D, own)
  PROVE  Spreads(w, u, S, D, own)
  BY DEF Spreads

LEMMA SpreadsMore ==
  ASSUME NEW w, NEW u, NEW S, NEW D, NEW own, NEW S2, NEW D2, NEW own2,
         Spreads(w, u, S, D, own), S \subseteq S2, D \subseteq D2, own \subseteq own2
  PROVE  Spreads(w, u, S2, D2, own2)
  BY DEF Spreads

LEMMA TiedBy ==
  ASSUME NEW w, NEW u, u.value = w.value, u.dirty = w.dirty, Tied(w)
  PROVE  Tied(u)
<1>1. \A n : (Collapsed(u, n) <=> Collapsed(w, n)) /\ Rendered(u, n) = Rendered(w, n)
  BY DEF Collapsed, Rendered
<1> QED BY <1>1 DEF Tied

LEMMA SpreadsSame ==
  ASSUME NEW w \in Works, NEW u \in Works, NEW S, NEW D, NEW own,
         u.value = w.value, u.dirty = w.dirty,
         \A m \in Machines \ own : u.state[m] = w.state[m] /\ u.needs[m] = w.needs[m]
  PROVE  Spreads(w, u, S, D, own)
<1>1. Tied(w) => Tied(u)
  BY TiedBy
<1>2. \A m \in Machines \ own : Open(u, m) = Open(w, m)
  BY DEF Open
<1>3. \A m \in Machines \ own : Rested(w, m) => Rested(u, m)
  BY <1>2 DEF Rested
<1> QED BY <1>1, <1>3 DEF Spreads

LEMMA TiedApply ==
  ASSUME NEW w \in Works, NEW pose, IsPose(pose), DOMAIN pose \cap Guarded = {}, Tied(w)
  PROVE  Tied(Apply(w, pose))
<1> DEFINE u == Apply(w, pose)
<1>1. /\ \A p \in Properties : u.value[p] = IF p \in DOMAIN pose THEN pose[p] ELSE w.value[p]
      /\ u.dirty = w.dirty \cup {a \in Artboards : \E p \in ChangedBy(w, pose) : Dirties(p, a)}
  BY ApplyIs
<1> HIDE DEF u
<1>2. \A p \in Properties : u.value[p] # w.value[p] => p \in ChangedBy(w, pose)
  BY <1>1 DEF ChangedBy
<1>3. \A p \in Guarded : p \in Properties => u.value[p] = w.value[p]
  BY <1>1
<1>4. ASSUME NEW a \in Artboards, a \notin u.dirty, NEW p \in Properties, Dirties(p, a)
      PROVE  u.value[p] = w.value[p]
  BY <1>1, <1>2, <1>4
<1>5. ASSUME NEW a \in Artboards, a \notin u.dirty, NEW j \in ToSet(Joysticks[a]) \cap Handled
      PROVE  u.value[<<"x", j>>] = u.value[<<"node", a>>]
  <2>1. <<"x", j>> \in Properties /\ <<"x", j>> \in Guarded /\ <<"node", a>> \in Properties
    BY StickIs DEF Guarded
  <2>2. Dirties(<<"node", a>>, a)
    BY DEF Dirties
  <2>3. a \notin w.dirty
    BY <1>1, <1>5
  <2>4. u.value[<<"node", a>>] = w.value[<<"node", a>>]
    BY <1>4, <1>5, <2>1, <2>2
  <2> QED BY <1>3, <2>1, <2>3, <2>4 DEF Tied
<1>6. ASSUME NEW n \in Artboards \ {Root}, ~Collapsed(u, n), Host(n) \notin u.dirty
      PROVE  u.value[<<"opacity", n>>] = Rendered(u, n)
  <2>1. Host(n) \in Artboards /\ n \in ToSet(Nested[Host(n)])
    BY PathIs
  <2>2. /\ <<"opacity", n>> \in Properties /\ <<"opacity", n>> \in Guarded
        /\ <<"alpha", n>> \in Properties /\ <<"opacity", Host(n)>> \in Properties
        /\ n \in Soloed => <<"active", Host(n)>> \in Properties
    BY <2>1, PropertyAssumption DEF Guarded
  <2>3. Dirties(<<"alpha", n>>, Host(n)) /\ Dirties(<<"opacity", Host(n)>>, Host(n)) /\ Dirties(<<"active", Host(n)>>, Host(n))
    BY <2>1 DEF Dirties
  <2>4. /\ u.value[<<"alpha", n>>] = w.value[<<"alpha", n>>]
        /\ u.value[<<"opacity", Host(n)>>] = w.value[<<"opacity", Host(n)>>]
        /\ n \in Soloed => u.value[<<"active", Host(n)>>] = w.value[<<"active", Host(n)>>]
    BY <1>4, <1>6, <2>1, <2>2, <2>3
  <2>5. ~Collapsed(w, n) /\ Rendered(u, n) = Rendered(w, n)
    BY <1>6, <2>4 DEF Collapsed, Rendered
  <2>6. Host(n) \notin w.dirty
    BY <1>1, <1>6
  <2>7. w.value[<<"opacity", n>>] = Rendered(w, n)
    BY <2>5, <2>6 DEF Tied
  <2> QED BY <1>3, <2>2, <2>5, <2>7
<1>7. Tied(u)
  BY <1>5, <1>6 DEF Tied
<1> QED BY <1>7 DEF u

LEMMA RestedApply ==
  ASSUME NEW w \in Works, NEW pose, IsPose(pose), NEW m \in Machines, Rested(w, m)
  PROVE  Rested(Apply(w, pose), m)
<1> DEFINE u == Apply(w, pose)
<1>1. /\ \A p \in Properties : u.value[p] = IF p \in DOMAIN pose THEN pose[p] ELSE w.value[p]
      /\ u.needs[m] = (w.needs[m] \/ \E p \in ChangedBy(w, pose) : p[1] = "input" /\ p[2] = m)
      /\ u.state = w.state
  BY ApplyIs
<1> HIDE DEF u
<1>2. \A p \in Properties : u.value[p] # w.value[p] => p \in ChangedBy(w, pose)
  BY <1>1 DEF ChangedBy
<1>3. ASSUME NEW i \in Open(u, m) PROVE u.needs[m]
  <2>1. i \in DOMAIN Arcs[m] /\ Arcs[m][i].input \in Inputs(m)
    BY MachineAssumption DEF Open
  <2> DEFINE p == Arcs[m][i].input
  <2>2. p \in Properties /\ p[1] = "input" /\ p[2] = m
    BY <2>1 DEF Inputs
  <2>3. CASE u.value[p] = w.value[p]
    <3>1. i \in Open(w, m)
      BY <1>1, <1>3, <2>3 DEF Open
    <3> QED BY <1>1, <3>1 DEF Rested
  <2>4. CASE u.value[p] # w.value[p]
    <3> HIDE DEF p
    <3> QED BY <1>1, <1>2, <2>2, <2>4
  <2> QED BY <2>3, <2>4
<1>4. Rested(u, m)
  BY <1>3 DEF Rested
<1> QED BY <1>4 DEF u

LEMMA SpreadsApply ==
  ASSUME NEW w \in Works, NEW pose, IsPose(pose), NEW S, NEW D, NEW own, DOMAIN pose \subseteq S,
         \A p \in DOMAIN pose : \A b \in Artboards : Dirties(p, b) => b \in D
  PROVE  Spreads(w, Apply(w, pose), S, D, own)
<1> DEFINE u == Apply(w, pose)
<1>1. /\ u \in Works
      /\ \A p \in Properties : u.value[p] = IF p \in DOMAIN pose THEN pose[p] ELSE w.value[p]
      /\ u.dirty = w.dirty \cup {a \in Artboards : \E p \in ChangedBy(w, pose) : Dirties(p, a)}
      /\ u.state = w.state
  BY ApplyIs
<1>2. \A m \in Machines : Rested(w, m) => Rested(u, m)
  BY RestedApply
<1>3. S \cap Guarded = {} /\ Tied(w) => Tied(u)
  BY TiedApply
<1> HIDE DEF u
<1>4. u.dirty \subseteq w.dirty \cup D
  BY <1>1 DEF ChangedBy
<1>5. Spreads(w, u, S, D, own)
  BY <1>1, <1>2, <1>3, <1>4 DEF Spreads
<1> QED BY <1>5 DEF u

LEMMA SpreadsSelf ==
  ASSUME NEW w \in Works, NEW S, NEW D, NEW own
  PROVE  Spreads(w, w, S, D, own)
  BY DEF Spreads

(* The inputs that listeners set: those for events of their own machine's   *)
(* artboard, and those for events of one nested in it.                      *)
Setters == {l \in Ears : Listener(l).does = "set"}
Owned(m) == {Listener(l).what : l \in {l \in Setters : l[1] = m /\ Listener(l).target = In[m]}}
Passed == {Listener(l).what : l \in {l \in Setters : Listener(l).target # In[l[1]]}}

LEMMA ToldSpreads ==
  ASSUME NEW w \in Works, NEW k \in Machines, NEW i \in DOMAIN Listeners[k], NEW source,
         NEW S, NEW D, NEW own,
         Aims(k, Listeners[k][i], source) /\ Listeners[k][i].does = "set" => Listeners[k][i].what \in S
  PROVE  Spreads(w, Told(w, k, i, source), S, D, own)
<1> DEFINE u == Perform(w, k, i, source)
<1>1. CASE ~Hears(w, k, Listeners[k][i], source)
  BY <1>1, SpreadsSelf DEF Told
<1>2. CASE Hears(w, k, Listeners[k][i], source)
  <2>1. Told(w, k, i, source) = u /\ Aims(k, Listeners[k][i], source)
    BY <1>2 DEF Told, Hears
  <2>2. CASE Listeners[k][i].does = "set"
    <3> DEFINE v == Paid(w, k, i)
               pose == SetTo(Listeners[k][i])
    <3>1. u = Apply(v, pose)
      BY <2>2, SetPerforms
    <3>2. v \in Works /\ v.value = w.value /\ v.dirty = w.dirty /\ v.needs = w.needs /\ v.state = w.state
      BY PaidIs
    <3>3. IsPose(pose) /\ \A p \in DOMAIN pose : p[1] = "input"
      BY <2>2, SetToIs
    <3>4. DOMAIN pose \subseteq S
      BY <2>1, <2>2 DEF SetTo
    <3> HIDE DEF u, v, pose
    <3>5. Spreads(w, v, S, D, own)
      BY <3>2, SpreadsSame
    <3>6. \A p \in DOMAIN pose : \A b \in Artboards : Dirties(p, b) => b \in D
      BY <3>3 DEF Dirties
    <3>7. Spreads(v, Apply(v, pose), S, D, own)
      BY <3>2, <3>3, <3>4, <3>6, SpreadsApply
    <3> QED BY <2>1, <3>1, <3>5, <3>7, SpreadsOn
  <2>3. CASE Listeners[k][i].does = "report"
    <3>1. u \in Works /\ u.value = w.value /\ u.dirty = w.dirty /\ u.needs = w.needs /\ u.state = w.state
      BY <2>3, ReportPerforms
    <3> HIDE DEF u
    <3> QED BY <2>1, <3>1, SpreadsSame
  <2> QED BY <2>2, <2>3, ListenerIs
<1> QED BY <1>1, <1>2

LEMMA TellSpreads ==
  ASSUME NEW w \in Works, NEW k \in Machines, NEW source, NEW S, NEW D, NEW own,
         \A i \in DOMAIN Listeners[k] :
           Aims(k, Listeners[k][i], source) /\ Listeners[k][i].does = "set" => Listeners[k][i].what \in S
  PROVE  Spreads(w, Tell(w, k, source), S, D, own)
<1> DEFINE End == Len(Listeners[k])
<1>1. PICK f \in [0 .. End -> Works] :
        /\ f[0] = w /\ Tell(w, k, source) = f[End]
        /\ \A i \in 1 .. End : f[i] = Told(f[i - 1], k, i, source)
  BY TellIs
<1>2. End \in Nat /\ DOMAIN Listeners[k] = 1 .. End
  BY ListenersAre
<1> HIDE DEF End
<1> DEFINE M == {i \in 0 .. End : Spreads(w, f[i], S, D, own)}
<1>3. 0 \in M
  BY <1>1, <1>2, SpreadsSelf
<1>4. ASSUME NEW j \in 0 .. End - 1, j \in M PROVE j + 1 \in M
  <2>1. j + 1 \in 1 .. End /\ j + 1 \in 0 .. End /\ (j + 1) - 1 = j /\ j \in 0 .. End
    BY <1>2
  <2>2. f[j + 1] = Told(f[j], k, j + 1, source) /\ f[j] \in Works
    BY <1>1, <2>1
  <2>3. Spreads(f[j], Told(f[j], k, j + 1, source), S, D, own)
    BY <1>2, <2>1, <2>2, ToldSpreads
  <2>4. Spreads(w, f[j + 1], S, D, own)
    BY <1>4, <2>2, <2>3, SpreadsOn
  <2> QED BY <2>1, <2>4
<1>5. 0 .. End \subseteq M
  <2> HIDE DEF M
  <2> QED BY <1>2, <1>3, <1>4, BoundedInduction
<1> QED BY <1>1, <1>2, <1>5

LEMMA BubbleSpreads ==
  ASSUME NEW w \in Works, NEW a \in Artboards, NEW S, NEW D, NEW own, Passed \subseteq S
  PROVE  Spreads(w, Bubble(w, a), S, D, own)
<1> DEFINE End == Len(Path[a]) - 1
<1>1. PICK f \in [0 .. End -> Works] :
        /\ f[0] = w /\ Bubble(w, a) = f[End]
        /\ \A i \in 1 .. End : f[i] = Up(f[i - 1], a, i)
  BY BubbleIs
<1>2. End \in Nat
  BY BubblesIs
<1>3. ASSUME NEW v \in Works, NEW i \in 1 .. End PROVE Spreads(v, Up(v, a, i), S, D, own)
  <2>1. CASE ~Reaches(a, i)
    BY <2>1, SpreadsSelf DEF Up
  <2>2. CASE Reaches(a, i)
    <3> DEFINE k == MachineIn(Path[a][i + 1])
               o == Path[a][i]
    <3>1. i \in DOMAIN Path[a] /\ i + 1 \in DOMAIN Path[a] /\ i \in Nat /\ Len(Path[a]) \in Nat
      <4>1. Path[a] \in Seq(Artboards)
        BY PathIs
      <4> QED BY <4>1
    <3>2. k \in Machines /\ In[k] = Path[a][i + 1]
      <4>1. k # None
        BY <2>2, <3>1 DEF Reaches
      <4> QED BY <4>1, SomeMachineIn
    <3>3. o \in Artboards /\ o # In[k]
      <4>1. /\ o \in Artboards /\ Len(Path[o]) = Len(Path[a]) - i + 1
            /\ Len(Path[Path[a][i + 1]]) = Len(Path[a]) - (i + 1) + 1
        BY <3>1, PathsShrink
      <4>2. Len(Path[o]) # Len(Path[In[k]])
        BY <3>1, <3>2, <4>1
      <4> QED BY <4>1, <4>2
    <3>4. Up(v, a, i) = Tell(v, k, o)
      BY <2>2 DEF Up
    <3> HIDE DEF k, o
    <3>5. ASSUME NEW x \in DOMAIN Listeners[k], Aims(k, Listeners[k][x], o), Listeners[k][x].does = "set"
          PROVE  Listeners[k][x].what \in S
      <4>1. o # None
        BY <3>3, TreeAssumption
      <4>2. Listeners[k][x].target # In[k]
        BY <3>3, <3>5, <4>1 DEF Aims
      <4>3. <<k, x>> \in Ears /\ Listener(<<k, x>>) = Listeners[k][x] /\ <<k, x>>[1] = k
        BY <3>2 DEF Ears, Listener
      <4>4. <<k, x>> \in {l \in Setters : Listener(l).target # In[l[1]]}
        BY <3>5, <4>2, <4>3 DEF Setters
      <4>5. Listener(<<k, x>>).what \in Passed
        BY <4>4 DEF Passed
      <4> QED BY <4>3, <4>5
    <3> QED BY <3>2, <3>4, <3>5, TellSpreads
  <2> QED BY <2>1, <2>2
<1> HIDE DEF End
<1> DEFINE M == {i \in 0 .. End : Spreads(w, f[i], S, D, own)}
<1>4. 0 \in M
  BY <1>1, <1>2, SpreadsSelf
<1>5. ASSUME NEW j \in 0 .. End - 1, j \in M PROVE j + 1 \in M
  <2>1. j + 1 \in 1 .. End /\ j + 1 \in 0 .. End /\ (j + 1) - 1 = j /\ j \in 0 .. End
    BY <1>2
  <2>2. f[j + 1] = Up(f[j], a, j + 1) /\ f[j] \in Works
    BY <1>1, <2>1
  <2>3. Spreads(f[j], f[j + 1], S, D, own)
    BY <1>3, <2>1, <2>2
  <2>4. Spreads(w, f[j + 1], S, D, own)
    BY <1>5, <2>3, SpreadsOn
  <2> QED BY <2>1, <2>4
<1>6. 0 .. End \subseteq M
  <2> HIDE DEF M
  <2> QED BY <1>2, <1>4, <1>5, BoundedInduction
<1> QED BY <1>1, <1>2, <1>6

LEMMA HeardSpreads ==
  ASSUME NEW w \in Works, NEW m \in Machines, NEW S, NEW D, NEW own, Owned(m) \subseteq S, Passed \subseteq S
  PROVE  Spreads(w, HeardBy(w, m), S, D, own)
<1> DEFINE t == Tells(w, w.reports[m])
           v == Tell(t, m, None)
<1>1. w.reports[m] \in Seq(Events)
  BY WorkIsTyped, ReportsAreOwn DEF Typed
<1>2. t \in Works /\ t.value = w.value /\ t.dirty = w.dirty /\ t.needs = w.needs /\ t.state = w.state
  BY <1>1, TellsIs
<1> HIDE DEF t
<1>3. Spreads(w, t, S, D, own)
  BY <1>2, SpreadsSame
<1>4. ASSUME NEW x \in DOMAIN Listeners[m], Aims(m, Listeners[m][x], None), Listeners[m][x].does = "set"
      PROVE  Listeners[m][x].what \in S
  <2>1. Listeners[m][x].target = In[m]
    BY <1>4 DEF Aims
  <2>2. <<m, x>> \in Ears /\ Listener(<<m, x>>) = Listeners[m][x] /\ <<m, x>>[1] = m
    BY DEF Ears, Listener
  <2>3. <<m, x>> \in {l \in Setters : l[1] = m /\ Listener(l).target = In[m]}
    BY <1>4, <2>1, <2>2 DEF Setters
  <2>4. Listener(<<m, x>>).what \in Owned(m)
    BY <2>3 DEF Owned
  <2> QED BY <2>2, <2>4
<1>5. Spreads(t, v, S, D, own)
  BY <1>2, <1>4, TellSpreads
<1> HIDE DEF v
<1>6. v \in Works
  BY <1>5 DEF Spreads
<1>7. Spreads(v, Bubble(v, In[m]), S, D, own)
  BY <1>6, BubbleSpreads, MachineInIs
<1>8. HeardBy(w, m) = Bubble(v, In[m])
  BY DEF HeardBy, v, t
<1> QED BY <1>3, <1>5, <1>7, <1>8, SpreadsOn

(* Applying what an animation, a machine or a joystick keys.                *)
Holds(w, pose) == \A p \in DOMAIN pose : w.value[p] = pose[p]

LEMMA PoseSpreads ==
  ASSUME NEW w \in Works, NEW a \in Artboards, NEW q \in Sources(a), NEW at \in DOMAIN Pose[q],
         NEW S, NEW D, NEW own, KeyedBy(q) \subseteq S, a \in D
  PROVE  LET u == Apply(w, Pose[q][at]) IN
         Spreads(w, u, S, D, own) /\ Holds(u, Pose[q][at]) /\ u.state = w.state
<1> DEFINE pose == Pose[q][at]
           u == Apply(w, pose)
<1>1. IsPose(pose) /\ DOMAIN pose \subseteq PropertiesOf(a) /\ DOMAIN pose \subseteq S
  BY PoseOf DEF Sources, KeyedBy
<1> HIDE DEF pose
<1>2. \A p \in DOMAIN pose : \A b \in Artboards : Dirties(p, b) => b \in D
  BY <1>1, Dirtying
<1>3. Spreads(w, u, S, D, own)
  BY <1>1, <1>2, SpreadsApply
<1>4. DOMAIN pose \subseteq Properties
  BY <1>1 DEF IsPose
<1>5. Holds(u, pose) /\ u.state = w.state
  BY <1>1, <1>4, ApplyIs DEF Holds
<1> QED BY <1>3, <1>5 DEF pose

LEMMA ChangeSpreads ==
  ASSUME NEW w \in Works, NEW m \in Machines, NEW S, NEW D, KeyedBy(m) \subseteq S, In[m] \in D,
         Holds(w, Pose[m][w.state[m]])
  PROVE  LET u == Change(w, m) IN
         /\ Spreads(w, u, S, D, {m}) /\ Holds(u, Pose[m][u.state[m]])
         /\ Open(w, m) = {} => u = w
         /\ Open(w, m) # {} => u.state[m] = Goal(w, m)
<1>1. CASE Open(w, m) = {}
  BY <1>1, SpreadsSelf DEF Change
<1>2. CASE Open(w, m) # {}
  <2> DEFINE v == Arrived(w, m)
             g == Goal(w, m)
             u == Apply(v, Pose[m][g])
  <2>1. /\ v \in Works /\ v.state = [w.state EXCEPT ![m] = g]
        /\ v.value = w.value /\ v.dirty = w.dirty /\ v.needs = w.needs
    BY <1>2, ArrivedIs
  <2>2. Change(w, m) = u /\ g \in DOMAIN Pose[m]
    BY <1>2, MovedIs DEF Change, States
  <2>3. m \in Sources(In[m]) /\ In[m] \in Artboards /\ w.state \in StatesNow
    BY InIs, MachineInIs, WorkIsTyped DEF Sources, Typed
  <2> HIDE DEF v, g
  <2>4. v.state[m] = g /\ \A k \in Machines \ {m} : v.state[k] = w.state[k]
    BY <2>1, <2>3 DEF StatesNow
  <2>5. Spreads(w, v, S, D, {m})
    BY <2>1, <2>4, SpreadsSame
  <2>6. Spreads(v, u, S, D, {m}) /\ Holds(u, Pose[m][g]) /\ u.state = v.state
    BY <2>1, <2>2, <2>3, PoseSpreads
  <2> HIDE DEF u
  <2>7. Spreads(w, u, S, D, {m})
    BY <2>5, <2>6, SpreadsOn
  <2> QED BY <1>2, <2>2, <2>4, <2>6, <2>7 DEF g
<1> QED BY <1>1, <1>2

(* A machine does not go round in circles: whatever its inputs are, each     *)
(* transition they open leads further down.                                 *)
NoCircles ==
  \A m \in Machines : \A v \in [Inputs(m) -> BOOLEAN] :
    \E rank \in [States(m) -> 0 .. Len(Arcs[m])] : \A i \in DOMAIN Arcs[m] :
      v[Arcs[m][i].input] = Arcs[m][i].is /\ Arcs[m][i].from # Arcs[m][i].to
        => rank[Arcs[m][i].to] < rank[Arcs[m][i].from]

InputsOf(w, m) == [p \in Inputs(m) |-> w.value[p]]

(* A machine is not nested in its own artboard: it keys none of its inputs.  *)
LEMMA OwnInputs ==
  ASSUME NEW m \in Machines, NEW p \in KeyedBy(m)
  PROVE  p \notin Inputs(m)
<1>1. PICK at \in DOMAIN Pose[m] : p \in DOMAIN Pose[m][at]
  BY DEF KeyedBy
<1>2. p \in PropertiesOf(In[m]) /\ In[m] \in Artboards
  BY <1>1, MachinePose, MachineInIs DEF States
<1>3. In[m] \notin ToSet(Nested[In[m]])
  BY <1>2, NestedBelow
<1> QED BY <1>2, <1>3 DEF PropertiesOf, Inputs

LEMMA LayerSpreads ==
  ASSUME NEW w \in Works, NEW m \in Machines, NEW S, NEW D, KeyedBy(m) \subseteq S, In[m] \in D
  PROVE  LET u == Layer(w, m) IN
         /\ Spreads(w, u, S, D, {m}) /\ Holds(u, Pose[m][u.state[m]])
         /\ NoCircles => Open(u, m) = {}
<1> DEFINE End == Len(Arcs[m])
           K == KeyedBy(m)
           E == {In[m]}
<1>1. PICK f \in [0 .. End -> Works] :
        /\ f[0] = Apply(w, Pose[m][w.state[m]]) /\ Layer(w, m) = f[End]
        /\ \A i \in 1 .. End : f[i] = Change(f[i - 1], m)
  BY LayerIs
<1>2. End \in Nat /\ DOMAIN Arcs[m] = 1 .. End
  BY MachineAssumption
<1>3. m \in Sources(In[m]) /\ In[m] \in Artboards /\ w.state[m] \in DOMAIN Pose[m]
  BY InIs, MachineInIs, StateOf DEF Sources, States
<1> DEFINE v == InputsOf(w, m)
<1>4. v \in [Inputs(m) -> BOOLEAN]
  <2>1. \A p \in Inputs(m) : p \in Properties /\ Takes(p) = BOOLEAN
    BY DEF Inputs, Takes
  <2>2. \A p \in Inputs(m) : w.value[p] \in BOOLEAN
    BY <2>1, ValueTakes
  <2> QED BY <2>2 DEF InputsOf
<1> DEFINE Down(rank) == \A i \in DOMAIN Arcs[m] :
             v[Arcs[m][i].input] = Arcs[m][i].is /\ Arcs[m][i].from # Arcs[m][i].to
               => rank[Arcs[m][i].to] < rank[Arcs[m][i].from]
<1>5. PICK rank \in [States(m) -> 0 .. End] : NoCircles => Down(rank)
  <2>1. CASE NoCircles
    BY <1>4, <2>1 DEF NoCircles
  <2>2. CASE ~NoCircles
    <3>1. [s \in States(m) |-> 0] \in [States(m) -> 0 .. End]
      BY <1>2
    <3> QED BY <2>2, <3>1
  <2> QED BY <2>1, <2>2
<1> HIDE DEF K, E
<1> DEFINE Left(i) == Open(f[i], m) = {} \/ rank[f[i].state[m]] <= End - i
           M == {i \in 0 .. End : /\ Spreads(w, f[i], K, E, {m}) /\ Holds(f[i], Pose[m][f[i].state[m]])
                                  /\ NoCircles => Left(i)}
<1>6. \A i \in 0 .. End : f[i] \in Works /\ f[i].state[m] \in States(m) /\ rank[f[i].state[m]] \in 0 .. End
  BY StateOf
<1>7. 0 \in M
  <2>1. Spreads(w, f[0], K, E, {m}) /\ Holds(f[0], Pose[m][w.state[m]]) /\ f[0].state = w.state
    BY <1>1, <1>3, PoseSpreads DEF K, E
  <2>2. 0 \in 0 .. End
    BY <1>2
  <2>3. Left(0)
    BY <1>2, <1>6, <2>2
  <2> QED BY <2>1, <2>2, <2>3
<1>8. ASSUME NEW j \in 0 .. End - 1, j \in M PROVE j + 1 \in M
  <2>1. j + 1 \in 1 .. End /\ j + 1 \in 0 .. End /\ (j + 1) - 1 = j /\ j \in 0 .. End
    BY <1>2
  <2> DEFINE x == f[j]
             y == f[j + 1]
  <2>2. y = Change(x, m) /\ x \in Works /\ Spreads(w, x, K, E, {m}) /\ Holds(x, Pose[m][x.state[m]])
    BY <1>1, <1>8, <2>1
  <2>3. /\ Spreads(x, y, K, E, {m}) /\ Holds(y, Pose[m][y.state[m]])
        /\ Open(x, m) = {} => y = x
        /\ Open(x, m) # {} => y.state[m] = Goal(x, m)
    <3> HIDE DEF x, y
    <3> QED BY <2>2, ChangeSpreads DEF K, E
  <2>4. Spreads(w, y, K, E, {m})
    BY <2>2, <2>3, SpreadsOn
  <2>5. ASSUME NoCircles PROVE Left(j + 1)
    <3>1. CASE Open(x, m) = {}
      BY <2>3, <3>1
    <3>2. CASE Open(x, m) # {}
      <4>1. rank[x.state[m]] <= End - j
        BY <1>8, <2>5, <3>2
      <4> DEFINE i == Min(Open(x, m))
      <4>2. i \in Open(x, m) /\ Goal(x, m) = Arcs[m][i].to
        BY <3>2, FirstOpen DEF Goal
      <4> HIDE DEF i
      <4>3. /\ i \in DOMAIN Arcs[m] /\ Arcs[m][i].from = x.state[m] /\ Arcs[m][i].to # x.state[m]
            /\ x.value[Arcs[m][i].input] = Arcs[m][i].is /\ Arcs[m][i].input \in Inputs(m)
        BY <4>2, MachineAssumption DEF Open
      <4>4. \A p \in Inputs(m) : x.value[p] = v[p]
        <5>1. \A p \in Inputs(m) : p \in Properties /\ p \notin K
          BY OwnInputs DEF Inputs, K
        <5> QED BY <2>2, <5>1 DEF Spreads, InputsOf
      <4>5. rank[Arcs[m][i].to] < rank[x.state[m]]
        BY <1>5, <2>5, <4>3, <4>4
      <4>6. y.state[m] = Arcs[m][i].to
        BY <2>3, <3>2, <4>2
      <4>7. rank[y.state[m]] \in 0 .. End /\ rank[x.state[m]] \in 0 .. End
        BY <1>6, <2>1
      <4>8. j \in Nat
        BY <2>1
      <4> HIDE DEF x, y
      <4>9. rank[y.state[m]] <= End - (j + 1)
        BY <1>2, <4>1, <4>5, <4>6, <4>7, <4>8
      <4> QED BY <4>9 DEF y
    <3> QED BY <3>1, <3>2
  <2> QED BY <2>1, <2>3, <2>4, <2>5
<1>9. 0 .. End \subseteq M
  <2> HIDE DEF M, End
  <2> QED BY <1>2, <1>7, <1>8, BoundedInduction
<1>10. End \in M /\ End \in 0 .. End
  <2> HIDE DEF M
  <2>1. End \in 0 .. End
    BY <1>2
  <2> QED BY <1>9, <2>1
<1> DEFINE u == f[End]
<1>11. Spreads(w, u, K, E, {m}) /\ Holds(u, Pose[m][u.state[m]])
  BY <1>10
<1>12. ASSUME NoCircles PROVE Open(u, m) = {}
  <2>1. Open(u, m) = {} \/ rank[u.state[m]] <= End - End
    BY <1>10, <1>12
  <2>2. ASSUME rank[u.state[m]] <= End - End, NEW i \in Open(u, m) PROVE FALSE
    <3>1. /\ i \in DOMAIN Arcs[m] /\ Arcs[m][i].from = u.state[m] /\ Arcs[m][i].to # u.state[m]
          /\ u.value[Arcs[m][i].input] = Arcs[m][i].is /\ Arcs[m][i].input \in Inputs(m)
          /\ Arcs[m][i].to \in States(m)
      BY <2>2, MachineAssumption DEF Open
    <3>2. \A p \in Inputs(m) : u.value[p] = v[p]
      <4>1. \A p \in Inputs(m) : p \in Properties /\ p \notin K
        BY OwnInputs DEF Inputs, K
      <4> QED BY <1>11, <4>1 DEF Spreads, InputsOf
    <3>3. rank[Arcs[m][i].to] < rank[u.state[m]]
      BY <1>5, <1>12, <3>1, <3>2
    <3>4. rank[Arcs[m][i].to] \in 0 .. End /\ rank[u.state[m]] \in 0 .. End
      BY <1>6, <1>10, <3>1
    <3> HIDE DEF u
    <3> QED BY <1>2, <2>2, <3>3, <3>4
  <2> QED BY <2>1, <2>2
<1>13. Spreads(w, u, S, D, {m})
  <2>1. K \subseteq S /\ E \subseteq D
    BY DEF K, E
  <2> HIDE DEF u
  <2> QED BY <1>11, <2>1, SpreadsMore
<1> QED BY <1>1, <1>11, <1>12, <1>13

LEMMA KeyedSpreads ==
  ASSUME NEW w \in Works, NEW s \in Simples, NEW ids \in Seq(Ids), NEW S, NEW D, NEW own, Passed \subseteq S
  PROVE  Spreads(w, TellAllKeyed(w, s, ids), S, D, own)
<1> DEFINE End == Len(ids)
<1>1. PICK f \in [0 .. End -> Works] :
        /\ f[0] = w /\ TellAllKeyed(w, s, ids) = f[End]
        /\ \A i \in 1 .. End : f[i] = TellKeyed(f[i - 1], s, ids[i])
  BY TellAllKeyedIs
<1>2. End \in Nat /\ \A i \in 1 .. End : ids[i] \in Ids
  OBVIOUS
<1> HIDE DEF End
<1> DEFINE M == {i \in 0 .. End : Spreads(w, f[i], S, D, own)}
<1>3. 0 \in M
  BY <1>1, <1>2, SpreadsSelf
<1>4. ASSUME NEW j \in 0 .. End - 1, j \in M PROVE j + 1 \in M
  <2>1. j + 1 \in 1 .. End /\ j + 1 \in 0 .. End /\ (j + 1) - 1 = j /\ j \in 0 .. End
    BY <1>2
  <2> DEFINE id == ids[j + 1]
             x == f[j]
             v == Keys(x, s, id)
  <2>2. f[j + 1] = TellKeyed(x, s, id) /\ x \in Works /\ id \in Ids /\ Spreads(w, x, S, D, own)
    BY <1>1, <1>2, <1>4, <2>1
  <2> HIDE DEF id, x
  <2>3. /\ v \in Works /\ In[s] \in Artboards
        /\ v.value = x.value /\ v.dirty = x.dirty /\ v.needs = x.needs /\ v.state = x.state
    BY <2>2, KeysIs
  <2>4. TellKeyed(x, s, id) = Bubble(v, In[s])
    BY <2>2, TellKeyedIs
  <2> HIDE DEF v
  <2>5. Spreads(x, v, S, D, own)
    BY <2>2, <2>3, SpreadsSame
  <2>6. Spreads(v, Bubble(v, In[s]), S, D, own)
    BY <2>3, BubbleSpreads
  <2>7. Spreads(w, f[j + 1], S, D, own)
    BY <2>2, <2>4, <2>5, <2>6, SpreadsOn
  <2> QED BY <2>1, <2>7
<1>5. 0 .. End \subseteq M
  <2> HIDE DEF M
  <2> QED BY <1>2, <1>3, <1>4, BoundedInduction
<1> QED BY <1>1, <1>2, <1>5

-----------------------------------------------------------------------------
(* What an update changes, and that it makes the artboard one of those that *)
(* are up to date.                                                          *)
Followers(a) == Sticks(a) \cup {<<"opacity", n>> : n \in ToSet(Nested[a])}

LEMMA FollowersAre ==
  ASSUME NEW w \in Works, NEW a \in Artboards
  PROVE  /\ DOMAIN Updates(w, a) \subseteq Followers(a)
         /\ \A p \in Followers(a) : p[1] \in {"x", "opacity"} /\ \A b \in Artboards : Dirties(p, b) => b \in ToSet(Nested[a])
<1>1. DOMAIN Updates(w, a) = Sticks(a) \cup Lit(w, a)
  BY UpdatesIs
<1>2. Lit(w, a) \subseteq {<<"opacity", n>> : n \in ToSet(Nested[a])}
  BY DEF Lit
<1>3. ASSUME NEW p \in Followers(a)
      PROVE  p[1] \in {"x", "opacity"} /\ \A b \in Artboards : Dirties(p, b) => b \in ToSet(Nested[a])
  <2>1. CASE p \in Sticks(a)
    BY <2>1 DEF Sticks, Dirties
  <2>2. CASE \E n \in ToSet(Nested[a]) : p = <<"opacity", n>>
    BY <2>2 DEF Dirties
  <2> QED BY <1>3, <2>1, <2>2 DEF Followers
<1> QED BY <1>1, <1>2, <1>3 DEF Followers

LEMMA TiedUpdate ==
  ASSUME NEW w \in Works, NEW a \in Artboards, Tied(w)
  PROVE  Tied(Update(w, a))
<1>1. CASE a \notin w.dirty
  BY <1>1, UpdateIs
<1>2. CASE a \in w.dirty
  <2> DEFINE v == Swept(w, a)
             pose == Updates(w, a)
             u == Update(w, a)
  <2>1. u = Apply(v, pose)
    BY <1>2, UpdateIs
  <2>2. v \in Works /\ v.value = w.value /\ v.dirty = w.dirty \ {a}
    BY SweptIs
  <2>3. /\ IsPose(pose) /\ DOMAIN pose = Sticks(a) \cup Lit(w, a)
        /\ \A j \in ToSet(Joysticks[a]) \cap Handled :
             <<"x", j>> \in DOMAIN pose /\ pose[<<"x", j>>] = w.value[<<"node", a>>]
        /\ \A n \in ToSet(Nested[a]) : ~Collapsed(w, n) =>
             <<"opacity", n>> \in DOMAIN pose /\ pose[<<"opacity", n>>] = Rendered(w, n)
    BY UpdatesIs
  <2> HIDE DEF v, pose, u
  <2>4. /\ \A p \in Properties : u.value[p] = IF p \in DOMAIN pose THEN pose[p] ELSE w.value[p]
        /\ u.dirty = (w.dirty \ {a}) \cup {b \in Artboards : \E p \in ChangedBy(v, pose) : Dirties(p, b)}
    BY <2>1, <2>2, <2>3, ApplyIs
  <2>5. \A p \in Properties : u.value[p] # w.value[p] => p \in ChangedBy(v, pose)
    BY <2>2, <2>4 DEF ChangedBy
  <2>6. /\ \A b : <<"node", b>> \notin DOMAIN pose /\ <<"alpha", b>> \notin DOMAIN pose /\ <<"active", b>> \notin DOMAIN pose
        /\ \A j : <<"x", j>> \in DOMAIN pose => j \in ToSet(Joysticks[a])
        /\ \A n : <<"opacity", n>> \in DOMAIN pose => n \in ToSet(Nested[a])
    BY <2>3 DEF Sticks, Lit
  <2>7. ASSUME NEW b \in Artboards, b \notin u.dirty, NEW j \in ToSet(Joysticks[b]) \cap Handled
        PROVE  u.value[<<"x", j>>] = u.value[<<"node", b>>]
    <3>1. <<"x", j>> \in Properties /\ <<"node", b>> \in Properties
      BY StickIs
    <3>2. u.value[<<"node", b>>] = w.value[<<"node", b>>]
      BY <2>4, <2>6, <3>1
    <3>3. CASE b = a
      BY <2>3, <2>4, <2>7, <3>1, <3>2, <3>3
    <3>4. CASE b # a
      <4>1. j \notin ToSet(Joysticks[a])
        BY <2>7, <3>4, TreeAssumption
      <4>2. u.value[<<"x", j>>] = w.value[<<"x", j>>]
        BY <2>4, <2>6, <3>1, <4>1
      <4>3. b \notin w.dirty
        BY <2>4, <2>7, <3>4
      <4> QED BY <2>7, <3>2, <4>2, <4>3 DEF Tied
    <3> QED BY <3>3, <3>4
  <2>8. ASSUME NEW n \in Artboards \ {Root}, ~Collapsed(u, n), Host(n) \notin u.dirty
        PROVE  u.value[<<"opacity", n>>] = Rendered(u, n)
    <3> DEFINE h == Host(n)
    <3>1. h \in Artboards /\ n \in ToSet(Nested[h])
      BY PathIs
    <3>2. /\ <<"opacity", n>> \in Properties /\ <<"alpha", n>> \in Properties /\ <<"opacity", h>> \in Properties
          /\ n \in Soloed => <<"active", h>> \in Properties
      BY <3>1, PropertyAssumption
    <3>3. /\ u.value[<<"alpha", n>>] = w.value[<<"alpha", n>>]
          /\ n \in Soloed => u.value[<<"active", h>>] = w.value[<<"active", h>>]
      BY <2>4, <2>6, <3>2
    <3>4. ~Collapsed(w, n)
      BY <2>8, <3>3 DEF Collapsed
    <3>5. u.value[<<"opacity", h>>] = w.value[<<"opacity", h>>]
      <4>1. Dirties(<<"opacity", h>>, h)
        BY DEF Dirties
      <4> HIDE DEF h
      <4>2. u.value[<<"opacity", h>>] # w.value[<<"opacity", h>>] => h \in u.dirty
        BY <2>4, <2>5, <3>1, <3>2, <4>1
      <4> QED BY <2>8, <4>2 DEF h
    <3>6. Rendered(u, n) = Rendered(w, n)
      BY <3>3, <3>5 DEF Rendered
    <3>7. CASE h = a
      BY <2>3, <2>4, <3>1, <3>2, <3>4, <3>6, <3>7
    <3>8. CASE h # a
      <4>1. n \notin ToSet(Nested[a])
        BY <3>8, HostIs
      <4>2. u.value[<<"opacity", n>>] = w.value[<<"opacity", n>>]
        BY <2>4, <2>6, <3>2, <4>1
      <4>3. h \notin w.dirty
        BY <2>4, <2>8, <3>1, <3>8
      <4>4. w.value[<<"opacity", n>>] = Rendered(w, n)
        BY <3>4, <4>3 DEF Tied
      <4> QED BY <3>6, <4>2, <4>4
    <3> QED BY <3>7, <3>8
  <2>9. Tied(u)
    BY <2>7, <2>8 DEF Tied
  <2> QED BY <2>9 DEF u
<1> QED BY <1>1, <1>2

LEMMA UpdateSpreads ==
  ASSUME NEW w \in Works, NEW a \in Artboards, NEW S, NEW D, NEW own,
         Followers(a) \subseteq S, ToSet(Nested[a]) \subseteq D
  PROVE  /\ Spreads(w, Update(w, a), S, D, own)
         /\ a \notin Update(w, a).dirty
<1>1. CASE a \notin w.dirty
  BY <1>1, UpdateIs, SpreadsSelf
<1>2. CASE a \in w.dirty
  <2> DEFINE v == Swept(w, a)
             pose == Updates(w, a)
             u == Update(w, a)
  <2>1. u = Apply(v, pose) /\ u \in Works
    BY <1>2, UpdateIs
  <2>2. v \in Works /\ v.value = w.value /\ v.dirty = w.dirty \ {a} /\ v.state = w.state /\ v.needs = w.needs
    BY SweptIs
  <2>3. IsPose(pose)
    BY UpdatesIs
  <2>4. DOMAIN pose \subseteq S /\ \A p \in DOMAIN pose : \A b \in Artboards : Dirties(p, b) => b \in ToSet(Nested[a])
    BY FollowersAre
  <2>5. Tied(w) => Tied(u)
    BY TiedUpdate
  <2> HIDE DEF v, pose, u
  <2>6. Spreads(v, u, S, ToSet(Nested[a]), own)
    BY <2>1, <2>2, <2>3, <2>4, SpreadsApply
  <2>7. \A m \in Machines : Open(v, m) = Open(w, m)
    BY <2>2 DEF Open
  <2>8. \A m \in Machines : Rested(w, m) => Rested(v, m)
    BY <2>2, <2>7 DEF Rested
  <2>9. Spreads(w, u, S, D, own)
    BY <2>1, <2>2, <2>5, <2>6, <2>8 DEF Spreads
  <2>10. a \notin ToSet(Nested[a])
    BY NestedBelow
  <2>11. a \notin u.dirty
    BY <2>2, <2>6, <2>10 DEF Spreads
  <2> QED BY <2>9, <2>11 DEF u
<1> QED BY <1>1, <1>2

(* All that the joysticks of an artboard ever key, and what follows.        *)
Reach(a) == (UNION {KeyedBy(j) : j \in ToSet(Joysticks[a])}) \cup Followers(a)

LEMMA PulledSpreads ==
  ASSUME NEW w \in Works, NEW a \in Artboards, NEW j \in ToSet(Joysticks[a])
  PROVE  LET v == IF j \in Handled /\ ~AllApplyBefore(a) THEN Update(w, a) ELSE w
             u == Pulled(w, a, j)
         IN
         /\ v \in Works /\ u = Apply(v, Pose[j][v.value[<<"x", j>>]])
         /\ Spreads(w, u, Reach(a), {a} \cup ToSet(Nested[a]), {})
         /\ Holds(u, Pose[j][v.value[<<"x", j>>]])
<1> DEFINE v == IF j \in Handled /\ ~AllApplyBefore(a) THEN Update(w, a) ELSE w
           S == Reach(a)
           D == {a} \cup ToSet(Nested[a])
<1>1. v \in Works /\ Spreads(w, v, S, D, {})
  <2>1. Followers(a) \subseteq S /\ ToSet(Nested[a]) \subseteq D
    BY DEF Reach
  <2> HIDE DEF S, D
  <2>2. Spreads(w, Update(w, a), S, D, {}) /\ Spreads(w, w, S, D, {})
    BY <2>1, UpdateSpreads, SpreadsSelf
  <2>3. v = w \/ v = Update(w, a)
    OBVIOUS
  <2> HIDE DEF v
  <2>4. Spreads(w, v, S, D, {})
    BY <2>2, <2>3
  <2> QED BY <2>4 DEF Spreads
<1>2. Pulled(w, a, j) = ApplyJoystick(v, j)
  BY DEF Pulled
<1> HIDE DEF v
<1>3. v.value[<<"x", j>>] \in DOMAIN Pose[j] /\ ApplyJoystick(v, j) = Apply(v, Pose[j][v.value[<<"x", j>>]])
  BY <1>1, ApplyJoystickIs
<1>4. j \in Sources(a) /\ KeyedBy(j) \subseteq S
  BY DEF Sources, Reach
<1> DEFINE at == v.value[<<"x", j>>]
<1> HIDE DEF S, D, at
<1>5. at \in DOMAIN Pose[j]
  BY <1>3 DEF at
<1>6. a \in D
  BY DEF D
<1>7. Spreads(v, Apply(v, Pose[j][at]), S, D, {}) /\ Holds(Apply(v, Pose[j][at]), Pose[j][at])
  BY <1>1, <1>4, <1>5, <1>6, PoseSpreads
<1>8. Spreads(w, Apply(v, Pose[j][at]), S, D, {})
  BY <1>1, <1>7, SpreadsOn
<1> QED BY <1>1, <1>2, <1>3, <1>7, <1>8 DEF v, S, D, at

LEMMA PullSpreads ==
  ASSUME NEW w \in Works, NEW a \in Artboards
  PROVE  Spreads(w, Pull(w, a), Reach(a), {a} \cup ToSet(Nested[a]), {})
<1> DEFINE End == Len(Joysticks[a])
           S == Reach(a)
           D == {a} \cup ToSet(Nested[a])
<1>1. PICK f \in [0 .. End -> Works] :
        /\ f[0] = w /\ Pull(w, a) = f[End]
        /\ \A i \in 1 .. End : f[i] = Pulled(f[i - 1], a, Joysticks[a][i])
  BY PullIs
<1>2. End \in Nat /\ \A i \in 1 .. End : Joysticks[a][i] \in ToSet(Joysticks[a])
  BY SticksAre
<1>3. \A v \in Works : \A i \in 1 .. End : Spreads(v, Pulled(v, a, Joysticks[a][i]), S, D, {})
  BY <1>2, PulledSpreads
<1> HIDE DEF End, S, D
<1> DEFINE M == {i \in 0 .. End : Spreads(w, f[i], S, D, {})}
<1>4. 0 \in M
  BY <1>1, <1>2, SpreadsSelf
<1>5. ASSUME NEW j \in 0 .. End - 1, j \in M PROVE j + 1 \in M
  <2>1. j + 1 \in 1 .. End /\ j + 1 \in 0 .. End /\ (j + 1) - 1 = j /\ j \in 0 .. End
    BY <1>2
  <2>2. f[j + 1] = Pulled(f[j], a, Joysticks[a][j + 1]) /\ f[j] \in Works
    BY <1>1, <2>1
  <2>3. Spreads(f[j], f[j + 1], S, D, {})
    BY <1>3, <2>1, <2>2
  <2>4. Spreads(w, f[j + 1], S, D, {})
    BY <1>5, <2>3, SpreadsOn
  <2> QED BY <2>1, <2>4
<1>6. 0 .. End \subseteq M
  <2> HIDE DEF M
  <2> QED BY <1>2, <1>4, <1>5, BoundedInduction
<1>7. Spreads(w, Pull(w, a), S, D, {})
  BY <1>1, <1>2, <1>6
<1> QED BY <1>7 DEF S, D

LEMMA ArtboardSpreads ==
  ASSUME NEW w \in Works, NEW a \in Artboards
  PROVE  LET u == JoysticksAndUpdates(w, a) IN
         /\ Spreads(w, u, Reach(a), {a} \cup ToSet(Nested[a]), {}) /\ a \notin u.dirty
<1> DEFINE s == IF AllApplyBefore(a) THEN w ELSE Update(w, a)
           t == Pull(s, a)
           u == Update(t, a)
           S == Reach(a)
           D == {a} \cup ToSet(Nested[a])
<1>1. JoysticksAndUpdates(w, a) = u
  BY DEF JoysticksAndUpdates
<1>2. Followers(a) \subseteq S /\ ToSet(Nested[a]) \subseteq D
  BY DEF Reach
<1>3. s \in Works /\ Spreads(w, s, S, D, {})
  <2> HIDE DEF S, D, t, u
  <2>2. Spreads(w, Update(w, a), S, D, {}) /\ Spreads(w, w, S, D, {})
    BY <1>2, UpdateSpreads, SpreadsSelf
  <2>3. s = w \/ s = Update(w, a)
    OBVIOUS
  <2> HIDE DEF s
  <2>4. Spreads(w, s, S, D, {})
    BY <2>2, <2>3
  <2> QED BY <2>4 DEF Spreads
<1> HIDE DEF s
<1>4. Spreads(s, t, S, D, {}) /\ t \in Works
  BY <1>3, PullSpreads DEF Spreads
<1> HIDE DEF t, S, D
<1>5. Spreads(t, u, S, D, {}) /\ a \notin u.dirty
  BY <1>2, <1>4, UpdateSpreads
<1> HIDE DEF u
<1>6. Spreads(w, u, S, D, {})
  BY <1>3, <1>4, <1>5, SpreadsOn
<1> QED BY <1>1, <1>5, <1>6 DEF S, D

-----------------------------------------------------------------------------
(* What the steps of a frame change.                                       *)
LEMMA BecomesSpreads ==
  ASSUME NEW u, Becomes(u), NEW S, NEW D, NEW own, Spreads(Now, u, S, D, own)
  PROVE  /\ Spreads(Now, Now', S, D, own)
         /\ Now'.value = u.value /\ Now'.dirty = u.dirty /\ Now'.state = u.state /\ Now'.needs = u.needs
<1>1. u \in Works
  BY DEF Spreads
<1>2. Now' \in Works
  BY <1>1, BecomesIs
<1>3. Now'.value = u.value /\ Now'.dirty = u.dirty /\ Now'.state = u.state /\ Now'.needs = u.needs
  BY DEF Becomes, Now
<1> DEFINE v == Now'
<1> HIDE DEF v
<1>4. v \in Works /\ v.value = u.value /\ v.dirty = u.dirty /\ v.state = u.state /\ v.needs = u.needs
  BY <1>2, <1>3 DEF v
<1>5. Spreads(u, v, S, D, own)
  BY <1>1, <1>4, SpreadsSame
<1>6. Spreads(Now, v, S, D, own)
  BY <1>5, SpreadsOn
<1> QED BY <1>3, <1>6 DEF v

LEMMA MachineStep ==
  ASSUME Now \in Works, InOrder(todo), AdvanceMachine
  PROVE  \E m \in Machines :
           /\ Call("machine", m) /\ todo' = Tail(todo) /\ UNCHANGED <<time, elapsed>>
           /\ answer' = (state'[m] \in Looping \/ answer)
           /\ Spreads(Now, Now', KeyedBy(m) \cup Owned(m) \cup Passed, {In[m]}, {m})
           /\ Holds(Now', Pose[m][state'[m]])
           /\ NoCircles => Open(Now', m) = {}
<1>1. PICK m \in Machines :
        /\ Call("machine", m)
        /\ LET after == Advanced(Heard(m), m)
               goes == after.state[m] \in Looping
           IN  Becomes([after EXCEPT !.needs[m] = goes]) /\ Returns(goes, <<>>)
        /\ UNCHANGED time
  BY DEF AdvanceMachine
<1> DEFINE h == HeardBy(Now, m)
           c == Cleared(h, m)
           after == Layer(c, m)
           goes == after.state[m] \in Looping
           u == Asks(after, m, goes)
           S == KeyedBy(m) \cup Owned(m) \cup Passed
           D == {In[m]}
<1>2. Heard(m) = h
  BY NowIs DEF Heard, HeardBy, Tells
<1>3. Advanced(Heard(m), m) = after
  BY <1>2 DEF Advanced, Cleared
<1>4. Becomes(u) /\ Returns(goes, <<>>)
  BY <1>1, <1>3 DEF Asks
<1>5. Spreads(Now, h, S, D, {m})
  BY HeardSpreads
<1> HIDE DEF h
<1>6. h \in Works
  BY <1>5 DEF Spreads
<1>7. /\ c \in Works /\ c.needs = [h.needs EXCEPT ![m] = FALSE]
      /\ c.value = h.value /\ c.dirty = h.dirty /\ c.state = h.state
  BY <1>6, ClearedIs
<1> HIDE DEF c
<1>8. \A k \in Machines \ {m} : c.needs[k] = h.needs[k]
  <2>1. h.needs \in [Machines -> BOOLEAN]
    BY <1>6, WorkIsTyped DEF Typed
  <2> QED BY <1>7, <2>1
<1>9. Spreads(h, c, S, D, {m})
  BY <1>6, <1>7, <1>8, SpreadsSame
<1>10. /\ Spreads(c, after, S, D, {m}) /\ Holds(after, Pose[m][after.state[m]])
       /\ NoCircles => Open(after, m) = {}
  BY <1>7, LayerSpreads
<1> HIDE DEF after
<1>11. after \in Works
  BY <1>10 DEF Spreads
<1>12. /\ u \in Works /\ u.needs = [after.needs EXCEPT ![m] = goes]
       /\ u.value = after.value /\ u.dirty = after.dirty /\ u.state = after.state
  <2>1. goes \in BOOLEAN
    OBVIOUS
  <2> HIDE DEF goes
  <2> QED BY <1>11, <2>1, AsksIs
<1> HIDE DEF goes, u
<1>13. \A k \in Machines \ {m} : u.needs[k] = after.needs[k]
  <2>1. after.needs \in [Machines -> BOOLEAN]
    BY <1>11, WorkIsTyped DEF Typed
  <2> QED BY <1>12, <2>1
<1>14. Spreads(after, u, S, D, {m})
  BY <1>11, <1>12, <1>13, SpreadsSame
<1>15. Spreads(Now, u, S, D, {m})
  <2>1. Spreads(Now, c, S, D, {m})
    BY <1>5, <1>9, SpreadsOn
  <2>2. Spreads(Now, after, S, D, {m})
    BY <1>10, <2>1, SpreadsOn
  <2> QED BY <1>14, <2>2, SpreadsOn
<1>16. Spreads(Now, Now', S, D, {m}) /\ Now'.value = after.value /\ Now'.state = after.state
  BY <1>4, <1>12, <1>15, BecomesSpreads
<1>17. state' = after.state
  BY <1>16 DEF Now
<1>18. Holds(Now', Pose[m][state'[m]])
  BY <1>10, <1>16, <1>17 DEF Holds
<1>19. NoCircles => Open(Now', m) = {}
  BY <1>10, <1>16 DEF Open
<1>20. todo' = Tail(todo) /\ answer' = (state'[m] \in Looping \/ answer) /\ elapsed' = elapsed
  <2>1. todo' = <<>> \o Tail(todo) /\ answer' = OrElse(goes) /\ elapsed' = elapsed
    BY <1>4 DEF Returns
  <2>2. todo # <<>> /\ Tail(todo) \in Seq(CallsOfFrame)
    BY <1>1, HeadIs, RestIs
  <2>3. \A s \in Seq(CallsOfFrame) : <<>> \o s = s
    OBVIOUS
  <2> QED BY <1>17, <2>1, <2>2, <2>3 DEF OrElse, goes
<1> QED BY <1>1, <1>16, <1>18, <1>19, <1>20 DEF S, D

LEMMA SimpleStep ==
  ASSUME Now \in Works, InLength, InOrder(todo), AdvanceSimple
  PROVE  \E s \in Simples :
           /\ Call("simple", s) /\ todo' = Tail(todo) /\ elapsed' = elapsed
           /\ time' = [time EXCEPT ![s] = Next1(s)] /\ Next1(s) \in 0 .. Length[s]
           /\ answer' = ((value[<<"playing", s>>] /\ (elapsed = 0 \/ s \in Loops \/ Next1(s) < Length[s])) \/ answer)
           /\ Spreads(Now, Now', KeyedBy(s) \cup Passed, {In[s]}, {})
<1>1. PICK s \in Simples :
           /\ Call("simple", s)
           /\ time' = [time EXCEPT ![s] = Next1(s)] /\ Next1(s) \in 0 .. Length[s]
           /\ Moves(s) => time[s] + 1 \in 1 .. Length[s]
           /\ Becomes(IF value[<<"mix", s>>] = 0 THEN Plays(s) ELSE Apply(Plays(s), Pose[s][Next1(s)]))
           /\ Returns(value[<<"playing", s>>] /\ (elapsed = 0 \/ s \in Loops \/ Next1(s) < Length[s]), <<>>)
  BY SimpleSteps
<1> DEFINE u == Plays(s)
           v == IF value[<<"mix", s>>] = 0 THEN u ELSE Apply(u, Pose[s][Next1(s)])
           S == KeyedBy(s) \cup Passed
           D == {In[s]}
<1>2. Spreads(Now, u, S, D, {})
  <2>1. CASE Moves(s)
    <3>1. Keyed[s][time[s] + 1] \in Seq(Ids)
      BY <1>1, <2>1, MachineAssumption
    <3>2. Passed \subseteq S
      OBVIOUS
    <3> HIDE DEF S, D
    <3>3. Spreads(Now, TellAllKeyed(Now, s, Keyed[s][time[s] + 1]), S, D, {})
      BY <3>1, <3>2, KeyedSpreads
    <3> QED BY <2>1, <3>3 DEF Plays
  <2>2. CASE ~Moves(s)
    <3> HIDE DEF S, D
    <3>1. Spreads(Now, Now, S, D, {})
      BY SpreadsSelf
    <3> QED BY <2>2, <3>1 DEF Plays
  <2> QED BY <2>1, <2>2
<1>3. /\ In[s] \in Artboards /\ s \in Sources(In[s]) /\ Next1(s) \in DOMAIN Pose[s]
      /\ KeyedBy(s) \subseteq S /\ In[s] \in D
  BY <1>1, InIs, MachineAssumption DEF Simples, Sources
<1> HIDE DEF u, S, D
<1>4. Spreads(Now, v, S, D, {})
  <2>1. u \in Works
    BY <1>2 DEF Spreads
  <2>2. Spreads(u, Apply(u, Pose[s][Next1(s)]), S, D, {})
    BY <1>3, <2>1, PoseSpreads
  <2>3. Spreads(Now, Apply(u, Pose[s][Next1(s)]), S, D, {})
    BY <1>2, <2>2, SpreadsOn
  <2>4. v = u \/ v = Apply(u, Pose[s][Next1(s)])
    OBVIOUS
  <2> HIDE DEF v
  <2> QED BY <1>2, <2>3, <2>4
<1>5. Becomes(v)
  BY <1>1 DEF u
<1> HIDE DEF v
<1>6. Spreads(Now, Now', S, D, {})
  BY <1>4, <1>5, BecomesSpreads
<1>7. /\ todo' = Tail(todo) /\ elapsed' = elapsed
      /\ answer' = ((value[<<"playing", s>>] /\ (elapsed = 0 \/ s \in Loops \/ Next1(s) < Length[s])) \/ answer)
  <2>2. todo # <<>> /\ Tail(todo) \in Seq(CallsOfFrame)
    BY <1>1, HeadIs, RestIs
  <2>3. \A t \in Seq(CallsOfFrame) : <<>> \o t = t
    OBVIOUS
  <2> QED BY <1>1, <2>2, <2>3 DEF OrElse, Returns
<1> QED BY <1>1, <1>6, <1>7 DEF S, D

LEMMA RemapTime ==
  ASSUME Now \in Works, NEW r \in Remaps
  PROVE  value[<<"time", r>>] \in DOMAIN Pose[r]
<1>1. <<"time", r>> \in Properties /\ Takes(<<"time", r>>) = DOMAIN Pose[r]
  BY PropertyAssumption DEF Takes
<1> QED BY <1>1, ValueTakes, NowIs

LEMMA RemapStep ==
  ASSUME Now \in Works, InOrder(todo), AdvanceRemap
  PROVE  \E r \in Remaps :
           /\ Call("remap", r) /\ todo' = Tail(todo) /\ UNCHANGED <<time, elapsed>>
           /\ answer' = (value[<<"mix", r>>] # 0 \/ answer)
           /\ Spreads(Now, Now', KeyedBy(r), {In[r]}, {})
           /\ value[<<"mix", r>>] # 0 => Holds(Now', Pose[r][value[<<"time", r>>]])
<1>1. PICK r \in Remaps :
        /\ Call("remap", r)
        /\ Becomes(IF value[<<"mix", r>>] # 0 THEN Apply(Now, Pose[r][value[<<"time", r>>]]) ELSE Now)
        /\ Returns(value[<<"mix", r>>] # 0, <<>>)
        /\ UNCHANGED time
  BY DEF AdvanceRemap
<1> DEFINE u == Apply(Now, Pose[r][value[<<"time", r>>]])
           S == KeyedBy(r)
           D == {In[r]}
<1>2. value[<<"time", r>>] \in DOMAIN Pose[r]
  BY RemapTime
<1>3. In[r] \in Artboards /\ r \in Sources(In[r]) /\ KeyedBy(r) \subseteq S /\ In[r] \in D
  BY InIs DEF Remaps, Sources
<1> HIDE DEF S, D
<1>4. Spreads(Now, u, S, D, {}) /\ Holds(u, Pose[r][value[<<"time", r>>]])
  BY <1>2, <1>3, PoseSpreads
<1>5. Spreads(Now, Now, S, D, {})
  BY SpreadsSelf
<1>6. ASSUME value[<<"mix", r>>] # 0
      PROVE  Spreads(Now, Now', S, D, {}) /\ (value[<<"mix", r>>] # 0 => Holds(Now', Pose[r][value[<<"time", r>>]]))
  <2>1. Becomes(u)
    BY <1>1, <1>6
  <2> HIDE DEF u
  <2>2. Spreads(Now, Now', S, D, {}) /\ Now'.value = u.value
    BY <1>4, <2>1, BecomesSpreads
  <2> QED BY <1>4, <2>2 DEF Holds
<1>7. ASSUME ~(value[<<"mix", r>>] # 0)
      PROVE  Spreads(Now, Now', S, D, {}) /\ (value[<<"mix", r>>] # 0 => Holds(Now', Pose[r][value[<<"time", r>>]]))
  <2>1. Becomes(Now)
    BY <1>1, <1>7
  <2> HIDE DEF u
  <2>2. Spreads(Now, Now', S, D, {})
    BY <1>5, <2>1, BecomesSpreads
  <2> QED BY <1>7, <2>2
<1>8. Spreads(Now, Now', S, D, {}) /\ (value[<<"mix", r>>] # 0 => Holds(Now', Pose[r][value[<<"time", r>>]]))
  BY <1>6, <1>7
<1>9. todo' = Tail(todo) /\ elapsed' = elapsed /\ answer' = (value[<<"mix", r>>] # 0 \/ answer)
  <2>2. todo # <<>> /\ Tail(todo) \in Seq(CallsOfFrame)
    BY <1>1, HeadIs, RestIs
  <2>3. \A t \in Seq(CallsOfFrame) : <<>> \o t = t
    OBVIOUS
  <2> QED BY <1>1, <2>2, <2>3 DEF OrElse, Returns
<1> QED BY <1>1, <1>8, <1>9 DEF S, D

LEMMA ArtboardStep ==
  ASSUME Now \in Works, AdvanceArtboard
  PROVE  \E a \in Artboards : LET u == JoysticksAndUpdates(Now, a) IN
           /\ Call("artboard", a) /\ todo' = Visits("nested", Nested[a]) \o Tail(todo) /\ UNCHANGED <<time, elapsed>>
           /\ answer' = (u.updated \/ answer)
           /\ Spreads(Now, Now', Reach(a), {a} \cup ToSet(Nested[a]), {})
           /\ a \notin Now'.dirty
           /\ Now'.value = u.value /\ Now'.dirty = u.dirty
<1>1. PICK a \in Artboards :
        /\ Call("artboard", a)
        /\ LET after == JoysticksAndUpdates(Now, a) IN
           /\ Becomes(after)
           /\ Returns(after.updated, Visits("nested", Nested[a]))
        /\ UNCHANGED time
  BY DEF AdvanceArtboard
<1> DEFINE u == JoysticksAndUpdates(Now, a)
           S == Reach(a)
           D == {a} \cup ToSet(Nested[a])
<1>2. Spreads(Now, u, S, D, {}) /\ a \notin u.dirty
  BY ArtboardSpreads
<1>3. Becomes(u) /\ Returns(u.updated, Visits("nested", Nested[a]))
  BY <1>1
<1> HIDE DEF u, S, D
<1>4. Spreads(Now, Now', S, D, {}) /\ Now'.dirty = u.dirty /\ Now'.value = u.value
  BY <1>2, <1>3, BecomesSpreads
<1> QED BY <1>1, <1>2, <1>3, <1>4 DEF OrElse, Returns, u, S, D

-----------------------------------------------------------------------------
(* A call at an artboard leaves alone what is shown and played elsewhere.  *)
Local(S, c) ==
  \A p \in S : p[1] \in {"active", "playing", "mix", "time", "x"} => p \in PropertiesOf(c)

LEMMA LocalJoin ==
  ASSUME NEW S, NEW T, NEW c, Local(S, c), Local(T, c)
  PROVE  Local(S \cup T, c)
  BY DEF Local

LEMMA KeyedByIs ==
  ASSUME NEW a \in Artboards, NEW q \in Sources(a)
  PROVE  KeyedBy(q) \subseteq PropertiesOf(a)
<1> SUFFICES ASSUME NEW at \in DOMAIN Pose[q], NEW p \in DOMAIN Pose[q][at]
             PROVE  p \in PropertiesOf(a)
  BY DEF KeyedBy
<1>1. q \in ToSet(Animations[a]) \cup ToSet(Joysticks[a])
  BY DEF Sources
<1> QED BY <1>1, PoseOf

LEMMA PassedAre ==
  /\ \A p \in Passed : p \in Properties /\ p[1] = "input"
  /\ \A m : \A p \in Owned(m) : p \in Properties /\ p[1] = "input"
<1>1. ASSUME NEW l \in Setters PROVE Listener(l).what \in Properties /\ Listener(l).what[1] = "input"
  <2>1. l \in Ears /\ Listener(l).does = "set"
    BY DEF Setters
  <2>2. PICK m \in Machines : \E i \in DOMAIN Listeners[m] : l = <<m, i>>
    BY <2>1 DEF Ears
  <2> PICK i \in DOMAIN Listeners[m] : l = <<m, i>>
    BY <2>2
  <2>3. Listener(l) = Listeners[m][i]
    BY DEF Listener
  <2>4. \E n \in Machines : Listeners[m][i].what \in Inputs(n)
    BY <2>1, <2>3, MachineAssumption
  <2> QED BY <2>3, <2>4 DEF Inputs
<1> QED BY <1>1 DEF Passed, Owned

LEMMA LocalAre ==
  ASSUME NEW c \in Artboards
  PROVE  /\ \A q \in Sources(c) : Local(KeyedBy(q), c)
         /\ Local(Passed, c) /\ \A m : Local(Owned(m), c)
         /\ Local(Reach(c), c)
<1>1. \A q \in Sources(c) : Local(KeyedBy(q), c)
  BY KeyedByIs DEF Local
<1>2. Local(Passed, c) /\ \A m : Local(Owned(m), c)
  BY PassedAre DEF Local
<1>3. Local(Followers(c), c)
  <2>1. \A p \in Sticks(c) : p \in PropertiesOf(c)
    <3> SUFFICES ASSUME NEW j \in ToSet(Joysticks[c]) PROVE <<"x", j>> \in PropertiesOf(c)
      BY DEF Sticks
    <3>1. <<"x", j>> \in Properties
      BY StickIs
    <3> QED BY <3>1 DEF PropertiesOf
  <2>2. \A p \in Followers(c) : p \in Sticks(c) \/ p[1] = "opacity"
    BY DEF Followers
  <2> QED BY <2>1, <2>2 DEF Local
<1>4. Local(Reach(c), c)
  <2>1. ToSet(Joysticks[c]) \subseteq Sources(c)
    BY DEF Sources
  <2>2. Local(UNION {KeyedBy(j) : j \in ToSet(Joysticks[c])}, c)
    BY <1>1, <2>1 DEF Local
  <2> QED BY <1>3, <2>2, LocalJoin DEF Reach
<1> QED BY <1>1, <1>2, <1>4

LEMMA KeepsShown ==
  ASSUME NEW c \in Artboards, NEW S, NEW D, NEW own, Now \in Works, Spreads(Now, Now', S, D, own), Local(S, c)
  PROVE  /\ StaysShown(c)
         /\ \A s \in Simples : Host(In[s]) # c => value'[<<"playing", s>>] = value[<<"playing", s>>]
         /\ \A r \in Remaps : Host(In[r]) # c =>
              value'[<<"mix", r>>] = value[<<"mix", r>>] /\ value'[<<"time", r>>] = value[<<"time", r>>]
<1>1. \A p \in Properties : (p[1] \in {"active", "playing", "mix", "time"} /\ p \notin PropertiesOf(c)) => Now'.value[p] = Now.value[p]
  BY DEF Spreads, Local
<1>2. ASSUME NEW n \in Artboards \ {Root}, Host(n) # c
      PROVE  Collapsed(Now', n) <=> Collapsed(Now, n)
  <2>1. CASE n \notin Soloed
    BY <2>1 DEF Collapsed
  <2>2. CASE n \in Soloed
    <3> DEFINE p == <<"active", Host(n)>>
    <3>1. p \in Properties /\ Host(n) \in Artboards
      BY <2>2, PropertyAssumption, AboveIs
    <3>2. p \in PropertiesOf(Host(n)) /\ p[1] = "active"
      BY <3>1 DEF PropertiesOf
    <3>3. p \notin PropertiesOf(c)
      BY <1>2, <3>1, <3>2, PropertiesApart
    <3> HIDE DEF p
    <3>4. Now'.value[p] = Now.value[p]
      BY <1>1, <3>1, <3>2, <3>3
    <3> QED BY <3>4 DEF p, Collapsed
  <2> QED BY <2>1, <2>2
<1>3. ASSUME NEW q \in Animation, q \notin Machines, Host(In[q]) # c, NEW p \in Properties,
             p[1] \in {"playing", "mix", "time"}, p[2] = q
      PROVE  value'[p] = value[p]
  <2>1. In[q] \in Artboards /\ In[q] # Root
    BY <1>3, InIs, TreeAssumption
  <2>2. Host(In[q]) \in Artboards /\ In[q] \in ToSet(Nested[Host(In[q])])
    BY <2>1, AboveIs
  <2>3. p \in PropertiesOf(Host(In[q]))
    BY <1>3, <2>2 DEF PropertiesOf
  <2>4. p \notin PropertiesOf(c)
    BY <1>3, <2>2, <2>3, PropertiesApart
  <2>5. Now'.value[p] = Now.value[p]
    BY <1>1, <1>3, <2>4
  <2> QED BY <2>5 DEF Now
<1>4. \A s \in Simples : s \in Animation /\ s \notin Machines /\ <<"playing", s>> \in Properties
  BY PropertyAssumption DEF Simples, Machines
<1>5. \A r \in Remaps : /\ r \in Animation /\ r \notin Machines
                         /\ <<"mix", r>> \in Properties /\ <<"time", r>> \in Properties
  BY PropertyAssumption DEF Remaps, Machines
<1>6. \A s \in Simples : Host(In[s]) # c => value'[<<"playing", s>>] = value[<<"playing", s>>]
  BY <1>3, <1>4
<1>7. \A r \in Remaps : Host(In[r]) # c =>
        value'[<<"mix", r>>] = value[<<"mix", r>>] /\ value'[<<"time", r>>] = value[<<"time", r>>]
  BY <1>3, <1>5
<1> QED BY <1>2, <1>6, <1>7 DEF StaysShown

-----------------------------------------------------------------------------
(* What a frame shows stays together if no two things of an artboard key    *)
(* the same, none of them keys what follows something else, listeners set   *)
(* only what their own machine keys, or nothing keys, and a joystick moves  *)
(* neither itself, nor one before it in the list, nor the handle of these.  *)
Untangled ==
  /\ \A a \in Artboards : \A q \in Sources(a) :
       /\ KeyedBy(q) \cap Guarded = {}
       /\ \A r \in Sources(a) : q # r => KeyedBy(q) \cap KeyedBy(r) = {}
       /\ \A l \in Setters : Listener(l).what \in KeyedBy(q) => q = l[1] /\ Listener(l).target = In[l[1]]
  /\ \A a \in Artboards : \A i, k \in DOMAIN Joysticks[a] : i <= k =>
       /\ <<"x", Joysticks[a][i]>> \notin KeyedBy(Joysticks[a][k])
       /\ Joysticks[a][i] \in Handled => <<"node", a>> \notin KeyedBy(Joysticks[a][k])

LEMMA KeyedApart ==
  ASSUME Untangled, NEW a \in Artboards, NEW q \in Sources(a)
  PROVE  /\ \A c \in Artboards : \A r \in Sources(c) : a # c \/ q # r => KeyedBy(r) \cap KeyedBy(q) = {}
         /\ Passed \cap KeyedBy(q) = {}
         /\ \A m : q # m => Owned(m) \cap KeyedBy(q) = {}
         /\ \A c \in Artboards : Followers(c) \cap KeyedBy(q) = {}
<1>1. ASSUME NEW c \in Artboards, NEW r \in Sources(c), a # c \/ q # r
      PROVE  KeyedBy(r) \cap KeyedBy(q) = {}
  <2>1. CASE a = c
    BY <1>1, <2>1 DEF Untangled
  <2>2. CASE a # c
    <3>1. KeyedBy(q) \subseteq PropertiesOf(a) /\ KeyedBy(r) \subseteq PropertiesOf(c)
      BY KeyedByIs
    <3>2. \A p \in PropertiesOf(a) : p \notin PropertiesOf(c)
      BY <2>2, PropertiesApart
    <3> QED BY <3>1, <3>2
  <2> QED BY <2>1, <2>2
<1>2. Passed \cap KeyedBy(q) = {}
  BY DEF Untangled, Passed
<1>3. \A m : q # m => Owned(m) \cap KeyedBy(q) = {}
  BY DEF Untangled, Owned
<1>4. ASSUME NEW c \in Artboards PROVE Followers(c) \cap KeyedBy(q) = {}
  <2>1. Sticks(c) \subseteq Guarded
    BY DEF Sticks, Guarded
  <2>2. {<<"opacity", n>> : n \in ToSet(Nested[c])} \subseteq Guarded
    BY NestedBelow DEF Guarded
  <2>3. KeyedBy(q) \cap Guarded = {}
    BY DEF Untangled
  <2> QED BY <2>1, <2>2, <2>3 DEF Followers
<1> QED BY <1>1, <1>2, <1>3, <1>4

-----------------------------------------------------------------------------
(* A joystick has applied what it sets where it stands, and stands where    *)
(* its handle is.                                                          *)
Settled(w, j) == Holds(w, Pose[j][w.value[<<"x", j>>]])
Follows(w, a, j) == j \in Handled => w.value[<<"x", j>>] = w.value[<<"node", a>>]

LEMMA SettledBy ==
  ASSUME NEW w \in Works, NEW u, NEW a \in Artboards, NEW j \in ToSet(Joysticks[a]), Settled(w, j),
         u.value[<<"x", j>>] = w.value[<<"x", j>>], \A p \in KeyedBy(j) : u.value[p] = w.value[p]
  PROVE  Settled(u, j)
<1> DEFINE at == w.value[<<"x", j>>]
<1>1. at \in DOMAIN Pose[j]
  BY ApplyJoystickIs
<1>2. DOMAIN Pose[j][at] \subseteq KeyedBy(j)
  BY <1>1 DEF KeyedBy
<1> QED BY <1>2 DEF Settled, Holds

LEMMA UpdateFollows ==
  ASSUME NEW w \in Works, NEW a \in Artboards, Tied(w)
  PROVE  LET u == Update(w, a) IN
         /\ \A p \in Properties \ Followers(a) : u.value[p] = w.value[p]
         /\ \A j \in ToSet(Joysticks[a]) \cap Handled :
              u.value[<<"x", j>>] = w.value[<<"node", a>>] /\ u.value[<<"node", a>>] = w.value[<<"node", a>>]
         /\ u \in Works /\ Tied(u)
<1> DEFINE u == Update(w, a)
<1>1. /\ \A p \in Properties \ Followers(a) : u.value[p] = w.value[p]
      /\ u \in Works
  <2>1. Spreads(w, u, Followers(a), ToSet(Nested[a]), {})
    BY UpdateSpreads
  <2> QED BY <2>1 DEF Spreads
<1>2. Tied(u)
  BY TiedUpdate
<1>3. ASSUME NEW j \in ToSet(Joysticks[a]) \cap Handled PROVE u.value[<<"x", j>>] = w.value[<<"node", a>>]
  <2>1. CASE a \notin w.dirty
    BY <2>1, UpdateIs DEF Tied
  <2>2. CASE a \in w.dirty
    <3>1. u = Apply(Swept(w, a), Updates(w, a)) /\ Swept(w, a) \in Works
      BY <2>2, UpdateIs, SweptIs
    <3>2. /\ <<"x", j>> \in DOMAIN Updates(w, a) /\ Updates(w, a)[<<"x", j>>] = w.value[<<"node", a>>]
          /\ IsPose(Updates(w, a))
      BY UpdatesIs
    <3>3. <<"x", j>> \in Properties
      BY StickIs
    <3> HIDE DEF u
    <3> QED BY <3>1, <3>2, <3>3, ApplyIs
  <2> QED BY <2>1, <2>2
<1>4. ASSUME NEW j \in ToSet(Joysticks[a]) \cap Handled PROVE u.value[<<"node", a>>] = w.value[<<"node", a>>]
  <2>1. <<"node", a>> \in Properties
    BY StickIs
  <2>2. <<"node", a>> \notin Followers(a)
    BY DEF Followers, Sticks
  <2> QED BY <1>1, <2>1, <2>2
<1> QED BY <1>1, <1>2, <1>3, <1>4

LEMMA UpdateSettles ==
  ASSUME Untangled, NEW w \in Works, NEW a \in Artboards, Tied(w),
         NEW j \in ToSet(Joysticks[a]), Settled(w, j), Follows(w, a, j)
  PROVE  Settled(Update(w, a), j) /\ Follows(Update(w, a), a, j)
<1> DEFINE u == Update(w, a)
<1>1. /\ \A p \in Properties \ Followers(a) : u.value[p] = w.value[p]
      /\ j \in Handled => u.value[<<"x", j>>] = w.value[<<"node", a>>] /\ u.value[<<"node", a>>] = w.value[<<"node", a>>]
  BY UpdateFollows
<1> HIDE DEF u
<1>2. \A p \in KeyedBy(j) : u.value[p] = w.value[p]
  <2>1. j \in Sources(a)
    BY DEF Sources
  <2>2. Followers(a) \cap KeyedBy(j) = {} /\ KeyedBy(j) \subseteq Properties
    BY <2>1, KeyedApart, KeyedByIs DEF PropertiesOf
  <2> QED BY <1>1, <2>2
<1>3. u.value[<<"x", j>>] = w.value[<<"x", j>>]
  <2>1. CASE j \in Handled
    BY <1>1, <2>1 DEF Follows
  <2>2. CASE j \notin Handled
    <3>1. <<"x", j>> \in Properties
      BY StickIs
    <3>2. <<"x", j>> \notin Followers(a)
      BY <2>2 DEF Followers, Sticks
    <3> QED BY <1>1, <3>1, <3>2
  <2> QED BY <2>1, <2>2
<1>4. Settled(u, j)
  BY <1>2, <1>3, SettledBy
<1>5. Follows(u, a, j)
  BY <1>1 DEF Follows
<1> QED BY <1>4, <1>5 DEF u

LEMMA JoystickSettles ==
  ASSUME Untangled, NEW w \in Works, NEW a \in Artboards, NEW i \in DOMAIN Joysticks[a], NEW k \in DOMAIN Joysticks[a],
         i <= k, Follows(w, a, Joysticks[a][i]), i # k => Settled(w, Joysticks[a][i])
  PROVE  LET u == ApplyJoystick(w, Joysticks[a][k]) IN
         Settled(u, Joysticks[a][i]) /\ Follows(u, a, Joysticks[a][i])
<1> DEFINE j == Joysticks[a][i]
           l == Joysticks[a][k]
           at == w.value[<<"x", l>>]
           u == ApplyJoystick(w, l)
<1>1. j \in ToSet(Joysticks[a]) /\ l \in ToSet(Joysticks[a])
  BY DEF ToSet
<1>2. j \in Sources(a) /\ l \in Sources(a)
  BY <1>1 DEF Sources
<1>3. /\ <<"x", j>> \notin KeyedBy(l) /\ (j \in Handled => <<"node", a>> \notin KeyedBy(l))
  BY DEF Untangled
<1>4. i # k => j # l
  BY TreeAssumption DEF IsInjective
<1> HIDE DEF j, l
<1>5. at \in DOMAIN Pose[l] /\ u = Apply(w, Pose[l][at])
  BY <1>1, ApplyJoystickIs
<1> HIDE DEF at, u
<1>6. Spreads(w, Apply(w, Pose[l][at]), KeyedBy(l), {a}, {}) /\ Holds(Apply(w, Pose[l][at]), Pose[l][at])
  BY <1>2, <1>5, PoseSpreads
<1>7. Holds(u, Pose[l][at]) /\ \A p \in Properties \ KeyedBy(l) : u.value[p] = w.value[p]
  BY <1>5, <1>6 DEF Spreads
<1>8. u.value[<<"x", j>>] = w.value[<<"x", j>>] /\ (j \in Handled => u.value[<<"node", a>>] = w.value[<<"node", a>>])
  BY <1>1, <1>3, <1>7, StickIs
<1>9. Follows(u, a, j)
  BY <1>8 DEF Follows, j
<1>10. CASE i = k
  <2>1. j = l
    BY <1>10 DEF j, l
  <2>2. Settled(u, j)
    BY <1>7, <1>8, <2>1 DEF Settled, at
  <2> QED BY <1>9, <2>2 DEF u, j, l
<1>11. CASE i # k
  <2>1. KeyedBy(l) \cap KeyedBy(j) = {} /\ KeyedBy(j) \subseteq Properties
    BY <1>2, <1>4, <1>11, KeyedApart, KeyedByIs DEF PropertiesOf
  <2>2. \A p \in KeyedBy(j) : u.value[p] = w.value[p]
    BY <1>7, <2>1
  <2>3. Settled(w, j)
    BY <1>11 DEF j
  <2>4. Settled(u, j)
    BY <1>1, <1>8, <2>2, <2>3, SettledBy
  <2> QED BY <1>9, <2>4 DEF u, j, l
<1> QED BY <1>10, <1>11

LEMMA TiedJoystick ==
  ASSUME Untangled, NEW w \in Works, NEW a \in Artboards, NEW j \in ToSet(Joysticks[a]), Tied(w)
  PROVE  ApplyJoystick(w, j) \in Works /\ Tied(ApplyJoystick(w, j))
<1> DEFINE at == w.value[<<"x", j>>]
<1>1. at \in DOMAIN Pose[j] /\ IsPose(Pose[j][at]) /\ ApplyJoystick(w, j) = Apply(w, Pose[j][at])
      /\ ApplyJoystick(w, j) \in Works
  BY ApplyJoystickIs
<1> HIDE DEF at
<1>2. DOMAIN Pose[j][at] \subseteq KeyedBy(j)
  BY <1>1 DEF KeyedBy
<1>3. KeyedBy(j) \cap Guarded = {}
  BY DEF Untangled, Sources
<1>4. DOMAIN Pose[j][at] \cap Guarded = {}
  BY <1>2, <1>3
<1> QED BY <1>1, <1>4, TiedApply

LEMMA PulledSettles ==
  ASSUME Untangled, NEW w \in Works, NEW a \in Artboards, Tied(w), NEW k \in DOMAIN Joysticks[a],
         \A i \in 1 .. k - 1 : Settled(w, Joysticks[a][i]) /\ Follows(w, a, Joysticks[a][i])
  PROVE  LET u == Pulled(w, a, Joysticks[a][k]) IN
         /\ u \in Works /\ Tied(u)
         /\ \A i \in 1 .. k : Settled(u, Joysticks[a][i]) /\ Follows(u, a, Joysticks[a][i])
<1> DEFINE l == Joysticks[a][k]
           v == IF l \in Handled /\ ~AllApplyBefore(a) THEN Update(w, a) ELSE w
           u == ApplyJoystick(v, l)
<1>1. Joysticks[a] \in Seq(AllJoysticks)
  BY TreeAssumption
<1>2. k \in Nat /\ 1 .. k \subseteq DOMAIN Joysticks[a]
  BY <1>1
<1>3. \A i \in 1 .. k : Joysticks[a][i] \in ToSet(Joysticks[a])
  BY <1>2 DEF ToSet
<1>4. l \in ToSet(Joysticks[a]) /\ (l \in Handled => ~AllApplyBefore(a))
  <2>1. k \in DOMAIN Joysticks[a]
    OBVIOUS
  <2>2. l \in ToSet(Joysticks[a])
    BY <2>1 DEF ToSet
  <2> QED BY <2>2 DEF AllApplyBefore
<1>5. Pulled(w, a, l) = u
  BY DEF Pulled
<1> HIDE DEF l
<1>6. v \in Works /\ Tied(v)
  <2>1. Update(w, a) \in Works /\ Tied(Update(w, a))
    BY UpdateFollows
  <2>2. v = w \/ v = Update(w, a)
    OBVIOUS
  <2> HIDE DEF v
  <2> QED BY <2>1, <2>2
<1>7. ASSUME NEW i \in 1 .. k - 1
      PROVE  Settled(v, Joysticks[a][i]) /\ Follows(v, a, Joysticks[a][i])
  <2>1. i \in 1 .. k
    BY <1>2
  <2>2. Settled(w, Joysticks[a][i]) /\ Follows(w, a, Joysticks[a][i]) /\ Joysticks[a][i] \in ToSet(Joysticks[a])
    BY <1>3, <1>7, <2>1
  <2>3. Settled(Update(w, a), Joysticks[a][i]) /\ Follows(Update(w, a), a, Joysticks[a][i])
    BY <2>2, UpdateSettles
  <2>4. v = w \/ v = Update(w, a)
    OBVIOUS
  <2> HIDE DEF v
  <2> QED BY <2>2, <2>3, <2>4
<1>8. Follows(v, a, l)
  <2> SUFFICES ASSUME l \in Handled PROVE v.value[<<"x", l>>] = v.value[<<"node", a>>]
    BY DEF Follows
  <2>1. v = Update(w, a)
    BY <1>4
  <2> HIDE DEF v
  <2> QED BY <1>4, <2>1, UpdateFollows
<1> HIDE DEF v
<1>9. u \in Works /\ Tied(u)
  BY <1>4, <1>6, TiedJoystick
<1>10. ASSUME NEW i \in 1 .. k
       PROVE  Settled(u, Joysticks[a][i]) /\ Follows(u, a, Joysticks[a][i])
  <2>1. i \in DOMAIN Joysticks[a] /\ i <= k /\ (i # k => i \in 1 .. k - 1)
    BY <1>2
  <2>2. Follows(v, a, Joysticks[a][i]) /\ (i # k => Settled(v, Joysticks[a][i]))
    BY <1>7, <1>8, <2>1 DEF l
  <2>3. LET s == ApplyJoystick(v, Joysticks[a][k]) IN Settled(s, Joysticks[a][i]) /\ Follows(s, a, Joysticks[a][i])
    BY <1>6, <2>1, <2>2, JoystickSettles
  <2> QED BY <2>3 DEF l
<1> HIDE DEF u
<1> QED BY <1>5, <1>9, <1>10 DEF l

LEMMA PullSettles ==
  ASSUME Untangled, NEW w \in Works, NEW a \in Artboards, Tied(w)
  PROVE  LET u == Pull(w, a) IN
         /\ u \in Works /\ Tied(u)
         /\ \A j \in ToSet(Joysticks[a]) : Settled(u, j) /\ Follows(u, a, j)
<1> DEFINE End == Len(Joysticks[a])
<1>1. PICK f \in [0 .. End -> Works] :
        /\ f[0] = w /\ Pull(w, a) = f[End]
        /\ \A i \in 1 .. End : f[i] = Pulled(f[i - 1], a, Joysticks[a][i])
  BY PullIs
<1>2. Joysticks[a] \in Seq(AllJoysticks)
  BY TreeAssumption
<1>3. End \in Nat /\ DOMAIN Joysticks[a] = 1 .. End
  BY <1>2
<1> HIDE DEF End
<1> DEFINE Good(v, k) ==
             v \in Works /\ Tied(v) /\ \A i \in 1 .. k : Settled(v, Joysticks[a][i]) /\ Follows(v, a, Joysticks[a][i])
           M == {k \in 0 .. End : Good(f[k], k)}
<1>4. 0 \in M
  BY <1>1, <1>3
<1>5. ASSUME NEW k \in 0 .. End - 1, k \in M PROVE k + 1 \in M
  <2>1. k + 1 \in 1 .. End /\ k + 1 \in 0 .. End /\ (k + 1) - 1 = k /\ k \in 0 .. End
    BY <1>3
  <2>2. f[k + 1] = Pulled(f[k], a, Joysticks[a][k + 1]) /\ f[k] \in Works
    BY <1>1, <2>1
  <2>3. Good(f[k], k)
    BY <1>5
  <2>4. Good(Pulled(f[k], a, Joysticks[a][k + 1]), k + 1)
    <3>1. PICK n \in DOMAIN Joysticks[a] : n = k + 1
      BY <1>3, <2>1
    <3>2. n - 1 = k
      BY <2>1, <3>1
    <3>3. \A i \in 1 .. n - 1 : Settled(f[k], Joysticks[a][i]) /\ Follows(f[k], a, Joysticks[a][i])
      BY <2>3, <3>2
    <3>4. LET u == Pulled(f[k], a, Joysticks[a][n]) IN
          /\ u \in Works /\ Tied(u)
          /\ \A i \in 1 .. n : Settled(u, Joysticks[a][i]) /\ Follows(u, a, Joysticks[a][i])
      BY <2>2, <2>3, <3>3, PulledSettles
    <3> QED BY <3>1, <3>4
  <2>5. Good(f[k + 1], k + 1)
    BY <2>2, <2>4
  <2> HIDE DEF Good
  <2> QED BY <2>1, <2>5
<1>6. 0 .. End \subseteq M
  <2> HIDE DEF M, Good
  <2> QED BY <1>3, <1>4, <1>5, BoundedInduction
<1>7. Good(Pull(w, a), End)
  <2> HIDE DEF Good
  <2> QED BY <1>1, <1>3, <1>6
<1>8. \A j \in ToSet(Joysticks[a]) : \E i \in 1 .. End : j = Joysticks[a][i]
  BY <1>3 DEF ToSet
<1> QED BY <1>7, <1>8

LEMMA ArtboardSettles ==
  ASSUME Untangled, NEW w \in Works, NEW a \in Artboards, Tied(w)
  PROVE  LET u == JoysticksAndUpdates(w, a) IN
         Tied(u) /\ \A j \in ToSet(Joysticks[a]) : Settled(u, j)
<1> DEFINE s == IF AllApplyBefore(a) THEN w ELSE Update(w, a)
           t == Pull(s, a)
           u == Update(t, a)
<1>1. JoysticksAndUpdates(w, a) = u
  BY DEF JoysticksAndUpdates
<1>2. s \in Works /\ Tied(s)
  BY UpdateFollows
<1> HIDE DEF s
<1>3. t \in Works /\ Tied(t) /\ \A j \in ToSet(Joysticks[a]) : Settled(t, j) /\ Follows(t, a, j)
  BY <1>2, PullSettles
<1> HIDE DEF t
<1>4. Tied(u)
  BY <1>3, UpdateFollows
<1>5. \A j \in ToSet(Joysticks[a]) : Settled(u, j)
  BY <1>3, UpdateSettles
<1> QED BY <1>1, <1>4, <1>5 DEF u

-----------------------------------------------------------------------------
(* What the calls already made in a frame leave behind.                    *)
AtRest(p) ==
  /\ p \in Simples /\ value[<<"playing", p>>] => elapsed > 0 /\ p \notin Loops /\ time[p] = Length[p]
  /\ p \in Machines => state[p] \notin Looping /\ Rested(Now, p)
Stands(p) ==
  /\ p \in Machines => Holds(Now, Pose[p][state[p]])
  /\ p \in Remaps /\ value[<<"mix", p>>] # 0 => Holds(Now, Pose[p][value[<<"time", p>>]])

(* The inductive invariant: what holds of every frame, what a frame answered *)
(* with false has left, and what it shows.                                 *)
OrderInv ==
  /\ Now \in Works /\ InLength /\ elapsed \in {0, 1} /\ InOrder(todo)
  /\ \A b \in Artboards : Ended(b) => b \notin dirty
Resting == \A p \in Animation : Past(p) => answer \/ AtRest(p)
Together ==
  /\ Tied(Now)
  /\ \A p \in Animation : Past(p) => Stands(p)
  /\ \A b \in Artboards : Ended(b) => \A j \in ToSet(Joysticks[b]) : Settled(Now, j)

LEMMA HostIsNotIn ==
  ASSUME NEW p \in Animation, p \notin Machines
  PROVE  /\ In[p] \in Artboards /\ Host(In[p]) # In[p]
         /\ \A c \in Artboards : In[p] = c \/ c \notin Above(In[p]) => Host(In[p]) # c
<1>1. In[p] \in Artboards /\ In[p] # Root
  BY InIs, TreeAssumption
<1>2. Host(In[p]) \in Artboards /\ Above(In[p]) = {In[p]} \cup Above(Host(In[p])) /\ In[p] \in ToSet(Nested[Host(In[p])])
  BY <1>1, AboveIs
<1>3. Host(In[p]) \in Above(Host(In[p]))
  BY <1>2, AboveIs
<1>4. In[p] # Host(In[p])
  BY <1>2, NestedBelow
<1> QED BY <1>1, <1>2, <1>3, <1>4

LEMMA RestsElsewhere ==
  ASSUME Now \in Works, NEW c \in Artboards, NEW S, NEW D, NEW own, Spreads(Now, Now', S, D, own), Local(S, c),
         elapsed' = elapsed, NEW p \in Animation, p \notin own, In[p] = c \/ c \notin Above(In[p]),
         p \in Simples => time'[p] = time[p], AtRest(p)
  PROVE  AtRest(p)'
<1>1. p \in Simples => value'[<<"playing", p>>] = value[<<"playing", p>>]
  <2> SUFFICES ASSUME p \in Simples PROVE value'[<<"playing", p>>] = value[<<"playing", p>>]
    OBVIOUS
  <2>1. Host(In[p]) # c
    BY HostIsNotIn DEF Simples, Machines
  <2> QED BY <2>1, KeepsShown
<1>2. p \in Machines => Now'.state[p] = Now.state[p] /\ (Rested(Now, p) => Rested(Now', p))
  BY DEF Spreads
<1>3. Now'.state = state' /\ Now.state = state
  BY DEF Now
<1>4. p \in Machines => state'[p] \notin Looping /\ Rested(Now', p)
  BY <1>2, <1>3 DEF AtRest
<1>5. p \in Simples /\ value'[<<"playing", p>>] => elapsed' > 0 /\ p \notin Loops /\ time'[p] = Length[p]
  BY <1>1 DEF AtRest
<1> QED BY <1>4, <1>5 DEF AtRest, Rested, Open, Now

LEMMA HoldsBy ==
  ASSUME Now \in Works, NEW S, NEW D, NEW own, Spreads(Now, Now', S, D, own), NEW a \in Artboards, NEW q \in Sources(a),
         NEW at \in DOMAIN Pose[q], S \cap KeyedBy(q) = {}, Holds(Now, Pose[q][at])
  PROVE  Holds(Now', Pose[q][at])
<1>1. KeyedBy(q) \subseteq Properties /\ DOMAIN Pose[q][at] \subseteq KeyedBy(q)
  BY KeyedByIs DEF PropertiesOf, KeyedBy
<1>2. \A p \in DOMAIN Pose[q][at] : Now'.value[p] = Now.value[p]
  BY <1>1 DEF Spreads
<1> QED BY <1>2 DEF Holds

LEMMA StandsElsewhere ==
  ASSUME Now \in Works, NEW c \in Artboards, NEW S, NEW D, NEW own, Spreads(Now, Now', S, D, own), Local(S, c),
         NEW p \in Animation, p \notin own, S \cap KeyedBy(p) = {}, In[p] = c \/ c \notin Above(In[p]), Stands(p)
  PROVE  Stands(p)'
<1>1. In[p] \in Artboards /\ p \in Sources(In[p])
  BY InIs DEF Sources
<1>2. p \in Machines => Holds(Now', Pose[p][state'[p]])
  <2> SUFFICES ASSUME p \in Machines PROVE Holds(Now', Pose[p][state'[p]])
    OBVIOUS
  <2>1. state'[p] = state[p]
    BY DEF Spreads, Now
  <2>2. state[p] \in DOMAIN Pose[p]
    BY StateOf, NowIs DEF States
  <2>3. Holds(Now, Pose[p][state[p]])
    BY DEF Stands
  <2> QED BY <1>1, <2>1, <2>2, <2>3, HoldsBy
<1>3. p \in Remaps /\ value'[<<"mix", p>>] # 0 => Holds(Now', Pose[p][value'[<<"time", p>>]])
  <2> SUFFICES ASSUME p \in Remaps, value'[<<"mix", p>>] # 0 PROVE Holds(Now', Pose[p][value'[<<"time", p>>]])
    OBVIOUS
  <2>1. p \notin Machines
    BY DEF Remaps, Machines
  <2>2. Host(In[p]) # c
    BY <2>1, HostIsNotIn
  <2>3. value'[<<"mix", p>>] = value[<<"mix", p>>] /\ value'[<<"time", p>>] = value[<<"time", p>>]
    BY <2>2, KeepsShown
  <2>4. value[<<"time", p>>] \in DOMAIN Pose[p]
    BY RemapTime
  <2>5. Holds(Now, Pose[p][value[<<"time", p>>]])
    BY <2>3 DEF Stands
  <2> QED BY <1>1, <2>3, <2>4, <2>5, HoldsBy
<1> QED BY <1>2, <1>3 DEF Stands, Holds, Now

LEMMA SettledElsewhere ==
  ASSUME Now \in Works, NEW c \in Artboards, NEW S, NEW D, NEW own, Spreads(Now, Now', S, D, own), Local(S, c),
         NEW b \in Artboards, c \notin Above(b), NEW j \in ToSet(Joysticks[b]), S \cap KeyedBy(j) = {}, Settled(Now, j)
  PROVE  Settled(Now', j)
<1>1. b # c /\ j \in Sources(b)
  BY AboveIs DEF Sources
<1>2. <<"x", j>> \in Properties /\ <<"x", j>> \in PropertiesOf(b)
  BY StickIs DEF PropertiesOf
<1>3. <<"x", j>> \notin PropertiesOf(c)
  BY <1>1, <1>2, PropertiesApart
<1>4. Now'.value[<<"x", j>>] = Now.value[<<"x", j>>]
  BY <1>2, <1>3 DEF Spreads, Local
<1>5. \A p \in KeyedBy(j) : Now'.value[p] = Now.value[p]
  BY <1>1, KeyedByIs DEF Spreads, PropertiesOf
<1> QED BY <1>4, <1>5, SettledBy

(* What the call of an animation or a machine may set.                      *)
Touched(q) == KeyedBy(q) \cup Owned(q) \cup Passed

LEMMA TouchedApart ==
  ASSUME Untangled, NEW q \in Animation, NEW S, S \subseteq Touched(q)
  PROVE  /\ S \cap Guarded = {}
         /\ \A a \in Artboards : \A r \in Sources(a) : q # r => S \cap KeyedBy(r) = {}
         /\ \A j \in AllJoysticks : q # j
<1>1. In[q] \in Artboards /\ q \in Sources(In[q])
  BY InIs DEF Sources
<1>2. KeyedBy(q) \cap Guarded = {}
  BY <1>1 DEF Untangled
<1>3. \A p \in Owned(q) \cup Passed : p \notin Guarded
  <2>1. \A p \in Owned(q) \cup Passed : p[1] = "input"
    BY PassedAre
  <2>2. \A p \in Guarded : p[1] = "opacity" \/ p[1] = "x"
    BY DEF Guarded
  <2> QED BY <2>1, <2>2
<1>4. ASSUME NEW a \in Artboards, NEW r \in Sources(a), q # r PROVE S \cap KeyedBy(r) = {}
  <2>1. KeyedBy(q) \cap KeyedBy(r) = {} /\ Passed \cap KeyedBy(r) = {} /\ Owned(q) \cap KeyedBy(r) = {}
    BY <1>1, <1>4, KeyedApart
  <2> QED BY <2>1 DEF Touched
<1>5. \A j \in AllJoysticks : q # j
  BY TreeAssumption
<1> QED BY <1>2, <1>3, <1>4, <1>5 DEF Touched

LEMMA AnimationKeeps ==
  ASSUME OrderInv, NEW q \in Animation, Call(Kind[q], q), todo' = Tail(todo), elapsed' = elapsed,
         NEW S, NEW own, own \subseteq {q}, Spreads(Now, Now', S, {In[q]}, own), Local(S, In[q]),
         InLength', \A k \in Simples : k # q => time'[k] = time[k], answer => answer'
  PROVE  /\ OrderInv'
         /\ Resting /\ (answer' \/ AtRest(q)') => Resting'
         /\ Untangled /\ S \subseteq Touched(q) /\ Together /\ Stands(q)' => Together'
<1>1. In[q] \in Artboards
  BY InIs
<1>2. StaysShown(In[q])
  BY <1>1, KeepsShown DEF OrderInv
<1>3. /\ InOrder(todo')
      /\ \A b \in Artboards : Ended(b)' => Ended(b) /\ In[q] \notin Above(b)
      /\ \A p \in Animation : p # q /\ Past(p)' => Past(p) /\ (In[p] = In[q] \/ In[q] \notin Above(In[p]))
  BY <1>2, AnimationPasses DEF OrderInv
<1>4. Now' \in Works /\ Now'.dirty \subseteq Now.dirty \cup {In[q]} /\ Now'.dirty = dirty' /\ Now.dirty = dirty
  BY DEF Spreads, Now
<1>5. \A b \in Artboards : Ended(b)' => b \notin dirty'
  <2> SUFFICES ASSUME NEW b \in Artboards, Ended(b)' PROVE b \notin dirty'
    OBVIOUS
  <2>1. Ended(b) /\ b # In[q]
    BY <1>3, AboveIs
  <2> QED BY <1>4, <2>1 DEF OrderInv
<1>6. OrderInv'
  BY <1>3, <1>4, <1>5 DEF OrderInv
<1>7. ASSUME Resting, answer' \/ AtRest(q)' PROVE Resting'
  <2> SUFFICES ASSUME NEW p \in Animation, Past(p)', ~answer' PROVE AtRest(p)'
    BY DEF Resting
  <2>1. CASE p = q
    BY <1>7, <2>1
  <2>2. CASE p # q
    <3>1. Past(p) /\ (In[p] = In[q] \/ In[q] \notin Above(In[p]))
      BY <1>3, <2>2
    <3>2. AtRest(p)
      BY <1>7, <3>1 DEF Resting
    <3>3. p \notin own /\ (p \in Simples => time'[p] = time[p])
      BY <2>2
    <3> QED BY <1>1, <3>1, <3>2, <3>3, RestsElsewhere DEF OrderInv
  <2> QED BY <2>1, <2>2
<1>8. ASSUME Untangled, S \subseteq Touched(q), Together, Stands(q)' PROVE Together'
  <2>1. /\ S \cap Guarded = {}
        /\ \A a \in Artboards : \A r \in Sources(a) : q # r => S \cap KeyedBy(r) = {}
        /\ \A j \in AllJoysticks : q # j
    BY <1>8, TouchedApart
  <2>2. Tied(Now')
    BY <1>8, <2>1 DEF Spreads, Together
  <2>3. ASSUME NEW p \in Animation, Past(p)' PROVE Stands(p)'
    <3>1. CASE p = q
      BY <1>8, <3>1
    <3>2. CASE p # q
      <4>1. Past(p) /\ (In[p] = In[q] \/ In[q] \notin Above(In[p]))
        BY <1>3, <2>3, <3>2
      <4>2. Stands(p) /\ p \notin own
        BY <1>8, <3>2, <4>1 DEF Together
      <4>3. p \in Sources(In[p]) /\ In[p] \in Artboards
        BY InIs DEF Sources
      <4>4. S \cap KeyedBy(p) = {}
        BY <2>1, <3>2, <4>3
      <4> QED BY <1>1, <4>1, <4>2, <4>4, StandsElsewhere DEF OrderInv
    <3> QED BY <3>1, <3>2
  <2>4. ASSUME NEW b \in Artboards, Ended(b)', NEW j \in ToSet(Joysticks[b]) PROVE Settled(Now', j)
    <3>1. Ended(b) /\ In[q] \notin Above(b)
      BY <1>3, <2>4
    <3>2. Settled(Now, j)
      BY <1>8, <3>1 DEF Together
    <3>3. j \in Sources(b) /\ j \in AllJoysticks
      BY DEF Sources, AllJoysticks
    <3>4. S \cap KeyedBy(j) = {}
      BY <2>1, <3>3
    <3> QED BY <1>1, <3>1, <3>2, <3>4, SettledElsewhere DEF OrderInv
  <2>5. /\ \A p \in Animation : Past(p)' => Stands(p)'
        /\ \A b \in Artboards : Ended(b)' => \A j \in ToSet(Joysticks[b]) : Settled(Now', j)
    BY <2>3, <2>4
  <2>6. Tied(Now)' <=> Tied(Now')
    BY DEF Tied, Collapsed, Rendered, Now
  <2>7. \A j : Settled(Now, j)' <=> Settled(Now', j)
    BY DEF Settled, Holds, Now
  <2> QED BY <2>2, <2>5, <2>6, <2>7 DEF Together
<1> QED BY <1>6, <1>7, <1>8

LEMMA MachineKeeps ==
  ASSUME OrderInv, AdvanceMachine
  PROVE  /\ OrderInv'
         /\ NoCircles /\ Resting => Resting'
         /\ Untangled /\ Together => Together'
<1>1. PICK m \in Machines :
         /\ Call("machine", m) /\ todo' = Tail(todo) /\ UNCHANGED <<time, elapsed>>
         /\ answer' = (state'[m] \in Looping \/ answer)
         /\ Spreads(Now, Now', KeyedBy(m) \cup Owned(m) \cup Passed, {In[m]}, {m})
         /\ Holds(Now', Pose[m][state'[m]])
         /\ NoCircles => Open(Now', m) = {}
  BY MachineStep DEF OrderInv
<1> DEFINE S == Touched(m)
<1>2. m \in Animation /\ Kind[m] = "machine" /\ m \in Sources(In[m]) /\ In[m] \in Artboards
  BY InIs DEF Machines, Sources
<1>3. Local(S, In[m])
  <2>1. Local(KeyedBy(m) \cup Owned(m), In[m])
    BY <1>2, LocalAre, LocalJoin
  <2>2. Local((KeyedBy(m) \cup Owned(m)) \cup Passed, In[m])
    BY <1>2, <2>1, LocalAre, LocalJoin
  <2> QED BY <2>2 DEF Touched
<1>4. NoCircles => answer' \/ AtRest(m)'
  <2> SUFFICES ASSUME NoCircles, ~answer' PROVE AtRest(m)'
    OBVIOUS
  <2>1. Rested(Now', m)
    BY <1>1 DEF Rested
  <2>2. m \notin Simples
    BY <1>2 DEF Simples
  <2>3. Rested(Now, m)'
    BY <2>1 DEF Rested, Open, Now
  <2> QED BY <1>1, <2>2, <2>3 DEF AtRest
<1>5. Stands(m)'
  <2>1. m \notin Remaps
    BY <1>2 DEF Remaps
  <2> QED BY <1>1, <2>1 DEF Stands, Holds, Now
<1>6. InLength'
  BY <1>1 DEF OrderInv, InLength
<1>7. Spreads(Now, Now', S, {In[m]}, {m})
  BY <1>1 DEF Touched
<1>8. /\ Call(Kind[m], m) /\ todo' = Tail(todo) /\ elapsed' = elapsed /\ (answer => answer')
      /\ \A k \in Simples : k # m => time'[k] = time[k]
  BY <1>1, <1>2
<1>9. S \subseteq Touched(m)
  OBVIOUS
<1> HIDE DEF S
<1>10. /\ OrderInv'
       /\ Resting /\ (answer' \/ AtRest(m)') => Resting'
       /\ Untangled /\ S \subseteq Touched(m) /\ Together /\ Stands(m)' => Together'
  BY <1>2, <1>3, <1>6, <1>7, <1>8, AnimationKeeps
<1> QED BY <1>4, <1>5, <1>9, <1>10

LEMMA SimpleKeeps ==
  ASSUME OrderInv, AdvanceSimple
  PROVE  /\ OrderInv'
         /\ Resting => Resting'
         /\ Untangled /\ Together => Together'
<1>1. PICK s \in Simples :
           /\ Call("simple", s) /\ todo' = Tail(todo) /\ elapsed' = elapsed
           /\ time' = [time EXCEPT ![s] = Next1(s)] /\ Next1(s) \in 0 .. Length[s]
           /\ answer' = ((value[<<"playing", s>>] /\ (elapsed = 0 \/ s \in Loops \/ Next1(s) < Length[s])) \/ answer)
           /\ Spreads(Now, Now', KeyedBy(s) \cup Passed, {In[s]}, {})
  BY SimpleStep DEF OrderInv
<1> DEFINE S == KeyedBy(s) \cup Passed
<1>2. /\ s \in Animation /\ Kind[s] = "simple" /\ s \in Sources(In[s]) /\ In[s] \in Artboards
      /\ s \notin Machines /\ s \notin Remaps
  BY InIs DEF Simples, Sources, Machines, Remaps
<1>3. Local(S, In[s])
  BY <1>2, LocalAre, LocalJoin
<1>4. /\ time \in [Simples -> Nat] /\ \A k \in Simples : time[k] <= Length[k] /\ Length[k] \in Nat
      /\ Next1(s) \in Nat /\ Next1(s) <= Length[s]
  BY <1>1, MachineAssumption DEF OrderInv, InLength
<1>5. InLength'
  <2>1. time' \in [Simples -> Nat] /\ \A k \in Simples : time'[k] <= Length[k]
    BY <1>1, <1>4
  <2> QED BY <2>1 DEF InLength
<1>6. S \subseteq Touched(s)
  BY DEF Touched
<1>7. value'[<<"playing", s>>] = value[<<"playing", s>>]
  <2>1. Host(In[s]) # In[s]
    BY <1>2, HostIsNotIn
  <2> HIDE DEF S
  <2>2. Spreads(Now, Now', S, {In[s]}, {})
    BY <1>1 DEF S
  <2> QED BY <1>2, <1>3, <2>1, <2>2, KeepsShown DEF OrderInv
<1>8. answer' \/ AtRest(s)'
  <2> SUFFICES ASSUME ~answer', value[<<"playing", s>>]
               PROVE  elapsed' > 0 /\ s \notin Loops /\ time'[s] = Length[s]
    BY <1>2, <1>7 DEF AtRest
  <2>1. elapsed # 0 /\ s \notin Loops /\ ~(Next1(s) < Length[s])
    BY <1>1
  <2>2. elapsed > 0
    BY <2>1 DEF OrderInv
  <2>3. time'[s] = Next1(s)
    BY <1>1, <1>4
  <2> QED BY <1>1, <1>4, <2>1, <2>2, <2>3
<1>9. Stands(s)'
  BY <1>2 DEF Stands
<1> HIDE DEF S
<1>10. PICK own : own \subseteq {s} /\ Spreads(Now, Now', S, {In[s]}, own)
  BY <1>1 DEF S
<1>11. /\ Call(Kind[s], s) /\ todo' = Tail(todo) /\ elapsed' = elapsed /\ (answer => answer')
       /\ \A k \in Simples : k # s => time'[k] = time[k]
       /\ s \in Animation
  BY <1>1, <1>2, <1>4
<1>12. /\ OrderInv'
       /\ Resting /\ (answer' \/ AtRest(s)') => Resting'
       /\ Untangled /\ S \subseteq Touched(s) /\ Together /\ Stands(s)' => Together'
  BY <1>3, <1>5, <1>10, <1>11, AnimationKeeps
<1> QED BY <1>6, <1>8, <1>9, <1>12

LEMMA RemapKeeps ==
  ASSUME OrderInv, AdvanceRemap
  PROVE  /\ OrderInv'
         /\ Resting => Resting'
         /\ Untangled /\ Together => Together'
<1>1. PICK r \in Remaps :
           /\ Call("remap", r) /\ todo' = Tail(todo) /\ UNCHANGED <<time, elapsed>>
           /\ answer' = (value[<<"mix", r>>] # 0 \/ answer)
           /\ Spreads(Now, Now', KeyedBy(r), {In[r]}, {})
           /\ value[<<"mix", r>>] # 0 => Holds(Now', Pose[r][value[<<"time", r>>]])
  BY RemapStep DEF OrderInv
<1>2. /\ r \in Animation /\ Kind[r] = "remap" /\ r \in Sources(In[r]) /\ In[r] \in Artboards
      /\ r \notin Machines /\ r \notin Simples
  BY InIs DEF Remaps, Sources, Machines, Simples
<1>3. Local(KeyedBy(r), In[r])
  BY <1>2, LocalAre
<1>4. AtRest(r)'
  BY <1>2 DEF AtRest
<1>5. InLength'
  BY <1>1 DEF OrderInv, InLength
<1>6. Stands(r)'
  <2>1. Host(In[r]) # In[r]
    BY <1>2, HostIsNotIn
  <2>2. value'[<<"mix", r>>] = value[<<"mix", r>>] /\ value'[<<"time", r>>] = value[<<"time", r>>]
    BY <1>1, <1>2, <1>3, <2>1, KeepsShown DEF OrderInv
  <2> QED BY <1>1, <1>2, <2>2 DEF Stands, Holds, Now
<1>7. KeyedBy(r) \subseteq Touched(r)
  BY DEF Touched
<1>8. PICK own : own \subseteq {r} /\ Spreads(Now, Now', KeyedBy(r), {In[r]}, own)
  BY <1>1
<1>9. /\ Call(Kind[r], r) /\ todo' = Tail(todo) /\ elapsed' = elapsed /\ (answer => answer')
      /\ \A k \in Simples : k # r => time'[k] = time[k]
      /\ r \in Animation
  BY <1>1, <1>2
<1>10. /\ OrderInv'
       /\ Resting /\ (answer' \/ AtRest(r)') => Resting'
       /\ Untangled /\ KeyedBy(r) \subseteq Touched(r) /\ Together /\ Stands(r)' => Together'
  BY <1>3, <1>5, <1>8, <1>9, AnimationKeeps
<1> QED BY <1>4, <1>6, <1>7, <1>10

LEMMA ArtboardKeeps ==
  ASSUME OrderInv, AdvanceArtboard
  PROVE  /\ OrderInv'
         /\ Resting => Resting'
         /\ Untangled /\ Together => Together'
<1>1. PICK a \in Artboards : LET u == JoysticksAndUpdates(Now, a) IN
           /\ Call("artboard", a) /\ todo' = Visits("nested", Nested[a]) \o Tail(todo) /\ UNCHANGED <<time, elapsed>>
           /\ answer' = (u.updated \/ answer)
           /\ Spreads(Now, Now', Reach(a), {a} \cup ToSet(Nested[a]), {})
           /\ a \notin Now'.dirty
           /\ Now'.value = u.value /\ Now'.dirty = u.dirty
  BY ArtboardStep DEF OrderInv
<1>2. Local(Reach(a), a)
  BY LocalAre
<1>3. StaysShown(a)
  BY <1>1, <1>2, KeepsShown DEF OrderInv
<1>4. /\ InOrder(todo')
      /\ \A b \in Artboards : Ended(b)' => b = a \/ (Ended(b) /\ a \notin Above(b))
      /\ \A p \in Animation : Past(p)' => Past(p) /\ (In[p] = a \/ a \notin Above(In[p]))
  BY <1>1, <1>3, ArtboardPasses DEF OrderInv
<1>5. /\ Now' \in Works /\ Now'.dirty \subseteq Now.dirty \cup ({a} \cup ToSet(Nested[a]))
      /\ Now'.dirty = dirty' /\ Now.dirty = dirty
  BY <1>1 DEF Spreads, Now
<1>6. \A b \in Artboards : Ended(b)' => b \notin dirty'
  <2> SUFFICES ASSUME NEW b \in Artboards, Ended(b)', b # a PROVE b \notin dirty'
    BY <1>1, <1>5
  <2>1. Ended(b) /\ a \notin Above(b)
    BY <1>4
  <2>2. b \notin ToSet(Nested[a])
    BY <2>1, NestedBelow
  <2> QED BY <1>5, <2>1, <2>2 DEF OrderInv
<1>7. OrderInv'
  BY <1>1, <1>4, <1>5, <1>6 DEF OrderInv, InLength
<1>8. ASSUME Resting PROVE Resting'
  <2> SUFFICES ASSUME NEW p \in Animation, Past(p)', ~answer' PROVE AtRest(p)'
    BY DEF Resting
  <2>1. Past(p) /\ (In[p] = a \/ a \notin Above(In[p])) /\ AtRest(p)
    BY <1>1, <1>4, <1>8 DEF Resting
  <2> QED BY <1>1, <1>2, <2>1, RestsElsewhere DEF OrderInv
<1>9. ASSUME Untangled, NEW b \in Artboards, NEW r \in Sources(b), r \notin ToSet(Joysticks[a])
      PROVE  Reach(a) \cap KeyedBy(r) = {}
  <2>1. Followers(a) \cap KeyedBy(r) = {}
    BY <1>9, KeyedApart
  <2>2. ASSUME NEW j \in ToSet(Joysticks[a]) PROVE KeyedBy(j) \cap KeyedBy(r) = {}
    <3>1. j \in Sources(a) /\ r # j
      BY <1>9 DEF Sources
    <3> QED BY <1>9, <3>1, KeyedApart
  <2> QED BY <2>1, <2>2 DEF Reach
<1>10. ASSUME Untangled, Together PROVE Together'
  <2>1. LET u == JoysticksAndUpdates(Now, a) IN Tied(u) /\ \A j \in ToSet(Joysticks[a]) : Settled(u, j)
    BY <1>10, ArtboardSettles DEF Together, OrderInv
  <2>2. Tied(Now')
    BY <1>1, <2>1, TiedBy
  <2>3. ASSUME NEW p \in Animation, Past(p)' PROVE Stands(p)'
    <3>1. Past(p) /\ (In[p] = a \/ a \notin Above(In[p])) /\ Stands(p)
      BY <1>4, <1>10, <2>3 DEF Together
    <3>2. In[p] \in Artboards /\ p \in Sources(In[p])
      BY InIs DEF Sources
    <3>3. p \notin ToSet(Joysticks[a])
      BY TreeAssumption DEF AllJoysticks
    <3>4. Reach(a) \cap KeyedBy(p) = {}
      BY <1>9, <1>10, <3>2, <3>3
    <3>5. PICK own : p \notin own /\ Spreads(Now, Now', Reach(a), {a} \cup ToSet(Nested[a]), own)
      BY <1>1
    <3> QED BY <1>2, <3>1, <3>4, <3>5, StandsElsewhere DEF OrderInv
  <2>4. ASSUME NEW b \in Artboards, Ended(b)', NEW j \in ToSet(Joysticks[b]) PROVE Settled(Now', j)
    <3>1. CASE b = a
      BY <1>1, <2>1, <3>1 DEF Settled, Holds
    <3>2. CASE b # a
      <4>1. Ended(b) /\ a \notin Above(b)
        BY <1>4, <2>4, <3>2
      <4>2. Settled(Now, j)
        BY <1>10, <4>1 DEF Together
      <4>3. j \in Sources(b) /\ j \notin ToSet(Joysticks[a])
        BY <3>2, TreeAssumption DEF Sources
      <4>4. Reach(a) \cap KeyedBy(j) = {}
        BY <1>9, <1>10, <4>3
      <4> QED BY <1>1, <1>2, <4>1, <4>2, <4>4, SettledElsewhere DEF OrderInv
    <3> QED BY <3>1, <3>2
  <2>5. /\ \A p \in Animation : Past(p)' => Stands(p)'
        /\ \A b \in Artboards : Ended(b)' => \A j \in ToSet(Joysticks[b]) : Settled(Now', j)
    BY <2>3, <2>4
  <2>6. Tied(Now)' <=> Tied(Now')
    BY DEF Tied, Collapsed, Rendered, Now
  <2>7. \A j : Settled(Now, j)' <=> Settled(Now', j)
    BY DEF Settled, Holds, Now
  <2> QED BY <2>2, <2>5, <2>6, <2>7 DEF Together
<1> QED BY <1>7, <1>8, <1>10

LEMMA SameNow ==
  ASSUME Now' = Now
  PROVE  /\ Tied(Now) => Tied(Now)'
         /\ \A p : Stands(p) => Stands(p)'
         /\ \A j : Settled(Now, j) => Settled(Now, j)'
         /\ UNCHANGED <<time, elapsed>> => \A p : AtRest(p) => AtRest(p)'
         /\ dirty' = dirty
<1>1. UNCHANGED <<value, state, needs, dirty>>
  BY DEF Now
<1>2. Tied(Now) => Tied(Now)'
  BY <1>1 DEF Tied, Collapsed, Rendered, Now
<1>3. \A p : Stands(p) => Stands(p)'
  BY <1>1 DEF Stands, Holds, Now
<1>4. \A j : Settled(Now, j) => Settled(Now, j)'
  BY <1>1 DEF Settled, Holds, Now
<1>5. UNCHANGED <<time, elapsed>> => \A p : AtRest(p) => AtRest(p)'
  BY <1>1 DEF AtRest, Rested, Open, Now
<1> QED BY <1>1, <1>2, <1>3, <1>4, <1>5

LEMMA NestedKeeps ==
  ASSUME OrderInv, AdvanceNested
  PROVE  /\ OrderInv'
         /\ Resting => Resting'
         /\ Together => Together'
<1>1. PICK n \in Artboards :
         /\ Call("nested", n)
         /\ Returns(FALSE, IF Collapsed(Now, n) THEN <<>> ELSE PlayAll(n))
         /\ Becomes(Now)
         /\ UNCHANGED time
  BY DEF AdvanceNested
<1>2. Now' = Now
  BY <1>1, NowStays, NowIs DEF Becomes
<1>3. todo' = (IF Collapsed(Now, n) THEN <<>> ELSE PlayAll(n)) \o Tail(todo) /\ elapsed' = elapsed /\ (answer => answer')
  BY <1>1 DEF Returns, OrElse
<1>4. /\ InOrder(todo')
      /\ \A b \in Artboards : Ended(b)' => Ended(b)
      /\ \A p \in Animation : Past(p)' => Past(p)
  BY <1>1, <1>2, <1>3, NestedPasses DEF OrderInv
<1>5. Now' \in Works
  BY <1>2 DEF OrderInv
<1>6. OrderInv'
  BY <1>1, <1>2, <1>3, <1>4, <1>5, SameNow DEF OrderInv, InLength
<1>7. Resting => Resting'
  BY <1>1, <1>2, <1>3, <1>4, SameNow DEF Resting
<1>8. Together => Together'
  BY <1>2, <1>4, SameNow DEF Together
<1> QED BY <1>6, <1>7, <1>8

(* A frame that has only begun has nothing behind it.                      *)
Begun == InOrder(todo) /\ (\A b \in Artboards : ~Ended(b)) /\ (\A p \in Animation : ~Past(p))

LEMMA BegunIs == todo = PlayAll(Root) => Begun
<1> SUFFICES ASSUME todo = PlayAll(Root) PROVE Begun
  OBVIOUS
<1>1. Root \in Artboards
  BY TreeAssumption
<1>2. InOrder(todo) /\ <<"artboard", Root>> \in ToSet(todo)
  BY <1>1, PlayAllIs
<1>3. \A b \in Artboards : ~Ended(b)
  BY <1>1, <1>2, RootAbove, CallsAre DEF Ended, Clear
<1>4. ASSUME NEW p \in Animation PROVE ~Past(p)
  <2>1. In[p] \in Artboards /\ p \in ToSet(Animations[In[p]])
    BY InIs
  <2>2. CASE In[p] = Root
    <3>1. <<Kind[p], p>> \in ToSet(todo)
      BY <1>1, <2>1, <2>2, PlayAllIs
    <3> QED BY <3>1 DEF Past
  <2>3. CASE In[p] # Root
    <3>1. <<"artboard", In[p]>> \notin ToSet(todo)
      <4>1. <<"artboard", In[p]>> # <<"artboard", Root>>
        BY <2>3
      <4>2. \A k \in Animation : <<Kind[k], k>> # <<"artboard", In[p]>>
        BY TreeAssumption
      <4>3. \A k \in ToSet(Animations[Root]) : k \in Animation
        BY <1>1, InIsOnly
      <4> QED BY <1>1, <4>1, <4>2, <4>3, PlayAllIs
    <3> QED BY <1>3, <2>1, <3>1 DEF Past
  <2> QED BY <2>2, <2>3
<1> QED BY <1>2, <1>3, <1>4 DEF Begun

LEMMA HostKeeps ==
  ASSUME OrderInv, AdvanceAndApply
  PROVE  /\ OrderInv'
         /\ Resting'
         /\ Together => Together'
<1>1. todo' = PlayAll(Root) /\ elapsed' \in {0, 1} /\ UNCHANGED <<value, dirty, needs, state, time, reports, owed>>
  BY DEF AdvanceAndApply
<1>2. Now' = Now
  BY <1>1, NowStays
<1>3. (todo = PlayAll(Root) => Begun)'
  BY BegunIs, PTL
<1>4. InOrder(todo') /\ (\A b \in Artboards : ~Ended(b)') /\ (\A p \in Animation : ~Past(p)')
  <2>1. todo' = PlayAll(Root)'
    BY <1>1
  <2> QED BY <1>3, <2>1 DEF Begun
<1>5. OrderInv'
  BY <1>1, <1>2, <1>4 DEF OrderInv, InLength
<1>6. Together => Together'
  BY <1>2, <1>4, SameNow DEF Together
<1> QED BY <1>4, <1>5, <1>6 DEF Resting

LEMMA InputKeeps ==
  ASSUME OrderInv, SetInput
  PROVE  /\ OrderInv'
         /\ Resting'
         /\ Untangled /\ Together => Together'
<1>1. PICK p \in HostInputs : Becomes(Apply(Now, [q \in {p} |-> ~value[p]]))
  BY DEF SetInput
<1>2. todo = <<>> /\ answer' = TRUE /\ UNCHANGED <<todo, elapsed, time>>
  BY DEF SetInput
<1> DEFINE pose == [q \in {p} |-> ~value[p]]
           u == Apply(Now, pose)
<1>3. /\ p \in Properties /\ p[1] = "input" /\ Takes(p) = BOOLEAN
      /\ \A a \in Artboards : p \notin PropertiesOf(a)
  <2>1. PICK m \in Machines : In[m] = Root /\ p \in Inputs(m)
    BY PropertyAssumption
  <2>2. p \in Properties /\ p[1] = "input" /\ p[2] = m /\ Takes(p) = BOOLEAN
    BY <2>1 DEF Inputs, Takes
  <2>3. \A a \in Artboards : Root \notin ToSet(Nested[a])
    BY NestedBelow
  <2> QED BY <2>1, <2>2, <2>3 DEF PropertiesOf
<1>4. IsPose(pose) /\ DOMAIN pose = {p}
  BY <1>3 DEF IsPose
<1> HIDE DEF pose
<1>5. \A q \in {p} : \A b \in Artboards : ~Dirties(q, b)
  BY <1>3 DEF Dirties
<1>6. Spreads(Now, u, {p}, {}, {})
  BY <1>4, <1>5, SpreadsApply DEF OrderInv
<1>7. Becomes(u)
  BY <1>1 DEF pose
<1> HIDE DEF u
<1>8. Spreads(Now, Now', {p}, {}, {}) /\ Now'.state = u.state
  BY <1>6, <1>7, BecomesSpreads
<1>9. \A q \in Properties : q[1] # "input" => Now'.value[q] = Now.value[q]
  BY <1>3, <1>8 DEF Spreads
<1>10. \A n \in Artboards \ {Root} : Collapsed(Now', n) <=> Collapsed(Now, n)
  <2> SUFFICES ASSUME NEW n \in Artboards \ {Root}, n \in Soloed
               PROVE  Now'.value[<<"active", Host(n)>>] = Now.value[<<"active", Host(n)>>]
    BY DEF Collapsed
  <2>1. <<"active", Host(n)>> \in Properties
    BY PropertyAssumption
  <2> QED BY <1>9, <2>1
<1>11. \A b \in Artboards : Ended(b)' => Ended(b)
  <2> SUFFICES ASSUME NEW b \in Artboards, Ended(b)' PROVE Ended(b)
    OBVIOUS
  <2>1. Clear(b)
    BY <1>2 DEF Ended, Clear
  <2>2. ToSet(Path[b]) \subseteq Artboards
    BY AboveIs DEF Above
  <2> QED BY <1>10, <2>1, <2>2 DEF Ended, Visible
<1>12. \A p2 \in Animation : Past(p2)' => Past(p2)
  BY <1>2, <1>11, InIs DEF Past
<1>13. Now' \in Works /\ Now'.dirty \subseteq Now.dirty /\ Now'.dirty = dirty' /\ Now.dirty = dirty
  BY <1>8 DEF Spreads, Now
<1>14. OrderInv'
  BY <1>2, <1>11, <1>13 DEF OrderInv, InLength
<1>15. ASSUME Together PROVE Together'
  <2>1. {p} \cap Guarded = {}
    <3>1. \A q \in Guarded : q[1] = "opacity" \/ q[1] = "x"
      BY DEF Guarded
    <3> QED BY <1>3, <3>1
  <2>2. Tied(Now')
    BY <1>8, <1>15, <2>1 DEF Spreads, Together
  <2>3. \A a \in Artboards : \A q \in Sources(a) : {p} \cap KeyedBy(q) = {}
    BY <1>3, KeyedByIs
  <2>4. ASSUME NEW q \in Animation, Past(q)' PROVE Stands(q)'
    <3>1. Stands(q)
      BY <1>12, <1>15, <2>4 DEF Together
    <3>2. In[q] \in Artboards /\ q \in Sources(In[q])
      BY InIs DEF Sources
    <3>3. {p} \cap KeyedBy(q) = {}
      BY <2>3, <3>2
    <3>4. PICK own : q \notin own /\ Spreads(Now, Now', {p}, {}, own)
      BY <1>8
    <3>5. Local({p}, In[q])
      BY <1>3 DEF Local
    <3> QED BY <3>1, <3>2, <3>3, <3>4, <3>5, StandsElsewhere DEF OrderInv
  <2>5. ASSUME NEW b \in Artboards, Ended(b)', NEW j \in ToSet(Joysticks[b]) PROVE Settled(Now', j)
    <3>1. Settled(Now, j)
      BY <1>11, <1>15, <2>5 DEF Together
    <3>2. {p} \cap KeyedBy(j) = {} /\ KeyedBy(j) \subseteq Properties
      BY <2>3, KeyedByIs DEF Sources, PropertiesOf
    <3>3. \A q \in KeyedBy(j) : Now'.value[q] = Now.value[q]
      BY <1>8, <3>2 DEF Spreads
    <3>4. Now'.value[<<"x", j>>] = Now.value[<<"x", j>>]
      BY <1>9, StickIs
    <3> QED BY <3>1, <3>3, <3>4, SettledBy DEF OrderInv
  <2>6. /\ \A q \in Animation : Past(q)' => Stands(q)'
        /\ \A b \in Artboards : Ended(b)' => \A j \in ToSet(Joysticks[b]) : Settled(Now', j)
    BY <2>4, <2>5
  <2>7. Tied(Now)' <=> Tied(Now')
    BY DEF Tied, Collapsed, Rendered, Now
  <2>8. \A j : Settled(Now, j)' <=> Settled(Now', j)
    BY DEF Settled, Holds, Now
  <2> QED BY <2>2, <2>6, <2>7, <2>8 DEF Together
<1> QED BY <1>2, <1>14, <1>15 DEF Resting

LEMMA FrameBegins == ASSUME FrameInit PROVE OrderInv /\ Resting /\ Together
<1>1. Now \in Works /\ InLength
  BY HeardInit DEF HeardInv
<1>2. Begun /\ elapsed = 0
  BY BegunIs DEF FrameInit
<1>3. Tied(Now)
  <2>1. Now.dirty = Artboards
    BY NowIs DEF FrameInit
  <2>2. \A n \in Artboards \ {Root} : Host(n) \in Artboards
    BY AboveIs
  <2> QED BY <2>1, <2>2 DEF Tied
<1> QED BY <1>1, <1>2, <1>3 DEF OrderInv, Resting, Together, Begun

LEMMA NothingHappens ==
  ASSUME UNCHANGED frameVars
  PROVE  (OrderInv => OrderInv') /\ (Resting => Resting') /\ (Together => Together')
<1>1. Now' = Now /\ UNCHANGED <<value, dirty, needs, state, time, todo, elapsed, answer>>
  BY NowStays DEF frameVars
<1>2. \A b \in Artboards : Ended(b)' => Ended(b)
  BY <1>1 DEF Ended, Clear, Visible, Collapsed
<1>3. \A p \in Animation : Past(p)' => Past(p)
  BY <1>1, <1>2, InIs DEF Past
<1>4. OrderInv => OrderInv'
  BY <1>1, <1>2 DEF OrderInv, InLength
<1>5. Resting => Resting'
  BY <1>1, <1>3, SameNow DEF Resting
<1>6. Together => Together'
  BY <1>1, <1>2, <1>3, SameNow DEF Together
<1> QED BY <1>4, <1>5, <1>6

LEMMA OrderStep ==
  ASSUME OrderInv, [FrameNext]_frameVars
  PROVE  /\ OrderInv'
         /\ NoCircles /\ Resting => Resting'
         /\ Untangled /\ Together => Together'
  BY MachineKeeps, SimpleKeeps, RemapKeeps, ArtboardKeeps, NestedKeeps, HostKeeps, InputKeeps, NothingHappens
     DEF FrameNext

(* Between two frames all that is visible has had its calls.                *)
LEMMA AllPast ==
  ASSUME todo = <<>>, NEW a \in Artboards, Visible(a)
  PROVE  Ended(a) /\ \A p \in Animation : In[p] = a => Past(p)
<1>1. ToSet(todo) = {}
  BY DEF ToSet
<1>2. Ended(a)
  BY <1>1 DEF Ended, Clear
<1> QED BY <1>1, <1>2 DEF Past

LEMMA RestFrom == ASSUME OrderInv, Resting PROVE StopsAtRest
<1> SUFFICES ASSUME todo = <<>>, ~answer, NEW a \in Artboards, Visible(a)
             PROVE  /\ a \notin dirty
                    /\ \A s \in Simples : In[s] = a /\ value[<<"playing", s>>] =>
                         elapsed > 0 /\ s \notin Loops /\ time[s] = Length[s]
                    /\ \A m \in Machines : In[m] = a =>
                         state[m] \notin Looping /\ (Open(Now, m) # {} => needs[m])
  BY DEF StopsAtRest
<1>1. a \notin dirty /\ \A p \in Animation : In[p] = a => AtRest(p)
  BY AllPast DEF OrderInv, Resting
<1> QED BY <1>1, NowIs DEF AtRest, Rested, Simples, Machines

LEMMA WholeFrom == ASSUME OrderInv, Together PROVE FrameIsWhole
<1> SUFFICES ASSUME todo = <<>>, NEW a \in Artboards, Visible(a)
             PROVE  /\ \A m \in Machines : In[m] = a => Shows(Pose[m][state[m]])
                    /\ \A j \in ToSet(Joysticks[a]) :
                         /\ Shows(Pose[j][value[<<"x", j>>]])
                         /\ j \in Handled => value[<<"x", j>>] = value[<<"node", a>>]
                    /\ \A r \in Remaps : In[r] = a /\ value[<<"mix", r>>] # 0
                                           => Shows(Pose[r][value[<<"time", r>>]])
                    /\ a # Root => value[<<"opacity", a>>] = Rendered(Now, a)
  BY DEF FrameIsWhole
<1>1. Ended(a) /\ \A p \in Animation : In[p] = a => Past(p)
  BY AllPast
<1>2. \A p \in Animation : In[p] = a => Stands(p)
  BY <1>1 DEF Together
<1>3. \A pose : Holds(Now, pose) => Shows(pose)
  BY NowIs DEF Holds, Shows
<1>4. \A m \in Machines : In[m] = a => Shows(Pose[m][state[m]])
  BY <1>2, <1>3 DEF Stands, Machines
<1>5. \A r \in Remaps : In[r] = a /\ value[<<"mix", r>>] # 0 => Shows(Pose[r][value[<<"time", r>>]])
  BY <1>2, <1>3 DEF Stands, Remaps
<1>6. \A j \in ToSet(Joysticks[a]) : Shows(Pose[j][value[<<"x", j>>]])
  BY <1>1, <1>3, NowIs DEF Together, Settled
<1>7. \A j \in ToSet(Joysticks[a]) : j \in Handled => value[<<"x", j>>] = value[<<"node", a>>]
  BY <1>1, NowIs DEF Together, Tied, OrderInv
<1>8. a # Root => value[<<"opacity", a>>] = Rendered(Now, a)
  <2> SUFFICES ASSUME a # Root PROVE value[<<"opacity", a>>] = Rendered(Now, a)
    OBVIOUS
  <2>1. Host(a) \in Artboards /\ Above(a) = {a} \cup Above(Host(a))
    BY AboveIs
  <2>2. ~Collapsed(Now, a) /\ Visible(Host(a))
    BY <2>1 DEF Visible, Above
  <2>3. Host(a) \notin dirty
    BY <2>1, <2>2, AllPast DEF OrderInv
  <2> QED BY <2>2, <2>3, NowIs DEF Together, Tied
<1> QED BY <1>4, <1>5, <1>6, <1>7, <1>8

(* A host that stops when it is answered false misses nothing visible that  *)
(* goes on by itself, for any tree whose machines, with their inputs as they *)
(* are, come to a state within as many steps as they have transitions.      *)
THEOREM HostMayStop == NoCircles => (FrameSpec => []StopsAtRest)
<1> SUFFICES ASSUME NoCircles PROVE FrameSpec => []StopsAtRest
  OBVIOUS
<1>1. FrameInit => OrderInv /\ Resting
  BY FrameBegins
<1>2. (OrderInv /\ Resting) /\ [FrameNext]_frameVars => (OrderInv /\ Resting)'
  BY OrderStep
<1>3. OrderInv /\ Resting => StopsAtRest
  BY RestFrom
<1> QED BY <1>1, <1>2, <1>3, PTL DEF FrameSpec

(* What a frame shows is of one moment at all levels, for any tree in which *)
(* no two things set the same or each other's.                             *)
THEOREM ShownTogether == Untangled => (FrameSpec => []FrameIsWhole)
<1> SUFFICES ASSUME Untangled PROVE FrameSpec => []FrameIsWhole
  OBVIOUS
<1>1. FrameInit => OrderInv /\ Together
  BY FrameBegins
<1>2. (OrderInv /\ Together) /\ [FrameNext]_frameVars => (OrderInv /\ Together)'
  BY OrderStep
<1>3. OrderInv /\ Together => FrameIsWhole
  BY WholeFrom
<1> QED BY <1>1, <1>2, <1>3, PTL DEF FrameSpec
=============================================================================
