----------------------- MODULE DrawTargetOrderProofs -----------------------
(***************************************************************************)
(* The dependency sorter, for every graph, with cycles or without, and any *)
(* roots: the order is one in which all dependents follow, no component is *)
(* in it twice, and it has everything the roots lead to unless they lead   *)
(* to a cycle.  Then the order Artboard::initialize gives sortDrawOrder    *)
(* its draw targets in, for all rules, targets and drawables, and what it  *)
(* is for: the list that sortDrawOrder makes has every drawable once and   *)
(* every group where the rules say, and hits are tested in its order.      *)
(*                                                                         *)
(* The list is looked at as a sequence.  A group is put into it at a cut   *)
(* beside the drawable of its target, which is in the list by then as the  *)
(* targets are sorted; that leaves what the rules say of the others true.  *)
(***************************************************************************)
EXTENDS DrawTargetOrder, Induction, TLAPS

(* The components in the order are the ones that are done.                 *)
OrderIsPerm ==
  /\ \A c \in perm : \E i \in DOMAIN order : order[i] = c
  /\ \A i \in DOMAIN order : order[i] \in perm

(* The dependents an open call has come past are done, but for the one     *)
(* that the next call on the stack is at.                                  *)
PastAreDone(k) ==
  \A m \in DOMAIN graph[stack[k].component] :
    m < stack[k].child =>
      \/ graph[stack[k].component][m] \in perm
      \/ /\ k < Len(stack)
         /\ m = stack[k].child - 1
         /\ stack[k + 1].component = graph[stack[k].component][m]

(* Open calls are marked, are not done, and are for different components.  *)
StackInv ==
  \A k \in DOMAIN stack :
    /\ stack[k].component \in temp \ perm
    /\ \A j \in DOMAIN stack : j # k => stack[j].component # stack[k].component
    /\ PastAreDone(k)

(* So are the roots, while no cycle was found.                             *)
RootsInv ==
  ~failed => \A k \in DOMAIN Roots :
    k < root => \/ Roots[k] \in perm
                \/ stack # <<>> /\ k = root - 1 /\ stack[1].component = Roots[k]

Inv ==
  /\ TypeOK
  /\ perm \subseteq temp
  /\ OrderIsPerm
  /\ DependentsFollow
  /\ NoRepeats
  /\ StackInv
  /\ RootsInv

-----------------------------------------------------------------------------
LEMMA InFrontIs ==
  ASSUME order \in Seq(Components), NEW c \in Components
  PROVE  /\ InFront(c) \in Seq(Components)
         /\ Len(InFront(c)) = Len(order) + 1
         /\ DOMAIN InFront(c) = 1 .. Len(order) + 1
         /\ InFront(c)[1] = c
         /\ \A i \in DOMAIN order : InFront(c)[i + 1] = order[i]
         /\ \A i \in DOMAIN InFront(c) : i = 1 \/ (i - 1 \in DOMAIN order /\ InFront(c)[i] = order[i - 1])
  BY DEF InFront

LEMMA CallIsComponent ==
  ASSUME TypeOK, NEW c, Calls(c)
  PROVE  c \in Components
<1>1. CASE stack = <<>>
  BY <1>1, SorterAssumption DEF Calls
<1>2. CASE stack # <<>>
  <2>1. Top \in Frame
    BY <1>2 DEF TypeOK, Top
  <2>2. graph[Top.component] \in Seq(Components)
    BY <2>1, SorterAssumption DEF TypeOK, Frame
  <2> QED BY <1>2, <2>2 DEF Calls
<1> QED BY <1>1, <1>2

LEMMA NextChildType ==
  ASSUME TypeOK
  PROVE  /\ NextChild \in Seq(Frame)
         /\ Len(NextChild) = Len(stack)
         /\ DOMAIN NextChild = DOMAIN stack
         /\ \A k \in DOMAIN stack : NextChild[k].component = stack[k].component
         /\ \A k \in DOMAIN stack : k # Len(stack) => NextChild[k] = stack[k]
         /\ stack # <<>> => NextChild[Len(stack)].child = stack[Len(stack)].child + 1
         /\ NextRoot \in Nat \ {0}
<1>1. CASE stack = <<>>
  BY <1>1 DEF TypeOK, NextChild, NextRoot
<1>2. CASE stack # <<>>
  <2>1. Len(stack) \in DOMAIN stack /\ stack[Len(stack)] \in Frame
    BY <1>2 DEF TypeOK
  <2>2. NextChild = [stack EXCEPT ![Len(stack)].child = stack[Len(stack)].child + 1]
    BY <1>2 DEF NextChild
  <2>3. [stack[Len(stack)] EXCEPT !.child = stack[Len(stack)].child + 1] \in Frame
    BY <2>1 DEF Frame
  <2> QED BY <1>2, <2>1, <2>2, <2>3 DEF TypeOK, NextRoot, Frame
<1> QED BY <1>1, <1>2

-----------------------------------------------------------------------------
LEMMA InvInit == Init => Inv
<1> SUFFICES ASSUME Init PROVE Inv
  OBVIOUS
<1>1. TypeOK
  <2>1. <<>> \in Seq(Components) /\ <<>> \in Seq(Frame)
    OBVIOUS
  <2>2. perm \subseteq Components /\ temp \subseteq Components /\ failed \in BOOLEAN
    BY DEF Init
  <2> QED BY <2>1, <2>2 DEF Init, TypeOK
<1>2. order = <<>> /\ DOMAIN order = {} /\ stack = <<>> /\ DOMAIN stack = {}
  BY DEF Init
<1>3. OrderIsPerm /\ DependentsFollow /\ NoRepeats /\ StackInv /\ perm \subseteq temp
  BY <1>2 DEF Init, OrderIsPerm, DependentsFollow, NoRepeats, StackInv
<1>4. RootsInv
  BY SorterAssumption DEF Init, RootsInv
<1> QED BY <1>1, <1>3, <1>4 DEF Inv

LEMMA TypeNext == TypeOK /\ [Next]_vars => TypeOK'
<1> SUFFICES ASSUME TypeOK, [Next]_vars PROVE TypeOK'
  OBVIOUS
<1>1. ASSUME NEW c \in Components, Known(c) PROVE TypeOK'
  BY <1>1, NextChildType DEF Known, TypeOK
<1>2. ASSUME NEW c \in Components, Cycle(c) PROVE TypeOK'
  BY <1>2, NextChildType DEF Cycle, TypeOK
<1>3. ASSUME NEW c \in Components, Enter(c) PROVE TypeOK'
  <2>1. [component |-> c, child |-> 1] \in Frame
    BY DEF Frame
  <2> QED BY <1>3, <2>1, NextChildType DEF Enter, TypeOK
<1>4. ASSUME Finish PROVE TypeOK'
  <2>1. Top \in Frame
    BY <1>4 DEF Finish, Top, TypeOK
  <2>2. Top.component \in Components
    BY <2>1 DEF Frame
  <2>3. SubSeq(stack, 1, Len(stack) - 1) \in Seq(Frame)
    BY <1>4 DEF Finish, TypeOK
  <2>4. order' \in Seq(Components)
    BY <1>4, <2>2, InFrontIs DEF Finish, TypeOK
  <2> QED BY <1>4, <2>2, <2>3, <2>4 DEF Finish, TypeOK
<1>5. CASE UNCHANGED vars
  BY <1>5 DEF vars, TypeOK
<1> QED BY <1>1, <1>2, <1>3, <1>4, <1>5 DEF Next

(* The steps that leave the order alone.                                   *)
LEMMA OrderKept ==
  ASSUME Inv, UNCHANGED <<graph, perm, order>>
  PROVE  OrderIsPerm' /\ DependentsFollow' /\ NoRepeats'
  BY DEF Inv, OrderIsPerm, DependentsFollow, NoRepeats

LEMMA KnownNext == ASSUME Inv, TypeOK', NEW c \in Components, Known(c) PROVE Inv'
<1> USE DEF Inv
<1>1. UNCHANGED <<graph, perm, temp, order, failed>> /\ stack' = NextChild /\ root' = NextRoot
  BY DEF Known
<1>2. c \in perm
  BY DEF Known
<1>3. StackInv'
  <2> SUFFICES ASSUME NEW k \in DOMAIN stack PROVE
        /\ stack'[k].component \in temp \ perm
        /\ \A j \in DOMAIN stack : j # k => stack'[j].component # stack'[k].component
        /\ PastAreDone(k)'
    BY <1>1, NextChildType DEF StackInv
  <2>1. /\ stack'[k].component \in temp \ perm
        /\ \A j \in DOMAIN stack : j # k => stack'[j].component # stack'[k].component
    BY <1>1, NextChildType DEF StackInv
  <2>2. CASE k # Len(stack)
    <3>1. stack'[k] = stack[k] /\ k + 1 \in DOMAIN stack /\ Len(stack') = Len(stack)
      BY <1>1, <2>2, NextChildType DEF TypeOK
    <3>2. stack'[k + 1].component = stack[k + 1].component
      BY <1>1, <3>1, NextChildType
    <3> QED BY <1>1, <2>1, <3>1, <3>2 DEF StackInv, PastAreDone
  <2>3. CASE k = Len(stack)
    <3>1. stack # <<>> /\ stack[k] \in Frame
      BY <2>3 DEF TypeOK
    <3>2. /\ stack'[k].child = stack[k].child + 1
          /\ stack'[k].component = stack[k].component
      BY <1>1, <2>3, <3>1, NextChildType
    <3>3. c = graph[stack[k].component][stack[k].child]
      BY <2>3, <3>1 DEF Known, Calls, Top
    <3>4. graph[stack[k].component] \in Seq(Components)
      BY <3>1, SorterAssumption DEF TypeOK, Frame
    <3>5. PastAreDone(k)
      BY DEF StackInv
    <3>6. ASSUME NEW m \in DOMAIN graph[stack[k].component], m < stack[k].child + 1
          PROVE  graph[stack[k].component][m] \in perm
      <4>1. m \in Nat /\ stack[k].child \in Nat
        BY <3>1, <3>4 DEF Frame
      <4>2. m < stack[k].child \/ m = stack[k].child
        BY <3>6, <4>1
      <4> QED BY <1>2, <2>3, <3>3, <3>5, <4>2 DEF PastAreDone
    <3> QED BY <1>1, <2>1, <3>2, <3>6 DEF PastAreDone
  <2> QED BY <2>1, <2>2, <2>3
<1>4. RootsInv'
  <2>1. CASE stack = <<>>
    <3>1. root' = root + 1 /\ stack' = stack /\ c = Roots[root] /\ root \in Nat
      BY <1>1, <2>1 DEF NextRoot, NextChild, Known, Calls, TypeOK
    <3> QED BY <1>1, <1>2, <2>1, <3>1, SorterAssumption DEF RootsInv
  <2>2. CASE stack # <<>>
    <3>1. root' = root /\ stack'[1].component = stack[1].component /\ stack' # <<>>
      BY <1>1, <2>2, NextChildType DEF NextRoot, TypeOK
    <3> QED BY <1>1, <2>2, <3>1 DEF RootsInv
  <2> QED BY <2>1, <2>2
<1> QED BY <1>1, <1>3, <1>4, OrderKept

LEMMA CycleNext == ASSUME Inv, TypeOK', NEW c \in Components, Cycle(c) PROVE Inv'
<1>1. UNCHANGED <<graph, perm, temp, order>> /\ stack' = <<>> /\ failed'
  BY DEF Cycle
<1>2. DOMAIN stack' = {}
  BY <1>1
<1>3. StackInv' /\ RootsInv'
  BY <1>1, <1>2 DEF StackInv, RootsInv
<1> QED BY <1>1, <1>3, OrderKept DEF Inv

LEMMA EnterNext == ASSUME Inv, TypeOK', NEW c \in Components, Enter(c) PROVE Inv'
<1> USE DEF Inv
<1> DEFINE n == Len(stack)
           new == [component |-> c, child |-> 1]
<1>1. /\ UNCHANGED <<graph, perm, order, failed>> /\ temp' = temp \cup {c}
      /\ stack' = Append(NextChild, new) /\ root' = NextRoot
      /\ c \notin temp /\ c \notin perm
  BY DEF Enter, IsNew
<1>2. /\ Len(stack') = n + 1 /\ n \in Nat
      /\ DOMAIN stack' = 1 .. n + 1 /\ DOMAIN stack = 1 .. n
      /\ stack'[n + 1] = new
      /\ \A k \in 1 .. n : stack'[k] = NextChild[k]
  <2>1. new \in Frame
    BY DEF Frame
  <2> HIDE DEF new
  <2> QED BY <1>1, <2>1, NextChildType DEF TypeOK
<1>3. \A k \in 1 .. n : stack'[k].component = stack[k].component
  BY <1>2, NextChildType
<1>4. \A k \in 1 .. n + 1 : stack'[k].component \in temp' \ perm
  BY <1>1, <1>2, <1>3 DEF StackInv
<1>5. \A j, k \in 1 .. n + 1 : j # k => stack'[j].component # stack'[k].component
  <2>1. \A k \in 1 .. n : stack'[k].component \in temp
    BY <1>2, <1>3 DEF StackInv
  <2>2. stack'[n + 1].component = c
    BY <1>2
  <2>3. \A j, k \in 1 .. n : j # k => stack'[j].component # stack'[k].component
    BY <1>2, <1>3 DEF StackInv
  <2> QED BY <1>1, <1>2, <2>1, <2>2, <2>3
<1>6. ASSUME NEW k \in 1 .. n + 1 PROVE PastAreDone(k)'
  <2>1. CASE k = n + 1
    <3>1. stack'[k].child = 1 /\ stack'[k].component = c
      BY <1>2, <2>1
    <3>2. graph[c] \in Seq(Components)
      BY SorterAssumption DEF TypeOK
    <3>3. \A m \in DOMAIN graph[c] : ~(m < 1)
      BY <3>2
    <3> QED BY <1>1, <3>1, <3>3 DEF PastAreDone
  <2>2. CASE k < n
    <3>1. stack'[k] = stack[k]
      BY <1>2, <2>2, NextChildType
    <3>2. stack'[k + 1].component = stack[k + 1].component
      BY <1>2, <1>3, <2>2
    <3>3. PastAreDone(k)
      BY <1>2, <2>2 DEF StackInv
    <3> QED BY <1>1, <1>2, <2>2, <3>1, <3>2, <3>3 DEF PastAreDone
  <2>3. CASE k = n
    <3>1. stack # <<>> /\ stack[k] \in Frame
      BY <1>2, <2>3 DEF TypeOK
    <3>2. /\ stack'[k].child = stack[k].child + 1
          /\ stack'[k].component = stack[k].component
      BY <1>2, <2>3, <3>1, NextChildType
    <3>3. c = graph[stack[k].component][stack[k].child]
      BY <2>3, <3>1 DEF Enter, Calls, Top
    <3>4. graph[stack[k].component] \in Seq(Components)
      BY <3>1, SorterAssumption DEF TypeOK, Frame
    <3>5. PastAreDone(k)
      BY <1>2, <2>3 DEF StackInv
    <3>6. stack'[k + 1].component = c /\ k < Len(stack')
      BY <1>2, <2>3
    <3>7. ASSUME NEW m \in DOMAIN graph[stack[k].component], m < stack[k].child + 1
          PROVE  \/ graph[stack[k].component][m] \in perm
                 \/ m = stack[k].child /\ graph[stack[k].component][m] = c
      <4>1. m \in Nat /\ stack[k].child \in Nat
        BY <3>1, <3>4 DEF Frame
      <4>2. m < stack[k].child \/ m = stack[k].child
        BY <3>7, <4>1
      <4> QED BY <2>3, <3>3, <3>5, <4>2 DEF PastAreDone
    <3>8. stack[k].child = stack'[k].child - 1
      BY <3>1, <3>2 DEF Frame
    <3>9. ASSUME NEW m \in DOMAIN graph[stack[k].component], m < stack'[k].child
          PROVE  \/ graph[stack[k].component][m] \in perm
                 \/ m = stack'[k].child - 1 /\ graph[stack[k].component][m] = c
      BY <3>2, <3>7, <3>8, <3>9
    <3> QED BY <1>1, <3>2, <3>6, <3>9 DEF PastAreDone
  <2>4. k = n + 1 \/ k < n \/ k = n
    <3>1. n \in Nat
      BY <1>2
    <3> HIDE DEF n
    <3> QED BY <3>1
  <2> QED BY <2>1, <2>2, <2>3, <2>4
<1>7. StackInv'
  BY <1>1, <1>2, <1>4, <1>5, <1>6 DEF StackInv
<1>8. RootsInv'
  <2>1. CASE stack = <<>>
    <3>1. root' = root + 1 /\ c = Roots[root] /\ root \in Nat
      BY <1>1, <2>1 DEF NextRoot, Enter, Calls, TypeOK
    <3>2. stack' # <<>> /\ stack'[1].component = c
      BY <1>2, <2>1
    <3> QED BY <1>1, <2>1, <3>1, <3>2, SorterAssumption DEF RootsInv
  <2>2. CASE stack # <<>>
    <3>1. root' = root /\ stack'[1].component = stack[1].component /\ stack' # <<>>
      BY <1>1, <1>2, <1>3, <2>2 DEF NextRoot, TypeOK
    <3> QED BY <1>1, <2>2, <3>1 DEF RootsInv
  <2> QED BY <2>1, <2>2
<1>9. perm' \subseteq temp'
  BY <1>1
<1> QED BY <1>1, <1>7, <1>8, <1>9, OrderKept

(* What is finished has only dependents that are done.                     *)
LEMMA TopIsReady ==
  ASSUME Inv, Finish
  PROVE  /\ Top.component \in Components /\ Top.component \in temp
         /\ Top.component \notin perm
         /\ \A m \in DOMAIN graph[Top.component] : graph[Top.component][m] \in perm
<1> USE DEF Inv
<1>1. Len(stack) \in DOMAIN stack /\ Top = stack[Len(stack)] /\ Top \in Frame
  BY DEF Finish, TypeOK, Top
<1>2. graph[Top.component] \in Seq(Components) /\ Top.component \in Components
  BY <1>1, SorterAssumption DEF TypeOK, Frame
<1>3. PastAreDone(Len(stack)) /\ Top.component \in temp \ perm
  BY <1>1 DEF StackInv
<1>4. ASSUME NEW m \in DOMAIN graph[Top.component] PROVE graph[Top.component][m] \in perm
  <2>1. Top.child \in Nat \ {0}
    BY <1>1 DEF Frame
  <2>2. m < Top.child
    BY <1>2, <2>1 DEF Finish
  <2> QED BY <1>1, <1>3, <2>2 DEF PastAreDone
<1> QED BY <1>2, <1>3, <1>4

LEMMA FinishNext == ASSUME Inv, TypeOK', Finish PROVE Inv'
<1> USE DEF Inv
<1> DEFINE c == Top.component
           n == Len(stack)
<1>1. /\ UNCHANGED <<graph, temp, root, failed>> /\ perm' = perm \cup {c}
      /\ order' = InFront(c) /\ stack' = SubSeq(stack, 1, n - 1)
      /\ stack # <<>>
  BY DEF Finish
<1>2. /\ c \in Components /\ c \in temp /\ c \notin perm
      /\ \A m \in DOMAIN graph[c] : graph[c][m] \in perm
  BY TopIsReady
<1>3. order \in Seq(Components)
  BY DEF TypeOK
<1> HIDE DEF c
<1>4. /\ DOMAIN order' = 1 .. Len(order) + 1 /\ DOMAIN order = 1 .. Len(order)
      /\ Len(order) \in Nat
      /\ order'[1] = c
      /\ \A i \in DOMAIN order : order'[i + 1] = order[i]
      /\ \A i \in DOMAIN order' : i = 1 \/ (i - 1 \in DOMAIN order /\ order'[i] = order[i - 1])
  BY <1>1, <1>2, <1>3, InFrontIs
<1>5. OrderIsPerm'
  <2>1. ASSUME NEW d \in perm' PROVE \E i \in DOMAIN order' : order'[i] = d
    <3>1. CASE d = c
      BY <1>4, <3>1
    <3>2. CASE d \in perm
      <4>1. PICK i \in DOMAIN order : order[i] = d
        BY <3>2 DEF OrderIsPerm
      <4>2. i + 1 \in DOMAIN order' /\ order'[i + 1] = d
        BY <1>4, <4>1
      <4> QED BY <4>2
    <3> QED BY <1>1, <3>1, <3>2
  <2>2. ASSUME NEW i \in DOMAIN order' PROVE order'[i] \in perm'
    BY <1>1, <1>4 DEF OrderIsPerm
  <2> QED BY <2>1, <2>2 DEF OrderIsPerm
<1>6. DependentsFollow'
  <2> SUFFICES ASSUME NEW i \in DOMAIN order', NEW k \in DOMAIN graph[order'[i]]
               PROVE  \E j \in DOMAIN order' : i < j /\ order'[j] = graph[order'[i]][k]
    BY <1>1 DEF DependentsFollow
  <2>1. CASE i = 1
    <3>1. graph[order'[i]][k] \in perm
      BY <1>2, <1>4, <2>1
    <3>2. PICK j \in DOMAIN order : order[j] = graph[order'[i]][k]
      BY <3>1 DEF OrderIsPerm
    <3>3. j + 1 \in DOMAIN order' /\ order'[j + 1] = graph[order'[i]][k] /\ i < j + 1
      BY <1>4, <2>1, <3>2
    <3> QED BY <3>3
  <2>2. CASE i # 1
    <3>1. i - 1 \in DOMAIN order /\ order'[i] = order[i - 1]
      BY <1>4, <2>2
    <3>2. PICK j \in DOMAIN order : i - 1 < j /\ order[j] = graph[order[i - 1]][k]
      BY <3>1 DEF DependentsFollow
    <3>3. j + 1 \in DOMAIN order' /\ order'[j + 1] = graph[order'[i]][k] /\ i < j + 1
      BY <1>4, <3>1, <3>2
    <3> QED BY <3>3
  <2> QED BY <2>1, <2>2
<1>7. NoRepeats'
  <2> SUFFICES ASSUME NEW i \in DOMAIN order', NEW j \in DOMAIN order', order'[i] = order'[j]
               PROVE  i = j
    BY DEF NoRepeats
  <2>1. \A k \in DOMAIN order' : k # 1 => order'[k] # c
    BY <1>2, <1>4 DEF OrderIsPerm
  <2>2. CASE i = 1 \/ j = 1
    BY <1>4, <2>1, <2>2
  <2>3. CASE i # 1 /\ j # 1
    <3>1. i - 1 \in DOMAIN order /\ j - 1 \in DOMAIN order /\ order[i - 1] = order[j - 1]
      BY <1>4, <2>3
    <3>2. i - 1 = j - 1
      BY <3>1 DEF NoRepeats
    <3> QED BY <1>4, <3>2
  <2> QED BY <2>2, <2>3
<1>8. /\ Len(stack') = n - 1 /\ n \in Nat \ {0}
      /\ DOMAIN stack' = 1 .. n - 1 /\ DOMAIN stack = 1 .. n
      /\ \A k \in 1 .. n - 1 : stack'[k] = stack[k]
      /\ stack[n].component = c
  <2>1. n \in Nat \ {0} /\ stack \in Seq(Frame) /\ DOMAIN stack = 1 .. n
    BY <1>1 DEF TypeOK
  <2>2. stack[n].component = c
    BY DEF Top, c
  <2> HIDE DEF n
  <2>3. \A k \in 1 .. n - 1 : k \in 1 .. n
    BY <2>1
  <2>4. /\ Len(SubSeq(stack, 1, n - 1)) = n - 1
        /\ DOMAIN SubSeq(stack, 1, n - 1) = 1 .. n - 1
        /\ \A k \in 1 .. n - 1 : SubSeq(stack, 1, n - 1)[k] = stack[k]
    BY <2>1, <2>3
  <2> QED BY <1>1, <2>1, <2>2, <2>4
<1>9. StackInv'
  <2> SUFFICES ASSUME NEW k \in 1 .. n - 1 PROVE
        /\ stack'[k].component \in temp' \ perm'
        /\ \A j \in DOMAIN stack' : j # k => stack'[j].component # stack'[k].component
        /\ PastAreDone(k)'
    BY <1>8 DEF StackInv
  <2>1. k \in DOMAIN stack /\ stack'[k] = stack[k] /\ n \in DOMAIN stack /\ k # n
    BY <1>8
  <2>2. stack[k].component \in temp \ perm /\ stack[k].component # c /\ PastAreDone(k)
    BY <1>8, <2>1 DEF StackInv
  <2>3. \A j \in DOMAIN stack' : j # k => stack'[j].component # stack'[k].component
    BY <1>8, <2>1 DEF StackInv
  <2>4. CASE k = n - 1
    <3>1. k + 1 = n
      BY <1>8, <2>4
    <3> QED BY <1>1, <1>8, <2>1, <2>2, <2>3, <3>1 DEF PastAreDone
  <2>5. CASE k # n - 1
    <3>1. k + 1 \in 1 .. n - 1
      BY <1>8, <2>5
    <3> QED BY <1>1, <1>8, <2>1, <2>2, <2>3, <3>1 DEF PastAreDone
  <2> QED BY <2>4, <2>5
<1>10. RootsInv'
  <2> SUFFICES ASSUME ~failed, NEW k \in DOMAIN Roots, k < root
               PROVE  \/ Roots[k] \in perm'
                      \/ stack' # <<>> /\ k = root - 1 /\ stack'[1].component = Roots[k]
    BY <1>1 DEF RootsInv
  <2>1. CASE n = 1
    BY <1>1, <1>8, <2>1 DEF RootsInv
  <2>2. CASE n # 1
    <3>1. stack'[1] = stack[1] /\ stack' # <<>>
      BY <1>8, <2>2
    <3> QED BY <1>1, <3>1 DEF RootsInv
  <2> QED BY <2>1, <2>2
<1>11. perm' \subseteq temp'
  BY <1>1, <1>2
<1> QED BY <1>5, <1>6, <1>7, <1>9, <1>10, <1>11

LEMMA InvNext == Inv /\ [Next]_vars => Inv'
<1> SUFFICES ASSUME Inv, [Next]_vars PROVE Inv'
  OBVIOUS
<1>1. TypeOK'
  BY TypeNext DEF Inv
<1>2. CASE UNCHANGED vars
  BY <1>2 DEF vars, Inv, TypeOK, OrderIsPerm, DependentsFollow, NoRepeats, StackInv,
              PastAreDone, RootsInv
<1> QED BY <1>1, <1>2, KnownNext, CycleNext, EnterNext, FinishNext DEF Next

LEMMA AlwaysInv == Spec => []Inv
  BY InvInit, InvNext, PTL DEF Spec

(* The type invariant.                                                     *)
THEOREM TypeCorrect == Spec => []TypeOK
<1>1. Inv => TypeOK
  BY DEF Inv
<1> QED BY <1>1, AlwaysInv, PTL

(* Components are updated, and draw targets placed, before what depends on *)
(* them.                                                                   *)
THEOREM ParentsComeFirst == Spec => []DependentsFollow
<1>1. Inv => DependentsFollow
  BY DEF Inv
<1> QED BY <1>1, AlwaysInv, PTL

(* No component is updated twice in one pass over the order.               *)
THEOREM EachOnce == Spec => []NoRepeats
<1>1. Inv => NoRepeats
  BY DEF Inv
<1> QED BY <1>1, AlwaysInv, PTL

-----------------------------------------------------------------------------
(* What lies below a component.                                            *)

(* It is closed: dependents of c, and of what is below c, are below c.     *)
LEMMA BelowIsClosed ==
  ASSUME TypeOK, NEW c \in Components, NEW d \in Below(c) \cup {c}, NEW k \in DOMAIN graph[d]
  PROVE  graph[d][k] \in Below(c)
<1>1. d \in Components
  BY DEF Below
<1>2. graph[d] \in Seq(Components)
  BY <1>1, SorterAssumption DEF TypeOK
<1>3. graph[d][k] \in Components
  BY <1>2
<1>4. ASSUME NEW S \in SUBSET Components, Children(S \cup {c}) \subseteq S
      PROVE  graph[d][k] \in S
  <2>1. d \in S \cup {c}
    BY <1>4 DEF Below
  <2>2. graph[d][k] \in Children(S \cup {c})
    BY <2>1 DEF Children
  <2>3. QED
    BY <1>4, <2>2
<1>5. QED
  BY <1>3, <1>4 DEF Below

(* It is the least set that is.                                            *)
LEMMA BelowIsLeast ==
  ASSUME NEW c, NEW S \in SUBSET Components,
         \A d \in S \cup {c} : \A k \in DOMAIN graph[d] : graph[d][k] \in S
  PROVE  Below(c) \subseteq S
<1>1. Children(S \cup {c}) \subseteq S
  BY DEF Children
<1>2. QED
  BY <1>1 DEF Below

LEMMA BelowIsTransitive ==
  ASSUME TypeOK, NEW c \in Components, NEW d \in Below(c)
  PROVE  Below(d) \subseteq Below(c)
<1>1. Below(c) \in SUBSET Components
  BY DEF Below
<1>2. \A x \in Below(c) \cup {d} : \A k \in DOMAIN graph[x] : graph[x][k] \in Below(c)
  BY BelowIsClosed
<1>3. QED
  BY <1>1, <1>2, BelowIsLeast

-----------------------------------------------------------------------------
(* An open call was made for what is below the ones it is inside of.       *)
StackLeadsOn ==
  \A j, k \in DOMAIN stack : j < k => stack[k].component \in Below(stack[j].component)

Reached == Above \cup UNION {Below(r) : r \in Above}

HasCycle == \E r \in Above : \E c \in {r} \cup Below(r) : c \in Below(c)

(* While no cycle was found, what is marked and not done is an open call.  *)
OpenAreOnStack ==
  ~failed => \A c \in temp \ perm : \E k \in DOMAIN stack : stack[k].component = c

WalkInv ==
  /\ StackLeadsOn
  /\ OpenAreOnStack
  /\ temp \subseteq Reached
  /\ failed => HasCycle

LEMMA AboveType == Above \subseteq Components
  BY SorterAssumption DEF Above

(* A call is made for a root, or for what is below all the open calls.     *)
LEMMA CallsLeadOn ==
  ASSUME Inv, StackLeadsOn, NEW c, Calls(c)
  PROVE  /\ stack = <<>> => c \in Above
         /\ \A j \in DOMAIN stack : c \in Below(stack[j].component)
<1>1. CASE stack = <<>>
  BY <1>1 DEF Calls, Above
<1>2. CASE stack # <<>>
  <2>1. /\ Len(stack) \in DOMAIN stack /\ DOMAIN stack = 1 .. Len(stack) /\ Len(stack) \in Nat
        /\ Top = stack[Len(stack)]
        /\ \A j \in DOMAIN stack : stack[j].component \in Components
    <3>1. stack \in Seq(Frame)
      BY DEF Inv, TypeOK
    <3>2. \A f \in Frame : f.component \in Components
      BY DEF Frame
    <3>3. \A j \in DOMAIN stack : stack[j] \in Frame
      BY <3>1
    <3>4. QED
      BY <1>2, <3>1, <3>2, <3>3 DEF Top
  <2>2. Top.component \in Components
    BY <2>1
  <2>3. c \in Below(Top.component)
    BY <1>2, <2>2, BelowIsClosed DEF Calls, Inv
  <2>4. ASSUME NEW j \in DOMAIN stack
        PROVE  c \in Below(stack[j].component)
    <3>1. CASE j = Len(stack)
      BY <2>1, <2>3, <3>1
    <3>2. CASE j < Len(stack)
      <4>1. Top.component \in Below(stack[j].component)
        BY <2>1, <3>2 DEF StackLeadsOn
      <4>2. QED
        BY <2>1, <2>3, <4>1, BelowIsTransitive DEF Inv
    <3>3. QED
      BY <2>1, <3>1, <3>2
  <2>5. QED
    BY <1>2, <2>4
<1>3. QED
  BY <1>1, <1>2

LEMMA CallIsReached ==
  ASSUME Inv, WalkInv, NEW c, Calls(c)
  PROVE  c \in Reached
<1>1. CASE stack = <<>>
  BY <1>1, CallsLeadOn DEF WalkInv, Reached
<1>2. CASE stack # <<>>
  <2>1. Len(stack) \in DOMAIN stack
    BY <1>2 DEF Inv, TypeOK
  <2>2. PICK d \in Components : d \in Reached /\ c \in Below(d)
    BY <2>1, CallsLeadOn DEF Inv, TypeOK, StackInv, WalkInv
  <2>3. CASE d \in Above
    BY <2>2, <2>3 DEF Reached
  <2>4. CASE d \notin Above
    <3>1. PICK r \in Above : d \in Below(r)
      BY <2>2, <2>4 DEF Reached
    <3>2. c \in Below(r)
      BY <2>2, <3>1, AboveType, BelowIsTransitive DEF Inv
    <3>3. QED
      BY <3>2 DEF Reached
  <2>5. QED
    BY <2>3, <2>4
<1>3. QED
  BY <1>1, <1>2

(* The component that is met again is below itself.                        *)
LEMMA OpenMeansCycle ==
  ASSUME Inv, WalkInv, NEW c, Calls(c), IsOpen(c)
  PROVE  HasCycle
<1>1. CASE failed
  BY <1>1 DEF WalkInv
<1>2. CASE ~failed
  <2>1. c \in temp \ perm
    BY DEF IsOpen
  <2>2. PICK k \in DOMAIN stack : stack[k].component = c
    BY <1>2, <2>1 DEF WalkInv, OpenAreOnStack
  <2>3. c \in Below(c)
    BY <2>2, CallsLeadOn DEF WalkInv
  <2>4. c \in Reached
    BY CallIsReached
  <2>5. QED
    BY <2>3, <2>4 DEF Reached, HasCycle
<1>3. QED
  BY <1>1, <1>2

LEMMA WalkInit == Init => WalkInv
  BY DEF Init, WalkInv, StackLeadsOn, OpenAreOnStack, Reached

LEMMA WalkKnown ==
  ASSUME Inv, WalkInv, NEW c \in Components, Known(c)
  PROVE  WalkInv'
<1>1. UNCHANGED <<graph, perm, temp, failed>> /\ stack' = NextChild
  BY DEF Known
<1>2. /\ DOMAIN stack' = DOMAIN stack
      /\ \A k \in DOMAIN stack : stack'[k].component = stack[k].component
  BY <1>1, NextChildType DEF Inv
<1>3. \A d : Below(d)' = Below(d)
  BY <1>1 DEF Below, Children
<1>4. StackLeadsOn'
  BY <1>2, <1>3 DEF WalkInv, StackLeadsOn
<1>5. OpenAreOnStack'
  BY <1>1, <1>2 DEF WalkInv, OpenAreOnStack
<1>6. Reached' = Reached /\ HasCycle' = HasCycle
  BY <1>3 DEF Reached, HasCycle, Above
<1>7. QED
  BY <1>1, <1>4, <1>5, <1>6 DEF WalkInv

LEMMA WalkCycle ==
  ASSUME Inv, WalkInv, NEW c \in Components, Cycle(c)
  PROVE  WalkInv'
<1>1. UNCHANGED <<graph, perm, temp>> /\ DOMAIN stack' = {} /\ failed' = TRUE
  BY DEF Cycle
<1>2. HasCycle
  BY OpenMeansCycle DEF Cycle
<1>3. \A d : Below(d)' = Below(d)
  BY <1>1 DEF Below, Children
<1>4. Reached' = Reached /\ HasCycle' = HasCycle
  BY <1>3 DEF Reached, HasCycle, Above
<1>5. QED
  BY <1>1, <1>2, <1>4 DEF WalkInv, StackLeadsOn, OpenAreOnStack

LEMMA WalkEnter ==
  ASSUME Inv, WalkInv, NEW c \in Components, Enter(c)
  PROVE  WalkInv'
<1> DEFINE n == Len(stack)
           new == [component |-> c, child |-> 1]
<1>1. /\ UNCHANGED <<graph, perm, failed>> /\ temp' = temp \cup {c}
      /\ stack' = Append(NextChild, new)
      /\ Calls(c)
  BY DEF Enter
<1>2. /\ n \in Nat /\ DOMAIN stack = 1 .. n /\ DOMAIN stack' = 1 .. n + 1
      /\ stack'[n + 1] = new
      /\ \A k \in 1 .. n : stack'[k] = NextChild[k]
  <2>1. new \in Frame
    BY DEF Frame
  <2> HIDE DEF new
  <2>2. QED
    BY <1>1, <2>1, NextChildType DEF Inv, TypeOK
<1>3. /\ \A k \in 1 .. n : stack'[k].component = stack[k].component
      /\ stack'[n + 1].component = c
  BY <1>2, NextChildType DEF Inv
<1>4. \A d : Below(d)' = Below(d)
  BY <1>1 DEF Below, Children
<1>5. Reached' = Reached /\ HasCycle' = HasCycle
  BY <1>4 DEF Reached, HasCycle, Above
<1>6. c \in Reached /\ \A j \in 1 .. n : c \in Below(stack[j].component)
  BY <1>1, <1>2, CallIsReached, CallsLeadOn DEF WalkInv
<1> HIDE DEF n, new
<1>7. StackLeadsOn'
  <2> SUFFICES ASSUME NEW j \in 1 .. n + 1, NEW k \in 1 .. n + 1, j < k
               PROVE  stack'[k].component \in Below(stack'[j].component)
    BY <1>2, <1>4 DEF StackLeadsOn
  <2>1. j \in 1 .. n
    BY <1>2
  <2>2. CASE k = n + 1
    BY <1>3, <1>4, <1>6, <2>1, <2>2
  <2>3. CASE k # n + 1
    <3>1. k \in 1 .. n
      BY <1>2, <2>3
    <3>2. stack[k].component \in Below(stack[j].component)
      BY <1>2, <2>1, <3>1 DEF WalkInv, StackLeadsOn
    <3>3. QED
      BY <1>3, <1>4, <2>1, <3>1, <3>2
  <2>4. QED
    BY <2>2, <2>3
<1>8. OpenAreOnStack'
  <2> SUFFICES ASSUME ~failed, NEW d \in temp' \ perm
               PROVE  \E k \in DOMAIN stack' : stack'[k].component = d
    BY <1>1 DEF OpenAreOnStack
  <2>1. CASE d = c
    BY <1>2, <1>3, <2>1
  <2>2. CASE d \in temp
    <3>1. PICK k \in 1 .. n : stack[k].component = d
      BY <1>2, <2>2 DEF WalkInv, OpenAreOnStack
    <3>2. k \in DOMAIN stack' /\ stack'[k].component = d
      BY <1>2, <1>3, <3>1
    <3>3. QED
      BY <3>2
  <2>3. QED
    BY <1>1, <2>1, <2>2
<1>9. QED
  BY <1>1, <1>5, <1>6, <1>7, <1>8 DEF WalkInv

LEMMA WalkFinish ==
  ASSUME Inv, WalkInv, Finish
  PROVE  WalkInv'
<1> DEFINE n == Len(stack)
<1>1. /\ UNCHANGED <<graph, temp, failed>> /\ perm' = perm \cup {Top.component}
      /\ stack' = SubSeq(stack, 1, n - 1) /\ stack # <<>>
  BY DEF Finish
<1>2. n \in Nat \ {0} /\ DOMAIN stack = 1 .. n /\ stack \in Seq(Frame)
  BY <1>1 DEF Inv, TypeOK
<1>3. Top = stack[n]
  BY DEF Top
<1> HIDE DEF n
<1>4. DOMAIN stack' = 1 .. n - 1 /\ \A k \in 1 .. n - 1 : stack'[k] = stack[k]
  BY <1>1, <1>2
<1>5. \A d : Below(d)' = Below(d)
  BY <1>1 DEF Below, Children
<1>6. Reached' = Reached /\ HasCycle' = HasCycle
  BY <1>5 DEF Reached, HasCycle, Above
<1>7. 1 .. n - 1 \subseteq 1 .. n /\ \A k \in 1 .. n : k = n \/ k \in 1 .. n - 1
  BY <1>2
<1>8. StackLeadsOn'
  BY <1>2, <1>4, <1>5, <1>7 DEF WalkInv, StackLeadsOn
<1>9. OpenAreOnStack'
  <2> SUFFICES ASSUME ~failed, NEW d \in temp \ perm'
               PROVE  \E k \in DOMAIN stack' : stack'[k].component = d
    BY <1>1 DEF OpenAreOnStack
  <2>1. d \in temp \ perm /\ d # stack[n].component
    BY <1>1, <1>3
  <2>2. PICK k \in 1 .. n : stack[k].component = d
    BY <1>2, <2>1 DEF WalkInv, OpenAreOnStack
  <2>3. k \in 1 .. n - 1
    BY <1>7, <2>1, <2>2
  <2>4. QED
    BY <1>4, <2>2, <2>3
<1>10. QED
  BY <1>1, <1>6, <1>8, <1>9 DEF WalkInv

LEMMA WalkNext == Inv /\ WalkInv /\ [Next]_vars => WalkInv'
<1> SUFFICES ASSUME Inv, WalkInv, [Next]_vars PROVE WalkInv'
  OBVIOUS
<1>1. CASE UNCHANGED vars
  <2>1. \A d : Below(d)' = Below(d)
    BY <1>1 DEF vars, Below, Children
  <2>2. Reached' = Reached /\ HasCycle' = HasCycle
    BY <2>1 DEF Reached, HasCycle, Above
  <2>3. StackLeadsOn' /\ OpenAreOnStack'
    BY <1>1, <2>1 DEF vars, WalkInv, StackLeadsOn, OpenAreOnStack
  <2>4. QED
    BY <1>1, <2>2, <2>3 DEF vars, WalkInv
<1>2. QED
  BY <1>1, WalkKnown, WalkCycle, WalkEnter, WalkFinish DEF Next

(* What is below a component in the order is behind it.                    *)
LEMMA BelowIsBehind ==
  ASSUME Inv, NEW i \in DOMAIN order
  PROVE  Below(order[i]) \subseteq {order[j] : j \in {k \in DOMAIN order : i < k}}
<1> DEFINE S == {order[j] : j \in {k \in DOMAIN order : i < k}}
<1>1. order \in Seq(Components) /\ DOMAIN order \subseteq Nat
  BY DEF Inv, TypeOK
<1>2. S \in SUBSET Components
  BY <1>1
<1>3. ASSUME NEW d \in S \cup {order[i]}, NEW k \in DOMAIN graph[d]
      PROVE  graph[d][k] \in S
  <2>1. PICK j \in DOMAIN order : order[j] = d /\ (j = i \/ i < j)
    OBVIOUS
  <2>2. PICK l \in DOMAIN order : j < l /\ order[l] = graph[d][k]
    BY <1>3, <2>1 DEF Inv, DependentsFollow
  <2>3. i < l
    BY <1>1, <2>1, <2>2
  <2>4. QED
    BY <2>2, <2>3
<1>4. QED
  BY <1>2, <1>3, BelowIsLeast

LEMMA DoneMeansAll ==
  ASSUME Inv, WalkInv, Done, ~failed
  PROVE  /\ perm = Reached
         /\ ~HasCycle
<1>1. Above \subseteq perm
  BY SorterAssumption DEF Inv, TypeOK, RootsInv, Done, Above
<1>2. ASSUME NEW r \in Above
      PROVE  Below(r) \subseteq perm
  <2>1. PICK i \in DOMAIN order : order[i] = r
    BY <1>1 DEF Inv, OrderIsPerm
  <2>2. QED
    BY <2>1, BelowIsBehind DEF Inv, OrderIsPerm
<1>3. Reached \subseteq perm
  BY <1>1, <1>2 DEF Reached
<1>4. perm \subseteq Reached
  BY DEF Inv, WalkInv
<1>5. ASSUME NEW c \in perm, c \in Below(c)
      PROVE  FALSE
  <2>1. PICK i \in DOMAIN order : order[i] = c
    BY DEF Inv, OrderIsPerm
  <2>2. PICK j \in DOMAIN order : i < j /\ order[j] = c
    BY <1>5, <2>1, BelowIsBehind
  <2>3. i = j
    BY <2>1, <2>2 DEF Inv, NoRepeats
  <2>4. order \in Seq(Components)
    BY DEF Inv, TypeOK
  <2>5. QED
    BY <2>2, <2>3, <2>4
<1>6. QED
  BY <1>3, <1>4, <1>5 DEF Reached, HasCycle

(* For every graph and any roots: the sort reports a cycle exactly when    *)
(* the roots lead to one, and if not, it has everything they lead to.      *)
THEOREM SortComplete == Spec => []SortIsComplete
<1>1. Inv /\ WalkInv => SortIsComplete
  <2> SUFFICES ASSUME Inv, WalkInv, Done
               PROVE  (failed <=> HasCycle) /\ (~failed => perm = Reached)
    BY DEF SortIsComplete, HasCycle, Reached
  <2>1. QED
    BY DoneMeansAll DEF WalkInv, Inv, TypeOK
<1>2. QED
  BY <1>1, InvInit, InvNext, WalkInit, WalkNext, PTL DEF Spec

-----------------------------------------------------------------------------
(* To the sorter an artboard's steps are its own steps, or none.           *)
LEMMA SorterSteps == ArtboardSpec => Spec
<1>1. ArtboardInit => Init
  BY DEF ArtboardInit
<1>2. [ArtboardNext]_<<vars, drawVars>> => [Next]_vars
  BY DEF ArtboardNext, SortTargets, Initialized, Draws, vars
<1>3. QED
  BY <1>1, <1>2, PTL DEF ArtboardSpec, Spec

(* Once they are taken, a target's group is placed before those of all     *)
(* targets at a drawable that the target's rules move, as graph says.      *)
TargetsFollow ==
  turn # "initialize" =>
    \A i \in DOMAIN drawTargets : \A k \in DOMAIN graph[drawTargets[i]] :
      \E j \in DOMAIN drawTargets : i < j /\ drawTargets[j] = graph[drawTargets[i]][k]

GraphIsOfFile == graph = TargetGraph(file)

(* What a draw leaves alone.                                               *)
LEMMA DrawsKeep ==
  Drawing!Next => /\ UNCHANGED <<file, drawTargets>>
                  /\ turn # "initialize" /\ turn' # "initialize"
<1> SUFFICES ASSUME Drawing!Next
             PROVE  /\ UNCHANGED <<file, drawTargets>>
                    /\ turn # "initialize" /\ turn' # "initialize"
  OBVIOUS
<1>1. CASE Drawing!Edit
  BY <1>1 DEF Drawing!Edit, Drawing!ChangeTarget, Drawing!ChangePlacement
<1>2. CASE Drawing!UpdateComponents
  BY <1>2 DEF Drawing!UpdateComponents
<1>3. CASE Drawing!AdvanceMachine
  BY <1>3 DEF Drawing!AdvanceMachine
<1>4. CASE Drawing!AdvanceArtboard
  BY <1>4 DEF Drawing!AdvanceArtboard
<1>5. QED
  BY <1>1, <1>2, <1>3, <1>4 DEF Drawing!Next

(* The sorter works on one graph.                                          *)
LEMMA SorterKeeps == Next => UNCHANGED graph
  BY DEF Next, Known, Cycle, Enter, Finish

(* The first of a sorted sequence may be left out.                         *)
LEMMA RestFollows ==
  ASSUME TypeOK, DependentsFollow, order # <<>>
  PROVE  \A i \in DOMAIN Tail(order) : \A k \in DOMAIN graph[Tail(order)[i]] :
           \E j \in DOMAIN Tail(order) : /\ i < j
                                         /\ Tail(order)[j] = graph[Tail(order)[i]][k]
<1>1. order \in Seq(Components)
  BY DEF TypeOK
<1>2. /\ DOMAIN order = 1 .. Len(order) /\ Len(order) \in Nat \ {0}
      /\ DOMAIN Tail(order) = 1 .. Len(order) - 1
      /\ \A i \in 1 .. Len(order) - 1 : Tail(order)[i] = order[i + 1]
  BY <1>1
<1>3. ASSUME NEW i \in 1 .. Len(order) - 1, NEW k \in DOMAIN graph[order[i + 1]]
      PROVE  \E j \in 1 .. Len(order) - 1 :
               i < j /\ Tail(order)[j] = graph[order[i + 1]][k]
  <2>1. i + 1 \in DOMAIN order
    BY <1>2
  <2>2. PICK j \in DOMAIN order : i + 1 < j /\ order[j] = graph[order[i + 1]][k]
    BY <1>3, <2>1 DEF DependentsFollow
  <2>3. j - 1 \in 1 .. Len(order) - 1 /\ i < j - 1 /\ (j - 1) + 1 = j
    BY <1>2, <2>2
  <2>4. Tail(order)[j - 1] = order[j]
    BY <1>2, <2>3
  <2>5. QED
    BY <2>2, <2>3, <2>4
<1>4. SUFFICES ASSUME NEW i \in 1 .. Len(order) - 1, NEW k \in DOMAIN graph[Tail(order)[i]]
               PROVE  \E j \in 1 .. Len(order) - 1 :
                        i < j /\ Tail(order)[j] = graph[Tail(order)[i]][k]
  BY <1>2, Zenon
<1>5. Tail(order)[i] = order[i + 1]
  BY <1>2
<1>6. QED
  BY <1>3, <1>4, <1>5

(* For every file, with draw targets in a cycle or not, the targets are    *)
(* placed in an order in which each comes before those that are placed     *)
(* where it moves something, and that stays so whatever is edited.         *)
THEOREM TargetsInOrder == ArtboardSpec => [](GraphIsOfFile /\ TargetsFollow)
<1> DEFINE Safe == GraphIsOfFile /\ TargetsFollow
<1>1. ArtboardInit => Safe
  BY DEF ArtboardInit, Drawing!Init, GraphIsOfFile, TargetsFollow
<1>2. Safe /\ TypeOK /\ DependentsFollow /\ [ArtboardNext]_<<vars, drawVars>> => Safe'
  <2> SUFFICES ASSUME Safe, TypeOK, DependentsFollow, [ArtboardNext]_<<vars, drawVars>>
               PROVE  Safe'
    OBVIOUS
  <2>1. CASE SortTargets
    <3>1. UNCHANGED <<graph, drawVars>>
      BY <2>1, SorterKeeps DEF SortTargets
    <3>2. QED
      BY <3>1 DEF drawVars, GraphIsOfFile, TargetsFollow
  <2>2. CASE Initialized
    <3>1. UNCHANGED <<graph, file>> /\ order # <<>> /\ drawTargets' = Tail(order)
      BY <2>2 DEF Initialized, Drawing!TakeTargets, vars
    <3>2. TargetsFollow'
      BY <3>1, RestFollows DEF TargetsFollow
    <3>3. QED
      BY <3>1, <3>2 DEF GraphIsOfFile
  <2>3. CASE Draws
    <3>1. UNCHANGED <<graph, file, drawTargets>> /\ turn # "initialize"
      BY <2>3, DrawsKeep DEF Draws, vars
    <3>2. QED
      BY <3>1 DEF GraphIsOfFile, TargetsFollow
  <2>4. CASE UNCHANGED <<vars, drawVars>>
    BY <2>4 DEF vars, drawVars, GraphIsOfFile, TargetsFollow
  <2>5. QED
    BY <2>1, <2>2, <2>3, <2>4 DEF ArtboardNext
<1>3. QED
  BY <1>1, <1>2, SorterSteps, TypeCorrect, ParentsComeFirst, PTL DEF ArtboardSpec

(* The first and the last of some drawables.                               *)
LEMMA Ends ==
  ASSUME NEW N \in Nat, NEW S \in SUBSET (1 .. N), S # {}
  PROVE  /\ Drawing!Min(S) \in S /\ \A x \in S : Drawing!Min(S) <= x
         /\ Drawing!Max(S) \in S /\ \A x \in S : x <= Drawing!Max(S)
<1>1. S \in SUBSET Nat
  OBVIOUS
<1>2. PICK a \in S : \A x \in S : a <= x
  BY <1>1, LeastOf
<1>3. PICK b \in S : \A x \in S : x <= b
  <2> DEFINE R == {N - x : x \in S}
  <2>1. R \in SUBSET Nat /\ R # {}
    OBVIOUS
  <2>2. PICK r \in R : \A y \in R : r <= y
    <3> HIDE DEF R
    <3> QED BY <2>1, LeastOf
  <2>3. PICK x \in S : r = N - x
    BY <2>2
  <2>4. \A y \in S : N - y \in R
    OBVIOUS
  <2>5. \A y \in S : y <= x
    <3> TAKE y \in S
    <3>1. r <= N - y
      BY <2>2, <2>4
    <3> QED BY <2>3, <3>1
  <2> QED BY <2>5
<1>4. Drawing!Min(S) \in S /\ \A x \in S : Drawing!Min(S) <= x
  BY <1>2 DEF Drawing!Min
<1>5. Drawing!Max(S) \in S /\ \A x \in S : Drawing!Max(S) >= x
  <2>1. \A x \in S : b >= x
    BY <1>1, <1>3
  <2> QED BY <2>1 DEF Drawing!Max
<1>6. Drawing!Max(S) \in Nat
  BY <1>1, <1>5
<1> QED BY <1>1, <1>4, <1>5, <1>6

-----------------------------------------------------------------------------
(* Lists of drawables, as sequences.                                       *)

(* s has the elements of S, each once.                                     *)
Lists(s, n, S) ==
  /\ n \in Nat /\ s \in [1 .. n -> S]
  /\ \A x \in S : \E i \in 1 .. n : s[i] = x
  /\ \A i, j \in 1 .. n : i # j => s[i] # s[j]

(* It has them in ascending order.                                         *)
Ascending(s, n) == \A i, j \in 1 .. n : i < j => s[i] < s[j]

(* Some drawables can be listed in the order of the file.                  *)
LEMMA FileOrder ==
  ASSUME NEW N \in Nat, NEW S \in SUBSET (1 .. N)
  PROVE  \E n, s : Lists(s, n, S) /\ Ascending(s, n)
<1> DEFINE Upto(k) == {x \in S : x <= k}
           M == {k \in 0 .. N : \E n, s : Lists(s, n, Upto(k)) /\ Ascending(s, n)}
<1>0. \A x \in S : x \in Nat /\ 1 <= x /\ x <= N
  OBVIOUS
<1>1. 0 \in M
  <2> DEFINE s == [i \in 1 .. 0 |-> 0]
  <2>1. Upto(0) = {} /\ 1 .. 0 = {} /\ 0 \in 0 .. N
    <3>1. \A x \in S : ~(x <= 0)
      BY <1>0
    <3>2. 1 .. 0 = {} /\ 0 \in 0 .. N
      OBVIOUS
    <3> QED BY <3>1, <3>2
  <2>2. s \in [1 .. 0 -> Upto(0)]
    BY <2>1
  <2>3. Lists(s, 0, Upto(0)) /\ Ascending(s, 0)
    <3> HIDE DEF s, Upto
    <3> QED BY <2>1, <2>2 DEF Lists, Ascending
  <2> HIDE DEF s, Upto
  <2> QED BY <2>1, <2>3
<1>2. ASSUME NEW k \in 0 .. N - 1, k \in M
      PROVE  k + 1 \in M
  <2>1. PICK n, s : Lists(s, n, Upto(k)) /\ Ascending(s, n)
    BY <1>2
  <2>2. k + 1 \in 0 .. N
    OBVIOUS
  <2>3. CASE k + 1 \notin S
    <3>1. Upto(k + 1) = Upto(k)
      <4>1. \A x \in S : x <= k + 1 => x <= k
        <5> TAKE x \in S
        <5>1. x # k + 1 /\ x \in Nat /\ k \in Nat
          BY <1>0, <2>3
        <5> QED BY <5>1
      <4>2. \A x \in S : x <= k => x <= k + 1
        <5>1. k \in Nat
          OBVIOUS
        <5> QED BY <1>0, <5>1
      <4> QED BY <4>1, <4>2
    <3> HIDE DEF Upto
    <3> QED BY <2>1, <2>2, <3>1
  <2>4. CASE k + 1 \in S
    <3> DEFINE z == [i \in 1 .. n + 1 |-> IF i = n + 1 THEN k + 1 ELSE s[i]]
    <3>1. /\ Upto(k + 1) = Upto(k) \cup {k + 1}
          /\ \A x \in Upto(k) : x < k + 1
          /\ Upto(k) \subseteq Nat
      <4>1. k \in Nat
        OBVIOUS
      <4>2. \A x \in S : x <= k + 1 <=> (x <= k \/ x = k + 1)
        BY <1>0, <4>1
      <4>3. \A x \in S : x <= k => x < k + 1
        BY <1>0, <4>1
      <4> QED BY <1>0, <2>4, <4>2, <4>3
    <3> HIDE DEF Upto
    <3>2. n \in Nat /\ \A i \in 1 .. n : i \in 1 .. n + 1 /\ i # n + 1
      BY <2>1 DEF Lists
    <3>3. \A i \in 1 .. n : z[i] = s[i] /\ s[i] \in Upto(k)
      BY <2>1, <3>2 DEF Lists
    <3>4. z[n + 1] = k + 1
      BY <3>2
    <3>5. \A i \in 1 .. n + 1 : i = n + 1 \/ i \in 1 .. n
      BY <3>2
    <3>6. z \in [1 .. n + 1 -> Upto(k + 1)]
      BY <3>1, <3>3, <3>5
    <3> HIDE DEF z
    <3>7. \A x \in Upto(k + 1) : \E i \in 1 .. n + 1 : z[i] = x
      <4> TAKE x \in Upto(k + 1)
      <4>1. CASE x = k + 1
        BY <3>2, <3>4, <4>1
      <4>2. CASE x \in Upto(k)
        <5>1. PICK i \in 1 .. n : s[i] = x
          BY <2>1, <4>2 DEF Lists
        <5> QED BY <3>2, <3>3, <5>1
      <4> QED BY <3>1, <4>1, <4>2
    <3>8. \A i, j \in 1 .. n + 1 : i < j => z[i] < z[j]
      <4> SUFFICES ASSUME NEW i \in 1 .. n + 1, NEW j \in 1 .. n + 1, i < j
                   PROVE  z[i] < z[j]
        OBVIOUS
      <4>1. i \in 1 .. n
        BY <3>2
      <4>2. CASE j = n + 1
        BY <3>1, <3>3, <3>4, <4>1, <4>2
      <4>3. CASE j \in 1 .. n
        BY <2>1, <3>3, <4>1, <4>3 DEF Ascending
      <4> QED BY <3>5, <4>2, <4>3
    <3>9. \A i, j \in 1 .. n + 1 : i # j => z[i] # z[j]
      <4> SUFFICES ASSUME NEW i \in 1 .. n + 1, NEW j \in 1 .. n + 1, i # j
                   PROVE  z[i] # z[j]
        OBVIOUS
      <4>1. z[i] \in Nat /\ z[j] \in Nat
        BY <3>1, <3>3, <3>4, <3>5
      <4>2. i < j \/ j < i
        BY <3>2
      <4> QED BY <3>8, <4>1, <4>2
    <3>10. Lists(z, n + 1, Upto(k + 1)) /\ Ascending(z, n + 1)
      BY <3>2, <3>6, <3>7, <3>8, <3>9 DEF Lists, Ascending
    <3> QED BY <2>2, <3>10
  <2> QED BY <2>3, <2>4
<1>3. 0 .. N \subseteq M
  <2> HIDE DEF M
  <2> QED BY <1>1, <1>2, BoundedInduction
<1>4. N \in M
  BY <1>3
<1>5. Upto(N) = S
  BY <1>0
<1> HIDE DEF Upto
<1> QED BY <1>4, <1>5

(* s with g, of length m, behind its first c.                              *)
Inserted(s, n, g, m, c) ==
  [i \in 1 .. n + m |-> IF i <= c THEN s[i] ELSE IF i <= c + m THEN g[i - c] ELSE s[i - m]]

(* What that is, place by place.                                           *)
IsInserted(z, s, n, g, m, c) ==
  /\ \A i \in 1 .. c : i \in 1 .. n + m /\ z[i] = s[i]
  /\ \A i \in 1 .. m : c + i \in 1 .. n + m /\ z[c + i] = g[i]
  /\ \A i \in c + 1 .. n : i + m \in 1 .. n + m /\ z[i + m] = s[i]

(* It is that.                                                             *)
LEMMA InsertedIs ==
  ASSUME NEW n \in Nat, NEW m \in Nat, NEW c \in 0 .. n, NEW s, NEW g
  PROVE  IsInserted(Inserted(s, n, g, m, c), s, n, g, m, c)
<1> DEFINE z == Inserted(s, n, g, m, c)
<1>1. ASSUME NEW i \in 1 .. n + m
      PROVE  z[i] = IF i <= c THEN s[i] ELSE IF i <= c + m THEN g[i - c] ELSE s[i - m]
  BY DEF Inserted
<1> HIDE DEF z
<1>2. ASSUME NEW i \in 1 .. c
      PROVE  i \in 1 .. n + m /\ z[i] = s[i]
  <2>1. i \in 1 .. n + m /\ i <= c
    OBVIOUS
  <2> QED BY <1>1, <2>1
<1>3. ASSUME NEW i \in 1 .. m
      PROVE  c + i \in 1 .. n + m /\ z[c + i] = g[i]
  <2>1. c + i \in 1 .. n + m /\ ~(c + i <= c) /\ c + i <= c + m /\ (c + i) - c = i
    OBVIOUS
  <2>2. z[c + i] = g[(c + i) - c]
    BY <1>1, <2>1
  <2> QED BY <2>1, <2>2
<1>4. ASSUME NEW i \in c + 1 .. n
      PROVE  i + m \in 1 .. n + m /\ z[i + m] = s[i]
  <2>1. i + m \in 1 .. n + m /\ ~(i + m <= c) /\ ~(i + m <= c + m) /\ (i + m) - m = i
    OBVIOUS
  <2>2. z[i + m] = s[(i + m) - m]
    BY <1>1, <2>1
  <2> QED BY <2>1, <2>2
<1> QED BY <1>2, <1>3, <1>4 DEF z, IsInserted

(* Where each place of it comes from.                                      *)
LEMMA Comes ==
  ASSUME NEW n \in Nat, NEW m \in Nat, NEW c \in 0 .. n, NEW i \in 1 .. n + m
  PROVE  \/ i \in 1 .. c
         \/ \E j \in 1 .. m : i = c + j
         \/ \E j \in c + 1 .. n : i = j + m
<1>1. CASE i <= c
  BY <1>1
<1>2. CASE ~(i <= c) /\ i <= c + m
  <2>1. i - c \in 1 .. m /\ i = c + (i - c)
    BY <1>2
  <2> QED BY <2>1
<1>3. CASE ~(i <= c + m)
  <2>1. i - m \in c + 1 .. n /\ i = (i - m) + m
    BY <1>3
  <2> QED BY <2>1
<1> QED BY <1>1, <1>2, <1>3

(* It has the elements of both.                                            *)
LEMMA InsertedLists ==
  ASSUME NEW S, NEW T, S \cap T = {}, NEW n, NEW m, NEW s, NEW g,
         Lists(s, n, S), Lists(g, m, T), NEW c \in 0 .. n
  PROVE  Lists(Inserted(s, n, g, m, c), n + m, S \cup T)
<1> DEFINE z == Inserted(s, n, g, m, c)
<1>0. n \in Nat /\ m \in Nat
  BY DEF Lists
<1>1. /\ n \in Nat /\ \A i \in 1 .. n : s[i] \in S
      /\ m \in Nat /\ \A i \in 1 .. m : g[i] \in T
  BY DEF Lists
<1>2. /\ \A i \in 1 .. c : i \in 1 .. n + m /\ z[i] = s[i]
      /\ \A i \in 1 .. m : c + i \in 1 .. n + m /\ z[c + i] = g[i]
      /\ \A i \in c + 1 .. n : i + m \in 1 .. n + m /\ z[i + m] = s[i]
  <2>1. IsInserted(z, s, n, g, m, c)
    BY <1>0, InsertedIs
  <2> QED BY <2>1 DEF IsInserted
<1>3. \A i \in 1 .. n + m : \/ i \in 1 .. c
                            \/ \E j \in 1 .. m : i = c + j
                            \/ \E j \in c + 1 .. n : i = j + m
  BY <1>1, Comes
<1>4. /\ 1 .. c \subseteq 1 .. n /\ c + 1 .. n \subseteq 1 .. n /\ n + m \in Nat
      /\ \A i \in 1 .. n : i \in 1 .. c \/ i \in c + 1 .. n
  BY <1>1
<1>5. z = [i \in 1 .. n + m |-> z[i]]
  BY DEF Inserted
<1> HIDE DEF z
<1>6. \A i \in 1 .. n + m : z[i] \in S \cup T
  <2> TAKE i \in 1 .. n + m
  <2>1. CASE i \in 1 .. c
    BY <1>1, <1>2, <1>4, <2>1
  <2>2. ASSUME NEW j \in 1 .. m, i = c + j
        PROVE  z[i] \in S \cup T
    BY <1>1, <1>2, <2>2
  <2>3. ASSUME NEW j \in c + 1 .. n, i = j + m
        PROVE  z[i] \in S \cup T
    BY <1>1, <1>2, <1>4, <2>3
  <2> QED BY <1>3, <2>1, <2>2, <2>3
<1>7. z \in [1 .. n + m -> S \cup T]
  BY <1>5, <1>6
<1>8. \A x \in S \cup T : \E i \in 1 .. n + m : z[i] = x
  <2> TAKE x \in S \cup T
  <2>1. CASE x \in S
    <3>1. PICK i \in 1 .. n : s[i] = x
      BY <2>1 DEF Lists
    <3>2. CASE i \in 1 .. c
      BY <1>2, <3>1, <3>2
    <3>3. CASE i \in c + 1 .. n
      BY <1>2, <3>1, <3>3
    <3> QED BY <1>4, <3>2, <3>3
  <2>2. CASE x \in T
    <3>1. PICK i \in 1 .. m : g[i] = x
      BY <2>2 DEF Lists
    <3> QED BY <1>2, <3>1
  <2> QED BY <2>1, <2>2
<1>9. ASSUME NEW i \in 1 .. n + m, NEW j \in 1 .. n + m, z[i] = z[j]
      PROVE  i = j
  <2>1. \A a, b \in 1 .. n : s[a] = s[b] => a = b
    BY DEF Lists
  <2>2. \A a, b \in 1 .. m : g[a] = g[b] => a = b
    BY DEF Lists
  <2>3. \A a \in 1 .. n, b \in 1 .. m : s[a] # g[b]
    BY <1>1
  <2>4. CASE i \in 1 .. c
    <3>1. z[i] = s[i] /\ i \in 1 .. n
      BY <1>2, <1>4, <2>4
    <3>2. CASE j \in 1 .. c
      BY <1>2, <1>4, <1>9, <2>1, <3>1, <3>2
    <3>3. ASSUME NEW b \in 1 .. m, j = c + b
          PROVE  FALSE
      BY <1>2, <1>9, <2>3, <3>1, <3>3
    <3>4. ASSUME NEW b \in c + 1 .. n, j = b + m
          PROVE  FALSE
      <4>1. z[j] = s[b] /\ b \in 1 .. n
        BY <1>2, <1>4, <3>4
      <4>2. i = b
        BY <1>9, <2>1, <3>1, <4>1
      <4>3. i <= c /\ c < b
        BY <1>1, <2>4
      <4> QED BY <1>1, <4>2, <4>3
    <3> QED BY <1>3, <3>2, <3>3, <3>4
  <2>5. ASSUME NEW a \in 1 .. m, i = c + a
        PROVE  i = j
    <3>1. z[i] = g[a]
      BY <1>2, <2>5
    <3>2. CASE j \in 1 .. c
      BY <1>2, <1>4, <1>9, <2>3, <3>1, <3>2
    <3>3. ASSUME NEW b \in 1 .. m, j = c + b
          PROVE  i = j
      <4>1. z[j] = g[b]
        BY <1>2, <3>3
      <4>2. a = b
        BY <1>9, <2>2, <3>1, <4>1
      <4> QED BY <2>5, <3>3, <4>2
    <3>4. ASSUME NEW b \in c + 1 .. n, j = b + m
          PROVE  FALSE
      <4>1. z[j] = s[b] /\ b \in 1 .. n
        BY <1>2, <1>4, <3>4
      <4> QED BY <1>9, <2>3, <3>1, <4>1
    <3> QED BY <1>3, <3>2, <3>3, <3>4
  <2>6. ASSUME NEW a \in c + 1 .. n, i = a + m
        PROVE  i = j
    <3>1. z[i] = s[a] /\ a \in 1 .. n
      BY <1>2, <1>4, <2>6
    <3>2. CASE j \in 1 .. c
      <4>1. a = j
        BY <1>2, <1>4, <1>9, <2>1, <3>1, <3>2
      <4>2. j <= c /\ c < a
        BY <1>1, <3>2
      <4> QED BY <1>1, <4>1, <4>2
    <3>3. ASSUME NEW b \in 1 .. m, j = c + b
          PROVE  FALSE
      BY <1>2, <1>9, <2>3, <3>1, <3>3
    <3>4. ASSUME NEW b \in c + 1 .. n, j = b + m
          PROVE  i = j
      <4>1. z[j] = s[b] /\ b \in 1 .. n
        BY <1>2, <1>4, <3>4
      <4>2. a = b
        BY <1>9, <2>1, <3>1, <4>1
      <4> QED BY <2>6, <3>4, <4>2
    <3> QED BY <1>3, <3>2, <3>3, <3>4
  <2> QED BY <1>3, <2>4, <2>5, <2>6
<1>10. Lists(z, n + m, S \cup T)
  BY <1>4, <1>7, <1>8, <1>9 DEF Lists
<1> QED BY <1>10 DEF z

(* The next and the previous of the links the other way agree.              *)
Nexts(f, s, n) == \A i \in 1 .. n : f[s[i]] = IF i = n THEN None ELSE s[i + 1]
Prevs(f, s, n) == \A i \in 1 .. n : f[s[i]] = IF i = 1 THEN None ELSE s[i - 1]

(* The links at either end of the group and of the cut it is put into.     *)
NextsJoined(h, f, s, n, g, m, c, M) ==
  \A x \in M : h[x] = IF x = g[m] THEN IF c = n THEN None ELSE s[c + 1]
                      ELSE IF c # 0 /\ x = s[c] THEN g[1] ELSE f[x]

PrevsJoined(h, f, s, n, g, m, c, M) ==
  \A x \in M : h[x] = IF x = g[1] THEN IF c = 0 THEN None ELSE s[c]
                      ELSE IF c # n /\ x = s[c + 1] THEN g[m] ELSE f[x]

(* With these the next links are those of the longer list.                 *)
LEMMA NextsSpliced ==
  ASSUME NEW S, NEW T, S \cap T = {}, None \notin S \cup T, NEW n, NEW m, NEW s, NEW g,
         Lists(s, n, S), Lists(g, m, T), m # 0, NEW c \in 0 .. n,
         NEW f, NEW h, Nexts(f, s, n), Nexts(f, g, m),
         NextsJoined(h, f, s, n, g, m, c, S \cup T)
  PROVE  Nexts(h, Inserted(s, n, g, m, c), n + m)
<1> DEFINE z == Inserted(s, n, g, m, c)
<1> USE DEF NextsJoined
<1>0. n \in Nat /\ m \in Nat
  BY DEF Lists
<1>1. /\ n \in Nat /\ \A i \in 1 .. n : s[i] \in S
      /\ m \in Nat /\ \A i \in 1 .. m : g[i] \in T
      /\ \A i, j \in 1 .. n : i # j => s[i] # s[j]
      /\ \A i, j \in 1 .. m : i # j => g[i] # g[j]
  BY DEF Lists
<1>2. /\ \A i \in 1 .. c : i \in 1 .. n + m /\ z[i] = s[i]
      /\ \A i \in 1 .. m : c + i \in 1 .. n + m /\ z[c + i] = g[i]
      /\ \A i \in c + 1 .. n : i + m \in 1 .. n + m /\ z[i + m] = s[i]
  <2>1. IsInserted(z, s, n, g, m, c)
    BY <1>0, InsertedIs
  <2> QED BY <2>1 DEF IsInserted
<1> HIDE DEF z
<1>3. 1 \in 1 .. m /\ m \in 1 .. m
  BY <1>1
<1>4. ASSUME NEW i \in 1 .. n
      PROVE  /\ s[i] # g[m] /\ s[i] \in S \cup T
             /\ c # 0 => (s[i] = s[c] <=> i = c)
  <2>1. c # 0 => c \in 1 .. n
    BY <1>1
  <2>2. s[i] \in S /\ g[m] \in T
    BY <1>1, <1>3
  <2> QED BY <1>1, <2>1, <2>2
<1>5. ASSUME NEW i \in 1 .. c
      PROVE  h[z[i]] = IF i = n + m THEN None ELSE z[i + 1]
  <2>1. z[i] = s[i] /\ i \in 1 .. n /\ c # 0 /\ i # n + m
    BY <1>1, <1>2, <1>3
  <2>2. CASE i = c
    <3>1. h[z[i]] = g[1]
      BY <1>4, <2>1, <2>2
    <3>2. z[c + 1] = g[1]
      BY <1>2, <1>3
    <3> QED BY <2>1, <2>2, <3>1, <3>2
  <2>3. CASE i # c
    <3>1. h[z[i]] = f[s[i]]
      BY <1>4, <2>1, <2>3
    <3>2. i + 1 \in 1 .. c /\ i # n
      BY <1>1, <2>3
    <3>3. f[s[i]] = s[i + 1]
      BY <2>1, <3>2 DEF Nexts
    <3>4. z[i + 1] = s[i + 1]
      BY <1>2, <3>2
    <3> QED BY <2>1, <3>1, <3>3, <3>4
  <2> QED BY <2>2, <2>3
<1>6. ASSUME NEW j \in 1 .. m
      PROVE  h[z[c + j]] = IF c + j = n + m THEN None ELSE z[(c + j) + 1]
  <2>1. z[c + j] = g[j] /\ g[j] \in S \cup T
    BY <1>1, <1>2
  <2>2. CASE j = m
    <3>1. h[z[c + j]] = IF c = n THEN None ELSE s[c + 1]
      BY <2>1, <2>2
    <3>2. CASE c = n
      <4>1. c + j = n + m
        BY <2>2, <3>2
      <4> QED BY <3>1, <3>2, <4>1
    <3>3. CASE c # n
      <4>1. c + 1 \in c + 1 .. n /\ c + j # n + m /\ (c + j) + 1 = (c + 1) + m
        BY <1>1, <2>2, <3>3
      <4>2. z[(c + 1) + m] = s[c + 1]
        BY <1>2, <4>1
      <4>3. z[(c + j) + 1] = s[c + 1]
        BY <4>1, <4>2
      <4> QED BY <3>1, <3>3, <4>1, <4>3
    <3> QED BY <3>2, <3>3
  <2>3. CASE j # m
    <3>1. g[j] # g[m]
      BY <1>1, <1>3, <2>3
    <3>2. c # 0 => s[c] \in S
      BY <1>1
    <3>3. c # 0 => g[j] # s[c]
      BY <1>1, <3>2
    <3>4. h[z[c + j]] = f[g[j]]
      BY <2>1, <3>1, <3>3
    <3>5. j + 1 \in 1 .. m /\ c + j # n + m /\ (c + j) + 1 = c + (j + 1)
      BY <1>1, <2>3
    <3>6. f[g[j]] = g[j + 1]
      BY <2>3 DEF Nexts
    <3>7. z[c + (j + 1)] = g[j + 1]
      BY <1>2, <3>5
    <3>8. z[(c + j) + 1] = g[j + 1]
      BY <3>5, <3>7
    <3> QED BY <3>4, <3>5, <3>6, <3>8
  <2> QED BY <2>2, <2>3
<1>7. ASSUME NEW j \in c + 1 .. n
      PROVE  h[z[j + m]] = IF j + m = n + m THEN None ELSE z[(j + m) + 1]
  <2>1. z[j + m] = s[j] /\ j \in 1 .. n /\ j # c
    BY <1>1, <1>2
  <2>2. h[z[j + m]] = f[s[j]]
    BY <1>4, <2>1
  <2>3. CASE j = n
    BY <2>1, <2>2, <2>3 DEF Nexts
  <2>4. CASE j # n
    <3>1. j + 1 \in c + 1 .. n /\ j + m # n + m /\ (j + m) + 1 = (j + 1) + m
      BY <1>1, <2>4
    <3>2. f[s[j]] = s[j + 1]
      BY <2>1, <2>4 DEF Nexts
    <3>3. z[(j + 1) + m] = s[j + 1]
      BY <1>2, <3>1
    <3>4. z[(j + m) + 1] = s[j + 1]
      BY <3>1, <3>3
    <3> QED BY <2>2, <3>1, <3>2, <3>4
  <2> QED BY <2>3, <2>4
<1>8. ASSUME NEW i \in 1 .. n + m
      PROVE  h[z[i]] = IF i = n + m THEN None ELSE z[i + 1]
  <2>1. \/ i \in 1 .. c
        \/ \E j \in 1 .. m : i = c + j
        \/ \E j \in c + 1 .. n : i = j + m
    BY <1>0, Comes
  <2> QED BY <1>5, <1>6, <1>7, <2>1
<1> QED BY <1>8 DEF Nexts, z

(* And so are the previous ones.                                           *)
LEMMA PrevsSpliced ==
  ASSUME NEW S, NEW T, S \cap T = {}, None \notin S \cup T, NEW n, NEW m, NEW s, NEW g,
         Lists(s, n, S), Lists(g, m, T), m # 0, NEW c \in 0 .. n,
         NEW f, NEW h, Prevs(f, s, n), Prevs(f, g, m),
         PrevsJoined(h, f, s, n, g, m, c, S \cup T)
  PROVE  Prevs(h, Inserted(s, n, g, m, c), n + m)
<1> DEFINE z == Inserted(s, n, g, m, c)
<1> USE DEF PrevsJoined
<1>0. n \in Nat /\ m \in Nat
  BY DEF Lists
<1>1. /\ n \in Nat /\ \A i \in 1 .. n : s[i] \in S
      /\ m \in Nat /\ \A i \in 1 .. m : g[i] \in T
      /\ \A i, j \in 1 .. n : i # j => s[i] # s[j]
      /\ \A i, j \in 1 .. m : i # j => g[i] # g[j]
  BY DEF Lists
<1>2. /\ \A i \in 1 .. c : i \in 1 .. n + m /\ z[i] = s[i]
      /\ \A i \in 1 .. m : c + i \in 1 .. n + m /\ z[c + i] = g[i]
      /\ \A i \in c + 1 .. n : i + m \in 1 .. n + m /\ z[i + m] = s[i]
  <2>1. IsInserted(z, s, n, g, m, c)
    BY <1>0, InsertedIs
  <2> QED BY <2>1 DEF IsInserted
<1> HIDE DEF z
<1>3. 1 \in 1 .. m /\ m \in 1 .. m
  BY <1>1
<1>4. ASSUME NEW i \in 1 .. n
      PROVE  /\ s[i] # g[1] /\ s[i] \in S \cup T
             /\ c # n => (s[i] = s[c + 1] <=> i = c + 1)
  <2>1. c # n => c + 1 \in 1 .. n
    BY <1>1
  <2>2. s[i] \in S /\ g[1] \in T
    BY <1>1, <1>3
  <2> QED BY <1>1, <2>1, <2>2
<1>5. ASSUME NEW i \in 1 .. c
      PROVE  h[z[i]] = IF i = 1 THEN None ELSE z[i - 1]
  <2>1. z[i] = s[i] /\ i \in 1 .. n /\ i # c + 1
    BY <1>1, <1>2
  <2>2. h[z[i]] = f[s[i]]
    BY <1>4, <2>1
  <2>3. f[s[i]] = IF i = 1 THEN None ELSE s[i - 1]
    BY <2>1 DEF Prevs
  <2>4. i # 1 => i - 1 \in 1 .. c
    BY <1>1
  <2>5. i # 1 => z[i - 1] = s[i - 1]
    BY <1>2, <2>4
  <2> QED BY <2>2, <2>3, <2>5
<1>6. ASSUME NEW j \in 1 .. m
      PROVE  h[z[c + j]] = IF c + j = 1 THEN None ELSE z[(c + j) - 1]
  <2>1. z[c + j] = g[j] /\ g[j] \in S \cup T
    BY <1>1, <1>2
  <2>2. CASE j = 1
    <3>1. h[z[c + j]] = IF c = 0 THEN None ELSE s[c]
      BY <2>1, <2>2
    <3>2. CASE c = 0
      BY <2>2, <3>1, <3>2
    <3>3. CASE c # 0
      <4>1. c \in 1 .. c /\ c + j # 1 /\ (c + j) - 1 = c
        BY <1>1, <2>2, <3>3
      <4>2. z[c] = s[c]
        BY <1>2, <4>1
      <4>3. z[(c + j) - 1] = s[c]
        BY <4>1, <4>2
      <4> QED BY <3>1, <3>3, <4>1, <4>3
    <3> QED BY <3>2, <3>3
  <2>3. CASE j # 1
    <3>1. g[j] # g[1]
      BY <1>1, <1>3, <2>3
    <3>2. c # n => s[c + 1] \in S
      BY <1>1
    <3>3. c # n => g[j] # s[c + 1]
      BY <1>1, <3>2
    <3>4. h[z[c + j]] = f[g[j]]
      BY <2>1, <3>1, <3>3
    <3>5. j - 1 \in 1 .. m /\ c + j # 1 /\ (c + j) - 1 = c + (j - 1)
      BY <1>1, <2>3
    <3>6. f[g[j]] = g[j - 1]
      BY <2>3 DEF Prevs
    <3>7. z[c + (j - 1)] = g[j - 1]
      BY <1>2, <3>5
    <3>8. z[(c + j) - 1] = g[j - 1]
      BY <3>5, <3>7
    <3> QED BY <3>4, <3>5, <3>6, <3>8
  <2> QED BY <2>2, <2>3
<1>7. ASSUME NEW j \in c + 1 .. n
      PROVE  h[z[j + m]] = IF j + m = 1 THEN None ELSE z[(j + m) - 1]
  <2>1. z[j + m] = s[j] /\ j \in 1 .. n /\ c # n /\ j + m # 1
    BY <1>1, <1>2, <1>3
  <2>2. CASE j = c + 1
    <3>1. h[z[j + m]] = g[m]
      BY <1>4, <2>1, <2>2
    <3>2. z[c + m] = g[m] /\ (j + m) - 1 = c + m
      BY <1>2, <1>3, <2>2
    <3>3. z[(j + m) - 1] = g[m]
      BY <3>2
    <3> QED BY <2>1, <3>1, <3>3
  <2>3. CASE j # c + 1
    <3>1. j - 1 \in c + 1 .. n /\ j # 1 /\ (j + m) - 1 = (j - 1) + m
      BY <1>1, <2>3
    <3>2. h[z[j + m]] = f[s[j]]
      BY <1>4, <2>1, <2>3
    <3>3. f[s[j]] = s[j - 1]
      BY <2>1, <3>1 DEF Prevs
    <3>4. z[(j - 1) + m] = s[j - 1]
      BY <1>2, <3>1
    <3>5. z[(j + m) - 1] = s[j - 1]
      BY <3>1, <3>4
    <3> QED BY <2>1, <3>2, <3>3, <3>5
  <2> QED BY <2>2, <2>3
<1>8. ASSUME NEW i \in 1 .. n + m
      PROVE  h[z[i]] = IF i = 1 THEN None ELSE z[i - 1]
  <2>1. \/ i \in 1 .. c
        \/ \E j \in 1 .. m : i = c + j
        \/ \E j \in c + 1 .. n : i = j + m
    BY <1>0, Comes
  <2> QED BY <1>5, <1>6, <1>7, <2>1
<1> QED BY <1>8 DEF Prevs, z

(* Where place i of s is after a group of m is put in at c.                *)
Up(i, m, c) == IF i <= c THEN i ELSE i + m

(* Putting a group in changes no order among the others, and the group is  *)
(* at the cut.                                                             *)
KeepsOrder(i, n, m, c) ==
  /\ Up(i, m, c) \in 1 .. n + m
  /\ \A j \in 1 .. n : i < j <=> Up(i, m, c) < Up(j, m, c)
  /\ \A j \in 1 .. m : /\ Up(i, m, c) < c + j <=> i <= c
                       /\ c + j < Up(i, m, c) <=> c < i

(* That is so.                                                             *)
LEMMA UpIs ==
  ASSUME NEW n \in Nat, NEW m \in Nat, NEW c \in 0 .. n, NEW i \in 1 .. n
  PROVE  KeepsOrder(i, n, m, c)
  BY DEF KeepsOrder, Up

(* Each place of the longer list is one of the shorter, or of the group.   *)
ComesFrom(z, s, n, g, m, c, a) ==
  \/ \E i \in 1 .. n : a = Up(i, m, c) /\ z[a] = s[i]
  \/ \E j \in 1 .. m : a = c + j /\ z[a] = g[j]

(* That is so.                                                             *)
LEMMA PlacesOfInserted ==
  ASSUME NEW n \in Nat, NEW m \in Nat, NEW c \in 0 .. n, NEW s, NEW g, NEW a \in 1 .. n + m
  PROVE  ComesFrom(Inserted(s, n, g, m, c), s, n, g, m, c, a)
<1> DEFINE z == Inserted(s, n, g, m, c)
<1>1. IsInserted(z, s, n, g, m, c)
  BY InsertedIs
<1> HIDE DEF z
<1>2. \/ a \in 1 .. c
      \/ \E j \in 1 .. m : a = c + j
      \/ \E j \in c + 1 .. n : a = j + m
  BY Comes
<1>3. CASE a \in 1 .. c
  <2>1. a \in 1 .. n /\ a = Up(a, m, c)
    BY <1>3 DEF Up
  <2>2. z[a] = s[a]
    BY <1>1, <1>3 DEF IsInserted
  <2> QED BY <2>1, <2>2 DEF ComesFrom, z
<1>4. ASSUME NEW j \in 1 .. m, a = c + j
      PROVE  z[a] = g[j]
  BY <1>1, <1>4 DEF IsInserted
<1>5. ASSUME NEW j \in c + 1 .. n, a = j + m
      PROVE  j \in 1 .. n /\ a = Up(j, m, c) /\ z[a] = s[j]
  <2>1. j \in 1 .. n /\ ~(j <= c)
    OBVIOUS
  <2>2. z[a] = s[j]
    BY <1>1, <1>5 DEF IsInserted
  <2> QED BY <1>5, <2>1, <2>2 DEF Up
<1> QED BY <1>2, <1>3, <1>4, <1>5 DEF z, ComesFrom

(* The order s of some drawables is as the rules say, where drawable d     *)
(* belongs to target tg[d], which is at at[tg[d]], on the side pl says,    *)
(* and what may be between the two is near[tg[d]].                         *)
SameOrder(s, n, tg) ==
  \A i, j \in 1 .. n : tg[s[i]] = tg[s[j]] /\ s[i] < s[j] => i < j

OnSide(s, n, tg, at, pl) ==
  \A i, j \in 1 .. n :
    tg[s[i]] # None /\ s[j] = at[tg[s[i]]] => (i < j <=> pl[tg[s[i]]] = "before")

Beside(s, n, tg, at, near) ==
  \A i, j, e \in 1 .. n :
    /\ tg[s[i]] # None /\ s[j] = at[tg[s[i]]]
    /\ \/ i < e /\ e < j
       \/ j < e /\ e < i
    => s[e] \in near[tg[s[i]]]

InPlace(s, n, tg, at, pl, near) ==
  SameOrder(s, n, tg) /\ OnSide(s, n, tg, at, pl) /\ Beside(s, n, tg, at, near)

(* A group T of target t and the other drawables S of a list.              *)
Fits(S, T, t, tg, at, near) ==
  /\ S \cap T = {} /\ S \cup T \subseteq Nat /\ t # None
  /\ \A x \in T : tg[x] = t
  /\ \A x \in S : tg[x] # t
  /\ \A x \in S : tg[x] # None => at[tg[x]] \notin T
  /\ \A x \in S \cup T : tg[x] # None => x \in near[tg[x]] /\ at[tg[x]] \in near[tg[x]]
  /\ \A x \in S, y \in T : tg[x] # None /\ at[t] \in near[tg[x]] => y \in near[tg[x]]

(* A group put in beside its target's drawable leaves all in place: what   *)
(* was between another group and its drawable and now has the group too    *)
(* had the drawable this group goes along with.                            *)
LEMMA InsertedInPlace ==
  ASSUME NEW S, NEW T, NEW n, NEW m, NEW s, NEW g, NEW c, NEW p \in 1 .. n, NEW t,
         NEW tg, NEW at, NEW pl, NEW near,
         Lists(s, n, S), Lists(g, m, T), Ascending(g, m), Fits(S, T, t, tg, at, near),
         s[p] = at[t], c = IF pl[t] = "before" THEN p - 1 ELSE p,
         InPlace(s, n, tg, at, pl, near)
  PROVE  InPlace(Inserted(s, n, g, m, c), n + m, tg, at, pl, near)
<1> DEFINE z == Inserted(s, n, g, m, c)
<1> USE DEF Fits
<1>0. n \in Nat /\ m \in Nat
  BY DEF Lists
<1>1. /\ \A i \in 1 .. n : s[i] \in S
      /\ \A i \in 1 .. m : g[i] \in T
      /\ \A i, j \in 1 .. n : i # j => s[i] # s[j]
  BY DEF Lists
<1>2. c \in 0 .. n /\ c <= p /\ p <= c + 1
      /\ (pl[t] = "before" <=> c < p) /\ (pl[t] # "before" <=> p <= c)
  BY <1>0
<1>3. ASSUME NEW a \in 1 .. n + m
      PROVE  \/ \E i \in 1 .. n : a = Up(i, m, c) /\ z[a] = s[i]
             \/ \E j \in 1 .. m : a = c + j /\ z[a] = g[j]
  <2>1. c \in 0 .. n
    BY <1>2
  <2>2. ComesFrom(z, s, n, g, m, c, a)
    BY <1>0, <2>1, PlacesOfInserted
  <2> QED BY <2>2 DEF ComesFrom
<1>4. ASSUME NEW i \in 1 .. n
      PROVE  /\ Up(i, m, c) \in 1 .. n + m
             /\ \A j \in 1 .. n : i < j <=> Up(i, m, c) < Up(j, m, c)
             /\ \A j \in 1 .. m : /\ Up(i, m, c) < c + j <=> i <= c
                                  /\ c + j < Up(i, m, c) <=> c < i
  <2>1. c \in 0 .. n
    BY <1>2
  <2> HIDE DEF z
  <2>2. KeepsOrder(i, n, m, c)
    BY <1>0, <2>1, UpIs
  <2> QED BY <2>2 DEF KeepsOrder
<1> HIDE DEF z
<1>5. SameOrder(z, n + m, tg)
  <2> SUFFICES ASSUME NEW a \in 1 .. n + m, NEW b \in 1 .. n + m,
                      tg[z[a]] = tg[z[b]], z[a] < z[b]
               PROVE  a < b
    BY DEF SameOrder
  <2>1. ASSUME NEW i \in 1 .. n, a = Up(i, m, c), z[a] = s[i],
               NEW j \in 1 .. n, b = Up(j, m, c), z[b] = s[j]
        PROVE  a < b
    <3>1. i < j
      BY <2>1 DEF InPlace, SameOrder
    <3> QED BY <1>4, <2>1, <3>1
  <2>2. ASSUME NEW i \in 1 .. m, a = c + i, z[a] = g[i],
               NEW j \in 1 .. m, b = c + j, z[b] = g[j]
        PROVE  a < b
    <3>1. g[i] < g[j]
      BY <2>2
    <3>2. g[i] \in Nat /\ g[j] \in Nat
      BY <1>1
    <3>3. ~(i = j) /\ ~(j < i)
      BY <3>1, <3>2 DEF Ascending
    <3> QED BY <1>0, <1>2, <2>2, <3>3
  <2>3. ASSUME NEW i \in 1 .. n, NEW j \in 1 .. m
        PROVE  tg[s[i]] # tg[g[j]]
    BY <1>1
  <2> QED BY <1>3, <2>1, <2>2, <2>3
<1>6. ASSUME NEW a \in 1 .. n + m, NEW b \in 1 .. n + m, tg[z[a]] # None, z[b] = at[tg[z[a]]]
      PROVE  \/ \E i, j \in 1 .. n : /\ a = Up(i, m, c) /\ z[a] = s[i]
                                     /\ b = Up(j, m, c) /\ z[b] = s[j]
             \/ \E i \in 1 .. m : a = c + i /\ z[a] = g[i] /\ b = Up(p, m, c)
  <2>1. ASSUME NEW i \in 1 .. n, a = Up(i, m, c), z[a] = s[i]
        PROVE  \E j \in 1 .. n : b = Up(j, m, c) /\ z[b] = s[j]
    <3>1. z[b] \notin T
      BY <1>1, <1>6, <2>1
    <3> QED BY <1>1, <1>3, <3>1
  <2>2. ASSUME NEW i \in 1 .. m, a = c + i, z[a] = g[i]
        PROVE  b = Up(p, m, c)
    <3>1. z[b] = s[p] /\ s[p] \in S
      BY <1>1, <1>6, <2>2
    <3>2. z[b] \notin T
      BY <3>1
    <3>3. PICK j \in 1 .. n : b = Up(j, m, c) /\ z[b] = s[j]
      BY <1>1, <1>3, <3>2
    <3>4. j = p
      BY <1>1, <3>1, <3>3
    <3> QED BY <3>3, <3>4
  <2> QED BY <1>3, <2>1, <2>2
<1>7. OnSide(z, n + m, tg, at, pl)
  <2> SUFFICES ASSUME NEW a \in 1 .. n + m, NEW b \in 1 .. n + m,
                      tg[z[a]] # None, z[b] = at[tg[z[a]]]
               PROVE  a < b <=> pl[tg[z[a]]] = "before"
    BY DEF OnSide
  <2>1. ASSUME NEW i \in 1 .. n, a = Up(i, m, c), z[a] = s[i],
               NEW j \in 1 .. n, b = Up(j, m, c), z[b] = s[j]
        PROVE  a < b <=> pl[tg[z[a]]] = "before"
    <3>1. i < j <=> pl[tg[s[i]]] = "before"
      BY <2>1 DEF InPlace, OnSide
    <3> QED BY <1>4, <2>1, <3>1
  <2>2. ASSUME NEW i \in 1 .. m, a = c + i, z[a] = g[i], b = Up(p, m, c)
        PROVE  a < b <=> pl[tg[z[a]]] = "before"
    <3>1. tg[z[a]] = t
      BY <1>1, <2>2
    <3>2. c + i < Up(p, m, c) <=> c < p
      BY <1>4
    <3> QED BY <1>2, <2>2, <3>1, <3>2
  <2> QED BY <1>6, <2>1, <2>2
<1>8. Beside(z, n + m, tg, at, near)
  <2> SUFFICES ASSUME NEW a \in 1 .. n + m, NEW b \in 1 .. n + m, NEW e \in 1 .. n + m,
                      tg[z[a]] # None, z[b] = at[tg[z[a]]],
                      \/ a < e /\ e < b
                      \/ b < e /\ e < a
               PROVE  z[e] \in near[tg[z[a]]]
    BY DEF Beside
  <2>1. ASSUME NEW i \in 1 .. n, a = Up(i, m, c), z[a] = s[i],
               NEW j \in 1 .. n, b = Up(j, m, c), z[b] = s[j]
        PROVE  z[e] \in near[tg[z[a]]]
    <3>1. ASSUME NEW k \in 1 .. n, e = Up(k, m, c), z[e] = s[k]
          PROVE  z[e] \in near[tg[z[a]]]
      <4>1. \/ i < k /\ k < j
            \/ j < k /\ k < i
        BY <1>4, <2>1, <3>1
      <4> QED BY <2>1, <3>1, <4>1 DEF InPlace, Beside
    <3>2. ASSUME NEW k \in 1 .. m, e = c + k, z[e] = g[k]
          PROVE  z[e] \in near[tg[z[a]]]
      <4>1. \/ i <= c /\ c < j
            \/ j <= c /\ c < i
        BY <1>4, <2>1, <3>2
      <4>2. \/ i < p /\ p < j
            \/ j < p /\ p < i
            \/ p = i \/ p = j
        BY <1>0, <1>2, <4>1
      <4>3. s[p] \in near[tg[s[i]]]
        <5>1. CASE p = i
          BY <1>1, <2>1, <5>1
        <5>2. CASE p = j
          BY <1>1, <2>1, <5>2
        <5>3. CASE \/ i < p /\ p < j
                   \/ j < p /\ p < i
          BY <2>1, <5>3 DEF InPlace, Beside
        <5> QED BY <4>2, <5>1, <5>2, <5>3
      <4> QED BY <1>1, <2>1, <3>2, <4>3
    <3> QED BY <1>3, <3>1, <3>2
  <2>2. ASSUME NEW i \in 1 .. m, a = c + i, z[a] = g[i], b = Up(p, m, c)
        PROVE  z[e] \in near[tg[z[a]]]
    <3>1. tg[z[a]] = t
      BY <1>1, <2>2
    <3>2. ASSUME NEW k \in 1 .. n, e = Up(k, m, c), z[e] = s[k]
          PROVE  FALSE
      <4>1. \/ c < k /\ k < p
            \/ p < k /\ k <= c
        BY <1>4, <2>2, <3>2
      <4> QED BY <1>0, <1>2, <4>1
    <3>3. ASSUME NEW k \in 1 .. m, e = c + k, z[e] = g[k]
          PROVE  z[e] \in near[tg[z[a]]]
      BY <1>1, <3>1, <3>3
    <3> QED BY <1>3, <3>2, <3>3
  <2> QED BY <1>6, <2>1, <2>2
<1>9. InPlace(z, n + m, tg, at, pl, near)
  BY <1>5, <1>7, <1>8 DEF InPlace
<1> QED BY <1>9 DEF z

-----------------------------------------------------------------------------
(* What the walks of the model visit: CarriedBy, and Along the links.      *)

(* What moves along with d: d, and the group of a target at any of it.     *)
LEMMA CarriedIs ==
  ASSUME Count \in Nat, NEW d \in Drawing!Drawable
  PROVE  /\ d \in Drawing!CarriedBy(d)
         /\ \A e \in Drawing!Drawable :
              /\ Drawing!TargetOf(e) # None
              /\ file.drawable[Drawing!TargetOf(e)] \in Drawing!CarriedBy(d)
              => e \in Drawing!CarriedBy(d)
<1> DEFINE D == Drawing!Drawable
           Pulled(g) == {e \in D : /\ Drawing!TargetOf(e) # None
                                   /\ file.drawable[Drawing!TargetOf(e)] \in g}
           Step == [q \in (SUBSET D) \X (1 .. Count) |-> q[1] \cup Pulled(q[1])]
           Is(f) == f = [k \in 0 .. Count |-> IF k = 0 THEN {d} ELSE f[k - 1] \cup Pulled(f[k - 1])]
           G == CHOOSE f : Is(f)
<1>1. D = 1 .. Count /\ {d} \in SUBSET D
  BY DEF Drawing!Drawable
<1>2. Drawing!CarriedBy(d) = G[Count]
  BY DEF Drawing!CarriedBy
<1>3. \A g : Pulled(g) \subseteq D
  OBVIOUS
<1> HIDE DEF Pulled, D, G
<1>4. Step \in StepsOf(SUBSET D, Count)
  BY <1>3 DEF StepsOf
<1> HIDE DEF Step
<1>5. PICK f : CountsUp(f, Count, SUBSET D, {d}, Step)
  BY <1>1, <1>4, CountingDefines
<1>6. /\ f \in [0 .. Count -> SUBSET D] /\ f[0] = {d}
      /\ \A k \in 1 .. Count : f[k] = Step[<<f[k - 1], k>>]
  BY <1>5 DEF CountsUp
<1>7. ASSUME NEW k \in 1 .. Count
      PROVE  f[k] = f[k - 1] \cup Pulled(f[k - 1])
  <2>1. k - 1 \in 0 .. Count /\ f[k - 1] \in SUBSET D
    BY <1>6
  <2>2. <<f[k - 1], k>> \in (SUBSET D) \X (1 .. Count)
    BY <2>1
  <2>3. Step[<<f[k - 1], k>>] = f[k - 1] \cup Pulled(f[k - 1])
    BY <2>2 DEF Step
  <2> QED BY <1>6, <2>3
<1>8. Is(f)
  <2>1. f = [k \in 0 .. Count |-> f[k]]
    BY <1>6
  <2>2. \A k \in 0 .. Count : f[k] = IF k = 0 THEN {d} ELSE f[k - 1] \cup Pulled(f[k - 1])
    <3> TAKE k \in 0 .. Count
    <3>1. k = 0 \/ k \in 1 .. Count
      OBVIOUS
    <3> QED BY <1>6, <1>7, <3>1
  <2> QED BY <2>1, <2>2
<1>9. Is(G)
  <2> HIDE DEF Is
  <2> QED BY <1>8 DEF G
<1>10. G[0] = {d} /\ \A k \in 1 .. Count : G[k] = G[k - 1] \cup Pulled(G[k - 1])
  <2>1. \A k \in 0 .. Count : G[k] = IF k = 0 THEN {d} ELSE G[k - 1] \cup Pulled(G[k - 1])
    BY <1>9
  <2>2. 0 \in 0 .. Count /\ \A k \in 1 .. Count : k \in 0 .. Count /\ k # 0
    OBVIOUS
  <2> HIDE DEF Is
  <2> QED BY <2>1, <2>2
<1> HIDE DEF Is
<1> DEFINE Closed(g) == Pulled(g) \subseteq g
           M == {k \in 0 .. Count : /\ G[k] \in SUBSET D /\ d \in G[k]
                                    /\ Closed(G[k]) \/ k + 1 <= Cardinality(G[k])}
<1>11. IsFiniteSet(D) /\ Cardinality(D) = Count
  BY <1>1, FS_Interval
<1>12. \A g \in SUBSET D : IsFiniteSet(g) /\ Cardinality(g) \in Nat /\ Cardinality(g) <= Count
  BY <1>11, FS_Subset, FS_CardinalityType
<1>13. 0 \in M
  <2>1. Cardinality({d}) = 1
    BY FS_Singleton
  <2>2. 0 + 1 <= Cardinality(G[0]) /\ G[0] \in SUBSET D /\ d \in G[0] /\ 0 \in 0 .. Count
    BY <1>1, <1>10, <2>1
  <2> QED BY <2>2
<1>14. ASSUME NEW k \in 0 .. Count - 1, k \in M
      PROVE  k + 1 \in M
  <2>1. k + 1 \in 1 .. Count /\ (k + 1) - 1 = k
    OBVIOUS
  <2>2. G[k + 1] = G[k] \cup Pulled(G[k])
    BY <1>10, <2>1
  <2>3. G[k + 1] \in SUBSET D /\ d \in G[k + 1]
    BY <1>3, <1>14, <2>2
  <2>4. CASE Closed(G[k])
    <3>1. G[k + 1] = G[k]
      BY <2>2, <2>4
    <3> QED BY <2>1, <2>3, <2>4, <3>1
  <2>5. CASE ~Closed(G[k])
    <3>1. PICK x \in Pulled(G[k]) : x \notin G[k]
      BY <2>5
    <3>2. G[k] \in SUBSET D /\ k + 1 <= Cardinality(G[k])
      BY <1>14, <2>5
    <3>3. Cardinality(G[k] \cup {x}) = Cardinality(G[k]) + 1
      BY <1>12, <3>1, <3>2, FS_AddElement
    <3>4. G[k] \cup {x} \in SUBSET G[k + 1]
      BY <2>2, <3>1
    <3>5. Cardinality(G[k] \cup {x}) <= Cardinality(G[k + 1])
      BY <1>12, <2>3, <3>4, FS_Subset
    <3>6. (k + 1) + 1 <= Cardinality(G[k + 1])
      BY <1>12, <2>3, <3>2, <3>3, <3>5
    <3> QED BY <2>1, <2>3, <3>6
  <2> QED BY <2>4, <2>5
<1>15. Count \in M
  <2>1. 0 .. Count \subseteq M
    <3> HIDE DEF M
    <3> QED BY <1>13, <1>14, BoundedInduction
  <2> QED BY <2>1
<1>16. Closed(G[Count]) /\ d \in G[Count]
  BY <1>12, <1>15
<1> QED BY <1>2, <1>16 DEF Pulled, D

(* Going along links that link s visits s.                                 *)
LEMMA AlongIs ==
  ASSUME Count \in Nat, None \notin Drawing!Drawable, NEW n \in 0 .. Count,
         NEW s \in [1 .. n -> Drawing!Drawable],
         NEW links \in [Drawing!Drawable -> Drawing!Drawable \cup {None}],
         NEW d, d = IF n = 0 THEN None ELSE s[1], Nexts(links, s, n)
  PROVE  Drawing!Along(links, d) = s
<1> DEFINE D == Drawing!Drawable
           N == Count + 1
           V == Seq(D)
           Ahead(w) == IF w = <<>> THEN d ELSE links[Drawing!Last(w)]
           Go(w) == IF Ahead(w) = None THEN w ELSE Append(w, Ahead(w))
           Step == [q \in V \X (1 .. N) |-> Go(q[1])]
           Is(f) == f = [k \in 0 .. N |-> IF k = 0 THEN <<>> ELSE Go(f[k - 1])]
           G == CHOOSE f : Is(f)
<1>1. Drawing!Along(links, d) = G[N]
  BY DEF Drawing!Along
<1>2. N \in Nat /\ n \in 0 .. N /\ n + 1 \in 0 .. N
  OBVIOUS
<1>3. d \in D \cup {None}
  <2>1. n # 0 => s[1] \in D
    OBVIOUS
  <2> QED BY <2>1
<1> HIDE DEF G, N
<1>4. ASSUME NEW w \in V
      PROVE  Go(w) \in V
  <2>1. CASE w = <<>>
    BY <1>3, <2>1
  <2>2. CASE w # <<>>
    <3>1. Len(w) \in 1 .. Len(w) /\ Drawing!Last(w) = w[Len(w)]
      BY <2>2 DEF Drawing!Last
    <3>2. Drawing!Last(w) \in D
      BY <3>1
    <3>3. Ahead(w) \in D \cup {None}
      BY <2>2, <3>2
    <3> HIDE DEF Ahead
    <3> QED BY <3>3
  <2> QED BY <2>1, <2>2
<1>5. <<>> \in V
  OBVIOUS
<1> HIDE DEF V, Go
<1>6. Step \in StepsOf(V, N)
  BY <1>4 DEF StepsOf
<1> HIDE DEF Step
<1>7. PICK f : CountsUp(f, N, V, <<>>, Step)
  BY <1>2, <1>5, <1>6, CountingDefines
<1>8. /\ f \in [0 .. N -> V] /\ f[0] = <<>>
      /\ \A k \in 1 .. N : f[k] = Step[<<f[k - 1], k>>]
  BY <1>7 DEF CountsUp
<1>9. ASSUME NEW k \in 1 .. N
      PROVE  f[k] = Go(f[k - 1])
  <2>1. k - 1 \in 0 .. N
    BY <1>2
  <2>2. f[k - 1] \in V
    BY <1>8, <2>1
  <2>3. Step[<<f[k - 1], k>>] = Go(f[k - 1])
    BY <2>2 DEF Step
  <2> QED BY <1>8, <2>3
<1>10. Is(f)
  <2>1. f = [k \in 0 .. N |-> f[k]]
    BY <1>8
  <2>2. \A k \in 0 .. N : f[k] = IF k = 0 THEN <<>> ELSE Go(f[k - 1])
    <3> TAKE k \in 0 .. N
    <3>1. k = 0 \/ k \in 1 .. N
      BY <1>2
    <3> QED BY <1>8, <1>9, <3>1
  <2> QED BY <2>1, <2>2
<1>11. Is(G)
  <2> HIDE DEF Is
  <2> QED BY <1>10 DEF G
<1>12. G[0] = <<>> /\ \A k \in 1 .. N : G[k] = Go(G[k - 1])
  <2>1. \A k \in 0 .. N : G[k] = IF k = 0 THEN <<>> ELSE Go(G[k - 1])
    BY <1>11
  <2>2. 0 \in 0 .. N /\ \A k \in 1 .. N : k \in 0 .. N /\ k # 0
    BY <1>2
  <2> HIDE DEF Is
  <2> QED BY <2>1, <2>2
<1> HIDE DEF Is
<1> DEFINE Far(w, k) == w \in Seq(D) /\ Len(w) = k /\ \A i \in 1 .. k : w[i] = s[i]
           M == {k \in 0 .. n : Far(G[k], k)}
<1>13. 0 \in M
  <2>1. <<>> \in Seq(D) /\ Len(<<>>) = 0 /\ 1 .. 0 = {} /\ 0 \in 0 .. n
    OBVIOUS
  <2> QED BY <1>12, <2>1
<1>14. ASSUME NEW k \in 0 .. n - 1, k \in M
       PROVE  k + 1 \in M
  <2> DEFINE w == G[k]
  <2>1. /\ k + 1 \in 1 .. n /\ k + 1 \in 1 .. N /\ (k + 1) - 1 = k /\ k + 1 \in 0 .. n
        /\ n # 0 /\ k \in Nat
    BY <1>2
  <2>2. G[k + 1] = Go(w)
    BY <1>12, <2>1
  <2>3. w \in Seq(D) /\ Len(w) = k /\ \A i \in 1 .. k : w[i] = s[i]
    BY <1>14
  <2> HIDE DEF w
  <2>4. Ahead(w) = s[k + 1]
    <3>1. CASE k = 0
      <4>1. w = <<>>
        BY <2>3, <3>1
      <4> QED BY <2>1, <3>1, <4>1
    <3>2. CASE k # 0
      <4>1. k \in 1 .. k /\ k \in 1 .. n /\ k # n
        BY <2>1, <3>2
      <4>2. w # <<>> /\ Drawing!Last(w) = w[k]
        BY <2>3, <4>1 DEF Drawing!Last
      <4>3. w[k] = s[k]
        BY <2>3, <4>1
      <4>4. links[s[k]] = s[k + 1]
        BY <4>1 DEF Nexts
      <4> QED BY <4>2, <4>3, <4>4
    <3> QED BY <3>1, <3>2
  <2>5. s[k + 1] \in D /\ s[k + 1] # None
    BY <2>1
  <2> HIDE DEF Ahead
  <2>6. Go(w) = Append(w, s[k + 1])
    BY <2>4, <2>5 DEF Go
  <2>7. Far(Go(w), k + 1)
    <3> DEFINE x == s[k + 1]
    <3>1. x \in D
      BY <2>5
    <3> HIDE DEF x
    <3>2. Append(w, x) \in Seq(D) /\ Len(Append(w, x)) = k + 1
          /\ \A i \in 1 .. k + 1 : Append(w, x)[i] = IF i = k + 1 THEN x ELSE w[i]
      BY <2>1, <2>3, <3>1
    <3>3. \A i \in 1 .. k + 1 : i = k + 1 \/ i \in 1 .. k
      BY <2>1
    <3>4. \A i \in 1 .. k + 1 : Append(w, x)[i] = s[i]
      <4> TAKE i \in 1 .. k + 1
      <4>1. CASE i = k + 1
        BY <3>2, <4>1 DEF x
      <4>2. CASE i # k + 1
        <5>1. i \in 1 .. k
          BY <3>3, <4>2
        <5> QED BY <2>3, <3>2, <4>2, <5>1
      <4> QED BY <4>1, <4>2
    <3> QED BY <2>6, <3>2, <3>4 DEF x
  <2> HIDE DEF Far
  <2> QED BY <2>1, <2>2, <2>7
<1>15. n \in M
  <2>1. n \in Nat /\ n \in 0 .. n
    OBVIOUS
  <2> HIDE DEF M
  <2>2. 0 .. n \subseteq M
    BY <1>13, <1>14, <2>1, BoundedInduction
  <2> QED BY <2>1, <2>2
<1>16. G[n] = s
  <2> DEFINE w == G[n]
  <2>1. w \in Seq(D) /\ Len(w) = n /\ \A i \in 1 .. n : w[i] = s[i]
    BY <1>15
  <2> HIDE DEF w
  <2>2. w = [i \in 1 .. n |-> w[i]]
    BY <2>1
  <2>3. s = [i \in 1 .. n |-> s[i]]
    OBVIOUS
  <2>4. w = s
    BY <2>1, <2>2, <2>3
  <2> QED BY <2>4 DEF w
<1>17. Go(s) = s
  <2>1. Ahead(s) = None
    <3>1. CASE n = 0
      <4>1. s = <<>>
        BY <3>1
      <4> QED BY <3>1, <4>1
    <3>2. CASE n # 0
      <4>1. n \in 1 .. n /\ s # <<>> /\ Len(s) = n
        BY <3>2
      <4>2. Drawing!Last(s) = s[n]
        BY <4>1 DEF Drawing!Last
      <4>3. links[s[n]] = None
        BY <4>1 DEF Nexts
      <4> QED BY <4>1, <4>2, <4>3
    <3> QED BY <3>1, <3>2
  <2> QED BY <2>1 DEF Go
<1> DEFINE R == {k \in 0 .. N - n : G[n + k] = s}
<1>18. N - n \in Nat /\ n + (N - n) = N /\ 0 \in 0 .. N - n /\ n + 0 = n
  BY <1>2
<1>19. 0 \in R
  BY <1>16, <1>18
<1>20. ASSUME NEW k \in 0 .. (N - n) - 1, k \in R
       PROVE  k + 1 \in R
  <2>1. /\ k + 1 \in 0 .. N - n /\ n + (k + 1) \in 1 .. N
        /\ (n + (k + 1)) - 1 = n + k
    BY <1>2
  <2>2. G[n + (k + 1)] = Go(G[n + k])
    BY <1>12, <2>1
  <2> QED BY <1>17, <1>20, <2>1, <2>2
<1>21. N - n \in R
  <2> DEFINE K == N - n
  <2>1. K \in Nat /\ K \in 0 .. K /\ 0 \in R
    BY <1>18, <1>19
  <2>2. \A k \in 0 .. K - 1 : k \in R => k + 1 \in R
    BY <1>20
  <2> HIDE DEF R, K
  <2>3. 0 .. K \subseteq R
    BY <2>1, <2>2, BoundedInduction
  <2>4. K \in R
    BY <2>1, <2>3
  <2> QED BY <2>4 DEF K
<1> QED BY <1>1, <1>18, <1>21

-----------------------------------------------------------------------------
(* The links, and what sortDrawOrder does to them.                         *)

(* The type of the list.                                                   *)
Links == [prev : [Drawing!Drawable -> Drawing!Drawable \cup {None}],
          next : [Drawing!Drawable -> Drawing!Drawable \cup {None}],
          last : Drawing!Drawable \cup {None}]

(* What the rules are, as far as the types go.                             *)
Ruled ==
  /\ Count \in Nat /\ None \notin Drawing!Drawable /\ None \notin Targets
  /\ file.rules \in [Drawing!Drawable -> Rules \cup {None}]
  /\ file.drawable \in [Targets -> Drawing!Drawable]
  /\ active \in [Rules -> Targets \cup {None}]

(* Who belongs to which target.                                            *)
LEMMA TargetOfType ==
  ASSUME Ruled
  PROVE  /\ \A d \in Drawing!Drawable : Drawing!TargetOf(d) \in Targets \cup {None}
         /\ \A t : /\ Drawing!Group(t) \in SUBSET Drawing!Drawable
                   /\ \A d \in Drawing!Group(t) : Drawing!TargetOf(d) = t
         /\ \A d \in Drawing!Drawable : d \in Drawing!Group(Drawing!TargetOf(d))
<1>1. \A d \in Drawing!Drawable : Drawing!TargetOf(d) \in Targets \cup {None}
  BY DEF Ruled, Drawing!TargetOf
<1> QED BY <1>1 DEF Drawing!Group

(* The members of a group are linked in the order of the file.             *)
Linking(l, g, m, T) ==
  /\ Lists(g, m, T) /\ Ascending(g, m)
  /\ Nexts(l.next, g, m) /\ Prevs(l.prev, g, m)
  /\ m # 0 => Drawing!Min(T) = g[1] /\ Drawing!Max(T) = g[m]

(* What the groups are linked to at first has the type of a list.          *)
LEMMA LinkedType ==
  ASSUME Ruled
  PROVE  Drawing!Linked \in Links
<1> DEFINE D == Drawing!Drawable
<1>1. Count \in Nat /\ D = 1 .. Count
  BY DEF Ruled, Drawing!Drawable
<1>2. \A S \in SUBSET D : S # {} => Drawing!Min(S) \in D /\ Drawing!Max(S) \in D
  BY <1>1, Ends
<1>3. \A t : Drawing!Group(t) \in SUBSET D
  BY TargetOfType
<1> HIDE DEF D
<1>4. ASSUME NEW d \in D
      PROVE  /\ {e \in Drawing!Group(Drawing!TargetOf(d)) : e < d} \in SUBSET D
             /\ {e \in Drawing!Group(Drawing!TargetOf(d)) : e > d} \in SUBSET D
  BY <1>3
<1>5. Drawing!Linked.prev \in [D -> D \cup {None}]
  BY <1>2, <1>4 DEF Drawing!Linked, D
<1>6. Drawing!Linked.next \in [D -> D \cup {None}]
  BY <1>2, <1>4 DEF Drawing!Linked, D
<1>7. Drawing!Linked.last \in D \cup {None}
  BY <1>2, <1>3 DEF Drawing!Linked
<1>8. Drawing!Linked = [prev |-> Drawing!Linked.prev, next |-> Drawing!Linked.next,
                        last |-> Drawing!Linked.last]
  BY DEF Drawing!Linked
<1> QED BY <1>5, <1>6, <1>7, <1>8 DEF Links, D

(* At first every group is linked, in the order of the file.               *)
LEMMA LinkedLinks ==
  ASSUME Ruled, NEW t
  PROVE  \E m, g : Linking(Drawing!Linked, g, m, Drawing!Group(t))
<1> DEFINE D == Drawing!Drawable
           T == Drawing!Group(t)
<1>1. Count \in Nat /\ T \in SUBSET (1 .. Count) /\ D = 1 .. Count
  BY TargetOfType DEF Ruled, Drawing!Drawable
<1>2. \A d \in T : Drawing!TargetOf(d) = t
  BY TargetOfType
<1> HIDE DEF T
<1>3. PICK m, g : Lists(g, m, T) /\ Ascending(g, m)
  BY <1>1, FileOrder
<1>4. /\ m \in Nat /\ \A i \in 1 .. m : g[i] \in T /\ g[i] \in Nat
      /\ \A x \in T : \E i \in 1 .. m : g[i] = x
      /\ \A i, j \in 1 .. m : i < j => g[i] < g[j]
  <2>1. m \in Nat /\ \A i \in 1 .. m : g[i] \in T
    BY <1>3 DEF Lists
  <2>2. \A x \in T : x \in Nat
    BY <1>1
  <2> QED BY <1>3, <2>1, <2>2 DEF Lists, Ascending
<1>5. \A S \in SUBSET T : S # {} => /\ Drawing!Min(S) \in S /\ \A x \in S : Drawing!Min(S) <= x
                                    /\ Drawing!Max(S) \in S /\ \A x \in S : x <= Drawing!Max(S)
  BY <1>1, Ends
<1>6. ASSUME NEW i \in 1 .. m, NEW j \in 1 .. m, g[i] < g[j]
      PROVE  i < j
  <2>1. ~(i = j) /\ ~(j < i)
    BY <1>4, <1>6
  <2> QED BY <1>4, <2>1
<1>7. ASSUME NEW i \in 1 .. m
      PROVE  /\ Drawing!Linked.next[g[i]] = IF i = m THEN None ELSE g[i + 1]
             /\ Drawing!Linked.prev[g[i]] = IF i = 1 THEN None ELSE g[i - 1]
  <2> DEFINE d == g[i]
             After == {e \in T : e > d}
             Ahead == {e \in T : e < d}
  <2>1. d \in T /\ d \in D /\ d \in Nat /\ Drawing!Group(Drawing!TargetOf(d)) = T
    BY <1>1, <1>2, <1>4 DEF T
  <2>2. Drawing!Linked.next[d] = IF After = {} THEN None ELSE Drawing!Min(After)
    BY <2>1 DEF Drawing!Linked
  <2>3. Drawing!Linked.prev[d] = IF Ahead = {} THEN None ELSE Drawing!Max(Ahead)
    BY <2>1 DEF Drawing!Linked
  <2>4. \A e \in T : e \in Nat
    BY <1>1
  <2>5. ASSUME NEW j \in 1 .. m
        PROVE  /\ g[j] \in After <=> i < j
               /\ g[j] \in Ahead <=> j < i
    <3>1. g[j] \in T /\ g[j] \in Nat
      BY <1>4
    <3>2. g[j] > d <=> i < j
      BY <1>4, <1>6, <2>1, <3>1
    <3>3. g[j] < d <=> j < i
      BY <1>4, <1>6, <2>1, <3>1
    <3> QED BY <3>1, <3>2, <3>3
  <2>6. After \in SUBSET T /\ Ahead \in SUBSET T
    OBVIOUS
  <2> HIDE DEF d, After, Ahead
  <2>7. ASSUME i = m
        PROVE  Drawing!Linked.next[d] = None
    <3>1. After = {}
      <4>1. \A x \in After : \E j \in 1 .. m : g[j] = x
        BY <1>4, <2>6
      <4>2. \A j \in 1 .. m : ~(i < j)
        BY <1>4, <2>7
      <4> QED BY <2>5, <4>1, <4>2
    <3> QED BY <2>2, <3>1
  <2>8. ASSUME i # m
        PROVE  Drawing!Linked.next[d] = g[i + 1]
    <3>1. i + 1 \in 1 .. m /\ i < i + 1
      BY <1>4, <2>8
    <3>2. g[i + 1] \in After
      BY <2>5, <3>1
    <3>3. Drawing!Min(After) \in After /\ Drawing!Min(After) <= g[i + 1]
      BY <1>5, <2>6, <3>2
    <3>4. PICK j \in 1 .. m : g[j] = Drawing!Min(After)
      BY <1>4, <2>6, <3>3
    <3>5. i < j
      BY <2>5, <3>3, <3>4
    <3>6. ~(i + 1 < j)
      <4>1. i + 1 < j => g[i + 1] < g[j]
        BY <1>4, <3>1
      <4> QED BY <1>4, <3>1, <3>3, <3>4, <4>1
    <3>7. j = i + 1
      BY <3>5, <3>6
    <3> QED BY <2>2, <3>2, <3>4, <3>7
  <2>9. ASSUME i = 1
        PROVE  Drawing!Linked.prev[d] = None
    <3>1. Ahead = {}
      <4>1. \A x \in Ahead : \E j \in 1 .. m : g[j] = x
        BY <1>4, <2>6
      <4>2. \A j \in 1 .. m : ~(j < i)
        BY <1>4, <2>9
      <4> QED BY <2>5, <4>1, <4>2
    <3> QED BY <2>3, <3>1
  <2>10. ASSUME i # 1
         PROVE  Drawing!Linked.prev[d] = g[i - 1]
    <3>1. i - 1 \in 1 .. m /\ i - 1 < i
      BY <1>4, <2>10
    <3>2. g[i - 1] \in Ahead
      BY <2>5, <3>1
    <3>3. Drawing!Max(Ahead) \in Ahead /\ g[i - 1] <= Drawing!Max(Ahead)
      BY <1>5, <2>6, <3>2
    <3>4. PICK j \in 1 .. m : g[j] = Drawing!Max(Ahead)
      BY <1>4, <2>6, <3>3
    <3>5. j < i
      BY <2>5, <3>3, <3>4
    <3>6. ~(j < i - 1)
      <4>1. j < i - 1 => g[j] < g[i - 1]
        BY <1>4, <3>1
      <4> QED BY <1>4, <3>1, <3>3, <3>4, <4>1
    <3>7. j = i - 1
      BY <3>5, <3>6
    <3> QED BY <2>3, <3>2, <3>4, <3>7
  <2>11. Drawing!Linked.next[g[i]] = IF i = m THEN None ELSE g[i + 1]
    BY <2>7, <2>8 DEF d
  <2>12. Drawing!Linked.prev[g[i]] = IF i = 1 THEN None ELSE g[i - 1]
    BY <2>9, <2>10 DEF d
  <2> QED BY <2>11, <2>12
<1>8. ASSUME m # 0
      PROVE  Drawing!Min(T) = g[1] /\ Drawing!Max(T) = g[m]
  <2>1. 1 \in 1 .. m /\ m \in 1 .. m
    BY <1>4, <1>8
  <2>2. T # {}
    BY <1>4, <2>1
  <2>3. /\ Drawing!Min(T) \in T /\ \A x \in T : Drawing!Min(T) <= x
        /\ Drawing!Max(T) \in T /\ \A x \in T : x <= Drawing!Max(T)
    BY <1>5, <2>2
  <2>4. PICK i \in 1 .. m : g[i] = Drawing!Min(T)
    BY <1>4, <2>3
  <2>5. PICK j \in 1 .. m : g[j] = Drawing!Max(T)
    BY <1>4, <2>3
  <2>6. g[i] <= g[1] /\ g[m] <= g[j]
    BY <1>4, <2>1, <2>3, <2>4, <2>5
  <2>7. ~(1 < i) /\ ~(j < m)
    <3>1. 1 < i => g[1] < g[i]
      BY <1>4, <2>1
    <3>2. j < m => g[j] < g[m]
      BY <1>4, <2>1
    <3>3. g[1] \in Nat /\ g[i] \in Nat /\ g[j] \in Nat /\ g[m] \in Nat
      BY <1>4, <2>1
    <3> QED BY <2>6, <3>1, <3>2, <3>3
  <2>8. i = 1 /\ j = m
    BY <1>4, <2>7
  <2> QED BY <2>4, <2>5, <2>8
<1>9. Linking(Drawing!Linked, g, m, T)
  BY <1>3, <1>7, <1>8 DEF Linking, Nexts, Prevs
<1> QED BY <1>9 DEF T

(* k is l with y after x.                                                  *)
Joins(l, k, x, y) ==
  /\ k \in Links /\ k.last = l.last
  /\ \A d \in Drawing!Drawable : /\ k.next[d] = IF d = x THEN y ELSE l.next[d]
                                /\ k.prev[d] = IF d = y THEN x ELSE l.prev[d]

(* That is what Join does.                                                 *)
LEMMA JoinIs ==
  ASSUME Ruled, NEW l \in Links,
         NEW x \in Drawing!Drawable \cup {None}, NEW y \in Drawing!Drawable \cup {None}
  PROVE  Joins(l, Drawing!Join(l, x, y), x, y)
<1> DEFINE D == Drawing!Drawable
           nx == Drawing!Linking(l.next, x, y)
           pv == Drawing!Linking(l.prev, y, x)
<1>1. None \notin D /\ l.next \in [D -> D \cup {None}] /\ l.prev \in [D -> D \cup {None}]
  BY DEF Ruled, Links
<1>2. /\ Drawing!Join(l, x, y).next = nx /\ Drawing!Join(l, x, y).prev = pv
      /\ Drawing!Join(l, x, y).last = l.last
      /\ Drawing!Join(l, x, y) = [prev |-> pv, next |-> nx, last |-> l.last]
  <2> DEFINE k == Drawing!Join(l, x, y)
  <2>1. k = [l EXCEPT !.next = nx, !.prev = pv]
    BY DEF Drawing!Join
  <2>2. l = [prev |-> l.prev, next |-> l.next, last |-> l.last]
    BY DEF Links
  <2> HIDE DEF k, nx, pv
  <2>3. k = [prev |-> pv, next |-> nx, last |-> l.last]
    BY <2>1, <2>2
  <2> QED BY <2>3 DEF k
<1> HIDE DEF D
<1>3. nx \in [D -> D \cup {None}] /\ \A d \in D : nx[d] = IF d = x THEN y ELSE l.next[d]
  BY <1>1 DEF Drawing!Linking, D
<1>4. pv \in [D -> D \cup {None}] /\ \A d \in D : pv[d] = IF d = y THEN x ELSE l.prev[d]
  BY <1>1 DEF Drawing!Linking, D
<1> HIDE DEF nx, pv
<1>5. Drawing!Join(l, x, y) \in Links
  BY <1>2, <1>3, <1>4 DEF Links, D
<1> QED BY <1>2, <1>3, <1>4, <1>5 DEF D, Joins

(* What placing a group makes of the links: it goes between what was       *)
(* before and what was after the cut, either of which may be missing.      *)
Cuts(l, k, u, head, tail, v) ==
  \A d \in Drawing!Drawable :
    /\ k.next[d] = IF d = tail THEN v ELSE IF d = u THEN head ELSE l.next[d]
    /\ k.prev[d] = IF d = head THEN u ELSE IF d = v THEN tail ELSE l.prev[d]

(* The cut is before or after the drawable of the target.                  *)
CutAt(l, k, t, head, tail) ==
  LET at == file.drawable[t]
  IN  /\ placement[t] = "before" =>
           Cuts(l, k, l.prev[at], head, tail, at) /\ k.last = l.last
      /\ placement[t] # "before" =>
           /\ Cuts(l, k, at, head, tail, l.next[at])
           /\ k.last = IF at = l.last THEN tail ELSE l.last

(* The group is nowhere near the cut.                                      *)
Apart(l, t, head, tail) ==
  LET at == file.drawable[t]
  IN  /\ l.next[at] # head /\ l.next[at] # tail /\ l.next[at] # at
      /\ l.prev[at] # head /\ l.prev[at] # tail /\ l.prev[at] # at

(* A group goes between a drawable of the list and the next, or the        *)
(* previous, one.                                                          *)
LEMMA PlacedIs ==
  ASSUME Ruled, NEW l \in Links, NEW t \in Targets, Drawing!Group(t) # {},
         file.drawable[t] \notin Drawing!Group(t),
         Apart(l, t, Drawing!Min(Drawing!Group(t)), Drawing!Max(Drawing!Group(t)))
  PROVE  CutAt(l, Drawing!Placed(l, t), t, Drawing!Min(Drawing!Group(t)), Drawing!Max(Drawing!Group(t)))
<1> DEFINE D == Drawing!Drawable
           at == file.drawable[t]
           T == Drawing!Group(t)
           head == Drawing!Min(T)
           tail == Drawing!Max(T)
           k == Drawing!Placed(l, t)
<1>1. /\ Count \in Nat /\ D = 1 .. Count /\ T \in SUBSET (1 .. Count) /\ T # {}
      /\ at \in D /\ None \notin D
      /\ l.next \in [D -> D \cup {None}] /\ l.prev \in [D -> D \cup {None}]
  BY TargetOfType DEF Ruled, Drawing!Drawable, Links
<1>2. head \in T /\ tail \in T
  BY <1>1, Ends
<1>3. /\ at \notin T /\ l.next[at] \notin {head, tail, at} /\ l.prev[at] \notin {head, tail, at}
  BY DEF Apart
<1>4. k = IF placement[t] = "before"
          THEN Drawing!Join(Drawing!Join(l, l.prev[at], head), tail, at)
          ELSE [Drawing!Join(Drawing!Join(l, tail, l.next[at]), at, head)
                  EXCEPT !.last = Drawing!LastWith(l, t)]
  BY DEF Drawing!Placed, Drawing!GoesBefore
<1>5. Drawing!LastWith(l, t) = IF at = l.last THEN tail ELSE l.last
  BY DEF Drawing!LastWith
<1>6. head \in D /\ tail \in D /\ head # at /\ tail # at
  BY <1>1, <1>2, <1>3
<1> HIDE DEF D, at, head, tail, k, T
<1>7. ASSUME placement[t] = "before"
      PROVE  Cuts(l, k, l.prev[at], head, tail, at) /\ k.last = l.last
  <2> DEFINE u == l.prev[at]
             j == Drawing!Join(l, u, head)
  <2>1. u \in D \cup {None} /\ u # tail /\ u # head /\ u # at
    BY <1>1, <1>3
  <2> HIDE DEF u
  <2>2. /\ j \in Links /\ j.last = l.last
        /\ \A d \in D : /\ j.next[d] = IF d = u THEN head ELSE l.next[d]
                        /\ j.prev[d] = IF d = head THEN u ELSE l.prev[d]
    <3>1. Joins(l, j, u, head)
      BY <1>6, <2>1, JoinIs DEF D
    <3> QED BY <3>1 DEF Joins, D
  <2> HIDE DEF j
  <2>3. k = Drawing!Join(j, tail, at)
    BY <1>4, <1>7 DEF j, u
  <2>4. /\ k.last = j.last
        /\ \A d \in D : /\ k.next[d] = IF d = tail THEN at ELSE j.next[d]
                        /\ k.prev[d] = IF d = at THEN tail ELSE j.prev[d]
    <3>1. Joins(j, k, tail, at)
      BY <1>1, <1>6, <2>2, <2>3, JoinIs DEF D
    <3> QED BY <3>1 DEF Joins, D
  <2>5. Cuts(l, k, u, head, tail, at)
    BY <1>6, <2>1, <2>2, <2>4 DEF Cuts, D
  <2> QED BY <2>2, <2>4, <2>5 DEF u
<1>8. ASSUME placement[t] # "before"
      PROVE  /\ Cuts(l, k, at, head, tail, l.next[at])
             /\ k.last = IF at = l.last THEN tail ELSE l.last
  <2> DEFINE v == l.next[at]
             j == Drawing!Join(l, tail, v)
             i == Drawing!Join(j, at, head)
  <2>1. v \in D \cup {None} /\ v # tail /\ v # head /\ v # at
    BY <1>1, <1>3
  <2> HIDE DEF v
  <2>2. /\ j \in Links
        /\ \A d \in D : /\ j.next[d] = IF d = tail THEN v ELSE l.next[d]
                        /\ j.prev[d] = IF d = v THEN tail ELSE l.prev[d]
    <3>1. Joins(l, j, tail, v)
      BY <1>6, <2>1, JoinIs DEF D
    <3> QED BY <3>1 DEF Joins, D
  <2> HIDE DEF j
  <2>3. /\ i \in Links
        /\ \A d \in D : /\ i.next[d] = IF d = at THEN head ELSE j.next[d]
                        /\ i.prev[d] = IF d = head THEN at ELSE j.prev[d]
    <3>1. Joins(j, i, at, head)
      BY <1>1, <1>6, <2>2, JoinIs DEF D
    <3> QED BY <3>1 DEF Joins, D
  <2>4. k = [i EXCEPT !.last = Drawing!LastWith(l, t)]
    BY <1>4, <1>8 DEF i, j, v
  <2> HIDE DEF i
  <2>5. k.next = i.next /\ k.prev = i.prev /\ k.last = Drawing!LastWith(l, t)
    BY <2>3, <2>4 DEF Links
  <2>6. Cuts(l, k, at, head, tail, v)
    BY <1>6, <2>1, <2>2, <2>3, <2>5 DEF Cuts, D
  <2> QED BY <1>5, <2>5, <2>6 DEF v
<1> QED BY <1>7, <1>8 DEF CutAt, at, head, tail, k, T

(* What a group is put into stays a list.                                  *)
LEMMA PlacedType ==
  ASSUME Ruled, NEW l \in Links, NEW t \in Targets
  PROVE  Drawing!Placed(l, t) \in Links
<1> DEFINE D == Drawing!Drawable
           at == file.drawable[t]
           T == Drawing!Group(t)
           head == Drawing!Min(T)
           tail == Drawing!Max(T)
<1>1. /\ Count \in Nat /\ D = 1 .. Count /\ T \in SUBSET (1 .. Count) /\ at \in D
      /\ l.next \in [D -> D \cup {None}] /\ l.prev \in [D -> D \cup {None}]
      /\ l.last \in D \cup {None}
  BY TargetOfType DEF Ruled, Drawing!Drawable, Links
<1>2. T # {} => head \in D /\ tail \in D
  BY <1>1, Ends
<1>3. l.next[at] \in D \cup {None} /\ l.prev[at] \in D \cup {None}
  BY <1>1
<1>4. \A i \in Links : \A x, y \in D \cup {None} : Drawing!Join(i, x, y) \in Links
  BY JoinIs DEF Joins
<1>5. \A i \in Links : \A x \in D \cup {None} : [i EXCEPT !.last = x] \in Links
  BY DEF Links
<1>6. T # {} => Drawing!LastWith(l, t) \in D \cup {None}
  BY <1>1, <1>2 DEF Drawing!LastWith
<1> HIDE DEF D, at, head, tail
<1>7. ASSUME T # {}
      PROVE  /\ Drawing!Join(Drawing!Join(l, l.prev[at], head), tail, at) \in Links
             /\ [Drawing!Join(Drawing!Join(l, tail, l.next[at]), at, head)
                  EXCEPT !.last = Drawing!LastWith(l, t)] \in Links
  <2>1. Drawing!Join(Drawing!Join(l, l.prev[at], head), tail, at) \in Links
    BY <1>1, <1>2, <1>3, <1>4, <1>7
  <2>2. Drawing!Join(Drawing!Join(l, tail, l.next[at]), at, head) \in Links
    BY <1>1, <1>2, <1>3, <1>4, <1>7
  <2> QED BY <1>5, <1>6, <1>7, <2>1, <2>2
<1> QED BY <1>7 DEF Drawing!Placed, at, head, tail

-----------------------------------------------------------------------------
(* sortDrawOrder places one group after the other.                         *)

(* What the drawables belong to, and what may be between a group and the   *)
(* drawable it is placed at.                                               *)
Tg == [d \in Drawing!Drawable |-> Drawing!TargetOf(d)]

Near ==
  [t \in Targets |-> UNION {Drawing!CarriedBy(x) : x \in Drawing!Group(t) \cup {file.drawable[t]}}]

(* The targets are sorted: each once, and after the one that moves the     *)
(* drawable it is placed at.                                               *)
Ready ==
  /\ Ruled
  /\ drawTargets \in Seq(Targets)
  /\ \A i, j \in DOMAIN drawTargets : drawTargets[i] = drawTargets[j] => i = j
  /\ \A t \in Targets : \E i \in DOMAIN drawTargets : drawTargets[i] = t
  /\ \A i, j \in DOMAIN drawTargets :
       Drawing!TargetOf(file.drawable[drawTargets[j]]) = drawTargets[i] => i < j

(* It has the two, and the groups at whatever is in it.                    *)
LEMMA NearIs ==
  ASSUME Ready, NEW t \in Targets
  PROVE  /\ file.drawable[t] \in Near[t]
         /\ \A x \in Drawing!Group(t) : x \in Near[t]
         /\ \A u \in Targets : file.drawable[u] \in Near[t] =>
              \A x \in Drawing!Group(u) : x \in Near[t]
<1> DEFINE D == Drawing!Drawable
           From == Drawing!Group(t) \cup {file.drawable[t]}
<1>1. Count \in Nat /\ file.drawable \in [Targets -> D] /\ None \notin Targets
  BY DEF Ready, Ruled
<1>2. From \in SUBSET D
  BY <1>1, TargetOfType DEF Ready
<1>3. Near[t] = UNION {Drawing!CarriedBy(x) : x \in From}
  BY DEF Near
<1>4. \A x \in From : x \in Drawing!CarriedBy(x)
  BY <1>1, <1>2, CarriedIs
<1>5. ASSUME NEW u \in Targets, file.drawable[u] \in Near[t], NEW e \in Drawing!Group(u)
      PROVE  e \in Near[t]
  <2>1. PICK x \in From : file.drawable[u] \in Drawing!CarriedBy(x)
    BY <1>3, <1>5
  <2>2. e \in D /\ Drawing!TargetOf(e) = u /\ u # None
    BY <1>1, TargetOfType DEF Ready
  <2>3. e \in Drawing!CarriedBy(x)
    BY <1>1, <1>2, <2>1, <2>2, CarriedIs
  <2> QED BY <1>3, <2>3
<1> QED BY <1>3, <1>4, <1>5

(* The drawables that are in the list when k targets were placed.          *)
Moved(k) ==
  {d \in Drawing!Drawable : \/ Drawing!TargetOf(d) = None
                            \/ \E i \in 1 .. k : Drawing!TargetOf(d) = drawTargets[i]}

(* l links the drawables in M in the order s.                              *)
Chain(l, s, n, M) ==
  /\ Lists(s, n, M)
  /\ Nexts(l.next, s, n) /\ Prevs(l.prev, s, n)
  /\ l.last = IF n = 0 THEN None ELSE s[n]

(* And they are where the rules say.                                       *)
Ordering(l, s, n, M) ==
  /\ Chain(l, s, n, M)
  /\ InPlace(s, n, Tg, file.drawable, placement, Near)

(* The other groups are still as they were linked.                         *)
PlacedUpTo(l, k) ==
  /\ l \in Links
  /\ \E n, s : Ordering(l, s, n, Moved(k))
  /\ \A j \in k + 1 .. Len(drawTargets) :
       \E m, g : Linking(l, g, m, Drawing!Group(drawTargets[j]))

(* With no group placed, the list is that of the drawables that stay.      *)
LEMMA NoneIsPlaced ==
  ASSUME Ready
  PROVE  PlacedUpTo(Drawing!Linked, 0)
<1> DEFINE l == Drawing!Linked
<1>1. Ruled
  BY DEF Ready
<1>2. l \in Links /\ \A t : \E m, g : Linking(l, g, m, Drawing!Group(t))
  BY <1>1, LinkedType, LinkedLinks
<1>3. Moved(0) = Drawing!Group(None)
  BY DEF Moved, Drawing!Group
<1>4. Drawing!Linked.last = IF Moved(0) = {} THEN None ELSE Drawing!Max(Moved(0))
  BY <1>3 DEF Drawing!Linked
<1> HIDE DEF l
<1>5. PICK n, s : Linking(l, s, n, Moved(0))
  BY <1>2, <1>3
<1>6. /\ Lists(s, n, Moved(0)) /\ Ascending(s, n)
      /\ Nexts(l.next, s, n) /\ Prevs(l.prev, s, n)
      /\ n # 0 => Drawing!Max(Moved(0)) = s[n]
  BY <1>5 DEF Linking
<1>7. n \in Nat /\ \A i \in 1 .. n : s[i] \in Moved(0)
  BY <1>6 DEF Lists
<1>8. \A i \in 1 .. n : Tg[s[i]] = None /\ s[i] \in Nat
  BY <1>3, <1>7 DEF Tg, Drawing!Group, Drawing!Drawable
<1>9. l.last = IF n = 0 THEN None ELSE s[n]
  <2>1. Moved(0) = {} <=> n = 0
    <3>1. n # 0 => 1 \in 1 .. n
      BY <1>7
    <3>2. n = 0 => 1 .. n = {}
      OBVIOUS
    <3>3. \A x \in Moved(0) : \E i \in 1 .. n : s[i] = x
      BY <1>6 DEF Lists
    <3> QED BY <1>7, <3>1, <3>2, <3>3
  <2> QED BY <1>4, <1>6, <2>1 DEF l
<1>10. SameOrder(s, n, Tg)
  <2> SUFFICES ASSUME NEW i \in 1 .. n, NEW j \in 1 .. n, s[i] < s[j]
               PROVE  i < j
    BY DEF SameOrder
  <2>1. s[i] \in Nat /\ s[j] \in Nat
    BY <1>8
  <2>2. ~(i = j) /\ ~(j < i)
    BY <1>6, <2>1 DEF Ascending
  <2> QED BY <1>7, <2>2
<1>11. OnSide(s, n, Tg, file.drawable, placement) /\ Beside(s, n, Tg, file.drawable, Near)
  BY <1>8 DEF OnSide, Beside
<1>12. Ordering(l, s, n, Moved(0))
  BY <1>6, <1>9, <1>10, <1>11 DEF Ordering, Chain, InPlace
<1> QED BY <1>2, <1>12 DEF PlacedUpTo, l

(* Links that stay as they were where some drawables are.                  *)
LEMMA LinkingStays ==
  ASSUME NEW l, NEW k, NEW g, NEW m, NEW T, Linking(l, g, m, T),
         \A x \in T : k.next[x] = l.next[x] /\ k.prev[x] = l.prev[x]
  PROVE  Linking(k, g, m, T)
<1>1. \A i \in 1 .. m : g[i] \in T
  BY DEF Linking, Lists
<1> QED BY <1>1 DEF Linking, Nexts, Prevs

(* Where the drawable a group is placed at is, there it can be cut.        *)
LEMMA NextIsPlaced ==
  ASSUME Ready, NEW k \in 0 .. Len(drawTargets) - 1, NEW l, PlacedUpTo(l, k)
  PROVE  PlacedUpTo(Drawing!Placed(l, drawTargets[k + 1]), k + 1)
<1> DEFINE N == Len(drawTargets)
           t == drawTargets[k + 1]
           T == Drawing!Group(t)
           D == Drawing!Drawable
           S == Moved(k)
           at == file.drawable
           z == Drawing!Placed(l, t)
<1>1. /\ N \in Nat /\ DOMAIN drawTargets = 1 .. N /\ \A i \in 1 .. N : drawTargets[i] \in Targets
      /\ \A i, j \in 1 .. N : drawTargets[i] = drawTargets[j] => i = j
      /\ \A u \in Targets : \E i \in 1 .. N : drawTargets[i] = u
      /\ \A i, j \in 1 .. N : Drawing!TargetOf(at[drawTargets[j]]) = drawTargets[i] => i < j
  BY DEF Ready
<1>2. Ruled /\ None \notin D /\ None \notin Targets /\ at \in [Targets -> D] /\ D = 1 .. Count
  BY DEF Ready, Ruled, Drawing!Drawable
<1>3. k \in Nat /\ k + 1 \in 1 .. N /\ 1 .. k \subseteq 1 .. N
  BY <1>1
<1>4. t \in Targets /\ t # None
  BY <1>1, <1>2, <1>3
<1>5. /\ T \in SUBSET D /\ \A d \in T : Drawing!TargetOf(d) = t
      /\ \A d \in D : Drawing!TargetOf(d) \in Targets \cup {None}
      /\ \A d \in D : d \in Drawing!Group(Drawing!TargetOf(d))
  BY <1>2, TargetOfType
<1> HIDE DEF N, T, D, S, z
<1>6. l \in Links /\ \A j \in k + 1 .. N : \E m, g : Linking(l, g, m, Drawing!Group(drawTargets[j]))
  BY DEF PlacedUpTo, N
<1>7. z \in Links
  BY <1>2, <1>4, <1>6, PlacedType DEF z
<1>8. Moved(k + 1) = S \cup T
  <2>1. \A i : i \in 1 .. k + 1 <=> i \in 1 .. k \/ i = k + 1
    BY <1>3
  <2> QED BY <2>1 DEF Moved, S, T, Drawing!Group
<1>9. \A d \in S : d \in D /\ (\/ Drawing!TargetOf(d) = None
                              \/ \E i \in 1 .. k : Drawing!TargetOf(d) = drawTargets[i])
  BY DEF S, Moved, D
<1>10. ASSUME NEW d \in S
       PROVE  Drawing!TargetOf(d) # t
  <2>1. \A i \in 1 .. k : drawTargets[i] # t
    <3>1. \A i \in 1 .. k : i # k + 1 /\ i \in 1 .. N
      BY <1>3
    <3> QED BY <1>1, <1>3, <3>1
  <2> QED BY <1>4, <1>9, <2>1
<1>11. S \cap T = {}
  BY <1>5, <1>10
<1>12. CASE T = {}
  <2>1. z = l
    BY <1>12 DEF z, T, Drawing!Placed
  <2>2. Moved(k + 1) = S
    BY <1>8, <1>12
  <2>3. \E n, s : Ordering(z, s, n, Moved(k + 1))
    BY <2>1, <2>2 DEF PlacedUpTo, S
  <2>4. \A j \in (k + 1) + 1 .. N : j \in k + 1 .. N
    BY <1>3
  <2> QED BY <1>6, <2>1, <2>3, <2>4 DEF PlacedUpTo, N, z
<1>13. CASE T # {}
  <2>1. at[t] \in S
    <3>1. at[t] \in D
      BY <1>2, <1>4
    <3>2. CASE Drawing!TargetOf(at[t]) = None
      BY <3>1, <3>2 DEF S, Moved, D
    <3>3. CASE Drawing!TargetOf(at[t]) # None
      <4>1. PICK i \in 1 .. N : drawTargets[i] = Drawing!TargetOf(at[t])
        BY <1>1, <1>5, <3>1, <3>3
      <4>2. i < k + 1
        BY <1>1, <1>3, <4>1
      <4>3. i \in 1 .. k
        BY <1>3, <4>2
      <4> QED BY <3>1, <4>1, <4>3 DEF S, Moved, D
    <3> QED BY <3>2, <3>3
  <2>2. PICK n, s : Ordering(l, s, n, S)
    BY DEF PlacedUpTo, S
  <2>3. k + 1 \in k + 1 .. N
    BY <1>1, <1>3
  <2>4. PICK m, g : Linking(l, g, m, T)
    BY <1>6, <2>3 DEF T
  <2>5. /\ Lists(s, n, S) /\ Nexts(l.next, s, n) /\ Prevs(l.prev, s, n)
        /\ l.last = IF n = 0 THEN None ELSE s[n]
        /\ InPlace(s, n, Tg, at, placement, Near)
    BY <2>2 DEF Ordering, Chain
  <2>6. /\ Lists(g, m, T) /\ Ascending(g, m) /\ Nexts(l.next, g, m) /\ Prevs(l.prev, g, m)
        /\ m # 0 => Drawing!Min(T) = g[1] /\ Drawing!Max(T) = g[m]
    BY <2>4 DEF Linking
  <2>7. /\ n \in Nat /\ \A i \in 1 .. n : s[i] \in S
        /\ m \in Nat /\ \A i \in 1 .. m : g[i] \in T
        /\ \A i, j \in 1 .. n : s[i] = s[j] => i = j
    BY <2>5, <2>6 DEF Lists
  <2>8. m # 0 /\ 1 \in 1 .. m /\ m \in 1 .. m
    <3>1. \A x \in T : \E i \in 1 .. m : g[i] = x
      BY <2>6 DEF Lists
    <3>2. m # 0
      BY <1>13, <3>1
    <3> QED BY <2>7, <3>2
  <2>9. g[1] \in T /\ g[m] \in T /\ Drawing!Min(T) = g[1] /\ Drawing!Max(T) = g[m]
    BY <2>6, <2>7, <2>8
  <2>10. PICK p \in 1 .. n : s[p] = at[t]
    BY <2>1, <2>5 DEF Lists
  <2> DEFINE c == IF placement[t] = "before" THEN p - 1 ELSE p
  <2>11. c \in 0 .. n
    BY <2>7
  <2>12. /\ l.next[at[t]] = IF p = n THEN None ELSE s[p + 1]
         /\ l.prev[at[t]] = IF p = 1 THEN None ELSE s[p - 1]
    BY <2>5, <2>10 DEF Nexts, Prevs
  <2>13. /\ p # n => p + 1 \in 1 .. n /\ s[p + 1] \in S /\ s[p + 1] # at[t]
         /\ p # 1 => p - 1 \in 1 .. n /\ s[p - 1] \in S /\ s[p - 1] # at[t]
    <3>1. p # n => p + 1 \in 1 .. n /\ p + 1 # p
      BY <2>7
    <3>2. p # 1 => p - 1 \in 1 .. n /\ p - 1 # p
      BY <2>7
    <3> QED BY <2>7, <2>10, <3>1, <3>2
  <2>14. None \notin S \cup T
    BY <1>2, <1>5, <1>9
  <2>15. /\ at[t] \notin T
         /\ l.next[at[t]] # g[1] /\ l.next[at[t]] # g[m] /\ l.next[at[t]] # at[t]
         /\ l.prev[at[t]] # g[1] /\ l.prev[at[t]] # g[m] /\ l.prev[at[t]] # at[t]
    BY <1>11, <2>1, <2>9, <2>12, <2>13, <2>14
  <2>16. CutAt(l, z, t, g[1], g[m])
    <3>1. Apart(l, t, g[1], g[m])
      BY <2>15 DEF Apart
    <3>2. Apart(l, t, Drawing!Min(T), Drawing!Max(T))
      BY ONLY <2>9, <3>1
    <3>3. CutAt(l, Drawing!Placed(l, t), t, Drawing!Min(T), Drawing!Max(T))
      BY ONLY <1>2, <1>4, <1>6, <1>13, <2>15, <3>2, PlacedIs DEF T, at
    <3>4. CutAt(l, z, t, Drawing!Min(T), Drawing!Max(T))
      BY ONLY <3>3 DEF z
    <3> QED BY ONLY <2>9, <3>4
  <2> DEFINE u == IF c = 0 THEN None ELSE s[c]
             v == IF c = n THEN None ELSE s[c + 1]
             q == Inserted(s, n, g, m, c)
  <2>17. Cuts(l, z, u, g[1], g[m], v)
    <3>1. CASE placement[t] = "before"
      <4>1. /\ c = p - 1 /\ c # n /\ c + 1 = p /\ (c = 0 <=> p = 1)
        BY <2>7, <3>1
      <4>2. v = at[t]
        BY <2>10, <4>1
      <4>3. u = l.prev[at[t]]
        BY <2>12, <4>1
      <4> QED BY <2>16, <3>1, <4>2, <4>3 DEF CutAt
    <3>2. CASE placement[t] # "before"
      <4>1. c = p /\ c # 0
        BY <2>7, <3>2
      <4>2. u = at[t] /\ v = l.next[at[t]]
        BY <2>10, <2>12, <4>1
      <4> QED BY <2>16, <3>2, <4>2 DEF CutAt
    <3> QED BY <3>1, <3>2
  <2>18. S \cup T \in SUBSET D
    BY <1>5, <1>9
  <2>19. \A x \in S \cup T :
           /\ z.next[x] = IF x = g[m] THEN v
                          ELSE IF c # 0 /\ x = s[c] THEN g[1] ELSE l.next[x]
           /\ z.prev[x] = IF x = g[1] THEN u
                          ELSE IF c # n /\ x = s[c + 1] THEN g[m] ELSE l.prev[x]
    <3> TAKE x \in S \cup T
    <3>1. x \in D /\ x # None
      BY <2>14, <2>18
    <3>2. /\ z.next[x] = IF x = g[m] THEN v ELSE IF x = u THEN g[1] ELSE l.next[x]
          /\ z.prev[x] = IF x = g[1] THEN u ELSE IF x = v THEN g[m] ELSE l.prev[x]
      BY <2>17, <3>1 DEF Cuts, D
    <3>3. x = u <=> c # 0 /\ x = s[c]
      BY <3>1
    <3>4. x = v <=> c # n /\ x = s[c + 1]
      BY <3>1
    <3> HIDE DEF u, v
    <3> QED BY <3>2, <3>3, <3>4
  <2> HIDE DEF c
  <2>20. Nexts(z.next, q, n + m)
    <3>1. NextsJoined(z.next, l.next, s, n, g, m, c, S \cup T)
      BY <2>19 DEF NextsJoined
    <3>2. Nexts(l.next, s, n) /\ Nexts(l.next, g, m) /\ Lists(s, n, S) /\ Lists(g, m, T) /\ m # 0
      BY <2>5, <2>6, <2>8
    <3> QED BY ONLY <1>11, <2>11, <2>14, <3>1, <3>2, NextsSpliced
  <2>21. Prevs(z.prev, q, n + m)
    <3>1. PrevsJoined(z.prev, l.prev, s, n, g, m, c, S \cup T)
      BY <2>19 DEF PrevsJoined
    <3>2. Prevs(l.prev, s, n) /\ Prevs(l.prev, g, m) /\ Lists(s, n, S) /\ Lists(g, m, T) /\ m # 0
      BY <2>5, <2>6, <2>8
    <3> QED BY ONLY <1>11, <2>11, <2>14, <3>1, <3>2, PrevsSpliced
  <2>22. Lists(q, n + m, S \cup T)
    BY <1>11, <2>5, <2>6, <2>11, InsertedLists
  <2>23. InPlace(q, n + m, Tg, at, placement, Near)
    <3>1. S \cup T \subseteq Nat
      BY <1>2, <2>18
    <3>2. \A x \in T : Tg[x] = t
      BY <1>5 DEF Tg, D
    <3>3. \A x \in S : Tg[x] = Drawing!TargetOf(x) /\ Tg[x] # t
      BY <1>9, <1>10 DEF Tg, D
    <3>4. ASSUME NEW x \in S, Tg[x] # None
          PROVE  at[Tg[x]] \notin T
      <4>1. PICK i \in 1 .. k : Tg[x] = drawTargets[i]
        BY <1>9, <3>3, <3>4
      <4>2. i \in 1 .. N /\ ~(k + 1 < i)
        BY <1>3
      <4>3. Drawing!TargetOf(at[drawTargets[i]]) # drawTargets[k + 1]
        BY <1>1, <1>3, <4>2
      <4> QED BY <1>5, <4>1, <4>3
    <3>5. ASSUME NEW x \in S \cup T, Tg[x] # None
          PROVE  x \in Near[Tg[x]] /\ at[Tg[x]] \in Near[Tg[x]]
      <4>1. x \in D /\ Tg[x] = Drawing!TargetOf(x)
        BY <2>18 DEF Tg, D
      <4>2. Tg[x] \in Targets /\ x \in Drawing!Group(Tg[x])
        BY <1>5, <3>5, <4>1
      <4> QED BY <4>2, NearIs
    <3>6. ASSUME NEW x \in S, NEW y \in T, Tg[x] # None, at[t] \in Near[Tg[x]]
          PROVE  y \in Near[Tg[x]]
      <4>1. Tg[x] \in Targets
        BY <1>5, <1>9, <3>3, <3>6
      <4> QED BY <1>4, <3>6, <4>1, NearIs DEF T
    <3>7. /\ c = IF placement[t] = "before" THEN p - 1 ELSE p
          /\ Lists(s, n, S) /\ Lists(g, m, T) /\ Ascending(g, m)
          /\ InPlace(s, n, Tg, at, placement, Near)
      BY <2>5, <2>6 DEF c
    <3>8. Fits(S, T, t, Tg, at, Near)
      BY ONLY <1>4, <1>11, <3>1, <3>2, <3>3, <3>4, <3>5, <3>6 DEF Fits
    <3> QED BY ONLY <2>10, <3>7, <3>8, InsertedInPlace
  <2>24. z.last = q[n + m]
    <3>1. IsInserted(q, s, n, g, m, c)
      BY <2>7, <2>11, InsertedIs
    <3> HIDE DEF q
    <3>2. n \in 1 .. n /\ n # 0 /\ l.last = s[n]
      BY <2>5, <2>7
    <3>3. c # n => q[n + m] = s[n]
      <4>1. c # n => n \in c + 1 .. n
        BY <2>7, <2>11
      <4> QED BY <3>1, <4>1 DEF IsInserted
    <3>4. c = n => q[n + m] = g[m]
      BY <2>8, <3>1 DEF IsInserted
    <3>5. CASE placement[t] = "before"
      <4>1. c # n
        BY <2>7, <3>5 DEF c
      <4> QED BY <2>16, <3>2, <3>3, <3>5, <4>1 DEF CutAt
    <3>6. CASE placement[t] # "before"
      <4>1. c = p /\ (at[t] = l.last <=> p = n)
        BY <2>7, <2>10, <3>2, <3>6 DEF c
      <4> QED BY <2>16, <3>2, <3>3, <3>4, <3>6, <4>1 DEF CutAt
    <3> QED BY <3>5, <3>6
  <2>25. Ordering(z, q, n + m, Moved(k + 1))
    <3>1. n + m # 0
      BY <2>7, <2>8
    <3> HIDE DEF q
    <3> QED BY <1>8, <2>20, <2>21, <2>22, <2>23, <2>24, <3>1 DEF Ordering, Chain
  <2>26. ASSUME NEW j \in (k + 1) + 1 .. N
         PROVE  \E b, a : Linking(z, a, b, Drawing!Group(drawTargets[j]))
    <3> DEFINE R == Drawing!Group(drawTargets[j])
    <3>1. j \in k + 1 .. N /\ j \in 1 .. N /\ j # k + 1 /\ j \notin 1 .. k
      BY <1>3
    <3>2. PICK b, a : Linking(l, a, b, R)
      BY <1>6, <3>1
    <3>3. ASSUME NEW x \in R
          PROVE  x \in D /\ x \notin S /\ x \notin T
      <4>1. x \in D /\ Drawing!TargetOf(x) = drawTargets[j]
        BY <1>2, TargetOfType DEF D
      <4>2. Drawing!TargetOf(x) # t
        BY <1>1, <1>3, <3>1, <4>1
      <4>3. \A i \in 1 .. k : drawTargets[i] # drawTargets[j]
        BY <1>1, <1>3, <3>1
      <4>4. drawTargets[j] # None
        BY <1>1, <1>2, <3>1
      <4> QED BY <1>5, <1>9, <4>1, <4>2, <4>3, <4>4
    <3>4. u \in S \cup {None} /\ v \in S \cup {None}
      <4>1. c # 0 => c \in 1 .. n
        BY <2>7, <2>11
      <4>2. c # n => c + 1 \in 1 .. n
        BY <2>7, <2>11
      <4> QED BY <2>7, <4>1, <4>2
    <3> HIDE DEF u, v, R
    <3>5. \A x \in R : z.next[x] = l.next[x] /\ z.prev[x] = l.prev[x]
      <4> TAKE x \in R
      <4>1. x # None /\ x # u /\ x # v /\ x # g[1] /\ x # g[m] /\ x \in D
        BY <1>2, <2>9, <3>3, <3>4
      <4> QED BY <2>17, <4>1 DEF Cuts, D
    <3>6. Linking(z, a, b, R)
      BY <3>2, <3>5, LinkingStays
    <3> QED BY <3>6 DEF R
  <2> QED BY <1>7, <2>25, <2>26 DEF PlacedUpTo, N, z
<1> QED BY <1>12, <1>13

(* After the last target all groups are placed.                            *)
LEMMA AllArePlaced ==
  ASSUME Ready
  PROVE  PlacedUpTo(Drawing!Sorted, Len(drawTargets))
<1> DEFINE N == Len(drawTargets)
           Go(l, k) == Drawing!Placed(l, drawTargets[k])
           Step == [q \in Links \X (1 .. N) |-> Go(q[1], q[2])]
           Is(f) == f = [k \in 0 .. N |-> IF k = 0 THEN Drawing!Linked ELSE Go(f[k - 1], k)]
           G == CHOOSE f : Is(f)
<1>1. Drawing!Sorted = G[N]
  BY DEF Drawing!Sorted
<1>2. N \in Nat /\ \A k \in 1 .. N : drawTargets[k] \in Targets
  BY DEF Ready
<1>3. Ruled
  BY DEF Ready
<1>4. Drawing!Linked \in Links
  BY <1>3, LinkedType
<1>5. ASSUME NEW l \in Links, NEW k \in 1 .. N
      PROVE  Go(l, k) \in Links
  BY <1>2, <1>3, PlacedType
<1> HIDE DEF Go, N, G
<1>6. Step \in StepsOf(Links, N)
  BY <1>5 DEF StepsOf
<1> HIDE DEF Step
<1>7. PICK f : CountsUp(f, N, Links, Drawing!Linked, Step)
  BY <1>2, <1>4, <1>6, CountingDefines
<1>8. /\ f \in [0 .. N -> Links] /\ f[0] = Drawing!Linked
      /\ \A k \in 1 .. N : f[k] = Step[<<f[k - 1], k>>]
  BY <1>7 DEF CountsUp
<1>9. ASSUME NEW k \in 1 .. N
      PROVE  f[k] = Go(f[k - 1], k)
  <2>1. k - 1 \in 0 .. N
    BY <1>2
  <2>2. f[k - 1] \in Links
    BY <1>8, <2>1
  <2>3. Step[<<f[k - 1], k>>] = Go(f[k - 1], k)
    BY <2>2 DEF Step
  <2> QED BY <1>8, <2>3
<1>10. Is(f)
  <2>1. f = [k \in 0 .. N |-> f[k]]
    BY <1>8
  <2>2. \A k \in 0 .. N : f[k] = IF k = 0 THEN Drawing!Linked ELSE Go(f[k - 1], k)
    <3> TAKE k \in 0 .. N
    <3>1. k = 0 \/ k \in 1 .. N
      BY <1>2
    <3> QED BY <1>8, <1>9, <3>1
  <2> QED BY <2>1, <2>2
<1>11. Is(G)
  <2> HIDE DEF Is
  <2> QED BY <1>10 DEF G
<1>12. G[0] = Drawing!Linked /\ \A k \in 1 .. N : G[k] = Go(G[k - 1], k)
  <2>1. \A k \in 0 .. N : G[k] = IF k = 0 THEN Drawing!Linked ELSE Go(G[k - 1], k)
    BY <1>11
  <2>2. 0 \in 0 .. N /\ \A k \in 1 .. N : k \in 0 .. N /\ k # 0
    BY <1>2
  <2> HIDE DEF Is
  <2> QED BY <2>1, <2>2
<1> HIDE DEF Is
<1> DEFINE M == {k \in 0 .. N : PlacedUpTo(G[k], k)}
<1>13. 0 \in M
  <2>1. 0 \in 0 .. N
    BY <1>2
  <2> QED BY <1>12, <2>1, NoneIsPlaced
<1>14. ASSUME NEW k \in 0 .. N - 1, k \in M
       PROVE  k + 1 \in M
  <2>1. k + 1 \in 1 .. N /\ (k + 1) - 1 = k /\ k + 1 \in 0 .. N
    BY <1>2
  <2>2. G[k + 1] = Drawing!Placed(G[k], drawTargets[k + 1])
    BY <1>12, <2>1 DEF Go
  <2>3. PlacedUpTo(Drawing!Placed(G[k], drawTargets[k + 1]), k + 1)
    BY <1>14, NextIsPlaced DEF N
  <2> QED BY <2>1, <2>2, <2>3
<1>15. N \in M
  <2>1. N \in 0 .. N
    BY <1>2
  <2> HIDE DEF M
  <2>2. 0 .. N \subseteq M
    BY <1>2, <1>13, <1>14, BoundedInduction
  <2> QED BY <2>1, <2>2
<1> QED BY <1>1, <1>15 DEF N

(* An order of all the drawables, as the rules say.                        *)
Ordered(l) ==
  /\ l \in Links
  /\ \E s \in [1 .. Count -> Drawing!Drawable] : Ordering(l, s, Count, Drawing!Drawable)

(* And then these are all the drawables there are.                         *)
LEMMA SortedIsOrdered ==
  ASSUME Ready
  PROVE  Ordered(Drawing!Sorted)
<1> DEFINE N == Len(drawTargets)
           D == Drawing!Drawable
           l == Drawing!Sorted
<1>1. l \in Links /\ \E n, s : Ordering(l, s, n, Moved(N))
  BY AllArePlaced DEF PlacedUpTo
<1>2. Count \in Nat /\ D = 1 .. Count /\ DOMAIN drawTargets = 1 .. N
  BY DEF Ready, Ruled, Drawing!Drawable
<1>3. Moved(N) = D
  <2>1. \A d \in D : Drawing!TargetOf(d) \in Targets \cup {None}
    BY TargetOfType DEF Ready
  <2>2. \A t \in Targets : \E i \in 1 .. N : drawTargets[i] = t
    BY <1>2 DEF Ready
  <2>3. \A d \in D : \/ Drawing!TargetOf(d) = None
                     \/ \E i \in 1 .. N : Drawing!TargetOf(d) = drawTargets[i]
    BY <2>1, <2>2
  <2> HIDE DEF N
  <2> QED BY <2>3 DEF Moved
<1> HIDE DEF l
<1>4. PICK n, s : Ordering(l, s, n, D)
  BY <1>1, <1>3
<1>5. /\ n \in Nat /\ s \in [1 .. n -> D]
      /\ \A x \in D : \E i \in 1 .. n : s[i] = x
      /\ \A i, j \in 1 .. n : s[i] = s[j] => i = j
  BY <1>4 DEF Ordering, Chain, Lists
<1>6. n = Count
  <2>1. s \in Surjection(1 .. n, D)
    BY <1>5 DEF Surjection
  <2>2. s \in Injection(1 .. n, D)
    BY <1>5 DEF Injection, IsInjective
  <2>3. Cardinality(1 .. n) = n
    <3>1. Cardinality(1 .. n) = IF 1 > n THEN 0 ELSE n - 1 + 1
      BY <1>5, FS_Interval
    <3> QED BY <1>5, <3>1
  <2>4. Cardinality(D) = Count
    <3>1. Cardinality(1 .. Count) = IF 1 > Count THEN 0 ELSE Count - 1 + 1
      BY <1>2, FS_Interval
    <3> QED BY <1>2, <3>1
  <2>5. IsFiniteSet(1 .. n)
    BY <1>5, FS_Interval
  <2> QED BY <2>1, <2>2, <2>3, <2>4, <2>5, FS_Surjection
<1> QED BY <1>1, <1>4, <1>5, <1>6 DEF Ordered, l

(* What is drawn and tested, and where each drawable is.                   *)
LEMMA WalksAre ==
  ASSUME Ruled, list \in Links, NEW s \in [1 .. Count -> Drawing!Drawable],
         Chain(list, s, Count, Drawing!Drawable)
  PROVE  /\ Drawing!DrawnOrder = [i \in 1 .. Count |-> s[(Count - i) + 1]]
         /\ Drawing!TestOrder = s
         /\ \A i \in 1 .. Count : Drawing!Places[s[i]] = i
<1> DEFINE D == Drawing!Drawable
           back == [i \in 1 .. Count |-> s[(Count - i) + 1]]
<1>1. Count \in Nat /\ None \notin D /\ Count \in 0 .. Count
  BY DEF Ruled
<1>2. /\ list.prev \in [D -> D \cup {None}] /\ list.next \in [D -> D \cup {None}]
      /\ Nexts(list.next, s, Count) /\ Prevs(list.prev, s, Count)
      /\ list.last = IF Count = 0 THEN None ELSE s[Count]
      /\ Lists(s, Count, D)
  BY DEF Links, Chain
<1>3. \A i \in 1 .. Count : (Count - i) + 1 \in 1 .. Count
  BY <1>1
<1>4. back \in [1 .. Count -> D]
  BY <1>3
<1>5. Nexts(list.prev, back, Count)
  <2> SUFFICES ASSUME NEW i \in 1 .. Count
               PROVE  list.prev[back[i]] = IF i = Count THEN None ELSE back[i + 1]
    BY DEF Nexts
  <2> DEFINE j == (Count - i) + 1
  <2>1. j \in 1 .. Count /\ (j = 1 <=> i = Count)
    BY <1>1
  <2>2. i # Count => i + 1 \in 1 .. Count /\ (Count - (i + 1)) + 1 = j - 1
    BY <1>1
  <2>3. back[i] = s[j]
    OBVIOUS
  <2>4. i # Count => back[i + 1] = s[j - 1]
    BY <2>2
  <2> HIDE DEF j, back
  <2>5. list.prev[s[j]] = IF j = 1 THEN None ELSE s[j - 1]
    BY <1>2, <2>1 DEF Prevs
  <2> QED BY <2>1, <2>3, <2>4, <2>5
<1>6. list.last = IF Count = 0 THEN None ELSE back[1]
  <2>1. Count # 0 => 1 \in 1 .. Count /\ (Count - 1) + 1 = Count
    BY <1>1
  <2>2. Count # 0 => back[1] = s[Count]
    BY <2>1
  <2> HIDE DEF back
  <2> QED BY <1>2, <2>2
<1> DEFINE prev == list.prev
           last == list.last
           next == list.next
<1>7. Drawing!DrawnOrder = back
  <2> HIDE DEF back
  <2>1. prev \in [D -> D \cup {None}] /\ Nexts(prev, back, Count)
        /\ last = IF Count = 0 THEN None ELSE back[1]
    BY <1>2, <1>5, <1>6
  <2> HIDE DEF prev, last
  <2>2. Drawing!Along(prev, last) = back
    BY <1>1, <1>4, <2>1, AlongIs
  <2> QED BY <2>2 DEF prev, last, Drawing!DrawnOrder
<1>8. Drawing!TestOrder = s
  <2>1. CASE Count = 0
    <3>1. list.last = None
      BY <1>2, <2>1
    <3>2. s = <<>>
      BY <2>1
    <3> QED BY <3>1, <3>2 DEF Drawing!TestOrder
  <2>2. CASE Count # 0
    <3>1. Count \in 1 .. Count /\ 1 \in 1 .. Count /\ (Count - Count) + 1 = 1
      BY <1>1, <2>2
    <3>2. list.last # None
      BY <1>1, <1>2, <2>2, <3>1
    <3>3. Len(back) = Count
      BY <1>1
    <3>4. back[Count] = s[1]
      BY <3>1
    <3> HIDE DEF back
    <3>5. Drawing!Last(Drawing!DrawnOrder) = s[1]
      BY <1>7, <3>3, <3>4 DEF Drawing!Last
    <3>6. next \in [D -> D \cup {None}] /\ Nexts(next, s, Count)
      BY <1>2
    <3> HIDE DEF next
    <3>7. Drawing!Along(next, s[1]) = s
      BY <1>1, <2>2, <3>6, AlongIs
    <3> QED BY <3>2, <3>5, <3>7 DEF Drawing!TestOrder, next
  <2> QED BY <2>1, <2>2
<1>9. ASSUME NEW i \in 1 .. Count
      PROVE  Drawing!Places[s[i]] = i
  <2>1. Drawing!Places = [d \in D |-> CHOOSE k \in DOMAIN s : s[k] = d]
    BY <1>8 DEF Drawing!Places
  <2>2. s[i] \in D /\ DOMAIN s = 1 .. Count
    OBVIOUS
  <2>3. Drawing!Places[s[i]] = CHOOSE k \in 1 .. Count : s[k] = s[i]
    BY <2>1, <2>2
  <2>4. \A k \in 1 .. Count : s[k] = s[i] => k = i
    BY <1>2 DEF Lists
  <2> QED BY <2>3, <2>4
<1> QED BY <1>7, <1>8, <1>9

(* What GroupsInPlace says of a list that is sorted.                       *)
LEMMA OrderedInPlace ==
  ASSUME Ready, Ordered(list)
  PROVE  Drawing!GroupsInPlace
<1> DEFINE D == Drawing!Drawable
           place == Drawing!Places
           at == file.drawable
<1>1. list \in Links /\ Ruled
  BY DEF Ordered, Ready
<1>2. PICK s \in [1 .. Count -> D] : Ordering(list, s, Count, D)
  BY DEF Ordered
<1>3. /\ Drawing!DrawnOrder = [i \in 1 .. Count |-> s[(Count - i) + 1]]
      /\ Drawing!TestOrder = s
      /\ \A i \in 1 .. Count : place[s[i]] = i
  BY <1>1, <1>2, WalksAre DEF Ordering
<1>4. /\ Count \in Nat /\ None \notin Targets /\ at \in [Targets -> D]
      /\ \A d \in D : \E i \in 1 .. Count : s[i] = d
      /\ InPlace(s, Count, Tg, at, placement, Near)
  BY <1>1, <1>2 DEF Ruled, Ordering, Chain, Lists
<1>5. \A i \in 1 .. Count : (Count - i) + 1 \in 1 .. Count /\ (Count - ((Count - i) + 1)) + 1 = i
  BY <1>4
<1>6. Len(Drawing!DrawnOrder) = Count /\ DOMAIN Drawing!DrawnOrder = 1 .. Count
  BY <1>3, <1>4
<1>7. Drawing!ToSet(Drawing!DrawnOrder) = D
  <2>1. Drawing!ToSet(Drawing!DrawnOrder) = {s[(Count - i) + 1] : i \in 1 .. Count}
    BY <1>3, <1>6 DEF Drawing!ToSet
  <2>2. \A i \in 1 .. Count : s[(Count - i) + 1] \in D
    BY <1>5
  <2>3. ASSUME NEW d \in D
        PROVE  \E i \in 1 .. Count : s[(Count - i) + 1] = d
    <3>1. PICK j \in 1 .. Count : s[j] = d
      BY <1>4
    <3> QED BY <1>5, <3>1
  <2> QED BY <2>1, <2>2, <2>3
<1>8. Drawing!TestOrder = Drawing!Reverse(Drawing!DrawnOrder)
  <2>1. Drawing!Reverse(Drawing!DrawnOrder)
          = [i \in 1 .. Count |-> Drawing!DrawnOrder[(Count - i) + 1]]
    BY <1>6 DEF Drawing!Reverse
  <2>2. ASSUME NEW i \in 1 .. Count
        PROVE  Drawing!DrawnOrder[(Count - i) + 1] = s[i]
    <3> DEFINE j == (Count - i) + 1
    <3>1. j \in 1 .. Count /\ (Count - j) + 1 = i
      BY <1>5
    <3> HIDE DEF j
    <3>2. Drawing!DrawnOrder[j] = s[(Count - j) + 1]
      BY <1>3, <3>1
    <3>3. Drawing!DrawnOrder[j] = s[i]
      BY <3>1, <3>2
    <3> QED BY <3>3 DEF j
  <2>3. s = [i \in 1 .. Count |-> s[i]]
    OBVIOUS
  <2> QED BY <1>3, <2>1, <2>2, <2>3
<1> HIDE DEF place
<1>9. ASSUME NEW d \in D, NEW e \in D, Drawing!TargetOf(d) = Drawing!TargetOf(e), d < e
      PROVE  place[d] < place[e]
  <2>1. PICK i \in 1 .. Count : s[i] = d
    BY <1>4
  <2>2. PICK j \in 1 .. Count : s[j] = e
    BY <1>4
  <2>3. Tg[s[i]] = Tg[s[j]] /\ s[i] < s[j]
    BY <1>9, <2>1, <2>2 DEF Tg
  <2>4. i < j
    BY <1>4, <2>3 DEF InPlace, SameOrder
  <2> QED BY <1>3, <2>1, <2>2, <2>4
<1>10. ASSUME NEW t \in Targets, NEW d \in Drawing!Group(t)
       PROVE  /\ place[d] < place[at[t]] <=> placement[t] = "before"
              /\ \A e \in D : \/ place[d] < place[e] /\ place[e] < place[at[t]]
                              \/ place[at[t]] < place[e] /\ place[e] < place[d]
                   => e \in Near[t]
  <2>1. d \in D /\ Drawing!TargetOf(d) = t /\ at[t] \in D
    BY <1>1, <1>4, TargetOfType
  <2>2. PICK i \in 1 .. Count : s[i] = d
    BY <1>4, <2>1
  <2>3. PICK j \in 1 .. Count : s[j] = at[t]
    BY <1>4, <2>1
  <2>4. Tg[s[i]] = t /\ t # None
    BY <1>4, <2>1, <2>2 DEF Tg
  <2>5. place[d] = i /\ place[at[t]] = j
    BY <1>3, <2>2, <2>3
  <2>6. i < j <=> placement[t] = "before"
    BY <1>4, <2>3, <2>4 DEF InPlace, OnSide
  <2>7. ASSUME NEW e \in D, \/ place[d] < place[e] /\ place[e] < place[at[t]]
                            \/ place[at[t]] < place[e] /\ place[e] < place[d]
        PROVE  e \in Near[t]
    <3>1. PICK k \in 1 .. Count : s[k] = e
      BY <1>4
    <3>2. \/ i < k /\ k < j
          \/ j < k /\ k < i
      BY <1>3, <2>5, <2>7, <3>1
    <3>3. s[k] \in Near[Tg[s[i]]]
      BY <1>4, <2>3, <2>4, <3>2 DEF InPlace, Beside
    <3> QED BY <2>4, <3>1, <3>3
  <2> QED BY <2>5, <2>6, <2>7
<1>11. \A t \in Targets : Near[t] = UNION {Drawing!CarriedBy(x) : x \in Drawing!Group(t) \cup {at[t]}}
  BY DEF Near
<1>12. ASSUME NEW t \in Targets, NEW d \in Drawing!Group(t)
       PROVE  {e \in D : \/ place[d] < place[e] /\ place[e] < place[at[t]]
                         \/ place[at[t]] < place[e] /\ place[e] < place[d]}
              \subseteq UNION {Drawing!CarriedBy(x) : x \in Drawing!Group(t) \cup {at[t]}}
  <2> DEFINE U == UNION {Drawing!CarriedBy(x) : x \in Drawing!Group(t) \cup {at[t]}}
  <2>1. Near[t] = U
    BY <1>11
  <2> HIDE DEF U
  <2>2. {e \in D : \/ place[d] < place[e] /\ place[e] < place[at[t]]
                   \/ place[at[t]] < place[e] /\ place[e] < place[d]} \subseteq U
    BY <1>10, <2>1
  <2> QED BY <2>2 DEF U
<1>13. \A t \in Targets : \A d \in Drawing!Group(t) :
         /\ place[d] < place[at[t]] <=> placement[t] = "before"
         /\ {e \in D : \/ place[d] < place[e] /\ place[e] < place[at[t]]
                       \/ place[at[t]] < place[e] /\ place[e] < place[d]}
            \subseteq UNION {Drawing!CarriedBy(x) : x \in Drawing!Group(t) \cup {at[t]}}
  BY <1>10, <1>12
<1> QED BY <1>6, <1>7, <1>8, <1>9, <1>13, Zenon DEF place, Drawing!GroupsInPlace

-----------------------------------------------------------------------------
(* What initialize gives it.                                               *)

(* The targets of a file are a sequence of all of them.                    *)
LEMMA FileIs ==
  ASSUME NEW f \in Files
  PROVE  /\ f.rules \in [Drawing!Drawable -> Rules \cup {None}]
         /\ f.parent \in [Targets -> Rules]
         /\ f.drawable \in [Targets -> Drawing!Drawable]
         /\ f.targets \in Seq(Targets)
         /\ \A t \in Targets : \E k \in 1 .. Len(f.targets) : f.targets[k] = t
<1>1. f \in Drawing!FileRecord /\ IsFiniteSet(Targets)
  BY DrawTargetOrderAssumption DEF Drawing!DrawOrderAssumption, Drawing!IsFiniteSet, IsFiniteSet
<1>2. /\ f.rules \in [Drawing!Drawable -> Rules \cup {None}]
      /\ f.parent \in [Targets -> Rules]
      /\ f.drawable \in [Targets -> Drawing!Drawable]
      /\ f.targets \in Drawing!SetToSeqs(Targets)
  BY <1>1 DEF Drawing!FileRecord
<1> DEFINE n == Cardinality(Targets)
           ts == f.targets
<1>3. n \in Nat
  BY <1>1, FS_CardinalityType
<1>4. ts \in [1 .. n -> Targets] /\ \A i, j \in 1 .. n : i # j => ts[i] # ts[j]
  <2>1. Drawing!Cardinality(Targets) = n
    BY DEF Drawing!Cardinality, Cardinality
  <2> HIDE DEF n
  <2>2. ts \in {g \in [1 .. n -> Targets] : \A i, j \in 1 .. n : i # j => g[i] # g[j]}
    BY <1>2, <2>1 DEF Drawing!SetToSeqs
  <2> QED BY <2>2
<1> HIDE DEF n, ts
<1>5. ts \in Seq(Targets) /\ Len(ts) = n
  BY <1>3, <1>4
<1>6. ts \in Surjection(1 .. n, Targets)
  <2>1. ts \in Injection(1 .. n, Targets)
    BY <1>4 DEF Injection, IsInjective
  <2>2. Cardinality(1 .. n) = n
    <3>1. Cardinality(1 .. n) = IF 1 > n THEN 0 ELSE n - 1 + 1
      BY <1>3, FS_Interval
    <3> QED BY <1>3, <3>1
  <2> QED BY <1>1, <2>1, <2>2, FS_Injection DEF n
<1>7. \A t \in Targets : \E k \in 1 .. n : ts[k] = t
  BY <1>6 DEF Surjection
<1> QED BY <1>2, <1>5, <1>7 DEF ts

(* All that comes after c is a dependent of c.                             *)
LEMMA DependentsAre ==
  ASSUME NEW f, f.targets \in Seq(Targets), NEW c,
         NEW k \in 1 .. Len(f.targets), ComesAfter(f, f.targets[k], c)
  PROVE  \E m \in DOMAIN DependentsOf(f, c) : DependentsOf(f, c)[m] = f.targets[k]
<1> DEFINE N == Len(f.targets)
           V == Seq(Targets)
           Go(w, j) == IF ComesAfter(f, f.targets[j], c) THEN Append(w, f.targets[j]) ELSE w
           Step == [q \in V \X (1 .. N) |-> Go(q[1], q[2])]
           Is(g) == g = [j \in 0 .. N |-> IF j = 0 THEN <<>>
                                          ELSE IF ComesAfter(f, f.targets[j], c)
                                          THEN Append(g[j - 1], f.targets[j]) ELSE g[j - 1]]
           G == CHOOSE g : Is(g)
<1>1. DependentsOf(f, c) = G[N]
  BY DEF DependentsOf
<1>2. N \in Nat /\ \A j \in 1 .. N : f.targets[j] \in Targets
  OBVIOUS
<1>3. \A w \in V, j \in 1 .. N : Go(w, j) \in V
  BY <1>2
<1>4. <<>> \in V
  OBVIOUS
<1>5. \A g : Is(g) <=> g = [j \in 0 .. N |-> IF j = 0 THEN <<>> ELSE Go(g[j - 1], j)]
  OBVIOUS
<1> HIDE DEF Is, G, V, N
<1>6. Step \in StepsOf(V, N)
  BY <1>3 DEF StepsOf
<1> HIDE DEF Step, Go
<1>7. PICK h : CountsUp(h, N, V, <<>>, Step)
  BY <1>2, <1>4, <1>6, CountingDefines
<1>8. /\ h \in [0 .. N -> V] /\ h[0] = <<>>
      /\ \A j \in 1 .. N : h[j] = Step[<<h[j - 1], j>>]
  BY <1>7 DEF CountsUp
<1>9. ASSUME NEW j \in 1 .. N
      PROVE  h[j] = Go(h[j - 1], j)
  <2>1. j - 1 \in 0 .. N
    BY <1>2
  <2>2. h[j - 1] \in V
    BY <1>8, <2>1
  <2>3. Step[<<h[j - 1], j>>] = Go(h[j - 1], j)
    BY <2>2 DEF Step
  <2> QED BY <1>8, <2>3
<1>10. Is(h)
  <2>1. h = [j \in 0 .. N |-> h[j]]
    BY <1>8
  <2>2. \A j \in 0 .. N : h[j] = IF j = 0 THEN <<>> ELSE Go(h[j - 1], j)
    <3> TAKE j \in 0 .. N
    <3>1. j = 0 \/ j \in 1 .. N
      BY <1>2
    <3> QED BY <1>8, <1>9, <3>1
  <2>3. h = [j \in 0 .. N |-> IF j = 0 THEN <<>> ELSE Go(h[j - 1], j)]
    BY <2>1, <2>2
  <2> QED BY <1>5, <2>3
<1>11. Is(G)
  BY <1>10 DEF G
<1>12. G = [j \in 0 .. N |-> IF j = 0 THEN <<>> ELSE Go(G[j - 1], j)]
  BY <1>5, <1>11
<1>13. G[0] = <<>> /\ \A j \in 1 .. N : G[j] = Go(G[j - 1], j)
  <2>1. 0 \in 0 .. N /\ \A j \in 1 .. N : j \in 0 .. N /\ j # 0
    BY <1>2
  <2> QED BY <1>12, <2>1
<1> DEFINE Has(w, j) == /\ w \in Seq(Targets)
                        /\ k <= j => \E m \in DOMAIN w : w[m] = f.targets[k]
           M == {j \in 0 .. N : Has(G[j], j)}
<1>14. 0 \in M
  <2>1. 0 \in 0 .. N /\ ~(k <= 0)
    BY <1>2
  <2> QED BY <1>4, <1>13, <2>1 DEF V
<1>15. ASSUME NEW j \in 0 .. N - 1, j \in M
       PROVE  j + 1 \in M
  <2> DEFINE w == G[j]
             x == f.targets[j + 1]
  <2>1. j + 1 \in 1 .. N /\ j + 1 \in 0 .. N /\ (j + 1) - 1 = j
    BY <1>2
  <2>2. G[j + 1] = Go(w, j + 1)
    BY <1>13, <2>1
  <2>3. x \in Targets
    BY <1>2, <2>1
  <2>4. w \in Seq(Targets) /\ (k <= j => \E m \in DOMAIN w : w[m] = f.targets[k])
    BY <1>15
  <2>5. G[j + 1] = IF ComesAfter(f, x, c) THEN Append(w, x) ELSE w
    BY <2>2 DEF Go
  <2>6. k <= j + 1 => k <= j \/ k = j + 1
    BY <2>1
  <2> HIDE DEF w
  <2>7. k = j + 1 => x = f.targets[k] /\ ComesAfter(f, x, c)
    OBVIOUS
  <2> HIDE DEF x
  <2>8. /\ Append(w, x) \in Seq(Targets)
        /\ \A m \in DOMAIN w : m \in DOMAIN Append(w, x) /\ Append(w, x)[m] = w[m]
        /\ Len(w) + 1 \in DOMAIN Append(w, x) /\ Append(w, x)[Len(w) + 1] = x
    BY <2>3, <2>4
  <2>9. Has(G[j + 1], j + 1)
    <3>1. CASE ComesAfter(f, x, c)
      <4>1. G[j + 1] = Append(w, x)
        BY <2>5, <3>1
      <4>2. k <= j + 1 => \E m \in DOMAIN Append(w, x) : Append(w, x)[m] = f.targets[k]
        BY <2>4, <2>6, <2>7, <2>8
      <4> QED BY <2>8, <4>1, <4>2
    <3>2. CASE ~ComesAfter(f, x, c)
      <4>1. G[j + 1] = w
        BY <2>5, <3>2
      <4> QED BY <2>4, <2>6, <2>7, <3>2, <4>1
    <3> QED BY <3>1, <3>2
  <2> HIDE DEF Has
  <2> QED BY <2>1, <2>9
<1>16. N \in M
  <2>1. N \in 0 .. N
    BY <1>2
  <2> HIDE DEF M
  <2>2. 0 .. N \subseteq M
    BY <1>2, <1>14, <1>15, BoundedInduction
  <2> QED BY <2>1, <2>2
<1>17. k <= N
  BY <1>2 DEF N
<1> QED BY <1>1, <1>16, <1>17

(* What the artboard's steps keep: who owns the active targets, that the   *)
(* targets are what was sorted, and when the list is.                      *)
ActiveAreOwn ==
  /\ file \in Files
  /\ active \in [Rules -> Targets \cup {None}]
  /\ \A r \in Rules : active[r] \in Drawing!Own(r) \cup {None}

TargetsAreSorted ==
  turn # "initialize" => Done /\ order # <<>> /\ drawTargets = Tail(order)

(* The root is the first that is sorted, and all the targets follow it.    *)
LEMMA RootIsFirst ==
  ASSUME Inv, SortIsComplete, Done, ~failed, GraphIsOfFile, file \in Files
  PROVE  /\ order # <<>> /\ order[1] = Root
         /\ \A t \in Targets : \E i \in 2 .. Len(order) : order[i] = t
<1>1. order \in Seq(Components) /\ DOMAIN order = 1 .. Len(order) /\ Len(order) \in Nat
  BY DEF Inv, TypeOK
<1>2. /\ Roots = <<Root>> /\ Root \in Components /\ Components = Targets \cup {Root}
      /\ Root \notin Targets
  BY DrawTargetOrderAssumption
<1>3. Root \in Above
  BY <1>2 DEF Above
<1>4. Root \in perm
  BY <1>3 DEF SortIsComplete
<1>5. PICK r \in DOMAIN order : order[r] = Root
  BY <1>4 DEF Inv, OrderIsPerm
<1>6. ASSUME NEW t \in Targets
      PROVE  \E i \in DOMAIN order : r < i /\ order[i] = t
  <2>1. file.targets \in Seq(Targets) /\ \E k \in 1 .. Len(file.targets) : file.targets[k] = t
    BY FileIs
  <2>2. PICK k \in 1 .. Len(file.targets) : file.targets[k] = t
    BY <2>1
  <2>3. ComesAfter(file, file.targets[k], Root)
    BY DEF ComesAfter
  <2>4. \E m \in DOMAIN DependentsOf(file, Root) : DependentsOf(file, Root)[m] = t
    BY <2>1, <2>2, <2>3, DependentsAre
  <2>5. graph[Root] = DependentsOf(file, Root)
    BY <1>2 DEF GraphIsOfFile, TargetGraph
  <2>6. PICK m \in DOMAIN graph[order[r]] : graph[order[r]][m] = t
    BY <1>5, <2>4, <2>5
  <2> QED BY <2>6 DEF Inv, DependentsFollow
<1>7. r = 1
  <2> SUFFICES ASSUME r # 1
               PROVE  FALSE
    OBVIOUS
  <2>1. 1 \in DOMAIN order /\ 1 < r
    BY <1>1
  <2>2. order[1] # Root
    BY <1>5, <2>1 DEF Inv, NoRepeats
  <2>3. order[1] \in Targets
    BY <1>1, <1>2, <2>1, <2>2
  <2>4. PICK i \in DOMAIN order : r < i /\ order[i] = order[1]
    BY <1>6, <2>3
  <2>5. i = 1
    BY <2>1, <2>4 DEF Inv, NoRepeats
  <2> QED BY <1>1, <2>1, <2>4, <2>5
<1> QED BY <1>1, <1>5, <1>6, <1>7

(* What the sorter leaves is ready to be placed, as no rules' active target *)
(* is placed after one that is placed at what the rules move.              *)
LEMMA SortedMeansReady ==
  ASSUME Inv, SortIsComplete, ActiveAreOwn, TargetsAreSorted, GraphIsOfFile,
         turn # "initialize", ~failed
  PROVE  Ready
<1> DEFINE at == file.drawable
           N == Len(drawTargets)
<1>1. /\ Done /\ drawTargets = Tail(order)
      /\ order # <<>> /\ order[1] = Root
      /\ \A t \in Targets : \E i \in 2 .. Len(order) : order[i] = t
  BY RootIsFirst DEF TargetsAreSorted, ActiveAreOwn
<1>2. /\ Components = Targets \cup {Root} /\ Root \notin Targets
      /\ Count \in Nat /\ None \notin Drawing!Drawable /\ None \notin Targets /\ None \notin Rules
  BY DrawTargetOrderAssumption DEF Drawing!DrawOrderAssumption
<1>3. order \in Seq(Components) /\ DOMAIN order = 1 .. Len(order) /\ Len(order) \in Nat
  BY DEF Inv, TypeOK
<1>4. /\ drawTargets \in Seq(Components) /\ N = Len(order) - 1 /\ N \in Nat
      /\ \A i \in 1 .. N : drawTargets[i] = order[i + 1] /\ i + 1 \in DOMAIN order
      /\ DOMAIN drawTargets = 1 .. N
  BY <1>1, <1>3
<1>5. \A i, j \in DOMAIN order : order[i] = order[j] => i = j
  BY DEF Inv, NoRepeats
<1> HIDE DEF N
<1>6. ASSUME NEW i \in 1 .. N
      PROVE  drawTargets[i] \in Targets
  <2>1. drawTargets[i] = order[i + 1] /\ i + 1 \in DOMAIN order /\ i + 1 # 1 /\ 1 \in DOMAIN order
    BY <1>3, <1>4
  <2>2. order[i + 1] # Root
    BY <1>1, <1>5, <2>1
  <2>3. order[i + 1] \in Components
    BY <1>3, <2>1
  <2> QED BY <1>2, <2>1, <2>2, <2>3
<1>7. drawTargets \in Seq(Targets)
  <2>1. drawTargets = [i \in 1 .. N |-> drawTargets[i]]
    BY <1>4
  <2>2. drawTargets \in [1 .. N -> Targets]
    BY <1>6, <2>1
  <2>3. N \in Nat
    BY <1>4
  <2> QED BY <2>2, <2>3
<1>8. \A i, j \in 1 .. N : drawTargets[i] = drawTargets[j] => i = j
  <2> TAKE i, j \in 1 .. N
  <2>1. drawTargets[i] = drawTargets[j] => i + 1 = j + 1
    BY <1>4, <1>5
  <2> QED BY <2>1
<1>9. ASSUME NEW t \in Targets
      PROVE  \E i \in 1 .. N : drawTargets[i] = t
  <2>1. PICK i \in 2 .. Len(order) : order[i] = t
    BY <1>1
  <2>2. i - 1 \in 1 .. N /\ (i - 1) + 1 = i
    BY <1>3, <1>4
  <2>3. drawTargets[i - 1] = t
    BY <1>4, <2>1, <2>2
  <2> QED BY <2>2, <2>3
<1>10. /\ file.rules \in [Drawing!Drawable -> Rules \cup {None}]
       /\ file.parent \in [Targets -> Rules]
       /\ at \in [Targets -> Drawing!Drawable]
       /\ file.targets \in Seq(Targets)
       /\ \A t \in Targets : \E k \in 1 .. Len(file.targets) : file.targets[k] = t
  BY FileIs DEF ActiveAreOwn
<1>11. ASSUME NEW i \in 1 .. N, NEW j \in 1 .. N,
              Drawing!TargetOf(at[drawTargets[j]]) = drawTargets[i]
       PROVE  i < j
  <2> DEFINE t == drawTargets[j]
             u == drawTargets[i]
             r == file.rules[at[t]]
  <2>1. t \in Targets /\ u \in Targets /\ u # None /\ u \in Components
    BY <1>2, <1>6
  <2>2. r \in Rules /\ active[r] = u
    BY <1>2, <1>10, <1>11, <2>1 DEF Drawing!TargetOf
  <2>3. file.parent[u] = r
    BY <2>1, <2>2 DEF ActiveAreOwn, Drawing!Own
  <2> HIDE DEF t, u
  <2>4. ComesAfter(file, t, u)
    BY <2>3 DEF ComesAfter
  <2>5. PICK k \in 1 .. Len(file.targets) : file.targets[k] = t
    BY <1>10, <2>1
  <2>6. \E m \in DOMAIN DependentsOf(file, u) : DependentsOf(file, u)[m] = t
    <3>1. ComesAfter(file, file.targets[k], u)
      BY <2>4, <2>5
    <3>2. file.targets \in Seq(Targets)
      BY <1>10
    <3>3. \E m \in DOMAIN DependentsOf(file, u) :
            DependentsOf(file, u)[m] = file.targets[k]
      BY ONLY <3>1, <3>2, DependentsAre
    <3> QED BY <2>5, <3>3
  <2>7. graph[u] = DependentsOf(file, u)
    BY <2>1 DEF GraphIsOfFile, TargetGraph
  <2>8. PICK m \in DOMAIN graph[u] : graph[u][m] = t
    BY <2>6, <2>7
  <2>9. order[i + 1] = u /\ order[j + 1] = t /\ i + 1 \in DOMAIN order /\ j + 1 \in DOMAIN order
    BY <1>4 DEF t, u
  <2>10. PICK l \in DOMAIN order : i + 1 < l /\ order[l] = t
    BY <2>8, <2>9 DEF Inv, DependentsFollow
  <2>11. l = j + 1
    BY <1>5, <2>9, <2>10
  <2> QED BY <2>10, <2>11
<1>12. Ruled
  BY <1>2, <1>10 DEF Ruled, ActiveAreOwn
<1> QED BY <1>4, <1>7, <1>8, <1>9, <1>11, <1>12 DEF Ready

-----------------------------------------------------------------------------
(* The steps of the artboard.                                              *)

(* Until a change makes it dirty, the list is what was sorted.             *)
ListIsSorted == dirty \/ (turn # "initialize" /\ list = Drawing!Sorted)

(* All of it.                                                              *)
DrawInv == ActiveAreOwn /\ TargetsAreSorted /\ ListIsSorted

(* A sorter that is done takes no step.                                    *)
LEMMA DoneStays == Done => ~Next
  BY DEF Done, Next, Known, Cycle, Enter, Finish, Calls

(* What sortDrawOrder gives depends on the file, the targets and their     *)
(* placements only.                                                        *)
LEMMA SortedStays ==
  ASSUME UNCHANGED <<file, active, placement, drawTargets>>
  PROVE  Drawing!Sorted' = Drawing!Sorted
  BY DEF Drawing!Sorted, Drawing!Linked, Drawing!Placed, Drawing!Group, Drawing!TargetOf,
         Drawing!Join, Drawing!LastWith, Drawing!GoesBefore

(* An update that the artboard makes, alone or in its advance.             *)
LEMMA UpdateSorts ==
  ASSUME ListIsSorted, turn # "initialize", turn' # "initialize", Drawing!UpdateArtboard,
         UNCHANGED <<file, active, placement, drawTargets>>
  PROVE  ListIsSorted'
<1>1. list' = Drawing!Sorted /\ dirty' = FALSE
  BY DEF Drawing!UpdateArtboard, ListIsSorted
<1>2. Drawing!Sorted' = Drawing!Sorted
  BY SortedStays
<1> QED BY <1>1, <1>2 DEF ListIsSorted

(* An artboard as it is loaded has none of it yet.                         *)
LEMMA DrawInvInit == ArtboardInit => DrawInv
<1> SUFFICES ASSUME ArtboardInit
             PROVE  DrawInv
  OBVIOUS
<1>1. /\ file \in Files /\ dirty = TRUE /\ turn = "initialize"
      /\ active \in [Rules -> Targets \cup {None}]
      /\ \A r \in Rules :
           active[r] \in Drawing!Own(r) \cup (IF r \in file.edits THEN {None} ELSE {})
  BY DEF ArtboardInit, Drawing!Init
<1>2. \A r \in Rules : active[r] \in Drawing!Own(r) \cup {None}
  BY <1>1
<1> QED BY <1>1, <1>2 DEF DrawInv, ActiveAreOwn, TargetsAreSorted, ListIsSorted

(* An edit gives rules a target of theirs, and makes the list dirty.       *)
LEMMA EditKeeps ==
  ASSUME DrawInv, Drawing!Edit
  PROVE  /\ ActiveAreOwn' /\ ListIsSorted'
         /\ UNCHANGED <<file, drawTargets, list, changed, hits, turn>> /\ turn # "initialize"
<1>1. CASE \E r \in file.edits \cap Rules : Drawing!ChangeTarget(r)
  <2>1. PICK r \in Rules : Drawing!ChangeTarget(r)
    BY <1>1
  <2>2. PICK t \in Drawing!Own(r) \cup {None} : active' = [active EXCEPT ![r] = t]
    BY <2>1 DEF Drawing!ChangeTarget
  <2>3. /\ UNCHANGED <<file, drawTargets, list, changed, hits, turn>> /\ dirty' = TRUE
        /\ turn # "initialize"
    BY <2>1 DEF Drawing!ChangeTarget, Drawing!Edit
  <2>4. \A q \in Rules : Drawing!Own(q)' = Drawing!Own(q) /\ Drawing!Own(q) \subseteq Targets
    BY <2>3 DEF Drawing!Own
  <2>5. /\ file \in Files /\ active \in [Rules -> Targets \cup {None}]
        /\ \A q \in Rules : active[q] \in Drawing!Own(q) \cup {None}
    BY DEF DrawInv, ActiveAreOwn
  <2>6. active' \in [Rules -> Targets \cup {None}]
    BY <2>2, <2>4, <2>5
  <2>7. ASSUME NEW q \in Rules
        PROVE  active'[q] \in Drawing!Own(q) \cup {None}
    BY <2>2, <2>5
  <2>8. ActiveAreOwn'
    BY <2>3, <2>4, <2>5, <2>6, <2>7 DEF ActiveAreOwn
  <2> QED BY <2>3, <2>8 DEF ListIsSorted
<1>2. CASE \E t \in file.edits \cap Targets : Drawing!ChangePlacement(t)
  <2>1. /\ UNCHANGED <<file, active, drawTargets, list, changed, hits, turn>> /\ dirty' = TRUE
        /\ turn # "initialize"
    BY <1>2 DEF Drawing!ChangePlacement, Drawing!Edit
  <2>2. ActiveAreOwn'
    BY <2>1 DEF DrawInv, ActiveAreOwn, Drawing!Own
  <2> QED BY <2>1, <2>2 DEF ListIsSorted
<1> QED BY <1>1, <1>2 DEF Drawing!Edit

(* Every step keeps it.                                                    *)
LEMMA DrawInvNext == DrawInv /\ [ArtboardNext]_<<vars, drawVars>> => DrawInv'
<1> SUFFICES ASSUME DrawInv, [ArtboardNext]_<<vars, drawVars>>
             PROVE  DrawInv'
  OBVIOUS
<1>1. ASSUME UNCHANGED <<file, active, placement, drawTargets>>
      PROVE  ActiveAreOwn'
  BY <1>1 DEF DrawInv, ActiveAreOwn, Drawing!Own
<1>2. CASE SortTargets \/ UNCHANGED <<vars, drawVars>>
  <2>1. UNCHANGED drawVars /\ (Next \/ UNCHANGED vars)
    BY <1>2 DEF SortTargets
  <2>2. UNCHANGED <<file, active, placement, drawTargets, list, dirty, turn>>
    BY <2>1 DEF drawVars
  <2>3. TargetsAreSorted'
    <3>1. CASE turn = "initialize"
      BY <2>2, <3>1 DEF TargetsAreSorted
    <3>2. CASE turn # "initialize"
      <4>1. UNCHANGED vars
        BY <2>1, <3>2, DoneStays DEF DrawInv, TargetsAreSorted
      <4> QED BY <2>2, <4>1 DEF DrawInv, TargetsAreSorted, vars, Done
    <3> QED BY <3>1, <3>2
  <2>4. Drawing!Sorted' = Drawing!Sorted
    BY <2>2, SortedStays
  <2> QED BY <1>1, <2>2, <2>3, <2>4 DEF DrawInv, ListIsSorted
<1>3. CASE Initialized
  <2>1. /\ Done /\ UNCHANGED vars /\ order # <<>> /\ drawTargets' = Tail(order)
        /\ turn = "initialize" /\ turn' = "machine"
        /\ UNCHANGED <<file, active, placement, list, dirty>>
    BY <1>3 DEF Initialized, Drawing!TakeTargets
  <2>2. ActiveAreOwn'
    BY <2>1 DEF DrawInv, ActiveAreOwn, Drawing!Own
  <2>3. TargetsAreSorted'
    BY <2>1 DEF TargetsAreSorted, Done, vars
  <2> QED BY <2>1, <2>2, <2>3 DEF DrawInv, ListIsSorted
<1>4. CASE Draws
  <2>1. UNCHANGED vars /\ Drawing!Next
    BY <1>4 DEF Draws
  <2>2. UNCHANGED <<file, drawTargets>> /\ turn # "initialize" /\ turn' # "initialize"
    BY <2>1, DrawsKeep
  <2>3. TargetsAreSorted'
    BY <2>1, <2>2 DEF DrawInv, TargetsAreSorted, Done, vars
  <2>4. ActiveAreOwn' /\ ListIsSorted'
    <3>1. CASE Drawing!Edit
      BY <3>1, EditKeeps
    <3>2. CASE Drawing!UpdateComponents
      <4>1. Drawing!UpdateArtboard /\ UNCHANGED <<active, placement>>
        BY <3>2 DEF Drawing!UpdateComponents
      <4> QED BY <1>1, <2>2, <4>1, UpdateSorts DEF DrawInv
    <3>3. CASE Drawing!AdvanceMachine
      <4>1. UNCHANGED <<file, drawTargets, active, placement, list, dirty>>
        BY <3>3 DEF Drawing!AdvanceMachine
      <4>2. Drawing!Sorted' = Drawing!Sorted
        BY <4>1, SortedStays
      <4> QED BY <1>1, <2>2, <4>1, <4>2 DEF DrawInv, ListIsSorted
    <3>4. CASE Drawing!AdvanceArtboard
      <4>1. Drawing!UpdateArtboard /\ UNCHANGED <<active, placement>>
        BY <3>4 DEF Drawing!AdvanceArtboard
      <4> QED BY <1>1, <2>2, <4>1, UpdateSorts DEF DrawInv
    <3> QED BY <2>1, <3>1, <3>2, <3>3, <3>4 DEF Drawing!Next
  <2> QED BY <2>3, <2>4 DEF DrawInv
<1> QED BY <1>2, <1>3, <1>4 DEF ArtboardNext

(* For all rules, targets and drawables, whatever is edited and however    *)
(* the targets depend on each other: where they form no cycle, the list    *)
(* that is drawn has every drawable once, and every group is where its     *)
(* placement puts it.                                                      *)
THEOREM GroupsArePlaced == ArtboardSpec => []GroupsInPlace
<1>1. Inv /\ SortIsComplete /\ GraphIsOfFile /\ DrawInv => GroupsInPlace
  <2> SUFFICES ASSUME Inv, SortIsComplete, GraphIsOfFile, DrawInv, ~failed
               PROVE  Drawing!GroupsInPlace
    BY DEF GroupsInPlace
  <2>1. CASE dirty
    BY <2>1 DEF Drawing!GroupsInPlace
  <2>2. CASE ~dirty
    <3>1. turn # "initialize" /\ list = Drawing!Sorted
      BY <2>2 DEF DrawInv, ListIsSorted
    <3>2. Ready
      BY <3>1, SortedMeansReady DEF DrawInv
    <3>3. Ordered(list)
      BY <3>1, <3>2, SortedIsOrdered
    <3> QED BY <3>2, <3>3, OrderedInPlace
  <2> QED BY <2>1, <2>2
<1>2. ArtboardSpec => [](Inv /\ SortIsComplete)
  BY SorterSteps, AlwaysInv, SortComplete, PTL
<1>3. ArtboardSpec => []DrawInv
  BY DrawInvInit, DrawInvNext, PTL DEF ArtboardSpec
<1> QED BY <1>1, <1>2, <1>3, TargetsInOrder, PTL

-----------------------------------------------------------------------------
(* sortHitComponents.                                                      *)

(* What sortHitComponents has done when the first k drawables of the order *)
(* were visited: their hits are in front, before place at, in that order.  *)
Visited(v, pl, H, k) ==
  /\ v.seq \in [1 .. H -> Drawing!Drawable] /\ v.at \in 1 .. H + 1
  /\ \A i, j \in 1 .. H : i # j => v.seq[i] # v.seq[j]
  /\ \A i, j \in 1 .. v.at - 1 : i < j => pl[v.seq[i]] < pl[v.seq[j]]
  /\ \A i \in 1 .. v.at - 1 : pl[v.seq[i]] <= k
  /\ \A i \in v.at .. H : k < pl[v.seq[i]]

(* pl is the place of each drawable in the order s.                        *)
PlacesIn(pl, s) ==
  /\ \A i \in 1 .. Count : pl[s[i]] = i
  /\ \A d \in Drawing!Drawable : pl[d] \in 1 .. Count /\ s[pl[d]] = d

(* A drawable without a hit component changes nothing.                     *)
LEMMA NothingFound ==
  ASSUME NEW s \in [1 .. Count -> Drawing!Drawable], NEW pl, PlacesIn(pl, s), Count \in Nat,
         NEW H \in Nat, NEW k \in 0 .. Count - 1, NEW v, Visited(v, pl, H, k),
         \A i \in v.at .. H : v.seq[i] # s[k + 1]
  PROVE  Visited(v, pl, H, k + 1)
<1>1. \A i \in v.at .. H : v.seq[i] \in Drawing!Drawable
  BY DEF Visited
<1>2. \A i \in v.at .. H : pl[v.seq[i]] # k + 1 /\ pl[v.seq[i]] \in Nat
  BY <1>1 DEF PlacesIn
<1>3. \A i \in v.at .. H : k + 1 < pl[v.seq[i]]
  BY <1>2 DEF Visited
<1>4. \A i \in 1 .. v.at - 1 : v.seq[i] \in Drawing!Drawable
  BY DEF Visited
<1>5. \A i \in 1 .. v.at - 1 : pl[v.seq[i]] \in Nat
  BY <1>4 DEF PlacesIn
<1>6. \A i \in 1 .. v.at - 1 : pl[v.seq[i]] <= k + 1
  BY <1>5 DEF Visited
<1> QED BY <1>3, <1>6 DEF Visited

(* The hit component of the next drawable goes behind those in front.      *)
LEMMA HitFound ==
  ASSUME NEW s \in [1 .. Count -> Drawing!Drawable], NEW pl, PlacesIn(pl, s), Count \in Nat,
         NEW H \in Nat, NEW k \in 0 .. Count - 1, NEW v, Visited(v, pl, H, k),
         NEW m \in v.at .. H, v.seq[m] = s[k + 1]
  PROVE  Visited([seq |-> Drawing!SwapTo(v.seq, v.at, m), at |-> v.at + 1], pl, H, k + 1)
<1> DEFINE D == Drawing!Drawable
           q == v.seq
           a == v.at
           z == Drawing!SwapTo(q, a, m)
           w == [seq |-> z, at |-> a + 1]
<1>1. /\ q \in [1 .. H -> D] /\ a \in 1 .. H + 1
      /\ \A i, j \in 1 .. H : i # j => q[i] # q[j]
      /\ \A i, j \in 1 .. a - 1 : i < j => pl[q[i]] < pl[q[j]]
      /\ \A i \in 1 .. a - 1 : pl[q[i]] <= k
      /\ \A i \in a .. H : k < pl[q[i]]
      /\ m \in a .. H /\ q[m] = s[k + 1]
  BY DEF Visited
<1>2. a \in 1 .. H /\ m \in 1 .. H /\ a <= m
  BY <1>1
<1>3. z = [q EXCEPT ![a] = q[m], ![m] = q[a]]
  BY DEF Drawing!SwapTo
<1>4. w.seq = z /\ w.at = a + 1
  OBVIOUS
<1> HIDE DEF q, a, z
<1>5. /\ z \in [1 .. H -> D]
      /\ \A i \in 1 .. H : z[i] = IF i = m THEN q[a] ELSE IF i = a THEN q[m] ELSE q[i]
  BY <1>1, <1>2, <1>3
<1>6. \A i, j \in 1 .. H : i # j => z[i] # z[j]
  BY <1>1, <1>2, <1>5
<1>7. k + 1 \in 1 .. Count /\ pl[s[k + 1]] = k + 1
  BY DEF PlacesIn
<1>8. z[a] = s[k + 1] /\ pl[z[a]] = k + 1
  BY <1>1, <1>2, <1>5, <1>7
<1>9. ASSUME NEW i \in 1 .. a - 1
      PROVE  z[i] = q[i] /\ pl[z[i]] <= k /\ pl[z[i]] \in Nat
  <2>1. i \in 1 .. H /\ i # a /\ i # m
    BY <1>2
  <2>2. z[i] = q[i]
    BY <1>5, <2>1
  <2>3. z[i] \in D
    BY <1>5, <2>1
  <2> QED BY <1>1, <2>2, <2>3 DEF PlacesIn
<1>10. \A i \in 1 .. (a + 1) - 1 : i \in 1 .. a - 1 \/ i = a
  BY <1>2
<1>11. \A i, j \in 1 .. (a + 1) - 1 : i < j => pl[z[i]] < pl[z[j]]
  <2> SUFFICES ASSUME NEW i \in 1 .. (a + 1) - 1, NEW j \in 1 .. (a + 1) - 1, i < j
               PROVE  pl[z[i]] < pl[z[j]]
    OBVIOUS
  <2>1. i \in 1 .. a - 1
    BY <1>2
  <2>2. CASE j = a
    BY <1>8, <1>9, <2>1, <2>2
  <2>3. CASE j # a
    <3>1. j \in 1 .. a - 1
      BY <1>10, <2>3
    <3>2. z[i] = q[i] /\ z[j] = q[j]
      BY <1>9, <2>1, <3>1
    <3> QED BY <1>1, <2>1, <3>1, <3>2
  <2> QED BY <2>2, <2>3
<1>12. \A i \in 1 .. (a + 1) - 1 : pl[z[i]] <= k + 1
  BY <1>8, <1>9, <1>10
<1>13. ASSUME NEW i \in a + 1 .. H
       PROVE  k + 1 < pl[z[i]]
  <2>1. i \in 1 .. H /\ i # a
    BY <1>2
  <2>2. z[i] \in D /\ z[i] # z[a]
    BY <1>2, <1>5, <1>6, <2>1
  <2>3. pl[z[i]] \in Nat /\ s[pl[z[i]]] = z[i]
    BY <2>2 DEF PlacesIn
  <2>4. pl[z[i]] # k + 1
    BY <1>8, <2>2, <2>3
  <2>5. \E j \in a .. H : z[i] = q[j]
    BY <1>2, <1>5, <2>1
  <2>6. k < pl[z[i]]
    BY <1>1, <2>5
  <2> QED BY <2>3, <2>4, <2>6
<1>14. a + 1 \in 1 .. H + 1
  BY <1>2
<1> HIDE DEF w
<1>15. Visited(w, pl, H, k + 1)
  BY <1>4, <1>5, <1>6, <1>11, <1>12, <1>13, <1>14 DEF Visited
<1> QED BY <1>15 DEF w, z, q, a

(* The hit components are different drawables.                             *)
Hits(h, H) ==
  h \in [1 .. H -> Drawing!Drawable] /\ \A i, j \in 1 .. H : i # j => h[i] # h[j]

(* They are in the order of the list.                                      *)
InTestOrder(h) ==
  \A i, j \in DOMAIN h : i < j => Drawing!Places[h[i]] < Drawing!Places[h[j]]

(* After the last drawable all hits are in front.                          *)
LEMMA SortedHitsAre ==
  ASSUME Ruled, list \in Links, NEW s \in [1 .. Count -> Drawing!Drawable],
         Chain(list, s, Count, Drawing!Drawable), NEW H \in Nat, Hits(hits, H)
  PROVE  Hits(Drawing!SortedHits, H) /\ InTestOrder(Drawing!SortedHits)
<1> DEFINE D == Drawing!Drawable
           pl == Drawing!Places
           V == [seq : [1 .. H -> D], at : 1 .. H + 1]
           first == [seq |-> hits, at |-> 1]
           Found(v, k) == {i \in v.at .. H : v.seq[i] = s[k]}
           Go(v, k) == IF Found(v, k) = {} THEN v
                       ELSE [seq |-> Drawing!SwapTo(v.seq, v.at, Drawing!Min(Found(v, k))),
                             at |-> v.at + 1]
           Step == [q \in V \X (1 .. Count) |-> Go(q[1], q[2])]
           Is(f) == f = [k \in 0 .. Count |-> IF k = 0 THEN first ELSE Go(f[k - 1], k)]
           G == CHOOSE f : Is(f)
<1>1. Count \in Nat /\ Count \in 0 .. Count
  BY DEF Ruled
<1>2. Drawing!TestOrder = s /\ \A i \in 1 .. Count : pl[s[i]] = i
  BY WalksAre
<1>3. hits \in [1 .. H -> D] /\ \A i, j \in 1 .. H : i # j => hits[i] # hits[j]
  BY DEF Hits
<1>4. Len(s) = Count /\ Len(hits) = H
  BY <1>1, <1>3
<1>5. Drawing!SortedHits = G[Count].seq
  BY <1>2, <1>4 DEF Drawing!SortedHits
<1>6. \A d \in D : \E i \in 1 .. Count : s[i] = d
  BY DEF Chain, Lists
<1> HIDE DEF pl, G
<1>7. PlacesIn(pl, s)
  BY <1>2, <1>6 DEF PlacesIn
<1>8. ASSUME NEW v \in V, NEW k, Found(v, k) # {}
      PROVE  Drawing!Min(Found(v, k)) \in Found(v, k)
  <2>1. Found(v, k) \in SUBSET (1 .. H)
    OBVIOUS
  <2> HIDE DEF Found
  <2> QED BY <1>8, <2>1, Ends
<1>9. ASSUME NEW v \in V, NEW k
      PROVE  Go(v, k) \in V
  <2>1. CASE Found(v, k) = {}
    BY <2>1
  <2>2. CASE Found(v, k) # {}
    <3> DEFINE m == Drawing!Min(Found(v, k))
    <3>1. m \in v.at .. H
      BY <1>8, <2>2
    <3> HIDE DEF m
    <3>2. v.seq \in [1 .. H -> D] /\ v.at \in 1 .. H /\ m \in 1 .. H
      BY <3>1
    <3>3. Drawing!SwapTo(v.seq, v.at, m) \in [1 .. H -> D]
      BY <3>2 DEF Drawing!SwapTo
    <3>4. v.at + 1 \in 1 .. H + 1
      BY <3>2
    <3>5. [seq |-> Drawing!SwapTo(v.seq, v.at, m), at |-> v.at + 1] \in V
      BY <3>3, <3>4
    <3> HIDE DEF V, Found
    <3> QED BY <2>2, <3>5 DEF m
  <2> QED BY <2>1, <2>2
<1>10. first \in V
  <2>1. 1 \in 1 .. H + 1
    OBVIOUS
  <2> QED BY <1>3, <2>1
<1> HIDE DEF Go, V, first
<1>11. Step \in StepsOf(V, Count)
  BY <1>9 DEF StepsOf
<1> HIDE DEF Step
<1>12. PICK f : CountsUp(f, Count, V, first, Step)
  BY <1>1, <1>10, <1>11, CountingDefines
<1>13. /\ f \in [0 .. Count -> V] /\ f[0] = first
       /\ \A k \in 1 .. Count : f[k] = Step[<<f[k - 1], k>>]
  BY <1>12 DEF CountsUp
<1>14. ASSUME NEW k \in 1 .. Count
       PROVE  f[k] = Go(f[k - 1], k)
  <2>1. k - 1 \in 0 .. Count
    BY <1>1
  <2>2. f[k - 1] \in V
    BY <1>13, <2>1
  <2>3. Step[<<f[k - 1], k>>] = Go(f[k - 1], k)
    BY <2>2 DEF Step
  <2> QED BY <1>13, <2>3
<1>15. Is(f)
  <2>1. f = [k \in 0 .. Count |-> f[k]]
    BY <1>13
  <2>2. \A k \in 0 .. Count : f[k] = IF k = 0 THEN first ELSE Go(f[k - 1], k)
    <3> TAKE k \in 0 .. Count
    <3>1. k = 0 \/ k \in 1 .. Count
      BY <1>1
    <3> QED BY <1>13, <1>14, <3>1
  <2> QED BY <2>1, <2>2
<1>16. Is(G)
  <2> HIDE DEF Is
  <2> QED BY <1>15 DEF G
<1>17. G[0] = first /\ \A k \in 1 .. Count : G[k] = Go(G[k - 1], k)
  <2>1. \A k \in 0 .. Count : G[k] = IF k = 0 THEN first ELSE Go(G[k - 1], k)
    BY <1>16
  <2>2. 0 \in 0 .. Count /\ \A k \in 1 .. Count : k \in 0 .. Count /\ k # 0
    BY <1>1
  <2> HIDE DEF Is
  <2> QED BY <2>1, <2>2
<1> HIDE DEF Is
<1> DEFINE M == {k \in 0 .. Count : G[k] \in V /\ Visited(G[k], pl, H, k)}
<1>18. 0 \in M
  <2>1. first \in V /\ first.seq = hits /\ first.at = 1 /\ 0 \in 0 .. Count /\ 1 .. 1 - 1 = {}
    BY <1>1, <1>10 DEF first
  <2>2. \A i \in 1 .. H : 0 < pl[hits[i]]
    <3>1. \A i \in 1 .. H : pl[hits[i]] \in 1 .. Count
      BY <1>3, <1>7 DEF PlacesIn
    <3> QED BY <1>1, <3>1
  <2>3. 1 \in 1 .. H + 1
    OBVIOUS
  <2>4. Visited(first, pl, H, 0)
    BY <1>3, <2>1, <2>2, <2>3 DEF Visited
  <2> QED BY <1>17, <2>1, <2>4
<1>19. ASSUME NEW k \in 0 .. Count - 1, k \in M
       PROVE  k + 1 \in M
  <2> DEFINE v == G[k]
  <2>1. k + 1 \in 1 .. Count /\ (k + 1) - 1 = k /\ k + 1 \in 0 .. Count
    BY <1>1
  <2>2. v \in V /\ Visited(v, pl, H, k)
    BY <1>19
  <2>3. G[k + 1] = Go(v, k + 1)
    BY <1>17, <2>1
  <2> HIDE DEF v
  <2>4. Visited(Go(v, k + 1), pl, H, k + 1)
    <3>1. CASE Found(v, k + 1) = {}
      <4>1. \A i \in v.at .. H : v.seq[i] # s[k + 1]
        BY <3>1
      <4>2. Visited(v, pl, H, k + 1)
        BY <1>1, <1>7, <2>2, <4>1, NothingFound
      <4> QED BY <3>1, <4>2 DEF Go
    <3>2. CASE Found(v, k + 1) # {}
      <4> DEFINE m == Drawing!Min(Found(v, k + 1))
      <4>1. m \in Found(v, k + 1)
        BY <1>8, <2>2, <3>2
      <4> HIDE DEF m
      <4>2. m \in v.at .. H /\ v.seq[m] = s[k + 1]
        BY <4>1
      <4>3. Visited([seq |-> Drawing!SwapTo(v.seq, v.at, m), at |-> v.at + 1], pl, H, k + 1)
        BY <1>1, <1>7, <2>2, <4>2, HitFound
      <4> HIDE DEF Found
      <4> QED BY <3>2, <4>3 DEF Go, m
    <3> QED BY <3>1, <3>2
  <2>5. Go(v, k + 1) \in V
    BY <1>9, <2>2
  <2> QED BY <2>1, <2>3, <2>4, <2>5
<1>20. Count \in M
  <2> HIDE DEF M
  <2>1. 0 .. Count \subseteq M
    BY <1>1, <1>18, <1>19, BoundedInduction
  <2> QED BY <1>1, <2>1
<1> DEFINE v == G[Count]
<1>21. Visited(v, pl, H, Count)
  BY <1>20
<1> HIDE DEF v
<1>22. v.at = H + 1
  <2> SUFFICES ASSUME v.at # H + 1
               PROVE  FALSE
    OBVIOUS
  <2>1. v.at \in 1 .. H
    BY <1>21 DEF Visited
  <2>2. v.seq[v.at] \in D /\ v.at \in v.at .. H
    BY <1>21, <2>1 DEF Visited
  <2>3. pl[v.seq[v.at]] \in 1 .. Count
    BY <1>7, <2>2 DEF PlacesIn
  <2>4. Count < pl[v.seq[v.at]]
    BY <1>21, <2>2 DEF Visited
  <2> QED BY <1>1, <2>3, <2>4
<1>23. /\ v.seq \in [1 .. H -> D] /\ \A i, j \in 1 .. H : i # j => v.seq[i] # v.seq[j]
       /\ \A i, j \in 1 .. H : i < j => pl[v.seq[i]] < pl[v.seq[j]]
  <2>1. 1 .. v.at - 1 = 1 .. H
    BY <1>22
  <2> QED BY <1>21, <2>1 DEF Visited
<1>24. Drawing!SortedHits = v.seq
  BY <1>5 DEF v
<1> QED BY <1>23, <1>24 DEF Hits, InTestOrder, pl

(* Links of all drawables, in some order.                                  *)
Chained(l) ==
  /\ l \in Links
  /\ \E s \in [1 .. Count -> Drawing!Drawable] : Chain(l, s, Count, Drawing!Drawable)

(* A list that was sorted links all drawables, as long as the targets form *)
(* no cycle.  The hits of the state machine are in order when it has       *)
(* advanced, and from then on until an update changes the order.           *)
HitsInv ==
  /\ turn \in {"initialize", "machine", "artboard"}
  /\ turn = "initialize" => list = Drawing!Unlinked /\ ~changed
  /\ ~failed => /\ \E H \in Nat : Hits(hits, H)
                /\ (list = Drawing!Unlinked /\ ~changed) \/ Chained(list)
                /\ list # Drawing!Unlinked
                   /\ (turn = "artboard" \/ (turn = "machine" /\ ~changed)) => InTestOrder(hits)

(* The places depend on the list only.                                     *)
LEMMA PlacesStay ==
  ASSUME UNCHANGED <<file, list>>
  PROVE  Drawing!Places' = Drawing!Places
  BY DEF Drawing!Places, Drawing!TestOrder, Drawing!DrawnOrder, Drawing!Along

(* Before initialize there is no order to follow.                          *)
LEMMA HitsInvInit == ArtboardInit => HitsInv
<1> SUFFICES ASSUME ArtboardInit
             PROVE  HitsInv
  OBVIOUS
<1>1. /\ turn = "initialize" /\ list = Drawing!Unlinked /\ changed = FALSE /\ file \in Files
      /\ hits \in Drawing!SetToSeqs(file.hittable)
  BY DEF ArtboardInit, Drawing!Init
<1>2. \E H \in Nat : Hits(hits, H)
  <2> DEFINE S == file.hittable
             H == Cardinality(S)
  <2>1. S \in SUBSET Drawing!Drawable /\ Count \in Nat
    BY <1>1, DrawTargetOrderAssumption DEF Drawing!DrawOrderAssumption, Drawing!FileRecord
  <2>2. IsFiniteSet(Drawing!Drawable)
    BY <2>1, FS_Interval DEF Drawing!Drawable
  <2>3. IsFiniteSet(S)
    BY <2>1, <2>2, FS_Subset
  <2>4. H \in Nat
    BY <2>3, FS_CardinalityType
  <2>5. Drawing!Cardinality(S) = H
    BY DEF Drawing!Cardinality, Cardinality
  <2> HIDE DEF H, S
  <2>6. hits \in {g \in [1 .. H -> S] : \A i, j \in 1 .. H : i # j => g[i] # g[j]}
    BY <1>1, <2>5 DEF Drawing!SetToSeqs, S
  <2>7. Hits(hits, H)
    BY <2>1, <2>6 DEF Hits
  <2> QED BY <2>4, <2>7
<1> QED BY <1>1, <1>2 DEF HitsInv

(* The state machine sorts its hits after an update changed the order.     *)
LEMMA MachineSorts ==
  ASSUME HitsInv, Ruled, Drawing!AdvanceMachine, UNCHANGED failed
  PROVE  HitsInv'
<1>1. /\ turn = "machine" /\ turn' = "artboard" /\ UNCHANGED <<file, list, changed>>
      /\ hits' = IF changed THEN Drawing!SortedHits ELSE hits
  BY DEF Drawing!AdvanceMachine
<1>2. Drawing!Places' = Drawing!Places
  BY <1>1, PlacesStay
<1>3. ASSUME ~failed
      PROVE  /\ \E H \in Nat : Hits(hits', H)
             /\ list # Drawing!Unlinked => InTestOrder(hits')
  <2>1. PICK H \in Nat : Hits(hits, H)
    BY <1>3 DEF HitsInv
  <2>2. CASE changed
    <3>1. Chained(list)
      BY <1>3, <2>2 DEF HitsInv
    <3>2. PICK s \in [1 .. Count -> Drawing!Drawable] : Chain(list, s, Count, Drawing!Drawable)
      BY <3>1 DEF Chained
    <3>3. list \in Links
      BY <3>1 DEF Chained
    <3>4. Hits(Drawing!SortedHits, H) /\ InTestOrder(Drawing!SortedHits)
      BY <2>1, <3>2, <3>3, SortedHitsAre
    <3> QED BY <1>1, <2>2, <3>4
  <2>3. CASE ~changed
    <3>1. hits' = hits
      BY <1>1, <2>3
    <3>2. list # Drawing!Unlinked => InTestOrder(hits)
      BY <1>1, <1>3, <2>3 DEF HitsInv
    <3> QED BY <2>1, <3>1, <3>2
  <2> QED BY <2>2, <2>3
<1>4. InTestOrder(hits') => InTestOrder(hits)'
  BY <1>2 DEF InTestOrder
<1>5. Chained(list)' <=> Chained(list)
  BY <1>1
<1>6. Drawing!Unlinked' = Drawing!Unlinked
  BY DEF Drawing!Unlinked
<1>7. \A H : Hits(hits', H) => Hits(hits, H)'
  BY DEF Hits
<1> QED BY <1>1, <1>3, <1>4, <1>5, <1>6, <1>7 DEF HitsInv

(* Where the update changes the order, the hits wait for the machine.      *)
LEMMA UpdateWaits ==
  ASSUME HitsInv, Drawing!UpdateArtboard, UNCHANGED <<file, hits, failed>>,
         turn' = "machine", turn \in {"machine", "artboard"},
         dirty => changed', ~changed' => turn = "artboard" \/ ~changed,
         changed' => dirty \/ changed,
         ~failed => Chained(Drawing!Sorted)
  PROVE  HitsInv'
<1>1. list' = IF dirty THEN Drawing!Sorted ELSE list
  BY DEF Drawing!UpdateArtboard
<1>2. Drawing!Unlinked' = Drawing!Unlinked
  BY DEF Drawing!Unlinked
<1>3. \A H : Hits(hits, H)' <=> Hits(hits, H)
  BY DEF Hits
<1>4. ~failed => (list' = Drawing!Unlinked /\ ~changed') \/ Chained(list')
  BY <1>1 DEF HitsInv
<1>5. Chained(list)' <=> Chained(list')
  OBVIOUS
<1>6. ASSUME ~failed, list' # Drawing!Unlinked, ~changed'
      PROVE  InTestOrder(hits)'
  <2>1. ~dirty /\ list' = list
    BY <1>1, <1>6
  <2>2. InTestOrder(hits)
    BY <1>6, <2>1 DEF HitsInv
  <2>3. Drawing!Places' = Drawing!Places
    BY <2>1, PlacesStay
  <2> QED BY <2>2, <2>3 DEF InTestOrder
<1> QED BY <1>2, <1>3, <1>4, <1>5, <1>6 DEF HitsInv

(* Every step keeps it.                                                    *)
LEMMA HitsInvNext ==
  HitsInv /\ Inv /\ SortIsComplete /\ GraphIsOfFile /\ DrawInv /\ [ArtboardNext]_<<vars, drawVars>>
    => HitsInv'
<1> SUFFICES ASSUME HitsInv, Inv, SortIsComplete, GraphIsOfFile, DrawInv,
                    [ArtboardNext]_<<vars, drawVars>>
             PROVE  HitsInv'
  OBVIOUS
<1>1. ASSUME UNCHANGED <<file, list, hits, failed, changed, turn>>
      PROVE  HitsInv'
  <2>1. Drawing!Places' = Drawing!Places
    BY <1>1, PlacesStay
  <2>2. InTestOrder(hits)' <=> InTestOrder(hits)
    BY <1>1, <2>1 DEF InTestOrder
  <2>3. (Chained(list)' <=> Chained(list)) /\ \A H : Hits(hits, H)' <=> Hits(hits, H)
    BY <1>1 DEF Hits
  <2>4. Drawing!Unlinked' = Drawing!Unlinked
    BY DEF Drawing!Unlinked
  <2> QED BY <1>1, <2>2, <2>3, <2>4 DEF HitsInv
<1>2. CASE SortTargets
  <2>1. UNCHANGED drawVars /\ Next
    BY <1>2 DEF SortTargets
  <2>2. UNCHANGED <<file, list, hits, changed, turn>>
    BY <2>1 DEF drawVars
  <2>3. turn = "initialize"
    BY <2>1, DoneStays DEF DrawInv, TargetsAreSorted
  <2>4. ~failed' => ~failed
    BY <2>1 DEF Next, Known, Cycle, Enter, Finish
  <2>5. (Chained(list)' <=> Chained(list)) /\ \A H : Hits(hits, H)' <=> Hits(hits, H)
    BY <2>2 DEF Hits
  <2>6. Drawing!Unlinked' = Drawing!Unlinked
    BY DEF Drawing!Unlinked
  <2> QED BY <2>2, <2>3, <2>4, <2>5, <2>6 DEF HitsInv
<1>3. CASE Initialized
  <2>1. /\ turn = "initialize" /\ turn' = "machine"
        /\ UNCHANGED <<file, list, hits, changed, failed>>
    BY <1>3 DEF Initialized, Drawing!TakeTargets, vars
  <2>2. (Chained(list)' <=> Chained(list)) /\ \A H : Hits(hits, H)' <=> Hits(hits, H)
    BY <2>1 DEF Hits
  <2>3. Drawing!Unlinked' = Drawing!Unlinked
    BY DEF Drawing!Unlinked
  <2> QED BY <2>1, <2>2, <2>3 DEF HitsInv
<1>4. CASE Draws
  <2>1. UNCHANGED vars /\ Drawing!Next
    BY <1>4 DEF Draws
  <2>2. UNCHANGED file /\ turn # "initialize"
    BY <2>1, DrawsKeep
  <2>3. UNCHANGED failed
    BY <2>1 DEF vars
  <2>4. ~failed => Ready
    BY <2>2, SortedMeansReady DEF DrawInv
  <2>5. ~failed => Chained(Drawing!Sorted)
    <3> SUFFICES ASSUME ~failed
                 PROVE  Chained(Drawing!Sorted)
      OBVIOUS
    <3>1. Ordered(Drawing!Sorted)
      BY <2>4, SortedIsOrdered
    <3> DEFINE l == Drawing!Sorted
    <3> HIDE DEF l
    <3>2. Ordered(l) => Chained(l)
      BY DEF Ordered, Ordering, Chained
    <3> QED BY <3>1, <3>2 DEF l
  <2>6. Ruled
    <3>1. /\ Count \in Nat /\ None \notin Drawing!Drawable /\ None \notin Targets
      BY DrawTargetOrderAssumption DEF Drawing!DrawOrderAssumption
    <3>2. /\ file.rules \in [Drawing!Drawable -> Rules \cup {None}]
          /\ file.drawable \in [Targets -> Drawing!Drawable]
      BY FileIs DEF DrawInv, ActiveAreOwn
    <3> QED BY <3>1, <3>2 DEF Ruled, DrawInv, ActiveAreOwn
  <2>7. CASE Drawing!Edit
    BY <1>1, <2>3, <2>7, EditKeeps
  <2>8. CASE Drawing!UpdateComponents
    <3>1. /\ turn = "machine" /\ turn' = "machine" /\ Drawing!UpdateArtboard
          /\ UNCHANGED hits /\ changed' = (changed \/ dirty)
      BY <2>8 DEF Drawing!UpdateComponents
    <3> QED BY <2>2, <2>3, <2>5, <3>1, UpdateWaits
  <2>9. CASE Drawing!AdvanceMachine
    BY <2>3, <2>6, <2>9, MachineSorts
  <2>10. CASE Drawing!AdvanceArtboard
    <3>1. /\ turn = "artboard" /\ turn' = "machine" /\ Drawing!UpdateArtboard
          /\ UNCHANGED hits /\ changed' = dirty
      BY <2>10 DEF Drawing!AdvanceArtboard, Drawing!ChangedByUpdate
    <3> QED BY <2>2, <2>3, <2>5, <3>1, UpdateWaits
  <2> QED BY <2>1, <2>7, <2>8, <2>9, <2>10 DEF Drawing!Next
<1>5. CASE UNCHANGED <<vars, drawVars>>
  BY <1>1, <1>5 DEF vars, drawVars
<1> QED BY <1>2, <1>3, <1>4, <1>5 DEF ArtboardNext

(* For all rules, targets, drawables and hit shapes: what a pointer is on  *)
(* top of when the state machine has advanced is tested in the order of    *)
(* the list, however updates, edits and advances alternate.                *)
THEOREM HitsAreInOrder == ArtboardSpec => []HitsFollowList
<1>1. HitsInv => HitsFollowList
  BY DEF HitsInv, HitsFollowList, Drawing!HitsFollowList, InTestOrder
<1>2. ArtboardSpec => [](Inv /\ SortIsComplete)
  BY SorterSteps, AlwaysInv, SortComplete, PTL
<1>3. ArtboardSpec => []DrawInv
  BY DrawInvInit, DrawInvNext, PTL DEF ArtboardSpec
<1> QED BY <1>1, <1>2, <1>3, HitsInvInit, HitsInvNext, TargetsInOrder, PTL DEF ArtboardSpec
=============================================================================
