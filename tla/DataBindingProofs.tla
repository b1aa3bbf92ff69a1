------------------------- MODULE DataBindingProofs -------------------------
(***************************************************************************)
(* For any binds, converters, view models and contexts: what a clean bind  *)
(* has written is what its source holds, and a clean bind of a list shows  *)
(* the list, with the instances it had for the items that stayed on it.    *)
(***************************************************************************)
EXTENDS DataBinding, Induction, SequenceTheorems, TLAPS

(* Sources and dependents agree, and only a bind that has a source and     *)
(* writes its target was the last to write a property.                     *)
ShapeInv ==
  /\ DOMAIN source = Instances /\ \A i \in Instances : DOMAIN source[i] = Paths
  /\ DOMAIN target = Properties /\ DOMAIN writer = Properties
  /\ from \in [Binds -> Instances \cup {None}]
  /\ dependents \in [Instances -> SUBSET Binds]
  /\ all \in Seq(Binds) /\ queue \in Seq(Binds)
  /\ queue # <<>> => at \in 1 .. Len(queue)

DependInv == \A b \in Binds : from[b] # None => b \in dependents[from[b]]

WriterInv ==
  \A b \in Binds \ Lists :
    writer[Target[b]] = b => from[b] # None /\ WritesTarget(b)

IInv == ShapeInv /\ DependInv /\ WriterInv /\ Delivered

-----------------------------------------------------------------------------
LEMMA BindsInOrder == ArtboardBinds \in Seq(Binds) /\ MachineBinds \in Seq(Binds)
BY BindingAssumption DEF ArtboardBinds

LEMMA FoundIsInstance ==
  ASSUME NEW i \in Instances, NEW b
  PROVE  /\ Found(i, b) \in Instances \cup {None}
         /\ FoundNested(i, b) \in Instances \cup {None}
BY BindingAssumption DEF Found, FoundFrom, FoundNested

LEMMA InitIInv == Init => IInv
<1> SUFFICES ASSUME Init PROVE IInv
  OBVIOUS
<1> USE BindingAssumption DEF Init
<1>1. ShapeInv
  BY DEF ShapeInv
<1>2. DependInv
  BY DEF DependInv
<1>3. \A b \in Binds \ Lists : Target[b] \in Properties /\ writer[Target[b]] # b
  BY DEF Properties
<1>4. WriterInv /\ Delivered
  BY <1>3 DEF WriterInv, Delivered
<1> QED BY <1>1, <1>2, <1>4 DEF IInv

LEMMA NothingChanges ==
  ASSUME IInv, queue' \in Seq(Binds), queue' # <<>> => at' \in 1 .. Len(queue'),
         UNCHANGED <<source, target, from, dependents, dirty, all, unread, writer>>
  PROVE  IInv'
<1>1. ShapeInv'
  BY DEF IInv, ShapeInv
<1>2. DependInv' /\ WriterInv'
  BY DEF IInv, DependInv, WriterInv
<1>3. Delivered'
  BY DEF IInv, Delivered
<1> QED BY <1>1, <1>2, <1>3 DEF IInv

(* Changing one value tells every bind that reads it.                      *)
LEMMA ValueChanges ==
  ASSUME IInv, NEW i \in Instances, NEW p, NEW v,
         source' = [source EXCEPT ![i][p] = v],
         dirty' = dirty \cup Notified(i, p),
         unread' = unread \ Notified(i, p),
         UNCHANGED <<target, from, dependents, all, queue, at, writer>>
  PROVE  IInv'
<1> USE BindingAssumption
<1>1. ShapeInv'
  BY DEF IInv, ShapeInv
<1>2. DependInv' /\ WriterInv'
  BY DEF IInv, DependInv, WriterInv
<1>3. ASSUME NEW b \in Binds \ Lists,
             writer[Target[b]] = b, b \notin dirty', b \notin unread'
      PROVE  from[b] # None /\ target[Target[b]] = ForTarget(b, source'[from[b]][Path[b]])
  <2>1. from[b] \in Instances /\ b \in dependents[from[b]]
    BY <1>3 DEF IInv, WriterInv, ShapeInv, DependInv
  <2>2. ~(from[b] = i /\ Path[b] = p)
    BY <1>3, <2>1 DEF Notified
  <2>3. source'[from[b]][Path[b]] = source[from[b]][Path[b]]
    BY <2>1, <2>2 DEF IInv, ShapeInv
  <2>4. b \notin dirty /\ b \notin unread
    BY <1>3, <2>2 DEF Notified
  <2> QED BY <1>3, <2>3, <2>4 DEF IInv, Delivered
<1>4. Delivered'
  BY <1>3 DEF Delivered
<1> QED BY <1>1, <1>2, <1>4 DEF IInv

(* Another context: what a clean bind newly reads is unread.               *)
LEMMA ContextChanges ==
  ASSUME IInv, NEW S \in SUBSET Binds, NEW find \in [Binds -> Instances \cup {None}],
         BindAll(S, find), all' \in Seq(Binds),
         UNCHANGED <<source, target, dirty, queue, at, writer>>
  PROVE  IInv'
<1> USE BindingAssumption
<1> DEFINE found == {b \in S : find[b] # None}
<1>1. /\ from' = [b \in Binds |-> IF b \in found THEN find[b] ELSE from[b]]
      /\ dependents' = [i \in Instances |-> dependents[i] \cup {b \in found : find[b] = i}]
      /\ unread' = unread \cup {b \in found \ (dirty \cup Lists) : find[b] # from[b]}
  BY DEF BindAll
<1>2. ShapeInv'
  BY <1>1 DEF IInv, ShapeInv
<1>3. DependInv'
  BY <1>1 DEF IInv, DependInv, ShapeInv
<1>4. WriterInv'
  BY <1>1 DEF IInv, WriterInv, WritesTarget
<1>5. ASSUME NEW b \in Binds \ Lists,
             writer[Target[b]] = b, b \notin dirty, b \notin unread'
      PROVE  from'[b] # None /\ target[Target[b]] = ForTarget(b, source[from'[b]][Path[b]])
  <2>1. from'[b] = from[b] /\ b \notin unread
    BY <1>1, <1>5
  <2> QED BY <1>5, <2>1 DEF IInv, Delivered
<1>6. Delivered'
  BY <1>5 DEF Delivered
<1> QED BY <1>2, <1>3, <1>4, <1>6 DEF IInv

(* A bind's turn leaves it clean, and every other that reads what it wrote *)
(* to the source dirty.                                                    *)
LEMMA ValueTurn == IInv /\ BindValue => IInv'
<1> SUFFICES ASSUME IInv, BindValue PROVE IInv'
  OBVIOUS
<1> USE BindingAssumption
<1> DEFINE b == Current
           i == from[b]
           v == Settled(b, i, (b \in Range(ArtboardBinds)) /\ WritesSource(b))
           told == IF v # source[i][Path[b]] THEN Notified(i, Path[b]) ELSE {}
           applies == b \in dirty \cup told /\ WritesTarget(b)
<1>1. b \in Binds \ Lists /\ i \in Instances /\ Target[b] \in Properties /\ Path[b] \in Paths
      /\ b \in dependents[i]
  BY DEF BindValue, IInv, ShapeInv, DependInv, Current, Properties, Paths
<1>2. /\ source' = [source EXCEPT ![i][Path[b]] = v]
      /\ dirty' = (dirty \cup told) \ {b}
      /\ unread' = unread \ told
      /\ target' = IF applies THEN [target EXCEPT ![Target[b]] = ForTarget(b, v)] ELSE target
      /\ writer' = IF applies THEN [writer EXCEPT ![Target[b]] = b] ELSE writer
      /\ UNCHANGED <<from, dependents, all>>
  BY DEF BindValue, UpdateValue
<1>3. queue' \in Seq(Binds) /\ (queue' # <<>> => at' \in 1 .. Len(queue'))
  BY DEF BindValue, Onward, IInv, ShapeInv
<1> HIDE DEF b, i, v, told, applies
<1>4. ShapeInv'
  BY <1>1, <1>2, <1>3 DEF IInv, ShapeInv
<1>5. DependInv'
  BY <1>2 DEF IInv, DependInv
<1>6. source'[i][Path[b]] = v
  BY <1>1, <1>2 DEF IInv, ShapeInv
<1>7. ASSUME NEW d \in Binds \ Lists, writer'[Target[d]] = d
      PROVE  \/ d = b /\ applies
             \/ writer[Target[d]] = d /\ (~applies \/ Target[d] # Target[b])
  BY <1>1, <1>2, <1>7 DEF IInv, ShapeInv, Properties
<1>8. WriterInv'
  <2>1. applies => WritesTarget(b)
    BY DEF applies
  <2>2. from[b] # None
    BY <1>1 DEF i
  <2>3. \A d \in Binds \ Lists : writer'[Target[d]] = d => from[d] # None /\ WritesTarget(d)
    BY <1>7, <2>1, <2>2 DEF IInv, WriterInv
  <2> QED BY <1>2, <2>3 DEF WriterInv, WritesTarget
<1>9. ASSUME NEW d \in Binds \ Lists,
             writer'[Target[d]] = d, d \notin dirty', d \notin unread'
      PROVE  from[d] # None /\ target'[Target[d]] = ForTarget(d, source'[from[d]][Path[d]])
  <2>1. CASE d = b /\ applies
    <3>1. target'[Target[b]] = ForTarget(b, v)
      BY <1>1, <1>2, <2>1 DEF IInv, ShapeInv
    <3>2. from[b] = i
      BY DEF i
    <3> QED BY <1>1, <1>6, <2>1, <3>1, <3>2
  <2>2. CASE writer[Target[d]] = d /\ (~applies \/ Target[d] # Target[b])
    <3>1. target'[Target[d]] = target[Target[d]]
      BY <1>1, <1>2, <2>2 DEF IInv, ShapeInv
    <3>2. from[d] \in Instances /\ d \in dependents[from[d]] /\ WritesTarget(d)
      BY <2>2 DEF IInv, WriterInv, DependInv, ShapeInv
    <3>3. d \notin told
      <4>1. CASE d = b
        BY <2>2, <3>2, <4>1 DEF applies
      <4>2. CASE d # b
        BY <1>2, <1>9, <4>2
      <4> QED BY <4>1, <4>2
    <3>4. d \notin dirty /\ d \notin unread
      <4>1. d \notin unread
        BY <1>2, <1>9, <3>3
      <4>2. CASE d = b
        BY <2>2, <3>2, <4>1, <4>2 DEF applies
      <4>3. CASE d # b
        BY <1>2, <1>9, <4>1, <4>3
      <4> QED BY <4>1, <4>2, <4>3
    <3>5. source'[from[d]][Path[d]] = source[from[d]][Path[d]]
      <4>1. CASE from[d] = i /\ Path[d] = Path[b]
        <5>1. d \in Notified(i, Path[b])
          BY <3>2, <4>1 DEF Notified
        <5>2. v = source[i][Path[b]]
          BY <3>3, <5>1 DEF told
        <5> QED BY <1>6, <4>1, <5>2
      <4>2. CASE ~(from[d] = i /\ Path[d] = Path[b])
        BY <1>1, <1>2, <3>2, <4>2 DEF IInv, ShapeInv
      <4> QED BY <4>1, <4>2
    <3> QED BY <2>2, <3>1, <3>4, <3>5 DEF IInv, Delivered
  <2> QED BY <1>7, <1>9, <2>1, <2>2
<1>10. Delivered'
  BY <1>2, <1>9 DEF Delivered
<1> QED BY <1>4, <1>5, <1>8, <1>10 DEF IInv

LEMMA StepIInv == IInv /\ [Next]_vars => IInv'
<1> SUFFICES ASSUME IInv, [Next]_vars PROVE IInv'
  OBVIOUS
<1> USE BindingAssumption
<1>1. ASSUME NEW i \in Roots, SetContext(i) PROVE IInv'
  <2> DEFINE find == [b \in Binds |-> IF b \in Range(OwnBinds) THEN Found(i, b)
                                      ELSE FoundNested(i, b)]
  <2>1. find \in [Binds -> Instances \cup {None}]
    BY FoundIsInstance
  <2>2. Range(ArtboardBinds) \in SUBSET Binds
    BY DEF Binds
  <2>3. all' \in Seq(Binds)
    BY <1>1, BindsInOrder DEF SetContext, IInv, ShapeInv
  <2> QED BY <1>1, <2>1, <2>2, <2>3, ContextChanges DEF SetContext
<1>2. ASSUME NEW i \in Roots, SetMachineContext(i) PROVE IInv'
  <2> DEFINE find == [b \in Binds |-> Found(i, b)]
  <2>1. find \in [Binds -> Instances \cup {None}]
    BY FoundIsInstance
  <2>2. Range(MachineBinds) \in SUBSET Binds
    BY DEF Binds
  <2>3. all' \in Seq(Binds)
    BY <1>2 DEF SetMachineContext, IInv, ShapeInv
  <2> QED BY <1>2, <2>1, <2>2, <2>3, ContextChanges DEF SetMachineContext
<1>3. ASSUME NEW i \in Instances, NEW p, NEW v, SetValue(i, p, v) PROVE IInv'
  BY <1>3, ValueChanges DEF SetValue
<1>4. ASSUME NEW i \in Instances, NEW s, ChangeList(i, s) PROVE IInv'
  <2>1. UNCHANGED <<source, target, from, dependents, all, queue, at, writer>>
    BY <1>4 DEF ChangeList
  <2>2. \A b \in Binds \ Lists : (b \notin dirty' => b \notin dirty) /\ (b \notin unread' => b \notin unread)
    BY <1>4 DEF ChangeList
  <2>3. ShapeInv' /\ DependInv' /\ WriterInv'
    BY <2>1 DEF IInv, ShapeInv, DependInv, WriterInv
  <2>4. Delivered'
    BY <2>1, <2>2 DEF IInv, Delivered
  <2> QED BY <2>3, <2>4 DEF IInv
<1>5. ASSUME NEW k \in DOMAIN MachineBinds, ListenerChange(k) PROVE IInv'
  <2> DEFINE b == MachineBinds[k]
  <2>1. b \in Binds
    BY BindsInOrder
  <2>2. from[b] \in Instances
    BY <1>5, <2>1 DEF ListenerChange, IInv, ShapeInv
  <2>3. UNCHANGED <<target, from, dependents, all, queue, at, writer>>
    BY <1>5 DEF ListenerChange
  <2> QED BY <1>5, <2>2, <2>3, ValueChanges DEF ListenerChange
<1>6. ASSUME NEW p \in Properties, NEW v, SetProperty(p, v) PROVE IInv'
  <2>1. /\ target' = [target EXCEPT ![p] = v]
        /\ writer' = [writer EXCEPT ![p] = None]
        /\ UNCHANGED <<source, from, dependents, dirty, all, queue, at, unread>>
    BY <1>6 DEF SetProperty
  <2>2. ShapeInv' /\ DependInv'
    BY <2>1 DEF IInv, ShapeInv, DependInv
  <2>3. \A b \in Binds \ Lists : writer'[Target[b]] = b =>
          writer[Target[b]] = b /\ target'[Target[b]] = target[Target[b]]
    BY <2>1 DEF IInv, ShapeInv, Properties
  <2>4. WriterInv' /\ Delivered'
    BY <2>1, <2>3 DEF IInv, WriterInv, Delivered
  <2> QED BY <2>2, <2>4 DEF IInv
<1>7. CASE UpdateArtboard
  <2>1. queue' \in Seq(Binds) /\ at' \in 1 .. Len(queue')
    BY <1>7 DEF UpdateArtboard, IInv, ShapeInv
  <2>2. UNCHANGED <<source, target, from, dependents, dirty, all, unread, writer>>
    BY <1>7 DEF UpdateArtboard
  <2> QED BY <2>1, <2>2, NothingChanges
<1>8. CASE UpdateMachine
  <2>1. queue' \in Seq(Binds) /\ at' \in 1 .. Len(queue')
    BY <1>8, BindsInOrder DEF UpdateMachine
  <2>2. UNCHANGED <<source, target, from, dependents, dirty, all, unread, writer>>
    BY <1>8 DEF UpdateMachine
  <2> QED BY <2>1, <2>2, NothingChanges
<1>9. CASE BindValue
  BY <1>9, ValueTurn
<1>10. ASSUME BindNothing \/ BindList PROVE IInv'
  <2>1. /\ queue # <<>> /\ Onward
        /\ UNCHANGED <<source, target, from, dependents, all, unread, writer>>
        /\ dirty' = dirty \ {Current}
        /\ Current \in Lists \/ from[Current] = None
    BY <1>10 DEF BindNothing, BindList
  <2>2. queue' \in Seq(Binds) /\ (queue' # <<>> => at' \in 1 .. Len(queue'))
    BY <2>1 DEF Onward, IInv, ShapeInv
  <2>3. ShapeInv'
    BY <2>1, <2>2 DEF IInv, ShapeInv
  <2>4. DependInv' /\ WriterInv'
    BY <2>1 DEF IInv, DependInv, WriterInv
  <2>5. \A b \in Binds \ Lists : writer[Target[b]] = b /\ b \notin dirty' => b \notin dirty
    BY <2>1 DEF IInv, WriterInv
  <2>6. Delivered'
    BY <2>1, <2>5 DEF IInv, Delivered
  <2> QED BY <2>6, <2>3, <2>4 DEF IInv
<1>11. CASE UNCHANGED vars
  <2>1. UNCHANGED <<source, target, from, dependents, dirty, all, unread, writer, queue, at>>
    BY <1>11 DEF vars
  <2>2. queue' \in Seq(Binds) /\ (queue' # <<>> => at' \in 1 .. Len(queue'))
    BY <2>1 DEF IInv, ShapeInv
  <2> QED BY <2>1, <2>2, NothingChanges
<1> QED BY <1>1, <1>2, <1>3, <1>4, <1>5, <1>6, <1>7, <1>8, <1>9, <1>10, <1>11
        DEF Next, Turn

(* No change of a source is missed by a bind that reads it: what a clean   *)
(* bind wrote to its property last is what the source holds.               *)
THEOREM NothingMissed == Spec => []Delivered
<1>1. IInv => Delivered
  BY DEF IInv
<1> QED BY <1>1, InitIInv, StepIInv, PTL DEF Spec

-----------------------------------------------------------------------------
(* How a list is shown.                                                    *)

Cached == [item : Items, no : Nat]
Shows(c, k) == c[k].item

LEMMA InstanceIsCached ==
  ASSUME NEW x \in Items, NEW no \in Nat
  PROVE  Instance(x, no) \in Cached /\ Instance(x, no).item = x
  BY DEF Instance, Cached

(* The item is cached behind k at the position that Later gives, or not at *)
(* all.                                                                    *)
LEMMA LaterIs ==
  ASSUME NEW c \in Seq(Cached), NEW k \in 1 .. Len(c), NEW x
  PROVE  \/ Later(c, k, x) = 0 /\ \A j \in k + 1 .. Len(c) : c[j].item # x
         \/ Later(c, k, x) \in k + 1 .. Len(c) /\ c[Later(c, k, x)].item = x
<1> DEFINE I == {j \in k + 1 .. Len(c) : c[j].item = x}
<1>1. Later(c, k, x) = IF I # {} THEN Min(I) ELSE 0
  BY DEF Later, SelectInSubSeq
<1>2. CASE I = {}
  BY <1>1, <1>2
<1>3. CASE I # {}
  <2>1. I \in SUBSET Nat
    OBVIOUS
  <2>2. \E i \in I : \A j \in I : i <= j
    <3> HIDE DEF I
    <3>1. QED
      BY <1>3, <2>1, LeastOf
  <2>3. Min(I) \in I
    <3> HIDE DEF I
    <3>1. QED
      BY <2>2 DEF Min
  <2>4. QED
    BY <1>1, <1>3, <2>3
<1>4. QED
  BY <1>2, <1>3

LEMMA InsertAtIs ==
  ASSUME NEW S, NEW s \in Seq(S), NEW k \in 1 .. Len(s), NEW e \in S
  PROVE  /\ InsertAt(s, k, e) \in Seq(S)
         /\ Len(InsertAt(s, k, e)) = Len(s) + 1
         /\ InsertAt(s, k, e)[k] = e
         /\ \A j \in 1 .. k - 1 : InsertAt(s, k, e)[j] = s[j]
         /\ \A j \in k .. Len(s) : InsertAt(s, k, e)[j + 1] = s[j]
<1> DEFINE front == SubSeq(s, 1, k - 1)
           back == SubSeq(s, k, Len(s))
<1>1. Len(s) \in Nat /\ \A j \in 1 .. Len(s) : s[j] \in S
  OBVIOUS
<1>2. /\ front \in Seq(S) /\ Len(front) = k - 1
      /\ \A j \in 1 .. k - 1 : front[j] = s[j]
  BY <1>1
<1>3. /\ back \in Seq(S) /\ Len(back) = Len(s) - k + 1
      /\ \A j \in 1 .. Len(s) - k + 1 : back[j] = s[k + j - 1]
  BY <1>1
<1>4. InsertAt(s, k, e) = front \o <<e>> \o back
  BY DEF InsertAt
<1> HIDE DEF front, back
<1> DEFINE head == front \o <<e>>
<1>5. /\ head \in Seq(S) /\ Len(head) = k /\ head[k] = e
      /\ \A j \in 1 .. k - 1 : head[j] = s[j]
  BY <1>1, <1>2
<1>6. InsertAt(s, k, e) = head \o back
  BY <1>4
<1> HIDE DEF head
<1>7. /\ InsertAt(s, k, e) \in Seq(S)
      /\ Len(InsertAt(s, k, e)) = Len(s) + 1
  <2>1. head \o back \in Seq(S) /\ Len(head \o back) = Len(head) + Len(back)
    BY <1>3, <1>5, ConcatProperties
  <2>2. k + (Len(s) - k + 1) = Len(s) + 1
    BY <1>1
  <2>3. QED
    BY <1>3, <1>5, <1>6, <2>1, <2>2
<1>8. \A j \in 1 .. k : InsertAt(s, k, e)[j] = head[j]
  BY <1>1, <1>3, <1>5, <1>6
<1>9. ASSUME NEW j \in k .. Len(s)
      PROVE  InsertAt(s, k, e)[j + 1] = s[j]
  <2>1. j + 1 \in k + 1 .. k + Len(back) /\ (j + 1) - k \in 1 .. Len(back)
    BY <1>1, <1>3
  <2>2. (head \o back)[j + 1] = back[(j + 1) - k]
    BY <1>3, <1>5, <2>1
  <2>3. back[(j + 1) - k] = s[j]
    BY <1>1, <1>3, <2>1
  <2>4. QED
    BY <1>6, <2>2, <2>3
<1>10. k \in 1 .. k /\ \A j \in 1 .. k - 1 : j \in 1 .. k
  BY <1>1
<1>11. QED
  BY <1>5, <1>7, <1>8, <1>9, <1>10

(* How d comes from c when position k is placed.                           *)
IsPlaced(d, c, k, x, no) ==
  /\ k <= Len(d)
  /\ d[k].item = x
  /\ \A j \in 1 .. k - 1 : d[j] = c[j]
  /\ \A i \in DOMAIN c : \E j \in DOMAIN d : d[j] = c[i]
  /\ \/ d[k] = Instance(x, no) /\ \A i \in DOMAIN c : k <= i => c[i].item # x
     \/ \E i \in DOMAIN c : k <= i /\ d[k] = c[i]
  /\ \A j \in DOMAIN d : (d[j] = Instance(x, no) /\ j = k) \/ \E i \in DOMAIN c : d[j] = c[i]

(* A position of the list is shown at its place, whatever is before it     *)
(* stays, nothing goes, and of instances of the item one that is not       *)
(* before it is taken.                                                     *)
LEMMA PlacedIs ==
  ASSUME NEW c \in Seq(Cached), NEW k \in Nat \ {0}, NEW x \in Items, NEW no \in Nat
  PROVE  /\ Placed(c, k, x, no) \in Seq(Cached)
         /\ k <= Len(c) + 1 => IsPlaced(Placed(c, k, x, no), c, k, x, no)
<1> USE DEF IsPlaced
<1> DEFINE d == Placed(c, k, x, no)
           e == Instance(x, no)
<1>0. e \in Cached /\ e.item = x /\ Len(c) \in Nat /\ DOMAIN c = 1 .. Len(c)
      /\ \A i \in DOMAIN c : c[i] \in Cached
  BY InstanceIsCached
<1>1. CASE k > Len(c)
  <2>1. d = Append(c, e)
    BY <1>1 DEF Placed
  <2> HIDE DEF d, e
  <2>2. /\ d \in Seq(Cached) /\ Len(d) = Len(c) + 1 /\ DOMAIN d = 1 .. Len(c) + 1
        /\ d[Len(c) + 1] = e /\ \A i \in 1 .. Len(c) : d[i] = c[i]
    BY <1>0, <2>1
  <2>3. ASSUME k <= Len(c) + 1
        PROVE  k = Len(c) + 1
    BY <1>0, <1>1, <2>3
  <2>4. \A i \in DOMAIN c : i \in DOMAIN d /\ d[i] = c[i]
    BY <1>0, <2>2
  <2>5. \A j \in DOMAIN d : j = Len(c) + 1 \/ j \in DOMAIN c
    BY <1>0, <2>2
  <2>6. \A i \in DOMAIN c : ~ (Len(c) + 1 <= i)
    BY <1>0
  <2>7. QED
    BY <1>0, <2>2, <2>3, <2>4, <2>5, <2>6 DEF d, e
<1>2. CASE k <= Len(c) /\ c[k].item = x
  <2>1. d = c /\ k \in DOMAIN c
    <3>1. ~ (k > Len(c)) /\ k \in 1 .. Len(c)
      BY <1>0, <1>2
    <3>2. QED
      BY <1>0, <1>2, <3>1 DEF Placed
  <2>2. QED
    BY <1>0, <1>2, <2>1
<1>3. CASE k <= Len(c) /\ c[k].item # x /\ Later(c, k, x) # 0
  <2> DEFINE j == Later(c, k, x)
  <2>1. d = SwapItems(c, k, j)
    BY <1>0, <1>3 DEF Placed
  <2>2. k \in 1 .. Len(c)
    BY <1>0, <1>3
  <2>3. j \in k + 1 .. Len(c) /\ c[j].item = x
    BY <1>3, <2>2, LaterIs
  <2> HIDE DEF d, e, j
  <2>4. k \in DOMAIN c /\ j \in DOMAIN c /\ k < j
    BY <1>0, <2>2, <2>3
  <2>5. /\ d \in Seq(Cached) /\ Len(d) = Len(c) /\ DOMAIN d = DOMAIN c
        /\ d[k] = c[j] /\ d[j] = c[k]
        /\ \A i \in DOMAIN c : i # j /\ i # k => d[i] = c[i]
    BY <1>0, <2>1, <2>4 DEF SwapItems
  <2>6. \A i \in 1 .. k - 1 : i \in DOMAIN c /\ i # j /\ i # k
    BY <1>0, <2>2, <2>4
  <2>7. \A i \in DOMAIN c : \E l \in DOMAIN d : d[l] = c[i]
    BY <2>4, <2>5
  <2>8. \A l \in DOMAIN d : \E i \in DOMAIN c : d[l] = c[i]
    BY <2>4, <2>5
  <2>9. k <= Len(d) /\ d[k].item = x /\ \A i \in 1 .. k - 1 : d[i] = c[i]
    BY <1>3, <2>3, <2>5, <2>6
  <2>10. \E i \in DOMAIN c : k <= i /\ d[k] = c[i]
    BY <1>0, <2>4, <2>5
  <2>11. QED
    BY <2>5, <2>7, <2>8, <2>9, <2>10 DEF d, e
<1>4. CASE k <= Len(c) /\ c[k].item # x /\ Later(c, k, x) = 0
  <2>1. d = InsertAt(c, k, e)
    BY <1>0, <1>4 DEF Placed
  <2>2. k \in 1 .. Len(c)
    BY <1>0, <1>4
  <2>3. \A i \in k + 1 .. Len(c) : c[i].item # x
    BY <1>4, <2>2, LaterIs
  <2> HIDE DEF d, e
  <2>4. /\ d \in Seq(Cached) /\ Len(d) = Len(c) + 1 /\ d[k] = e
        /\ \A j \in 1 .. k - 1 : d[j] = c[j]
        /\ \A j \in k .. Len(c) : d[j + 1] = c[j]
    <3>1. e \in Cached
      BY <1>0
    <3>2. QED
      BY <2>1, <2>2, <3>1, InsertAtIs
  <2>5. DOMAIN d = 1 .. Len(c) + 1
    BY <2>4
  <2>6. \A i \in DOMAIN c : k <= i => c[i].item # x
    BY <1>0, <1>4, <2>2, <2>3
  <2>7. ASSUME NEW i \in DOMAIN c
        PROVE  \E j \in DOMAIN d : d[j] = c[i]
    <3>1. CASE i < k
      <4>1. i \in 1 .. k - 1 /\ i \in DOMAIN d
        BY <1>0, <2>2, <2>5, <3>1
      <4>2. QED
        BY <2>4, <4>1
    <3>2. CASE k <= i
      <4>1. i \in k .. Len(c) /\ i + 1 \in DOMAIN d
        BY <1>0, <2>2, <2>5, <3>2
      <4>2. QED
        BY <2>4, <4>1
    <3>3. QED
      BY <1>0, <3>1, <3>2
  <2>8. ASSUME NEW j \in DOMAIN d, j # k
        PROVE  \E i \in DOMAIN c : d[j] = c[i]
    <3>1. CASE j < k
      <4>1. j \in 1 .. k - 1 /\ j \in DOMAIN c
        BY <1>0, <2>2, <2>5, <3>1
      <4>2. QED
        BY <2>4, <4>1
    <3>2. CASE k < j
      <4>1. j - 1 \in k .. Len(c) /\ (j - 1) + 1 = j /\ j - 1 \in DOMAIN c
        BY <1>0, <2>2, <2>5, <3>2
      <4>2. QED
        BY <2>4, <4>1
    <3>3. QED
      BY <1>0, <2>5, <2>8, <3>1, <3>2
  <2>9. k <= Len(d) /\ d[k].item = x
    BY <1>0, <1>4, <2>4
  <2>10. QED
    BY <2>4, <2>6, <2>7, <2>8, <2>9 DEF d, e
<1>5. QED
  BY <1>0, <1>1, <1>2, <1>3, <1>4

(* The cache as it is while the positions of the list are placed one after *)
(* the other.                                                              *)
LEMMA MatchedSteps ==
  ASSUME NEW c \in Seq(Cached), NEW s \in Seq(Items), NEW no \in Nat
  PROVE  \E f \in [0 .. Len(s) -> Seq(Cached)] :
           /\ f[0] = c
           /\ \A k \in 1 .. Len(s) : f[k] = Placed(f[k - 1], k, s[k], no + k)
           /\ Matched(c, s, no) = f[Len(s)]
<1> DEFINE N == Len(s)
           V == Seq(Cached)
           Is(f) == f = [k \in 0 .. N |-> IF k = 0 THEN c ELSE Placed(f[k - 1], k, s[k], no + k)]
           Step == [p \in V \X (1 .. N) |-> Placed(p[1], p[2], s[p[2]], no + p[2])]
           g == CHOOSE f : Is(f)
<1>1. N \in Nat /\ c \in V
  OBVIOUS
<1>2. ASSUME NEW v \in V, NEW k \in 1 .. N
      PROVE  Placed(v, k, s[k], no + k) \in V
  <2>1. k \in Nat \ {0} /\ s[k] \in Items /\ no + k \in Nat
    BY <1>1
  <2>2. QED
    BY <2>1, PlacedIs
<1>3. /\ Step \in [V \X (1 .. N) -> V]
      /\ \A v \in V, k \in 1 .. N : Step[<<v, k>>] = Placed(v, k, s[k], no + k)
  <2> HIDE DEF V, N
  <2>1. \A p \in V \X (1 .. N) : Placed(p[1], p[2], s[p[2]], no + p[2]) \in V
    BY <1>2
  <2>2. Step \in [V \X (1 .. N) -> V]
    BY <2>1
  <2>3. ASSUME NEW v \in V, NEW k \in 1 .. N
        PROVE  Step[<<v, k>>] = Placed(v, k, s[k], no + k)
    <3>1. <<v, k>> \in V \X (1 .. N)
      OBVIOUS
    <3>2. QED
      BY <3>1
  <2> HIDE DEF Step
  <2>4. QED
    BY <2>2, <2>3
<1>4. \E f : Is(f)
  <2> HIDE DEF V, N, Step, Is
  <2>1. Step \in StepsOf(V, N)
    BY <1>3 DEF StepsOf
  <2>2. \E f : CountsUp(f, N, V, c, Step)
    BY <1>1, <2>1, CountingDefines
  <2>3. PICK f : CountsUp(f, N, V, c, Step)
    BY <2>2
  <2>4. /\ f \in [0 .. N -> V] /\ f[0] = c
        /\ \A n \in 1 .. N : f[n] = Step[<<f[n - 1], n>>]
    BY <2>3 DEF CountsUp
  <2>5. ASSUME NEW k \in 0 .. N
        PROVE  f[k] = IF k = 0 THEN c ELSE Placed(f[k - 1], k, s[k], no + k)
    <3>1. CASE k = 0
      BY <2>4, <3>1
    <3>2. CASE k # 0
      <4>1. k \in 1 .. N /\ k - 1 \in 0 .. N
        BY <1>1, <3>2
      <4>2. QED
        BY <1>3, <2>4, <3>2, <4>1
    <3>3. QED
      BY <3>1, <3>2
  <2>6. Is(f)
    BY <2>4, <2>5 DEF Is
  <2>7. QED
    BY <2>6
<1>5. Is(g)
  <2> HIDE DEF Is
  <2>1. QED
    BY <1>4
<1>6. g[0] = c /\ \A k \in 1 .. N : g[k] = Placed(g[k - 1], k, s[k], no + k)
  <2> HIDE DEF g
  <2>1. \A k \in 0 .. N : g[k] = IF k = 0 THEN c ELSE Placed(g[k - 1], k, s[k], no + k)
    BY <1>5
  <2>2. 0 \in 0 .. N /\ \A k \in 1 .. N : k \in 0 .. N /\ k # 0
    BY <1>1
  <2> HIDE DEF N
  <2>3. QED
    BY <2>1, <2>2
<1>7. \A k \in 0 .. N : g[k] \in V
  <2> DEFINE M == {k \in 0 .. N : g[k] \in V}
  <2> HIDE DEF g, V, N
  <2>1. 0 \in M
    BY <1>1, <1>6
  <2>2. ASSUME NEW k \in 0 .. N - 1, k \in M
        PROVE  k + 1 \in M
    <3>1. k + 1 \in 1 .. N /\ k + 1 \in 0 .. N /\ (k + 1) - 1 = k
      BY <1>1
    <3>2. QED
      BY <1>2, <1>6, <2>2, <3>1
  <2>3. 0 .. N \subseteq M
    <3> HIDE DEF M
    <3>1. QED
      BY <1>1, <2>1, <2>2, BoundedInduction
  <2>4. QED
    BY <2>3
<1>8. g \in [0 .. N -> V]
  <2>1. g = [k \in 0 .. N |-> g[k]]
    BY <1>5
  <2> HIDE DEF g, V
  <2>2. QED
    BY <1>7, <2>1
<1>9. Matched(c, s, no) = g[N]
  BY DEF Matched
<1> HIDE DEF g, N, V
<1>10. QED
  BY <1>6, <1>8, <1>9 DEF N, V

(* What is left of the cache shows the list.                               *)
LEMMA UpdatedShows ==
  ASSUME NEW c \in Seq(Cached), NEW s \in Seq(Items), NEW no \in Nat
  PROVE  /\ Updated(c, s, no) \in Seq(Cached)
         /\ Len(Updated(c, s, no)) = Len(s)
         /\ \A k \in 1 .. Len(s) : Updated(c, s, no)[k].item = s[k]
<1>1. PICK f \in [0 .. Len(s) -> Seq(Cached)] :
        /\ f[0] = c
        /\ \A k \in 1 .. Len(s) : f[k] = Placed(f[k - 1], k, s[k], no + k)
        /\ Matched(c, s, no) = f[Len(s)]
  BY MatchedSteps
<1> DEFINE N == Len(s)
           Shown(k) == k <= Len(f[k]) /\ \A j \in 1 .. k : f[k][j].item = s[j]
           M == {k \in 0 .. N : Shown(k)}
<1>2. N \in Nat /\ 0 \in M
  BY <1>1
<1>3. ASSUME NEW k \in 0 .. N - 1, k \in M
      PROVE  k + 1 \in M
  <2>1. /\ f[k] \in Seq(Cached) /\ k + 1 \in Nat \ {0} /\ s[k + 1] \in Items
        /\ no + (k + 1) \in Nat /\ k + 1 \in 1 .. N /\ k \in Nat
    <3>1. k \in 0 .. N /\ k + 1 \in 1 .. N /\ k \in Nat
      BY <1>2
    <3>2. f[k] \in Seq(Cached)
      BY <1>1, <3>1
    <3>3. s[k + 1] \in Items /\ no + (k + 1) \in Nat
      BY <3>1
    <3>4. QED
      BY <3>1, <3>2, <3>3
  <2>2. f[k + 1] = Placed(f[k], k + 1, s[k + 1], no + (k + 1))
    <3>1. (k + 1) - 1 = k
      BY <2>1
    <3>2. QED
      BY <1>1, <2>1, <3>1
  <2>3. Shown(k)
    BY <1>3
  <2>4. k + 1 <= Len(f[k]) + 1
    BY <2>1, <2>3
  <2>5. /\ k + 1 <= Len(f[k + 1]) /\ f[k + 1][k + 1].item = s[k + 1]
        /\ \A j \in 1 .. (k + 1) - 1 : f[k + 1][j] = f[k][j]
    <3>1. IsPlaced(f[k + 1], f[k], k + 1, s[k + 1], no + (k + 1))
      BY <2>1, <2>2, <2>4, PlacedIs
    <3>2. QED
      BY <3>1 DEF IsPlaced
  <2>6. \A j \in 1 .. k + 1 : j = k + 1 \/ (j \in 1 .. k /\ j \in 1 .. (k + 1) - 1)
    <3>1. k \in Nat
      BY <2>1
    <3>2. QED
      BY <3>1
  <2>7. Shown(k + 1)
    BY <2>3, <2>5, <2>6
  <2>8. QED
    BY <2>1, <2>7
<1>4. Shown(N)
  <2>1. 0 .. N \subseteq M
    <3> HIDE DEF M, N
    <3>1. QED
      BY <1>2, <1>3, BoundedInduction
  <2>2. N \in 0 .. N
    BY <1>2
  <2>3. QED
    BY <2>1, <2>2
<1>5. f[N] \in Seq(Cached) /\ Updated(c, s, no) = SubSeq(f[N], 1, N)
  <2>1. N \in 0 .. N
    BY <1>2
  <2>2. QED
    BY <1>1, <2>1 DEF Updated, Popped
<1> DEFINE d == f[N]
<1>6. d \in Seq(Cached) /\ N <= Len(d) /\ \A j \in 1 .. N : d[j].item = s[j]
  BY <1>4, <1>5
<1> HIDE DEF d, N
<1>7. /\ SubSeq(d, 1, N) \in Seq(Cached) /\ Len(SubSeq(d, 1, N)) = N
      /\ \A j \in 1 .. N : SubSeq(d, 1, N)[j] = d[j]
  <2>1. Len(d) \in Nat /\ \A j \in 1 .. N : j \in 1 .. Len(d)
    BY <1>2, <1>6
  <2>2. \A j \in 1 .. N : d[j] \in Cached
    BY <1>6, <2>1
  <2>3. QED
    BY <1>2, <1>6, <2>1, <2>2
<1>8. QED
  BY <1>5, <1>6, <1>7 DEF d, N

(* An instance that is the only one of its item, and whose item is on the  *)
(* list, is kept.                                                          *)
LEMMA UpdatedKeeps ==
  ASSUME NEW c \in Seq(Cached), NEW s \in Seq(Items), NEW no \in Nat,
         NEW i \in DOMAIN c, Once(c, c[i]), \E k \in DOMAIN s : s[k] = c[i].item
  PROVE  \E j \in DOMAIN Updated(c, s, no) : Updated(c, s, no)[j] = c[i]
<1>1. PICK f \in [0 .. Len(s) -> Seq(Cached)] :
        /\ f[0] = c
        /\ \A k \in 1 .. Len(s) : f[k] = Placed(f[k - 1], k, s[k], no + k)
        /\ Matched(c, s, no) = f[Len(s)]
  BY MatchedSteps
<1> DEFINE N == Len(s)
           e == c[i]
           Alone(d) == \A j \in DOMAIN d : d[j].item = e.item => d[j] = e
           Waits(k) == /\ \A j \in 1 .. k : s[j] # e.item /\ f[k][j].item # e.item
                       /\ Alone(f[k])
                       /\ \E j \in DOMAIN f[k] : k < j /\ f[k][j] = e
           Stands(k) == \E j \in 1 .. k : f[k][j] = e
           M == {k \in 0 .. N : k <= Len(f[k]) /\ (Waits(k) \/ Stands(k))}
<1>2. N \in Nat /\ DOMAIN s = 1 .. N /\ e \in Cached /\ DOMAIN c = 1 .. Len(c) /\ Len(c) \in Nat
  OBVIOUS
<1>3. 0 \in M
  <2>1. Alone(c)
    BY DEF Once
  <2>2. i \in DOMAIN f[0] /\ 0 < i /\ f[0][i] = e
    BY <1>1, <1>2
  <2>3. Waits(0)
    BY <1>1, <2>1, <2>2
  <2>4. 0 <= Len(f[0]) /\ 0 \in 0 .. N
    BY <1>1, <1>2
  <2> HIDE DEF Waits, Stands
  <2>5. QED
    BY <2>3, <2>4
<1>4. ASSUME NEW k \in 0 .. N - 1, k \in M
      PROVE  k + 1 \in M
  <2> DEFINE d == f[k]
             n == k + 1
             x == s[n]
  <2>1. /\ d \in Seq(Cached) /\ n \in Nat \ {0} /\ x \in Items
        /\ no + n \in Nat /\ n \in 1 .. N /\ n \in 0 .. N /\ k \in Nat /\ n - 1 = k
    <3>1. k \in 0 .. N /\ n \in 1 .. N /\ n \in 0 .. N /\ k \in Nat /\ n - 1 = k
      BY <1>2
    <3>2. d \in Seq(Cached)
      BY <1>1, <3>1
    <3>3. QED
      BY <3>1, <3>2
  <2>2. f[n] = Placed(d, n, x, no + n)
    BY <1>1, <2>1
  <2>3. n <= Len(d) + 1
    BY <1>4, <2>1
  <2>4. /\ f[n] \in Seq(Cached) /\ n <= Len(f[n]) /\ f[n][n].item = x
        /\ \A j \in 1 .. k : f[n][j] = d[j]
        /\ \A l \in DOMAIN d : \E j \in DOMAIN f[n] : f[n][j] = d[l]
        /\ \/ f[n][n] = Instance(x, no + n)
              /\ \A l \in DOMAIN d : n <= l => d[l].item # x
           \/ \E l \in DOMAIN d : n <= l /\ f[n][n] = d[l]
        /\ \A j \in DOMAIN f[n] :
             (f[n][j] = Instance(x, no + n) /\ j = n) \/ \E l \in DOMAIN d : f[n][j] = d[l]
    <3>1. f[n] \in Seq(Cached) /\ IsPlaced(f[n], d, n, x, no + n)
      BY <2>1, <2>2, <2>3, PlacedIs
    <3> HIDE DEF d, n, x
    <3>2. n - 1 = k
      BY <2>1
    <3>3. QED
      BY <3>1, <3>2 DEF IsPlaced
  <2>5. CASE Stands(k)
    <3>1. PICK j \in 1 .. k : d[j] = e
      BY <2>5
    <3>2. j \in 1 .. n /\ f[n][j] = e
      BY <2>1, <2>4, <3>1
    <3>3. Stands(n)
      BY <3>2
    <3> HIDE DEF Stands, Waits, d, n, x
    <3>4. QED
      BY <2>1, <2>4, <3>3 DEF n
  <2>6. CASE Waits(k) /\ x = e.item
    <3>1. PICK p \in DOMAIN d : k < p /\ d[p] = e
      BY <2>6
    <3>2. n <= p
      BY <2>1, <3>1
    <3>3. \E l \in DOMAIN d : n <= l /\ f[n][n] = d[l]
      BY <2>4, <2>6, <3>1, <3>2
    <3>4. f[n][n] = e
      BY <2>4, <2>6, <3>3
    <3>5. Stands(n)
      BY <2>1, <3>4
    <3> HIDE DEF Stands, Waits, d, n, x
    <3>6. QED
      BY <2>1, <2>4, <3>5 DEF n
  <2>7. CASE Waits(k) /\ x # e.item
    <3>1. PICK p \in DOMAIN d : k < p /\ d[p] = e
      BY <2>7
    <3>2. PICK q \in DOMAIN f[n] : f[n][q] = e
      BY <2>4, <3>1
    <3>3. Instance(x, no + n).item = x
      BY <2>1, InstanceIsCached
    <3>4. Alone(f[n])
      <4>1. SUFFICES ASSUME NEW j \in DOMAIN f[n], f[n][j].item = e.item
                     PROVE  f[n][j] = e
        OBVIOUS
      <4>2. PICK l \in DOMAIN d : f[n][j] = d[l]
        BY <2>4, <2>7, <3>3, <4>1
      <4>3. QED
        BY <2>7, <4>1, <4>2
    <3>5. \A j \in 1 .. n : s[j] # e.item /\ f[n][j].item # e.item
      <4>1. \A j \in 1 .. n : j = n \/ j \in 1 .. k
        BY <2>1
      <4>2. QED
        BY <2>4, <2>7, <4>1
    <3>6. n < q
      <4>1. DOMAIN f[n] \subseteq Nat \ {0}
        BY <2>4
      <4>2. ~ (q \in 1 .. n)
        BY <3>2, <3>5
      <4>3. QED
        BY <2>1, <4>1, <4>2
    <3>7. Waits(n)
      BY <3>2, <3>4, <3>5, <3>6
    <3> HIDE DEF Stands, Waits, d, n, x
    <3>8. QED
      BY <2>1, <2>4, <3>7 DEF n
  <2>8. QED
    BY <1>4, <2>5, <2>6, <2>7
<1>5. N <= Len(f[N]) /\ Stands(N) /\ f[N] \in Seq(Cached)
  <2>1. 0 .. N \subseteq M
    <3> HIDE DEF M, N
    <3>1. QED
      BY <1>2, <1>3, <1>4, BoundedInduction
  <2>2. N \in 0 .. N
    BY <1>2
  <2>3. ~Waits(N)
    BY <1>2
  <2>4. QED
    BY <1>1, <2>1, <2>2, <2>3
<1>6. PICK j \in 1 .. N : f[N][j] = e
  BY <1>5
<1>7. Updated(c, s, no) = SubSeq(f[N], 1, N)
  BY <1>1 DEF Updated, Popped
<1>8. j \in DOMAIN SubSeq(f[N], 1, N) /\ SubSeq(f[N], 1, N)[j] = f[N][j]
  BY <1>2, <1>5, <1>6
<1>9. QED
  BY <1>6, <1>7, <1>8

(* What becomes of a list is a list.                                       *)
LEMMA WithoutIsList ==
  ASSUME NEW s \in Seq(Items), NEW x
  PROVE  Without(s, x) \in Seq(Items)
<1> DEFINE N == Len(s)
           V == Seq(Items)
           Is(f) == f = [k \in 0 .. N |-> IF k = 0 THEN <<>>
                                          ELSE IF s[k] = x THEN f[k - 1] ELSE Append(f[k - 1], s[k])]
           Step == [p \in V \X (1 .. N) |-> IF s[p[2]] = x THEN p[1] ELSE Append(p[1], s[p[2]])]
           g == CHOOSE f : Is(f)
<1>1. N \in Nat /\ <<>> \in V /\ \A k \in 1 .. N : s[k] \in Items
  OBVIOUS
<1>2. ASSUME NEW v \in V, NEW k \in 1 .. N
      PROVE  Append(v, s[k]) \in V
  BY <1>1
<1>3. Step \in StepsOf(V, N)
  <2> HIDE DEF V, N
  <2>1. \A p \in V \X (1 .. N) : (IF s[p[2]] = x THEN p[1] ELSE Append(p[1], s[p[2]])) \in V
    BY <1>2
  <2>2. QED
    BY <2>1 DEF StepsOf
<1>4. ASSUME NEW v \in V, NEW k \in 1 .. N
      PROVE  Step[<<v, k>>] = IF s[k] = x THEN v ELSE Append(v, s[k])
  <2> HIDE DEF V, N
  <2>1. <<v, k>> \in V \X (1 .. N)
    OBVIOUS
  <2>2. QED
    BY <2>1
<1>5. \E f : Is(f)
  <2> HIDE DEF V, N, Step, Is
  <2>1. PICK f : CountsUp(f, N, V, <<>>, Step)
    BY <1>1, <1>3, CountingDefines
  <2>2. /\ f \in [0 .. N -> V] /\ f[0] = <<>>
        /\ \A n \in 1 .. N : f[n] = Step[<<f[n - 1], n>>]
    BY <2>1 DEF CountsUp
  <2>3. ASSUME NEW k \in 1 .. N
        PROVE  f[k] = IF s[k] = x THEN f[k - 1] ELSE Append(f[k - 1], s[k])
    <3>1. k - 1 \in 0 .. N
      BY <1>1
    <3>2. QED
      BY <1>4, <2>2, <3>1
  <2>4. \A k \in 0 .. N : k = 0 \/ (k \in 1 .. N /\ k # 0)
    BY <1>1
  <2>5. \A k \in 0 .. N : f[k] = IF k = 0 THEN <<>>
                                  ELSE IF s[k] = x THEN f[k - 1] ELSE Append(f[k - 1], s[k])
    BY <2>2, <2>3, <2>4
  <2>6. f = [k \in 0 .. N |-> f[k]]
    BY <2>2
  <2>7. Is(f)
    BY <2>5, <2>6 DEF Is
  <2>8. QED
    BY <2>7
<1>6. Is(g)
  <2> HIDE DEF Is
  <2>1. QED
    BY <1>5
<1>7. g[0] = <<>> /\ \A k \in 1 .. N : g[k] = IF s[k] = x THEN g[k - 1] ELSE Append(g[k - 1], s[k])
  <2> HIDE DEF g
  <2>1. 0 \in 0 .. N /\ \A k \in 1 .. N : k \in 0 .. N /\ k # 0
    BY <1>1
  <2> HIDE DEF N
  <2>2. QED
    BY <1>6, <2>1
<1>8. g[N] \in V
  <2> DEFINE M == {k \in 0 .. N : g[k] \in V}
  <2> HIDE DEF g, V, N
  <2>1. 0 \in M
    BY <1>1, <1>7
  <2>2. ASSUME NEW k \in 0 .. N - 1, k \in M
        PROVE  k + 1 \in M
    <3>1. k + 1 \in 1 .. N /\ k + 1 \in 0 .. N /\ (k + 1) - 1 = k
      BY <1>1
    <3>2. QED
      BY <1>2, <1>7, <2>2, <3>1
  <2>3. 0 .. N \subseteq M
    <3> HIDE DEF M
    <3>1. QED
      BY <1>1, <2>1, <2>2, BoundedInduction
  <2>4. QED
    BY <1>1, <2>3
<1>9. Without(s, x) = g[N]
  BY DEF Without
<1>10. QED
  BY <1>8, <1>9

LEMMA ListChangesAreLists ==
  ASSUME NEW s \in Seq(Items), NEW t \in ListChanges(s)
  PROVE  t \in Seq(Items)
<1>1. CASE \E x \in Items : t = Append(s, x)
  BY <1>1
<1>2. CASE \E k \in DOMAIN s, x \in Items : t = InsertAt(s, k, x)
  <2>1. PICK k \in DOMAIN s, x \in Items : t = InsertAt(s, k, x)
    BY <1>2
  <2>2. k \in 1 .. Len(s)
    OBVIOUS
  <2>3. QED
    BY <2>1, <2>2, InsertAtIs
<1>3. CASE \E k \in DOMAIN s : t = RemoveAt(s, k)
  <2>1. PICK k \in DOMAIN s : t = RemoveAt(s, k)
    BY <1>3
  <2>2. k \in 1 .. Len(s) /\ Len(s) \in Nat /\ \A j \in 1 .. Len(s) : s[j] \in Items
    OBVIOUS
  <2>3. SubSeq(s, 1, k - 1) \in Seq(Items) /\ SubSeq(s, k + 1, Len(s)) \in Seq(Items)
    BY <2>2
  <2>4. QED
    BY <2>1, <2>3, ConcatProperties DEF RemoveAt
<1>4. CASE \E x \in Items : t = Without(s, x)
  BY <1>4, WithoutIsList
<1>5. CASE \E j, k \in DOMAIN s : t = SwapItems(s, j, k)
  BY <1>5 DEF SwapItems
<1>6. QED
  BY <1>1, <1>2, <1>3, <1>4, <1>5 DEF ListChanges

-----------------------------------------------------------------------------
(* Lists, caches and the numbers of instances stay what they are.          *)
ListsInv ==
  /\ items \in [Instances -> Seq(Items)]
  /\ cache \in [Lists -> Seq(Cached)]
  /\ made \in [Lists -> Nat]

(* A clean bind that has a source shows its list.                          *)
ShownIn(c, s) == Len(c) = Len(s) /\ \A k \in 1 .. Len(s) : c[k].item = s[k]

ShownInv ==
  ~crashed => \A b \in Lists :
    from[b] # None /\ b \notin dirty => ShownIn(cache[b], items[from[b]])

ListIInv == IInv /\ ListsInv /\ ShownInv

LEMMA InitLists == Init => ListsInv /\ ShownInv
<1> SUFFICES ASSUME Init PROVE ListsInv /\ ShownInv
  OBVIOUS
<1>1. ListsInv
  BY BindingAssumption DEF Init, ListsInv
<1>2. ShownInv
  BY BindingAssumption DEF Init, ShownInv
<1> QED BY <1>1, <1>2

(* The lists are left alone and no list's bind is cleaned.                 *)
LEMMA ListsLeftAlone ==
  ASSUME ListsInv, ShownInv, UNCHANGED <<lists, from>>, dirty \cap Lists \subseteq dirty'
  PROVE  ListsInv' /\ ShownInv'
<1>1. UNCHANGED <<items, cache, made, crashed, from>>
  BY DEF lists
<1>2. ListsInv'
  BY <1>1 DEF ListsInv
<1>3. \A b \in Lists : b \notin dirty' => b \notin dirty
  OBVIOUS
<1>4. ShownInv'
  BY <1>1, <1>3 DEF ShownInv
<1> QED BY <1>2, <1>4

LEMMA ListChangeShows ==
  ASSUME IInv, ListsInv, ShownInv, NEW i \in Instances, NEW s, ChangeList(i, s)
  PROVE  ListsInv' /\ ShownInv'
<1>1. /\ s \in ListChanges(items[i])
      /\ items' = [items EXCEPT ![i] = s]
      /\ dirty' = dirty \cup (dependents[i] \cap Lists)
      /\ UNCHANGED <<cache, made, crashed, from>>
  BY DEF ChangeList
<1>2. items[i] \in Seq(Items) /\ s \in Seq(Items)
  BY <1>1, ListChangesAreLists DEF ListsInv
<1>3. ListsInv'
  BY <1>1, <1>2 DEF ListsInv
<1>4. ASSUME ~crashed', NEW b \in Lists, from'[b] # None, b \notin dirty'
      PROVE  ShownIn(cache'[b], items'[from'[b]])
  <2>1. b \in Binds /\ from[b] \in Instances /\ b \in dependents[from[b]]
    BY <1>1, <1>4, BindingAssumption DEF IInv, ShapeInv, DependInv
  <2>2. from[b] # i /\ b \notin dirty
    BY <1>1, <1>4, <2>1
  <2>3. items'[from[b]] = items[from[b]]
    BY <1>1, <2>1, <2>2 DEF ListsInv
  <2> QED BY <1>1, <1>4, <2>2, <2>3 DEF ShownInv
<1>5. ShownInv'
  BY <1>4 DEF ShownInv
<1> QED BY <1>3, <1>5

LEMMA UpdatedIsShown ==
  ASSUME NEW c \in Seq(Cached), NEW s \in Seq(Items), NEW no \in Nat
  PROVE  Updated(c, s, no) \in Seq(Cached) /\ ShownIn(Updated(c, s, no), s)
         /\ no + Len(s) \in Nat
BY UpdatedShows DEF ShownIn

(* A bind shows the list of another context at once.                       *)
LEMMA ContextShows ==
  ASSUME IInv, ListsInv, ShownInv, ~crashed,
         NEW S \in SUBSET Binds, NEW find \in [Binds -> Instances \cup {None}],
         BindAll(S, find), UNCHANGED <<items, dirty>>
  PROVE  ListsInv' /\ ShownInv'
<1> DEFINE found == {b \in S : find[b] # None}
           shown == found \cap Lists
<1>1. /\ from' = [b \in Binds |-> IF b \in found THEN find[b] ELSE from[b]]
      /\ cache' = [b \in Lists |-> IF b \in shown THEN Updated(<<>>, items[find[b]], made[b])
                                   ELSE cache[b]]
      /\ made' = [b \in Lists |-> IF b \in shown THEN made[b] + Len(items[find[b]]) ELSE made[b]]
  BY DEF BindAll
<1>2. ASSUME NEW b \in shown
      PROVE  /\ Updated(<<>>, items[find[b]], made[b]) \in Seq(Cached)
             /\ ShownIn(Updated(<<>>, items[find[b]], made[b]), items[find[b]])
             /\ made[b] + Len(items[find[b]]) \in Nat
  <2>1. find[b] \in Instances /\ b \in Lists
    OBVIOUS
  <2>2. items[find[b]] \in Seq(Items) /\ made[b] \in Nat /\ <<>> \in Seq(Cached)
    BY <2>1 DEF ListsInv
  <2> QED BY <2>2, UpdatedIsShown
<1> HIDE DEF found, shown
<1>3. ListsInv'
  <2>1. UNCHANGED items
    OBVIOUS
  <2>2. cache' \in [Lists -> Seq(Cached)]
    BY <1>1, <1>2 DEF ListsInv
  <2>3. made' \in [Lists -> Nat]
    BY <1>1, <1>2 DEF ListsInv
  <2> QED BY <2>1, <2>2, <2>3 DEF ListsInv
<1>4. ASSUME NEW b \in Lists, from'[b] # None, b \notin dirty
      PROVE  ShownIn(cache'[b], items[from'[b]])
  <2>1. b \in Binds
    BY BindingAssumption
  <2>2. CASE b \in shown
    <3>1. b \in found
      BY <2>2 DEF shown
    <3>2. from'[b] = find[b] /\ cache'[b] = Updated(<<>>, items[find[b]], made[b])
      BY <1>1, <2>1, <2>2, <3>1
    <3> QED BY <1>2, <2>2, <3>2
  <2>3. CASE b \notin shown
    <3>1. b \notin found
      BY <2>3 DEF shown
    <3>2. from'[b] = from[b] /\ cache'[b] = cache[b]
      BY <1>1, <2>1, <2>3, <3>1
    <3> QED BY <1>4, <3>2 DEF ShownInv
  <2> QED BY <2>2, <2>3
<1>5. ShownInv'
  BY <1>4 DEF ShownInv
<1> QED BY <1>3, <1>5

(* The turn of a list's bind.                                              *)
LEMMA ListTurn ==
  ASSUME IInv, ListsInv, ShownInv, BindList
  PROVE  ListsInv' /\ ShownInv'
<1> DEFINE b == Current
           s == items[from[b]]
<1>1. /\ ~crashed /\ b \in Lists /\ from[b] # None
      /\ dirty' = dirty \ {b}
      /\ UNCHANGED <<items, from>>
      /\ \/ /\ b \in dirty
            /\ cache' = [cache EXCEPT ![b] = Updated(cache[b], s, made[b])]
            /\ made' = [made EXCEPT ![b] = made[b] + Len(s)]
         \/ b \notin dirty /\ UNCHANGED <<cache, made>>
  BY DEF BindList
<1>2. from[b] \in Instances /\ s \in Seq(Items) /\ cache[b] \in Seq(Cached) /\ made[b] \in Nat
  BY <1>1, BindingAssumption DEF ListsInv, IInv, ShapeInv
<1>3. /\ Updated(cache[b], s, made[b]) \in Seq(Cached)
      /\ ShownIn(Updated(cache[b], s, made[b]), s)
      /\ made[b] + Len(s) \in Nat
  BY <1>2, UpdatedIsShown
<1>4. from'[b] = from[b] /\ items'[from[b]] = s
  BY <1>1
<1> HIDE DEF b, s
<1>5. ListsInv'
  BY <1>1, <1>3 DEF ListsInv
<1>6. ASSUME NEW d \in Lists, from'[d] # None, d \notin dirty'
      PROVE  ShownIn(cache'[d], items'[from'[d]])
  <2>1. CASE d = b /\ b \in dirty
    <3>1. cache'[d] = Updated(cache[b], s, made[b])
      BY <1>1, <2>1 DEF ListsInv
    <3> QED BY <1>3, <1>4, <2>1, <3>1
  <2>2. CASE ~(d = b /\ b \in dirty)
    <3>1. d \notin dirty /\ cache'[d] = cache[d]
      BY <1>1, <1>6, <2>2 DEF ListsInv
    <3> QED BY <1>1, <1>6, <3>1 DEF ShownInv
  <2> QED BY <2>1, <2>2
<1>7. ShownInv'
  BY <1>6 DEF ShownInv
<1> QED BY <1>5, <1>7

LEMMA StepLists == ListIInv /\ [Next]_vars => ListIInv'
<1> SUFFICES ASSUME ListIInv, [Next]_vars PROVE ListsInv' /\ ShownInv'
  BY StepIInv DEF ListIInv
<1> USE DEF ListIInv
<1>1. ASSUME NEW i \in Roots, SetContext(i) PROVE ListsInv' /\ ShownInv'
  <2> DEFINE find == [b \in Binds |-> IF b \in Range(OwnBinds) THEN Found(i, b)
                                      ELSE FoundNested(i, b)]
  <2>1. find \in [Binds -> Instances \cup {None}]
    BY BindingAssumption, FoundIsInstance
  <2>2. Range(ArtboardBinds) \in SUBSET Binds
    BY DEF Binds
  <2>3. ~crashed /\ UNCHANGED <<items, dirty>> /\ BindAll(Range(ArtboardBinds), find)
    BY <1>1 DEF SetContext, Idle
  <2> QED BY <2>1, <2>2, <2>3, ContextShows
<1>2. ASSUME NEW i \in Roots, SetMachineContext(i) PROVE ListsInv' /\ ShownInv'
  <2> DEFINE find == [b \in Binds |-> Found(i, b)]
  <2>1. find \in [Binds -> Instances \cup {None}]
    BY BindingAssumption, FoundIsInstance
  <2>2. Range(MachineBinds) \in SUBSET Binds
    BY DEF Binds
  <2>3. ~crashed /\ UNCHANGED <<items, dirty>> /\ BindAll(Range(MachineBinds), find)
    BY <1>2 DEF SetMachineContext, Idle
  <2> QED BY <2>1, <2>2, <2>3, ContextShows
<1>3. ASSUME NEW i \in Instances, NEW p, NEW v, SetValue(i, p, v) PROVE ListsInv' /\ ShownInv'
  BY <1>3, ListsLeftAlone DEF SetValue
<1>4. ASSUME NEW i \in Instances, NEW s, ChangeList(i, s) PROVE ListsInv' /\ ShownInv'
  BY <1>4, ListChangeShows
<1>5. ASSUME NEW k, ListenerChange(k) PROVE ListsInv' /\ ShownInv'
  BY <1>5, ListsLeftAlone DEF ListenerChange
<1>6. ASSUME NEW p, NEW v, SetProperty(p, v) PROVE ListsInv' /\ ShownInv'
  BY <1>6, ListsLeftAlone DEF SetProperty
<1>7. CASE UpdateArtboard \/ UpdateMachine
  BY <1>7, ListsLeftAlone DEF UpdateArtboard, UpdateMachine
<1>8. CASE BindValue
  <2>1. UNCHANGED <<lists, from>> /\ dirty \cap Lists \subseteq dirty'
    BY <1>8 DEF BindValue, UpdateValue
  <2> QED BY <2>1, ListsLeftAlone
<1>9. CASE BindNothing
  <2>1. /\ dirty' = dirty \ {Current} /\ from[Current] = None
        /\ UNCHANGED <<items, cache, made, crashed, from>>
    BY <1>9 DEF BindNothing, lists
  <2>2. ListsInv'
    BY <2>1 DEF ListsInv
  <2>3. ShownInv'
    BY <2>1 DEF ShownInv
  <2> QED BY <2>2, <2>3
<1>10. CASE BindList
  BY <1>10, ListTurn
<1>11. CASE UNCHANGED vars
  BY <1>11, ListsLeftAlone DEF vars, lists
<1> QED BY <1>1, <1>2, <1>3, <1>4, <1>5, <1>6, <1>7, <1>8, <1>9, <1>10, <1>11
        DEF Next, Turn

LEMMA ShownIsListShown == ASSUME ListIInv PROVE ListShown
<1> SUFFICES ASSUME ~crashed, NEW b \in Lists, from[b] # None, b \notin dirty
             PROVE  [k \in DOMAIN cache[b] |-> cache[b][k].item] = items[from[b]]
  BY DEF ListShown
<1>1. ShownIn(cache[b], items[from[b]])
  BY DEF ListIInv, ShownInv
<1>2. from[b] \in Instances
  BY BindingAssumption DEF ListIInv, IInv, ShapeInv
<1>3. cache[b] \in Seq(Cached) /\ items[from[b]] \in Seq(Items)
  BY <1>2 DEF ListIInv, ListsInv
<1> QED BY <1>1, <1>3 DEF ShownIn

(* A clean bind of a list shows the list's items in their order, whatever  *)
(* was added, removed or swapped, however long the list and whatever the   *)
(* bind had shown before.                                                  *)
THEOREM ListsShown == Spec => []ListShown
<1>1. Init => ListIInv
  BY InitIInv, InitLists DEF ListIInv
<1> QED BY <1>1, StepLists, ShownIsListShown, PTL DEF Spec

(* Of an item that stays on the list the instance stays, too.              *)
THEOREM InstancesStay == Spec => InstancesKept
<1> DEFINE Kept == \A b \in Lists : ~crashed' /\ from'[b] = from[b] /\ queue # <<>> =>
                     \A e \in Range(cache[b]) :
                       Once(cache[b], e) /\ e.item \in Range(items[from[b]]) => e \in Range(cache'[b])
<1>1. Init => ListIInv
  BY InitIInv, InitLists DEF ListIInv
<1>2. ASSUME ListIInv, [Next]_vars
      PROVE  [Kept]_vars
  <2> SUFFICES ASSUME queue # <<>>, NEW b \in Lists,
                      NEW e \in Range(cache[b]), Once(cache[b], e),
                      e.item \in Range(items[from[b]])
               PROVE  e \in Range(cache'[b])
    OBVIOUS
  <2>1. CASE UNCHANGED cache
    BY <2>1
  <2>2. CASE BindList
    <3>1. \/ cache'[b] = cache[b]
          \/ cache'[b] = Updated(cache[b], items[from[b]], made[b]) /\ from[b] # None
      BY <1>2, <2>2 DEF BindList, ListIInv, ListsInv
    <3>2. CASE cache'[b] = cache[b]
      BY <3>2
    <3>3. CASE cache'[b] = Updated(cache[b], items[from[b]], made[b]) /\ from[b] # None
      <4>1. from[b] \in Instances
        BY <1>2, <3>3, BindingAssumption DEF ListIInv, IInv, ShapeInv
      <4>2. cache[b] \in Seq(Cached) /\ items[from[b]] \in Seq(Items) /\ made[b] \in Nat
        BY <1>2, <4>1 DEF ListIInv, ListsInv
      <4>3. PICK i \in DOMAIN cache[b] : cache[b][i] = e
        BY DEF Range
      <4>4. \E k \in DOMAIN items[from[b]] : items[from[b]][k] = cache[b][i].item
        BY <4>3 DEF Range
      <4>5. \E j \in DOMAIN cache'[b] : cache'[b][j] = e
        BY <3>3, <4>2, <4>3, <4>4, UpdatedKeeps
      <4> QED BY <4>5 DEF Range
    <3> QED BY <3>1, <3>2, <3>3
  <2>3. UNCHANGED cache \/ BindList
    BY <1>2 DEF Next, Turn, SetContext, SetMachineContext, SetValue, ChangeList, SetProperty,
                ListenerChange, UpdateArtboard, UpdateMachine, BindValue, BindNothing, Idle,
                lists, vars
  <2> QED BY <2>1, <2>2, <2>3
<1> QED BY <1>1, <1>2, StepLists, PTL DEF Spec, InstancesKept
=============================================================================
