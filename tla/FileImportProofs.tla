-------------------------- MODULE FileImportProofs --------------------------
(***************************************************************************)
(* For any files, of any size, that File::read is given: it gives nothing   *)
(* to an importer that has been resolved, resolves none twice and, when it  *)
(* accepts a file, has resolved all, the backboard's last (ResolvedOnce);   *)
(* an object is handed to the one it was written under; and no two assets   *)
(* share an id while ids are left.  The latest importer is the right one by *)
(* PathInv: the importers of the path from the root to the last object are  *)
(* the latest of their types.                                               *)
(*                                                                          *)
(* And every object is in its owner's list, at the index that the file      *)
(* counts (InPlace), by ListsInv: what an owner was given for a list is     *)
(* what the file has for it so far, and stays so, since an owner whose list *)
(* still grows is on the path.  That needs PlaceholdersFit and, for the     *)
(* second half, NoHeads, which are explained where they are defined.        *)
(***************************************************************************)
EXTENDS FileImport, Induction, SequenceTheorems, TLAPS

Owning == ImporterTypes \ {"part"}

(* Every importer there is was read, and has not been resolved; two types    *)
(* have different importers, but for the part, which is the latest state or  *)
(* the latest transition; the list holds importers that are the latest.      *)
StackInv ==
  /\ \A t \in ImporterTypes :
       latest[t] /= None => latest[t] \in 1 .. Len(file) /\ latest[t] \notin ToSet(done)
  /\ \A k \in DOMAIN done : done[k] \in 1 .. Len(file)
  /\ \A t, u \in Owning : latest[t] /= None /\ latest[t] = latest[u] => t = u
  /\ latest["part"] \in {latest["state"], latest["transition"]}
  /\ \A k \in DOMAIN lastAdded : \E t \in Owning : lastAdded[k] = latest[t]
  /\ \A k \in DOMAIN lastAdded : lastAdded[k] /= None
  /\ IsInjective(lastAdded)

Shape ==
  /\ file \in Seq(Range(file)) /\ added \in Seq(Range(added))
  /\ done \in Seq(Nat) /\ lastAdded \in Seq(Nat)
  /\ DOMAIN latest = ImporterTypes

IInv == Shape /\ OnlyOnce /\ (result = "reading" => StackInv)

(* Appending to a sequence of any values. *)
LEMMA AppendAny ==
  ASSUME NEW s, s \in Seq(Range(s)), NEW e
  PROVE  /\ Append(s, e) \in Seq(Range(Append(s, e)))
         /\ Len(Append(s, e)) = Len(s) + 1
         /\ Append(s, e)[Len(s) + 1] = e
<1> DEFINE S == Range(s) \cup {e}
<1>1. s \in Seq(S)
  BY SeqMonotonic
<1>2. Append(s, e) \in Seq(S) /\ Len(Append(s, e)) = Len(s) + 1 /\ Append(s, e)[Len(s) + 1] = e
  BY <1>1, AppendProperties
<1> QED BY ZenonT(30), <1>2, SeqOfRange

(* erase() takes out the first entry that is e.                             *)
LEMMA EraseIs ==
  ASSUME NEW s \in Seq(Nat), NEW e, \E k \in DOMAIN s : s[k] = e
  PROVE  \E at \in 1 .. Len(s) :
           /\ s[at] = e
           /\ Erase(s, e) \in Seq(Nat) /\ Len(Erase(s, e)) = Len(s) - 1
           /\ \A i \in 1 .. Len(s) - 1 : Erase(s, e)[i] = IF i < at THEN s[i] ELSE s[i + 1]
<1> DEFINE n == Len(s)
           at == CHOOSE k \in DOMAIN s : s[k] = e
           left == SubSeq(s, 1, at - 1)
           right == SubSeq(s, at + 1, n)
           c == left \o right
<1>1. at \in 1 .. n /\ s[at] = e /\ n \in Nat /\ DOMAIN s = 1 .. n
  OBVIOUS
<1>2. \A i \in 1 .. n : s[i] \in Nat
  BY <1>1
<1>4. Erase(s, e) = c
  BY DEF Erase, RemoveAt, at, c, left, right, n
<1> HIDE DEF at, n
<1>3. left \in Seq(Nat) /\ Len(left) = at - 1 /\ \A i \in 1 .. at - 1 : left[i] = s[i]
  <2>1. 1 \in Int /\ at - 1 \in Int /\ \A i \in 1 .. at - 1 : s[i] \in Nat
    BY <1>1, <1>2
  <2>2. (IF 1 <= at - 1 THEN at - 1 - 1 + 1 ELSE 0) = at - 1
        /\ \A i \in 1 .. at - 1 : 1 + i - 1 = i
    BY <1>1
  <2>3. /\ left \in Seq(Nat)
        /\ Len(left) = IF 1 <= at - 1 THEN at - 1 - 1 + 1 ELSE 0
        /\ \A i \in 1 .. at - 1 - 1 + 1 : left[i] = s[1 + i - 1]
    BY SMTT(30), <2>1, SubSeqProperties
  <2>4. \A i \in 1 .. at - 1 : i \in 1 .. at - 1 - 1 + 1
    BY <1>1
  <2> QED BY <2>2, <2>3, <2>4
<1>5. right \in Seq(Nat) /\ Len(right) = n - at
        /\ \A i \in 1 .. n - at : right[i] = s[at + i]
  <2>1. n \in Int /\ at + 1 \in Int /\ \A i \in at + 1 .. n : s[i] \in Nat
    BY <1>1, <1>2
  <2>2. (IF at + 1 <= n THEN n - (at + 1) + 1 ELSE 0) = n - at
        /\ \A i \in 1 .. n - at : at + 1 + i - 1 = at + i
    BY <1>1
  <2>3. /\ right \in Seq(Nat)
        /\ Len(right) = IF at + 1 <= n THEN n - (at + 1) + 1 ELSE 0
        /\ \A i \in 1 .. n - (at + 1) + 1 : right[i] = s[at + 1 + i - 1]
    BY SMTT(30), <2>1, SubSeqProperties
  <2>4. \A i \in 1 .. n - at : i \in 1 .. n - (at + 1) + 1
    BY <1>1
  <2> QED BY <2>2, <2>3, <2>4
<1> HIDE DEF left, right
<1>6. /\ c \in Seq(Nat) /\ Len(c) = Len(left) + Len(right)
      /\ \A i \in 1 .. Len(left) + Len(right) :
           c[i] = IF i <= Len(left) THEN left[i] ELSE right[i - Len(left)]
  BY <1>3, <1>5, ConcatProperties
<1> HIDE DEF c
<1>7. Len(c) = n - 1
  BY SMTT(30), <1>1, <1>3, <1>5, <1>6
<1>8. \A i \in 1 .. n - 1 : c[i] = IF i <= at - 1 THEN left[i] ELSE right[i - (at - 1)]
  BY <1>1, <1>3, <1>5, <1>6
<1>9. ASSUME NEW i \in 1 .. n - 1
      PROVE  c[i] = IF i < at THEN s[i] ELSE s[i + 1]
  <2>1. CASE i < at
    <3>1. i <= at - 1 /\ i \in 1 .. at - 1
      BY <2>1, <1>1
    <3> QED BY <2>1, <1>3, <1>8, <3>1
  <2>2. CASE ~(i < at)
    <3>1. ~(i <= at - 1) /\ i - (at - 1) \in 1 .. n - at /\ at + (i - (at - 1)) = i + 1
      BY <2>2, <1>1
    <3>2. c[i] = right[i - (at - 1)]
      BY <1>8, <3>1
    <3>3. right[i - (at - 1)] = s[at + (i - (at - 1))]
      BY <1>5, <3>1
    <3> QED BY <2>2, <3>1, <3>2, <3>3
  <2> QED BY <2>1, <2>2
<1> QED BY ZenonT(30), <1>1, <1>4, <1>6, <1>7, <1>9 DEF n

(* So a list that has e once loses it and keeps the others in their order.  *)
LEMMA EraseOne ==
  ASSUME NEW s \in Seq(Nat), IsInjective(s), NEW e
  PROVE  /\ Erase(s, e) \in Seq(Nat)
         /\ IsInjective(Erase(s, e))
         /\ \A k \in DOMAIN Erase(s, e) :
              Erase(s, e)[k] /= e /\ \E j \in DOMAIN s : Erase(s, e)[k] = s[j]
         /\ \A j \in DOMAIN s : s[j] /= e => s[j] \in ToSet(Erase(s, e))
         /\ s /= <<>> /\ s[1] /= e => Erase(s, e) /= <<>> /\ Erase(s, e)[1] = s[1]
<1>1. CASE \E k \in DOMAIN s : s[k] = e
  <2> DEFINE c == Erase(s, e)
             n == Len(s)
  <2>1. PICK at \in 1 .. n :
          /\ s[at] = e
          /\ c \in Seq(Nat) /\ Len(c) = n - 1
          /\ \A i \in 1 .. n - 1 : c[i] = IF i < at THEN s[i] ELSE s[i + 1]
    BY <1>1, EraseIs
  <2>2. n \in Nat /\ DOMAIN s = 1 .. n /\ \A i, j \in 1 .. n : s[i] = s[j] => i = j
    BY DEF IsInjective
  <2> HIDE DEF c, n
  <2>3. DOMAIN c = 1 .. n - 1
    BY <2>1, <2>2
  <2> DEFINE From(i) == IF i < at THEN i ELSE i + 1
             To(j) == IF j < at THEN j ELSE j - 1
  <2>4. ASSUME NEW i \in 1 .. n - 1
        PROVE  From(i) \in 1 .. n /\ From(i) /= at /\ c[i] = s[From(i)]
    BY SMTT(30), <2>1, <2>2
  <2>5. \A i, j \in 1 .. n - 1 : From(i) = From(j) => i = j
    BY SMTT(30), <2>1, <2>2
  <2>6. ASSUME NEW j \in 1 .. n, j /= at
        PROVE  To(j) \in 1 .. n - 1 /\ From(To(j)) = j
    BY <2>1, <2>2, <2>6
  <2>7. 1 /= at => To(1) = 1
    BY <2>1
  <2> HIDE DEF From, To
  <2>8. \A i, j \in 1 .. n - 1 : c[i] = c[j] => i = j
    BY <2>2, <2>4, <2>5
  <2>9. ASSUME NEW i \in 1 .. n - 1
        PROVE  c[i] /= e /\ \E j \in 1 .. n : c[i] = s[j]
    BY SMTT(30), <2>1, <2>2, <2>4
  <2>10. ASSUME NEW j \in 1 .. n, s[j] /= e
         PROVE  To(j) \in 1 .. n - 1 /\ c[To(j)] = s[j]
    BY <2>1, <2>4, <2>6, <2>10
  <2>11. \A j \in 1 .. n : s[j] /= e => s[j] \in ToSet(c)
    BY <2>3, <2>10 DEF ToSet
  <2>12. ASSUME s /= <<>>, s[1] /= e
         PROVE  c /= <<>> /\ c[1] = s[1]
    <3>1. 1 \in 1 .. n
      BY <2>2, <2>12 DEF n
    <3>2. To(1) = 1 /\ 1 \in DOMAIN c /\ c[1] = s[1]
      BY <2>1, <2>3, <2>7, <2>10, <2>12, <3>1
    <3> QED BY <3>2
  <2> QED BY <2>1, <2>2, <2>3, <2>8, <2>9, <2>11, <2>12 DEF c, IsInjective
<1>2. CASE ~\E k \in DOMAIN s : s[k] = e
  BY <1>2 DEF Erase, ToSet
<1> QED BY <1>1, <1>2

(* What an importer is given once the object at Here has its importer goes   *)
(* to one that has not been resolved.                                        *)
LEMMA MakeLatestKeeps ==
  ASSUME IInv, result = "reading", file' \in Seq(Range(file')), Len(file') = Len(file) + 1,
         added' \in Seq(Range(added')),
         NEW type \in Owning, NEW with, MakeLatest(type, with)
  PROVE  /\ IInv'
         /\ \A t \in Owning \ {type} : latest[t] /= None => latest[t] \notin ToSet(done')
<1> DEFINE old == latest[type]
           rest == Erase(lastAdded, old)
<1>1. /\ DOMAIN latest = ImporterTypes /\ StackInv /\ OnlyOnce
      /\ done \in Seq(Nat) /\ lastAdded \in Seq(Nat) /\ Len(file) \in Nat
  BY DEF IInv, Shape
<1>2. /\ rest \in Seq(Nat) /\ IsInjective(rest)
      /\ \A k \in DOMAIN rest : rest[k] /= old /\ \E j \in DOMAIN lastAdded : rest[k] = lastAdded[j]
  BY <1>1, EraseOne DEF StackInv
<1>3. Here \in Nat /\ Here = Len(file) + 1 /\ Here /= None
  BY <1>1, FileImportAssumption DEF Here
<1>a. /\ lastAdded' = IF result' = "reading" THEN Append(rest, Here) ELSE rest
      /\ done' = IF old = None THEN done ELSE Append(done, old)
      /\ latest' = Replaced(type, IF result' = "reading" THEN Here ELSE None)
  BY DEF MakeLatest
<1> HIDE DEF rest
<1>b. type \in ImporterTypes /\ (old /= None => old \in 1 .. Len(file) /\ old \notin ToSet(done))
  BY <1>1 DEF StackInv, Owning
<1>4. done' \in Seq(Nat) /\ OnlyOnce' /\ ToSet(done') = ToSet(done) \cup ({old} \ {None})
  <2>1. CASE old = None
    BY <2>1, <1>1, <1>a DEF ToSet, OnlyOnce
  <2>2. CASE old /= None
    <3>1. /\ done' \in Seq(Nat) /\ Len(done') = Len(done) + 1
          /\ \A k \in 1 .. Len(done) : done'[k] = done[k]
          /\ done'[Len(done) + 1] = old
      BY <2>2, <1>1, <1>a, <1>b, AppendProperties
    <3>2. DOMAIN done = 1 .. Len(done) /\ DOMAIN done' = 1 .. Len(done) + 1
      BY <1>1, <3>1
    <3>3. \A k \in 1 .. Len(done) : done[k] /= old
      BY <2>2, <1>b, <3>2 DEF ToSet
    <3>4. \A i, j \in 1 .. Len(done) : done[i] = done[j] => i = j
      BY <1>1, <3>2 DEF OnlyOnce, IsInjective
    <3>5. ASSUME NEW i \in 1 .. Len(done) + 1, NEW j \in 1 .. Len(done) + 1,
                 done'[i] = done'[j]
          PROVE  i = j
      <4>1. Len(done) \in Nat
        BY <1>1
      <4> HIDE DEF old
      <4>2. CASE i \in 1 .. Len(done) /\ j \in 1 .. Len(done)
        <5>1. done[i] = done[j]
          BY <3>1, <3>5, <4>2
        <5> QED BY <3>4, <4>2, <5>1
      <4>3. CASE i = Len(done) + 1 /\ j \in 1 .. Len(done)
        BY <3>1, <3>3, <3>5, <4>3
      <4>4. CASE i \in 1 .. Len(done) /\ j = Len(done) + 1
        BY <3>1, <3>3, <3>5, <4>4
      <4>5. i \in 1 .. Len(done) \/ i = Len(done) + 1
        BY <4>1
      <4>6. j \in 1 .. Len(done) \/ j = Len(done) + 1
        BY <4>1
      <4> QED BY <4>2, <4>3, <4>4, <4>5, <4>6
    <3>6. OnlyOnce'
      BY <3>2, <3>5 DEF OnlyOnce, IsInjective
    <3>7. ToSet(done') \subseteq ToSet(done) \cup {old}
      <4> SUFFICES ASSUME NEW k \in 1 .. Len(done) + 1
                   PROVE  done'[k] \in ToSet(done) \cup {old}
        BY <3>2 DEF ToSet
      <4>1. CASE k \in 1 .. Len(done)
        BY <3>1, <3>2, <4>1 DEF ToSet
      <4>2. CASE k = Len(done) + 1
        BY <3>1, <4>2
      <4> QED BY <1>1, <4>1, <4>2
    <3>8. old \in ToSet(done')
      <4>1. Len(done) + 1 \in DOMAIN done' /\ done'[Len(done) + 1] = old
        BY <1>1, <3>1, <3>2
      <4> QED BY <4>1 DEF ToSet
    <3>9. ToSet(done) \subseteq ToSet(done')
      <4> SUFFICES ASSUME NEW k \in 1 .. Len(done) PROVE done[k] \in ToSet(done')
        BY <3>2 DEF ToSet
      <4>1. k \in DOMAIN done' /\ done'[k] = done[k]
        BY <1>1, <3>1, <3>2
      <4> QED BY <4>1 DEF ToSet
    <3> QED BY <2>2, <3>1, <3>6, <3>7, <3>8, <3>9
  <2> QED BY <2>1, <2>2
<1>5. \A k \in DOMAIN done' : done'[k] \in 1 .. Len(file)
  <2> SUFFICES ASSUME NEW k \in DOMAIN done' PROVE done'[k] \in 1 .. Len(file)
    OBVIOUS
  <2>1. done'[k] \in ToSet(done) \/ (done'[k] = old /\ old /= None)
    BY <1>4 DEF ToSet
  <2>2. done'[k] \in ToSet(done) => done'[k] \in 1 .. Len(file)
    BY <1>1 DEF ToSet, StackInv
  <2> QED BY <1>b, <2>1, <2>2
<1>6. \A t \in Owning \ {type} : latest[t] /= None => latest[t] \notin ToSet(done')
  BY <1>1, <1>4 DEF StackInv, Owning
<1>7. lastAdded' \in Seq(Nat) /\ DOMAIN latest' = ImporterTypes
  BY <1>1, <1>2, <1>3, <1>a, AppendProperties DEF Replaced
<1>8. ASSUME result' = "reading" PROVE StackInv'
  <2>1. latest' = [t \in ImporterTypes |-> IF t \in Types(type) THEN Here ELSE latest[t]]
    BY <1>1, <1>8, <1>a DEF Replaced
  <2>2. /\ Types(type) \subseteq ImporterTypes /\ type \in Types(type)
        /\ Types(type) \subseteq {type, "part"}
        /\ type \in {"state", "transition"} => "part" \in Types(type)
    BY <1>b DEF Types, ImporterTypes
  <2>3. Here \in 1 .. Len(file') /\ Here \notin ToSet(done') /\ 1 .. Len(file) \subseteq 1 .. Len(file')
    BY <1>1, <1>3, <1>5 DEF ToSet
  <2>4. \A t \in ImporterTypes \ Types(type) : latest[t] /= None => latest[t] \notin ToSet(done')
    <3> SUFFICES ASSUME NEW t \in ImporterTypes \ Types(type), latest[t] /= None
                 PROVE  latest[t] \notin ToSet(done')
      OBVIOUS
    <3>1. CASE t \in Owning
      BY <2>2, <3>1, <1>6
    <3>2. CASE t = "part"
      BY <2>2, <3>2, <1>1, <1>6 DEF StackInv, Owning, ImporterTypes
    <3> QED BY <3>1, <3>2 DEF Owning
  <2>5. \A t \in ImporterTypes :
          latest'[t] /= None => latest'[t] \in 1 .. Len(file') /\ latest'[t] \notin ToSet(done')
    BY <1>1, <2>1, <2>3, <2>4 DEF StackInv
  <2>6. \A k \in DOMAIN done' : done'[k] \in 1 .. Len(file')
    BY <1>5, <2>3
  <2>7. \A t, u \in Owning : latest'[t] /= None /\ latest'[t] = latest'[u] => t = u
    BY <1>1, <1>3, <2>1, <2>2 DEF StackInv, Owning
  <2>8. latest'["part"] \in {latest'["state"], latest'["transition"]}
    <3>1. {"part", "state", "transition"} \subseteq ImporterTypes
      BY DEF ImporterTypes
    <3>2. latest["part"] = latest["state"] \/ latest["part"] = latest["transition"]
      BY <1>1 DEF StackInv
    <3>3. CASE type \in {"state", "transition"}
      BY <3>1, <3>3, <2>1, <2>2
    <3>4. CASE type \notin {"state", "transition"}
      <4>1. Types(type) = {type} /\ type /= "part"
        BY <3>4 DEF Types, Owning
      <4> QED BY <3>1, <3>2, <3>4, <4>1, <2>1
    <3> QED BY <3>3, <3>4
  <2>9. /\ lastAdded' \in Seq(Nat) /\ Len(lastAdded') = Len(rest) + 1
        /\ \A k \in 1 .. Len(rest) : lastAdded'[k] = rest[k]
        /\ lastAdded'[Len(rest) + 1] = Here
    BY <1>2, <1>3, <1>8, <1>a, AppendProperties
  <2>10. DOMAIN lastAdded' = 1 .. Len(rest) + 1 /\ DOMAIN rest = 1 .. Len(rest) /\ Len(rest) \in Nat
    BY <1>2, <2>9
  <2>11. \A k \in 1 .. Len(rest) : /\ rest[k] /= None /\ rest[k] \in 1 .. Len(file)
                                   /\ \E t \in Owning \ {type} : rest[k] = latest[t]
    <3> SUFFICES ASSUME NEW k \in 1 .. Len(rest)
                 PROVE  /\ rest[k] /= None /\ rest[k] \in 1 .. Len(file)
                        /\ \E t \in Owning \ {type} : rest[k] = latest[t]
      OBVIOUS
    <3>1. PICK j \in DOMAIN lastAdded : rest[k] = lastAdded[j]
      BY <1>2, <2>10
    <3>2. rest[k] /= None /\ rest[k] /= old
      BY <1>1, <1>2, <2>10, <3>1 DEF StackInv
    <3>3. PICK t \in Owning : rest[k] = latest[t]
      BY <1>1, <3>1 DEF StackInv
    <3> QED BY <1>1, <3>2, <3>3 DEF StackInv, Owning
  <2>12. \A k \in DOMAIN lastAdded' : /\ lastAdded'[k] /= None
                                      /\ \E t \in Owning : lastAdded'[k] = latest'[t]
    <3> SUFFICES ASSUME NEW k \in 1 .. Len(rest) + 1
                 PROVE  /\ lastAdded'[k] /= None
                        /\ \E t \in Owning : lastAdded'[k] = latest'[t]
      BY <2>10
    <3>1. CASE k \in 1 .. Len(rest)
      <4>1. PICK t \in Owning \ {type} : rest[k] = latest[t]
        BY <2>11, <3>1
      <4>2. latest'[t] = latest[t]
        BY <2>1, <2>2, <4>1 DEF Owning
      <4> QED BY <2>9, <2>11, <3>1, <4>1, <4>2
    <3>2. CASE k = Len(rest) + 1
      BY <1>b, <1>3, <2>1, <2>2, <2>9, <3>2
    <3> QED BY <2>10, <3>1, <3>2
  <2>13. IsInjective(lastAdded')
    <3>1. \A i, j \in 1 .. Len(rest) : rest[i] = rest[j] => i = j
      BY <1>2, <2>10 DEF IsInjective
    <3>2. \A i \in 1 .. Len(rest) : rest[i] /= Here
      BY <1>1, <1>3, <2>11
    <3>3. ASSUME NEW i \in 1 .. Len(rest) + 1, NEW j \in 1 .. Len(rest) + 1,
                 lastAdded'[i] = lastAdded'[j]
          PROVE  i = j
      BY SMTT(30), <2>9, <2>10, <3>1, <3>2, <3>3
    <3> QED BY <2>10, <3>3 DEF IsInjective
  <2> QED BY <2>5, <2>6, <2>7, <2>8, <2>12, <2>13 DEF StackInv
<1> QED BY <1>4, <1>6, <1>7, <1>8 DEF IInv, Shape

Late == \E k \in DOMAIN added' : k > Len(added) /\ added'[k].to \in ToSet(done')

LEMMA WritesOne ==
  ASSUME IInv, NEW kind, NEW known, NEW d, NEW ref, Writes(kind, known, d, ref)
  PROVE  /\ result = "reading"
         /\ file' \in Seq(Range(file')) /\ Len(file') = Len(file) + 1
  BY AppendAny DEF Writes, IInv, Shape

(* What Gives adds. *)
LEMMA GivesOne ==
  ASSUME added \in Seq(Range(added)), NEW type, NEW list, NEW what, Gives(type, list, what)
  PROVE  /\ added' \in Seq(Range(added'))
         /\ \A k \in DOMAIN added' : k > Len(added) => added'[k].to = latest[type]
<1> DEFINE e == [to |-> latest[type], list |-> list, what |-> what]
<1> HIDE DEF e
<1>1. added' = Append(added, e) /\ e.to = latest[type]
  BY DEF Gives, e
<1>2. /\ added' \in Seq(Range(added'))
      /\ Len(added') = Len(added) + 1 /\ added'[Len(added) + 1] = e
  BY <1>1, AppendAny
<1>3. \A k \in DOMAIN added' : k > Len(added) => k = Len(added) + 1
  BY <1>2
<1> QED BY <1>1, <1>2, <1>3

(* A step that leaves the stack alone. *)
LEMMA StackLeft ==
  ASSUME IInv, result = "reading", file' \in Seq(Range(file')), Len(file') = Len(file) + 1,
         added' \in Seq(Range(added')), UNCHANGED stack
  PROVE  IInv'
<1>1. 1 .. Len(file) \subseteq 1 .. Len(file')
  BY DEF IInv, Shape
<1>2. StackInv'
  BY <1>1 DEF IInv, StackInv, stack
<1> QED BY <1>2 DEF IInv, Shape, OnlyOnce, stack

(* An object without an importer is given to a latest importer. *)
LEMMA GivenToLatest ==
  ASSUME IInv, result = "reading", NEW type \in ImporterTypes, latest[type] /= None,
         UNCHANGED done,
         \A k \in DOMAIN added' : k > Len(added) => added'[k].to = latest[type]
  PROVE  ~Late
  BY DEF IInv, StackInv, Late

LEMMA LeafStep ==
  ASSUME IInv, NEW kind, NEW d, NEW ref, NEW type \in ImporterTypes, NEW list,
         Known(kind, d, ref, type), Gives(type, list, Here), UNCHANGED stack
  PROVE  IInv' /\ ~Late
<1>1. added \in Seq(Range(added)) /\ Writes(kind, TRUE, d, ref) /\ latest[type] /= None
  BY DEF IInv, Shape, Known
<1>2. UNCHANGED done
  BY DEF stack
<1> QED BY <1>1, <1>2, WritesOne, GivesOne, StackLeft, GivenToLatest

LEMMA HeadStep ==
  ASSUME IInv, NEW kind, NEW d, NEW ref, NEW owner \in Owning, NEW list,
         NEW type \in Owning \ {owner}, NEW with,
         Known(kind, d, ref, owner), Gives(owner, list, Here), Stacks(type, with)
  PROVE  IInv' /\ ~Late
<1>1. /\ added \in Seq(Range(added)) /\ Writes(kind, TRUE, d, ref) /\ latest[owner] /= None
      /\ MakeLatest(type, with)
  BY DEF IInv, Shape, Known, Stacks
<1>2. /\ added' \in Seq(Range(added'))
      /\ \A k \in DOMAIN added' : k > Len(added) => added'[k].to = latest[owner]
  BY <1>1, GivesOne
<1>3. IInv' /\ latest[owner] \notin ToSet(done')
  BY <1>1, <1>2, WritesOne, MakeLatestKeeps
<1> QED BY <1>2, <1>3 DEF Late

LEMMA NothingGiven ==
  ASSUME IInv, NEW kind, NEW known, NEW d, NEW ref, Writes(kind, known, d, ref),
         UNCHANGED <<stack, added>>
  PROVE  IInv' /\ ~Late
<1>1. IInv'
  BY WritesOne, StackLeft DEF IInv, Shape
<1> QED BY <1>1 DEF Late, IInv, Shape

LEMMA BothStep ==
  ASSUME IInv, NEW kind, NEW d, NEW ref, Known(kind, d, ref, "artboard"), NEW list,
         GivesBoth(list), UNCHANGED stack
  PROVE  IInv' /\ ~Late
<1> DEFINE e == [to |-> latest.backboard, list |-> list, what |-> Here]
           f == [to |-> latest.artboard, list |-> "objects", what |-> Here]
<1>1. e.to = latest["backboard"] /\ f.to = latest["artboard"]
  OBVIOUS
<1> HIDE DEF e, f
<1>2. added' = added \o <<e, f>> /\ Writes(kind, TRUE, d, ref)
  BY DEF GivesBoth, Known, e, f
<1> DEFINE S == Range(added) \cup {e, f}
<1>3. added \in Seq(S) /\ <<e, f>> \in Seq(S)
  BY SeqMonotonic DEF IInv, Shape
<1>4. /\ added' \in Seq(S) /\ Len(added') = Len(added) + 2
      /\ added'[Len(added) + 1] = e /\ added'[Len(added) + 2] = f
  <2>1. Len(<<e, f>>) = 2 /\ <<e, f>>[1] = e /\ <<e, f>>[2] = f /\ Len(added) \in Nat
    BY <1>3
  <2>2. /\ added' \in Seq(S) /\ Len(added') = Len(added) + Len(<<e, f>>)
        /\ \A i \in 1 .. Len(added) + Len(<<e, f>>) :
             added'[i] = IF i <= Len(added) THEN added[i] ELSE <<e, f>>[i - Len(added)]
    BY <1>2, <1>3, ConcatProperties
  <2> QED BY <2>1, <2>2
<1>5. added' \in Seq(Range(added'))
  BY <1>4, SeqOfRange
<1>6. IInv'
  BY <1>2, <1>5, WritesOne, StackLeft
<1>7. ASSUME NEW k \in DOMAIN added', k > Len(added) PROVE added'[k] \in {e, f}
  BY <1>3, <1>4, <1>7
<1>8. e.to \notin ToSet(done) /\ f.to \notin ToSet(done)
  <2>1. done \in Seq(Nat) /\ result = "reading"
    BY <1>2, WritesOne DEF IInv, Shape
  <2>2. None \notin ToSet(done)
    BY <2>1, FileImportAssumption DEF ToSet
  <2> QED BY <1>1, <2>1, <2>2 DEF IInv, StackInv, ImporterTypes
<1> QED BY <1>6, <1>7, <1>8 DEF Late, stack

(* An unknown object is offered to importers on the stack. *)
LEMMA NullStep ==
  ASSUME IInv, NEW kind, NEW d, NEW ref, Writes(kind, FALSE, d, ref), ReadNullObject
  PROVE  IInv' /\ ~Late
<1>1. /\ UNCHANGED stack /\ result = "reading" /\ file' \in Seq(Range(file'))
      /\ Len(file') = Len(file) + 1 /\ added \in Seq(Range(added))
  BY WritesOne DEF ReadNullObject, IInv, Shape
<1>2. CASE UNCHANGED added
  BY <1>1, <1>2, StackLeft DEF Late, IInv, Shape
<1>3. CASE ~UNCHANGED added
  <2>1. PICK k \in DOMAIN lastAdded :
           added' = Append(added, [to |-> lastAdded[k], list |-> Keeps[file[lastAdded[k]].kind],
                                   what |-> 0])
    BY <1>3 DEF ReadNullObject
  <2> DEFINE e == [to |-> lastAdded[k], list |-> Keeps[file[lastAdded[k]].kind], what |-> 0]
  <2>2. e.to = lastAdded[k]
    OBVIOUS
  <2> HIDE DEF e
  <2>3. /\ added' \in Seq(Range(added'))
        /\ Len(added') = Len(added) + 1 /\ added'[Len(added) + 1] = e
    BY <1>1, <2>1, AppendAny DEF e
  <2>4. IInv'
    BY <1>1, <2>3, StackLeft
  <2>5. lastAdded[k] \notin ToSet(done)
    BY <1>1 DEF IInv, StackInv, Owning
  <2>6. \A j \in DOMAIN added' : j > Len(added) => j = Len(added) + 1
    BY <1>1, <2>3
  <2> QED BY <1>1, <2>2, <2>3, <2>4, <2>5, <2>6 DEF Late, stack
<1> QED BY <1>2, <1>3

(* At the end the list is resolved backwards, up to one that fails.        *)
LEMMA FinishIs ==
  ASSUME IInv, Finish
  PROVE  \E n \in 1 .. Len(lastAdded) :
           /\ result = "reading" /\ Len(lastAdded) \in Nat /\ Len(done) \in Nat
           /\ done' \in Seq(Nat) /\ DOMAIN done' = 1 .. Len(done) + n
           /\ \A k \in 1 .. Len(done) : done'[k] = done[k]
           /\ \A k \in 1 .. n : done'[Len(done) + k] = lastAdded[Len(lastAdded) - k + 1]
           /\ \A k \in 1 .. n - 1 : Resolves(lastAdded[Len(lastAdded) - k + 1])
           /\ Resolves(lastAdded[Len(lastAdded) - n + 1]) => n = Len(lastAdded)
           /\ result' = IF Resolves(lastAdded[Len(lastAdded) - n + 1])
                        THEN "success" ELSE "malformed"
           /\ DOMAIN latest' = DOMAIN latest /\ lastAdded' = <<>>
           /\ UNCHANGED <<file, open, family, added>>
<1> DEFINE L == Len(lastAdded)
           D == Len(done)
<1>1. PICK n \in DOMAIN lastAdded :
        /\ \A k \in 1 .. n - 1 : Resolves(ResolveOrder[k])
        /\ Resolves(ResolveOrder[n]) => n = Len(lastAdded)
        /\ done' = done \o SubSeq(ResolveOrder, 1, n)
        /\ result' = IF Resolves(ResolveOrder[n]) THEN "success" ELSE "malformed"
        /\ DOMAIN latest' = DOMAIN latest /\ lastAdded' = <<>>
  BY ZenonT(30) DEF Finish, ResolveAll
<1>2. UNCHANGED <<file, open, family, added>> /\ result = "reading"
  BY DEF Finish, disk
<1>3. done \in Seq(Nat) /\ lastAdded \in Seq(Nat) /\ n \in 1 .. L /\ L \in Nat /\ D \in Nat
  BY <1>1, <1>2 DEF IInv, Shape
<1> DEFINE tried == SubSeq(ResolveOrder, 1, n)
<1>4. /\ ResolveOrder \in Seq(Nat) /\ Len(ResolveOrder) = L
      /\ \A k \in 1 .. L : ResolveOrder[k] = lastAdded[L - k + 1]
  BY <1>3 DEF ResolveOrder, Reverse
<1>5. tried \in Seq(Nat) /\ Len(tried) = n /\ \A k \in 1 .. n : tried[k] = lastAdded[L - k + 1]
  <2>1. n \in Int /\ \A i \in 1 .. n : ResolveOrder[i] \in Nat
    <3>1. 1 .. n \subseteq 1 .. L /\ n \in Int
      BY <1>3
    <3>2. \A i \in 1 .. L : ResolveOrder[i] \in Nat
      BY SMTT(30), <1>4
    <3> QED BY <3>1, <3>2
  <2>2. n - 1 + 1 = n /\ 1 .. n \subseteq 1 .. L /\ \A i \in 1 .. n : 1 + i - 1 = i
    BY <1>3
  <2>3. /\ tried \in Seq(Nat) /\ Len(tried) = n
        /\ \A i \in 1 .. n - 1 + 1 : tried[i] = ResolveOrder[1 + i - 1]
    BY <1>3, <2>1, SubSeqProperties
  <2>4. \A i \in 1 .. n : i \in 1 .. n - 1 + 1
    BY <2>2
  <2>5. \A i \in 1 .. n : tried[i] = ResolveOrder[i]
    BY <2>2, <2>3, <2>4
  <2> QED BY <1>4, <2>2, <2>3, <2>5
<1>a. done' = done \o tried
  BY <1>1
<1> HIDE DEF tried
<1>6. /\ done' \in Seq(Nat) /\ Len(done') = D + n
      /\ \A k \in 1 .. D + n : done'[k] = IF k <= D THEN done[k] ELSE tried[k - D]
  <2>1. /\ done' \in Seq(Nat) /\ Len(done') = Len(done) + Len(tried)
        /\ \A k \in 1 .. Len(done) + Len(tried) :
             done'[k] = IF k <= Len(done) THEN done[k] ELSE tried[k - Len(done)]
    BY <1>a, <1>3, <1>5, ConcatProperties
  <2> QED BY <2>1, <1>5
<1>7. DOMAIN done' = 1 .. D + n
  BY <1>6
<1> HIDE DEF L, D
<1>8. \A k \in 1 .. D : done'[k] = done[k]
  BY SMTT(30), <1>3, <1>6
<1>9. ASSUME NEW k \in 1 .. n PROVE done'[D + k] = lastAdded[L - k + 1]
  <2>1. D + k \in 1 .. D + n /\ ~(D + k <= D) /\ (D + k) - D = k
    BY <1>3
  <2> QED BY <1>5, <1>6, <2>1
<1>10. /\ \A k \in 1 .. n - 1 : Resolves(lastAdded[L - k + 1])
       /\ ResolveOrder[n] = lastAdded[L - n + 1]
  <2>1. \A k \in 1 .. n - 1 : k \in 1 .. L
    BY <1>3
  <2>2. \A k \in 1 .. n - 1 : ResolveOrder[k] = lastAdded[L - k + 1]
    BY <1>4, <2>1
  <2> QED BY <1>1, <1>3, <1>4, <2>2
<1>11. /\ Resolves(lastAdded[L - n + 1]) => n = L
       /\ result' = IF Resolves(lastAdded[L - n + 1]) THEN "success" ELSE "malformed"
  BY <1>1, <1>10 DEF L
<1> QED BY <1>1, <1>2, <1>3, <1>6, <1>7, <1>8, <1>9, <1>10, <1>11 DEF L, D

(* At the end every importer on the stack resolves once. *)
LEMMA FinishKeeps ==
  ASSUME IInv, Finish
  PROVE  IInv' /\ ~Late
<1> DEFINE L == Len(lastAdded)
           D == Len(done)
<1>1. PICK n \in 1 .. L :
        /\ result = "reading" /\ L \in Nat /\ D \in Nat
        /\ done' \in Seq(Nat) /\ DOMAIN done' = 1 .. D + n
        /\ \A k \in 1 .. D : done'[k] = done[k]
        /\ \A k \in 1 .. n : done'[D + k] = lastAdded[L - k + 1]
        /\ result' \in {"success", "malformed"}
        /\ DOMAIN latest' = DOMAIN latest /\ lastAdded' = <<>>
        /\ UNCHANGED <<file, added>>
  BY FinishIs
<1>2. StackInv /\ DOMAIN lastAdded = 1 .. L /\ DOMAIN done = 1 .. D
  BY <1>1 DEF IInv, Shape
<1> HIDE DEF L, D
<1>3. \A k \in 1 .. n : L - k + 1 \in 1 .. L
  BY <1>1
<1>4. ASSUME NEW i \in 1 .. n, NEW j \in 1 .. n, lastAdded[L - i + 1] = lastAdded[L - j + 1]
      PROVE  i = j
  <2>1. L - i + 1 = L - j + 1
    BY <1>2, <1>3, <1>4 DEF StackInv, IsInjective
  <2> QED BY <1>1, <2>1
<1>5. ASSUME NEW k \in 1 .. n, NEW i \in 1 .. D PROVE lastAdded[L - k + 1] /= done[i]
  <2>1. lastAdded[L - k + 1] \notin ToSet(done)
    BY <1>2, <1>3 DEF StackInv, Owning
  <2> QED BY <1>2, <2>1 DEF ToSet
<1>6. \A i, j \in 1 .. D : done[i] = done[j] => i = j
  BY <1>2 DEF IInv, OnlyOnce, IsInjective
<1>7. ASSUME NEW i \in 1 .. D + n, NEW j \in 1 .. D + n, done'[i] = done'[j]
      PROVE  i = j
  <2>1. \A k \in 1 .. D + n :
          \/ k \in 1 .. D
          \/ k - D \in 1 .. n /\ done'[k] = lastAdded[L - (k - D) + 1]
    <3> TAKE k \in 1 .. D + n
    <3>1. D \in Nat /\ n \in Int
      BY <1>1
    <3>2. k \in 1 .. D \/ (k - D \in 1 .. n /\ D + (k - D) = k)
      BY <3>1
    <3>3. \A i1 \in 1 .. n : done'[D + i1] = lastAdded[L - i1 + 1]
      BY <1>1
    <3>4. CASE k - D \in 1 .. n /\ D + (k - D) = k
      <4>1. done'[D + (k - D)] = lastAdded[L - (k - D) + 1]
        BY <3>3, <3>4
      <4> QED BY <3>4, <4>1
    <3> QED BY <3>2, <3>4
  <2>2. CASE i \in 1 .. D /\ j \in 1 .. D
    BY <1>1, <1>6, <1>7, <2>2
  <2>3. CASE i \in 1 .. D /\ j \notin 1 .. D
    <3>1. j - D \in 1 .. n /\ done'[j] = lastAdded[L - (j - D) + 1]
      BY <2>1, <2>3
    <3>2. lastAdded[L - (j - D) + 1] /= done[i]
      BY <1>5, <2>3, <3>1
    <3>3. done'[i] = done[i]
      BY <1>1, <2>3
    <3> QED BY <1>7, <3>1, <3>2, <3>3
  <2>4. CASE i \notin 1 .. D /\ j \in 1 .. D
    <3>1. i - D \in 1 .. n /\ done'[i] = lastAdded[L - (i - D) + 1]
      BY <2>1, <2>4
    <3>2. lastAdded[L - (i - D) + 1] /= done[j]
      BY <1>5, <2>4, <3>1
    <3>3. done'[j] = done[j]
      BY <1>1, <2>4
    <3> QED BY <1>7, <3>1, <3>2, <3>3
  <2>5. CASE i \notin 1 .. D /\ j \notin 1 .. D
    <3>1. i - D = j - D
      BY <1>4, <1>7, <2>1, <2>5
    <3> QED BY <1>1, <3>1
  <2> QED BY <2>2, <2>3, <2>4, <2>5
<1>8. OnlyOnce'
  BY <1>1, <1>7 DEF OnlyOnce, IsInjective
<1> QED BY <1>1, <1>8 DEF IInv, Shape, Late

(* One action after the other: no importer that has been resolved is given   *)
(* anything. *)
LEMMA StepKeeps ==
  ASSUME IInv, Next
  PROVE  IInv' /\ ~Late
<1>a. ASSUME UNCHANGED added PROVE ~Late
  BY <1>a DEF Late, IInv, Shape
<1>b. {"backboard", "asset", "artboard", "animation", "keyedObject", "keyedProperty", "machine",
       "layer", "state", "transition", "listener"} = Owning
  BY DEF Owning, ImporterTypes
<1>1. CASE ImportBackboard
  <2> DEFINE e == [kind |-> "backboard", known |-> TRUE, ref |-> None, under |-> None]
  <2> HIDE DEF e
  <2>1. file = <<>> /\ file' = <<e>> /\ result = "reading" /\ MakeLatest("backboard", <<>>)
          /\ UNCHANGED added
    BY <1>1 DEF ImportBackboard, Stacks, e
  <2>2. file' \in Seq(Range(file')) /\ Len(file') = Len(file) + 1
    BY <2>1 DEF Range
  <2>3. IInv'
    BY <1>b, <2>1, <2>2, MakeLatestKeeps DEF IInv, Shape
  <2> QED BY <1>a, <2>1, <2>3
<1>2. CASE ImportFileAsset
  BY <1>b, <1>2, HeadStep DEF ImportFileAsset
<1>3. CASE ImportArtboard
  BY <1>b, <1>3, HeadStep DEF ImportArtboard
<1>4. CASE ImportLinearAnimation
  BY <1>b, <1>4, HeadStep DEF ImportLinearAnimation
<1>5. CASE ImportKeyedObject
  BY <1>b, <1>5, HeadStep DEF ImportKeyedObject
<1>6. CASE ImportKeyedProperty
  BY <1>b, <1>6, HeadStep DEF ImportKeyedProperty
<1>7. CASE ImportStateMachine
  BY <1>b, <1>7, HeadStep DEF ImportStateMachine
<1>8. CASE ImportLayer
  BY <1>b, <1>8, HeadStep DEF ImportLayer
<1>9. CASE ImportLayerState
  BY <1>b, <1>9, HeadStep DEF ImportLayerState
<1>10. CASE ImportStateTransition
  BY <1>b, <1>10, HeadStep DEF ImportStateTransition
<1>11. CASE ImportListener
  BY <1>b, <1>11, HeadStep DEF ImportListener
<1>12. CASE ImportFileAssetContents
  BY <1>12, LeafStep DEF ImportFileAssetContents, NoImporter, ImporterTypes, stack
<1>13. CASE ImportComponent
  BY <1>13, LeafStep DEF ImportComponent, NoImporter, ImporterTypes, stack
<1>14. CASE ImportDataBind
  BY <1>14, LeafStep DEF ImportDataBind, NoImporter, ImporterTypes, stack
<1>15. CASE ImportKeyFrame
  BY <1>15, LeafStep DEF ImportKeyFrame, NoImporter, ImporterTypes, stack
<1>16. CASE ImportInput
  BY <1>16, LeafStep DEF ImportInput, NoImporter, ImporterTypes, stack
<1>17. CASE ImportFireEvent
  BY <1>17, LeafStep DEF ImportFireEvent, NoImporter, ImporterTypes, stack
<1>18. CASE ImportListenerAction
  BY <1>18, LeafStep DEF ImportListenerAction, NoImporter, ImporterTypes, stack
<1>19. CASE ImportBlendAnimation
  BY <1>19, LeafStep DEF ImportBlendAnimation, ImporterTypes, stack
<1>20. CASE ImportNestedArtboard \/ ImportImage
  <2>1. /\ \E list : GivesBoth(list)
        /\ \E kind, d, ref : Known(kind, d, ref, "artboard")
        /\ UNCHANGED stack
    BY <1>20 DEF ImportNestedArtboard, ImportImage, NoImporter
  <2> QED BY <2>1, BothStep
<1>21. CASE ImportTransitionCondition
  <2>1. CASE UNCHANGED added
    BY <1>21, <2>1, NothingGiven DEF ImportTransitionCondition, NoImporter, Known, stack
  <2>2. CASE Gives("transition", "condition", Here)
    BY <1>21, <2>2, LeafStep DEF ImportTransitionCondition, NoImporter, ImporterTypes, stack
  <2> QED BY <1>21, <2>1, <2>2 DEF ImportTransitionCondition
<1>22. CASE ImportOrphan
  BY <1>22, NothingGiven DEF ImportOrphan, stack
<1>23. CASE ReadUnknown
  BY <1>23, NullStep DEF ReadUnknown
<1>24. CASE CutShort
  <2>1. file' \in Seq(Range(file')) /\ result' /= "reading" /\ UNCHANGED <<added, done, lastAdded, latest>>
    BY <1>24, AppendAny DEF CutShort, IInv, Shape
  <2> QED BY <1>a, <2>1 DEF IInv, Shape, OnlyOnce
<1>25. CASE Finish
  BY <1>25, FinishKeeps
<1> QED BY <1>1, <1>2, <1>3, <1>4, <1>5, <1>6, <1>7, <1>8, <1>9, <1>10, <1>11, <1>12, <1>13,
         <1>14, <1>15, <1>16, <1>17, <1>18, <1>19, <1>20, <1>21, <1>22, <1>23, <1>24, <1>25 DEF
         Next

LEMMA InitKeeps == Init => IInv
<1> SUFFICES ASSUME Init PROVE IInv
  OBVIOUS
<1>1. file = <<>> /\ added = <<>> /\ done = <<>> /\ lastAdded = <<>>
        /\ latest = [t \in ImporterTypes |-> None]
  BY DEF Init
<1>2. Shape
  BY <1>1 DEF Shape
<1>3. \A t \in ImporterTypes : latest[t] = None
  BY <1>1
<1>4. "part" \in ImporterTypes /\ "state" \in ImporterTypes
  BY DEF ImporterTypes
<1>5. StackInv
  BY <1>1, <1>3, <1>4 DEF StackInv, Owning, IsInjective
<1> QED BY <1>1, <1>2, <1>5 DEF IInv, OnlyOnce, IsInjective

LEMMA StutterKeeps ==
  ASSUME IInv, UNCHANGED vars
  PROVE  IInv'
<1> USE DEF vars, disk, stack
<1>1. StackInv => StackInv'
  BY DEF StackInv
<1> QED BY <1>1 DEF IInv, Shape, OnlyOnce

(* Nothing is given to an importer that has been resolved: an object that    *)
(* comes later in the file never changes one that is finished.               *)
THEOREM ImportersStayResolved == Spec => NothingLate
<1>1. Init => IInv
  BY InitKeeps
<1>2. IInv /\ [Next]_vars => IInv'
  BY StepKeeps, StutterKeeps
<1>3. IInv /\ [Next]_vars =>
        [\A k \in DOMAIN added' : k > Len(added) => added'[k].to \notin ToSet(done')]_vars
  BY StepKeeps DEF Late
<1> QED BY <1>1, <1>2, <1>3, PTL DEF Spec, NothingLate

(* No importer is resolved twice. *)
THEOREM ImportersResolveOnce == Spec => []OnlyOnce
<1>1. Init => IInv
  BY InitKeeps
<1>2. IInv /\ [Next]_vars => IInv'
  BY StepKeeps, StutterKeeps
<1>3. IInv => OnlyOnce
  BY DEF IInv
<1> QED BY <1>1, <1>2, <1>3, PTL DEF Spec
-----------------------------------------------------------------------------
(* What addFileAsset's loop has after some of the assets: all have kept    *)
(* their ids, and the next one is above them; top is the largest.          *)
Fresh(past, ids, m, top) ==
  /\ past.ids \in Seq(Nat) /\ Len(past.ids) = m /\ \A j \in 1 .. m : past.ids[j] = ids[j]
  /\ past.next \in 0 .. top + 1 /\ \A x \in past.seen : x < past.next
  /\ past.seen = {ids[j] : j \in 1 .. m}

LEMMA NumberKeeps ==
  ASSUME NEW ids \in Seq(Nat), NEW m \in 0 .. Len(ids) - 1, NEW past,
         NEW top \in Nat, top + 1 < Ids, ids[m + 1] <= top,
         Fresh(past, ids, m, top), ids[m + 1] \notin past.seen
  PROVE  Fresh(Number(past, ids[m + 1]), ids, m + 1, top)
<1> DEFINE id == ids[m + 1]
           new == Number(past, id)
<1>1. Len(ids) \in Nat /\ m \in Nat /\ m + 1 \in 1 .. Len(ids)
  OBVIOUS
<1>a. id \in Nat
  BY <1>1
<1>2. /\ past.ids \in Seq(Nat) /\ Len(past.ids) = m /\ \A j \in 1 .. m : past.ids[j] = ids[j]
      /\ past.next \in 0 .. top + 1 /\ \A x \in past.seen : x < past.next
      /\ past.seen = {ids[j] : j \in 1 .. m}
  BY DEF Fresh
<1>b. (id + 1) % Ids = id + 1
  <2>1. id \in Nat /\ id <= top /\ Ids \in Nat \ {0}
    BY <1>a, IdsAssumption
  <2>2. id + 1 < Ids
    BY <2>1
  <2> HIDE DEF id
  <2> QED BY SMTT(30), <2>1, <2>2
<1>3. /\ new.ids = Append(past.ids, id) /\ new.seen = past.seen \cup {id}
      /\ new.next = IF id >= past.next THEN id + 1 ELSE past.next
  BY <1>b DEF Number
<1>c. past.next \in Nat /\ id <= top /\ top + 1 \in Nat
  BY <1>2
<1> HIDE DEF new
<1>4. /\ new.ids \in Seq(Nat) /\ Len(new.ids) = m + 1
      /\ \A j \in 1 .. m : new.ids[j] = past.ids[j]
      /\ new.ids[m + 1] = id
  <2> DEFINE p == past.ids
             q == Append(p, id)
  <2>1. p \in Seq(Nat) /\ Len(p) = m /\ id \in Nat /\ new.ids = q
    BY <1>a, <1>2, <1>3
  <2> HIDE DEF p, id
  <2>2. /\ q \in Seq(Nat) /\ Len(q) = Len(p) + 1 /\ q[Len(p) + 1] = id
        /\ \A j \in 1 .. Len(p) : q[j] = p[j]
    BY SMTT(30), <2>1, AppendProperties
  <2> HIDE DEF q
  <2> QED BY <2>1, <2>2 DEF p
<1>5. \A j \in 1 .. m + 1 : new.ids[j] = ids[j]
  <2> TAKE j \in 1 .. m + 1
  <2>1. j \in 1 .. m \/ j = m + 1
    BY <1>1
  <2> QED BY <1>2, <1>4, <2>1
<1>6. new.next \in 0 .. top + 1 /\ \A x \in new.seen : x < new.next
  <2>1. \A x \in past.seen : x \in Nat /\ x < past.next
    <3>1. \A j \in 1 .. m : ids[j] \in Nat
      BY SMTT(30), <1>1
    <3> QED BY <1>2, <3>1
  <2> HIDE DEF id
  <2>2. CASE id >= past.next
    <3>1. new.next = id + 1 /\ new.next \in 0 .. top + 1
      BY <1>a, <1>c, <1>3, <2>2
    <3>2. \A x \in past.seen : x < id + 1
      BY SMTT(30), <1>a, <1>c, <2>1, <2>2
    <3> QED BY SMTT(30), <1>a, <1>3, <3>1, <3>2
  <2>3. CASE ~(id >= past.next)
    <3>1. new.next = past.next /\ id < past.next
      BY <1>a, <1>c, <1>3, <2>3
    <3> QED BY <1>2, <1>3, <2>1, <3>1
  <2> QED BY <2>2, <2>3
<1>7. new.seen = {ids[j] : j \in 1 .. m + 1}
  <2>1. 1 .. m + 1 = 1 .. m \cup {m + 1}
    BY <1>1
  <2> QED BY SMTT(30), <1>2, <1>3, <2>1
<1> HIDE DEF id
<1> QED BY <1>4, <1>5, <1>6, <1>7 DEF new, id, Fresh

(* The loop numbers one asset at a time.                                   *)
Numbering == [ids : Seq(Nat), seen : SUBSET Nat, next : Nat]

LEMMA NumberIs ==
  ASSUME NEW p \in Numbering, NEW id \in Nat
  PROVE  Number(p, id) \in Numbering /\ Len(Number(p, id).ids) = Len(p.ids) + 1
<1>1. p.ids \in Seq(Nat) /\ p.seen \in SUBSET Nat /\ p.next \in Nat
      /\ p = [ids |-> p.ids, seen |-> p.seen, next |-> p.next]
  BY DEF Numbering
<1>2. \A x \in Nat : Append(p.ids, x) \in Seq(Nat) /\ Len(Append(p.ids, x)) = Len(p.ids) + 1
  BY <1>1, AppendProperties
<1>3. CASE id \in p.seen
  <2>1. Number(p, id) = [ids |-> Append(p.ids, p.next), seen |-> p.seen, next |-> p.next]
    BY <1>1, <1>3 DEF Number
  <2> QED BY <1>1, <1>2, <2>1 DEF Numbering
<1>4. CASE id \notin p.seen
  <2> DEFINE next == IF id >= p.next THEN (id + 1) % Ids ELSE p.next
  <2>1. Number(p, id) = [ids |-> Append(p.ids, id), seen |-> p.seen \cup {id}, next |-> next]
    BY <1>4 DEF Number
  <2>2. next \in Nat
    <3>1. (id + 1) % Ids \in Nat
      BY IdsAssumption
    <3> QED BY <1>1, <3>1
  <2> HIDE DEF next
  <2> QED BY <1>1, <1>2, <2>1, <2>2 DEF Numbering
<1> QED BY <1>3, <1>4

(* The loop's state, from the start.                                       *)
LEMMA PastIs ==
  ASSUME NEW ids \in Seq(Nat)
  PROVE  \E g : /\ UniqueIds(ids) = g[Len(ids)].ids
                /\ g[0] = [ids |-> <<>>, seen |-> {}, next |-> 1]
                /\ \A k \in 1 .. Len(ids) : g[k] = Number(g[k - 1], ids[k])
                /\ g[Len(ids)] \in Numbering /\ Len(g[Len(ids)].ids) = Len(ids)
<1> DEFINE N == Len(ids)
           start == [ids |-> <<>>, seen |-> {}, next |-> 1]
           Step == [p \in Numbering \X (1 .. N) |-> Number(p[1], ids[p[2]])]
           Is(f) == f = [k \in 0 .. N |-> IF k = 0 THEN start ELSE Number(f[k - 1], ids[k])]
           g == CHOOSE f : Is(f)
<1>1. N \in Nat /\ \A k \in 1 .. N : ids[k] \in Nat
  OBVIOUS
<1> HIDE DEF N
<1>2. start \in Numbering /\ Len(start.ids) = 0
  BY DEF Numbering
<1>3. Step \in StepsOf(Numbering, N)
  BY <1>1, NumberIs DEF StepsOf
<1> HIDE DEF start, Step
<1>4. PICK f : CountsUp(f, N, Numbering, start, Step)
  BY <1>1, <1>2, <1>3, CountingDefines
<1>5. /\ f \in [0 .. N -> Numbering] /\ f[0] = start
      /\ \A k \in 1 .. N : f[k] = Step[<<f[k - 1], k>>]
  BY <1>4 DEF CountsUp
<1>6. \A k \in 1 .. N : f[k] = Number(f[k - 1], ids[k])
  <2> SUFFICES ASSUME NEW k \in 1 .. N PROVE f[k] = Number(f[k - 1], ids[k])
    OBVIOUS
  <2>1. k - 1 \in 0 .. N /\ f[k - 1] \in Numbering
    BY <1>1, <1>5
  <2>2. <<f[k - 1], k>> \in Numbering \X (1 .. N)
    BY <2>1
  <2>3. Step[<<f[k - 1], k>>] = Number(f[k - 1], ids[k])
    BY <2>2 DEF Step
  <2> QED BY <1>5, <2>3
<1>7. Is(f)
  <2>1. f = [k \in 0 .. N |-> f[k]]
    BY <1>5
  <2>2. \A k \in 0 .. N : f[k] = IF k = 0 THEN start ELSE Number(f[k - 1], ids[k])
    <3> TAKE k \in 0 .. N
    <3>1. k = 0 \/ k \in 1 .. N
      BY <1>1
    <3> QED BY <1>5, <1>6, <3>1
  <2> QED BY <2>1, <2>2
<1>8. Is(g)
  <2> HIDE DEF Is
  <2> QED BY <1>7
<1>9. UniqueIds(ids) = g[N].ids
  BY DEF UniqueIds, g, Is, start, N
<1> HIDE DEF g
<1>10. g[0] = start /\ \A k \in 1 .. N : g[k] = Number(g[k - 1], ids[k])
  <2>1. \A k \in 0 .. N : g[k] = IF k = 0 THEN start ELSE Number(g[k - 1], ids[k])
    BY <1>8
  <2>2. 0 \in 0 .. N /\ \A k \in 1 .. N : k \in 0 .. N /\ k # 0
    BY <1>1
  <2> QED BY <2>1, <2>2
<1> DEFINE M == {m \in 0 .. N : g[m] \in Numbering /\ Len(g[m].ids) = m}
<1>11. 0 \in M
  BY <1>1, <1>2, <1>10
<1>12. ASSUME NEW m \in 0 .. N - 1, m \in M PROVE m + 1 \in M
  <2>1. m + 1 \in 0 .. N /\ m + 1 \in 1 .. N /\ (m + 1) - 1 = m
    BY <1>1
  <2>2. g[m + 1] = Number(g[m], ids[m + 1]) /\ ids[m + 1] \in Nat
    BY <1>1, <1>10, <2>1
  <2>3. g[m] \in Numbering /\ Len(g[m].ids) = m
    BY <1>12
  <2> QED BY <2>1, <2>2, <2>3, NumberIs
<1>13. N \in M
  <2>1. 0 .. N \subseteq M
    <3> HIDE DEF M
    <3> QED BY <1>1, <1>11, <1>12, BoundedInduction
  <2> QED BY <1>1, <2>1
<1> QED BY <1>9, <1>10, <1>13 DEF N, start

LEMMA IdsAre ==
  ASSUME NEW ids \in Seq(Nat)
  PROVE  UniqueIds(ids) \in Seq(Nat) /\ Len(UniqueIds(ids)) = Len(ids)
<1>1. PICK g : /\ UniqueIds(ids) = g[Len(ids)].ids
               /\ g[Len(ids)] \in Numbering /\ Len(g[Len(ids)].ids) = Len(ids)
  BY PastIs, Zenon
<1> QED BY <1>1 DEF Numbering

(* One more asset, with any id, after assets that have different ids.      *)
LEMMA UniqueIdsAre ==
  ASSUME NEW old \in Seq(Nat), IsInjective(old), NEW id \in Nat,
         NEW top \in Nat, top + 1 < Ids, id <= top, \A j \in 1 .. Len(old) : old[j] <= top
  PROVE  /\ IsInjective(UniqueIds(Append(old, id)))
         /\ \A j \in DOMAIN UniqueIds(Append(old, id)) : UniqueIds(Append(old, id))[j] <= top + 1
<1> DEFINE n == Len(old)
           ids == Append(old, id)
<1>1. /\ n \in Nat /\ ids \in Seq(Nat) /\ Len(ids) = n + 1 /\ ids[n + 1] = id
      /\ \A j \in 1 .. n : ids[j] = old[j] /\ ids[j] <= top
  BY AppendProperties
<1>2. \A i, j \in 1 .. n : ids[i] = ids[j] => i = j
  BY SMTT(30), <1>1 DEF IsInjective
<1> HIDE DEF n, ids
<1>3. PICK g : /\ UniqueIds(ids) = g[n + 1].ids
               /\ g[0] = [ids |-> <<>>, seen |-> {}, next |-> 1]
               /\ \A k \in 1 .. n + 1 : g[k] = Number(g[k - 1], ids[k])
  <2>1. PICK g : /\ UniqueIds(ids) = g[Len(ids)].ids
                 /\ g[0] = [ids |-> <<>>, seen |-> {}, next |-> 1]
                 /\ \A k \in 1 .. Len(ids) : g[k] = Number(g[k - 1], ids[k])
    BY <1>1, PastIs, Zenon
  <2> QED BY <1>1, <2>1
<1> DEFINE M == {m \in 0 .. n : Fresh(g[m], ids, m, top)}
<1>4. 0 \in M
  <2>1. Fresh(g[0], ids, 0, top)
    BY <1>3 DEF Fresh
  <2> QED BY <1>1, <2>1
<1>5. ASSUME NEW m \in 0 .. n - 1, m \in M
      PROVE  m + 1 \in M
  <2>1. m + 1 \in 1 .. n /\ m + 1 \in 1 .. n + 1 /\ (m + 1) - 1 = m /\ m \in 0 .. Len(ids) - 1
        /\ m + 1 \in 0 .. n
    BY <1>1
  <2>2. Fresh(g[m], ids, m, top)
    BY <1>5
  <2>3. ids[m + 1] \notin g[m].seen
    <3>1. g[m].seen = {ids[j] : j \in 1 .. m}
      BY <2>2 DEF Fresh
    <3>2. \A j \in 1 .. m : j \in 1 .. n /\ j # m + 1
      BY <1>1
    <3> QED BY <1>2, <2>1, <3>1, <3>2
  <2>4. g[m + 1] = Number(g[m], ids[m + 1])
    BY <1>3, <2>1
  <2>5. Fresh(g[m + 1], ids, m + 1, top)
    <3>1. ids[m + 1] <= top
      BY <1>1, <2>1
    <3>2. Fresh(Number(g[m], ids[m + 1]), ids, m + 1, top)
      BY <1>1, <2>1, <2>2, <2>3, <3>1, NumberKeeps
    <3> QED BY <2>4, <3>2
  <2> QED BY <2>1, <2>5
<1>6. Fresh(g[n], ids, n, top)
  <2>1. 0 .. n \subseteq M
    <3> HIDE DEF M
    <3> QED BY <1>1, <1>4, <1>5, BoundedInduction
  <2>2. n \in 0 .. n
    BY <1>1
  <2> QED BY <2>1, <2>2
<1> DEFINE p == g[n]
           all == UniqueIds(ids)
           new == IF id \in p.seen THEN p.next ELSE id
<1>7. /\ p.ids \in Seq(Nat) /\ Len(p.ids) = n /\ \A j \in 1 .. n : p.ids[j] = ids[j]
      /\ p.next \in 0 .. top + 1 /\ \A x \in p.seen : x < p.next
      /\ p.seen = {ids[j] : j \in 1 .. n}
  BY <1>6 DEF Fresh
<1>8. all = Append(p.ids, new)
  <2>1. n + 1 \in 1 .. n + 1 /\ (n + 1) - 1 = n
    BY <1>1
  <2>2. all = Number(p, id).ids
    BY <1>1, <1>3, <2>1
  <2> HIDE DEF p
  <2> QED BY <2>2 DEF Number
<1> HIDE DEF p
<1>9. new \in 0 .. top + 1 /\ \A j \in 1 .. n : ids[j] # new
  <2>1. CASE id \in p.seen
    <3>1. \A j \in 1 .. n : ids[j] \in Nat /\ ids[j] \in p.seen
      BY SMTT(30), <1>1, <1>7
    <3>2. \A j \in 1 .. n : ids[j] < p.next
      <4>1. \A x \in p.seen : x < p.next
        BY <1>7
      <4> QED BY <3>1, <4>1
    <3>3. new = p.next /\ p.next \in Nat /\ p.next \in 0 .. top + 1
      BY <1>7, <2>1
    <3>4. \A j \in 1 .. n : ids[j] # p.next
      BY <3>1, <3>2, <3>3
    <3> HIDE DEF new
    <3> QED BY <3>3, <3>4
  <2>2. CASE id \notin p.seen
    BY <1>7, <2>2
  <2> QED BY <2>1, <2>2
<1> HIDE DEF new, all
<1>10. /\ all \in Seq(Nat) /\ Len(all) = n + 1 /\ all[n + 1] = new
       /\ \A j \in 1 .. n : all[j] = p.ids[j]
  BY <1>7, <1>8, <1>9, AppendProperties
<1>11. ASSUME NEW i \in 1 .. n + 1, NEW j \in 1 .. n + 1, all[i] = all[j]
       PROVE  i = j
  <2>1. (i \in 1 .. n \/ i = n + 1) /\ (j \in 1 .. n \/ j = n + 1)
    BY <1>1
  <2>2. \A k \in 1 .. n : all[k] = ids[k]
    BY <1>7, <1>10
  <2>3. CASE i \in 1 .. n /\ j \in 1 .. n
    BY <1>2, <1>11, <2>2, <2>3
  <2>4. CASE i = n + 1 /\ j \in 1 .. n
    BY <1>9, <1>10, <1>11, <2>2, <2>4
  <2>5. CASE i \in 1 .. n /\ j = n + 1
    BY <1>9, <1>10, <1>11, <2>2, <2>5
  <2> QED BY <2>1, <2>3, <2>4, <2>5
<1>12. DOMAIN all = 1 .. n + 1
  BY <1>10
<1>13. \A j \in 1 .. n + 1 : all[j] <= top + 1
  <2> TAKE j \in 1 .. n + 1
  <2>1. CASE j \in 1 .. n
    <3>1. all[j] = ids[j] /\ ids[j] <= top /\ ids[j] \in Nat
      BY SMTT(30), <1>1, <1>7, <1>10, <2>1
    <3> QED BY <3>1
  <2>2. CASE j = n + 1
    BY <1>9, <1>10, <2>2
  <2> QED BY <1>1, <2>1, <2>2
<1> QED BY <1>10, <1>11, <1>12, <1>13 DEF all, ids, IsInjective

(* There are ids left for as many assets.                                  *)
IdsLeft == MaxId + Len(assetIds) < Ids

AssetInv ==
  /\ assetIds \in Seq(Nat)
  /\ IdsLeft => /\ IsInjective(assetIds)
                /\ \A j \in 1 .. Len(assetIds) : assetIds[j] <= MaxId + Len(assetIds)

(* No two assets share an id, whatever ids the file gives them, as long as  *)
(* there are fewer assets than ids above the largest of them.               *)
THEOREM AssetsHaveTheirOwnIds == Spec => [](IdsLeft => AssetIdsUnique)
<1>1. Init => AssetInv
  BY DEF Init, AssetInv, IsInjective
<1>2. AssetInv /\ [Next]_vars => AssetInv'
  <2> SUFFICES ASSUME AssetInv, [Next]_vars PROVE AssetInv'
    OBVIOUS
  <2>1. CASE UNCHANGED assetIds
    <3>1. IdsLeft' = IdsLeft
      BY <2>1 DEF IdsLeft
    <3> QED BY <2>1, <3>1 DEF AssetInv
  <2>2. CASE ImportFileAsset
    <3>1. PICK id \in 0 .. MaxId : assetIds' = UniqueIds(Append(assetIds, id))
      BY <2>2 DEF ImportFileAsset
    <3> DEFINE n == Len(assetIds)
               top == MaxId + n
    <3>2. id \in Nat /\ id <= MaxId /\ n \in Nat /\ assetIds \in Seq(Nat)
      BY IdsAssumption DEF AssetInv
    <3>3. Append(assetIds, id) \in Seq(Nat) /\ Len(Append(assetIds, id)) = n + 1
      BY <3>2, AppendProperties
    <3>4. assetIds' \in Seq(Nat) /\ Len(assetIds') = n + 1
      BY <3>1, <3>3, IdsAre
    <3>5. DOMAIN assetIds' = 1 .. n + 1
      BY <3>4
    <3> HIDE DEF n
    <3>6. ASSUME MaxId + (n + 1) < Ids
          PROVE  /\ IsInjective(assetIds')
                 /\ \A j \in 1 .. n + 1 : assetIds'[j] <= MaxId + (n + 1)
      <4>1. /\ top \in Nat /\ top + 1 < Ids /\ id <= top /\ MaxId + n < Ids
            /\ top + 1 = MaxId + (n + 1)
        BY <3>2, <3>6, IdsAssumption
      <4>2. IsInjective(assetIds) /\ \A j \in 1 .. n : assetIds[j] <= top
        BY <4>1 DEF AssetInv, IdsLeft, n
      <4> HIDE DEF top
      <4> QED BY <3>1, <3>2, <3>5, <4>1, <4>2, UniqueIdsAre DEF n
    <3> QED BY <3>4, <3>6 DEF AssetInv, IdsLeft
  <2>3. CASE Next /\ ~ImportFileAsset
    <3>1. UNCHANGED assetIds
      BY <2>3 DEF Next, ImportBackboard, ImportFileAssetContents, ImportArtboard,
        ImportComponent, ImportNestedArtboard, ImportImage, ImportDataBind, ImportLinearAnimation,
        ImportKeyedObject, ImportKeyedProperty, ImportKeyFrame, ImportStateMachine, ImportInput,
        ImportLayer, ImportLayerState, ImportStateTransition, ImportFireEvent,
        ImportTransitionCondition, ImportBlendAnimation, ImportListener, ImportListenerAction,
        ImportOrphan, ReadUnknown, ReadNullObject, CutShort, Finish
    <3> QED BY SMTT(30), <2>1, <3>1
  <2> QED BY <2>1, <2>2, <2>3 DEF vars
<1>3. AssetInv => (IdsLeft => AssetIdsUnique)
  BY DEF AssetInv, AssetIdsUnique
<1> QED BY <1>1, <1>2, <1>3, PTL DEF Spec
-----------------------------------------------------------------------------
(* The tree of a file, as far as it was read.                              *)

IsWhole(f, W) == W = [p \in DOMAIN f |-> f[p].known /\ (f[p].under = None \/ W[f[p].under])]

(* Owners are written before what they own.                                *)
Treelike(f) ==
  \A p \in DOMAIN f : /\ f[p].known \in BOOLEAN
                      /\ f[p].under = None \/ f[p].under \in 1 .. p - 1

LEMMA WholeDefined ==
  ASSUME NEW f, NEW n \in Nat, DOMAIN f = 1 .. n, Treelike(f)
  PROVE  LET W == CHOOSE W : IsWhole(f, W) IN
         \A p \in 1 .. n : /\ W[p] \in BOOLEAN
                           /\ W[p] = (f[p].known /\ (f[p].under = None \/ W[f[p].under]))
<1> DEFINE Next1(W, p) == f[p].known /\ (f[p].under = None \/ W[f[p].under])
           Upto(W, m) == \A p \in 1 .. m : W[p] = Next1(W, p)
           M == {m \in 0 .. n : \E W \in [1 .. m -> BOOLEAN] : Upto(W, m)}
           W0 == CHOOSE W : IsWhole(f, W)
<1>1. \A p \in 1 .. n : f[p].known \in BOOLEAN /\ (f[p].under = None \/ f[p].under \in 1 .. p - 1)
  BY DEF Treelike
<1>2. 0 \in M
  <2> DEFINE W == [p \in 1 .. 0 |-> TRUE]
  <2>1. W \in [1 .. 0 -> BOOLEAN] /\ Upto(W, 0) /\ 0 \in 0 .. n
    OBVIOUS
  <2> HIDE DEF W, Upto
  <2> QED BY <2>1
<1>3. ASSUME NEW m \in 0 .. n - 1, m \in M
      PROVE  m + 1 \in M
  <2>1. PICK W \in [1 .. m -> BOOLEAN] : Upto(W, m)
    BY <1>3
  <2>2. m \in Nat /\ m + 1 \in 1 .. n /\ m + 1 \in 0 .. n /\ (m + 1) - 1 = m
    OBVIOUS
  <2> DEFINE b == Next1(W, m + 1)
             V == [p \in 1 .. m + 1 |-> IF p = m + 1 THEN b ELSE W[p]]
  <2>3. b \in BOOLEAN
    OBVIOUS
  <2> HIDE DEF b
  <2>4. V \in [1 .. m + 1 -> BOOLEAN]
    <3>1. \A p \in 1 .. m + 1 : p # m + 1 => p \in 1 .. m
      BY <2>2
    <3> QED BY <2>3, <3>1
  <2>5. (\A p \in 1 .. m : V[p] = W[p]) /\ V[m + 1] = b
    BY <2>2
  <2> HIDE DEF V
  <2>6. ASSUME NEW p \in 1 .. m + 1
        PROVE  V[p] = Next1(V, p)
    <3>1. f[p].under # None => f[p].under \in 1 .. m
      <4>1. p \in 1 .. n /\ p \in Int /\ p - 1 <= m
        BY <2>2
      <4> QED BY <1>1, <2>2, <4>1
    <3>2. Next1(V, p) = Next1(W, p)
      BY <2>5, <3>1
    <3>3. CASE p = m + 1
      BY <2>5, <3>2, <3>3 DEF b
    <3>4. CASE p # m + 1
      <4>1. p \in 1 .. m
        BY <2>2, <3>4
      <4>2. W[p] = Next1(W, p)
        BY <2>1, <4>1
      <4> QED BY <2>5, <3>2, <4>1, <4>2
    <3> QED BY <3>3, <3>4
  <2> HIDE DEF Next1
  <2>7. Upto(V, m + 1)
    BY <2>6
  <2> HIDE DEF Upto
  <2> QED BY <2>2, <2>4, <2>7
<1>4. n \in M
  <2>1. 0 .. n \subseteq M
    <3> HIDE DEF M
    <3> QED BY <1>2, <1>3, BoundedInduction
  <2>2. n \in 0 .. n
    OBVIOUS
  <2> QED BY <2>1, <2>2
<1>5. PICK W \in [1 .. n -> BOOLEAN] : Upto(W, n)
  BY <1>4
<1>6. IsWhole(f, W)
  <2> HIDE DEF Next1
  <2>1. W = [p \in DOMAIN f |-> Next1(W, p)]
    BY <1>5
  <2> QED BY <2>1 DEF IsWhole, Next1
<1>7. IsWhole(f, W0)
  BY <1>6
<1> HIDE DEF W0
<1>8. \A p \in 1 .. n : W0[p] = Next1(W0, p)
  BY <1>7 DEF IsWhole
<1>9. \A p \in 1 .. n : W0[p] \in BOOLEAN
  BY <1>8
<1> QED BY <1>8, <1>9 DEF W0

LEMMA WholeIs ==
  /\ Shape /\ Treelike(file) =>
       \A p \in DOMAIN file : /\ Whole[p] \in BOOLEAN
                              /\ Whole[p] = (file[p].known /\ (file[p].under = None \/ Whole[file[p].under]))
  /\ Shape' /\ Treelike(file') =>
       \A p \in DOMAIN file' : /\ Whole'[p] \in BOOLEAN
                               /\ Whole'[p] = (file'[p].known /\ (file'[p].under = None \/ Whole'[file'[p].under]))
<1>1. Whole = CHOOSE W : IsWhole(file, W)
  BY DEF Whole, IsWhole
<1>2. Whole' = CHOOSE W : IsWhole(file', W)
  BY DEF Whole, IsWhole
<1>3. Shape => DOMAIN file = 1 .. Len(file) /\ Len(file) \in Nat
  BY DEF Shape
<1>4. Shape' => DOMAIN file' = 1 .. Len(file') /\ Len(file') \in Nat
  BY DEF Shape
<1>5. ASSUME Shape, Treelike(file)
      PROVE  \A p \in DOMAIN file : /\ Whole[p] \in BOOLEAN
               /\ Whole[p] = (file[p].known /\ (file[p].under = None \/ Whole[file[p].under]))
  <2> DEFINE f == file
             n == Len(file)
             W == CHOOSE W : IsWhole(f, W)
  <2>1. n \in Nat /\ DOMAIN f = 1 .. n /\ Treelike(f)
    BY <1>3, <1>5
  <2> HIDE DEF f, n
  <2>2. \A p \in 1 .. n : W[p] \in BOOLEAN /\ W[p] = (f[p].known /\ (f[p].under = None \/ W[f[p].under]))
    BY <2>1, WholeDefined
  <2>3. Whole = W
    BY <1>1 DEF f
  <2> HIDE DEF W
  <2> QED BY <2>1, <2>2, <2>3 DEF f
<1>6. ASSUME Shape', Treelike(file')
      PROVE  \A p \in DOMAIN file' : /\ Whole'[p] \in BOOLEAN
               /\ Whole'[p] = (file'[p].known /\ (file'[p].under = None \/ Whole'[file'[p].under]))
  <2> DEFINE f == file'
             n == Len(file')
             W == CHOOSE W : IsWhole(f, W)
  <2>1. n \in Nat /\ DOMAIN f = 1 .. n /\ Treelike(f)
    BY <1>4, <1>6
  <2> HIDE DEF f, n
  <2>2. \A p \in 1 .. n : W[p] \in BOOLEAN /\ W[p] = (f[p].known /\ (f[p].under = None \/ W[f[p].under]))
    BY <2>1, WholeDefined
  <2>3. Whole' = W
    BY <1>2 DEF f
  <2> HIDE DEF W
  <2> QED BY <2>1, <2>2, <2>3 DEF f
<1> QED BY <1>5, <1>6

(* One more object.                                                        *)
Adds(o) ==
  /\ Len(file) \in Nat /\ DOMAIN file = 1 .. Len(file) /\ DOMAIN file' = 1 .. Len(file) + 1
  /\ \A p \in 1 .. Len(file) : file'[p] = file[p]
  /\ file'[Len(file) + 1] = o

(* It is whole if its owner is; the others are as they were.               *)
LEMMA WholeKept ==
  ASSUME Shape, Shape', Treelike(file), NEW o, Adds(o), o.known \in BOOLEAN,
         o.under = None \/ o.under \in 1 .. Len(file)
  PROVE  /\ Treelike(file')
         /\ \A p \in DOMAIN file : Whole'[p] = Whole[p]
         /\ Whole'[Len(file) + 1] = (o.known /\ (o.under = None \/ Whole[o.under]))
<1> DEFINE n == Len(file)
<1>1. /\ n \in Nat /\ DOMAIN file = 1 .. n /\ DOMAIN file' = 1 .. n + 1
      /\ \A p \in 1 .. n : file'[p] = file[p]
      /\ file'[n + 1] = o
  BY DEF Adds
<1> HIDE DEF n
<1>2. Treelike(file')
  <2> SUFFICES ASSUME NEW p \in 1 .. n + 1
               PROVE  /\ file'[p].known \in BOOLEAN
                      /\ file'[p].under = None \/ file'[p].under \in 1 .. p - 1
    BY <1>1 DEF Treelike
  <2>1. CASE p \in 1 .. n
    BY <1>1, <2>1 DEF Treelike
  <2>2. CASE p = n + 1
    <3>1. file'[p] = o /\ p - 1 = n
      BY <1>1, <2>2
    <3> QED BY <3>1 DEF n
  <2> QED BY <1>1, <2>1, <2>2
<1> DEFINE M == {m \in 0 .. n : \A p \in 1 .. m : Whole'[p] = Whole[p]}
<1>3. 0 \in M
  BY <1>1
<1>4. ASSUME NEW m \in 0 .. n - 1, m \in M
      PROVE  m + 1 \in M
  <2>1. m + 1 \in 1 .. n /\ m + 1 \in 1 .. n + 1 /\ m + 1 \in 0 .. n /\ (m + 1) - 1 = m
    BY <1>1
  <2>2. \A p \in 1 .. m : Whole'[p] = Whole[p]
    BY <1>4
  <2> DEFINE q == m + 1
  <2>3. q \in DOMAIN file /\ q \in DOMAIN file' /\ file'[q] = file[q]
        /\ (file[q].under = None \/ file[q].under \in 1 .. m)
    BY <1>1, <2>1 DEF Treelike
  <2>4. Whole[q] = (file[q].known /\ (file[q].under = None \/ Whole[file[q].under]))
    BY <2>3, WholeIs
  <2>5. Whole'[q] = (file'[q].known /\ (file'[q].under = None \/ Whole'[file'[q].under]))
    BY <1>2, <2>3, WholeIs
  <2>6. Whole'[q] = Whole[q]
    BY <2>2, <2>3, <2>4, <2>5
  <2>7. \A p \in 1 .. m + 1 : p \in 1 .. m \/ p = q
    BY <2>1
  <2> QED BY <2>1, <2>2, <2>6, <2>7
<1>5. \A p \in 1 .. n : Whole'[p] = Whole[p]
  <2>1. 0 .. n \subseteq M
    <3> HIDE DEF M
    <3> QED BY <1>1, <1>3, <1>4, BoundedInduction
  <2>2. n \in 0 .. n
    BY <1>1
  <2> QED BY <2>1, <2>2
<1>6. Whole'[n + 1] = (o.known /\ (o.under = None \/ Whole[o.under]))
  <2>1. n + 1 \in DOMAIN file' /\ file'[n + 1] = o
    BY <1>1
  <2>2. Whole'[n + 1] = (o.known /\ (o.under = None \/ Whole'[o.under]))
    BY <1>2, <2>1, WholeIs
  <2>3. o.under \in 1 .. n => Whole'[o.under] = Whole[o.under]
    BY <1>5
  <2> QED BY <2>2, <2>3 DEF n
<1> QED BY <1>1, <1>2, <1>5, <1>6 DEF n
-----------------------------------------------------------------------------
(* Kinds are written under kinds of a lower level.                         *)
Level(kind) ==
  CASE kind = "backboard" -> 0
    [] kind \in {"asset", "artboard"} -> 1
    [] kind \in {"contents", "component", "nested", "image", "animation", "machine"} -> 2
    [] kind \in {"bind", "keyedObject", "input", "layer", "listener"} -> 3
    [] kind \in {"keyedProperty", "state", "action"} -> 4
    [] kind \in {"keyFrame", "transition", "blend"} -> 5
    [] OTHER -> 6

LEMMA KindsAre ==
  Kinds = {"asset", "contents", "artboard", "component", "nested", "image", "bind", "animation",
           "keyedObject", "keyedProperty", "keyFrame", "machine", "input", "layer", "state",
           "fireEvent", "transition", "condition", "blend", "listener", "action"}
BY DEF Kinds, Owners

LEMMA OwnersAre ==
  /\ Owners["asset"] = {"backboard"} /\ Owners["contents"] = {"asset"}
  /\ Owners["artboard"] = {"backboard"} /\ Owners["component"] = {"artboard"}
  /\ Owners["nested"] = {"artboard"} /\ Owners["image"] = {"artboard"}
  /\ Owners["bind"] = {"component", "nested", "image"} /\ Owners["animation"] = {"artboard"}
  /\ Owners["keyedObject"] = {"animation"} /\ Owners["keyedProperty"] = {"keyedObject"}
  /\ Owners["keyFrame"] = {"keyedProperty"} /\ Owners["machine"] = {"artboard"}
  /\ Owners["input"] = {"machine"} /\ Owners["layer"] = {"machine"} /\ Owners["state"] = {"layer"}
  /\ Owners["fireEvent"] = {"state", "transition"} /\ Owners["transition"] = {"state"}
  /\ Owners["condition"] = {"transition"} /\ Owners["blend"] = {"state"}
  /\ Owners["listener"] = {"machine"} /\ Owners["action"] = {"listener"}
BY DEF Owners

LEMMA OwnersAreBelow ==
  ASSUME NEW kind \in Kinds, NEW owner \in Owners[kind]
  PROVE  /\ Level(owner) \in Nat /\ Level(kind) \in Nat /\ Level(owner) < Level(kind)
         /\ owner \in Kinds \cup {"backboard"}
BY KindsAre, OwnersAre DEF Level

(* An object asks for the one kind it is written under, or for a part.     *)
LEMMA AsksIs ==
  ASSUME NEW kind \in Kinds \ {"bind"}
  PROVE  /\ kind # "fireEvent" => /\ Owners[kind] = {Asks(kind)}
                                  /\ Asks(kind) \in Owning /\ Asks(kind) # kind
         /\ kind = "fireEvent" => Asks(kind) = "part"
<1>1. CASE kind = "fireEvent"
  BY <1>1 DEF Asks
<1>2. CASE kind # "fireEvent"
  <2>1. PICK o \in Owning : Owners[kind] = {o} /\ o # kind
    BY <1>2, KindsAre, OwnersAre DEF Owning, ImporterTypes
  <2>2. (CHOOSE x \in {o} : TRUE) = o
    OBVIOUS
  <2>3. Asks(kind) = o
    BY <1>2, <2>1, <2>2 DEF Asks
  <2> QED BY <1>2, <2>1, <2>3
<1> QED BY <1>1, <1>2

LEMMA RanksAre ==
  /\ \A kind \in Kinds \cup {"backboard"} : Rank[kind] \in {1, 2, 3}
  /\ \A kind \in Kinds : Owners[kind] \cap {"state", "transition"} # {} /\ Rank[kind] <= 1 =>
       kind \in {"fireEvent", "condition"}
  /\ Rank["fireEvent"] = 1 /\ Rank["condition"] = 1
<1>1. \A kind \in Kinds \cup {"backboard"} : Rank[kind] \in {1, 2, 3}
  BY DEF Rank
<1>2. Rank["fireEvent"] = 1 /\ Rank["condition"] = 1 /\ Rank["transition"] = 2 /\ Rank["blend"] = 3
  BY KindsAre DEF Rank
<1>3. \A kind \in Kinds : Owners[kind] \cap {"state", "transition"} # {} =>
        kind \in {"fireEvent", "condition", "transition", "blend"}
  BY KindsAre, OwnersAre
<1> QED BY <1>1, <1>2, <1>3

-----------------------------------------------------------------------------
(* The path from the root to the last object.                              *)

KindAt(j) == file[open[j]].kind
Importer(p) == Whole[p] /\ file[p].kind \in ImporterTypes
Broken(p) == file[p].kind = "artboard" /\ file[p].ref = "broken"

TreeInv == Treelike(file) /\ open \in Seq(1 .. Len(file))

(* While it is read: the root's importer is the first of the list; no      *)
(* importer that is whole is lost, and none of a broken artboard was       *)
(* resolved.                                                               *)
KeptInv ==
  /\ file # <<>> => latest["backboard"] = 1 /\ lastAdded # <<>> /\ lastAdded[1] = 1
  /\ \A p \in DOMAIN file : file[p].kind \in Kinds \cup {"backboard"}
  /\ \A p \in DOMAIN file : Importer(p) => latest[file[p].kind] # None
  /\ \A p \in DOMAIN file : Importer(p) \/ Broken(p) => p \in ToSet(done) \cup ToSet(lastAdded)
  /\ \A k \in DOMAIN done : ~Broken(done[k])

(* The importers of the path are the latest of their kinds, and that of    *)
(* the last state or transition of the path is the latest part.            *)
PathInv ==
  /\ \A i, j \in DOMAIN open : i < j => Level(KindAt(i)) < Level(KindAt(j))
  /\ \A j \in DOMAIN open : Importer(open[j]) => latest[KindAt(j)] = open[j]
  /\ \A j \in DOMAIN open :
       /\ Importer(open[j]) /\ KindAt(j) \in {"state", "transition"}
       /\ j < Len(open) => Rank[KindAt(j + 1)] <= 1
       => latest["part"] = open[j]

ReadInv == IInv /\ TreeInv /\ (result = "reading" => KeptInv /\ PathInv)

(* An object is written under one of the path.                             *)
NewObject(kind, known, d, ref) ==
  [kind |-> kind, known |-> known, ref |-> ref, under |-> open[d]]

LEMMA WritesGrows ==
  ASSUME ReadInv, NEW kind \in Kinds, NEW known \in BOOLEAN, NEW d \in Places(kind), NEW ref,
         Writes(kind, known, d, ref)
  PROVE  /\ Adds(NewObject(kind, known, d, ref)) /\ result = "reading" /\ Here = Len(file) + 1
         /\ d \in Nat /\ d \in 1 .. Len(open) /\ DOMAIN open = 1 .. Len(open) /\ Len(open) \in Nat
         /\ \A j \in 1 .. Len(open) : open[j] \in 1 .. Len(file)
         /\ DOMAIN open' = 1 .. d + 1 /\ open' \in Seq(1 .. Len(file')) /\ Len(open') = d + 1
         /\ \A j \in 1 .. d : open'[j] = open[j]
         /\ open'[d + 1] = Here
         /\ KindAt(d) \in Owners[kind]
         /\ d < Len(open) => Rank[KindAt(d + 1)] <= Rank[kind]
<1> DEFINE n == Len(file)
           o == NewObject(kind, known, d, ref)
           S == 1 .. n
           T == 1 .. n + 1
           head == SubSeq(open, 1, d)
<1>1. /\ file \in Seq(Range(file)) /\ open \in Seq(S) /\ n \in Nat
      /\ result = "reading"
  BY DEF ReadInv, IInv, Shape, TreeInv, Writes
<1>2. d \in DOMAIN open /\ DOMAIN open = 1 .. Len(open) /\ Len(open) \in Nat
  BY <1>1 DEF Places
<1>3. file' = Append(file, o) /\ open' = Append(head, Here) /\ Here = n + 1
  <2>1. d # 0
    BY <1>2
  <2> QED BY <2>1 DEF Writes, Here, NewObject
<1> HIDE DEF o, n
<1>4. /\ Len(file') = n + 1 /\ file'[n + 1] = o /\ \A p \in 1 .. n : file'[p] = file[p]
      /\ DOMAIN file = 1 .. n /\ DOMAIN file' = 1 .. n + 1
  <2> DEFINE R == Range(file) \cup {o}
  <2>1. file \in Seq(R) /\ o \in R /\ n = Len(file)
    BY <1>1, SeqMonotonic DEF n
  <2> HIDE DEF R
  <2>2. Append(file, o) \in Seq(R)
    BY <2>1, AppendProperties
  <2> QED BY <1>3, <2>1, <2>2, AppendProperties
<1>5. head \in Seq(S) /\ Len(head) = d /\ \A j \in 1 .. d : head[j] = open[j]
  <2>1. /\ d \in Int /\ 1 \in Int /\ \A i \in 1 .. d : open[i] \in S
    BY <1>1, <1>2
  <2>2. d - 1 + 1 = d /\ \A i \in 1 .. d : 1 + i - 1 = i
    BY <1>2
  <2> QED BY <1>1, <1>2, <2>1, <2>2, SubSeqProperties
<1>6. head \in Seq(T) /\ Here \in T
  BY SMTT(30), <1>1, <1>3, <1>5, SeqMonotonic
<1> HIDE DEF head, S, T
<1>7. open' \in Seq(T) /\ Len(open') = d + 1 /\ open'[d + 1] = Here
      /\ \A j \in 1 .. d : open'[j] = open[j]
  BY <1>3, <1>5, <1>6, AppendProperties
<1>8. DOMAIN open' = 1 .. d + 1
  BY <1>7
<1>9. \A j \in 1 .. Len(open) : open[j] \in 1 .. n
  BY <1>1, <1>2 DEF S
<1>10. KindAt(d) \in Owners[kind] /\ (d < Len(open) => Rank[KindAt(d + 1)] <= Rank[kind])
  BY DEF Places, KindAt
<1> QED BY <1>1, <1>2, <1>3, <1>4, <1>7, <1>8, <1>9, <1>10 DEF Adds, n, o, T

(* An object that is whole asks for the importer of its owner and gets it. *)
LEMMA AsksItsOwner ==
  ASSUME ReadInv, result = "reading", NEW kind \in Kinds \ {"bind"}, NEW d \in Places(kind),
         Whole[open[d]]
  PROVE  latest[Asks(kind)] = open[d]
<1> DEFINE o == KindAt(d)
<1>1. d \in DOMAIN open /\ o \in Owners[kind] /\ PathInv
      /\ (d < Len(open) => Rank[KindAt(d + 1)] <= Rank[kind])
  BY DEF Places, KindAt, ReadInv
<1>2. CASE kind # "fireEvent"
  <2>1. o = Asks(kind) /\ o \in ImporterTypes
    BY <1>1, <1>2, AsksIs DEF Owning
  <2> QED BY <1>1, <2>1 DEF PathInv, Importer, KindAt
<1>3. CASE kind = "fireEvent"
  <2>1. Asks(kind) = "part" /\ o \in {"state", "transition"} /\ Rank[kind] = 1
    BY <1>1, <1>3, AsksIs, OwnersAre, RanksAre
  <2>2. Importer(open[d])
    BY <2>1 DEF Importer, ImporterTypes, KindAt
  <2> QED BY <1>1, <2>1, <2>2 DEF PathInv
<1> QED BY <1>2, <1>3
-----------------------------------------------------------------------------
LEMMA TreeGrows ==
  ASSUME ReadInv, IInv', NEW kind \in Kinds, NEW known \in BOOLEAN, NEW d \in Places(kind), NEW ref,
         Writes(kind, known, d, ref)
  PROVE  /\ TreeInv'
         /\ \A p \in DOMAIN file : /\ Whole'[p] = Whole[p] /\ file'[p] = file[p] /\ Importer(p)' = Importer(p)
                                   /\ Broken(p)' = Broken(p)
         /\ Whole'[Here] = (known /\ Whole[open[d]])
         /\ file'[Here] = NewObject(kind, known, d, ref)
         /\ DOMAIN file' = DOMAIN file \cup {Here}
<1> DEFINE o == NewObject(kind, known, d, ref)
<1>1. /\ Adds(o) /\ Here = Len(file) + 1 /\ open' \in Seq(1 .. Len(file'))
      /\ open[d] \in 1 .. Len(file)
  BY WritesGrows
<1>2. Shape /\ Shape' /\ Treelike(file) /\ None \notin Nat
  BY FileImportAssumption DEF ReadInv, IInv, TreeInv
<1>3. o.known = known /\ o.under = open[d]
  BY DEF NewObject
<1> HIDE DEF o
<1>4. /\ Treelike(file')
      /\ \A p \in DOMAIN file : Whole'[p] = Whole[p]
      /\ Whole'[Len(file) + 1] = (o.known /\ (o.under = None \/ Whole[o.under]))
  BY <1>1, <1>2, <1>3, WholeKept
<1>5. o.under # None
  BY <1>1, <1>2, <1>3 DEF Adds
<1>6. \A p \in DOMAIN file : file'[p] = file[p]
  BY <1>1 DEF Adds
<1>7. file'[Here] = o /\ DOMAIN file' = DOMAIN file \cup {Here}
  BY <1>1 DEF Adds
<1> QED BY <1>1, <1>3, <1>4, <1>5, <1>6, <1>7 DEF TreeInv, Importer, Broken, o

(* What is stacked with the object at Here, if it is an importer's.        *)
LatestIs(type) ==
  \A t \in ImporterTypes : latest'[t] = IF t \in Types(type) THEN Here ELSE latest[t]

LEMMA PathGrows ==
  ASSUME ReadInv, IInv', NEW kind \in Kinds, NEW known \in BOOLEAN, NEW d \in Places(kind), NEW ref,
         Writes(kind, known, d, ref),
         \/ UNCHANGED latest /\ ~(Whole'[Here] /\ kind \in ImporterTypes)
         \/ kind \in Owning /\ LatestIs(kind)
  PROVE  PathInv'
<1>1. /\ result = "reading" /\ Here = Len(file) + 1
      /\ d \in Nat /\ d \in 1 .. Len(open) /\ DOMAIN open = 1 .. Len(open) /\ Len(open) \in Nat
      /\ \A j \in 1 .. Len(open) : open[j] \in 1 .. Len(file)
      /\ DOMAIN open' = 1 .. d + 1 /\ Len(open') = d + 1
      /\ \A j \in 1 .. d : open'[j] = open[j]
      /\ open'[d + 1] = Here
      /\ KindAt(d) \in Owners[kind]
      /\ d < Len(open) => Rank[KindAt(d + 1)] <= Rank[kind]
  BY WritesGrows
<1>2. PathInv /\ KeptInv /\ DOMAIN file = 1 .. Len(file)
  BY <1>1 DEF ReadInv, IInv, Shape
<1>3. /\ \A p \in DOMAIN file : Importer(p)' = Importer(p) /\ file'[p] = file[p]
      /\ file'[Here] = NewObject(kind, known, d, ref)
  BY TreeGrows
<1>4. /\ \A j \in 1 .. d : /\ open[j] \in DOMAIN file /\ j \in DOMAIN open
                           /\ KindAt(j)' = KindAt(j) /\ Importer(open[j])' = Importer(open[j])
      /\ KindAt(d + 1)' = kind
  <2>1. ASSUME NEW j \in 1 .. d
        PROVE  /\ open[j] \in DOMAIN file /\ j \in DOMAIN open
               /\ KindAt(j)' = KindAt(j) /\ Importer(open[j])' = Importer(open[j])
    <3>1. open[j] \in DOMAIN file /\ j \in DOMAIN open /\ open'[j] = open[j]
      BY <1>1, <1>2
    <3>2. file'[open[j]] = file[open[j]] /\ Importer(open[j])' = Importer(open[j])
      BY <1>3, <3>1 DEF Importer
    <3> QED BY <3>1, <3>2 DEF KindAt
  <2>2. KindAt(d + 1)' = kind
    BY <1>1, <1>3 DEF KindAt, NewObject
  <2> QED BY <2>1, <2>2
<1>5. \A j \in 1 .. d + 1 : j \in 1 .. d \/ j = d + 1
  BY <1>1
<1>6. \A j \in 1 .. d : Level(KindAt(j)) \in Nat /\ Level(kind) \in Nat /\ Level(KindAt(j)) < Level(kind)
  <2> TAKE j \in 1 .. d
  <2>1. Level(KindAt(d)) \in Nat /\ Level(kind) \in Nat /\ Level(KindAt(d)) < Level(kind)
    BY <1>1, OwnersAreBelow
  <2>2. CASE j = d
    BY <2>1, <2>2
  <2>3. CASE j < d
    <3>1. KindAt(j) \in Kinds \cup {"backboard"}
      BY <1>2, <1>4 DEF KeptInv, KindAt
    <3>2. Level(KindAt(j)) \in Nat
      BY <3>1, KindsAre DEF Level
    <3>3. Level(KindAt(j)) < Level(KindAt(d))
      <4>1. j \in DOMAIN open /\ d \in DOMAIN open
        BY <1>1, <1>4
      <4>2. \A x, y \in DOMAIN open : x < y => Level(KindAt(x)) < Level(KindAt(y))
        BY <1>2 DEF PathInv
      <4> QED BY <2>3, <4>1, <4>2
    <3> QED BY <2>1, <3>2, <3>3
  <2> QED BY <1>1, <2>2, <2>3
<1>7. ASSUME NEW i \in 1 .. d + 1, NEW j \in 1 .. d + 1, i < j
      PROVE  Level(KindAt(i))' < Level(KindAt(j))'
  <2>1. i \in 1 .. d
    BY <1>1, <1>7
  <2>2. CASE j \in 1 .. d
    <3>1. Level(KindAt(i)) < Level(KindAt(j))
      BY <1>2, <1>4, <1>7, <2>1, <2>2 DEF PathInv
    <3> QED BY <1>4, <2>1, <2>2, <3>1
  <2>3. CASE j = d + 1
    BY <1>4, <1>6, <2>1, <2>3
  <2> QED BY <1>5, <2>2, <2>3
<1>8. ASSUME NEW j \in 1 .. d + 1, Importer(open[j])'
      PROVE  latest'[KindAt(j)'] = open'[j]
  <2>1. CASE j \in 1 .. d
    <3>1. latest[KindAt(j)] = open[j] /\ KindAt(j) \in ImporterTypes /\ open'[j] = open[j]
      BY <1>1, <1>2, <1>4, <1>8, <2>1 DEF PathInv, Importer, KindAt
    <3>2. KindAt(j) # kind
      BY <1>6, <2>1
    <3>3. KindAt(j) # "part"
      <4>1. KindAt(j) \in Kinds \cup {"backboard"}
        BY <1>2, <1>4, <2>1 DEF KeptInv, KindAt
      <4> QED BY <4>1, KindsAre
    <3>4. latest'[KindAt(j)] = latest[KindAt(j)]
      BY <3>1, <3>2, <3>3 DEF LatestIs, Types
    <3> QED BY <1>4, <2>1, <3>1, <3>4
  <2>2. CASE j = d + 1
    <3>1. Whole'[Here] /\ kind \in ImporterTypes
      BY <1>1, <1>4, <1>8, <2>2 DEF Importer, KindAt
    <3>2. latest'[kind] = Here
      <4>1. kind \in Owning /\ LatestIs(kind)
        BY <3>1
      <4>2. kind \in ImporterTypes /\ kind \in Types(kind)
        BY <4>1 DEF Owning, Types
      <4> QED BY <4>1, <4>2 DEF LatestIs
    <3> QED BY <1>1, <1>4, <2>2, <3>2
  <2> QED BY <1>5, <2>1, <2>2
<1>9. ASSUME NEW j \in 1 .. d + 1, Importer(open[j])', KindAt(j)' \in {"state", "transition"},
             j < d + 1 => Rank[KindAt(j + 1)'] <= 1
      PROVE  latest'["part"] = open'[j]
  <2>1. "part" \in ImporterTypes
    BY DEF ImporterTypes
  <2>2. CASE j = d + 1
    <3>1. Whole'[Here] /\ kind \in ImporterTypes /\ kind \in {"state", "transition"}
      BY <1>1, <1>4, <1>9, <2>2 DEF Importer, KindAt
    <3>2. latest'["part"] = Here
      <4>1. LatestIs(kind)
        BY <3>1
      <4>2. "part" \in Types(kind)
        BY <3>1 DEF Types
      <4> QED BY <2>1, <4>1, <4>2 DEF LatestIs
    <3> QED BY <1>1, <2>2, <3>2
  <2>3. CASE j = d
    <3>1. Rank[kind] <= 1 /\ KindAt(d) \in {"state", "transition"} /\ Importer(open[d])
      BY <1>1, <1>4, <1>9, <2>3
    <3>2. kind \in {"fireEvent", "condition"} /\ Rank[kind] = 1
      BY <1>1, <3>1, RanksAre
    <3>3. latest["part"] = open[d]
      BY <1>1, <1>2, <3>1, <3>2 DEF PathInv
    <3>4. latest'["part"] = latest["part"]
      BY <3>2 DEF Owning, ImporterTypes
    <3> QED BY <1>1, <2>3, <3>3, <3>4
  <2>4. CASE j < d
    <3>1. j \in 1 .. d /\ j + 1 \in 1 .. d /\ j < Len(open)
      BY SMTT(30), <1>1, <2>4
    <3>2. KindAt(j) \in {"state", "transition"} /\ Importer(open[j]) /\ Rank[KindAt(j + 1)] <= 1
      BY SMTT(30), <1>1, <1>4, <1>9, <3>1
    <3>3. latest["part"] = open[j]
      BY <1>1, <1>2, <1>4, <3>1, <3>2 DEF PathInv
    <3>4. kind \notin {"state", "transition"}
      <4>1. /\ Level(KindAt(j)) < Level(KindAt(j + 1)) /\ Level(KindAt(j + 1)) < Level(kind)
            /\ Level(KindAt(j)) \in Nat /\ Level(KindAt(j + 1)) \in Nat /\ Level(kind) \in Nat
        BY <1>2, <1>4, <1>6, <3>1, <2>4 DEF PathInv
      <4>2. Level(KindAt(j)) >= 4
        BY <3>2 DEF Level
      <4>3. Level(kind) >= 6
        BY <4>1, <4>2
      <4> QED BY <4>3 DEF Level
    <3>5. latest'["part"] = latest["part"]
      BY <2>1, <3>4 DEF LatestIs, Types, Owning
    <3> QED BY <1>1, <3>1, <3>3, <3>5
  <2> QED BY <1>1, <2>2, <2>3, <2>4
<1> QED BY <1>1, <1>7, <1>8, <1>9 DEF PathInv
-----------------------------------------------------------------------------
(* An object that has no importer of its own.                              *)
LEMMA KeptByLeaf ==
  ASSUME ReadInv, IInv', NEW kind \in Kinds, NEW known \in BOOLEAN, NEW d \in Places(kind), NEW ref,
         Writes(kind, known, d, ref), UNCHANGED stack,
         ~(Whole'[Here] /\ kind \in ImporterTypes), ~(kind = "artboard" /\ ref = "broken")
  PROVE  KeptInv'
<1>1. /\ \A p \in DOMAIN file : /\ Importer(p)' = Importer(p) /\ file'[p] = file[p]
                                /\ Broken(p)' = Broken(p)
      /\ file'[Here] = NewObject(kind, known, d, ref)
      /\ DOMAIN file' = DOMAIN file \cup {Here}
  BY TreeGrows
<1>2. UNCHANGED <<latest, lastAdded, done>> /\ result = "reading" /\ KeptInv /\ file # <<>>
  <2>1. result = "reading" /\ open[d] \in 1 .. Len(file)
    BY WritesGrows
  <2> QED BY <2>1 DEF ReadInv, stack
<1>3. file'[Here].kind = kind /\ file'[Here].ref = ref
  BY <1>1 DEF NewObject
<1>4. \A p \in DOMAIN file' : Importer(p)' => p \in DOMAIN file
  BY <1>1, <1>3 DEF Importer
<1>5. \A p \in DOMAIN file' : Broken(p)' => p \in DOMAIN file
  BY <1>1, <1>3 DEF Broken
<1>6. \A p \in DOMAIN file' : file'[p].kind \in Kinds \cup {"backboard"}
  BY <1>1, <1>2, <1>3 DEF KeptInv
<1>7. \A p \in DOMAIN file' : Importer(p)' => latest'[file'[p].kind] # None
  BY <1>1, <1>2, <1>4 DEF KeptInv
<1>8. \A p \in DOMAIN file' : Importer(p)' \/ Broken(p)' => p \in ToSet(done') \cup ToSet(lastAdded')
  BY <1>1, <1>2, <1>4, <1>5 DEF KeptInv
<1>9. \A k \in DOMAIN done' : ~Broken(done[k])'
  <2>1. \A k \in DOMAIN done : done[k] \in DOMAIN file /\ ~Broken(done[k])
    BY <1>2 DEF ReadInv, IInv, StackInv, Shape, KeptInv
  <2>2. \A k \in DOMAIN done : file'[done[k]] = file[done[k]]
    BY <1>1, <2>1
  <2> QED BY <1>2, <2>1, <2>2 DEF Broken
<1> QED BY <1>2, <1>6, <1>7, <1>8, <1>9 DEF KeptInv

(* An object that gets an importer: the one it replaces is resolved.       *)
LEMMA KeptByHead ==
  ASSUME ReadInv, IInv', NEW kind \in Kinds \cap Owning, NEW d \in Places(kind), NEW ref,
         Writes(kind, TRUE, d, ref), NEW with, MakeLatest(kind, with), result' = "reading"
  PROVE  KeptInv' /\ LatestIs(kind)
<1> DEFINE old == latest[kind]
           rest == Erase(lastAdded, old)
<1>1. /\ \A p \in DOMAIN file : /\ Importer(p)' = Importer(p) /\ file'[p] = file[p]
                                /\ Broken(p)' = Broken(p)
      /\ file'[Here] = NewObject(kind, TRUE, d, ref)
      /\ DOMAIN file' = DOMAIN file \cup {Here}
  BY TreeGrows
<1>2. /\ result = "reading" /\ KeptInv /\ StackInv /\ file # <<>> /\ Here \in Nat
      /\ DOMAIN file = 1 .. Len(file) /\ Len(file) \in Nat
      /\ done \in Seq(Nat) /\ lastAdded \in Seq(Nat) /\ DOMAIN latest = ImporterTypes
  <2>1. result = "reading" /\ open[d] \in 1 .. Len(file) /\ Here = Len(file) + 1
    BY WritesGrows
  <2> QED BY <2>1 DEF ReadInv, IInv, Shape
<1>3. /\ old = None \/ Resolves(old)
      /\ latest' = Replaced(kind, Here)
      /\ lastAdded' = Append(rest, Here)
      /\ done' = IF old = None THEN done ELSE Append(done, old)
  BY DEF MakeLatest
<1>4. LatestIs(kind)
  BY <1>2, <1>3 DEF Replaced, LatestIs
<1>5. file'[Here].kind = kind
  BY <1>1 DEF NewObject
<1>6. old # None => old \in DOMAIN file
  BY <1>2 DEF StackInv, Owning
<1>7. old # 1 /\ kind # "backboard"
  <2>1. kind # "backboard"
    BY KindsAre
  <2>2. latest["backboard"] = 1 /\ "backboard" \in Owning /\ 1 # None
    BY <1>2, FileImportAssumption DEF KeptInv, Owning, ImporterTypes
  <2> QED BY <1>2, <2>1, <2>2 DEF StackInv
<1>8. /\ rest \in Seq(Nat) /\ rest # <<>> /\ rest[1] = 1
      /\ \A j \in DOMAIN lastAdded : lastAdded[j] # old => lastAdded[j] \in ToSet(rest)
  <2>1. IsInjective(lastAdded) /\ lastAdded # <<>> /\ lastAdded[1] = 1
    BY <1>2 DEF StackInv, KeptInv
  <2> QED BY <1>2, <1>7, <2>1, EraseOne
<1> HIDE DEF rest, old
<1>9. /\ Len(rest) \in Nat /\ DOMAIN rest = 1 .. Len(rest) /\ 1 \in 1 .. Len(rest)
      /\ lastAdded' \in Seq(Nat) /\ DOMAIN lastAdded' = 1 .. Len(rest) + 1
      /\ \A k \in 1 .. Len(rest) : lastAdded'[k] = rest[k]
      /\ lastAdded'[Len(rest) + 1] = Here
  <2>1. Len(rest) \in Nat /\ DOMAIN rest = 1 .. Len(rest) /\ 1 \in 1 .. Len(rest)
    BY <1>8
  <2>2. lastAdded' \in Seq(Nat) /\ Len(lastAdded') = Len(rest) + 1
        /\ (\A k \in 1 .. Len(rest) : lastAdded'[k] = rest[k])
        /\ lastAdded'[Len(rest) + 1] = Here
    BY <1>2, <1>3, <1>8, AppendProperties
  <2> QED BY <2>1, <2>2
<1>10. lastAdded' # <<>> /\ lastAdded'[1] = 1 /\ Here \in ToSet(lastAdded')
       /\ ToSet(rest) \subseteq ToSet(lastAdded')
  <2>1. Len(rest) + 1 \in DOMAIN lastAdded' /\ 1 \in DOMAIN lastAdded' /\ lastAdded'[1] = 1
    BY <1>8, <1>9
  <2>2. \A k \in DOMAIN rest : k \in DOMAIN lastAdded' /\ lastAdded'[k] = rest[k]
    BY <1>9
  <2> QED BY <1>9, <2>1, <2>2 DEF ToSet
<1>11. /\ \A k \in DOMAIN done' : done'[k] \in ToSet(done) \/ (done'[k] = old /\ old # None)
       /\ ToSet(done) \subseteq ToSet(done')
       /\ old # None => old \in ToSet(done')
  <2>1. CASE old = None
    BY <1>3, <2>1 DEF ToSet
  <2>2. CASE old # None
    <3>1. /\ Len(done) \in Nat /\ DOMAIN done = 1 .. Len(done) /\ DOMAIN done' = 1 .. Len(done) + 1
          /\ \A k \in 1 .. Len(done) : done'[k] = done[k]
          /\ done'[Len(done) + 1] = old
      <4>1. old \in Nat /\ done' = Append(done, old)
        BY <1>2, <1>3, <1>6, <2>2
      <4> QED BY <1>2, <4>1, AppendProperties
    <3>2. Len(done) + 1 \in DOMAIN done' /\ \A k \in DOMAIN done' : k \in 1 .. Len(done) \/ k = Len(done) + 1
      BY <3>1
    <3>3. old \in ToSet(done')
      BY <3>1, <3>2 DEF ToSet
    <3>4. ToSet(done) \subseteq ToSet(done')
      <4>1. \A k \in DOMAIN done : k \in DOMAIN done' /\ done'[k] = done[k]
        BY <3>1
      <4> QED BY <4>1 DEF ToSet
    <3>5. \A k \in DOMAIN done' : done'[k] \in ToSet(done) \/ done'[k] = old
      BY <3>1, <3>2 DEF ToSet
    <3> QED BY <2>2, <3>3, <3>4, <3>5
  <2> QED BY <2>1, <2>2
<1>12. \A p \in DOMAIN file' : file'[p].kind \in Kinds \cup {"backboard"}
  BY <1>1, <1>2, <1>5 DEF KeptInv
<1>13. ASSUME NEW p \in DOMAIN file', Importer(p)'
       PROVE  latest'[file'[p].kind] # None
  <2>1. Here # None /\ Here \in Nat
    BY <1>2, FileImportAssumption
  <2>2. CASE p = Here
    <3>1. kind \in ImporterTypes /\ kind \in Types(kind)
      BY DEF Owning, Types
    <3> QED BY <1>4, <1>5, <2>1, <2>2, <3>1 DEF LatestIs
  <2>3. CASE p \in DOMAIN file
    <3>1. Importer(p) /\ file'[p].kind = file[p].kind /\ latest[file[p].kind] # None
          /\ file[p].kind \in ImporterTypes
      BY <1>1, <1>2, <1>13, <2>3 DEF KeptInv, Importer
    <3> QED BY <1>4, <2>1, <3>1 DEF LatestIs
  <2> QED BY <1>1, <2>2, <2>3
<1>14. ASSUME NEW p \in DOMAIN file', Importer(p)' \/ Broken(p)'
       PROVE  p \in ToSet(done') \cup ToSet(lastAdded')
  <2>1. CASE p = Here
    BY <1>10, <2>1
  <2>2. CASE p \in DOMAIN file
    <3>1. p \in ToSet(done) \cup ToSet(lastAdded)
      BY <1>1, <1>2, <1>14, <2>2 DEF KeptInv
    <3>2. p \in ToSet(lastAdded) /\ p # old => p \in ToSet(rest)
      BY <1>8 DEF ToSet
    <3>3. p = old => old # None
      BY <1>2, <2>2, FileImportAssumption
    <3> QED BY <1>10, <1>11, <3>1, <3>2, <3>3
  <2> QED BY <1>1, <2>1, <2>2
<1>15. ASSUME NEW k \in DOMAIN done'
       PROVE  ~Broken(done[k])'
  <2>1. CASE done'[k] \in ToSet(done)
    <3>1. PICK j \in DOMAIN done : done[j] = done'[k]
      BY <2>1 DEF ToSet
    <3>2. done[j] \in DOMAIN file /\ ~Broken(done[j])
      BY <1>2 DEF StackInv, KeptInv
    <3>3. file'[done[j]] = file[done[j]]
      BY <1>1, <3>2
    <3> QED BY <3>1, <3>2, <3>3 DEF Broken
  <2>2. CASE done'[k] = old /\ old # None
    <3>1. old \in DOMAIN file /\ Resolves(old)
      BY <1>3, <1>6, <2>2
    <3>2. ~Broken(old)
      BY <3>1 DEF Resolves, Broken
    <3>3. file'[old] = file[old]
      BY <1>1, <3>1
    <3> QED BY <2>2, <3>2, <3>3 DEF Broken
  <2> QED BY <1>11, <2>1, <2>2
<1>16. file' # <<>> => latest'["backboard"] = 1
  <2>1. "backboard" \in ImporterTypes /\ "backboard" \notin Types(kind)
    BY <1>7 DEF ImporterTypes, Types
  <2> QED BY <1>2, <1>4, <2>1 DEF KeptInv, LatestIs
<1> QED BY <1>4, <1>10, <1>12, <1>13, <1>14, <1>15, <1>16 DEF KeptInv
-----------------------------------------------------------------------------
(* What a step does to the stack.                                          *)
IsHead == \E kind \in Kinds \cap Owning : \E d \in Places(kind) : \E ref, with :
            Writes(kind, TRUE, d, ref) /\ MakeLatest(kind, with)
IsLeaf == \E kind \in Kinds \ ImporterTypes : \E d \in Places(kind) : \E ref :
            Writes(kind, TRUE, d, ref) /\ UNCHANGED stack

LEMMA HeadIs ==
  ASSUME NEW kind \in Kinds \cap Owning, NEW d \in Places(kind), NEW ref, NEW type, NEW with,
         Known(kind, d, ref, type), Stacks(kind, with)
  PROVE  IsHead
BY DEF Known, Stacks, IsHead

LEMMA LeafIs ==
  ASSUME NEW kind \in Kinds \ ImporterTypes, NEW d \in Places(kind), NEW ref, NEW type,
         Known(kind, d, ref, type), UNCHANGED stack
  PROVE  IsLeaf
BY DEF Known, IsLeaf

LEMMA StepIs ==
  ASSUME Next
  PROVE  ImportBackboard \/ IsHead \/ IsLeaf \/ ImportOrphan \/ ReadUnknown \/ CutShort \/ Finish
<1>a. {"asset", "artboard", "animation", "keyedObject", "keyedProperty", "machine", "layer", "state",
       "transition", "listener"} \subseteq Kinds \cap Owning
  BY KindsAre DEF Owning, ImporterTypes
<1>b. {"contents", "component", "nested", "image", "bind", "keyFrame", "input", "fireEvent",
       "condition", "blend", "action"} \subseteq Kinds \ ImporterTypes
  BY KindsAre DEF ImporterTypes
<1>2. CASE ImportFileAsset
  BY <1>a, <1>2, HeadIs DEF ImportFileAsset
<1>3. CASE ImportArtboard
  BY <1>a, <1>3, HeadIs DEF ImportArtboard
<1>4. CASE ImportLinearAnimation
  BY <1>a, <1>4, HeadIs DEF ImportLinearAnimation
<1>5. CASE ImportKeyedObject
  BY <1>a, <1>5, HeadIs DEF ImportKeyedObject
<1>6. CASE ImportKeyedProperty
  BY <1>a, <1>6, HeadIs DEF ImportKeyedProperty
<1>7. CASE ImportStateMachine
  BY <1>a, <1>7, HeadIs DEF ImportStateMachine
<1>8. CASE ImportLayer
  BY <1>a, <1>8, HeadIs DEF ImportLayer
<1>9. CASE ImportLayerState
  BY <1>a, <1>9, HeadIs DEF ImportLayerState
<1>10. CASE ImportStateTransition
  BY <1>a, <1>10, HeadIs DEF ImportStateTransition
<1>11. CASE ImportListener
  BY <1>a, <1>11, HeadIs DEF ImportListener
<1>12. CASE ImportFileAssetContents
  BY <1>b, <1>12, LeafIs DEF ImportFileAssetContents, NoImporter
<1>13. CASE ImportComponent
  BY <1>b, <1>13, LeafIs DEF ImportComponent, NoImporter
<1>14. CASE ImportDataBind
  BY <1>b, <1>14, LeafIs DEF ImportDataBind, NoImporter
<1>15. CASE ImportKeyFrame
  BY <1>b, <1>15, LeafIs DEF ImportKeyFrame
<1>16. CASE ImportInput
  BY <1>b, <1>16, LeafIs DEF ImportInput, NoImporter
<1>17. CASE ImportFireEvent
  BY <1>b, <1>17, LeafIs DEF ImportFireEvent, NoImporter
<1>18. CASE ImportListenerAction
  BY <1>b, <1>18, LeafIs DEF ImportListenerAction, NoImporter
<1>19. CASE ImportBlendAnimation
  BY <1>b, <1>19, LeafIs DEF ImportBlendAnimation
<1>20. CASE ImportNestedArtboard
  BY <1>b, <1>20, LeafIs DEF ImportNestedArtboard, NoImporter
<1>21. CASE ImportImage
  BY <1>b, <1>21, LeafIs DEF ImportImage, NoImporter
<1>22. CASE ImportTransitionCondition
  BY <1>b, <1>22, LeafIs DEF ImportTransitionCondition, NoImporter
<1> QED BY <1>2, <1>3, <1>4, <1>5, <1>6, <1>7, <1>8, <1>9, <1>10, <1>11, <1>12, <1>13, <1>14,
         <1>15, <1>16, <1>17, <1>18, <1>19, <1>20, <1>21, <1>22 DEF Next

(* The backboard's importer is the first. *)
LEMMA FirstRead ==
  ASSUME ReadInv, IInv', ImportBackboard
  PROVE  TreeInv' /\ (result' = "reading" => KeptInv' /\ PathInv')
<1> DEFINE o == [kind |-> "backboard", known |-> TRUE, ref |-> None, under |-> None]
<1>1. /\ file = <<>> /\ file' = <<o>> /\ open' = <<1>> /\ Here = 1
      /\ MakeLatest("backboard", <<>>) /\ result = "reading"
  BY DEF ImportBackboard, Stacks, Here
<1>2. /\ o.kind = "backboard" /\ o.known = TRUE /\ o.under = None
  OBVIOUS
<1> HIDE DEF o
<1>3. Len(file') = 1 /\ DOMAIN file' = {1} /\ file'[1] = o
  BY <1>1
<1>4. DOMAIN open' = {1} /\ open'[1] = 1 /\ Len(open') = 1 /\ open' \in Seq(1 .. 1)
  BY <1>1
<1>5. TreeInv'
  BY <1>2, <1>3, <1>4 DEF TreeInv, Treelike
<1>6. StackInv /\ DOMAIN latest = ImporterTypes /\ lastAdded \in Seq(Nat) /\ done \in Seq(Nat)
  BY <1>1 DEF ReadInv, IInv, Shape
<1>7. ASSUME NEW t \in ImporterTypes PROVE latest[t] = None
  BY <1>1, <1>6 DEF StackInv
<1>8. lastAdded = <<>> /\ done = <<>>
  <2>1. \A k \in DOMAIN lastAdded : FALSE
    BY <1>6, <1>7 DEF StackInv, Owning
  <2>2. \A k \in DOMAIN done : FALSE
    BY <1>1, <1>6 DEF StackInv
  <2>3. Len(lastAdded) \in Nat /\ Len(done) \in Nat /\ DOMAIN lastAdded = 1 .. Len(lastAdded)
        /\ DOMAIN done = 1 .. Len(done)
    BY <1>6
  <2>4. Len(lastAdded) = 0 /\ Len(done) = 0
    BY <2>1, <2>2, <2>3
  <2> QED BY <1>6, <2>4, EmptySeq
<1>9. ASSUME result' = "reading" PROVE KeptInv' /\ PathInv'
  <2>1. /\ latest' = Replaced("backboard", 1) /\ lastAdded' = <<1>> /\ done' = <<>>
        /\ "backboard" \in ImporterTypes
    <3>1. "backboard" \in ImporterTypes
      BY DEF ImporterTypes
    <3>2. Erase(lastAdded, latest["backboard"]) = <<>>
      BY <1>8 DEF Erase
    <3>3. latest["backboard"] = None
      BY <1>7, <3>1
    <3>4. /\ latest' = Replaced("backboard", Here)
          /\ lastAdded' = Append(Erase(lastAdded, latest["backboard"]), Here)
          /\ done' = done
      BY <1>1, <1>9, <3>3 DEF MakeLatest
    <3>5. Append(<<>>, 1) = <<1>>
      OBVIOUS
    <3> QED BY <1>1, <1>8, <3>1, <3>2, <3>4, <3>5
  <2>2. latest'["backboard"] = 1
    BY <1>6, <2>1 DEF Replaced, Types
  <2>3. 1 # None /\ 1 \in ToSet(lastAdded') /\ lastAdded'[1] = 1
    BY <2>1, FileImportAssumption DEF ToSet
  <2>4. \A p \in DOMAIN file' : p = 1 /\ file'[p].kind = "backboard"
    BY <1>2, <1>3
  <2>5. KeptInv'
    BY <2>1, <2>2, <2>3, <2>4 DEF KeptInv, Importer, Broken
  <2>6. \A j \in DOMAIN open' : j = 1 /\ open'[j] = 1
    BY <1>4
  <2>7. file'[1].kind = "backboard"
    BY <1>2, <1>3
  <2>8. PathInv'
    BY <2>2, <2>6, <2>7 DEF PathInv, KindAt
  <2> QED BY <2>5, <2>8
<1> QED BY <1>5, <1>9

LEMMA HeadRead ==
  ASSUME ReadInv, IInv', IsHead
  PROVE  TreeInv' /\ (result' = "reading" => KeptInv' /\ PathInv')
<1>1. PICK kind \in Kinds \cap Owning : \E d \in Places(kind) : \E ref, with :
            Writes(kind, TRUE, d, ref) /\ MakeLatest(kind, with)
  BY DEF IsHead
<1>2. PICK d \in Places(kind) : \E ref, with :
            Writes(kind, TRUE, d, ref) /\ MakeLatest(kind, with)
  BY <1>1
<1>3. PICK ref, with : Writes(kind, TRUE, d, ref) /\ MakeLatest(kind, with)
  BY <1>2
<1>4. TreeInv'
  BY <1>3, TreeGrows
<1>5. ASSUME result' = "reading" PROVE KeptInv' /\ PathInv'
  <2>1. KeptInv' /\ LatestIs(kind)
    BY <1>3, <1>5, KeptByHead
  <2>2. PathInv'
    BY <1>3, <2>1, PathGrows
  <2> QED BY <2>1, <2>2
<1> QED BY <1>4, <1>5

(* An object that leaves the stack alone. *)
LEMMA LeafKeeps ==
  ASSUME ReadInv, IInv', NEW kind \in Kinds, NEW known \in BOOLEAN, NEW d \in Places(kind), NEW ref,
         Writes(kind, known, d, ref), UNCHANGED stack,
         ~(known /\ Whole[open[d]] /\ kind \in ImporterTypes), ~(kind = "artboard" /\ ref = "broken")
  PROVE  TreeInv' /\ KeptInv' /\ PathInv'
<1>1. TreeInv' /\ Whole'[Here] = (known /\ Whole[open[d]])
  BY TreeGrows
<1>2. ~(Whole'[Here] /\ kind \in ImporterTypes)
  BY <1>1
<1>3. KeptInv'
  BY <1>2, KeptByLeaf
<1>4. UNCHANGED latest
  BY DEF stack
<1>5. PathInv'
  BY <1>2, <1>4, PathGrows
<1> QED BY <1>1, <1>3, <1>5

LEMMA LeafRead ==
  ASSUME ReadInv, IInv', IsLeaf
  PROVE  TreeInv' /\ KeptInv' /\ PathInv'
<1>1. PICK kind \in Kinds \ ImporterTypes : \E d \in Places(kind) : \E ref :
            Writes(kind, TRUE, d, ref) /\ UNCHANGED stack
  BY DEF IsLeaf
<1>2. PICK d \in Places(kind) : \E ref : Writes(kind, TRUE, d, ref) /\ UNCHANGED stack
  BY <1>1
<1>3. PICK ref : Writes(kind, TRUE, d, ref) /\ UNCHANGED stack
  BY <1>2
<1>4. kind # "artboard"
  BY DEF ImporterTypes
<1> QED BY <1>3, <1>4, LeafKeeps

(* An orphan's owner is one this runtime does not know, or one of its      *)
(* owners is. *)
LEMMA OrphanRead ==
  ASSUME ReadInv, IInv', ImportOrphan
  PROVE  TreeInv' /\ KeptInv' /\ PathInv'
<1>1. PICK kind \in Kinds \ {"bind"} : \E d \in Places(kind) :
          Writes(kind, TRUE, d, 0) /\ latest[Asks(kind)] = None /\ UNCHANGED stack
  BY DEF ImportOrphan
<1>2. PICK d \in Places(kind) :
          Writes(kind, TRUE, d, 0) /\ latest[Asks(kind)] = None /\ UNCHANGED stack
  BY <1>1
<1>3. result = "reading" /\ open[d] \in 1 .. Len(file) /\ KeptInv /\ file # <<>>
  <2>1. result = "reading" /\ open[d] \in 1 .. Len(file)
    BY <1>2, WritesGrows
  <2> QED BY <2>1 DEF ReadInv, IInv, Shape
<1>4. ~Whole[open[d]]
  <2>1. open[d] # None
    BY <1>3, FileImportAssumption DEF ReadInv, IInv, Shape
  <2> QED BY <1>2, <1>3, <2>1, AsksItsOwner
<1>5. kind # "artboard"
  <2> SUFFICES ASSUME kind = "artboard" PROVE FALSE
    OBVIOUS
  <2>1. Asks(kind) = "backboard"
    BY AsksIs, OwnersAre
  <2> QED BY <1>2, <1>3, <2>1, FileImportAssumption DEF KeptInv
<1> QED BY <1>2, <1>4, <1>5, LeafKeeps

LEMMA UnknownRead ==
  ASSUME ReadInv, IInv', family \in Families, ReadUnknown
  PROVE  TreeInv' /\ KeptInv' /\ PathInv'
<1>1. PICK kind \in family.unknown : \E d \in Places(kind) :
          Writes(kind, FALSE, d, None) /\ UNCHANGED stack
  BY DEF ReadUnknown, ReadNullObject
<1>2. PICK d \in Places(kind) : Writes(kind, FALSE, d, None) /\ UNCHANGED stack
  BY <1>1
<1>3. kind \in Kinds
  BY FamiliesAssumption
<1> QED BY <1>2, <1>3, LeafKeeps, FileImportAssumption

LEMMA CutAdds ==
  ASSUME Shape, CutShort
  PROVE  \E o : Adds(o) /\ o.known = FALSE /\ o.under = None
<1> DEFINE o == [kind |-> "cut", known |-> FALSE, ref |-> None, under |-> None]
<1>1. file' = Append(file, o) /\ o.known = FALSE /\ o.under = None
  BY DEF CutShort
<1>2. file \in Seq(Range(file)) /\ Len(file) \in Nat
  BY DEF Shape
<1> HIDE DEF o
<1>3. /\ Len(file') = Len(file) + 1 /\ file'[Len(file) + 1] = o
      /\ \A p \in 1 .. Len(file) : file'[p] = file[p]
      /\ DOMAIN file = 1 .. Len(file) /\ DOMAIN file' = 1 .. Len(file) + 1
  <2> DEFINE R == Range(file) \cup {o}
  <2>1. file \in Seq(R) /\ o \in R
    BY <1>2, SeqMonotonic
  <2> HIDE DEF R
  <2>2. Append(file, o) \in Seq(R)
    BY <2>1, AppendProperties
  <2> QED BY <1>1, <1>2, <2>1, <2>2, AppendProperties
<1> QED BY <1>1, <1>2, <1>3 DEF Adds

LEMMA CutRead ==
  ASSUME ReadInv, IInv', CutShort
  PROVE  TreeInv' /\ result' = "malformed"
<1>1. Shape /\ Shape' /\ Treelike(file) /\ open \in Seq(1 .. Len(file)) /\ Len(file) \in Nat
  BY DEF ReadInv, IInv, Shape, TreeInv
<1>2. PICK o : Adds(o) /\ o.known = FALSE /\ o.under = None
  BY <1>1, CutAdds
<1>3. Treelike(file')
  BY <1>1, <1>2, WholeKept
<1>4. Len(file') \in Nat /\ Len(file') = Len(file) + 1 /\ open' = open /\ result' = "malformed"
  BY <1>1, <1>2 DEF CutShort, Adds, Shape
<1>5. open \in Seq(1 .. Len(file'))
  BY <1>1, <1>4, SeqMonotonic
<1> QED BY <1>3, <1>4, <1>5 DEF TreeInv
-----------------------------------------------------------------------------
LEMMA FinishAccepts ==
  ASSUME ReadInv, Finish, result' = "success", file # <<>>
  PROVE  Accepted'
<1> DEFINE L == Len(lastAdded)
           D == Len(done)
<1>1. result = "reading" /\ KeptInv /\ file' = file /\ lastAdded \in Seq(Nat) /\ done \in Seq(Nat)
  BY FinishIs DEF ReadInv, IInv, Shape
<1>2. /\ L \in Nat /\ D \in Nat /\ done' \in Seq(Nat) /\ DOMAIN done' = 1 .. D + L /\ 1 <= L
      /\ \A k \in 1 .. D : done'[k] = done[k]
      /\ \A k \in 1 .. L : done'[D + k] = lastAdded[L - k + 1]
      /\ \A k \in 1 .. L : Resolves(lastAdded[L - k + 1])
      /\ DOMAIN lastAdded = 1 .. L /\ DOMAIN done = 1 .. D
  <2>1. IInv
    BY DEF ReadInv
  <2>2. PICK n \in 1 .. L :
           /\ L \in Nat /\ D \in Nat
           /\ done' \in Seq(Nat) /\ DOMAIN done' = 1 .. D + n
           /\ \A k \in 1 .. D : done'[k] = done[k]
           /\ \A k \in 1 .. n : done'[D + k] = lastAdded[L - k + 1]
           /\ \A k \in 1 .. n - 1 : Resolves(lastAdded[L - k + 1])
           /\ Resolves(lastAdded[L - n + 1]) => n = L
           /\ result' = IF Resolves(lastAdded[L - n + 1]) THEN "success" ELSE "malformed"
    BY <2>1, FinishIs
  <2>3. DOMAIN lastAdded = 1 .. L /\ DOMAIN done = 1 .. D
    BY <1>1
  <2> HIDE DEF L, D
  <2>4. Resolves(lastAdded[L - n + 1]) /\ n = L
    BY <2>2
  <2>5. \A k \in 1 .. L : k \in 1 .. L - 1 \/ k = L
    BY <2>2
  <2>6. \A k \in 1 .. L : Resolves(lastAdded[L - k + 1])
    BY <2>2, <2>4, <2>5
  <2> QED BY <2>2, <2>3, <2>4, <2>6
<1>3. \A k \in 1 .. L : lastAdded[k] \in ToSet(done') /\ Resolves(lastAdded[k])
  <2> HIDE DEF L, D
  <2> TAKE k \in 1 .. L
  <2> DEFINE m == L - k + 1
  <2>1. m \in 1 .. L /\ L - m + 1 = k /\ D + m \in 1 .. D + L
    BY <1>2
  <2> HIDE DEF m
  <2>2. done'[D + m] = lastAdded[k] /\ Resolves(lastAdded[k])
    BY <1>2, <2>1
  <2> QED BY <1>2, <2>1, <2>2 DEF ToSet
<1>4. ToSet(done) \cup ToSet(lastAdded) \subseteq ToSet(done')
  <2>1. \A k \in DOMAIN done : k \in DOMAIN done' /\ done'[k] = done[k]
    <3> HIDE DEF L, D
    <3> QED BY <1>2
  <2> QED BY <1>2, <1>3, <2>1 DEF ToSet
<1>5. Last(done)' = 1
  <2>1. Len(done') = D + L
    BY <1>2
  <2>2. done'[D + L] = lastAdded[L - L + 1]
    <3> HIDE DEF L, D
    <3> QED BY <1>2
  <2>3. L - L + 1 = 1 /\ lastAdded[1] = 1
    BY <1>1, <1>2 DEF KeptInv
  <2> QED BY <2>1, <2>2, <2>3 DEF Last
<1>6. Whole' = Whole
  BY <1>1 DEF Whole
<1>7. ASSUME NEW p \in DOMAIN file PROVE ~Broken(p)
  <2>2. SUFFICES ASSUME Broken(p) PROVE FALSE
    OBVIOUS
  <2>3. CASE p \in ToSet(done)
    BY <1>1, <2>2, <2>3 DEF KeptInv, ToSet
  <2>4. CASE p \in ToSet(lastAdded)
    BY <1>2, <1>3, <2>2, <2>4 DEF Resolves, Broken, ToSet
  <2> QED BY <1>1, <2>2, <2>3, <2>4 DEF KeptInv
<1>8. ASSUME NEW p \in DOMAIN file, Importer(p) PROVE p \in ToSet(done')
  BY <1>1, <1>4, <1>8 DEF KeptInv
<1> QED BY <1>1, <1>5, <1>6, <1>7, <1>8 DEF Accepted, Importer, Broken

(* The inductive invariant. *)
FileInv == ReadInv /\ family \in Families /\ (result = "success" => Accepted)

(* Every step reads an object or ends the file, and only the end accepts it. *)
LEMMA StepReads ==
  ASSUME IInv, Next
  PROVE  /\ result = "reading" /\ UNCHANGED family
         /\ result' = "success" => Finish
<1>1. ImportBackboard \/ IsHead \/ IsLeaf \/ ImportOrphan \/ ReadUnknown \/ CutShort \/ Finish
  BY StepIs
<1>2. CASE ImportBackboard
  BY <1>2 DEF ImportBackboard, Stacks, MakeLatest
<1>3. CASE IsHead
  BY <1>3 DEF IsHead, Writes, MakeLatest
<1>4. CASE IsLeaf \/ ImportOrphan \/ ReadUnknown
  BY <1>4 DEF IsLeaf, ImportOrphan, ReadUnknown, ReadNullObject, Writes, stack
<1>5. CASE CutShort
  BY <1>5 DEF CutShort
<1>6. CASE Finish
  BY <1>6 DEF Finish, disk
<1> QED BY <1>1, <1>2, <1>3, <1>4, <1>5, <1>6

LEMMA StepHolds ==
  ASSUME FileInv, Next
  PROVE  FileInv'
<1>1. ReadInv /\ IInv /\ family \in Families
  BY DEF FileInv, ReadInv
<1>2. IInv'
  BY <1>1, StepKeeps
<1>3. result = "reading" /\ family' = family /\ (result' = "success" => Finish)
  BY <1>1, StepReads
<1>4. ImportBackboard \/ IsHead \/ IsLeaf \/ ImportOrphan \/ ReadUnknown \/ CutShort \/ Finish
  BY StepIs
<1>5. TreeInv' /\ (result' = "reading" => KeptInv' /\ PathInv')
  <2>1. CASE ImportBackboard
    BY <1>1, <1>2, <2>1, FirstRead
  <2>2. CASE IsHead
    BY <1>1, <1>2, <2>2, HeadRead
  <2>3. CASE IsLeaf
    BY <1>1, <1>2, <2>3, LeafRead
  <2>4. CASE ImportOrphan
    BY <1>1, <1>2, <2>4, OrphanRead
  <2>5. CASE ReadUnknown
    BY <1>1, <1>2, <2>5, UnknownRead
  <2>6. CASE CutShort
    BY <1>1, <1>2, <2>6, CutRead
  <2>7. CASE Finish
    <3>1. file' = file /\ open' = open /\ result' # "reading"
      BY <1>1, <2>7, FinishIs
    <3> QED BY <1>1, <3>1 DEF ReadInv, TreeInv
  <2> QED BY <1>4, <2>1, <2>2, <2>3, <2>4, <2>5, <2>6, <2>7
<1>6. ASSUME result' = "success" PROVE Accepted'
  BY <1>1, <1>3, <1>6, FinishAccepts DEF Finish
<1> QED BY <1>1, <1>2, <1>3, <1>5, <1>6 DEF FileInv, ReadInv

LEMMA StutterHolds ==
  ASSUME FileInv, UNCHANGED vars
  PROVE  FileInv'
<1>1. IInv'
  BY StutterKeeps DEF FileInv, ReadInv
<1>2. UNCHANGED <<file, open, family, latest, lastAdded, done, result>>
  BY DEF vars, disk, stack
<1>3. Whole' = Whole
  BY <1>2 DEF Whole
<1>4. \A p \in DOMAIN file : Importer(p)' = Importer(p) /\ Broken(p)' = Broken(p)
  BY <1>2, <1>3 DEF Importer, Broken
<1>5. TreeInv' = TreeInv
  BY <1>2 DEF TreeInv
<1>6. KeptInv => KeptInv'
  BY <1>2, <1>3 DEF KeptInv, Importer, Broken
<1>7. PathInv => PathInv'
  BY <1>2, <1>3 DEF PathInv, Importer, KindAt
<1>8. Accepted => Accepted'
  BY <1>2, <1>3 DEF Accepted, Last
<1> QED BY <1>1, <1>2, <1>5, <1>6, <1>7, <1>8 DEF FileInv, ReadInv

LEMMA InitHolds == Init => FileInv
<1> SUFFICES ASSUME Init PROVE FileInv
  OBVIOUS
<1>1. IInv
  BY InitKeeps
<1>2. file = <<>> /\ open = <<>> /\ done = <<>> /\ family \in Families /\ result = "reading"
  BY DEF Init
<1>3. TreeInv
  BY <1>2 DEF TreeInv, Treelike
<1>4. KeptInv /\ PathInv
  BY <1>2 DEF KeptInv, PathInv
<1> QED BY <1>1, <1>2, <1>3, <1>4 DEF FileInv, ReadInv

LEMMA FileHolds == Spec => []FileInv
<1>1. FileInv /\ [Next]_vars => FileInv'
  BY StepHolds, StutterHolds
<1> QED BY <1>1, InitHolds, PTL DEF Spec

(* No importer resolves twice; in a file that is accepted each of those that *)
(* are whole has, the backboard's last, and no artboard is broken.           *)
THEOREM EveryImporterResolves == Spec => []ResolvedOnce
<1>1. FileInv => ResolvedOnce
  BY DEF FileInv, ReadInv, IInv, ResolvedOnce
<1> QED BY <1>1, FileHolds, PTL
-----------------------------------------------------------------------------
(* Whatever a list of its owner holds was written under that owner, if     *)
(* every owner is of a type this runtime knows. *)
OfItsOwner(e) ==
  e.what > 0 /\ Whole[e.what] /\ e.list = ListOf(file[e.what].kind)
    /\ e.list \notin {"bind", "image", "nested"}
  => e.to = file[e.what].under
HandedToOwner == \A k \in DOMAIN added : OfItsOwner(added[k])

GivenInv == HandedToOwner /\ \A k \in DOMAIN added : added[k].what \in 0 .. Len(file)

(* What is given as an object of the kind is read. *)
GivenAs(kind, e) ==
  \/ e.what = 0
  \/ e.what = Here /\ (e.list \in {"bind", "image", "nested"} \/ (kind # "bind" /\ e.to = latest[Asks(kind)]))
AddsAs(kind) ==
  \A k \in DOMAIN added' : (k \in DOMAIN added /\ added'[k] = added[k]) \/ GivenAs(kind, added'[k])

LEMMA GivesAs ==
  ASSUME Shape, NEW kind, NEW e, GivenAs(kind, e), added' = Append(added, e)
  PROVE  AddsAs(kind)
<1> DEFINE R == Range(added) \cup {e}
<1>1. added \in Seq(R) /\ e \in R
  BY SeqMonotonic DEF Shape
<1> HIDE DEF R
<1>2. /\ added' \in Seq(R) /\ Len(added') = Len(added) + 1 /\ added'[Len(added) + 1] = e
      /\ \A k \in 1 .. Len(added) : added'[k] = added[k]
      /\ Len(added) \in Nat /\ DOMAIN added = 1 .. Len(added)
  BY <1>1, AppendProperties
<1>3. \A k \in DOMAIN added' : k \in DOMAIN added \/ k = Len(added) + 1
  BY <1>2
<1> QED BY <1>2, <1>3 DEF AddsAs

LEMMA GivesBothAs ==
  ASSUME Shape, NEW kind \in {"nested", "image"}, GivesBoth(kind)
  PROVE  AddsAs(kind)
<1> DEFINE e == [to |-> latest.backboard, list |-> kind, what |-> Here]
           f == [to |-> latest.artboard, list |-> "objects", what |-> Here]
<1>1. GivenAs(kind, e) /\ GivenAs(kind, f)
  <2>1. Asks(kind) = "artboard"
    BY AsksIs, OwnersAre, KindsAre
  <2>2. /\ e.what = Here /\ e.list = kind
        /\ f.what = Here /\ f.to = latest["artboard"]
    OBVIOUS
  <2> HIDE DEF e, f
  <2> QED BY <2>1, <2>2 DEF GivenAs
<1> HIDE DEF e, f
<1>2. added' = added \o <<e, f>>
  BY DEF GivesBoth, e, f
<1> DEFINE R == Range(added) \cup {e, f}
<1>3. added \in Seq(R) /\ <<e, f>> \in Seq(R)
  BY SeqMonotonic DEF Shape
<1> HIDE DEF R
<1>4. Len(<<e, f>>) = 2 /\ <<e, f>>[1] = e /\ <<e, f>>[2] = f /\ Len(added) \in Nat
      /\ DOMAIN added = 1 .. Len(added)
  BY <1>3
<1>5. /\ added' \in Seq(R) /\ Len(added') = Len(added) + Len(<<e, f>>)
      /\ \A i \in 1 .. Len(added) + Len(<<e, f>>) :
           added'[i] = IF i <= Len(added) THEN added[i] ELSE <<e, f>>[i - Len(added)]
  BY <1>2, <1>3, ConcatProperties
<1>6. DOMAIN added' = 1 .. Len(added) + 2
  BY <1>4, <1>5
<1>7. \A k \in 1 .. Len(added) + 2 : added'[k] = IF k <= Len(added) THEN added[k] ELSE <<e, f>>[k - Len(added)]
  BY <1>4, <1>5
<1>8. ASSUME NEW k \in 1 .. Len(added) + 2
      PROVE  (k \in 1 .. Len(added) /\ added'[k] = added[k]) \/ added'[k] = e \/ added'[k] = f
  <2>1. CASE k <= Len(added)
    BY <1>4, <1>7, <2>1
  <2>2. CASE k = Len(added) + 1
    <3>1. k - Len(added) = 1 /\ ~(k <= Len(added))
      BY <1>4, <2>2
    <3> QED BY <1>4, <1>7, <3>1
  <2>3. CASE k = Len(added) + 2
    <3>1. k - Len(added) = 2 /\ ~(k <= Len(added))
      BY <1>4, <2>3
    <3> QED BY <1>4, <1>7, <3>1
  <2> QED BY <1>4, <2>1, <2>2, <2>3
<1> QED BY <1>1, <1>4, <1>6, <1>8 DEF AddsAs

LEMMA NothingAs == ASSUME Shape, NEW kind, UNCHANGED added PROVE AddsAs(kind)
  BY DEF AddsAs

(* An object is given to the importer of the type it asks for. *)
IsRead == \E kind \in Kinds : \E known \in BOOLEAN : \E d \in Places(kind) : \E ref :
            Writes(kind, known, d, ref) /\ AddsAs(kind)

LEMMA KnownAs ==
  ASSUME Shape, NEW kind \in Kinds, NEW d \in Places(kind), NEW ref, NEW type, NEW list,
         Known(kind, d, ref, type), Gives(type, list, Here),
         list = "bind" \/ (kind # "bind" /\ type = Asks(kind))
  PROVE  IsRead
<1> DEFINE e == [to |-> latest[type], list |-> list, what |-> Here]
<1>1. e.to = latest[type] /\ e.list = list /\ e.what = Here
  OBVIOUS
<1>2. added' = Append(added, e)
  BY DEF Gives
<1> HIDE DEF e
<1>3. GivenAs(kind, e)
  BY <1>1 DEF GivenAs
<1> QED BY <1>2, <1>3, GivesAs DEF Known, IsRead

LEMMA StepAdds ==
  ASSUME Shape, family \in Families, Next
  PROVE  \/ file = <<>> /\ UNCHANGED added
         \/ UNCHANGED <<file, added>>
         \/ CutShort
         \/ IsRead
<1>a. {"asset", "contents", "artboard", "component", "nested", "image", "bind", "animation",
       "keyedObject", "keyedProperty", "keyFrame", "machine", "input", "layer", "state",
       "fireEvent", "transition", "condition", "blend", "listener", "action"} = Kinds
  BY KindsAre
<1>b. /\ Asks("asset") = "backboard" /\ Asks("contents") = "asset" /\ Asks("artboard") = "backboard"
      /\ Asks("component") = "artboard" /\ Asks("animation") = "artboard"
      /\ Asks("keyedObject") = "animation" /\ Asks("keyedProperty") = "keyedObject"
      /\ Asks("keyFrame") = "keyedProperty" /\ Asks("machine") = "artboard"
      /\ Asks("input") = "machine" /\ Asks("layer") = "machine" /\ Asks("state") = "layer"
      /\ Asks("fireEvent") = "part" /\ Asks("transition") = "state"
      /\ Asks("condition") = "transition" /\ Asks("blend") = "state"
      /\ Asks("listener") = "machine" /\ Asks("action") = "listener"
  <2>1. \A kind \in Kinds \ {"bind", "fireEvent"} : \A o : Owners[kind] = {o} => Asks(kind) = o
    BY AsksIs
  <2>2. Asks("fireEvent") = "part"
    BY DEF Asks
  <2> QED BY SMTT(30), <1>a, <2>1, <2>2, OwnersAre
<1>1. CASE ImportBackboard
  BY <1>1 DEF ImportBackboard
<1>2. CASE ImportFileAsset
  BY <1>a, <1>b, <1>2, KnownAs DEF ImportFileAsset
<1>3. CASE ImportArtboard
  BY <1>a, <1>b, <1>3, KnownAs DEF ImportArtboard
<1>4. CASE ImportLinearAnimation
  BY <1>a, <1>b, <1>4, KnownAs DEF ImportLinearAnimation
<1>5. CASE ImportKeyedObject
  BY <1>a, <1>b, <1>5, KnownAs DEF ImportKeyedObject
<1>6. CASE ImportKeyedProperty
  BY <1>a, <1>b, <1>6, KnownAs DEF ImportKeyedProperty
<1>7. CASE ImportStateMachine
  BY <1>a, <1>b, <1>7, KnownAs DEF ImportStateMachine
<1>8. CASE ImportLayer
  BY <1>a, <1>b, <1>8, KnownAs DEF ImportLayer
<1>9. CASE ImportLayerState
  BY <1>a, <1>b, <1>9, KnownAs DEF ImportLayerState
<1>10. CASE ImportStateTransition
  BY <1>a, <1>b, <1>10, KnownAs DEF ImportStateTransition
<1>11. CASE ImportListener
  BY <1>a, <1>b, <1>11, KnownAs DEF ImportListener
<1>12. CASE ImportFileAssetContents
  BY <1>a, <1>b, <1>12, KnownAs DEF ImportFileAssetContents
<1>13. CASE ImportComponent
  BY <1>a, <1>b, <1>13, KnownAs DEF ImportComponent
<1>14. CASE ImportDataBind
  BY <1>a, <1>b, <1>14, KnownAs DEF ImportDataBind
<1>15. CASE ImportKeyFrame
  BY <1>a, <1>b, <1>15, KnownAs DEF ImportKeyFrame
<1>16. CASE ImportInput
  BY <1>a, <1>b, <1>16, KnownAs DEF ImportInput
<1>17. CASE ImportFireEvent
  BY <1>a, <1>b, <1>17, KnownAs DEF ImportFireEvent
<1>18. CASE ImportListenerAction
  BY <1>a, <1>b, <1>18, KnownAs DEF ImportListenerAction
<1>19. CASE ImportBlendAnimation
  BY <1>a, <1>b, <1>19, KnownAs DEF ImportBlendAnimation
<1>20. CASE ImportNestedArtboard
  BY <1>a, <1>20, GivesBothAs DEF ImportNestedArtboard, Known, IsRead
<1>21. CASE ImportImage
  BY <1>a, <1>21, GivesBothAs DEF ImportImage, Known, IsRead
<1>22. CASE ImportTransitionCondition
  <2>1. CASE UNCHANGED added
    BY <1>a, <1>22, <2>1, NothingAs DEF ImportTransitionCondition, Known, IsRead
  <2>2. CASE Gives("transition", "condition", Here)
    BY <1>a, <1>b, <1>22, <2>2, KnownAs DEF ImportTransitionCondition
  <2> QED BY <1>22, <2>1, <2>2 DEF ImportTransitionCondition
<1>23. CASE ImportOrphan
  BY <1>a, <1>23, NothingAs DEF ImportOrphan, IsRead
<1>24. CASE ReadUnknown
  <2>1. PICK kind \in family.unknown : \E d \in Places(kind) : Writes(kind, FALSE, d, None) /\ ReadNullObject
    BY <1>24 DEF ReadUnknown
  <2>2. PICK d \in Places(kind) : Writes(kind, FALSE, d, None) /\ ReadNullObject
    BY <2>1
  <2>3. kind \in Kinds
    BY FamiliesAssumption
  <2>4. CASE UNCHANGED added
    BY <2>2, <2>3, <2>4, NothingAs DEF IsRead
  <2>5. CASE ~UNCHANGED added
    <3>1. PICK k \in DOMAIN lastAdded :
             added' = Append(added, [to |-> lastAdded[k], list |-> Keeps[file[lastAdded[k]].kind],
                                     what |-> 0])
      BY <2>2, <2>5 DEF ReadNullObject
    <3> DEFINE e == [to |-> lastAdded[k], list |-> Keeps[file[lastAdded[k]].kind], what |-> 0]
    <3>2. e.what = 0
      OBVIOUS
    <3> HIDE DEF e
    <3>3. AddsAs(kind)
      BY <3>1, <3>2, GivesAs DEF GivenAs, e
    <3> QED BY <2>2, <2>3, <3>3 DEF IsRead
  <2> QED BY <2>4, <2>5
<1>25. CASE Finish
  BY <1>25 DEF Finish, disk
<1> QED BY <1>1, <1>2, <1>3, <1>4, <1>5, <1>6, <1>7, <1>8, <1>9, <1>10, <1>11, <1>12, <1>13,
         <1>14, <1>15, <1>16, <1>17, <1>18, <1>19, <1>20, <1>21, <1>22, <1>23, <1>24, <1>25 DEF
         Next

(* An entry stays right as the file grows. *)
LEMMA EntryKept ==
  ASSUME NEW e, e.what \in 0 .. Len(file), Len(file) \in Nat, Len(file') \in Nat,
         OfItsOwner(e), Len(file) <= Len(file'),
         \A p \in 1 .. Len(file) : Whole'[p] = Whole[p] /\ file'[p] = file[p]
  PROVE  (e.what > 0 /\ Whole'[e.what] /\ e.list = ListOf(file'[e.what].kind)
            /\ e.list \notin {"bind", "image", "nested"}
          => e.to = file'[e.what].under) /\ e.what \in 0 .. Len(file')
<1>1. e.what > 0 => e.what \in 1 .. Len(file)
  OBVIOUS
<1> QED BY <1>1 DEF OfItsOwner

LEMMA ReadHands ==
  ASSUME FileInv, GivenInv, IInv', IsRead
  PROVE  GivenInv'
<1>1. PICK kind \in Kinds : \E known \in BOOLEAN : \E d \in Places(kind) : \E ref :
            Writes(kind, known, d, ref) /\ AddsAs(kind)
  BY DEF IsRead
<1>2. PICK known \in BOOLEAN : \E d \in Places(kind) : \E ref :
            Writes(kind, known, d, ref) /\ AddsAs(kind)
  BY <1>1
<1>3. PICK d \in Places(kind) : \E ref : Writes(kind, known, d, ref) /\ AddsAs(kind)
  BY <1>2
<1>4. PICK ref : Writes(kind, known, d, ref) /\ AddsAs(kind)
  BY <1>3
<1>5. ReadInv /\ result = "reading" /\ Here = Len(file) + 1 /\ Len(file) \in Nat
      /\ DOMAIN file = 1 .. Len(file) /\ Len(file') \in Nat /\ DOMAIN file' = 1 .. Len(file')
  BY SMTT(30), <1>4, WritesGrows DEF FileInv, ReadInv, IInv, Shape
<1>6. /\ \A p \in DOMAIN file : Whole'[p] = Whole[p] /\ file'[p] = file[p]
      /\ Whole'[Here] = (known /\ Whole[open[d]])
      /\ file'[Here].under = open[d]
      /\ DOMAIN file' = DOMAIN file \cup {Here}
  <2>1. /\ \A p \in DOMAIN file : Whole'[p] = Whole[p] /\ file'[p] = file[p]
        /\ Whole'[Here] = (known /\ Whole[open[d]])
        /\ file'[Here] = NewObject(kind, known, d, ref)
        /\ DOMAIN file' = DOMAIN file \cup {Here}
    BY <1>4, <1>5, TreeGrows
  <2>2. NewObject(kind, known, d, ref).under = open[d]
    BY DEF NewObject
  <2> QED BY <2>1, <2>2
<1>7. Len(file) <= Len(file') /\ Here \in 0 .. Len(file')
  <2>1. Here \in 1 .. Len(file')
    BY <1>5, <1>6
  <2> QED BY <1>5, <2>1
<1>8. ASSUME NEW k \in DOMAIN added' 
      PROVE  OfItsOwner(added[k])' /\ added'[k].what \in 0 .. Len(file')
  <2> DEFINE e == added'[k]
  <2>1. CASE k \in DOMAIN added /\ e = added[k]
    <3>1. OfItsOwner(e) /\ e.what \in 0 .. Len(file)
      BY <2>1 DEF GivenInv, HandedToOwner
    <3> HIDE DEF e
    <3>2. (e.what > 0 /\ Whole'[e.what] /\ e.list = ListOf(file'[e.what].kind)
            /\ e.list \notin {"bind", "image", "nested"}
          => e.to = file'[e.what].under) /\ e.what \in 0 .. Len(file')
      BY <1>5, <1>6, <1>7, <3>1, EntryKept
    <3> QED BY <3>2 DEF OfItsOwner, e
  <2>2. CASE GivenAs(kind, e)
    <3>1. e.what \in 0 .. Len(file')
      BY <1>7, <2>2 DEF GivenAs
    <3>2. ASSUME kind # "bind", e.what = Here, e.to = latest[Asks(kind)], Whole'[Here]
          PROVE  e.to = file'[Here].under
      BY <1>4, <1>5, <1>6, <3>2, AsksItsOwner
    <3>3. OfItsOwner(added[k])'
      BY <2>2, <3>2 DEF OfItsOwner, GivenAs
    <3> QED BY <3>1, <3>3
  <2> QED BY <1>4, <2>1, <2>2 DEF AddsAs
<1> QED BY <1>8 DEF GivenInv, HandedToOwner

LEMMA StepHands ==
  ASSUME FileInv, GivenInv, Next
  PROVE  GivenInv'
<1>1. Shape /\ IInv /\ IInv' /\ TreeInv /\ family \in Families
  BY StepKeeps DEF FileInv, ReadInv, IInv
<1>2. CASE IsRead
  BY <1>1, <1>2, ReadHands
<1>3. CASE file = <<>> /\ UNCHANGED added
  <2>1. Len(file) = 0 /\ Len(file') \in Nat
    BY <1>1, <1>3 DEF IInv, Shape
  <2>2. \A k \in DOMAIN added : added[k].what = 0
    BY <2>1 DEF GivenInv
  <2> QED BY <1>3, <2>1, <2>2 DEF GivenInv, HandedToOwner, OfItsOwner
<1>4. CASE UNCHANGED <<file, added>>
  <2>1. Whole' = Whole
    BY <1>4 DEF Whole
  <2> QED BY <1>4, <2>1 DEF GivenInv, HandedToOwner, OfItsOwner
<1>5. CASE CutShort
  <2>1. UNCHANGED added
    BY <1>5 DEF CutShort
  <2>2. PICK o : Adds(o) /\ o.known = FALSE /\ o.under = None
    BY <1>1, <1>5, CutAdds
  <2>3. /\ Len(file) \in Nat /\ Len(file') \in Nat /\ DOMAIN file = 1 .. Len(file)
        /\ DOMAIN file' = 1 .. Len(file) + 1 /\ \A p \in 1 .. Len(file) : file'[p] = file[p]
    BY <1>1, <2>2 DEF Adds, IInv, Shape
  <2>4. \A p \in DOMAIN file : Whole'[p] = Whole[p]
    BY <1>1, <2>2, WholeKept, FileImportAssumption DEF IInv, TreeInv
  <2>5. Len(file') = Len(file) + 1
    BY <1>1, <2>3 DEF IInv, Shape
  <2>6. ASSUME NEW k \in DOMAIN added
        PROVE  OfItsOwner(added[k])' /\ added'[k].what \in 0 .. Len(file')
    <3> DEFINE e == added[k]
    <3>1. OfItsOwner(e) /\ e.what \in 0 .. Len(file)
      BY DEF GivenInv, HandedToOwner
    <3>2. added'[k] = e
      BY <2>1
    <3> HIDE DEF e
    <3>3. (e.what > 0 /\ Whole'[e.what] /\ e.list = ListOf(file'[e.what].kind)
            /\ e.list \notin {"bind", "image", "nested"}
          => e.to = file'[e.what].under) /\ e.what \in 0 .. Len(file')
      BY <2>3, <2>4, <2>5, <3>1, EntryKept
    <3> QED BY <3>2, <3>3 DEF OfItsOwner, e
  <2> QED BY <2>1, <2>6 DEF GivenInv, HandedToOwner
<1> QED BY <1>1, <1>2, <1>3, <1>4, <1>5, StepAdds

LEMMA GivenHolds == Spec => []GivenInv
<1>1. Init => GivenInv
  BY DEF Init, GivenInv, HandedToOwner
<1>2. FileInv /\ GivenInv /\ [Next]_vars => GivenInv'
  <2> SUFFICES ASSUME FileInv, GivenInv, UNCHANGED vars PROVE GivenInv'
    BY StepHands
  <2>1. UNCHANGED <<file, added>>
    BY DEF vars, disk
  <2>2. Whole' = Whole
    BY <2>1 DEF Whole
  <2> QED BY <2>1, <2>2 DEF GivenInv, HandedToOwner, OfItsOwner
<1> QED BY <1>1, <1>2, FileHolds, PTL DEF Spec

(* An object is handed to the very object it was written under, however    *)
(* many others of that kind were read before. *)
THEOREM HandedToTheirOwners == Spec => []HandedToOwner
<1>1. GivenInv => HandedToOwner
  BY DEF GivenInv
<1> QED BY <1>1, GivenHolds, PTL
-----------------------------------------------------------------------------
(***************************************************************************)
(* Lists in order.  The numbers of a set, the smallest first (InOrder).     *)
(***************************************************************************)
(* The numbers of a set in order: one more number at a time. *)
Orders(f, S, n) ==
  /\ f \in [0 .. n -> Seq(Nat)] /\ f[0] = <<>>
  /\ \A k \in 1 .. n : f[k] = IF k \in S THEN Append(f[k - 1], k) ELSE f[k - 1]

LEMMA InOrderDefined ==
  ASSUME NEW S, NEW n \in Nat
  PROVE  \E f : Orders(f, S, n) /\ InOrder(S, n) = f[n]
<1> DEFINE V == Seq(Nat)
           Step == [p \in V \X (1 .. n) |-> IF p[2] \in S THEN Append(p[1], p[2]) ELSE p[1]]
           Is(f) == f = [k \in 0 .. n |->
                           IF k = 0 THEN <<>> ELSE IF k \in S THEN Append(f[k - 1], k) ELSE f[k - 1]]
           g == CHOOSE f : Is(f)
<1>1. <<>> \in V
  OBVIOUS
<1>2. Step \in StepsOf(V, n)
  <2>1. \A p \in V \X (1 .. n) : p[1] \in V /\ p[2] \in Nat
    OBVIOUS
  <2>2. \A p \in V \X (1 .. n) : Append(p[1], p[2]) \in V
    BY <2>1, AppendProperties
  <2> QED BY <2>1, <2>2 DEF StepsOf
<1> HIDE DEF V, Step
<1>3. PICK f : CountsUp(f, n, V, <<>>, Step)
  BY <1>1, <1>2, CountingDefines
<1>4. f \in [0 .. n -> V] /\ f[0] = <<>> /\ \A k \in 1 .. n : f[k] = Step[<<f[k - 1], k>>]
  BY <1>3 DEF CountsUp
<1>5. \A k \in 1 .. n : f[k] = IF k \in S THEN Append(f[k - 1], k) ELSE f[k - 1]
  <2> TAKE k \in 1 .. n
  <2>1. k - 1 \in 0 .. n /\ f[k - 1] \in V
    BY <1>4
  <2>2. <<f[k - 1], k>> \in V \X (1 .. n)
    BY <2>1
  <2>3. Step[<<f[k - 1], k>>] = IF k \in S THEN Append(f[k - 1], k) ELSE f[k - 1]
    BY <2>2 DEF Step
  <2> QED BY <1>4, <2>3
<1>6. Is(f)
  <2>1. f = [k \in 0 .. n |-> f[k]]
    BY <1>4
  <2>2. \A k \in 0 .. n : f[k] = IF k = 0 THEN <<>> ELSE IF k \in S THEN Append(f[k - 1], k) ELSE f[k - 1]
    <3> TAKE k \in 0 .. n
    <3>1. k = 0 \/ k \in 1 .. n
      OBVIOUS
    <3> QED BY <1>4, <1>5, <3>1
  <2> QED BY <2>1, <2>2
<1>7. Is(g)
  <2> HIDE DEF Is
  <2> QED BY <1>6
<1>8. InOrder(S, n) = g[n]
  BY DEF InOrder, g, Is
<1> HIDE DEF g
<1>9. /\ g[0] = <<>>
      /\ \A k \in 1 .. n : g[k] = IF k \in S THEN Append(g[k - 1], k) ELSE g[k - 1]
      /\ DOMAIN g = 0 .. n
      /\ g = [k \in 0 .. n |-> g[k]]
  <2>1. \A k \in 0 .. n : g[k] = IF k = 0 THEN <<>> ELSE IF k \in S THEN Append(g[k - 1], k) ELSE g[k - 1]
    BY <1>7
  <2>2. 0 \in 0 .. n /\ \A k \in 1 .. n : k \in 0 .. n /\ k # 0
    OBVIOUS
  <2> QED BY <1>7, <2>1, <2>2
<1> DEFINE M == {m \in 0 .. n : g[m] \in V}
<1>10. 0 \in M
  BY <1>1, <1>9
<1>11. ASSUME NEW m \in 0 .. n - 1, m \in M PROVE m + 1 \in M
  <2>1. m + 1 \in 1 .. n /\ m + 1 \in 0 .. n /\ (m + 1) - 1 = m /\ m + 1 \in Nat
    OBVIOUS
  <2>2. g[m] \in V /\ Append(g[m], m + 1) \in V
    BY <1>11, <2>1, AppendProperties DEF V
  <2>3. g[m + 1] = IF m + 1 \in S THEN Append(g[m], m + 1) ELSE g[m]
    BY <1>9, <2>1
  <2> QED BY <2>1, <2>2, <2>3
<1>12. 0 .. n \subseteq M
  <2> HIDE DEF M
  <2> QED BY <1>10, <1>11, BoundedInduction
<1>13. g \in [0 .. n -> V]
  BY <1>9, <1>12
<1> QED BY <1>8, <1>9, <1>13 DEF Orders, V

(* Two that agree so far. *)
LEMMA OrdersAgree ==
  ASSUME NEW S, NEW T, NEW n \in Nat, NEW m \in Nat, n <= m, NEW f, NEW g,
         Orders(f, S, n), Orders(g, T, m), \A k \in 1 .. n : k \in S <=> k \in T
  PROVE  f[n] = g[n]
<1> DEFINE M == {k \in 0 .. n : f[k] = g[k]}
<1>1. 0 \in M
  BY DEF Orders
<1>2. ASSUME NEW k \in 0 .. n - 1, k \in M PROVE k + 1 \in M
  <2>1. k + 1 \in 1 .. n /\ k + 1 \in 1 .. m /\ k + 1 \in 0 .. n /\ (k + 1) - 1 = k /\ f[k] = g[k]
    BY <1>2
  <2> QED BY <2>1 DEF Orders
<1>3. 0 .. n \subseteq M
  <2> HIDE DEF M
  <2> QED BY <1>1, <1>2, BoundedInduction
<1> QED BY <1>3

LEMMA InOrderSame ==
  ASSUME NEW S, NEW T, NEW n \in Nat, \A k \in 1 .. n : k \in S <=> k \in T
  PROVE  InOrder(S, n) = InOrder(T, n)
<1>1. PICK f : Orders(f, S, n) /\ InOrder(S, n) = f[n]
  BY InOrderDefined
<1>2. PICK g : Orders(g, T, n) /\ InOrder(T, n) = g[n]
  BY InOrderDefined
<1>3. n <= n
  OBVIOUS
<1> QED BY <1>1, <1>2, <1>3, OrdersAgree

LEMMA InOrderGrows ==
  ASSUME NEW S, NEW T, NEW n \in Nat, \A k \in 1 .. n : k \in S <=> k \in T
  PROVE  InOrder(T, n + 1) = IF n + 1 \in T THEN Append(InOrder(S, n), n + 1) ELSE InOrder(S, n)
<1>1. PICK f : Orders(f, S, n) /\ InOrder(S, n) = f[n]
  BY InOrderDefined
<1>2. n + 1 \in Nat /\ n <= n + 1 /\ n + 1 \in 1 .. n + 1 /\ (n + 1) - 1 = n
  OBVIOUS
<1>3. PICK g : Orders(g, T, n + 1) /\ InOrder(T, n + 1) = g[n + 1]
  BY <1>2, InOrderDefined
<1>4. f[n] = g[n]
  BY <1>1, <1>2, <1>3, OrdersAgree
<1>5. g[n + 1] = IF n + 1 \in T THEN Append(g[n], n + 1) ELSE g[n]
  BY <1>2, <1>3 DEF Orders
<1> QED BY <1>1, <1>3, <1>4, <1>5

LEMMA InOrderNone ==
  ASSUME NEW S PROVE InOrder(S, 0) = <<>>
<1>1. PICK f : Orders(f, S, 0) /\ InOrder(S, 0) = f[0]
  BY InOrderDefined
<1> QED BY <1>1 DEF Orders

(* It holds the members of the set and no other number.                    *)
LEMMA InOrderHolds ==
  ASSUME NEW S, NEW n \in Nat
  PROVE  /\ InOrder(S, n) \in Seq(Nat)
         /\ \A i \in 1 .. Len(InOrder(S, n)) : InOrder(S, n)[i] \in S /\ InOrder(S, n)[i] \in 1 .. n
         /\ \A k \in 1 .. n : k \in S => \E i \in 1 .. Len(InOrder(S, n)) : InOrder(S, n)[i] = k
<1>1. PICK f : Orders(f, S, n) /\ InOrder(S, n) = f[n]
  BY InOrderDefined
<1>a. /\ f \in [0 .. n -> Seq(Nat)] /\ f[0] = <<>>
      /\ \A k \in 1 .. n : f[k] = IF k \in S THEN Append(f[k - 1], k) ELSE f[k - 1]
  BY <1>1 DEF Orders
<1> DEFINE Good(s, m) == /\ s \in Seq(Nat)
                         /\ \A i \in 1 .. Len(s) : s[i] \in S /\ s[i] \in 1 .. m
                         /\ \A k \in 1 .. m : k \in S => \E i \in 1 .. Len(s) : s[i] = k
           M == {m \in 0 .. n : Good(f[m], m)}
<1>2. 0 \in M
  BY <1>a
<1>3. ASSUME NEW m \in 0 .. n - 1, m \in M PROVE m + 1 \in M
  <2> DEFINE s == f[m]
             t == f[m + 1]
  <2>1. m + 1 \in 1 .. n /\ m + 1 \in 0 .. n /\ (m + 1) - 1 = m /\ m + 1 \in Nat /\ m \in Nat
    OBVIOUS
  <2>2. Good(s, m) /\ s \in Seq(Nat)
    BY <1>3
  <2>3. t = IF m + 1 \in S THEN Append(s, m + 1) ELSE s
    BY <1>a, <2>1
  <2> HIDE DEF s, t
  <2>4. CASE m + 1 \notin S
    <3>1. \A k \in 1 .. m + 1 : k \in S => k \in 1 .. m
      BY <2>1, <2>4
    <3>2. 1 .. m \subseteq 1 .. m + 1
      BY <2>1
    <3>3. Good(t, m + 1)
      BY <2>2, <2>3, <2>4, <3>1, <3>2
    <3> QED BY <2>1, <3>3 DEF t
  <2>5. CASE m + 1 \in S
    <3>1. /\ t \in Seq(Nat) /\ Len(t) = Len(s) + 1 /\ t[Len(s) + 1] = m + 1
          /\ \A i \in 1 .. Len(s) : t[i] = s[i]
      BY <2>1, <2>2, <2>3, <2>5, AppendProperties
    <3>2. Len(s) \in Nat /\ 1 .. m \subseteq 1 .. m + 1 /\ Len(s) + 1 \in 1 .. Len(t)
      BY <2>1, <2>2, <3>1
    <3>3. \A i \in 1 .. Len(t) : i \in 1 .. Len(s) \/ i = Len(s) + 1
      BY <3>1, <3>2
    <3>4. \A i \in 1 .. Len(s) : i \in 1 .. Len(t)
      BY <3>1, <3>2
    <3>5. \A i \in 1 .. Len(t) : t[i] \in S /\ t[i] \in 1 .. m + 1
      <4> TAKE i \in 1 .. Len(t)
      <4>1. CASE i \in 1 .. Len(s)
        BY <2>2, <3>1, <3>2, <4>1
      <4>2. CASE i = Len(s) + 1
        <5>1. t[i] = m + 1 /\ m + 1 \in 1 .. m + 1
          BY <2>1, <3>1, <4>2
        <5> QED BY <2>5, <5>1
      <4> QED BY <3>3, <4>1, <4>2
    <3>6. ASSUME NEW k \in 1 .. m + 1, k \in S PROVE \E i \in 1 .. Len(t) : t[i] = k
      <4>1. CASE k = m + 1
        BY <3>1, <3>2, <4>1
      <4>2. CASE k # m + 1
        <5>1. k \in 1 .. m
          BY <2>1, <4>2
        <5> QED BY <2>2, <3>1, <3>4, <3>6, <5>1
      <4> QED BY <4>1, <4>2
    <3>7. Good(t, m + 1)
      BY <3>1, <3>5, <3>6
    <3> QED BY <2>1, <3>7 DEF t
  <2> QED BY <2>4, <2>5
<1>4. n \in M
  <2>1. 0 .. n \subseteq M
    <3> HIDE DEF M
    <3> QED BY <1>2, <1>3, BoundedInduction
  <2>2. n \in 0 .. n
    OBVIOUS
  <2> HIDE DEF M
  <2> QED BY <2>1, <2>2
<1> QED BY <1>1, <1>4
-----------------------------------------------------------------------------
(* Lists made of the entries of a list in order. *)
(* A list made of the entries of another grows with it.                    *)
Over(g, s) == g = [i \in DOMAIN s |-> g[i]]
LEMMA OverIs ==
  ASSUME NEW g, NEW s \in Seq(Nat), Over(g, s), \A i \in DOMAIN s : g[i] \in Nat
  PROVE  g \in Seq(Nat) /\ Len(g) = Len(s)
<1> DEFINE m == Len(s)
<1>1. m \in Nat /\ DOMAIN s = 1 .. m
  OBVIOUS
<1> HIDE DEF m
<1>2. g = [i \in 1 .. m |-> g[i]]
  BY <1>1 DEF Over
<1>3. \A i \in 1 .. m : g[i] \in Nat
  BY <1>1
<1>4. g \in [1 .. m -> Nat]
  BY <1>2, <1>3, Zenon
<1> QED BY <1>1, <1>4 DEF m

MapGrows(s, n, t, g, h) ==
  /\ s \in Seq(Nat) /\ n \in Nat /\ t = Append(s, n) /\ Over(g, s) /\ Over(h, t)
  /\ \A i \in DOMAIN t : h[i] \in Nat
  /\ \A i \in DOMAIN s : h[i] = g[i]
LEMMA ListGrows ==
  ASSUME NEW s, NEW n, NEW t, NEW g, NEW h, MapGrows(s, n, t, g, h)
  PROVE  g \in Seq(Nat) /\ Len(g) = Len(s) /\ h = Append(g, h[Len(s) + 1])
<1> DEFINE m == Len(s)
<1>0. s \in Seq(Nat) /\ n \in Nat /\ t = Append(s, n) /\ Over(g, s) /\ Over(h, t)
  BY DEF MapGrows
<1>1. /\ DOMAIN s = 1 .. m /\ m \in Nat /\ DOMAIN t = 1 .. m + 1 /\ t \in Seq(Nat) /\ Len(t) = m + 1
  BY <1>0, AppendProperties
<1> HIDE DEF m
<1>2. m \in Nat /\ m + 1 \in 1 .. m + 1 /\ 1 .. m \subseteq 1 .. m + 1
  BY <1>1
<1>3. /\ \A i \in 1 .. m + 1 : h[i] \in Nat
      /\ \A i \in 1 .. m : g[i] \in Nat /\ h[i] = g[i]
  BY <1>1, <1>2 DEF MapGrows
<1>4. g \in Seq(Nat) /\ Len(g) = m /\ h \in Seq(Nat) /\ Len(h) = m + 1
  BY <1>0, <1>1, <1>3, OverIs DEF m
<1> DEFINE e == h[m + 1]
<1>5. e \in Nat
  BY <1>2, <1>3
<1> HIDE DEF e
<1>6. /\ Append(g, e) \in Seq(Nat) /\ Len(Append(g, e)) = m + 1
      /\ \A i \in 1 .. m : Append(g, e)[i] = g[i]
      /\ Append(g, e)[m + 1] = e
  BY <1>4, <1>5, AppendProperties
<1>8. \A i \in 1 .. m + 1 : h[i] = Append(g, e)[i]
  <2> TAKE i \in 1 .. m + 1
  <2>1. i \in 1 .. m \/ i = m + 1
    BY <1>2
  <2> QED BY <1>3, <1>6, <2>1 DEF e
<1>9. h = Append(g, e)
  BY <1>4, <1>6, <1>8, SeqEqual
<1> QED BY <1>4, <1>9 DEF e, m

(* What was given to an owner for a list, of any such record.              *)
TakenIn(a, o, l) == {k \in DOMAIN a : a[k].to = o /\ a[k].list = l}
Taken(a, o, l) ==
  LET entries == InOrder(TakenIn(a, o, l), Len(a)) IN [i \in DOMAIN entries |-> a[entries[i]].what]

Records(a) == DOMAIN a = 1 .. Len(a) /\ Len(a) \in Nat /\ \A k \in DOMAIN a : a[k].what \in Nat

LEMMA TakenIs ==
  /\ \A o, l : Given(o, l) = Taken(added, o, l)
  /\ \A o, l : Given(o, l)' = Taken(added', o, l)
BY DEF Given, GivenIn, Taken, TakenIn

LEMMA TakenGrows ==
  ASSUME NEW a, NEW b, Records(a), Records(b), Len(b) = Len(a) + 1,
         \A k \in 1 .. Len(a) : b[k] = a[k], NEW o, NEW l
  PROVE  /\ Taken(a, o, l) \in Seq(Nat)
         /\ Taken(b, o, l) = IF b[Len(b)].to = o /\ b[Len(b)].list = l
                             THEN Append(Taken(a, o, l), b[Len(b)].what) ELSE Taken(a, o, l)
<1> DEFINE n == Len(a)
           S == TakenIn(a, o, l)
           T == TakenIn(b, o, l)
           s == InOrder(S, n)
           t == InOrder(T, n + 1)
           g == [i \in DOMAIN s |-> a[s[i]].what]
           h == [i \in DOMAIN t |-> b[t[i]].what]
<1>1. n \in Nat /\ n + 1 \in Nat /\ DOMAIN a = 1 .. n /\ DOMAIN b = 1 .. n + 1 /\ Len(b) = n + 1
      /\ n + 1 \in 1 .. n + 1 /\ (\A k \in 1 .. n : k \in 1 .. n + 1) /\ \A k \in 1 .. n : b[k] = a[k]
  BY DEF Records
<1>2. Taken(a, o, l) = g /\ Taken(b, o, l) = h
  BY <1>1 DEF Taken
<1>3. (\A k \in 1 .. n : k \in S <=> k \in T) /\ (n + 1 \in T <=> b[n + 1].to = o /\ b[n + 1].list = l)
  BY <1>1 DEF TakenIn
<1>4. (\A k \in 1 .. n : a[k].what \in Nat) /\ \A k \in 1 .. n + 1 : b[k].what \in Nat
  BY <1>1 DEF Records
<1> HIDE DEF n, S, T
<1>5. t = IF n + 1 \in T THEN Append(s, n + 1) ELSE s
  BY <1>1, <1>3, InOrderGrows
<1>6. /\ s \in Seq(Nat) /\ \A i \in 1 .. Len(s) : s[i] \in 1 .. n
      /\ t \in Seq(Nat) /\ \A i \in 1 .. Len(t) : t[i] \in 1 .. n + 1
  BY <1>1, InOrderHolds
<1> HIDE DEF s, t
<1>7. DOMAIN s = 1 .. Len(s) /\ DOMAIN t = 1 .. Len(t) /\ Len(s) \in Nat
  BY <1>6
<1>8. g = [i \in DOMAIN s |-> g[i]] /\ h = [i \in DOMAIN t |-> h[i]]
      /\ (\A i \in DOMAIN t : h[i] = b[t[i]].what) /\ \A i \in DOMAIN s : g[i] = a[s[i]].what
  OBVIOUS
<1> HIDE DEF g, h
<1>9. (\A i \in DOMAIN t : h[i] \in Nat) /\ \A i \in DOMAIN s : g[i] \in Nat
  BY <1>4, <1>6, <1>7, <1>8
<1>10. g \in Seq(Nat)
  <2>1. g \in [1 .. Len(s) -> Nat]
    BY <1>7, <1>8, <1>9
  <2> QED BY <1>7, <2>1
<1>11. CASE n + 1 \notin T
  <2>1. t = s
    BY <1>5, <1>11
  <2>2. \A i \in DOMAIN s : h[i] = g[i]
    BY <1>1, <1>6, <1>7, <1>8, <2>1
  <2>3. h = g
    BY <1>8, <2>1, <2>2
  <2> QED BY <1>1, <1>2, <1>3, <1>10, <1>11, <2>3
<1>12. CASE n + 1 \in T
  <2>1. t = Append(s, n + 1)
    BY <1>5, <1>12
  <2>2. /\ Len(t) = Len(s) + 1 /\ t[Len(s) + 1] = n + 1 /\ \A i \in 1 .. Len(s) : t[i] = s[i]
    BY <1>1, <1>6, <2>1, AppendProperties
  <2>3. \A i \in DOMAIN s : h[i] = g[i]
    <3> TAKE i \in DOMAIN s
    <3>1. i \in DOMAIN t /\ t[i] = s[i] /\ s[i] \in 1 .. n
      BY <1>6, <1>7, <2>2
    <3> QED BY <1>1, <1>8, <3>1
  <2>4. h = Append(g, h[Len(s) + 1])
    <3>1. n + 1 \in Nat /\ s \in Seq(Nat)
      BY <1>1, <1>6
    <3>2. MapGrows(s, n + 1, t, g, h)
      BY <1>8, <1>9, <2>1, <2>3, <3>1 DEF Over, MapGrows
    <3> QED BY <3>2, ListGrows
  <2>5. h[Len(s) + 1] = b[n + 1].what
    BY <1>7, <1>8, <2>2
  <2> QED BY <1>1, <1>2, <1>3, <1>10, <1>12, <2>4, <2>5
<1> QED BY <1>11, <1>12
-----------------------------------------------------------------------------
(***************************************************************************)
(* The lists of an owner: what it was given is what was written for it, as  *)
(* far as they are added to (ListsInv).                                     *)
(***************************************************************************)
(* An object of an unknown type says only that it is there: the innermost   *)
(* importer that takes placeholders adds one, whatever it was               *)
(* (readNullObject).  One of these kinds adds it to a list that others      *)
(* refer to by index: an unknown layer to the inputs of its machine ("Hard  *)
(* assumption that we won't add new layer types...",                        *)
(* state_machine_importer.cpp) while conditions on inputs are to come; a    *)
(* transition, condition, blend animation or event to the states of its     *)
(* layer; a bind to the objects of its artboard.                            *)
PlaceholdersFit ==
  \A f \in Families :
    f.unknown \cap {"bind", "layer", "fireEvent", "transition", "condition", "blend"} = {}

Lists == {ListOf(kind) : kind \in Kinds \ {"bind"}}
ByIndex == {"objects", "input", "state"}
Owns(owner, list) == \E kind \in Kinds \ {"bind"} : ListOf(kind) = list /\ owner \in Owners[kind]

(* Siblings up to this rank leave a list open.                             *)
UpTo(list) == IF list = "objects" THEN 1 ELSE IF list = "input" THEN 2 ELSE Rank[list]
OpenAt(j, rank) == j < Len(open) => Rank[KindAt(j + 1)] <= rank
Growing(owner, list) == \E j \in DOMAIN open : open[j] = owner /\ OpenAt(j, UpTo(list))

(* The tree is one the exporter writes, and the path leads to its last     *)
(* object.                                                                 *)
OwnersInv ==
  /\ \A p \in DOMAIN file :
       \/ file[p].under = None /\ p = 1 /\ file[p].kind = "backboard"
       \/ file[p].under \in 1 .. p - 1 /\ file[p].kind \in Kinds
            /\ file[file[p].under].kind \in Owners[file[p].kind]
  /\ \A j \in DOMAIN open : IF j = 1 THEN open[j] = 1 ELSE file[open[j]].under = open[j - 1]
  /\ \A i, j \in DOMAIN open : i < j => open[i] < open[j]
  /\ \A p \in DOMAIN file : file[p].known \/ file[p].kind \in family.unknown
  /\ \A k \in DOMAIN added : added[k].to \in 1 .. Len(file)

(* What is written after it while only siblings of the first rank were.    *)
Inside(kind) ==
  IF kind = "artboard" THEN {"component", "nested", "image", "bind"}
  ELSE IF kind = "machine" THEN {"input"}
  ELSE {"state", "transition", "blend", "condition", "fireEvent"}
Takers == {"artboard", "machine", "layer"}
ClosedInv ==
  \A j \in DOMAIN open : \A p \in DOMAIN file :
    KindAt(j) \in Takers /\ OpenAt(j, 1) /\ open[j] < p => file[p].kind \in Inside(KindAt(j))

Ascends == \A i, j \in DOMAIN lastAdded : i < j => lastAdded[i] < lastAdded[j]
OfTheirTypes == \A t \in Owning : latest[t] # None => file[latest[t]].kind = t

OrderInv == ClosedInv /\ Ascends /\ OfTheirTypes

LEMMA ListsAre ==
  /\ Lists = (Kinds \ {"bind", "component", "nested", "image"}) \cup {"objects"}
  /\ ListOf("component") = "objects" /\ ListOf("nested") = "objects" /\ ListOf("image") = "objects"
  /\ \A kind \in Kinds \ {"component", "nested", "image"} : ListOf(kind) = kind
  /\ "objects" \notin Kinds
<1>1. /\ ListOf("component") = "objects" /\ ListOf("nested") = "objects" /\ ListOf("image") = "objects"
      /\ \A kind \in Kinds \ {"component", "nested", "image"} : ListOf(kind) = kind
  BY DEF ListOf
<1>2. "objects" \notin Kinds /\ {"component", "nested", "image"} \subseteq Kinds
  BY KindsAre
<1> QED BY <1>1, <1>2 DEF Lists

LEMMA InsideIs ==
  ASSUME NEW kind \in Kinds, NEW owner \in Owners[kind], NEW taker \in Takers
  PROVE  /\ owner \in Inside(taker) => kind \in Inside(taker)
         /\ owner = taker /\ Rank[kind] <= 1 => kind \in Inside(taker)
<1>1. Rank["animation"] = 2 /\ Rank["layer"] = 2 /\ Rank["machine"] = 3 /\ Rank["listener"] = 3
  BY KindsAre DEF Rank
<1> QED BY <1>1, KindsAre, OwnersAre DEF Inside, Takers

(* The importer an object becomes.                                         *)
StacksAs(kind, known) ==
  UNCHANGED stack \/ (known /\ kind \in Owning /\ \E with : MakeLatest(kind, with))

(* What is given, and to whom, as it is read.                              *)
AddsTo(a, b, to, list, what) ==
  /\ Len(b) = Len(a) + 1 /\ \A k \in 1 .. Len(a) : b[k] = a[k]
  /\ b[Len(b)] = [to |-> to, list |-> list, what |-> what]

InputsAre(ref) == ref < Len(Given(latest["machine"], "input"))
GivesKnown(kind, ref) ==
  \/ /\ kind \notin {"bind", "nested", "image"} /\ latest[Asks(kind)] # None
     /\ kind = "condition" => InputsAre(ref)
     /\ Gives(Asks(kind), ListOf(kind), Here)
  \/ kind \in {"nested", "image"} /\ latest["artboard"] # None /\ GivesBoth(kind)
  \/ /\ kind # "bind" /\ UNCHANGED added
     /\ latest[Asks(kind)] = None \/ (kind = "condition" /\ ~InputsAre(ref))
  \/ kind = "bind" /\ latest["artboard"] # None /\ Gives("artboard", "bind", Here)

Reads(kind, known, d, ref) ==
  /\ Writes(kind, known, d, ref)
  /\ StacksAs(kind, known)
  /\ IF known THEN GivesKnown(kind, ref) ELSE kind \in family.unknown /\ ReadNullObject

ReadsOne == \E kind \in Kinds : \E known \in BOOLEAN : \E d \in Places(kind) : \E ref :
              Reads(kind, known, d, ref)

LEMMA LeafReads ==
  ASSUME NEW kind \in Kinds, NEW d \in Places(kind), NEW ref,
         Known(kind, d, ref, Asks(kind)), Gives(Asks(kind), ListOf(kind), Here), UNCHANGED stack,
         kind \notin {"bind", "nested", "image"}, kind = "condition" => InputsAre(ref)
  PROVE  ReadsOne
<1>1. Writes(kind, TRUE, d, ref) /\ StacksAs(kind, TRUE) /\ GivesKnown(kind, ref)
  BY DEF Known, StacksAs, GivesKnown
<1>2. Reads(kind, TRUE, d, ref)
  BY <1>1 DEF Reads
<1> QED BY <1>2 DEF ReadsOne

LEMMA HeadReads ==
  ASSUME NEW kind \in Kinds \cap Owning, NEW d \in Places(kind), NEW ref,
         Known(kind, d, ref, Asks(kind)), Gives(Asks(kind), ListOf(kind), Here),
         NEW with, Stacks(kind, with)
  PROVE  ReadsOne
<1>1. kind \notin {"bind", "nested", "image", "condition"}
  BY DEF Owning, ImporterTypes
<1>2. Writes(kind, TRUE, d, ref) /\ StacksAs(kind, TRUE) /\ GivesKnown(kind, ref)
  BY <1>1 DEF Known, StacksAs, GivesKnown, Stacks
<1>3. Reads(kind, TRUE, d, ref)
  BY <1>2 DEF Reads
<1> QED BY <1>3 DEF ReadsOne

LEMMA AsksAre ==
  /\ Asks("asset") = "backboard" /\ Asks("contents") = "asset" /\ Asks("artboard") = "backboard"
  /\ Asks("component") = "artboard" /\ Asks("nested") = "artboard" /\ Asks("image") = "artboard"
  /\ Asks("animation") = "artboard"
  /\ Asks("keyedObject") = "animation" /\ Asks("keyedProperty") = "keyedObject"
  /\ Asks("keyFrame") = "keyedProperty" /\ Asks("machine") = "artboard"
  /\ Asks("input") = "machine" /\ Asks("layer") = "machine" /\ Asks("state") = "layer"
  /\ Asks("fireEvent") = "part" /\ Asks("transition") = "state"
  /\ Asks("condition") = "transition" /\ Asks("blend") = "state"
  /\ Asks("listener") = "machine" /\ Asks("action") = "listener"
<1>1. ASSUME NEW kind \in Kinds \ {"bind", "fireEvent"}
      PROVE  Asks(kind) \in Owners[kind]
  <2>1. Owners[kind] = {Asks(kind)}
    BY AsksIs
  <2> QED BY <2>1
<1>2. Asks("fireEvent") = "part"
  BY DEF Asks
<1>3. {"asset", "contents", "artboard", "component", "nested", "image", "animation", "keyedObject",
       "keyedProperty", "keyFrame", "machine", "input", "layer", "state", "transition", "condition",
       "blend", "listener", "action"} \subseteq Kinds \ {"bind", "fireEvent"}
  BY KindsAre
<1>4. /\ Asks("asset") = "backboard" /\ Asks("contents") = "asset" /\ Asks("artboard") = "backboard"
      /\ Asks("component") = "artboard" /\ Asks("nested") = "artboard" /\ Asks("image") = "artboard"
  BY <1>1, <1>3, OwnersAre
<1>5. /\ Asks("animation") = "artboard" /\ Asks("keyedObject") = "animation"
      /\ Asks("keyedProperty") = "keyedObject" /\ Asks("keyFrame") = "keyedProperty"
      /\ Asks("machine") = "artboard" /\ Asks("input") = "machine" /\ Asks("layer") = "machine"
  BY <1>1, <1>3, OwnersAre
<1>6. /\ Asks("state") = "layer" /\ Asks("transition") = "state" /\ Asks("condition") = "transition"
      /\ Asks("blend") = "state" /\ Asks("listener") = "machine" /\ Asks("action") = "listener"
  BY <1>1, <1>3, OwnersAre
<1> QED BY <1>2, <1>4, <1>5, <1>6

LEMMA StepReadsOne ==
  ASSUME family \in Families, Next
  PROVE  ImportBackboard \/ ReadsOne \/ CutShort \/ Finish
<1>a. {"asset", "artboard", "animation", "keyedObject", "keyedProperty", "machine", "layer", "state",
       "transition", "listener"} \subseteq Kinds \cap Owning
  BY KindsAre DEF Owning, ImporterTypes
<1>b. {"contents", "component", "nested", "image", "bind", "keyFrame", "input", "fireEvent",
       "condition", "blend", "action"} \subseteq Kinds
  BY KindsAre
<1>c. /\ \A kind \in {"asset", "artboard", "animation", "keyedObject", "keyedProperty", "machine",
                      "layer", "state", "transition", "listener", "contents", "keyFrame", "input",
                      "fireEvent", "condition", "blend", "action", "bind"} : ListOf(kind) = kind
      /\ ListOf("component") = "objects"
  BY <1>a, <1>b, ListsAre
<1>2. CASE ImportFileAsset
  BY <1>a, <1>c, <1>2, AsksAre, HeadReads DEF ImportFileAsset
<1>3. CASE ImportArtboard
  BY <1>a, <1>c, <1>3, AsksAre, HeadReads DEF ImportArtboard
<1>4. CASE ImportLinearAnimation
  BY <1>a, <1>c, <1>4, AsksAre, HeadReads DEF ImportLinearAnimation
<1>5. CASE ImportKeyedObject
  BY <1>a, <1>c, <1>5, AsksAre, HeadReads DEF ImportKeyedObject
<1>6. CASE ImportKeyedProperty
  BY <1>a, <1>c, <1>6, AsksAre, HeadReads DEF ImportKeyedProperty
<1>7. CASE ImportStateMachine
  BY <1>a, <1>c, <1>7, AsksAre, HeadReads DEF ImportStateMachine
<1>8. CASE ImportLayer
  BY <1>a, <1>c, <1>8, AsksAre, HeadReads DEF ImportLayer
<1>9. CASE ImportLayerState
  BY <1>a, <1>c, <1>9, AsksAre, HeadReads DEF ImportLayerState
<1>10. CASE ImportStateTransition
  BY <1>a, <1>c, <1>10, AsksAre, HeadReads DEF ImportStateTransition
<1>11. CASE ImportListener
  BY <1>a, <1>c, <1>11, AsksAre, HeadReads DEF ImportListener
<1>12. CASE ImportFileAssetContents
  BY <1>b, <1>c, <1>12, AsksAre, LeafReads DEF ImportFileAssetContents, NoImporter
<1>13. CASE ImportComponent
  BY <1>b, <1>c, <1>13, AsksAre, LeafReads DEF ImportComponent, NoImporter
<1>15. CASE ImportKeyFrame
  BY <1>b, <1>c, <1>15, AsksAre, LeafReads DEF ImportKeyFrame
<1>16. CASE ImportInput
  BY <1>b, <1>c, <1>16, AsksAre, LeafReads DEF ImportInput, NoImporter
<1>17. CASE ImportFireEvent
  BY <1>b, <1>c, <1>17, AsksAre, LeafReads DEF ImportFireEvent, NoImporter
<1>18. CASE ImportListenerAction
  BY <1>b, <1>c, <1>18, AsksAre, LeafReads DEF ImportListenerAction, NoImporter
<1>19. CASE ImportBlendAnimation
  BY <1>b, <1>c, <1>19, AsksAre, LeafReads DEF ImportBlendAnimation
<1>14. CASE ImportDataBind
  BY <1>b, <1>14 DEF ImportDataBind, Known, ReadsOne, Reads, GivesKnown, StacksAs
<1>20. CASE ImportNestedArtboard
  BY <1>b, <1>20 DEF ImportNestedArtboard, NoImporter, Known, ReadsOne, Reads, GivesKnown, StacksAs
<1>21. CASE ImportImage
  BY <1>b, <1>21 DEF ImportImage, NoImporter, Known, ReadsOne, Reads, GivesKnown, StacksAs
<1>22. CASE ImportTransitionCondition
  <2>1. PICK d \in Places("condition"), ref \in 0 .. MaxId :
          /\ Known("condition", d, ref, "transition") /\ UNCHANGED stack
          /\ IF InputsAre(ref) THEN Gives("transition", "condition", Here) ELSE UNCHANGED added
    BY <1>22 DEF ImportTransitionCondition, NoImporter, InputsAre
  <2>2. CASE InputsAre(ref)
    BY <1>b, <1>c, <2>1, <2>2, AsksAre, LeafReads
  <2>3. CASE ~InputsAre(ref)
    BY <1>b, <2>1, <2>3 DEF Known, ReadsOne, Reads, GivesKnown, StacksAs
  <2> QED BY <2>2, <2>3
<1>23. CASE ImportOrphan
  BY <1>23 DEF ImportOrphan, ReadsOne, Reads, GivesKnown, StacksAs
<1>24. CASE ReadUnknown
  <2>1. PICK kind \in family.unknown : \E d \in Places(kind) : Writes(kind, FALSE, d, None) /\ ReadNullObject
    BY <1>24 DEF ReadUnknown
  <2>2. PICK d \in Places(kind) : Writes(kind, FALSE, d, None) /\ ReadNullObject
    BY <2>1
  <2>3. kind \in Kinds
    BY FamiliesAssumption
  <2>4. UNCHANGED stack
    BY <2>2 DEF ReadNullObject
  <2>5. Reads(kind, FALSE, d, None)
    BY <2>2, <2>4 DEF Reads, StacksAs
  <2> QED BY <2>3, <2>5 DEF ReadsOne
<1> QED BY <1>2, <1>3, <1>4, <1>5, <1>6, <1>7, <1>8, <1>9, <1>10, <1>11, <1>12, <1>13,
         <1>14, <1>15, <1>16, <1>17, <1>18, <1>19, <1>20, <1>21, <1>22, <1>23, <1>24 DEF Next
-----------------------------------------------------------------------------
LEMMA AppendAdds ==
  ASSUME Shape, NEW to, NEW list, NEW what,
         added' = Append(added, [to |-> to, list |-> list, what |-> what])
  PROVE  AddsTo(added, added', to, list, what)
<1> DEFINE e == [to |-> to, list |-> list, what |-> what]
           R == Range(added) \cup {e}
<1>1. added \in Seq(R) /\ e \in R /\ added' = Append(added, e)
  BY SeqMonotonic DEF Shape
<1> HIDE DEF R, e
<1>2. /\ Len(added') = Len(added) + 1 /\ added'[Len(added) + 1] = e
      /\ \A k \in 1 .. Len(added) : added'[k] = added[k]
  BY <1>1, AppendProperties
<1> QED BY <1>2 DEF AddsTo, e

LEMMA GivesAdds ==
  ASSUME Shape, NEW type, NEW list, NEW what, Gives(type, list, what)
  PROVE  AddsTo(added, added', latest[type], list, what)
BY AppendAdds DEF Gives

LEMMA BothAdds ==
  ASSUME Shape, NEW list, GivesBoth(list)
  PROVE  \E a : /\ AddsTo(added, a, latest["backboard"], list, Here) /\ DOMAIN a = 1 .. Len(a)
                /\ AddsTo(a, added', latest["artboard"], "objects", Here)
<1> DEFINE e == [to |-> latest.backboard, list |-> list, what |-> Here]
           f == [to |-> latest.artboard, list |-> "objects", what |-> Here]
           a == Append(added, e)
           R == Range(added) \cup {e, f}
           n == Len(added)
<1>1. added' = added \o <<e, f>> /\ added \in Seq(R) /\ <<e, f>> \in Seq(R) /\ e \in R
  <2>1. added \in Seq(R)
    BY SeqMonotonic DEF Shape
  <2> QED BY <2>1 DEF GivesBoth
<1>2. Len(<<e, f>>) = 2 /\ <<e, f>>[1] = e /\ <<e, f>>[2] = f /\ n \in Nat
  BY <1>1
<1> HIDE DEF e, f, R, a
<1>3. /\ Len(added') = n + 2
      /\ \A i \in 1 .. n + 2 : added'[i] = IF i <= n THEN added[i] ELSE <<e, f>>[i - n]
  <2> HIDE DEF n
  <2>1. /\ Len(added \o <<e, f>>) = Len(added) + Len(<<e, f>>)
        /\ \A i \in 1 .. Len(added) + Len(<<e, f>>) :
             (added \o <<e, f>>)[i] = IF i <= Len(added) THEN added[i] ELSE <<e, f>>[i - Len(added)]
    BY <1>1, ConcatProperties
  <2> QED BY <1>1, <1>2, <2>1 DEF n
<1>4. /\ Len(a) = n + 1 /\ a[n + 1] = e /\ \A k \in 1 .. n : a[k] = added[k]
      /\ DOMAIN a = 1 .. Len(a)
  <2>1. a \in Seq(R)
    BY <1>1, AppendProperties DEF a
  <2> QED BY <1>1, <2>1, AppendProperties DEF a
<1> HIDE DEF n
<1>5. /\ \A k \in 1 .. n : k \in 1 .. n + 2 /\ k <= n
      /\ n + 1 \in 1 .. n + 2 /\ ~(n + 1 <= n) /\ (n + 1) - n = 1
      /\ n + 2 \in 1 .. n + 2 /\ ~(n + 2 <= n) /\ (n + 2) - n = 2 /\ n + 2 = (n + 1) + 1
      /\ \A k \in 1 .. n + 1 : k \in 1 .. n \/ k = n + 1
  BY <1>2
<1>6. /\ \A k \in 1 .. n : added'[k] = added[k]
      /\ added'[n + 1] = e /\ added'[n + 2] = f
  BY <1>2, <1>3, <1>5
<1>7. AddsTo(added, a, latest["backboard"], list, Here)
  BY <1>4 DEF AddsTo, n, e
<1>8. \A k \in 1 .. n + 1 : added'[k] = a[k]
  BY <1>4, <1>5, <1>6
<1>9. AddsTo(a, added', latest["artboard"], "objects", Here)
  BY <1>3, <1>4, <1>5, <1>6, <1>8 DEF AddsTo, f
<1> QED BY <1>4, <1>7, <1>9

(* Everything is given to an importer there is.                            *)
LEMMA GivenToOne ==
  ASSUME ReadInv, result = "reading", file # <<>>, \A k \in DOMAIN added : added[k].to \in 1 .. Len(file),
         NEW kind \in Kinds, NEW known, NEW d, NEW ref, Reads(kind, known, d, ref)
  PROVE  \A k \in DOMAIN added' : added'[k].to \in 1 .. Len(file)
<1>1. /\ Shape /\ Shape' => DOMAIN added = 1 .. Len(added) /\ DOMAIN added' = 1 .. Len(added')
      /\ Shape /\ StackInv /\ KeptInv
  BY DEF ReadInv, IInv, Shape
<1>2. /\ \A type : latest[type] # None /\ type \in ImporterTypes => latest[type] \in 1 .. Len(file)
      /\ latest["backboard"] \in 1 .. Len(file)
      /\ \A k \in DOMAIN lastAdded : lastAdded[k] \in 1 .. Len(file)
  <2>1. \A type : latest[type] # None /\ type \in ImporterTypes => latest[type] \in 1 .. Len(file)
    BY <1>1 DEF StackInv
  <2>2. latest["backboard"] \in 1 .. Len(file)
    BY <1>1, <2>1, FileImportAssumption DEF KeptInv, ImporterTypes
  <2>3. \A k \in DOMAIN lastAdded : lastAdded[k] \in 1 .. Len(file)
    BY <1>1, <2>1 DEF StackInv, Owning
  <2> QED BY <2>1, <2>2, <2>3
<1>3. ASSUME NEW a, NEW b, NEW to \in 1 .. Len(file), NEW list, NEW what, AddsTo(a, b, to, list, what),
             Len(a) \in Nat, \A k \in 1 .. Len(a) : a[k].to \in 1 .. Len(file)
      PROVE  Len(b) \in Nat /\ \A k \in 1 .. Len(b) : b[k].to \in 1 .. Len(file)
  <2>1. /\ Len(b) = Len(a) + 1 /\ \A k \in 1 .. Len(a) : b[k] = a[k]
        /\ b[Len(b)].to = to
    BY <1>3 DEF AddsTo
  <2>2. \A k \in 1 .. Len(b) : k \in 1 .. Len(a) \/ k = Len(b)
    BY <1>3, <2>1
  <2> QED BY <1>3, <2>1, <2>2
<1>4. Len(added) \in Nat /\ DOMAIN added = 1 .. Len(added) /\ \A k \in 1 .. Len(added) : added[k].to \in 1 .. Len(file)
  BY <1>1 DEF Shape
<1>5. CASE UNCHANGED added
  BY <1>4, <1>5
<1>6. ASSUME NEW to \in 1 .. Len(file), NEW list, NEW what,
             added' = Append(added, [to |-> to, list |-> list, what |-> what])
      PROVE  \A k \in DOMAIN added' : added'[k].to \in 1 .. Len(file)
  <2>1. AddsTo(added, added', to, list, what)
    BY <1>1, <1>6, AppendAdds
  <2>2. Len(added') \in Nat /\ \A k \in 1 .. Len(added') : added'[k].to \in 1 .. Len(file)
    BY <1>3, <1>4, <2>1
  <2>3. DOMAIN added' = 1 .. Len(added')
    <3> DEFINE e == [to |-> to, list |-> list, what |-> what]
               R == Range(added) \cup {e}
    <3>1. added \in Seq(R) /\ e \in R
      BY <1>1, SeqMonotonic DEF Shape
    <3> HIDE DEF R, e
    <3>2. Append(added, e) \in Seq(R)
      BY <3>1, AppendProperties
    <3> QED BY <1>6, <3>2 DEF e
  <2> QED BY <2>2, <2>3
<1>7. CASE ~known
  <2>1. ReadNullObject
    BY <1>7 DEF Reads
  <2>2. CASE ~UNCHANGED added
    <3>1. PICK k \in DOMAIN lastAdded :
             added' = Append(added, [to |-> lastAdded[k], list |-> Keeps[file[lastAdded[k]].kind],
                                     what |-> 0])
      BY <2>1, <2>2 DEF ReadNullObject
    <3> QED BY <1>2, <1>6, <3>1
  <2> QED BY <1>5, <2>2
<1>8. CASE known /\ \E type \in ImporterTypes : \E list : latest[type] # None /\ Gives(type, list, Here)
  BY <1>2, <1>6, <1>8 DEF Gives
<1>9. CASE known /\ latest["artboard"] # None /\ GivesBoth(kind)
  <2>1. PICK a : /\ AddsTo(added, a, latest["backboard"], kind, Here)
                 /\ AddsTo(a, added', latest["artboard"], "objects", Here)
    BY <1>1, <1>9, BothAdds
  <2>2. latest["artboard"] \in 1 .. Len(file)
    BY <1>2, <1>9 DEF ImporterTypes
  <2>3. Len(added') \in Nat /\ \A k \in 1 .. Len(added') : added'[k].to \in 1 .. Len(file)
    BY <1>2, <1>3, <1>4, <2>1, <2>2
  <2>4. DOMAIN added' = 1 .. Len(added')
    <3> DEFINE e == [to |-> latest.backboard, list |-> kind, what |-> Here]
               f == [to |-> latest.artboard, list |-> "objects", what |-> Here]
               R == Range(added) \cup {e, f}
    <3>1. added \in Seq(R)
      BY <1>1, SeqMonotonic DEF Shape
    <3>2. <<e, f>> \in Seq(R)
      OBVIOUS
    <3> HIDE DEF R
    <3>3. added' \in Seq(R)
      BY <1>9, <3>1, <3>2, ConcatProperties DEF GivesBoth
    <3> QED BY <3>3
  <2> QED BY <2>3, <2>4
<1>10. CASE known
  <2>1. GivesKnown(kind, ref)
    BY <1>10 DEF Reads
  <2>2. kind # "bind" => Asks(kind) \in ImporterTypes
    BY <1>10, AsksIs DEF Owning, ImporterTypes
  <2>3. "artboard" \in ImporterTypes
    BY DEF ImporterTypes
  <2> QED BY <1>5, <1>8, <1>9, <1>10, <2>1, <2>2, <2>3 DEF GivesKnown
<1> QED BY <1>7, <1>10
-----------------------------------------------------------------------------
(* What is still open was open before.                                     *)
LEMMA PathOpens ==
  ASSUME ReadInv, NEW kind \in Kinds, NEW known \in BOOLEAN, NEW d \in Places(kind), NEW ref,
         Writes(kind, known, d, ref)
  PROVE  /\ \A j \in 1 .. d : KindAt(j)' = KindAt(j)
         /\ KindAt(d + 1)' = kind
         /\ \A j \in 1 .. d : \A r \in Int : OpenAt(j, r)' => OpenAt(j, r)
         /\ \A r \in Int : OpenAt(d, r)' => Rank[kind] <= r
         /\ \A r \in Int : Rank[kind] <= r => OpenAt(d, r)
<1>1. /\ Adds(NewObject(kind, known, d, ref)) /\ result = "reading" /\ Here = Len(file) + 1
      /\ d \in Nat /\ d \in 1 .. Len(open) /\ DOMAIN open = 1 .. Len(open) /\ Len(open) \in Nat
      /\ \A j \in 1 .. Len(open) : open[j] \in 1 .. Len(file)
      /\ Len(open') = d + 1
      /\ \A j \in 1 .. d : open'[j] = open[j]
      /\ open'[d + 1] = Here
      /\ d < Len(open) => Rank[KindAt(d + 1)] <= Rank[kind]
  BY WritesGrows
<1>2. NewObject(kind, known, d, ref).kind = kind
  BY DEF NewObject
<1>3. \A j \in 1 .. d : open[j] \in 1 .. Len(file) /\ j \in 1 .. d + 1
  BY <1>1
<1>4. /\ \A j \in 1 .. d : KindAt(j)' = KindAt(j)
      /\ KindAt(d + 1)' = kind
  BY <1>1, <1>2, <1>3 DEF Adds, KindAt
<1>5. KeptInv /\ DOMAIN file = 1 .. Len(file)
  BY <1>1 DEF ReadInv, IInv, Shape
<1>6. \A j \in 1 .. Len(open) : KindAt(j) \in Kinds \cup {"backboard"}
  BY <1>1, <1>5 DEF KeptInv, KindAt
<1>7. Rank[kind] \in Int /\ \A j \in 1 .. Len(open) : Rank[KindAt(j)] \in Int
  BY <1>6, RanksAre
<1>8. ASSUME NEW r \in Int
      PROVE  /\ OpenAt(d, r)' => Rank[kind] <= r
             /\ Rank[kind] <= r => OpenAt(d, r)
  <2>1. OpenAt(d, r)' => Rank[kind] <= r
    BY <1>1, <1>4 DEF OpenAt
  <2>2. ASSUME d < Len(open), Rank[kind] <= r PROVE Rank[KindAt(d + 1)] <= r
    <3>1. d + 1 \in 1 .. Len(open)
      BY <1>1, <2>2
    <3> QED BY SMTT(30), <1>1, <1>7, <2>2, <3>1
  <2> QED BY <2>1, <2>2 DEF OpenAt
<1>9. ASSUME NEW j \in 1 .. d, NEW r \in Int, OpenAt(j, r)' PROVE OpenAt(j, r)
  <2>1. CASE j = d
    BY <1>8, <1>9, <2>1
  <2>2. CASE j # d
    <3>1. j + 1 \in 1 .. d /\ j < d + 1
      BY <1>1, <2>2
    <3>2. Rank[KindAt(j + 1)'] <= r
      BY <1>1, <1>9, <3>1 DEF OpenAt
    <3> QED BY <1>4, <3>1, <3>2 DEF OpenAt
  <2> QED BY <2>1, <2>2
<1> QED BY <1>4, <1>8, <1>9

LEMMA OwnersKept ==
  ASSUME ReadInv, OwnersInv, NEW kind \in Kinds, NEW known \in BOOLEAN, NEW d \in Places(kind), NEW ref,
         Reads(kind, known, d, ref)
  PROVE  OwnersInv'
<1>0. Writes(kind, known, d, ref)
  BY DEF Reads
<1>a. /\ Adds(NewObject(kind, known, d, ref)) /\ result = "reading" /\ Here = Len(file) + 1
      /\ d \in Nat /\ d \in 1 .. Len(open) /\ DOMAIN open = 1 .. Len(open) /\ Len(open) \in Nat
      /\ \A j \in 1 .. Len(open) : open[j] \in 1 .. Len(file)
      /\ DOMAIN open' = 1 .. d + 1 /\ open' \in Seq(1 .. Len(file')) /\ Len(open') = d + 1
      /\ \A j \in 1 .. d : open'[j] = open[j]
      /\ open'[d + 1] = Here
      /\ KindAt(d) \in Owners[kind]
      /\ d < Len(open) => Rank[KindAt(d + 1)] <= Rank[kind]
  BY ONLY <1>0, WritesGrows, ReadInv, kind \in Kinds, known \in BOOLEAN, d \in Places(kind)
<1> DEFINE n == Len(file)
<1>1. /\ Adds(NewObject(kind, known, d, ref)) /\ result = "reading" /\ Here = n + 1
      /\ d \in Nat /\ d \in 1 .. Len(open) /\ DOMAIN open = 1 .. Len(open) /\ Len(open) \in Nat
      /\ \A j \in 1 .. Len(open) : open[j] \in 1 .. n
      /\ DOMAIN open' = 1 .. d + 1 /\ Len(open') = d + 1
      /\ \A j \in 1 .. d : open'[j] = open[j]
      /\ open'[d + 1] = Here
      /\ KindAt(d) \in Owners[kind]
  BY ONLY <1>a
<1>2. /\ n \in Nat /\ DOMAIN file = 1 .. n /\ DOMAIN file' = 1 .. n + 1
      /\ \A p \in 1 .. n : file'[p] = file[p]
      /\ file'[n + 1].kind = kind /\ file'[n + 1].known = known /\ file'[n + 1].under = open[d]
      /\ Len(file') = n + 1
  <2>1. file'[n + 1] = NewObject(kind, known, d, ref)
    BY <1>1 DEF Adds
  <2>2. Len(file') = n + 1
    BY <1>0, WritesOne DEF ReadInv
  <2> QED BY <1>1, <2>1, <2>2 DEF Adds, NewObject
<1> HIDE DEF n
<1>3. \A p \in 1 .. n + 1 : p \in 1 .. n \/ p = n + 1
  BY <1>2
<1>4. ASSUME NEW p \in 1 .. n + 1
      PROVE  \/ file'[p].under = None /\ p = 1 /\ file'[p].kind = "backboard"
             \/ file'[p].under \in 1 .. p - 1 /\ file'[p].kind \in Kinds
                  /\ file'[file'[p].under].kind \in Owners[file'[p].kind]
  <2>1. CASE p \in 1 .. n
    <3>1. 1 .. p - 1 \subseteq 1 .. n
      BY <1>2, <2>1
    <3>2. \/ file[p].under = None /\ p = 1 /\ file[p].kind = "backboard"
          \/ file[p].under \in 1 .. p - 1 /\ file[p].kind \in Kinds
                  /\ file[file[p].under].kind \in Owners[file[p].kind]
      BY <1>2, <2>1 DEF OwnersInv
    <3> QED BY <1>2, <2>1, <3>1, <3>2
  <2>2. CASE p = n + 1
    <3>1. open[d] \in 1 .. n /\ p - 1 = n
      BY <1>1, <1>2, <2>2
    <3> QED BY <1>1, <1>2, <2>2, <3>1 DEF KindAt
  <2> QED BY <1>3, <2>1, <2>2
<1>5. \A j \in 1 .. d + 1 : j \in 1 .. d \/ j = d + 1
  BY <1>1
<1>6. ASSUME NEW j \in 1 .. d + 1
      PROVE  IF j = 1 THEN open'[j] = 1 ELSE file'[open'[j]].under = open'[j - 1]
  <2>1. CASE j \in 1 .. d
    <3>1. j \in DOMAIN open /\ open'[j] = open[j] /\ open[j] \in 1 .. n
          /\ (j # 1 => j - 1 \in 1 .. d)
      BY <1>1, <2>1
    <3> QED BY <1>1, <1>2, <3>1 DEF OwnersInv
  <2>2. CASE j = d + 1
    <3>1. j # 1 /\ j - 1 = d /\ d \in 1 .. d
      BY <1>1, <2>2
    <3> QED BY <1>1, <1>2, <2>2, <3>1
  <2> QED BY <1>5, <2>1, <2>2
<1>7. ASSUME NEW i \in 1 .. d + 1, NEW j \in 1 .. d + 1, i < j
      PROVE  open'[i] < open'[j]
  <2>1. i \in 1 .. d /\ i \in DOMAIN open /\ open[i] \in 1 .. n
    BY <1>1, <1>7
  <2>2. CASE j \in 1 .. d
    <3>1. j \in DOMAIN open
      BY <1>1, <2>2
    <3> QED BY <1>1, <1>7, <2>1, <2>2, <3>1 DEF OwnersInv
  <2>3. CASE j = d + 1
    <3>1. open'[i] = open[i] /\ open'[j] = n + 1
      BY <1>1, <2>1, <2>3
    <3> QED BY <1>2, <2>1, <3>1
  <2> QED BY <1>5, <2>2, <2>3
<1>8. ASSUME NEW p \in 1 .. n + 1
      PROVE  file'[p].known \/ file'[p].kind \in family'.unknown
  <2>1. family' = family /\ (known \/ kind \in family.unknown)
    BY <1>0 DEF Writes
  <2> QED BY <1>2, <1>3, <2>1 DEF OwnersInv
<1>9. ASSUME NEW k \in DOMAIN added' PROVE added'[k].to \in 1 .. Len(file')
  <2>1. file # <<>>
    <3>1. 1 <= n
      BY <1>1, <1>2
    <3> QED BY <3>1 DEF n
  <2>2. added'[k].to \in 1 .. n
    BY <1>1, <2>1, GivenToOne DEF OwnersInv, n
  <2> QED BY <1>2, <2>2
<1> QED BY <1>1, <1>2, <1>4, <1>6, <1>7, <1>8, <1>9 DEF OwnersInv

(* An importer that is erased and one that is added at the end keep the    *)
(* order.                                                                  *)
LEMMA AscendsKept ==
  ASSUME IInv, result = "reading", result' = "reading", Ascends, NEW type \in Owning, NEW with,
         MakeLatest(type, with), Here = Len(file) + 1
  PROVE  Ascends'
<1> DEFINE old == latest[type]
           rest == Erase(lastAdded, old)
           m == Len(rest)
<1>1. /\ StackInv /\ lastAdded \in Seq(Nat) /\ Len(file) \in Nat /\ DOMAIN latest = ImporterTypes
      /\ DOMAIN lastAdded = 1 .. Len(lastAdded)
  BY DEF IInv, Shape
<1>2. lastAdded' = Append(rest, Here)
  BY DEF MakeLatest
<1>3. /\ rest \in Seq(Nat)
      /\ \A k \in DOMAIN rest : \E j \in DOMAIN lastAdded : rest[k] = lastAdded[j]
  <2>1. lastAdded \in Seq(Nat) /\ IsInjective(lastAdded)
    BY <1>1 DEF StackInv
  <2> QED BY <2>1, EraseOne
<1>4. \A i, j \in 1 .. m : i < j => rest[i] < rest[j]
  <2>1. CASE \E k \in DOMAIN lastAdded : lastAdded[k] = old
    <3> DEFINE s == lastAdded
    <3>1. PICK at \in 1 .. Len(s) :
           /\ m = Len(s) - 1
           /\ \A i \in 1 .. Len(s) - 1 : rest[i] = IF i < at THEN s[i] ELSE s[i + 1]
      BY ZenonT(30), <1>1, <2>1, EraseIs
    <3>2. \A i, j \in 1 .. Len(s) : i < j => s[i] < s[j]
      BY <1>1 DEF Ascends
    <3>3. Len(s) \in Nat
      BY <1>1
    <3> HIDE DEF s, rest, m
    <3> QED BY SMTT(30), <3>1, <3>2, <3>3
  <2>2. CASE ~\E k \in DOMAIN lastAdded : lastAdded[k] = old
    <3>1. rest = lastAdded
      BY <2>2 DEF Erase
    <3> QED BY <1>1, <3>1 DEF Ascends
  <2> QED BY <2>1, <2>2
<1>5. \A k \in 1 .. m : rest[k] \in 1 .. Len(file)
  BY <1>1, <1>3 DEF StackInv, Owning
<1>6. /\ DOMAIN lastAdded' = 1 .. m + 1 /\ lastAdded'[m + 1] = Here /\ m \in Nat
      /\ \A k \in 1 .. m : lastAdded'[k] = rest[k]
  <2>1. Here \in Nat
    BY <1>1
  <2> HIDE DEF rest
  <2> QED BY <1>2, <1>3, <2>1, AppendProperties
<1> HIDE DEF rest, m
<1>7. ASSUME NEW i \in 1 .. m + 1, NEW j \in 1 .. m + 1, i < j
      PROVE  lastAdded'[i] < lastAdded'[j]
  <2>1. i \in 1 .. m
    BY <1>6, <1>7
  <2>2. CASE j \in 1 .. m
    BY <1>4, <1>6, <1>7, <2>1, <2>2
  <2>3. CASE j = m + 1
    BY SMTT(30), <1>1, <1>5, <1>6, <2>1, <2>3
  <2> QED BY <1>6, <2>2, <2>3
<1> QED BY <1>6, <1>7 DEF Ascends

LEMMA OrderKept ==
  ASSUME ReadInv, IInv', OwnersInv, OrderInv, result' = "reading",
         NEW kind \in Kinds, NEW known \in BOOLEAN, NEW d \in Places(kind), NEW ref,
         Reads(kind, known, d, ref)
  PROVE  OrderInv'
<1>0. Writes(kind, known, d, ref) /\ StacksAs(kind, known)
  BY DEF Reads
<1>a. /\ Adds(NewObject(kind, known, d, ref)) /\ result = "reading" /\ Here = Len(file) + 1
      /\ d \in Nat /\ d \in 1 .. Len(open) /\ DOMAIN open = 1 .. Len(open) /\ Len(open) \in Nat
      /\ \A j \in 1 .. Len(open) : open[j] \in 1 .. Len(file)
      /\ DOMAIN open' = 1 .. d + 1 /\ open' \in Seq(1 .. Len(file')) /\ Len(open') = d + 1
      /\ \A j \in 1 .. d : open'[j] = open[j]
      /\ open'[d + 1] = Here
      /\ KindAt(d) \in Owners[kind]
      /\ d < Len(open) => Rank[KindAt(d + 1)] <= Rank[kind]
  BY ONLY <1>0, WritesGrows, ReadInv, kind \in Kinds, known \in BOOLEAN, d \in Places(kind)
<1> DEFINE n == Len(file)
<1>1. /\ Adds(NewObject(kind, known, d, ref)) /\ result = "reading" /\ Here = n + 1
      /\ d \in Nat /\ d \in 1 .. Len(open) /\ DOMAIN open = 1 .. Len(open) /\ Len(open) \in Nat
      /\ \A j \in 1 .. Len(open) : open[j] \in 1 .. n
      /\ DOMAIN open' = 1 .. d + 1 /\ Len(open') = d + 1
      /\ \A j \in 1 .. d : open'[j] = open[j]
      /\ open'[d + 1] = Here
      /\ KindAt(d) \in Owners[kind]
  BY ONLY <1>a
<1>2. /\ n \in Nat /\ DOMAIN file = 1 .. n /\ DOMAIN file' = 1 .. n + 1
      /\ \A p \in 1 .. n : file'[p] = file[p]
      /\ file'[n + 1].kind = kind
  BY <1>1 DEF Adds, NewObject
<1>3. /\ \A j \in 1 .. d : KindAt(j)' = KindAt(j)
      /\ \A j \in 1 .. d : \A r \in Int : OpenAt(j, r)' => OpenAt(j, r)
      /\ \A r \in Int : OpenAt(d, r)' => Rank[kind] <= r
  BY <1>0, PathOpens
<1> HIDE DEF n
<1>4. ASSUME NEW j \in 1 .. d + 1, NEW p \in 1 .. n + 1, KindAt(j)' \in Takers, OpenAt(j, 1)', open'[j] < p
      PROVE  file'[p].kind \in Inside(KindAt(j)')
  <2>1. j \in 1 .. d /\ KindAt(j)' = KindAt(j) /\ OpenAt(j, 1) /\ open[j] < p /\ j \in DOMAIN open
    <3>1. j # d + 1
      BY <1>1, <1>2, <1>4
    <3>2. j \in 1 .. d /\ j \in DOMAIN open
      BY <1>1, <3>1
    <3> QED BY <1>1, <1>3, <1>4, <3>2
  <2>2. CASE p \in 1 .. n
    BY <1>2, <1>4, <2>1, <2>2 DEF OrderInv, ClosedInv
  <2>3. CASE p = n + 1
    <3>1. CASE j = d
      <4>1. Rank[kind] <= 1
        BY <1>3, <1>4, <3>1
      <4> QED BY <1>1, <1>2, <1>4, <2>1, <2>3, <3>1, <4>1, InsideIs
    <3>2. CASE j # d
      <4>1. d \in DOMAIN open /\ j < d /\ open[d] \in DOMAIN file
        BY <1>1, <1>2, <2>1, <3>2
      <4>2. open[j] < open[d]
        BY <2>1, <4>1 DEF OwnersInv
      <4>3. KindAt(d) \in Inside(KindAt(j))
        BY <1>4, <2>1, <4>1, <4>2 DEF OrderInv, ClosedInv, KindAt
      <4> QED BY <1>1, <1>2, <1>4, <2>1, <2>3, <4>3, InsideIs
    <3> QED BY <3>1, <3>2
  <2> QED BY <1>2, <2>2, <2>3
<1>5. ClosedInv'
  BY <1>1, <1>2, <1>4 DEF ClosedInv
<1>6. IInv /\ DOMAIN latest = ImporterTypes /\ StackInv
  BY <1>1 DEF ReadInv, IInv, Shape
<1>7. CASE UNCHANGED stack
  <2>1. UNCHANGED <<latest, lastAdded>>
    BY <1>7 DEF stack
  <2>2. \A t \in Owning : latest[t] # None => latest[t] \in 1 .. n
    BY <1>6 DEF StackInv, Owning, n
  <2>3. Ascends' /\ OfTheirTypes'
    BY <1>2, <2>1, <2>2 DEF OrderInv, Ascends, OfTheirTypes
  <2> QED BY <1>5, <2>3 DEF OrderInv
<1>8. CASE known /\ kind \in Owning /\ \E with : MakeLatest(kind, with)
  <2>1. PICK with : MakeLatest(kind, with)
    BY <1>8
  <2>2. known = TRUE
    BY <1>8
  <2>3. Ascends'
    BY <1>1, <1>6, <1>8, <2>1, AscendsKept DEF OrderInv, n
  <2>4. LatestIs(kind)
    BY <1>0, <1>8, <2>1, <2>2, KeptByHead
  <2>5. ASSUME NEW t \in Owning, latest'[t] # None PROVE file'[latest'[t]].kind = t
    <3>1. t \in ImporterTypes /\ t # "part"
      BY DEF Owning
    <3>2. CASE t = kind
      <4>1. latest'[t] = Here
        BY <2>4, <3>1, <3>2 DEF LatestIs, Types
      <4> QED BY <1>1, <1>2, <3>2, <4>1
    <3>3. CASE t # kind
      <4>1. latest'[t] = latest[t]
        BY <2>4, <3>1, <3>3 DEF LatestIs, Types
      <4>2. latest[t] \in 1 .. n
        BY <1>6, <2>5, <3>1, <4>1 DEF StackInv, n
      <4> QED BY <1>2, <2>5, <4>1, <4>2 DEF OrderInv, OfTheirTypes
    <3> QED BY <3>2, <3>3
  <2> QED BY <1>5, <2>3, <2>5 DEF OrderInv, OfTheirTypes
<1> QED BY <1>0, <1>7, <1>8 DEF StacksAs
-----------------------------------------------------------------------------
(* The owner of an object of a kind.                                       *)
IsWithin(f, kind, W) ==
  W = [q \in DOMAIN f |-> IF f[q].kind = kind \/ f[q].under = None THEN q ELSE W[f[q].under]]
Up(f, kind) == CHOOSE W : IsWithin(f, kind, W)

LEMMA UpIs ==
  ASSUME NEW f, NEW n \in Nat, DOMAIN f = 1 .. n, Treelike(f), NEW kind
  PROVE  \A p \in 1 .. n :
           /\ Up(f, kind)[p] \in 1 .. p
           /\ Up(f, kind)[p] = IF f[p].kind = kind \/ f[p].under = None THEN p
                               ELSE Up(f, kind)[f[p].under]
<1> DEFINE Next1(W, p) == IF f[p].kind = kind \/ f[p].under = None THEN p ELSE W[f[p].under]
           Good(W, p) == W[p] = Next1(W, p) /\ W[p] \in 1 .. p
           Upto(W, m) == \A p \in 1 .. m : Good(W, p)
           M == {m \in 0 .. n : \E W : DOMAIN W = 1 .. m /\ W = [q \in 1 .. m |-> W[q]] /\ Upto(W, m)}
           W0 == CHOOSE W : IsWithin(f, kind, W)
<1>1. \A p \in 1 .. n : f[p].under = None \/ f[p].under \in 1 .. p - 1
  BY DEF Treelike
<1>2. 0 \in M
  <2> DEFINE W == [p \in 1 .. 0 |-> p]
  <2>1. DOMAIN W = 1 .. 0 /\ W = [q \in 1 .. 0 |-> W[q]] /\ Upto(W, 0) /\ 0 \in 0 .. n
    OBVIOUS
  <2> HIDE DEF W, Upto
  <2> QED BY <2>1
<1>3. ASSUME NEW m \in 0 .. n - 1, m \in M
      PROVE  m + 1 \in M
  <2>1. PICK W : DOMAIN W = 1 .. m /\ Upto(W, m)
    BY <1>3
  <2>2. m \in Nat /\ m + 1 \in 1 .. n /\ m + 1 \in 0 .. n /\ (m + 1) - 1 = m
    OBVIOUS
  <2> DEFINE b == Next1(W, m + 1)
             V == [p \in 1 .. m + 1 |-> IF p = m + 1 THEN b ELSE W[p]]
  <2>3. b \in 1 .. m + 1
    <3>1. f[m + 1].under # None => f[m + 1].under \in 1 .. m
      BY <1>1, <2>2
    <3>2. f[m + 1].under # None => W[f[m + 1].under] \in 1 .. f[m + 1].under
      BY <2>1, <3>1
    <3> QED BY <2>2, <3>1, <3>2
  <2> HIDE DEF b
  <2>4. DOMAIN V = 1 .. m + 1 /\ V = [q \in 1 .. m + 1 |-> V[q]]
    OBVIOUS
  <2>5. (\A p \in 1 .. m : V[p] = W[p]) /\ V[m + 1] = b
    BY <2>2
  <2> HIDE DEF V
  <2>6. ASSUME NEW p \in 1 .. m + 1
        PROVE  Good(V, p)
    <3>1. f[p].under # None => f[p].under \in 1 .. m
      <4>1. p \in 1 .. n /\ p \in Int /\ p - 1 <= m
        BY <2>2
      <4> QED BY <1>1, <2>2, <4>1
    <3>2. Next1(V, p) = Next1(W, p)
      BY <2>5, <3>1
    <3>3. CASE p = m + 1
      BY <2>3, <2>5, <3>2, <3>3 DEF b
    <3>4. CASE p # m + 1
      <4>1. p \in 1 .. m
        BY <2>2, <3>4
      <4>2. Good(W, p)
        BY <2>1, <4>1
      <4> QED BY <2>5, <3>2, <4>1, <4>2
    <3> QED BY <3>3, <3>4
  <2> HIDE DEF Good
  <2>7. Upto(V, m + 1)
    BY <2>6
  <2> HIDE DEF Upto
  <2> QED BY <2>2, <2>4, <2>7
<1>4. n \in M
  <2>1. 0 .. n \subseteq M
    <3> HIDE DEF M
    <3> QED BY <1>2, <1>3, BoundedInduction
  <2>2. n \in 0 .. n
    OBVIOUS
  <2> HIDE DEF M
  <2> QED BY <2>1, <2>2
<1>5. PICK W : W = [q \in 1 .. n |-> W[q]] /\ Upto(W, n)
  BY <1>4
<1>6. IsWithin(f, kind, W)
  <2>1. \A q \in 1 .. n : W[q] = Next1(W, q)
    BY <1>5
  <2> HIDE DEF Next1
  <2>2. W = [q \in DOMAIN f |-> Next1(W, q)]
    BY <1>5, <2>1
  <2> QED BY <2>2 DEF IsWithin, Next1
<1>7. IsWithin(f, kind, W0)
  BY <1>6
<1> HIDE DEF W0
<1>8. \A p \in 1 .. n : W0[p] = Next1(W0, p)
  BY <1>7 DEF IsWithin
<1>9. \A p \in 1 .. n : W0[p] \in 1 .. p
  <2> DEFINE K == {m \in 0 .. n : \A p \in 1 .. m : W0[p] \in 1 .. p}
  <2>1. 0 \in K
    OBVIOUS
  <2>2. ASSUME NEW m \in 0 .. n - 1, m \in K PROVE m + 1 \in K
    <3>1. m + 1 \in 1 .. n /\ m \in Nat /\ (m + 1) - 1 = m /\ m + 1 \in 0 .. n
      OBVIOUS
    <3>2. \A p \in 1 .. m : W0[p] \in 1 .. p
      BY <2>2
    <3>3. f[m + 1].under # None => f[m + 1].under \in 1 .. m
      BY <1>1, <3>1
    <3>4. W0[m + 1] \in 1 .. m + 1
      BY <1>8, <3>1, <3>2, <3>3
    <3>5. \A p \in 1 .. m + 1 : p \in 1 .. m \/ p = m + 1
      BY <3>1
    <3> QED BY <3>1, <3>2, <3>4, <3>5
  <2>3. 0 .. n \subseteq K
    <3> HIDE DEF K
    <3> QED BY <2>1, <2>2, BoundedInduction
  <2>4. n \in K
    BY <2>3
  <2> QED BY <2>4
<1> QED BY <1>8, <1>9 DEF W0, Up

LEMMA WithinIs ==
  /\ \A p, kind : Within(p, kind) = Up(file, kind)[p]
  /\ \A p, kind : Within(p, kind)' = Up(file', kind)[p]
BY DEF Within, Up, IsWithin

(* It stays the same as the file grows.                                    *)
LEMMA WithinKept ==
  ASSUME Treelike(file), Treelike(file'), NEW o, Adds(o), NEW kind
  PROVE  \A p \in 1 .. Len(file) : Within(p, kind)' = Within(p, kind) /\ Within(p, kind) \in 1 .. p
<1> DEFINE n == Len(file)
           f == file
           g == file'
           U == Up(f, kind)
           V == Up(g, kind)
<1>1. n \in Nat /\ DOMAIN f = 1 .. n /\ n + 1 \in Nat /\ DOMAIN g = 1 .. n + 1
      /\ \A p \in 1 .. n : g[p] = f[p]
  BY DEF Adds
<1>2. Treelike(f) /\ Treelike(g)
  OBVIOUS
<1> HIDE DEF f, g, n
<1>3. \A p \in 1 .. n :
           /\ U[p] \in 1 .. p
           /\ U[p] = IF f[p].kind = kind \/ f[p].under = None THEN p ELSE U[f[p].under]
  BY <1>1, <1>2, UpIs
<1>4. \A p \in 1 .. n + 1 :
           /\ V[p] \in 1 .. p
           /\ V[p] = IF g[p].kind = kind \/ g[p].under = None THEN p ELSE V[g[p].under]
  BY <1>1, <1>2, UpIs
<1>5. \A p \in 1 .. n : f[p].under = None \/ f[p].under \in 1 .. p - 1
  BY <1>1, <1>2 DEF Treelike
<1> HIDE DEF U, V
<1> DEFINE K == {m \in 0 .. n : \A p \in 1 .. m : V[p] = U[p]}
<1>6. 0 \in K
  BY <1>1
<1>7. ASSUME NEW m \in 0 .. n - 1, m \in K PROVE m + 1 \in K
  <2>1. m + 1 \in 1 .. n /\ m \in Nat /\ (m + 1) - 1 = m /\ m + 1 \in 0 .. n /\ m + 1 \in 1 .. n + 1
    BY <1>1
  <2>2. \A p \in 1 .. m : V[p] = U[p]
    BY <1>7
  <2>3. f[m + 1].under # None => f[m + 1].under \in 1 .. m
    BY <1>5, <2>1
  <2>4. V[m + 1] = U[m + 1]
    BY <1>1, <1>3, <1>4, <2>1, <2>2, <2>3
  <2>5. \A p \in 1 .. m + 1 : p \in 1 .. m \/ p = m + 1
    BY <2>1
  <2> QED BY <2>1, <2>2, <2>4, <2>5
<1>8. 0 .. n \subseteq K
  <2> HIDE DEF K
  <2> QED BY <1>1, <1>6, <1>7, BoundedInduction
<1>9. \A p \in 1 .. n : V[p] = U[p] /\ U[p] \in 1 .. p
  <2>1. n \in K
    BY <1>1, <1>8
  <2> QED BY <1>3, <2>1
<1> QED BY <1>9, WithinIs DEF U, V, f, g, n
-----------------------------------------------------------------------------
Mark(p) == IF file[p].known THEN p ELSE 0
MarkIn(f, p) == IF f[p].known THEN p ELSE 0
Owed(owner, list) ==
  IF list \in ByIndex
  THEN [i \in DOMAIN Written(owner, list) |-> Mark(Written(owner, list)[i])]
  ELSE Counted(owner, list)

LEMMA WrittenGrows ==
  ASSUME ReadInv, NEW kind \in Kinds, NEW known \in BOOLEAN, NEW d \in Places(kind), NEW ref,
         Writes(kind, known, d, ref)
  PROVE  \A o, l :
           /\ \A p \in 1 .. Len(file) : p \in WrittenIn(o, l) <=> p \in WrittenIn(o, l)'
           /\ Here \in WrittenIn(o, l)' <=> open[d] = o /\ ListOf(kind) = l
           /\ Written(o, l) \in Seq(Nat)
           /\ \A i \in 1 .. Len(Written(o, l)) : Written(o, l)[i] \in 1 .. Len(file)
           /\ Written(o, l)' = IF open[d] = o /\ ListOf(kind) = l
                               THEN Append(Written(o, l), Here) ELSE Written(o, l)
<1> DEFINE n == Len(file)
<1>1. Adds(NewObject(kind, known, d, ref)) /\ Here = n + 1 /\ open[d] \in 1 .. n
  BY WritesGrows
<1>2. /\ n \in Nat /\ DOMAIN file = 1 .. n /\ DOMAIN file' = 1 .. n + 1
      /\ \A p \in 1 .. n : file'[p] = file[p]
      /\ file'[n + 1].kind = kind /\ file'[n + 1].under = open[d]
      /\ Len(file') = n + 1
  <2>1. file'[n + 1] = NewObject(kind, known, d, ref)
    BY <1>1 DEF Adds
  <2>2. Len(file') = n + 1
    BY WritesOne DEF ReadInv
  <2> QED BY <1>1, <2>1, <2>2 DEF Adds, NewObject
<1> SUFFICES ASSUME NEW o, NEW l
             PROVE  /\ \A p \in 1 .. Len(file) : p \in WrittenIn(o, l) <=> p \in WrittenIn(o, l)'
                    /\ Here \in WrittenIn(o, l)' <=> open[d] = o /\ ListOf(kind) = l
                    /\ Written(o, l) \in Seq(Nat)
                    /\ \A i \in 1 .. Len(Written(o, l)) : Written(o, l)[i] \in 1 .. Len(file)
                    /\ Written(o, l)' = IF open[d] = o /\ ListOf(kind) = l
                                        THEN Append(Written(o, l), Here) ELSE Written(o, l)
  OBVIOUS
<1> DEFINE S == WrittenIn(o, l)
           T == WrittenIn(o, l)'
<1>3. /\ \A p \in 1 .. n : p \in S <=> p \in T
      /\ n + 1 \in T <=> open[d] = o /\ ListOf(kind) = l
  <2>1. \A p : p \in T <=> p \in DOMAIN file' /\ file'[p].under = o /\ ListOf(file'[p].kind) = l
    BY DEF WrittenIn
  <2>2. \A p : p \in S <=> p \in DOMAIN file /\ file[p].under = o /\ ListOf(file[p].kind) = l
    BY DEF WrittenIn
  <2>3. n + 1 \in 1 .. n + 1 /\ \A p \in 1 .. n : p \in 1 .. n + 1
    BY <1>2
  <2> HIDE DEF S, T, n
  <2> QED BY <1>2, <2>1, <2>2, <2>3
<1>4. Written(o, l) = InOrder(S, n) /\ Written(o, l)' = InOrder(T, n + 1)
  BY <1>2 DEF Written
<1> HIDE DEF S, T, n
<1>5. InOrder(T, n + 1) = IF n + 1 \in T THEN Append(InOrder(S, n), n + 1) ELSE InOrder(S, n)
  BY <1>2, <1>3, InOrderGrows
<1>6. /\ InOrder(S, n) \in Seq(Nat)
      /\ \A i \in 1 .. Len(InOrder(S, n)) : InOrder(S, n)[i] \in 1 .. n
  BY <1>2, InOrderHolds
<1> QED BY <1>1, <1>3, <1>4, <1>5, <1>6 DEF S, T, n

IsKept(p) ==
  /\ p \in DOMAIN file /\ Whole[p] /\ file[p].kind \notin {"backboard", "bind"}
  /\ file[p].kind = "condition" => file[p].ref < Len(Written(Within(p, "machine"), "input"))

LEMMA KeptIs ==
  (\A p : p \in Kept <=> IsKept(p)) /\ (\A p : p \in Kept' <=> IsKept(p)')
BY DEF Kept, Objects, IsKept

(* A condition that is kept stays: its machine has all its inputs.         *)
LEMMA KeptStays ==
  ASSUME ReadInv, IInv', OwnersInv, OrderInv,
         NEW kind \in Kinds, NEW known \in BOOLEAN, NEW d \in Places(kind), NEW ref,
         Writes(kind, known, d, ref)
  PROVE  \A p \in DOMAIN file : p \in Kept <=> p \in Kept'
<1> SUFFICES ASSUME NEW p \in DOMAIN file
             PROVE  IsKept(p) <=> IsKept(p)'
  BY KeptIs
<1> DEFINE n == Len(file)
           m == Within(p, "machine")
<1>1. /\ Adds(NewObject(kind, known, d, ref)) /\ Here = n + 1 /\ open[d] \in 1 .. n
      /\ KindAt(d) \in Owners[kind] /\ d \in DOMAIN open /\ DOMAIN file = 1 .. n
  <2>1. /\ Adds(NewObject(kind, known, d, ref)) /\ Here = n + 1 /\ d \in DOMAIN open
        /\ open[d] \in 1 .. n /\ KindAt(d) \in Owners[kind]
    BY WritesGrows
  <2> QED BY <2>1 DEF Adds
<1>2. TreeInv' /\ Whole'[p] = Whole[p] /\ file'[p] = file[p] /\ p \in DOMAIN file'
  BY TreeGrows
<1>3. m' = m /\ m \in 1 .. p
  BY <1>1, <1>2, WithinKept DEF ReadInv, TreeInv
<1>4. \A o, l : Written(o, l)' = IF open[d] = o /\ ListOf(kind) = l
                               THEN Append(Written(o, l), Here) ELSE Written(o, l)
  BY WrittenGrows
<1> HIDE DEF m, n
<1>5. ASSUME file[p].kind = "condition", open[d] = m, ListOf(kind) = "input"
      PROVE  FALSE
  <2>1. kind = "input"
    <3>1. {"component", "nested", "image"} \subseteq Kinds /\ "input" # "objects"
      BY KindsAre
    <3>2. kind \in {"component", "nested", "image"} => ListOf(kind) = "objects"
      BY ListsAre
    <3>3. kind \notin {"component", "nested", "image"} => ListOf(kind) = kind
      BY ListsAre
    <3> QED BY <1>5, <3>1, <3>2, <3>3
  <2>2. KindAt(d) = "machine" /\ Rank[kind] <= 1
    <3>1. Rank["input"] = 1
      BY KindsAre DEF Rank
    <3> QED BY <1>1, <2>1, <3>1, OwnersAre
  <2>3. OpenAt(d, 1)
    BY <2>2, PathOpens
  <2>4. open[d] < p
    <3>1. open[d] # p
      BY <1>5, <2>2 DEF KindAt
    <3> QED BY <1>1, <1>3, <1>5, <3>1
  <2>5. file[p].kind \in Inside("machine")
    BY <1>1, <2>2, <2>3, <2>4 DEF OrderInv, ClosedInv, Takers
  <2> QED BY <1>5, <2>5 DEF Inside
<1>6. file[p].kind = "condition" => Written(m, "input")' = Written(m, "input")
  BY <1>3, <1>4, <1>5
<1>7. file[p].kind = "condition" => Written(Within(p, "machine"), "input")' = Written(Within(p, "machine"), "input")
  BY <1>3, <1>6 DEF m
<1> QED BY <1>2, <1>7 DEF IsKept

LEMMA CountedGrows ==
  ASSUME ReadInv, IInv', OwnersInv, OrderInv,
         NEW kind \in Kinds, NEW known \in BOOLEAN, NEW d \in Places(kind), NEW ref,
         Writes(kind, known, d, ref), NEW o, NEW l, l \notin ByIndex
  PROVE  /\ Counted(o, l) \in Seq(Nat)
         /\ Counted(o, l)' = IF open[d] = o /\ ListOf(kind) = l /\ Here \in Kept'
                             THEN Append(Counted(o, l), Here) ELSE Counted(o, l)
<1> DEFINE n == Len(file)
           S == WrittenIn(o, l) \cap Kept
           T == WrittenIn(o, l)' \cap Kept'
<1>1. /\ n \in Nat /\ DOMAIN file = 1 .. n /\ Len(file') = n + 1 /\ Here = n + 1
  <2>1. Adds(NewObject(kind, known, d, ref)) /\ Here = n + 1
    BY WritesGrows
  <2>2. Len(file') = n + 1
    BY WritesOne DEF ReadInv
  <2> QED BY <2>1, <2>2 DEF Adds
<1>2. Counted(o, l) = InOrder(S, n) /\ Counted(o, l)' = InOrder(T, n + 1)
  BY <1>1 DEF Counted, ByIndex
<1>3. (\A p \in 1 .. n : p \in S <=> p \in T)
      /\ (n + 1 \in T <=> open[d] = o /\ ListOf(kind) = l /\ Here \in Kept')
  <2>1. /\ \A p \in 1 .. n : p \in WrittenIn(o, l) <=> p \in WrittenIn(o, l)'
        /\ Here \in WrittenIn(o, l)' <=> open[d] = o /\ ListOf(kind) = l
    BY WrittenGrows
  <2>2. \A p \in DOMAIN file : p \in Kept <=> p \in Kept'
    BY KeptStays
  <2> HIDE DEF n
  <2> QED BY <1>1, <2>1, <2>2
<1> HIDE DEF S, T, n
<1>4. InOrder(T, n + 1) = IF n + 1 \in T THEN Append(InOrder(S, n), n + 1) ELSE InOrder(S, n)
  BY <1>1, <1>3, InOrderGrows
<1>5. InOrder(S, n) \in Seq(Nat)
  BY <1>1, InOrderHolds
<1> QED BY <1>1, <1>2, <1>3, <1>4, <1>5

LEMMA OwedGrows ==
  ASSUME ReadInv, IInv', OwnersInv, OrderInv,
         NEW kind \in Kinds, NEW known \in BOOLEAN, NEW d \in Places(kind), NEW ref,
         Writes(kind, known, d, ref), NEW o, NEW l
  PROVE  /\ Owed(o, l) \in Seq(Nat)
         /\ Owed(o, l)' = IF open[d] = o /\ ListOf(kind) = l /\ (l \in ByIndex \/ Here \in Kept')
                          THEN Append(Owed(o, l), IF known THEN Here ELSE 0) ELSE Owed(o, l)
<1> DEFINE n == Len(file)
<1>1. /\ n \in Nat /\ DOMAIN file = 1 .. n /\ DOMAIN file' = 1 .. n + 1
      /\ \A p \in 1 .. n : file'[p] = file[p]
      /\ file'[n + 1].known = known /\ Here = n + 1 /\ Whole'[Here] = (known /\ Whole[open[d]])
  <2>1. Adds(NewObject(kind, known, d, ref)) /\ Here = n + 1
    BY WritesGrows
  <2>2. Whole'[Here] = (known /\ Whole[open[d]])
    BY TreeGrows
  <2> QED BY <2>1, <2>2 DEF Adds, NewObject
<1> HIDE DEF n
<1>2. CASE l \notin ByIndex
  <2>1. Owed(o, l) = Counted(o, l) /\ Owed(o, l)' = Counted(o, l)'
    BY <1>2 DEF Owed
  <2>2. Here \in Kept' => known
    BY <1>1, KeptIs DEF IsKept
  <2> QED BY <1>2, <2>1, <2>2, CountedGrows
<1>3. CASE l \in ByIndex
  <2> DEFINE s == Written(o, l)
             t == Written(o, l)'
             g == [i \in DOMAIN s |-> MarkIn(file, s[i])]
             h == [i \in DOMAIN t |-> MarkIn(file', t[i])]
  <2>1. Owed(o, l) = g /\ Owed(o, l)' = h
    BY <1>3 DEF Owed, Mark, MarkIn
  <2>2. /\ s \in Seq(Nat) /\ \A i \in 1 .. Len(s) : s[i] \in 1 .. n
        /\ t = IF open[d] = o /\ ListOf(kind) = l THEN Append(s, Here) ELSE s
    BY WrittenGrows DEF n
  <2> HIDE DEF s, t
  <2>3. DOMAIN s = 1 .. Len(s) /\ Len(s) \in Nat
    BY <2>2
  <2>4. (\A i \in DOMAIN s : g[i] = MarkIn(file, s[i])) /\ (\A i \in DOMAIN t : h[i] = MarkIn(file', t[i]))
        /\ g = [i \in DOMAIN s |-> g[i]] /\ h = [i \in DOMAIN t |-> h[i]]
    OBVIOUS
  <2> HIDE DEF g, h
  <2>5. \A p \in 1 .. n : MarkIn(file', p) = MarkIn(file, p) /\ MarkIn(file, p) \in Nat
    BY <1>1 DEF MarkIn
  <2>6. MarkIn(file', Here) = (IF known THEN Here ELSE 0) /\ MarkIn(file', Here) \in Nat /\ Here \in Nat
    BY <1>1 DEF MarkIn
  <2>7. Over(g, s) /\ Over(h, t)
    BY <2>4 DEF Over
  <2>8. g \in Seq(Nat)
    <3>1. \A i \in DOMAIN s : g[i] \in Nat
      BY <2>2, <2>3, <2>4, <2>5
    <3> QED BY <2>2, <2>7, <3>1, OverIs
  <2>9. CASE ~(open[d] = o /\ ListOf(kind) = l)
    <3>1. t = s
      BY <2>2, <2>9
    <3>2. ASSUME NEW i \in DOMAIN s PROVE h[i] = g[i]
      <4>1. s[i] \in 1 .. n /\ t[i] = s[i] /\ i \in DOMAIN t
        BY ZenonT(30), <2>2, <2>3, <3>1
      <4> QED BY <2>4, <2>5, <4>1
    <3>3. h = g
      BY <2>4, <3>1, <3>2
    <3> QED BY <2>1, <2>8, <2>9, <3>3
  <2>10. CASE open[d] = o /\ ListOf(kind) = l
    <3>1. t = Append(s, Here)
      BY <2>2, <2>10
    <3>2. /\ Len(t) = Len(s) + 1 /\ t[Len(s) + 1] = Here /\ \A i \in 1 .. Len(s) : t[i] = s[i]
          /\ DOMAIN t = 1 .. Len(s) + 1
      BY <2>2, <2>6, <3>1, AppendProperties
    <3>3. \A i \in DOMAIN s : h[i] = g[i]
      <4> TAKE i \in DOMAIN s
      <4>1. s[i] \in 1 .. n /\ t[i] = s[i] /\ i \in DOMAIN t
        BY <2>2, <2>3, <3>2
      <4> QED BY <2>4, <2>5, <4>1
    <3>4. h[Len(s) + 1] = IF known THEN Here ELSE 0
      <4>1. Len(s) + 1 \in DOMAIN t /\ t[Len(s) + 1] = Here
        BY <2>3, <3>2
      <4> QED BY <2>4, <2>6, <4>1
    <3>5. \A i \in DOMAIN t : h[i] \in Nat
      <4>1. \A i \in DOMAIN t : i \in DOMAIN s \/ i = Len(s) + 1
        BY <2>3, <3>2
      <4>2. \A i \in DOMAIN s : g[i] \in Nat
        BY <2>2, <2>3, <2>4, <2>5
      <4>3. h[Len(s) + 1] \in Nat
        BY <2>6, <3>4
      <4> QED BY <3>3, <4>1, <4>2, <4>3
    <3>6. h = Append(g, h[Len(s) + 1])
      <4>1. MapGrows(s, Here, t, g, h)
        BY <2>2, <2>6, <2>7, <3>1, <3>3, <3>5 DEF MapGrows
      <4> QED BY <4>1, ListGrows
    <3> QED BY <1>3, <2>1, <2>8, <2>10, <3>4, <3>6
  <2> QED BY <2>9, <2>10
<1> QED BY <1>2, <1>3
-----------------------------------------------------------------------------
LEMMA TakenIsSeq ==
  ASSUME NEW a, Records(a), NEW o, NEW l
  PROVE  /\ Taken(a, o, l) \in Seq(Nat)
         /\ (\A k \in DOMAIN a : a[k].to # o) => Taken(a, o, l) = <<>>
<1> DEFINE S == TakenIn(a, o, l)
           s == InOrder(S, Len(a))
           g == [i \in DOMAIN s |-> a[s[i]].what]
<1>1. Len(a) \in Nat /\ DOMAIN a = 1 .. Len(a) /\ \A k \in 1 .. Len(a) : a[k].what \in Nat
  BY DEF Records
<1>2. Taken(a, o, l) = g
  BY DEF Taken
<1>3. s \in Seq(Nat) /\ \A i \in 1 .. Len(s) : s[i] \in S /\ s[i] \in 1 .. Len(a)
  BY <1>1, InOrderHolds
<1>4. (\A k \in DOMAIN a : a[k].to # o) => S = {}
  BY DEF TakenIn
<1> HIDE DEF S, s
<1>5. DOMAIN s = 1 .. Len(s) /\ Len(s) \in Nat
  BY <1>3
<1>6. (\A i \in DOMAIN s : g[i] = a[s[i]].what) /\ g = [i \in DOMAIN s |-> g[i]]
  OBVIOUS
<1> HIDE DEF g
<1>7. \A i \in DOMAIN s : g[i] \in Nat
  BY <1>1, <1>3, <1>5, <1>6
<1>8. g \in Seq(Nat) /\ Len(g) = Len(s)
  BY <1>3, <1>6, <1>7, OverIs DEF Over
<1>9. S = {} => Len(s) = 0
  BY <1>3, <1>5
<1>10. S = {} => g = <<>>
  BY <1>8, <1>9, EmptySeq
<1> QED BY <1>2, <1>4, <1>8, <1>10

LEMMA RecordsAre ==
  /\ Shape /\ GivenInv => Records(added)
  /\ Shape' /\ GivenInv' => Records(added')
<1>1. ASSUME Shape, GivenInv PROVE Records(added)
  <2>1. Len(file) \in Nat /\ Len(added) \in Nat /\ DOMAIN added = 1 .. Len(added)
    BY <1>1 DEF Shape
  <2> QED BY <1>1, <2>1 DEF GivenInv, Records
<1>2. ASSUME Shape', GivenInv' PROVE Records(added')
  <2>1. Len(file') \in Nat /\ Len(added') \in Nat /\ DOMAIN added' = 1 .. Len(added')
    BY <1>2 DEF Shape
  <2> QED BY <1>2, <2>1 DEF GivenInv, Records
<1> QED BY <1>1, <1>2

LEMMA TakenAdds ==
  ASSUME NEW a, NEW b, Records(a), Records(b), NEW to, NEW list, NEW what, AddsTo(a, b, to, list, what)
  PROVE  \A o, l : /\ Taken(a, o, l) \in Seq(Nat)
                   /\ Taken(b, o, l) = IF to = o /\ list = l THEN Append(Taken(a, o, l), what)
                                       ELSE Taken(a, o, l)
<1>1. /\ Len(b) = Len(a) + 1 /\ \A k \in 1 .. Len(a) : b[k] = a[k]
      /\ b[Len(b)].to = to /\ b[Len(b)].list = list /\ b[Len(b)].what = what
  BY DEF AddsTo
<1> QED BY <1>1, TakenGrows

Taking(kind, ref) ==
  kind # "bind" /\ latest[Asks(kind)] # None /\ (kind = "condition" => InputsAre(ref))

(* What is given of a known object, of the lists other than the binds' and *)
(* the backboard's of what it binds.                                       *)
LEMMA KnownGiven ==
  ASSUME Shape, Shape', GivenInv, GivenInv', NEW kind \in Kinds, NEW ref, GivesKnown(kind, ref), Here \in Nat
  PROVE  \A o : \A l \in Lists :
           Given(o, l)' = IF Taking(kind, ref) /\ o = latest[Asks(kind)] /\ l = ListOf(kind)
                          THEN Append(Given(o, l), Here) ELSE Given(o, l)
<1>1. Records(added) /\ Records(added')
  BY RecordsAre
<1>2. {"bind", "nested", "image"} \cap Lists = {}
  <2>1. "bind" # "objects" /\ "nested" # "objects" /\ "image" # "objects"
    OBVIOUS
  <2> QED BY <2>1, ListsAre
<1>3. CASE /\ kind \notin {"bind", "nested", "image"} /\ latest[Asks(kind)] # None
           /\ kind = "condition" => InputsAre(ref)
           /\ Gives(Asks(kind), ListOf(kind), Here)
  <2>1. Taking(kind, ref)
    BY <1>3 DEF Taking
  <2>2. AddsTo(added, added', latest[Asks(kind)], ListOf(kind), Here)
    BY <1>3, GivesAdds
  <2>3. \A o, l : Taken(added', o, l) = IF latest[Asks(kind)] = o /\ ListOf(kind) = l
                                        THEN Append(Taken(added, o, l), Here) ELSE Taken(added, o, l)
    BY <1>1, <2>2, TakenAdds
  <2> QED BY <2>1, <2>3, TakenIs
<1>4. CASE kind \in {"nested", "image"} /\ latest["artboard"] # None /\ GivesBoth(kind)
  <2>1. Taking(kind, ref) /\ Asks(kind) = "artboard" /\ ListOf(kind) = "objects"
    BY <1>4, AsksAre, ListsAre DEF Taking
  <2>2. PICK a : /\ AddsTo(added, a, latest["backboard"], kind, Here) /\ DOMAIN a = 1 .. Len(a)
                 /\ AddsTo(a, added', latest["artboard"], "objects", Here)
    BY <1>4, BothAdds
  <2>3. Records(a)
    <3>1. Len(a) = Len(added) + 1 /\ (\A k \in 1 .. Len(added) : a[k] = added[k]) /\ a[Len(a)].what = Here
      BY <2>2 DEF AddsTo
    <3>2. Len(a) \in Nat /\ \A k \in 1 .. Len(a) : k \in 1 .. Len(added) \/ k = Len(a)
      BY <1>1, <3>1 DEF Records
    <3> QED BY <1>1, <2>2, <3>1, <3>2 DEF Records
  <2>4. \A o, l : Taken(a, o, l) = IF latest["backboard"] = o /\ kind = l
                                   THEN Append(Taken(added, o, l), Here) ELSE Taken(added, o, l)
    BY <1>1, <2>2, <2>3, TakenAdds
  <2>5. \A o, l : Taken(added', o, l) = IF latest["artboard"] = o /\ "objects" = l
                                        THEN Append(Taken(a, o, l), Here) ELSE Taken(a, o, l)
    BY <1>1, <2>2, <2>3, TakenAdds
  <2>6. \A l \in Lists : kind # l
    BY <1>2, <1>4
  <2>7. \A o : \A l \in Lists : Taken(a, o, l) = Taken(added, o, l)
    BY <2>4, <2>6
  <2> QED BY <2>1, <2>5, <2>7, TakenIs
<1>5. CASE /\ kind # "bind" /\ UNCHANGED added
           /\ latest[Asks(kind)] = None \/ (kind = "condition" /\ ~InputsAre(ref))
  BY <1>5, TakenIs DEF Taking
<1>6. CASE kind = "bind" /\ latest["artboard"] # None /\ Gives("artboard", "bind", Here)
  <2>1. ~Taking(kind, ref)
    BY <1>6 DEF Taking
  <2>2. AddsTo(added, added', latest["artboard"], "bind", Here)
    BY <1>6, GivesAdds
  <2>3. \A o, l : Taken(added', o, l) = IF latest["artboard"] = o /\ "bind" = l
                                        THEN Append(Taken(added, o, l), Here) ELSE Taken(added, o, l)
    BY <1>1, <2>2, TakenAdds
  <2> QED BY <1>2, <2>1, <2>3, TakenIs
<1> QED BY <1>3, <1>4, <1>5, <1>6 DEF GivesKnown

(* What is given of an unknown one: a place with the last importer that    *)
(* takes it. *)
TopTaker(k) == k \in DOMAIN lastAdded /\ Takes(k) /\ \A j \in DOMAIN lastAdded : j > k => ~Takes(j)
PlaceAt(k) == Keeps[file[lastAdded[k]].kind]

LEMMA UnknownGiven ==
  ASSUME Shape, Shape', GivenInv, GivenInv', ReadNullObject
  PROVE  \/ /\ \A k \in DOMAIN lastAdded : ~Takes(k)
            /\ \A o, l : Given(o, l)' = Given(o, l)
         \/ \E k : /\ TopTaker(k)
                   /\ \A o, l : Given(o, l)' = IF PlaceAt(k) # None /\ o = lastAdded[k] /\ l = PlaceAt(k)
                                               THEN Append(Given(o, l), 0) ELSE Given(o, l)
<1>1. Records(added) /\ Records(added')
  BY RecordsAre
<1>2. CASE (\A k \in DOMAIN lastAdded : ~Takes(k)) /\ UNCHANGED added
  BY <1>2, TakenIs
<1>3. CASE \E k \in DOMAIN lastAdded :
          /\ Takes(k)
          /\ \A j \in DOMAIN lastAdded : j > k => ~Takes(j)
          /\ LET list == Keeps[file[lastAdded[k]].kind] IN
             IF list = None THEN UNCHANGED added
             ELSE added' = Append(added, [to |-> lastAdded[k], list |-> list, what |-> 0])
  <2>1. PICK k : /\ TopTaker(k)
                 /\ IF PlaceAt(k) = None THEN UNCHANGED added
                    ELSE added' = Append(added, [to |-> lastAdded[k], list |-> PlaceAt(k), what |-> 0])
    BY <1>3 DEF TopTaker, PlaceAt
  <2>2. CASE PlaceAt(k) = None
    BY <2>1, <2>2, TakenIs
  <2>3. CASE PlaceAt(k) # None
    <3>1. AddsTo(added, added', lastAdded[k], PlaceAt(k), 0)
      BY <2>1, <2>3, AppendAdds
    <3>2. \A o, l : Taken(added', o, l) = IF lastAdded[k] = o /\ PlaceAt(k) = l
                                          THEN Append(Taken(added, o, l), 0) ELSE Taken(added, o, l)
      BY <1>1, <3>1, TakenAdds
    <3> QED BY <2>1, <2>3, <3>2, TakenIs
  <2> QED BY <2>2, <2>3
<1> QED BY <1>2, <1>3 DEF ReadNullObject
-----------------------------------------------------------------------------
Holds(given, owed, growing) ==
  /\ Len(owed) <= Len(given) /\ \A i \in 1 .. Len(owed) : given[i] = owed[i]
  /\ growing => Len(given) = Len(owed)

ListsInv ==
  \A o \in DOMAIN file : \A l \in Lists :
    Whole[o] /\ Owns(file[o].kind, l) => Holds(Given(o, l), Owed(o, l), Growing(o, l))

LEMMA HoldsBoth ==
  ASSUME NEW g \in Seq(Nat), NEW w \in Seq(Nat), NEW b \in BOOLEAN, Holds(g, w, TRUE), NEW e \in Nat
  PROVE  Holds(Append(g, e), Append(w, e), b)
<1> DEFINE x == Append(g, e)
           y == Append(w, e)
           n == Len(w)
<1>1. n \in Nat /\ Len(g) = n /\ \A i \in 1 .. n : g[i] = w[i]
  BY DEF Holds
<1>2. /\ Len(x) = n + 1 /\ x[n + 1] = e /\ \A i \in 1 .. n : x[i] = g[i]
      /\ Len(y) = n + 1 /\ y[n + 1] = e /\ \A i \in 1 .. n : y[i] = w[i]
  BY <1>1, AppendProperties
<1> HIDE DEF x, y, n
<1>3. \A i \in 1 .. n + 1 : x[i] = y[i]
  <2> TAKE i \in 1 .. n + 1
  <2>1. i \in 1 .. n \/ i = n + 1
    BY <1>1
  <2> QED BY <1>1, <1>2, <2>1
<1>4. Holds(x, y, b)
  BY <1>1, <1>2, <1>3 DEF Holds
<1> QED BY <1>4 DEF x, y

LEMMA HoldsMore ==
  ASSUME NEW g \in Seq(Nat), NEW w \in Seq(Nat), NEW b, Holds(g, w, b), NEW e \in Nat
  PROVE  Holds(Append(g, e), w, FALSE)
<1> DEFINE x == Append(g, e)
<1>1. /\ Len(w) \in Nat /\ Len(g) \in Nat /\ Len(w) <= Len(g) /\ \A i \in 1 .. Len(w) : g[i] = w[i]
  BY DEF Holds
<1>2. /\ Len(x) = Len(g) + 1 /\ \A i \in 1 .. Len(g) : x[i] = g[i]
  BY AppendProperties
<1> HIDE DEF x
<1>3. \A i \in 1 .. Len(w) : i \in 1 .. Len(g)
  BY <1>1
<1>4. Holds(x, w, FALSE)
  BY <1>1, <1>2, <1>3 DEF Holds
<1> QED BY <1>4 DEF x

(* The path: each was written under the one before.                        *)
LEMMA PathOwners ==
  ASSUME ReadInv, OwnersInv, result = "reading", NEW j \in DOMAIN open, KindAt(j) # "backboard"
  PROVE  /\ j - 1 \in DOMAIN open /\ file[open[j]].under = open[j - 1] /\ open[j] \in DOMAIN file
         /\ open[j - 1] \in DOMAIN file
         /\ file[open[j]].under # None
         /\ KindAt(j) \in Kinds /\ KindAt(j - 1) \in Owners[KindAt(j)]
         /\ Whole[open[j]] = (file[open[j]].known /\ Whole[open[j - 1]])
<1> DEFINE p == open[j]
<1>1. /\ Shape /\ Treelike(file) /\ DOMAIN file = 1 .. Len(file) /\ Len(file) \in Nat
      /\ DOMAIN open = 1 .. Len(open) /\ Len(open) \in Nat
      /\ \A i \in DOMAIN open : open[i] \in DOMAIN file
  BY DEF ReadInv, TreeInv, IInv, Shape
<1>2. p \in DOMAIN file
  BY <1>1
<1>3. /\ file[p].under \in 1 .. p - 1 /\ file[p].kind \in Kinds
      /\ file[file[p].under].kind \in Owners[file[p].kind]
  BY <1>2 DEF OwnersInv, KindAt
<1>4. j # 1
  <2> SUFFICES ASSUME j = 1 PROVE FALSE
    OBVIOUS
  <2>1. p = 1
    BY DEF OwnersInv
  <2>2. 1 .. p - 1 = {}
    BY <2>1
  <2> QED BY <1>3, <2>2
<1>5. file[p].under = open[j - 1]
  BY <1>4 DEF OwnersInv
<1>6. j - 1 \in DOMAIN open
  BY <1>1, <1>4
<1>7. open[j - 1] \in DOMAIN file
  BY <1>1, <1>6
<1>8. file[p].under # None
  <2>1. open[j - 1] \in Nat
    BY <1>1, <1>7
  <2> QED BY <1>5, <2>1, FileImportAssumption
<1>9. Whole[p] = (file[p].known /\ (file[p].under = None \/ Whole[file[p].under]))
  BY <1>1, <1>2, WholeIs
<1>10. Whole[open[j - 1]] \in BOOLEAN
  BY <1>1, <1>7, WholeIs
<1> QED BY <1>2, <1>3, <1>5, <1>6, <1>7, <1>8, <1>9, <1>10 DEF KindAt

LEMMA OwedLen ==
  ASSUME NEW o, NEW l \in ByIndex, Written(o, l) \in Seq(Nat)
  PROVE  /\ Len(Owed(o, l)) = Len(Written(o, l))
         /\ \A i \in 1 .. Len(Written(o, l)) : Owed(o, l)[i] = Mark(Written(o, l)[i])
<1> DEFINE s == Written(o, l)
           g == [i \in DOMAIN s |-> Mark(s[i])]
<1>1. Owed(o, l) = g
  BY DEF Owed
<1>2. s \in Seq(Nat)
  OBVIOUS
<1> HIDE DEF s
<1>3. DOMAIN s = 1 .. Len(s) /\ \A i \in 1 .. Len(s) : s[i] \in Nat
  BY <1>2
<1>4. \A i \in DOMAIN s : g[i] = Mark(s[i])
  OBVIOUS
<1>5. \A i \in DOMAIN s : g[i] \in Nat
  BY <1>3, <1>4 DEF Mark
<1>6. g = [i \in DOMAIN s |-> g[i]]
  OBVIOUS
<1> HIDE DEF g
<1>7. Len(g) = Len(s)
  BY <1>2, <1>5, <1>6, OverIs DEF Over
<1> QED BY <1>1, <1>3, <1>4, <1>7 DEF s

(* The owner at a place of the path.                                       *)
LEMMA WithinPath ==
  ASSUME ReadInv, OwnersInv, result = "reading", NEW kind, NEW j \in DOMAIN open, KindAt(j) # "backboard"
  PROVE  Within(open[j], kind) = IF KindAt(j) = kind THEN open[j] ELSE Within(open[j - 1], kind)
<1>1. DOMAIN file = 1 .. Len(file) /\ Len(file) \in Nat /\ Treelike(file)
  BY DEF ReadInv, TreeInv, IInv, Shape
<1>2. open[j] \in DOMAIN file /\ file[open[j]].under = open[j - 1] /\ file[open[j]].under # None
  BY PathOwners
<1> DEFINE U == Up(file, kind)
           p == open[j]
<1>3. p \in 1 .. Len(file)
  BY <1>1, <1>2
<1> HIDE DEF p
<1>4. U[p] = IF file[p].kind = kind \/ file[p].under = None THEN p ELSE U[file[p].under]
  BY <1>1, <1>3, UpIs
<1> HIDE DEF U
<1> QED BY <1>2, <1>4, WithinIs DEF U, p, KindAt

(* A condition is written when its machine has all its inputs, and read    *)
(* when the machine that is the latest was given them.                     *)
LEMMA ConditionInputs ==
  ASSUME ReadInv, IInv', OwnersInv, OrderInv, ListsInv,
         NEW known \in BOOLEAN, NEW d \in Places("condition"), NEW ref, NEW h, h = Here,
         Writes("condition", known, d, ref), Whole[open[d]]
  PROVE  Len(Given(latest["machine"], "input")) = Len(Written(Within(h, "machine"), "input")')
<1> DEFINE m == open[d - 3]
           p == open[d]
<1>0. "condition" \in Kinds /\ "input" \in Kinds
  BY KindsAre
<1>1. /\ Adds(NewObject("condition", known, d, ref)) /\ h = Len(file) + 1 /\ result = "reading"
      /\ d \in Nat /\ d \in DOMAIN open /\ DOMAIN open = 1 .. Len(open) /\ Len(open) \in Nat
      /\ KindAt(d) \in Owners["condition"] /\ PathInv
  BY <1>0, WritesGrows DEF ReadInv
<1>2. KindAt(d) = "transition" /\ d - 1 \in DOMAIN open /\ KindAt(d - 1) = "state" /\ Whole[open[d - 1]]
  <2>1. KindAt(d) = "transition"
    BY <1>1, OwnersAre
  <2> QED BY <1>1, <2>1, PathOwners, OwnersAre
<1>3. d - 2 \in DOMAIN open /\ KindAt(d - 2) = "layer" /\ Whole[open[d - 2]]
  <2>1. (d - 1) - 1 = d - 2
    BY <1>1
  <2> QED BY SMTT(30), <1>1, <1>2, <2>1, PathOwners, OwnersAre
<1>4. d - 3 \in DOMAIN open /\ KindAt(d - 3) = "machine" /\ Whole[open[d - 3]] /\ m \in DOMAIN file
  <2>1. (d - 2) - 1 = d - 3
    BY <1>1
  <2> QED BY SMTT(30), <1>1, <1>3, <2>1, PathOwners, OwnersAre
<1>5. Within(p, "machine") = m
  <2>1. (d - 1) - 1 = d - 2 /\ (d - 2) - 1 = d - 3
    BY <1>1
  <2>2. Within(open[d], "machine") = Within(open[d - 1], "machine")
    BY <1>1, <1>2, WithinPath
  <2>3. Within(open[d - 1], "machine") = Within(open[d - 2], "machine")
    BY <1>1, <1>2, <2>1, WithinPath
  <2>4. Within(open[d - 2], "machine") = Within(open[d - 3], "machine")
    BY <1>1, <1>3, <2>1, WithinPath
  <2>5. Within(open[d - 3], "machine") = open[d - 3]
    BY <1>1, <1>4, WithinPath
  <2> QED BY <2>2, <2>3, <2>4, <2>5
<1>a. TreeInv /\ TreeInv' /\ file'[h] = NewObject("condition", known, d, ref)
  BY <1>0, TreeGrows DEF ReadInv
<1>b. p \in 1 .. Len(file)
  BY <1>1, <1>2, PathOwners DEF Adds
<1> HIDE DEF p, m
<1>6. Within(h, "machine")' = m
  <2> DEFINE g == file'
             n == Len(file)
             V == Up(g, "machine")
  <2>1. Treelike(g) /\ DOMAIN g = 1 .. n + 1 /\ n + 1 \in Nat /\ g[n + 1].kind = "condition"
        /\ g[n + 1].under = p /\ n + 1 \in 1 .. n + 1 /\ h = n + 1 /\ p \in 1 .. n
    <3>1. n \in Nat
      BY <1>1 DEF Adds
    <3> QED BY <1>1, <1>a, <1>b, <3>1 DEF TreeInv, Adds, NewObject, p
  <2> HIDE DEF g, n
  <2>2. V[n + 1] = IF g[n + 1].kind = "machine" \/ g[n + 1].under = None THEN n + 1 ELSE V[g[n + 1].under]
    BY <2>1, UpIs
  <2>3. p # None
    BY <2>1, FileImportAssumption
  <2>4. V[n + 1] = V[p]
    BY <2>1, <2>2, <2>3
  <2> HIDE DEF V
  <2>5. Within(h, "machine")' = V[h] /\ Within(p, "machine")' = V[open'[d]]
    BY WithinIs DEF V, g, p
  <2>6. open'[d] = p
    BY <1>0, <1>1, WritesGrows DEF p
  <2>7. \A q \in 1 .. Len(file) : Within(q, "machine")' = Within(q, "machine")
    BY <1>1, <1>a, WithinKept DEF TreeInv
  <2>8. \A q : Within(q, "machine")' = V[q]
    BY WithinIs DEF V, g
  <2>9. V[p] = Within(p, "machine")
    BY <1>b, <2>7, <2>8
  <2> QED BY <1>5, <2>1, <2>4, <2>8, <2>9
<1>7. Written(Within(h, "machine"), "input")' = Written(m, "input")
  <2>1. ListOf("condition") = "condition"
    BY <1>0, ListsAre
  <2>2. \A o : Written(o, "input")' = Written(o, "input")
    BY <1>0, <2>1, WrittenGrows
  <2>3. m = open[d - 3]
    BY DEF m
  <2> HIDE DEF Written
  <2>4. \A o : o = m => Written(o, "input")' = Written(m, "input")
    BY <2>2
  <2> QED BY <1>6, <2>4
<1>8. latest["machine"] = m
  BY <1>1, <1>4 DEF PathInv, Importer, ImporterTypes, m, KindAt
<1>9. Growing(m, "input")
  <2>1. Rank["layer"] = 2 /\ UpTo("input") = 2
    BY KindsAre DEF Rank, UpTo
  <2>2. (d - 3) + 1 = d - 2
    BY <1>1
  <2> QED BY <1>3, <1>4, <2>1, <2>2 DEF Growing, OpenAt, m
<1>10. "input" \in Lists /\ "input" \in ByIndex /\ Owns("machine", "input")
  <2>1. ListOf("input") = "input" /\ "input" # "bind"
    BY <1>0, ListsAre
  <2> QED BY <1>0, <2>1, OwnersAre DEF Lists, ByIndex, Owns
<1>11. Whole[m] /\ file[m].kind = "machine"
  BY <1>4 DEF m, KindAt
<1>12. Holds(Given(m, "input"), Owed(m, "input"), Growing(m, "input"))
  BY <1>4, <1>10, <1>11 DEF ListsInv
<1>13. Len(Owed(m, "input")) = Len(Written(m, "input"))
  <2>1. Written(m, "input") \in Seq(Nat)
    BY <1>0, WrittenGrows
  <2> QED BY <1>10, <2>1, OwedLen
<1> QED BY <1>7, <1>8, <1>9, <1>12, <1>13 DEF Holds
-----------------------------------------------------------------------------
(* A known object of an owner that is whole is taken, or it is a condition *)
(* on an input there is not. *)
LEMMA KeptHere ==
  ASSUME ReadInv, IInv', OwnersInv, OrderInv, ListsInv,
         NEW kind \in Kinds \ {"bind"}, NEW d \in Places(kind), NEW ref, NEW h, h = Here,
         Writes(kind, TRUE, d, ref), Whole[open[d]]
  PROVE  Taking(kind, ref) <=> h \in Kept'
<1>1. /\ Whole'[h] /\ file'[h] = NewObject(kind, TRUE, d, ref) /\ h \in DOMAIN file'
  BY TreeGrows
<1>2. file'[h].kind = kind /\ file'[h].ref = ref
  BY <1>1 DEF NewObject
<1>3. kind # "backboard"
  BY KindsAre
<1>4. result = "reading" /\ open[d] # None
  <2>1. result = "reading" /\ d \in 1 .. Len(open) /\ (\A j \in 1 .. Len(open) : open[j] \in 1 .. Len(file))
        /\ Len(file) \in Nat
    BY WritesGrows DEF Adds
  <2> QED BY <2>1, FileImportAssumption
<1>5. latest[Asks(kind)] # None
  BY <1>4, AsksItsOwner
<1>6. Taking(kind, ref) <=> (kind = "condition" => InputsAre(ref))
  BY <1>5 DEF Taking
<1>7. kind = "condition" => Len(Given(latest["machine"], "input")) = Len(Written(Within(h, "machine"), "input")')
  <2> SUFFICES ASSUME kind = "condition"
               PROVE  Len(Given(latest["machine"], "input")) = Len(Written(Within(h, "machine"), "input")')
    OBVIOUS
  <2>1. Writes("condition", TRUE, d, ref) /\ d \in Places("condition")
    OBVIOUS
  <2> QED BY <2>1, ConditionInputs
<1>8. IsKept(h)' <=> (kind = "condition" => ref < Len(Written(Within(h, "machine"), "input")'))
  BY <1>1, <1>2, <1>3 DEF IsKept
<1>9. h \in Kept' <=> IsKept(h)'
  BY KeptIs
<1> QED BY <1>6, <1>7, <1>8, <1>9 DEF InputsAre

OnPath(o, d) == \E j \in 1 .. d : o = open[j]
StaysOpen(o, l, d) ==
  \E j \in 1 .. d : /\ o = open[j] /\ OpenAt(j, UpTo(l))' /\ OpenAt(j, UpTo(l))
                    /\ KindAt(j)' = KindAt(j)

(* A list that is still added to after the step was before it. *)
LEMMA GrowingBefore ==
  ASSUME ReadInv, NEW kind \in Kinds, NEW known \in BOOLEAN, NEW d \in Places(kind), NEW ref,
         Writes(kind, known, d, ref), NEW o \in DOMAIN file, NEW l \in Lists, Growing(o, l)'
  PROVE  Growing(o, l) /\ OnPath(o, d) /\ StaysOpen(o, l, d)
<1>1. /\ Adds(NewObject(kind, known, d, ref)) /\ Here = Len(file) + 1
      /\ d \in Nat /\ d \in 1 .. Len(open) /\ DOMAIN open = 1 .. Len(open) /\ Len(open) \in Nat
      /\ DOMAIN open' = 1 .. d + 1 /\ Len(open') = d + 1
      /\ \A j \in 1 .. d : open'[j] = open[j]
      /\ open'[d + 1] = Here
  BY WritesGrows
<1>2. UpTo(l) \in Int
  <2>1. l \in Kinds \/ l = "objects"
    BY ListsAre
  <2> QED BY <2>1, RanksAre DEF UpTo
<1>3. PICK j \in DOMAIN open' : open'[j] = o /\ OpenAt(j, UpTo(l))'
  <2>1. UpTo(l)' = UpTo(l)
    BY DEF UpTo
  <2> QED BY <2>1 DEF Growing
<1>4. j \in 1 .. d
  <2>1. j # d + 1
    BY <1>1, <1>3 DEF Adds
  <2> QED BY <1>1, <2>1
<1>5. OpenAt(j, UpTo(l)) /\ KindAt(j)' = KindAt(j)
  <2>1. \A i \in 1 .. d : \A r \in Int : OpenAt(i, r)' => OpenAt(i, r)
    BY PathOpens
  <2>2. \A i \in 1 .. d : KindAt(i)' = KindAt(i)
    BY PathOpens
  <2>3. \A r : r = UpTo(l) => (OpenAt(j, UpTo(l))' <=> OpenAt(j, r)')
    BY DEF OpenAt, UpTo
  <2> QED BY <1>2, <1>3, <1>4, <2>1, <2>2, <2>3
<1>6. open[j] = o /\ j \in DOMAIN open
  BY <1>1, <1>3, <1>4
<1> QED BY <1>3, <1>4, <1>5, <1>6 DEF Growing, OnPath, StaysOpen
-----------------------------------------------------------------------------
LEMMA UpToIs ==
  \A kind \in Kinds \ {"bind"} : Rank[kind] <= UpTo(ListOf(kind)) /\ UpTo(ListOf(kind)) \in Int
<1> SUFFICES ASSUME NEW kind \in Kinds \ {"bind"}
             PROVE  Rank[kind] <= UpTo(ListOf(kind)) /\ UpTo(ListOf(kind)) \in Int
  OBVIOUS
<1>1. Rank["component"] = 1 /\ Rank["nested"] = 1 /\ Rank["image"] = 1 /\ Rank["input"] = 1
  BY KindsAre DEF Rank
<1>2. CASE kind \in {"component", "nested", "image"}
  BY <1>1, <1>2, ListsAre DEF UpTo
<1>3. CASE kind \notin {"component", "nested", "image"}
  <2>1. ListOf(kind) = kind /\ kind # "objects"
    BY <1>3, ListsAre
  <2> QED BY <1>1, <2>1, RanksAre DEF UpTo
<1> QED BY <1>2, <1>3

LEMMA HoldsLess ==
  ASSUME NEW g, NEW w, NEW b \in BOOLEAN, NEW c \in BOOLEAN, Holds(g, w, b), c => b
  PROVE  Holds(g, w, c)
BY DEF Holds

(* A known object that is given to another owner than the one it was       *)
(* written under is so when nothing is added to that one's list any more.  *)
LEMMA GivenElsewhere ==
  ASSUME ReadInv, OwnersInv, OrderInv, PlaceholdersFit, family \in Families,
         NEW kind \in Kinds \ {"bind"}, NEW known \in BOOLEAN, NEW d \in Places(kind), NEW ref,
         Writes(kind, known, d, ref),
         NEW o \in DOMAIN file, Whole[o], o # open[d], o = latest[Asks(kind)],
         Owns(file[o].kind, ListOf(kind)),
         NEW j \in 1 .. d, o = open[j]
  PROVE  FALSE
<1>1. /\ d \in Nat /\ d \in 1 .. Len(open) /\ DOMAIN open = 1 .. Len(open) /\ Len(open) \in Nat
      /\ KindAt(d) \in Owners[kind] /\ result = "reading" /\ DOMAIN file = 1 .. Len(file)
      /\ \A i \in 1 .. Len(open) : open[i] \in DOMAIN file
  <2>1. /\ Adds(NewObject(kind, known, d, ref)) /\ d \in Nat /\ d \in 1 .. Len(open)
        /\ DOMAIN open = 1 .. Len(open) /\ Len(open) \in Nat
        /\ KindAt(d) \in Owners[kind] /\ result = "reading"
        /\ \A i \in 1 .. Len(open) : open[i] \in 1 .. Len(file)
    BY WritesGrows
  <2> QED BY <2>1 DEF Adds
<1>2. ~Whole[open[d]]
  BY <1>1, AsksItsOwner
<1>3. j < d /\ j \in DOMAIN open /\ d \in DOMAIN open
  BY <1>1
<1>4. PathInv
  BY <1>1 DEF ReadInv
<1>5. Level(KindAt(j)) < Level(KindAt(d))
  BY <1>3, <1>4 DEF PathInv
<1>6. /\ \A i \in DOMAIN open : KindAt(i) \in Kinds \cup {"backboard"}
  BY <1>1 DEF ReadInv, KeptInv, KindAt
<1>7. \A i \in DOMAIN open : Level(KindAt(i)) \in Nat
  BY <1>6, KindsAre DEF Level
<1>8. CASE kind # "fireEvent"
  <2>1. Owners[kind] = {Asks(kind)} /\ Asks(kind) \in Owning
    BY <1>8, AsksIs
  <2>2. o # None
    <3>1. o \in Nat
      BY <1>1 DEF ReadInv, IInv, Shape
    <3> QED BY <3>1, FileImportAssumption
  <2>3. file[o].kind = Asks(kind)
    BY <2>1, <2>2 DEF OrderInv, OfTheirTypes
  <2>4. KindAt(j) = KindAt(d)
    BY <1>1, <2>1, <2>3 DEF KindAt
  <2> QED BY <1>3, <1>5, <1>7, <2>4
<1>9. CASE kind = "fireEvent"
  <2>1. KindAt(j) \in {"state", "transition"}
    <3>1. PICK k \in Kinds \ {"bind"} : ListOf(k) = ListOf(kind) /\ file[o].kind \in Owners[k]
      BY DEF Owns
    <3>2. ListOf("fireEvent") = "fireEvent" /\ "fireEvent" # "objects"
      BY <1>9, ListsAre
    <3>3. k = "fireEvent"
      BY <1>9, <3>1, <3>2, ListsAre
    <3> QED BY <3>1, <3>3, OwnersAre DEF KindAt
  <2>2. KindAt(d) \in {"state", "transition"}
    BY <1>1, <1>9, OwnersAre
  <2>3. KindAt(j) = "state" /\ KindAt(d) = "transition"
    <3>1. Level("state") = 4 /\ Level("transition") = 5
      BY DEF Level
    <3> QED BY <1>5, <2>1, <2>2, <3>1
  <2>4. d - 1 \in DOMAIN open /\ KindAt(d - 1) = "state"
        /\ Whole[open[d]] = (file[open[d]].known /\ Whole[open[d - 1]])
    <3>1. KindAt(d) # "backboard"
      BY <2>3
    <3>2. d - 1 \in DOMAIN open /\ KindAt(d - 1) \in Owners[KindAt(d)]
        /\ Whole[open[d]] = (file[open[d]].known /\ Whole[open[d - 1]])
      BY <1>1, <1>3, <3>1, PathOwners
    <3> QED BY <2>3, <3>2, OwnersAre
  <2>5. j = d - 1
    <3>1. ~(j < d - 1)
      BY <1>3, <1>4, <1>7, <2>3, <2>4 DEF PathInv
    <3> QED BY <1>1, <1>3, <3>1
  <2>6. file[open[d]].known
    <3>1. file[open[d]].known \/ file[open[d]].kind \in family.unknown
      BY <1>1 DEF OwnersInv
    <3>2. "transition" \notin family.unknown
      BY DEF PlaceholdersFit
    <3> QED BY <2>3, <3>1, <3>2 DEF KindAt
  <2> QED BY <1>2, <2>4, <2>5, <2>6
<1> QED BY <1>8, <1>9

LEMMA KnownHolds ==
  ASSUME ReadInv, IInv', GivenInv, GivenInv', OwnersInv, OrderInv, ListsInv, PlaceholdersFit,
         family \in Families, NEW kind \in Kinds, NEW d \in Places(kind), NEW ref,
         Reads(kind, TRUE, d, ref),
         NEW o \in DOMAIN file, NEW l \in Lists, Whole[o], Owns(file[o].kind, l)
  PROVE  Holds(Given(o, l)', Owed(o, l)', Growing(o, l)')
<1> DEFINE h == Here
           took == Taking(kind, ref) /\ o = latest[Asks(kind)] /\ l = ListOf(kind)
           owes == open[d] = o /\ ListOf(kind) = l /\ (l \in ByIndex \/ h \in Kept')
           g == Given(o, l)
           w == Owed(o, l)
           c == Growing(o, l)'
           b == Growing(o, l)
<1>1. Writes(kind, TRUE, d, ref) /\ GivesKnown(kind, ref)
  BY DEF Reads
<1>2. Shape /\ Shape' /\ h \in Nat
  <2>1. Adds(NewObject(kind, TRUE, d, ref)) /\ Here = Len(file) + 1
    BY <1>1, WritesGrows
  <2> QED BY <2>1 DEF ReadInv, IInv, Adds
<1>3. Given(o, l)' = IF took THEN Append(g, h) ELSE g
  BY <1>1, <1>2, KnownGiven
<1>4. w \in Seq(Nat) /\ Owed(o, l)' = IF owes THEN Append(w, h) ELSE w
  <2>1. Writes(kind, TRUE, d, ref) /\ TRUE \in BOOLEAN
    BY <1>1
  <2>2. /\ Owed(o, l) \in Seq(Nat)
        /\ Owed(o, l)' = IF open[d] = o /\ ListOf(kind) = l /\ (l \in ByIndex \/ Here \in Kept')
                         THEN Append(Owed(o, l), IF TRUE THEN Here ELSE 0) ELSE Owed(o, l)
    BY <2>1, OwedGrows
  <2> QED BY <2>2
<1>5. g \in Seq(Nat)
  BY <1>2, TakenIs, TakenIsSeq, RecordsAre
<1>6. Holds(g, w, b)
  BY DEF ListsInv
<1>7. b \in BOOLEAN /\ c \in BOOLEAN /\ (c => b)
  <2>1. c => b
    BY <1>1, GrowingBefore
  <2> QED BY <2>1 DEF Growing
<1>8. kind # "bind" => took = owes \/ (took /\ ~owes /\ o # open[d])
  <2> SUFFICES ASSUME kind # "bind"
               PROVE  took = owes \/ (took /\ ~owes /\ o # open[d])
    OBVIOUS
  <2>0. result = "reading"
    BY <1>1 DEF Writes
  <2>1. CASE o = open[d] /\ l = ListOf(kind)
    <3>1. Taking(kind, ref) <=> h \in Kept'
      BY <1>1, <2>1, KeptHere
    <3>2. latest[Asks(kind)] = o
      BY <2>0, <2>1, AsksItsOwner
    <3>3. l \in ByIndex => Taking(kind, ref)
      <4>1. o # None
        BY <1>2, FileImportAssumption DEF Shape
      <4>2. l \in ByIndex => kind # "condition"
        BY <2>1, ListsAre DEF ByIndex
      <4> QED BY <3>2, <4>1, <4>2 DEF Taking
    <3> HIDE DEF h
    <3> QED BY <2>1, <3>1, <3>2, <3>3
  <2>2. CASE ~(o = open[d] /\ l = ListOf(kind))
    <3> HIDE DEF h
    <3> QED BY <2>2
  <2> QED BY <2>1, <2>2
<1>9. kind = "bind" => ~took /\ ~owes
  <2>1. kind = "bind" => ListOf(kind) = "bind"
    BY ListsAre
  <2>2. l # "bind"
    BY ListsAre
  <2> QED BY <2>1, <2>2 DEF Taking
<1>10. owes => b
  <2> SUFFICES ASSUME owes PROVE b
    OBVIOUS
  <2>1. kind # "bind"
    BY <1>9
  <2>2. Rank[kind] <= UpTo(l) /\ UpTo(l) \in Int
    BY <2>1, UpToIs
  <2>3. OpenAt(d, UpTo(l))
    BY <1>1, <2>2, PathOpens
  <2>4. d \in DOMAIN open
    BY DEF Places
  <2> QED BY <2>3, <2>4 DEF Growing
<1>11. took /\ o # open[d] => ~c
  <2> SUFFICES ASSUME took, o # open[d], c PROVE FALSE
    OBVIOUS
  <2>1. PICK j \in 1 .. d : o = open[j]
    <3>1. OnPath(o, d)
      BY <1>1, GrowingBefore
    <3> QED BY <3>1 DEF OnPath
  <2>2. kind # "bind"
    BY <1>9
  <2> QED BY <1>1, <2>1, <2>2, GivenElsewhere
<1> HIDE DEF h, took, owes, g, w, c, b
<1>12. CASE took /\ owes
  <2>1. Holds(g, w, TRUE)
    BY <1>6, <1>10, <1>12
  <2>2. Holds(Append(g, h), Append(w, h), c)
    BY <1>2, <1>4, <1>5, <1>7, <2>1, HoldsBoth
  <2> QED BY <1>3, <1>4, <1>12, <2>2 DEF c
<1>13. CASE ~took /\ ~owes
  <2>1. Holds(g, w, c)
    BY <1>6, <1>7, HoldsLess
  <2> QED BY <1>3, <1>4, <1>13, <2>1 DEF c
<1>14. CASE took /\ ~owes /\ o # open[d]
  <2>1. Holds(Append(g, h), w, FALSE)
    BY <1>2, <1>4, <1>5, <1>6, HoldsMore
  <2>2. c = FALSE
    BY <1>7, <1>11, <1>14
  <2> QED BY <1>3, <1>4, <1>14, <2>1, <2>2 DEF c
<1>15. took \in BOOLEAN /\ owes \in BOOLEAN
  BY DEF took, owes
<1> QED BY <1>8, <1>9, <1>12, <1>13, <1>14, <1>15
-----------------------------------------------------------------------------
LEMMA KeepsAre ==
  /\ DOMAIN Keeps = {"artboard", "machine", "layer", "keyedProperty"}
  /\ Keeps["artboard"] = "objects" /\ Keeps["machine"] = "input" /\ Keeps["layer"] = "state"
  /\ Keeps["keyedProperty"] = None
  /\ DOMAIN Keeps \subseteq ImporterTypes
BY DEF Keeps, ImporterTypes

(* No importer of the path that takes unknown objects is earlier than the  *)
(* one that takes them. *)
LEMMA TopOnPath ==
  ASSUME ReadInv, OrderInv, result = "reading", NEW q \in DOMAIN open, Whole[open[q]],
         KindAt(q) \in DOMAIN Keeps
  PROVE  /\ \E i \in DOMAIN lastAdded : Takes(i)
         /\ \A k : TopTaker(k) => open[q] <= lastAdded[k]
<1> DEFINE p == open[q]
<1>1. /\ StackInv /\ KeptInv /\ PathInv /\ p \in DOMAIN file /\ DOMAIN file = 1 .. Len(file)
      /\ lastAdded \in Seq(Nat)
  <2>1. open \in Seq(1 .. Len(file)) /\ DOMAIN file = 1 .. Len(file)
    BY DEF ReadInv, IInv, Shape, TreeInv
  <2> QED BY <2>1 DEF ReadInv, IInv, Shape
<1>2. Importer(p) /\ file[p].kind \in ImporterTypes /\ latest[file[p].kind] = p /\ p # None
  <2>1. Importer(p)
    BY KeepsAre DEF Importer, KindAt
  <2>2. latest[file[p].kind] = p
    BY <1>1, <2>1 DEF PathInv, KindAt
  <2>3. p \in Nat
    BY <1>1 DEF ReadInv, IInv, Shape
  <2> QED BY <2>1, <2>2, <2>3, FileImportAssumption DEF Importer
<1>3. p \notin ToSet(done)
  BY <1>1, <1>2 DEF StackInv
<1>4. p \in ToSet(lastAdded)
  BY <1>1, <1>2, <1>3 DEF KeptInv
<1>5. PICK i \in DOMAIN lastAdded : lastAdded[i] = p
  BY <1>4 DEF ToSet
<1>6. Takes(i)
  BY <1>5 DEF Takes, KindAt
<1>7. ASSUME NEW k, TopTaker(k) PROVE p <= lastAdded[k]
  <2>1. k \in DOMAIN lastAdded /\ ~(i > k) /\ DOMAIN lastAdded = 1 .. Len(lastAdded)
        /\ lastAdded[k] \in Nat /\ lastAdded[i] \in Nat
    BY <1>1, <1>5, <1>6, <1>7 DEF TopTaker
  <2>2. i < k => lastAdded[i] < lastAdded[k]
    BY <1>5, <2>1 DEF OrderInv, Ascends
  <2>3. i < k \/ i = k
    BY <1>5, <2>1
  <2> QED BY <1>5, <2>1, <2>2, <2>3
<1> QED BY <1>6, <1>7

(* An unknown object whose place counts is kept it by its owner.           *)
LEMMA PlaceIsKept ==
  ASSUME ReadInv, OwnersInv, OrderInv,
         NEW kind \in Kinds, NEW d \in Places(kind), NEW ref, Writes(kind, FALSE, d, ref),
         Whole[open[d]], ListOf(kind) \in ByIndex
  PROVE  /\ \E i \in DOMAIN lastAdded : Takes(i)
         /\ \A k : TopTaker(k) => /\ open[d] = lastAdded[k] /\ PlaceAt(k) = ListOf(kind)
                                  /\ PlaceAt(k) # None
<1>1. /\ d \in DOMAIN open /\ KindAt(d) \in Owners[kind] /\ result = "reading"
      /\ open[d] \in DOMAIN file /\ DOMAIN file = 1 .. Len(file) /\ StackInv
      /\ FALSE \in BOOLEAN
  <2>1. /\ Adds(NewObject(kind, FALSE, d, ref)) /\ d \in 1 .. Len(open)
        /\ DOMAIN open = 1 .. Len(open) /\ KindAt(d) \in Owners[kind] /\ result = "reading"
        /\ \A i \in 1 .. Len(open) : open[i] \in 1 .. Len(file)
    BY WritesGrows
  <2> QED BY <2>1 DEF Adds, ReadInv, IInv
<1>2. kind \in {"component", "nested", "image", "input", "state"} /\ Rank[kind] <= 1
  <2>1. kind \in {"component", "nested", "image", "input", "state"}
    BY ListsAre DEF ByIndex
  <2>2. Rank["component"] = 1 /\ Rank["nested"] = 1 /\ Rank["image"] = 1 /\ Rank["input"] = 1
        /\ Rank["state"] = 1
    BY KindsAre DEF Rank
  <2> QED BY <2>1, <2>2
<1>3. KindAt(d) \in Takers /\ KindAt(d) \in DOMAIN Keeps /\ Keeps[KindAt(d)] = ListOf(kind)
  <2>1. ListOf("input") = "input" /\ ListOf("state") = "state"
    BY KindsAre, ListsAre
  <2> QED BY <1>1, <1>2, <2>1, OwnersAre, KeepsAre, ListsAre DEF Takers
<1>4. OpenAt(d, 1)
  <2>1. \A r \in Int : Rank[kind] <= r => OpenAt(d, r)
    BY <1>1, PathOpens
  <2> QED BY <1>2, <2>1
<1>5. /\ \E i \in DOMAIN lastAdded : Takes(i)
      /\ \A k : TopTaker(k) => open[d] <= lastAdded[k]
  BY <1>1, <1>3, TopOnPath
<1>6. ASSUME NEW k, TopTaker(k) PROVE open[d] = lastAdded[k] /\ PlaceAt(k) = ListOf(kind)
  <2>1. k \in DOMAIN lastAdded /\ file[lastAdded[k]].kind \in DOMAIN Keeps /\ open[d] <= lastAdded[k]
    BY <1>5, <1>6 DEF TopTaker, Takes
  <2>2. lastAdded[k] \in DOMAIN file
    BY <1>1, <2>1 DEF StackInv, Owning
  <2>3. ~(open[d] < lastAdded[k])
    <3> SUFFICES ASSUME open[d] < lastAdded[k] PROVE FALSE
      OBVIOUS
    <3>1. file[lastAdded[k]].kind \in Inside(KindAt(d))
      BY <1>1, <1>3, <1>4, <2>2 DEF OrderInv, ClosedInv
    <3> QED BY <1>3, <2>1, <3>1, KeepsAre DEF Inside, Takers
  <2>4. open[d] = lastAdded[k]
    BY <1>1, <2>1, <2>2, <2>3 DEF ReadInv, IInv, Shape
  <2> QED BY <1>3, <2>4 DEF PlaceAt, KindAt
<1>7. ListOf(kind) # None
  BY FileImportAssumption DEF ByIndex
<1> QED BY <1>5, <1>6, <1>7

(* A place that is kept by another owner, or in another list, than the     *)
(* object was written for is so when nothing is added to the list any      *)
(* more.                                                                   *)
LEMMA PlaceElsewhere ==
  ASSUME ReadInv, OwnersInv, OrderInv, PlaceholdersFit, family \in Families,
         NEW kind \in Kinds, kind \in family.unknown, NEW d \in Places(kind), NEW ref,
         Writes(kind, FALSE, d, ref),
         NEW k, TopTaker(k), PlaceAt(k) # None, NEW o \in DOMAIN file, o = lastAdded[k], Whole[o],
         ~(o = open[d] /\ ListOf(kind) = PlaceAt(k)),
         NEW j \in 1 .. d, o = open[j], OpenAt(j, UpTo(PlaceAt(k))),
         j = d => Rank[kind] <= UpTo(PlaceAt(k))
  PROVE  FALSE
<1>1. /\ d \in Nat /\ d \in DOMAIN open /\ KindAt(d) \in Owners[kind] /\ result = "reading"
      /\ DOMAIN open = 1 .. Len(open) /\ Len(open) \in Nat /\ j \in DOMAIN open
      /\ \A i \in DOMAIN open : open[i] \in DOMAIN file
  <2>0. FALSE \in BOOLEAN
    OBVIOUS
  <2>1. /\ Adds(NewObject(kind, FALSE, d, ref)) /\ d \in Nat /\ d \in 1 .. Len(open)
        /\ DOMAIN open = 1 .. Len(open) /\ KindAt(d) \in Owners[kind] /\ result = "reading"
        /\ Len(open) \in Nat
        /\ \A i \in 1 .. Len(open) : open[i] \in 1 .. Len(file)
    BY <2>0, WritesGrows
  <2> QED BY <2>1 DEF Adds
<1>2. kind \notin {"bind", "layer", "fireEvent", "transition", "condition", "blend"}
  BY DEF PlaceholdersFit
<1>3. KindAt(j) \in {"artboard", "machine", "layer"} /\ PlaceAt(k) = Keeps[KindAt(j)]
  BY KeepsAre DEF TopTaker, Takes, PlaceAt, KindAt
<1>4. /\ UpTo("objects") = 1 /\ UpTo("input") = 2 /\ UpTo("state") = 1
      /\ Rank["layer"] = 2 /\ Rank["listener"] = 3 /\ Rank["animation"] = 2 /\ Rank["machine"] = 3
      /\ Rank["transition"] = 2
  BY KindsAre DEF UpTo, Rank
<1>5. /\ KindAt(j) = "artboard" => UpTo(PlaceAt(k)) = 1
      /\ KindAt(j) = "machine" => UpTo(PlaceAt(k)) = 2
      /\ KindAt(j) = "layer" => UpTo(PlaceAt(k)) = 1
  BY <1>3, <1>4, KeepsAre
<1>6. CASE j = d
  <2>1. ListOf("input") = "input" /\ ListOf("state") = "state"
    BY KindsAre, ListsAre
  <2>2. ListOf(kind) # PlaceAt(k)
    BY <1>6
  <2>3. CASE KindAt(d) = "artboard"
    <3>1. kind \in {"component", "nested", "image", "animation", "machine"}
      BY <1>1, <2>3, KindsAre, OwnersAre
    <3>2. kind \in {"component", "nested", "image"}
      BY <1>4, <1>5, <1>6, <2>3, <3>1
    <3> QED BY <1>3, <1>6, <2>2, <2>3, <3>2, ListsAre, KeepsAre
  <2>4. CASE KindAt(d) = "machine"
    <3>1. kind \in {"input", "layer", "listener"}
      BY <1>1, <2>4, KindsAre, OwnersAre
    <3>2. kind = "input"
      BY <1>2, <1>4, <1>5, <1>6, <2>4, <3>1
    <3> QED BY <1>3, <1>6, <2>1, <2>2, <2>4, <3>2, KeepsAre
  <2>5. CASE KindAt(d) = "layer"
    <3>1. kind = "state"
      BY <1>1, <2>5, KindsAre, OwnersAre
    <3> QED BY <1>3, <1>6, <2>1, <2>2, <2>5, <3>1, KeepsAre
  <2> QED BY <1>3, <1>6, <2>3, <2>4, <2>5
<1>7. CASE j # d
  <2>1. j < d /\ j < Len(open) /\ open[j] < open[d] /\ j + 1 \in DOMAIN open /\ (j + 1) - 1 = j
        /\ open[j] < open[j + 1]
    <3>1. j < d /\ j < Len(open) /\ j + 1 \in DOMAIN open /\ (j + 1) - 1 = j /\ j < j + 1
      BY <1>1, <1>7
    <3> QED BY <1>1, <3>1 DEF OwnersInv
  <2>2. CASE KindAt(j) \in {"artboard", "layer"}
    <3>1. OpenAt(j, 1) /\ KindAt(j) \in Takers
      BY <1>5, <2>2 DEF Takers
    <3>2. KindAt(d) \in Inside(KindAt(j))
      BY <1>1, <2>1, <3>1 DEF OrderInv, ClosedInv, KindAt
    <3>3. KindAt(d) \in {"component", "nested", "image", "bind", "state", "transition", "blend",
                         "condition", "fireEvent"}
      BY <2>2, <3>2 DEF Inside
    <3> QED BY <1>1, <1>2, <3>3, KindsAre, OwnersAre
  <2>3. CASE KindAt(j) = "machine"
    <3>1. Rank[KindAt(j + 1)] <= 2
      BY <1>5, <2>1, <2>3 DEF OpenAt
    <3>2. KindAt(j + 1) # "backboard"
      <4>1. open[j + 1] # 1
        <5>1. open[j] \in 1 .. Len(file) /\ open[j + 1] \in 1 .. Len(file) /\ Len(file) \in Nat
          BY SMTT(30), <1>1, <2>1 DEF ReadInv, IInv, Shape
        <5> QED BY <2>1, <5>1
      <4>2. open[j + 1] \in DOMAIN file
        BY <1>1, <2>1
      <4> QED BY <4>1, <4>2, KindsAre DEF OwnersInv, KindAt
    <3>3. /\ KindAt(j + 1) \in Kinds /\ KindAt(j) \in Owners[KindAt(j + 1)]
          /\ Whole[open[j + 1]] = (file[open[j + 1]].known /\ Whole[open[j]])
      BY <1>1, <2>1, <3>2, PathOwners
    <3>4. KindAt(j + 1) \in {"input", "layer"}
      <4>1. KindAt(j + 1) \in {"input", "layer", "listener"}
        BY <2>3, <3>3, KindsAre, OwnersAre
      <4> QED BY <1>4, <3>1, <4>1
    <3>5. CASE KindAt(j + 1) = "input"
      <4>1. \A x \in Kinds : "input" \notin Owners[x]
        BY KindsAre, OwnersAre
      <4>2. j + 1 # d
        BY <1>1, <3>5, <4>1
      <4>3. j + 2 \in DOMAIN open /\ (j + 2) - 1 = j + 1 /\ j + 1 < j + 2
        BY <1>1, <2>1, <4>2
      <4>4. open[j + 2] # 1 /\ open[j + 2] \in DOMAIN file
        <5>1. open[j + 1] < open[j + 2]
          BY <2>1, <4>3 DEF OwnersInv
        <5>2. open[j + 2] \in 1 .. Len(file) /\ open[j + 1] \in 1 .. Len(file) /\ Len(file) \in Nat
              /\ DOMAIN file = 1 .. Len(file)
          <6>1. DOMAIN file = 1 .. Len(file) /\ Len(file) \in Nat
            BY DEF ReadInv, IInv, Shape
          <6>2. open[j + 2] \in DOMAIN file /\ open[j + 1] \in DOMAIN file
            BY <1>1, <2>1, <4>3
          <6> QED BY <6>1, <6>2
        <5> QED BY <5>1, <5>2
      <4>5. KindAt(j + 2) # "backboard"
        BY <4>4, KindsAre DEF OwnersInv, KindAt
      <4>6. KindAt(j + 2) \in Kinds /\ KindAt((j + 2) - 1) \in Owners[KindAt(j + 2)]
        BY <1>1, <4>3, <4>5, PathOwners
      <4> QED BY <3>5, <4>1, <4>3, <4>6
    <3>6. CASE KindAt(j + 1) = "layer"
      <4>1. file[open[j + 1]].known
        <5>1. file[open[j + 1]].known \/ file[open[j + 1]].kind \in family.unknown
          BY <1>1, <2>1 DEF OwnersInv
        <5>2. "layer" \notin family.unknown
          BY DEF PlaceholdersFit
        <5> QED BY <3>6, <5>1, <5>2 DEF KindAt
      <4>2. Whole[open[j + 1]]
        BY <3>3, <4>1
      <4>3. open[j + 1] <= lastAdded[k]
        BY <1>1, <2>1, <3>6, <4>2, TopOnPath, KeepsAre
      <4>4. open[j] \in Nat /\ open[j + 1] \in Nat
        <5>1. open[j] \in 1 .. Len(file) /\ open[j + 1] \in 1 .. Len(file) /\ Len(file) \in Nat
          BY SMTT(30), <1>1, <2>1 DEF ReadInv, IInv, Shape
        <5> QED BY <5>1
      <4> QED BY <2>1, <4>3, <4>4
    <3> QED BY <3>4, <3>5, <3>6
  <2> QED BY <1>3, <2>2, <2>3
<1> QED BY <1>6, <1>7
-----------------------------------------------------------------------------
LEMMA UnknownHolds ==
  ASSUME ReadInv, IInv', GivenInv, GivenInv', OwnersInv, OrderInv, ListsInv, PlaceholdersFit,
         family \in Families, NEW kind \in Kinds, NEW d \in Places(kind), NEW ref,
         Reads(kind, FALSE, d, ref),
         NEW o \in DOMAIN file, NEW l \in Lists, Whole[o], Owns(file[o].kind, l)
  PROVE  Holds(Given(o, l)', Owed(o, l)', Growing(o, l)')
<1> DEFINE took(k) == PlaceAt(k) # None /\ o = lastAdded[k] /\ l = PlaceAt(k)
           owes == open[d] = o /\ ListOf(kind) = l /\ l \in ByIndex
           g == Given(o, l)
           w == Owed(o, l)
           c == Growing(o, l)'
           b == Growing(o, l)
<1>0. FALSE \in BOOLEAN /\ 0 \in Nat
  OBVIOUS
<1>1. Writes(kind, FALSE, d, ref) /\ ReadNullObject /\ kind \in family.unknown
  BY DEF Reads
<1>2. Shape /\ Shape'
  BY DEF ReadInv, IInv
<1>3. w \in Seq(Nat) /\ Owed(o, l)' = IF owes THEN Append(w, 0) ELSE w
  <2>1. /\ Owed(o, l) \in Seq(Nat)
        /\ Owed(o, l)' = IF open[d] = o /\ ListOf(kind) = l /\ (l \in ByIndex \/ Here \in Kept')
                         THEN Append(Owed(o, l), IF FALSE THEN Here ELSE 0) ELSE Owed(o, l)
    BY <1>0, <1>1, OwedGrows
  <2>2. ASSUME NEW h, h = Here PROVE h \notin Kept'
    <3>1. Whole'[Here] = (FALSE /\ Whole[open[d]])
      BY <1>0, <1>1, TreeGrows
    <3>2. h \in Kept' => Whole'[h]
      BY KeptIs DEF IsKept
    <3> QED BY <2>2, <3>1, <3>2
  <2> QED BY <2>1, <2>2
<1>4. g \in Seq(Nat)
  BY <1>2, TakenIs, TakenIsSeq, RecordsAre
<1>5. Holds(g, w, b)
  BY DEF ListsInv
<1>6. b \in BOOLEAN /\ c \in BOOLEAN /\ (c => b)
  <2>1. c => b
    BY <1>0, <1>1, GrowingBefore
  <2> QED BY <2>1 DEF Growing
<1>7. owes => b
  <2> SUFFICES ASSUME owes PROVE b
    OBVIOUS
  <2>1. kind # "bind"
    BY ListsAre
  <2>2. Rank[kind] <= UpTo(l) /\ UpTo(l) \in Int
    BY <2>1, UpToIs
  <2>3. \A r \in Int : Rank[kind] <= r => OpenAt(d, r)
    BY <1>0, <1>1, PathOpens
  <2>4. d \in DOMAIN open
    BY DEF Places
  <2> QED BY <2>2, <2>3, <2>4 DEF Growing
<1>8. owes => /\ \E i \in DOMAIN lastAdded : Takes(i)
              /\ \A k : TopTaker(k) => took(k)
  BY <1>1, PlaceIsKept
<1>9. ASSUME NEW k, TopTaker(k), took(k), ~owes PROVE ~c
  <2> SUFFICES ASSUME c PROVE FALSE
    OBVIOUS
  <2>1. PICK j \in 1 .. d : /\ o = open[j] /\ OpenAt(j, UpTo(l))' /\ OpenAt(j, UpTo(l))
                            /\ KindAt(j)' = KindAt(j)
    <3>1. StaysOpen(o, l, d)
      BY <1>0, <1>1, GrowingBefore
    <3> QED BY <3>1 DEF StaysOpen
  <2>2. UpTo(l)' = UpTo(l) /\ UpTo(l) \in Int
    <3>1. l \in Kinds \/ l = "objects"
      BY ListsAre
    <3> QED BY <3>1, RanksAre DEF UpTo
  <2>3. \A r \in Int : OpenAt(d, r)' => Rank[kind] <= r
    BY <1>0, <1>1, PathOpens
  <2>4. j = d => Rank[kind] <= UpTo(l)
    <3> SUFFICES ASSUME j = d PROVE Rank[kind] <= UpTo(l)
      OBVIOUS
    <3>1. \A r : r = UpTo(l) => (OpenAt(j, UpTo(l))' <=> OpenAt(d, r)')
      BY DEF OpenAt, UpTo
    <3> QED BY <2>1, <2>2, <2>3, <3>1
  <2>5. PlaceAt(k) \in ByIndex
    BY <1>9, KeepsAre DEF TopTaker, Takes, PlaceAt, ByIndex
  <2>6. /\ PlaceAt(k) # None /\ o = lastAdded[k] /\ l = PlaceAt(k)
        /\ ~(o = open[d] /\ ListOf(kind) = PlaceAt(k))
    BY <1>9, <2>5
  <2> QED BY <1>1, <1>9, <2>1, <2>4, <2>6, PlaceElsewhere
<1>10. owes \in BOOLEAN /\ \A k : took(k) \in BOOLEAN
  OBVIOUS
<1>a. /\ TRUE
      /\ \/ /\ \A k \in DOMAIN lastAdded : ~Takes(k)
            /\ Given(o, l)' = g
         \/ \E k : /\ TopTaker(k)
                   /\ Given(o, l)' = IF took(k) THEN Append(g, 0) ELSE g
  BY <1>1, <1>2, UnknownGiven
<1> HIDE DEF took, owes, g, w, c, b
<1>b. Holds(g, w, c)
  BY <1>5, <1>6, HoldsLess
<1>11. CASE (\A k \in DOMAIN lastAdded : ~Takes(k)) /\ Given(o, l)' = g
  <2>1. ~owes
    BY <1>8, <1>11
  <2> QED BY <1>3, <1>b, <1>11, <2>1 DEF c
<1>12. CASE \E k : TopTaker(k) /\ Given(o, l)' = IF took(k) THEN Append(g, 0) ELSE g
  <2>1. PICK k : TopTaker(k) /\ Given(o, l)' = IF took(k) THEN Append(g, 0) ELSE g
    BY <1>12
  <2>2. CASE owes
    <3>1. took(k)
      BY <1>8, <2>1, <2>2
    <3>2. Holds(g, w, TRUE)
      BY <1>5, <1>7, <2>2
    <3>3. Holds(Append(g, 0), Append(w, 0), c)
      BY <1>0, <1>3, <1>4, <1>6, <3>2, HoldsBoth
    <3> QED BY <1>3, <2>1, <2>2, <3>1, <3>3 DEF c
  <2>3. CASE ~owes /\ took(k)
    <3>1. Holds(Append(g, 0), w, FALSE)
      BY <1>0, <1>3, <1>4, <1>5, HoldsMore
    <3>2. c = FALSE
      BY <1>6, <1>9, <2>1, <2>3
    <3> QED BY <1>3, <2>1, <2>3, <3>1, <3>2 DEF c
  <2>4. CASE ~owes /\ ~took(k)
    BY <1>3, <1>b, <2>1, <2>4 DEF c
  <2> QED BY <1>10, <2>2, <2>3, <2>4
<1> QED BY <1>a, <1>11, <1>12
-----------------------------------------------------------------------------
LEMMA InOrderEmpty ==
  ASSUME NEW S, NEW n \in Nat, \A k \in 1 .. n : k \notin S
  PROVE  InOrder(S, n) = <<>>
<1> DEFINE s == InOrder(S, n)
<1>1. s \in Seq(Nat) /\ \A i \in 1 .. Len(s) : s[i] \in S /\ s[i] \in 1 .. n
  BY InOrderHolds
<1> HIDE DEF s
<1>2. Len(s) = 0
  <2>1. Len(s) \in Nat
    BY <1>1
  <2>2. Len(s) # 0 => 1 \in 1 .. Len(s)
    BY <2>1
  <2> QED BY <1>1, <2>2
<1>3. s = <<>>
  BY <1>1, <1>2, EmptySeq
<1> QED BY <1>3 DEF s

(* The object read last owns nothing yet.                                  *)
LEMMA NothingYet ==
  ASSUME OwnersInv', Shape', GivenInv', NEW h, h = Len(file'),
         \A k \in DOMAIN added' : added'[k].to # h, NEW l
  PROVE  Given(h, l)' = <<>> /\ Owed(h, l)' = <<>>
<1>1. /\ Len(file') \in Nat /\ DOMAIN file' = 1 .. Len(file') /\ h \in Nat
  BY DEF Shape
<1>2. \A p \in 1 .. h : file'[p].under # h
  <2> SUFFICES ASSUME NEW p \in 1 .. h PROVE file'[p].under # h
    OBVIOUS
  <2>1. \/ file'[p].under = None
        \/ file'[p].under \in 1 .. p - 1
    BY <1>1 DEF OwnersInv
  <2> QED BY <1>1, <2>1, FileImportAssumption
<1>3. Given(h, l)' = <<>>
  BY TakenIs, TakenIsSeq, RecordsAre
<1>4. \A p : p \in WrittenIn(h, l)' => p \in 1 .. h /\ file'[p].under = h
  BY <1>1 DEF WrittenIn
<1>5. Written(h, l)' = <<>>
  <2> DEFINE S == WrittenIn(h, l)'
  <2>1. \A p \in 1 .. h : p \notin S
    BY <1>2, <1>4
  <2>2. Written(h, l)' = InOrder(S, h)
    BY DEF Written
  <2> HIDE DEF S
  <2> QED BY <1>1, <2>1, <2>2, InOrderEmpty
<1>6. CASE l \in ByIndex
  <2> DEFINE s == Written(h, l)'
             e == [i \in DOMAIN s |-> MarkIn(file', s[i])]
  <2>1. Owed(h, l)' = e
    BY <1>6 DEF Owed, Mark, MarkIn
  <2>2. s = <<>>
    BY <1>5
  <2> HIDE DEF s
  <2>3. DOMAIN s = 1 .. 0 /\ s \in Seq(Nat) /\ Len(s) = 0
    BY <2>2
  <2>4. e = [i \in DOMAIN s |-> e[i]] /\ \A i \in DOMAIN s : e[i] \in Nat
    BY <2>3
  <2> HIDE DEF e
  <2>5. e \in Seq(Nat) /\ Len(e) = 0
    BY <2>3, <2>4, OverIs DEF Over
  <2>6. e = <<>>
    BY <2>5, EmptySeq
  <2> QED BY <1>3, <2>1, <2>6
<1>7. CASE l \notin ByIndex
  <2> DEFINE S == WrittenIn(h, l)' \cap Kept'
  <2>1. Owed(h, l)' = InOrder(S, h)
    BY <1>7 DEF Owed, Counted, ByIndex
  <2>2. \A p \in 1 .. h : p \notin S
    BY <1>2, <1>4
  <2> HIDE DEF S
  <2>3. InOrder(S, h) = <<>>
    BY <1>1, <2>2, InOrderEmpty
  <2> QED BY <1>3, <2>1, <2>3
<1> QED BY <1>6, <1>7

LEMMA HoldsNothing ==
  ASSUME NEW b PROVE Holds(<<>>, <<>>, b)
BY DEF Holds

LEMMA ReadLists ==
  ASSUME ReadInv, IInv', GivenInv, GivenInv', OwnersInv, OwnersInv', OrderInv, ListsInv, PlaceholdersFit,
         family \in Families, NEW kind \in Kinds, NEW known \in BOOLEAN, NEW d \in Places(kind), NEW ref,
         Reads(kind, known, d, ref)
  PROVE  ListsInv'
<1>1. /\ Writes(kind, known, d, ref)
      /\ \A p \in DOMAIN file : Whole'[p] = Whole[p] /\ file'[p] = file[p]
      /\ DOMAIN file' = DOMAIN file \cup {Here}
  BY TreeGrows DEF Reads
<1>2. /\ Here = Len(file) + 1 /\ result = "reading" /\ file # <<>> /\ Len(file') = Len(file) + 1
      /\ Len(file) \in Nat
  <2>1. /\ Adds(NewObject(kind, known, d, ref)) /\ Here = Len(file) + 1 /\ result = "reading"
        /\ d \in 1 .. Len(open)
        /\ \A j \in 1 .. Len(open) : open[j] \in 1 .. Len(file)
    BY <1>1, WritesGrows
  <2>2. Len(file') = Len(file) + 1
    BY <1>1, WritesOne DEF ReadInv
  <2>3. open[d] \in 1 .. Len(file)
    BY <2>1
  <2>4. file # <<>>
    BY <2>3
  <2> QED BY <2>1, <2>2, <2>4 DEF Adds
<1>3. \A k \in DOMAIN added' : added'[k].to \in 1 .. Len(file)
  BY <1>2, GivenToOne DEF OwnersInv
<1>4. ASSUME NEW o \in DOMAIN file', NEW l \in Lists, Whole'[o], Owns(file'[o].kind, l)
      PROVE  Holds(Given(o, l)', Owed(o, l)', Growing(o, l)')
  <2>1. CASE o = Here
    <3>1. o = Len(file') /\ \A k \in DOMAIN added' : added'[k].to # o
      BY <1>2, <1>3, <2>1
    <3>2. Shape'
      BY DEF IInv
    <3>3. Given(o, l)' = <<>> /\ Owed(o, l)' = <<>>
      BY <3>1, <3>2, NothingYet
    <3> QED BY <3>3, HoldsNothing
  <2>2. CASE o # Here
    <3>1. o \in DOMAIN file /\ Whole[o] /\ Owns(file[o].kind, l)
      BY <1>1, <1>4, <2>2
    <3>2. CASE known = TRUE
      BY <3>1, <3>2, KnownHolds
    <3>3. CASE known = FALSE
      BY <3>1, <3>3, UnknownHolds
    <3> QED BY <3>2, <3>3
  <2> QED BY <2>1, <2>2
<1>5. Lists' = Lists
  BY DEF Lists
<1> QED BY <1>4, <1>5 DEF ListsInv, Owns
-----------------------------------------------------------------------------
(* The first object is the backboard.                                      *)
LEMMA FirstLists ==
  ASSUME ReadInv, IInv', GivenInv', OwnersInv, OrderInv, ImportBackboard
  PROVE  OwnersInv' /\ ListsInv' /\ (result' = "reading" => OrderInv')
<1> DEFINE o == [kind |-> "backboard", known |-> TRUE, ref |-> None, under |-> None]
<1>1. /\ file = <<>> /\ file' = <<o>> /\ open' = <<1>> /\ Here = 1 /\ added' = added
      /\ MakeLatest("backboard", <<>>) /\ result = "reading"
  BY DEF ImportBackboard, Stacks, Here
<1>2. /\ o.kind = "backboard" /\ o.known = TRUE /\ o.under = None
  OBVIOUS
<1> HIDE DEF o
<1>3. Len(file') = 1 /\ DOMAIN file' = {1} /\ file'[1] = o /\ Len(file) = 0
  BY <1>1
<1>4. DOMAIN open' = {1} /\ open'[1] = 1
  BY <1>1
<1>5. DOMAIN added' = {}
  <2>1. \A k \in DOMAIN added : added[k].to \in 1 .. 0
    BY <1>3 DEF OwnersInv
  <2>2. \A k : k \notin DOMAIN added
    BY <2>1
  <2>3. DOMAIN added = {}
    BY <2>2
  <2> QED BY <1>1, <2>3
<1>6. OwnersInv'
  BY <1>2, <1>3, <1>4, <1>5 DEF OwnersInv
<1>7. ListsInv'
  <2>1. ASSUME NEW p \in DOMAIN file', NEW l
        PROVE  Holds(Given(p, l)', Owed(p, l)', Growing(p, l)')
    <3>1. p = Len(file') /\ Shape' /\ \A k \in DOMAIN added' : added'[k].to # p
      BY <1>3, <1>5 DEF IInv
    <3>2. Given(p, l)' = <<>> /\ Owed(p, l)' = <<>>
      BY <1>6, <3>1, NothingYet
    <3> QED BY <3>2, HoldsNothing
  <2> QED BY <2>1 DEF ListsInv
<1>8. ASSUME result' = "reading" PROVE OrderInv'
  <2>1. ClosedInv'
    BY <1>2, <1>3, <1>4 DEF ClosedInv, KindAt, Takers
  <2>2. "backboard" \in Owning /\ IInv /\ Ascends /\ Here = Len(file) + 1
    BY <1>1, <1>3 DEF Owning, ImporterTypes, ReadInv, OrderInv
  <2>3. Ascends'
    BY <1>1, <1>8, <2>2, AscendsKept
  <2>4. OfTheirTypes'
    <3>1. \A t \in ImporterTypes : latest[t] = None
      BY <1>1, <1>3 DEF ReadInv, IInv, StackInv
    <3>2. latest' = Replaced("backboard", IF result' = "reading" THEN Here ELSE None)
      <4>1. "backboard" \in ImporterTypes
        BY DEF ImporterTypes
      <4> QED BY <1>1, <1>8, <3>1, <4>1 DEF MakeLatest
    <3>3. \A t \in Owning : latest'[t] = IF t = "backboard" THEN 1 ELSE None
      BY <1>1, <1>8, <3>1, <3>2 DEF Replaced, Types, Owning, ReadInv, IInv, Shape
    <3> QED BY <1>2, <1>3, <3>3 DEF OfTheirTypes
  <2> QED BY <2>1, <2>3, <2>4 DEF OrderInv
<1> QED BY <1>6, <1>7, <1>8

(* The end of the file leaves the lists as they are.                       *)
LEMMA ListsStay ==
  ASSUME UNCHANGED <<file, open, family, added>>
  PROVE  (OwnersInv => OwnersInv') /\ (ListsInv => ListsInv')
<1>1. OwnersInv => OwnersInv'
  BY DEF OwnersInv
<1>2. Whole' = Whole
  BY DEF Whole
<1>3. \A o, l : Given(o, l)' = Given(o, l)
  BY TakenIs
<1>4. \A o, l : Written(o, l)' = Written(o, l)
  BY DEF Written, WrittenIn
<1>5. \A p, k : Within(p, k)' = Within(p, k)
  BY WithinIs
<1>6. Kept' = Kept
  <2>1. \A p : Written(Within(p, "machine"), "input")' = Written(Within(p, "machine"), "input")
    <3> TAKE p
    <3>1. \A o : o = Within(p, "machine")' => Written(Within(p, "machine"), "input")' = Written(o, "input")'
      OBVIOUS
    <3> QED BY <1>4, <1>5, <3>1
  <2> QED BY <1>2, <2>1 DEF Kept, Objects
<1>7. \A o, l : Owed(o, l)' = Owed(o, l)
  <2> TAKE o, l
  <2>1. CASE l \in ByIndex
    <3> DEFINE s == Written(o, l)
               t == Written(o, l)'
    <3>1. Owed(o, l) = [i \in DOMAIN s |-> MarkIn(file, s[i])]
          /\ Owed(o, l)' = [i \in DOMAIN t |-> MarkIn(file', t[i])]
      BY <2>1 DEF Owed, Mark, MarkIn
    <3>2. s = t
      BY <1>4
    <3> HIDE DEF s, t
    <3> QED BY <3>1, <3>2
  <2>2. CASE l \notin ByIndex
    <3>1. Owed(o, l)' = Counted(o, l)' /\ Owed(o, l) = Counted(o, l)
      BY <2>2 DEF Owed
    <3>2. Counted(o, l) = InOrder(WrittenIn(o, l) \cap Kept, Len(file))
          /\ Counted(o, l)' = InOrder((WrittenIn(o, l) \cap Kept)', Len(file'))
      BY <2>2 DEF Counted, ByIndex
    <3>3. (WrittenIn(o, l) \cap Kept)' = WrittenIn(o, l) \cap Kept
      BY <1>6 DEF WrittenIn
    <3> QED BY <3>1, <3>2, <3>3
  <2> QED BY <2>1, <2>2
<1>8. \A o, l : Growing(o, l)' = Growing(o, l)
  BY DEF Growing, OpenAt, KindAt, UpTo
<1>9. ListsInv => ListsInv'
  BY <1>2, <1>3, <1>7, <1>8 DEF ListsInv, Lists, Owns
<1> QED BY <1>1, <1>9

(* What is listed, as long as the file is one this runtime is made for.    *)
ListingInv ==
  /\ PlaceholdersFit
  /\ result # "malformed" => OwnersInv /\ ListsInv
  /\ result = "reading" => OrderInv

LEMMA StepLists ==
  ASSUME FileInv, GivenInv, ListingInv, Next
  PROVE  ListingInv'
<1>1. /\ ReadInv /\ IInv /\ family \in Families /\ PlaceholdersFit /\ PlaceholdersFit'
  BY DEF FileInv, ReadInv, ListingInv, PlaceholdersFit
<1>2. IInv' /\ GivenInv' /\ result = "reading"
  BY <1>1, StepKeeps, StepHands, StepReads
<1>3. OwnersInv /\ ListsInv /\ OrderInv
  BY <1>2 DEF ListingInv
<1>4. ImportBackboard \/ ReadsOne \/ CutShort \/ Finish
  BY <1>1, StepReadsOne
<1>5. CASE ImportBackboard
  BY <1>1, <1>2, <1>3, <1>5, FirstLists DEF ListingInv
<1>6. CASE ReadsOne
  <2>1. PICK kind \in Kinds : \E known \in BOOLEAN : \E d \in Places(kind) : \E ref :
              Reads(kind, known, d, ref)
    BY <1>6 DEF ReadsOne
  <2>2. PICK known \in BOOLEAN : \E d \in Places(kind) : \E ref : Reads(kind, known, d, ref)
    BY <2>1
  <2>3. PICK d \in Places(kind) : \E ref : Reads(kind, known, d, ref)
    BY <2>2
  <2>4. PICK ref : Reads(kind, known, d, ref)
    BY <2>3
  <2>5. OwnersInv'
    BY <1>1, <1>3, <2>4, OwnersKept
  <2>6. ListsInv'
    BY <1>1, <1>2, <1>3, <2>4, <2>5, ReadLists
  <2>7. result' = "reading" => OrderInv'
    BY <1>1, <1>2, <1>3, <2>4, OrderKept
  <2> QED BY <1>1, <2>5, <2>6, <2>7 DEF ListingInv
<1>7. CASE CutShort
  BY <1>1, <1>7 DEF CutShort, ListingInv
<1>8. CASE Finish
  <2>1. UNCHANGED <<file, open, family, added>> /\ result' # "reading"
    BY <1>1, <1>8, FinishIs DEF Finish, disk
  <2> QED BY <1>1, <1>3, <2>1, ListsStay DEF ListingInv
<1> QED BY <1>4, <1>5, <1>6, <1>7, <1>8

LEMMA StutterLists ==
  ASSUME ListingInv, UNCHANGED vars
  PROVE  ListingInv'
<1>1. UNCHANGED <<file, open, family, added, latest, lastAdded, result>>
  BY DEF vars, disk, stack
<1>2. (OwnersInv => OwnersInv') /\ (ListsInv => ListsInv')
  BY <1>1, ListsStay
<1>3. OrderInv => OrderInv'
  BY <1>1 DEF OrderInv, ClosedInv, Ascends, OfTheirTypes, OpenAt, KindAt
<1>4. PlaceholdersFit'
  BY DEF ListingInv, PlaceholdersFit
<1> QED BY <1>1, <1>2, <1>3, <1>4 DEF ListingInv

LEMMA InitLists ==
  ASSUME PlaceholdersFit, Init
  PROVE  ListingInv
<1>1. file = <<>> /\ open = <<>> /\ added = <<>> /\ lastAdded = <<>> /\ latest = [t \in ImporterTypes |-> None]
      /\ DOMAIN file = {} /\ DOMAIN open = {} /\ DOMAIN added = {} /\ DOMAIN lastAdded = {}
  BY DEF Init
<1>2. OwnersInv
  BY <1>1 DEF OwnersInv
<1>3. ListsInv
  BY <1>1 DEF ListsInv
<1>4. OrderInv
  BY <1>1 DEF OrderInv, ClosedInv, Ascends, OfTheirTypes, Owning
<1> QED BY <1>2, <1>3, <1>4 DEF ListingInv

(* Where the lists are right, every object that is kept is in its list.    *)
LEMMA ListsList ==
  ASSUME ReadInv, GivenInv, OwnersInv, ListsInv, NEW p \in Kept
  PROVE  Listed(p)
<1> DEFINE o == file[p].under
           l == ListOf(file[p].kind)
           n == Len(file)
<1>1. /\ Shape /\ Treelike(file) /\ DOMAIN file = 1 .. n /\ n \in Nat
  BY DEF ReadInv, TreeInv, IInv, Shape
<1>2. /\ p \in DOMAIN file /\ Whole[p] /\ file[p].kind \notin {"backboard", "bind"}
  BY KeptIs DEF IsKept
<1>3. /\ o \in 1 .. p - 1 /\ file[p].kind \in Kinds /\ file[o].kind \in Owners[file[p].kind]
  BY <1>2 DEF OwnersInv
<1>4. o \in DOMAIN file /\ o # None
  <2>1. o \in 1 .. n
    BY <1>1, <1>2, <1>3
  <2> QED BY <1>1, <2>1, FileImportAssumption
<1>5. Whole[o] /\ file[p].known
  BY <1>1, <1>2, <1>4, WholeIs
<1>6. l \in Lists /\ Owns(file[o].kind, l)
  BY <1>2, <1>3 DEF Lists, Owns
<1>7. Holds(Given(o, l), Owed(o, l), Growing(o, l))
  BY <1>4, <1>5, <1>6 DEF ListsInv
<1>8. Given(o, l) \in Seq(Nat)
  BY <1>1, TakenIs, TakenIsSeq, RecordsAre
<1>9. p \in WrittenIn(o, l)
  BY <1>2 DEF WrittenIn
<1>10. PICK i \in 1 .. Len(Counted(o, l)) : /\ Counted(o, l)[i] = p /\ Counted(o, l) \in Seq(Nat)
                                            /\ i \in 1 .. Len(Owed(o, l)) /\ Owed(o, l)[i] = p
  <2> HIDE DEF o, l
  <2>1. CASE l \in ByIndex
    <3>1. Counted(o, l) = Written(o, l) /\ Written(o, l) = InOrder(WrittenIn(o, l), n)
      BY <2>1 DEF Counted, Written, ByIndex
    <3>2. /\ Written(o, l) \in Seq(Nat)
          /\ \E i \in 1 .. Len(Written(o, l)) : Written(o, l)[i] = p
      BY SMTT(30), <1>1, <1>2, <1>9, <3>1, InOrderHolds
    <3>3. /\ Len(Owed(o, l)) = Len(Written(o, l))
          /\ \A i \in 1 .. Len(Written(o, l)) : Owed(o, l)[i] = Mark(Written(o, l)[i])
      BY <2>1, <3>2, OwedLen
    <3>4. Mark(p) = p
      BY <1>5 DEF Mark
    <3> QED BY <3>1, <3>2, <3>3, <3>4
  <2>2. CASE l \notin ByIndex
    <3>1. Owed(o, l) = Counted(o, l) /\ Counted(o, l) = InOrder(WrittenIn(o, l) \cap Kept, n)
      BY <2>2 DEF Owed, Counted, ByIndex
    <3>2. p \in WrittenIn(o, l) \cap Kept
      BY <1>9
    <3> QED BY <1>1, <1>2, <3>1, <3>2, InOrderHolds
  <2> QED BY <2>1, <2>2
<1> HIDE DEF o, l
<1>11. i \in DOMAIN Counted(o, l) /\ i \in DOMAIN Given(o, l) /\ Given(o, l)[i] = p
  <2>1. i \in DOMAIN Counted(o, l)
    BY <1>10
  <2>2. i \in 1 .. Len(Given(o, l)) /\ Given(o, l)[i] = p
    BY SMTT(30), <1>7, <1>8, <1>10 DEF Holds
  <2> QED BY <1>8, <2>1, <2>2
<1> QED BY <1>10, <1>11 DEF Listed, o, l

(* Every object that is kept is in the list of the owner it was written    *)
(* under, at the index the file counts (Component::import,                 *)
(* ImportStack::readNullObject).                                           *)
THEOREM EveryObjectIsListed ==
  PlaceholdersFit => (Spec => [](result = "success" => \A p \in Kept : Listed(p)))
<1>1. PlaceholdersFit /\ Init => ListingInv
  BY InitLists
<1>2. FileInv /\ GivenInv /\ ListingInv /\ [Next]_vars => ListingInv'
  BY StepLists, StutterLists
<1>3. FileInv /\ GivenInv /\ ListingInv => (result = "success" => \A p \in Kept : Listed(p))
  BY ListsList DEF FileInv, ListingInv
<1> QED BY <1>1, <1>2, <1>3, FileHolds, GivenHolds, PTL DEF Spec
-----------------------------------------------------------------------------
(* Files in which only objects this runtime knows own others: what an      *)
(* unknown one owns goes to the importer that was the latest before it.     *)
NoHeads == \A f \in Families : f.heads \cap f.unknown = {}

KnownInv ==
  /\ \A k \in DOMAIN added : added[k].what > 0 => file[added[k].what].known
  /\ \A p \in DOMAIN file : file[p].known => Whole[p]

GivesOnly(a, b, known, h) ==
  \A k \in 1 .. Len(b) : \/ k \in 1 .. Len(a) /\ b[k] = a[k]
                         \/ b[k].what = 0
                         \/ known /\ b[k].what = h

LEMMA AddsOnly ==
  ASSUME NEW a, NEW b, NEW known, NEW h, NEW to, NEW list, NEW what, Len(a) \in Nat,
         AddsTo(a, b, to, list, what), what = 0 \/ (known /\ what = h)
  PROVE  GivesOnly(a, b, known, h)
<1>1. /\ Len(b) = Len(a) + 1 /\ \A k \in 1 .. Len(a) : b[k] = a[k]
      /\ b[Len(b)].what = what
  BY DEF AddsTo
<1>2. \A k \in 1 .. Len(b) : k \in 1 .. Len(a) \/ k = Len(b)
  BY <1>1
<1> QED BY <1>1, <1>2 DEF GivesOnly

(* Only a known object is given to anyone.                                 *)
LEMMA ReadGivesOnly ==
  ASSUME Shape, NEW kind \in Kinds, NEW known \in BOOLEAN, NEW d, NEW ref, Reads(kind, known, d, ref)
  PROVE  GivesOnly(added, added', known, Here)
<1>1. Len(added) \in Nat
  BY DEF Shape
<1>2. CASE UNCHANGED added
  BY <1>1, <1>2 DEF GivesOnly
<1>3. CASE known
  <2>1. GivesKnown(kind, ref)
    BY <1>3 DEF Reads
  <2>2. CASE \E type, list : Gives(type, list, Here)
    BY <1>1, <1>3, <2>2, GivesAdds, AddsOnly
  <2>3. CASE GivesBoth(kind)
    <3>1. PICK a : /\ AddsTo(added, a, latest["backboard"], kind, Here) /\ DOMAIN a = 1 .. Len(a)
                   /\ AddsTo(a, added', latest["artboard"], "objects", Here)
      BY <2>3, BothAdds
    <3>2. Len(a) \in Nat
      BY <1>1, <3>1 DEF AddsTo
    <3>3. GivesOnly(added, a, known, Here)
      BY <1>1, <1>3, <3>1, AddsOnly
    <3>4. GivesOnly(a, added', known, Here)
      BY <1>3, <3>1, <3>2, AddsOnly
    <3> QED BY <3>3, <3>4 DEF GivesOnly
  <2> QED BY <1>2, <2>1, <2>2, <2>3 DEF GivesKnown
<1>4. CASE ~known
  <2>1. ReadNullObject
    BY <1>4 DEF Reads
  <2>2. CASE ~UNCHANGED added
    <3>1. PICK k \in DOMAIN lastAdded :
             added' = Append(added, [to |-> lastAdded[k], list |-> Keeps[file[lastAdded[k]].kind],
                                     what |-> 0])
      BY <2>1, <2>2 DEF ReadNullObject
    <3>2. AddsTo(added, added', lastAdded[k], Keeps[file[lastAdded[k]].kind], 0)
      BY <3>1, AppendAdds
    <3> QED BY <1>1, <3>2, AddsOnly
  <2> QED BY <1>2, <2>2
<1> QED BY <1>3, <1>4

LEMMA KnownReads ==
  ASSUME ReadInv, IInv', GivenInv, OwnersInv, KnownInv, NoHeads, family \in Families,
         NEW kind \in Kinds, NEW known \in BOOLEAN, NEW d \in Places(kind), NEW ref,
         Reads(kind, known, d, ref)
  PROVE  KnownInv'
<1>1. Writes(kind, known, d, ref) /\ Shape /\ Shape'
  BY DEF Reads, ReadInv, IInv
<1>2. /\ \A p \in DOMAIN file : Whole'[p] = Whole[p] /\ file'[p] = file[p]
      /\ Whole'[Here] = (known /\ Whole[open[d]])
      /\ file'[Here] = NewObject(kind, known, d, ref)
      /\ DOMAIN file' = DOMAIN file \cup {Here}
  BY <1>1, TreeGrows
<1>3. open[d] \in DOMAIN file /\ (file[open[d]].known \/ file[open[d]].kind \in family.heads)
  <2>1. d \in DOMAIN open /\ (file[open[d]].known \/ file[open[d]].kind \in family.heads)
    BY DEF Places
  <2>2. Adds(NewObject(kind, known, d, ref)) /\ d \in 1 .. Len(open) /\ \A j \in 1 .. Len(open) : open[j] \in 1 .. Len(file)
    BY <1>1, WritesGrows
  <2> QED BY <2>1, <2>2 DEF Adds
<1>4. Whole[open[d]]
  <2>1. file[open[d]].known \/ file[open[d]].kind \in family.unknown
    BY <1>3 DEF OwnersInv
  <2>2. file[open[d]].known
    BY <1>3, <2>1 DEF NoHeads
  <2> QED BY <1>3, <2>2 DEF KnownInv
<1>5. file'[Here].known = known
  BY <1>2 DEF NewObject
<1>6. \A p \in DOMAIN file' : file'[p].known => Whole'[p]
  BY <1>2, <1>4, <1>5 DEF KnownInv
<1>7. ASSUME NEW k \in DOMAIN added', added'[k].what > 0 PROVE file'[added'[k].what].known
  <2>1. GivesOnly(added, added', known, Here)
    BY <1>1, ReadGivesOnly
  <2>2. DOMAIN added' = 1 .. Len(added') /\ DOMAIN added = 1 .. Len(added) /\ DOMAIN file = 1 .. Len(file)
        /\ Len(file) \in Nat
    BY <1>1 DEF Shape
  <2>3. CASE k \in 1 .. Len(added) /\ added'[k] = added[k]
    <3>1. added[k].what \in 1 .. Len(file) /\ file[added[k].what].known
      BY <1>7, <2>2, <2>3 DEF GivenInv, KnownInv
    <3> QED BY <1>2, <2>2, <2>3, <3>1
  <2>4. CASE known /\ added'[k].what = Here
    BY <1>5, <2>4
  <2>5. added'[k].what # 0
    BY <1>7
  <2> QED BY <2>1, <2>2, <2>3, <2>4, <2>5 DEF GivesOnly
<1> QED BY <1>6, <1>7 DEF KnownInv

KnowingInv == NoHeads /\ (result # "malformed" => KnownInv)

LEMMA StepKnows ==
  ASSUME FileInv, GivenInv, ListingInv, KnowingInv, Next
  PROVE  KnowingInv'
<1>1. /\ ReadInv /\ IInv /\ family \in Families /\ NoHeads /\ NoHeads'
  BY DEF FileInv, ReadInv, KnowingInv, NoHeads
<1>2. IInv' /\ result = "reading" /\ OwnersInv /\ KnownInv
  BY <1>1, StepKeeps, StepReads DEF ListingInv, KnowingInv
<1>4. ImportBackboard \/ ReadsOne \/ CutShort \/ Finish
  BY <1>1, StepReadsOne
<1>5. CASE ImportBackboard
  <2> DEFINE o == [kind |-> "backboard", known |-> TRUE, ref |-> None, under |-> None]
  <2>1. file = <<>> /\ file' = <<o>> /\ added' = added /\ o.under = None /\ o.known = TRUE
    BY <1>5 DEF ImportBackboard
  <2> HIDE DEF o
  <2>2. Len(file) = 0 /\ DOMAIN file' = {1} /\ file'[1] = o
    BY <2>1
  <2>3. \A k \in DOMAIN added' : added'[k].what = 0
    BY <2>1, <2>2 DEF GivenInv
  <2>4. Whole'[1]
    <3>1. Shape' /\ Treelike(file')
      BY <1>2, <2>1, <2>2 DEF IInv, Treelike
    <3> QED BY <2>1, <2>2, <3>1, WholeIs
  <2> QED BY <1>1, <2>2, <2>3, <2>4 DEF KnowingInv, KnownInv
<1>6. CASE ReadsOne
  <2>1. PICK kind \in Kinds : \E known \in BOOLEAN : \E d \in Places(kind) : \E ref :
              Reads(kind, known, d, ref)
    BY <1>6 DEF ReadsOne
  <2>2. PICK known \in BOOLEAN : \E d \in Places(kind) : \E ref : Reads(kind, known, d, ref)
    BY <2>1
  <2>3. PICK d \in Places(kind) : \E ref : Reads(kind, known, d, ref)
    BY <2>2
  <2>4. PICK ref : Reads(kind, known, d, ref)
    BY <2>3
  <2>5. KnownInv'
    BY <1>1, <1>2, <2>4, KnownReads
  <2> QED BY <1>1, <2>5 DEF KnowingInv
<1>7. CASE CutShort
  BY <1>1, <1>7 DEF CutShort, KnowingInv
<1>8. CASE Finish
  <2>1. UNCHANGED <<file, added>>
    BY <1>8 DEF Finish, disk
  <2>2. Whole' = Whole
    BY <2>1 DEF Whole
  <2> QED BY <1>1, <1>2, <2>1, <2>2 DEF KnowingInv, KnownInv
<1> QED BY <1>4, <1>5, <1>6, <1>7, <1>8

LEMMA StutterKnows ==
  ASSUME KnowingInv, UNCHANGED vars
  PROVE  KnowingInv'
<1>1. UNCHANGED <<file, added, result>>
  BY DEF vars, disk, stack
<1>2. Whole' = Whole
  BY <1>1 DEF Whole
<1> QED BY <1>1, <1>2 DEF KnowingInv, KnownInv, NoHeads

(* And it is given to no other owner, if no unknown object owns others     *)
(* (ImportStack::latest).                                                  *)
THEOREM EveryObjectIsInPlace == PlaceholdersFit /\ NoHeads => (Spec => []InPlace)
<1>1. PlaceholdersFit /\ Init => ListingInv
  BY InitLists
<1>2. NoHeads /\ Init => KnowingInv
  BY DEF Init, KnowingInv, KnownInv
<1>3. FileInv /\ GivenInv /\ ListingInv /\ [Next]_vars => ListingInv'
  BY StepLists, StutterLists
<1>4. FileInv /\ GivenInv /\ ListingInv /\ KnowingInv /\ [Next]_vars => KnowingInv'
  BY StepKnows, StutterKnows
<1>5. FileInv /\ GivenInv /\ ListingInv /\ KnowingInv => InPlace
  <2> SUFFICES ASSUME FileInv, GivenInv, ListingInv, KnowingInv, result = "success" PROVE InPlace
    BY DEF InPlace
  <2>1. \A p \in Kept : Listed(p)
    BY ListsList DEF FileInv, ListingInv
  <2>2. KnownInv
    BY DEF KnowingInv
  <2>3. ASSUME NEW k \in DOMAIN added, added[k].what > 0, added[k].list = ListOf(file[added[k].what].kind),
               added[k].list \notin {"bind", "image", "nested"}
        PROVE  added[k].to = file[added[k].what].under
    <3>1. added[k].what \in DOMAIN file
      BY <2>3 DEF GivenInv, FileInv, ReadInv, IInv, Shape
    <3>2. Whole[added[k].what]
      BY <2>2, <2>3, <3>1 DEF KnownInv
    <3> QED BY <2>3, <3>2 DEF GivenInv, HandedToOwner, OfItsOwner
  <2> QED BY <2>1, <2>3 DEF InPlace
<1> QED BY <1>1, <1>2, <1>3, <1>4, <1>5, FileHolds, GivenHolds, PTL DEF Spec
-----------------------------------------------------------------------------
(***************************************************************************)
(* References: every object is bound to what it refers to (Linked).         *)
(***************************************************************************)
(* What an object's import binds of its own, at once.                      *)
Own(kind, ref) ==
  CASE kind = "bind" -> Single(Here, bindable)
    [] kind = "keyFrame" -> Single(Here, bound[latest.keyedProperty])
    [] kind = "blend" -> Single(Here, IF ref < Len(Given(latest.artboard, "animation"))
                                   THEN Given(latest.artboard, "animation")[ref + 1] ELSE None)
    [] kind = "keyedProperty" -> Single(Here, latest.animation)
    [] kind = "layer" -> Single(Here, latest.artboard)
    [] OTHER -> <<>>
Immediate == {"bind", "keyFrame", "blend"}

LinksAs(kind, known, ref) ==
  IF known
  THEN /\ bindable' = IF kind = "bind" THEN bindable ELSE Here
       /\ IF kind \in Owning THEN MakeLatest(kind, Own(kind, ref))
          ELSE /\ UNCHANGED stack
               /\ IF kind \in Immediate THEN bound' = Overlay(Own(kind, ref), bound) ELSE UNCHANGED bound
  ELSE UNCHANGED <<stack, bindable, bound>>

(* What the exporter writes for an object to refer by.                     *)
RefersAs(kind, d, ref) ==
  /\ kind \in {"transition", "nested", "image"} => ref \in Nat
  /\ kind = "state" => ref = None \/ ref \in Animations(d)
  /\ kind = "blend" => ref \in Animations(d)
  /\ kind = "contents" => Written(open[d], "contents") = <<>>

Links(kind, known, d, ref) ==
  Reads(kind, known, d, ref) /\ LinksAs(kind, known, ref) /\ (known => RefersAs(kind, d, ref))
LinksOne == \E kind \in Kinds : \E known \in BOOLEAN : \E d \in Places(kind) : \E ref :
              Links(kind, known, d, ref)

LEMMA OwnIs ==
  ASSUME NEW ref
  PROVE  /\ \A kind \in {"asset", "artboard", "animation", "keyedObject", "machine", "state",
                         "transition", "listener"} : Own(kind, ref) = <<>>
         /\ Own("keyedProperty", ref) = (Single(Here, latest.animation))
         /\ Own("layer", ref) = (Single(Here, latest.artboard))
         /\ Own("bind", ref) = (Single(Here, bindable))
         /\ Own("keyFrame", ref) = (Single(Here, bound[latest.keyedProperty]))
         /\ Own("blend", ref) = Single(Here, IF ref < Len(Given(latest.artboard, "animation"))
                                           THEN Given(latest.artboard, "animation")[ref + 1] ELSE None)
BY DEF Own

(* What each kind of step links: a leaf,                                     *)
LEMMA LeafLinks ==
  ASSUME NEW kind \in Kinds \ Owning, NEW d \in Places(kind), NEW ref,
         Known(kind, d, ref, Asks(kind)), Gives(Asks(kind), ListOf(kind), Here), UNCHANGED stack,
         kind \notin {"bind", "nested", "image"}, kind = "condition" => InputsAre(ref),
         bindable' = Here, IF kind \in Immediate THEN bound' = Overlay(Own(kind, ref), bound) ELSE UNCHANGED bound,
         RefersAs(kind, d, ref)
  PROVE  LinksOne
<1>1. Writes(kind, TRUE, d, ref) /\ StacksAs(kind, TRUE) /\ GivesKnown(kind, ref)
  BY DEF Known, StacksAs, GivesKnown
<1>2. Links(kind, TRUE, d, ref)
  BY <1>1 DEF Reads, Links, LinksAs
<1> QED BY <1>2 DEF LinksOne

(* a head,                                                                   *)
LEMMA HeadLinks ==
  ASSUME NEW kind \in Kinds \cap Owning, NEW d \in Places(kind), NEW ref,
         Known(kind, d, ref, Asks(kind)), Gives(Asks(kind), ListOf(kind), Here),
         NEW with, Stacks(kind, with), with = Own(kind, ref), RefersAs(kind, d, ref)
  PROVE  LinksOne
<1>1. kind \notin {"bind", "nested", "image", "condition"}
  BY DEF Owning, ImporterTypes
<1>2. Writes(kind, TRUE, d, ref) /\ StacksAs(kind, TRUE) /\ GivesKnown(kind, ref)
  BY <1>1 DEF Known, StacksAs, GivesKnown, Stacks
<1>3. LinksAs(kind, TRUE, ref)
  BY <1>1 DEF Stacks, LinksAs
<1>4. Links(kind, TRUE, d, ref)
  BY <1>2, <1>3 DEF Reads, Links
<1> QED BY <1>4 DEF LinksOne

LEMMA PlainRefers ==
  ASSUME NEW kind, kind \notin {"transition", "nested", "image", "state", "blend", "contents"}
  PROVE  \A d, ref : RefersAs(kind, d, ref)
BY DEF RefersAs

(* Every step that reads an object of a kind links it so.                    *)
LEMMA StepLinksOne ==
  ASSUME family \in Families, Next
  PROVE  ImportBackboard \/ LinksOne \/ ImportOrphan \/ CutShort \/ Finish
<1>a. {"asset", "artboard", "animation", "keyedObject", "keyedProperty", "machine", "layer", "state",
       "transition", "listener"} \subseteq Kinds \cap Owning
  BY KindsAre DEF Owning, ImporterTypes
<1>b. {"contents", "component", "nested", "image", "bind", "keyFrame", "input", "fireEvent",
       "condition", "blend", "action"} \subseteq Kinds \ Owning
  BY KindsAre DEF Owning, ImporterTypes
<1>c. /\ \A kind \in {"asset", "artboard", "animation", "keyedObject", "keyedProperty", "machine",
                      "layer", "state", "transition", "listener", "contents", "keyFrame", "input",
                      "fireEvent", "condition", "blend", "action", "bind"} : ListOf(kind) = kind
      /\ ListOf("component") = "objects"
  BY <1>a, <1>b, ListsAre
<1>d. /\ {"bind", "keyFrame", "blend"} \subseteq Immediate
      /\ \A kind \in {"contents", "component", "nested", "image", "input", "fireEvent", "condition", "action"} :
           kind \notin Immediate
  BY DEF Immediate
<1>2. CASE ImportFileAsset
  BY <1>a, <1>c, <1>2, AsksAre, OwnIs, PlainRefers, HeadLinks DEF ImportFileAsset
<1>3. CASE ImportArtboard
  BY <1>a, <1>c, <1>3, AsksAre, OwnIs, PlainRefers, HeadLinks DEF ImportArtboard
<1>4. CASE ImportLinearAnimation
  BY <1>a, <1>c, <1>4, AsksAre, OwnIs, PlainRefers, HeadLinks DEF ImportLinearAnimation
<1>5. CASE ImportKeyedObject
  BY <1>a, <1>c, <1>5, AsksAre, OwnIs, PlainRefers, HeadLinks DEF ImportKeyedObject
<1>6. CASE ImportKeyedProperty
  BY <1>a, <1>c, <1>6, AsksAre, OwnIs, PlainRefers, HeadLinks DEF ImportKeyedProperty
<1>7. CASE ImportStateMachine
  BY <1>a, <1>c, <1>7, AsksAre, OwnIs, PlainRefers, HeadLinks DEF ImportStateMachine
<1>8. CASE ImportLayer
  BY <1>a, <1>c, <1>8, AsksAre, OwnIs, PlainRefers, HeadLinks DEF ImportLayer
<1>9. CASE ImportLayerState
  <2>1. PICK d \in Places("state") : \E ref \in {None} \cup Animations(d) :
          /\ Known("state", d, ref, "layer") /\ Gives("layer", "state", Here) /\ Stacks("state", <<>>)
    BY <1>9 DEF ImportLayerState
  <2>2. PICK ref \in {None} \cup Animations(d) :
          /\ Known("state", d, ref, "layer") /\ Gives("layer", "state", Here) /\ Stacks("state", <<>>)
    BY <2>1
  <2>3. RefersAs("state", d, ref)
    BY DEF RefersAs
  <2> QED BY <1>a, <1>c, <2>2, <2>3, AsksAre, OwnIs, HeadLinks
<1>10. CASE ImportStateTransition
  <2>1. PICK d \in Places("transition"), ref \in 0 .. MaxId :
          /\ Known("transition", d, ref, "state") /\ Gives("state", "transition", Here)
          /\ Stacks("transition", <<>>)
    BY <1>10 DEF ImportStateTransition
  <2>2. RefersAs("transition", d, ref)
    BY IdsAssumption DEF RefersAs
  <2> QED BY <1>a, <1>c, <2>1, <2>2, AsksAre, OwnIs, HeadLinks
<1>11. CASE ImportListener
  BY <1>a, <1>c, <1>11, AsksAre, OwnIs, PlainRefers, HeadLinks DEF ImportListener
<1>12. CASE ImportFileAssetContents
  <2>1. PICK d \in Places("contents") :
          /\ Written(open[d], "contents") = <<>> /\ Known("contents", d, None, "asset")
          /\ Gives("asset", "contents", Here) /\ NoImporter
    BY <1>12 DEF ImportFileAssetContents
  <2>2. RefersAs("contents", d, None)
    BY <2>1 DEF RefersAs
  <2> QED BY <1>b, <1>c, <1>d, <2>1, <2>2, AsksAre, LeafLinks DEF NoImporter
<1>13. CASE ImportComponent
  BY <1>b, <1>c, <1>d, <1>13, AsksAre, PlainRefers, LeafLinks DEF ImportComponent, NoImporter
<1>15. CASE ImportKeyFrame
  BY <1>b, <1>c, <1>d, <1>15, AsksAre, OwnIs, PlainRefers, LeafLinks DEF ImportKeyFrame
<1>16. CASE ImportInput
  BY <1>b, <1>c, <1>d, <1>16, AsksAre, PlainRefers, LeafLinks DEF ImportInput, NoImporter
<1>17. CASE ImportFireEvent
  BY <1>b, <1>c, <1>d, <1>17, AsksAre, PlainRefers, LeafLinks DEF ImportFireEvent, NoImporter
<1>18. CASE ImportListenerAction
  BY <1>b, <1>c, <1>d, <1>18, AsksAre, PlainRefers, LeafLinks DEF ImportListenerAction, NoImporter
<1>19. CASE ImportBlendAnimation
  <2>1. PICK d \in Places("blend") : \E ref \in Animations(d) :
          /\ Known("blend", d, ref, "state") /\ Gives("state", "blend", Here)
          /\ bound' = Overlay(Own("blend", ref), bound) /\ bindable' = Here /\ UNCHANGED stack
    BY <1>19, OwnIs DEF ImportBlendAnimation
  <2>2. PICK ref \in Animations(d) :
          /\ Known("blend", d, ref, "state") /\ Gives("state", "blend", Here)
          /\ bound' = Overlay(Own("blend", ref), bound) /\ bindable' = Here /\ UNCHANGED stack
    BY <2>1
  <2>3. RefersAs("blend", d, ref)
    BY DEF RefersAs
  <2> QED BY <1>b, <1>c, <1>d, <2>2, <2>3, AsksAre, LeafLinks
<1>14. CASE ImportDataBind
  <2>1. PICK d \in Places("bind") :
          /\ Known("bind", d, None, "artboard") /\ Gives("artboard", "bind", Here)
          /\ bound' = Overlay(Own("bind", None), bound) /\ UNCHANGED stack /\ bindable' = bindable
    BY <1>14, OwnIs DEF ImportDataBind
  <2>2. Reads("bind", TRUE, d, None)
    BY <2>1 DEF Known, Reads, GivesKnown, StacksAs
  <2>3. LinksAs("bind", TRUE, None)
    BY <1>b, <1>d, <2>1 DEF LinksAs
  <2> QED BY <1>b, <2>2, <2>3, PlainRefers DEF Links, LinksOne
<1>20. CASE ImportNestedArtboard
  <2>1. PICK d \in Places("nested"), ref \in 0 .. MaxId :
          Known("nested", d, ref, "artboard") /\ GivesBoth("nested") /\ NoImporter
    BY <1>20 DEF ImportNestedArtboard
  <2>2. Reads("nested", TRUE, d, ref)
    BY <2>1 DEF NoImporter, Known, Reads, GivesKnown, StacksAs
  <2>3. LinksAs("nested", TRUE, ref) /\ RefersAs("nested", d, ref)
    BY <1>b, <1>d, <2>1, IdsAssumption DEF LinksAs, NoImporter, RefersAs
  <2> QED BY <1>b, <2>2, <2>3 DEF Links, LinksOne
<1>21. CASE ImportImage
  <2>1. PICK d \in Places("image"), ref \in 0 .. MaxId :
          Known("image", d, ref, "artboard") /\ GivesBoth("image") /\ NoImporter
    BY <1>21 DEF ImportImage
  <2>2. Reads("image", TRUE, d, ref)
    BY <2>1 DEF NoImporter, Known, Reads, GivesKnown, StacksAs
  <2>3. LinksAs("image", TRUE, ref) /\ RefersAs("image", d, ref)
    BY <1>b, <1>d, <2>1, IdsAssumption DEF LinksAs, NoImporter, RefersAs
  <2> QED BY <1>b, <2>2, <2>3 DEF Links, LinksOne
<1>22. CASE ImportTransitionCondition
  <2>1. PICK d \in Places("condition"), ref \in 0 .. MaxId :
          /\ Known("condition", d, ref, "transition") /\ NoImporter
          /\ IF InputsAre(ref) THEN Gives("transition", "condition", Here) ELSE UNCHANGED added
    BY <1>22 DEF ImportTransitionCondition, InputsAre
  <2>2. Reads("condition", TRUE, d, ref)
    BY <1>c, <2>1, AsksAre DEF NoImporter, Known, Reads, GivesKnown, StacksAs
  <2>3. LinksAs("condition", TRUE, ref)
    BY <1>b, <1>d, <2>1 DEF LinksAs, NoImporter
  <2> QED BY <1>b, <2>2, <2>3, PlainRefers DEF Links, LinksOne
<1>24. CASE ReadUnknown
  <2>1. PICK kind \in family.unknown : \E d \in Places(kind) : Writes(kind, FALSE, d, None) /\ ReadNullObject
    BY <1>24 DEF ReadUnknown
  <2>2. PICK d \in Places(kind) : Writes(kind, FALSE, d, None) /\ ReadNullObject
    BY <2>1
  <2>3. kind \in Kinds
    BY FamiliesAssumption
  <2>4. UNCHANGED stack
    BY <2>2 DEF ReadNullObject
  <2>5. Reads(kind, FALSE, d, None)
    BY <2>2, <2>4 DEF Reads, StacksAs
  <2>6. LinksAs(kind, FALSE, None)
    BY <2>2 DEF ReadNullObject, LinksAs
  <2>7. Links(kind, FALSE, d, None)
    BY <2>5, <2>6 DEF Links
  <2> QED BY <2>3, <2>7 DEF LinksOne
<1> QED BY <1>2, <1>3, <1>4, <1>5, <1>6, <1>7, <1>8, <1>9, <1>10, <1>11, <1>12, <1>13,
         <1>14, <1>15, <1>16, <1>17, <1>18, <1>19, <1>20, <1>21, <1>22, <1>24 DEF Next
-----------------------------------------------------------------------------
(* Files with no asset, contents, artboard or animation of a type newer than *)
(* this runtime: the backboard, an asset and an artboard keep no place for an *)
(* unknown one, so that an index into those lists would count one less       *)
(* (readNullObject of the importers).                                       *)
ReferencesFit ==
  \A f \in Families : f.unknown \cap {"asset", "contents", "artboard", "animation"} = {}

(* What holds of the tree, the path, the stack and the lists while it is read. *)
Ground == ReadInv /\ GivenInv /\ OwnersInv /\ OrderInv /\ ListsInv /\ KnownInv
Fits == PlaceholdersFit /\ NoHeads /\ ReferencesFit /\ family \in Families

(* No object is written under one that was deleted.                          *)
LEMMA PlaceIsWhole ==
  ASSUME Ground, Fits, NEW kind \in Kinds, NEW known \in BOOLEAN, NEW d \in Places(kind), NEW ref,
         Writes(kind, known, d, ref)
  PROVE  open[d] \in DOMAIN file /\ Whole[open[d]] /\ file[open[d]].known
<1>1. d \in DOMAIN open /\ (file[open[d]].known \/ file[open[d]].kind \in family.heads)
  BY DEF Places
<1>2. Adds(NewObject(kind, known, d, ref)) /\ d \in 1 .. Len(open) /\ \A j \in 1 .. Len(open) : open[j] \in 1 .. Len(file)
  BY WritesGrows DEF Ground
<1>3. open[d] \in DOMAIN file
  BY <1>2 DEF Adds
<1>4. file[open[d]].known \/ file[open[d]].kind \in family.unknown
  BY <1>3 DEF Ground, OwnersInv
<1>5. file[open[d]].known
  BY <1>1, <1>4 DEF Fits, NoHeads
<1> QED BY <1>3, <1>5 DEF Ground, KnownInv

(* No object lacks its importer. *)
LEMMA NoOrphan ==
  ASSUME Ground, Fits
  PROVE  ~ImportOrphan
<1> SUFFICES ASSUME ImportOrphan PROVE FALSE
  OBVIOUS
<1>1. PICK kind \in Kinds \ {"bind"} : \E d \in Places(kind) :
        Writes(kind, TRUE, d, 0) /\ latest[Asks(kind)] = None
  BY DEF ImportOrphan
<1>2. PICK d \in Places(kind) : Writes(kind, TRUE, d, 0) /\ latest[Asks(kind)] = None
  BY <1>1
<1>3. open[d] \in DOMAIN file /\ Whole[open[d]]
  BY <1>2, PlaceIsWhole
<1>4. result = "reading"
  BY <1>2 DEF Writes
<1>5. latest[Asks(kind)] = open[d]
  BY <1>3, <1>4, AsksItsOwner DEF Ground
<1>6. open[d] \in Nat
  BY <1>3 DEF Ground, ReadInv, IInv, Shape
<1> QED BY <1>2, <1>5, <1>6, FileImportAssumption

-----------------------------------------------------------------------------
(* What an entry of a list is: a placeholder of a list that is referred to  *)
(* by index, or an object of the kind; the backboard's lists of nested       *)
(* artboards and images are kept beside their artboards' objects.            *)
TypedAt(e) ==
  /\ e.what = 0 => e.list \in ByIndex
  /\ e.what # 0 => \/ e.list = ListOf(file[e.what].kind)
                   \/ /\ file[e.what].kind \in {"nested", "image"}
                      /\ e.list = file[e.what].kind /\ e.to = 1
TypedInv == \A k \in DOMAIN added : TypedAt(added[k])

LeftAs(p) == [to |-> 1, list |-> file[p].kind, what |-> p]
LeftWord(p) == \E k \in DOMAIN added : added[k] = LeftAs(p)
LeftInv == \A p \in Objects : file[p].kind \in {"nested", "image"} => LeftWord(p)

EntryAs(kind, known, h, e) ==
  \/ ~known /\ e.what = 0 /\ e.list \in ByIndex
  \/ known /\ e.what = h /\ e.list = ListOf(kind)
  \/ known /\ e.what = h /\ kind \in {"nested", "image"} /\ e.list = kind /\ e.to = 1

GrowsAs(a, b, kind, known, h) ==
  /\ Len(a) \in Nat /\ Len(b) \in Nat /\ Len(a) <= Len(b)
  /\ \A k \in 1 .. Len(a) : b[k] = a[k]
  /\ \A k \in 1 .. Len(b) : k \in 1 .. Len(a) \/ EntryAs(kind, known, h, b[k])

(* What a step adds to the lists is of the kind that is read.                *)
LEMMA AddsOneAs ==
  ASSUME NEW a, NEW b, NEW kind, NEW known, NEW h, NEW to, NEW list, NEW what, Len(a) \in Nat,
         AddsTo(a, b, to, list, what), EntryAs(kind, known, h, [to |-> to, list |-> list, what |-> what])
  PROVE  GrowsAs(a, b, kind, known, h)
<1>1. /\ Len(b) = Len(a) + 1 /\ \A k \in 1 .. Len(a) : b[k] = a[k]
      /\ b[Len(b)] = [to |-> to, list |-> list, what |-> what]
  BY DEF AddsTo
<1> DEFINE e == [to |-> to, list |-> list, what |-> what]
<1> HIDE DEF e
<1>2. b[Len(b)] = e /\ EntryAs(kind, known, h, e)
  BY <1>1 DEF e
<1>3. \A k \in 1 .. Len(b) : k \in 1 .. Len(a) \/ k = Len(b)
  BY <1>1
<1>4. \A k \in 1 .. Len(b) : k \in 1 .. Len(a) \/ EntryAs(kind, known, h, b[k])
  BY <1>2, <1>3
<1> QED BY <1>1, <1>4 DEF GrowsAs

LEMMA BothGrow ==
  ASSUME NEW a, NEW b, NEW c, NEW kind, NEW known, NEW h, GrowsAs(a, b, kind, known, h), GrowsAs(b, c, kind, known, h)
  PROVE  GrowsAs(a, c, kind, known, h)
<1>1. /\ Len(a) \in Nat /\ Len(b) \in Nat /\ Len(c) \in Nat /\ Len(a) <= Len(b) /\ Len(b) <= Len(c)
      /\ \A k \in 1 .. Len(a) : b[k] = a[k]
      /\ \A k \in 1 .. Len(b) : c[k] = b[k]
      /\ \A k \in 1 .. Len(b) : k \in 1 .. Len(a) \/ EntryAs(kind, known, h, b[k])
      /\ \A k \in 1 .. Len(c) : k \in 1 .. Len(b) \/ EntryAs(kind, known, h, c[k])
  BY DEF GrowsAs
<1>2. \A k \in 1 .. Len(a) : k \in 1 .. Len(b)
  BY <1>1
<1>3. \A k \in 1 .. Len(c) : k \in 1 .. Len(a) \/ EntryAs(kind, known, h, c[k])
  BY <1>1
<1>4. Len(a) <= Len(c)
  BY <1>1
<1> QED BY <1>1, <1>2, <1>3, <1>4 DEF GrowsAs

(* The first object an importer is asked for is the backboard. *)
LEMMA ReadingIs ==
  ASSUME Ground, Fits, NEW kind \in Kinds, NEW known \in BOOLEAN, NEW d \in Places(kind), NEW ref,
         Writes(kind, known, d, ref)
  PROVE  /\ result = "reading" /\ file # <<>> /\ latest["backboard"] = 1
         /\ kind # "bind" => latest[Asks(kind)] = open[d] /\ latest[Asks(kind)] # None
<1>1. result = "reading" /\ open[d] \in DOMAIN file /\ Whole[open[d]]
  BY PlaceIsWhole DEF Writes
<1>2. file # <<>>
  BY <1>1
<1>3. latest["backboard"] = 1
  BY <1>1, <1>2 DEF Ground, ReadInv, KeptInv
<1>4. open[d] # None
  <2>1. open[d] \in Nat
    BY <1>1 DEF Ground, ReadInv, IInv, Shape
  <2> QED BY <2>1, FileImportAssumption
<1>5. kind # "bind" => latest[Asks(kind)] = open[d]
  BY <1>1, AsksItsOwner DEF Ground
<1> QED BY <1>1, <1>2, <1>3, <1>4, <1>5

(* So it is of every step that reads an object.                              *)
LEMMA ReadGrows ==
  ASSUME Ground, Fits, NEW kind \in Kinds, NEW known \in BOOLEAN, NEW d \in Places(kind), NEW ref,
         Reads(kind, known, d, ref)
  PROVE  /\ GrowsAs(added, added', kind, known, Here)
         /\ known /\ kind \in {"nested", "image"} =>
              \E k \in 1 .. Len(added') : added'[k] = [to |-> 1, list |-> kind, what |-> Here]
<1>1. Shape /\ Len(added) \in Nat
  BY DEF Ground, ReadInv, IInv, Shape
<1>2. Writes(kind, known, d, ref)
  BY DEF Reads
<1>3. /\ result = "reading" /\ file # <<>> /\ latest["backboard"] = 1
      /\ kind # "bind" => latest[Asks(kind)] = open[d] /\ latest[Asks(kind)] # None
  BY <1>2, ReadingIs
<1>4. CASE UNCHANGED added /\ ~(known /\ kind \in {"nested", "image"})
  <2>1. GrowsAs(added, added, kind, known, Here)
    BY <1>1 DEF GrowsAs
  <2> QED BY <1>4, <2>1
<1>5. CASE known
  <2>1. GivesKnown(kind, ref)
    BY <1>5 DEF Reads
  <2>2. CASE kind \notin {"nested", "image"} /\ \E type : Gives(type, ListOf(kind), Here)
    <3>1. PICK type : Gives(type, ListOf(kind), Here)
      BY <2>2
    <3>2. AddsTo(added, added', latest[type], ListOf(kind), Here)
      BY <1>1, <3>1, GivesAdds
    <3>3. EntryAs(kind, known, Here, [to |-> latest[type], list |-> ListOf(kind), what |-> Here])
      BY <1>5 DEF EntryAs
    <3>4. GrowsAs(added, added', kind, known, Here)
      BY <1>1, <3>2, <3>3, AddsOneAs
    <3> QED BY <2>2, <3>4
  <2>3. CASE kind \in {"nested", "image"} /\ GivesBoth(kind)
    <3>1. PICK a : /\ AddsTo(added, a, latest["backboard"], kind, Here) /\ DOMAIN a = 1 .. Len(a)
                   /\ AddsTo(a, added', latest["artboard"], "objects", Here)
      BY <1>1, <2>3, BothAdds
    <3>2. Len(a) \in Nat /\ Len(a) = Len(added) + 1 /\ a[Len(a)] = [to |-> 1, list |-> kind, what |-> Here]
          /\ \A k \in 1 .. Len(a) : added'[k] = a[k]
      BY <1>1, <1>3, <3>1 DEF AddsTo
    <3>3. EntryAs(kind, known, Here, [to |-> latest["backboard"], list |-> kind, what |-> Here])
      BY <1>3, <1>5, <2>3 DEF EntryAs
    <3>4. EntryAs(kind, known, Here, [to |-> latest["artboard"], list |-> "objects", what |-> Here])
      <4>1. ListOf(kind) = "objects"
        BY <2>3, ListsAre
      <4> QED BY <1>5, <4>1 DEF EntryAs
    <3>5. GrowsAs(added, a, kind, known, Here)
      BY <1>1, <3>1, <3>3, AddsOneAs
    <3>6. GrowsAs(a, added', kind, known, Here)
      BY <3>1, <3>2, <3>4, AddsOneAs
    <3>7. GrowsAs(added, added', kind, known, Here)
      BY <3>5, <3>6, BothGrow
    <3>8. Len(a) \in 1 .. Len(added')
      BY <1>1, <3>1, <3>2 DEF AddsTo
    <3>9. Len(a) \in 1 .. Len(a)
      BY <1>1, <3>2
    <3>10. added'[Len(a)] = [to |-> 1, list |-> kind, what |-> Here]
      BY <3>2, <3>9
    <3> QED BY <3>7, <3>8, <3>10
  <2>4. ListOf("bind") = "bind"
    BY KindsAre, ListsAre
  <2> QED BY <1>3, <1>4, <2>1, <2>2, <2>3, <2>4 DEF GivesKnown
<1>6. CASE ~known
  <2>1. ReadNullObject
    BY <1>6 DEF Reads
  <2>2. CASE ~UNCHANGED added
    <3>1. PICK k \in DOMAIN lastAdded :
             /\ Takes(k) /\ Keeps[file[lastAdded[k]].kind] # None
             /\ added' = Append(added, [to |-> lastAdded[k], list |-> Keeps[file[lastAdded[k]].kind],
                                     what |-> 0])
      BY <2>1, <2>2 DEF ReadNullObject
    <3>2. AddsTo(added, added', lastAdded[k], Keeps[file[lastAdded[k]].kind], 0)
      BY <1>1, <3>1, AppendAdds
    <3>3. Keeps[file[lastAdded[k]].kind] \in ByIndex
      BY <3>1, KeepsAre DEF Takes, ByIndex
    <3>4. EntryAs(kind, known, Here, [to |-> lastAdded[k], list |-> Keeps[file[lastAdded[k]].kind], what |-> 0])
      BY <1>6, <3>3 DEF EntryAs
    <3> QED BY <1>1, <1>6, <3>2, <3>4, AddsOneAs
  <2> QED BY <1>4, <1>6, <2>2
<1> QED BY <1>5, <1>6

(* The step: what is listed stays so.                                       *)
LEMMA TypedKept ==
  ASSUME Ground, Fits, IInv', TypedInv, LeftInv,
         NEW kind \in Kinds, NEW known \in BOOLEAN, NEW d \in Places(kind), NEW ref,
         Reads(kind, known, d, ref)
  PROVE  TypedInv' /\ LeftInv'
<1>1. /\ ReadInv /\ Shape /\ Shape' /\ GivenInv /\ Writes(kind, known, d, ref)
  BY DEF Ground, ReadInv, IInv, Reads
<1>2. /\ DOMAIN added = 1 .. Len(added) /\ DOMAIN added' = 1 .. Len(added')
      /\ DOMAIN file = 1 .. Len(file) /\ Len(file) \in Nat /\ Here = Len(file) + 1
  BY <1>1 DEF Shape, Here
<1>3. /\ GrowsAs(added, added', kind, known, Here)
      /\ known /\ kind \in {"nested", "image"} =>
           \E k \in 1 .. Len(added') : added'[k] = [to |-> 1, list |-> kind, what |-> Here]
  BY ReadGrows
<1>4. /\ \A p \in DOMAIN file : Whole'[p] = Whole[p] /\ file'[p] = file[p]
      /\ Whole'[Here] = (known /\ Whole[open[d]])
      /\ file'[Here] = NewObject(kind, known, d, ref)
      /\ DOMAIN file' = DOMAIN file \cup {Here}
  BY <1>1, TreeGrows
<1>5. file'[Here].kind = kind
  BY <1>4 DEF NewObject
<1>6. TypedInv'
  <2>1. ASSUME NEW k \in DOMAIN added' PROVE TypedAt(added[k])'
    <3>1. CASE k \in 1 .. Len(added)
      <4>1. added'[k] = added[k] /\ TypedAt(added[k])
        BY <1>2, <1>3, <3>1 DEF GrowsAs, TypedInv
      <4>2. added[k].what \in 0 .. Len(file)
        BY <1>1, <1>2, <3>1 DEF GivenInv
      <4>3. added[k].what # 0 => added[k].what \in DOMAIN file
        BY <1>2, <4>2
      <4>4. added[k].what # 0 => file'[added[k].what] = file[added[k].what]
        BY <1>4, <4>3
      <4> QED BY <4>1, <4>4 DEF TypedAt
    <3>2. CASE EntryAs(kind, known, Here, added'[k])
      <4>1. Here # 0
        BY <1>2
      <4> QED BY <1>5, <3>2, <4>1 DEF EntryAs, TypedAt
    <3> QED BY <1>2, <1>3, <3>1, <3>2 DEF GrowsAs
  <2> QED BY <2>1 DEF TypedInv
<1>7. ASSUME NEW p \in Objects', file'[p].kind \in {"nested", "image"}
      PROVE  LeftWord(p)'
  <2>1. p \in DOMAIN file' /\ Whole'[p] /\ file'[p].kind # "backboard"
    BY DEF Objects
  <2>2. CASE p \in DOMAIN file
    <3>1. p \in Objects /\ file'[p] = file[p]
      BY <1>4, <2>1, <2>2 DEF Objects
    <3>2. PICK k \in DOMAIN added : added[k] = LeftAs(p)
      BY <1>7, <3>1 DEF LeftInv, LeftWord
    <3>3. k \in DOMAIN added' /\ added'[k] = added[k]
      BY <1>2, <1>3 DEF GrowsAs
    <3> QED BY <3>1, <3>2, <3>3 DEF LeftWord, LeftAs
  <2>3. CASE p = Here
    <3>1. known /\ kind \in {"nested", "image"}
      <4>1. Whole'[Here] = (known /\ Whole[open[d]])
        BY <1>4
      <4>2. known /\ Whole[open[d]]
        BY <2>1, <2>3, <4>1
      <4> QED BY <1>5, <1>7, <2>3, <4>2
    <3>2. PICK k \in 1 .. Len(added') : added'[k] = [to |-> 1, list |-> kind, what |-> Here]
      BY <1>3, <3>1
    <3> QED BY <1>2, <1>5, <2>3, <3>2 DEF LeftWord, LeftAs
  <2> QED BY <1>4, <2>1, <2>2, <2>3
<1> QED BY <1>6, <1>7 DEF LeftInv
-----------------------------------------------------------------------------
(* The nearest owner of a kind is the object or one above it.                *)
LEMMA WithinUp ==
  ASSUME ReadInv, NEW p \in DOMAIN file, NEW k
  PROVE  /\ Within(p, k) \in 1 .. p
         /\ Within(p, k) = IF file[p].kind = k \/ file[p].under = None THEN p ELSE Within(file[p].under, k)
<1>1. DOMAIN file = 1 .. Len(file) /\ Len(file) \in Nat /\ Treelike(file)
  BY DEF ReadInv, TreeInv, IInv, Shape
<1> DEFINE U == Up(file, k)
<1>2. p \in 1 .. Len(file)
  BY <1>1
<1>3. U[p] \in 1 .. p /\ U[p] = IF file[p].kind = k \/ file[p].under = None THEN p ELSE U[file[p].under]
  BY <1>1, <1>2, UpIs
<1>4. \A q : Within(q, k) = U[q]
  BY WithinIs
<1> HIDE DEF U
<1> QED BY <1>3, <1>4

(* The owner of the object read, of a kind.                                 *)
LEMMA WithinHere ==
  ASSUME ReadInv, IInv', NEW kind \in Kinds, NEW known \in BOOLEAN, NEW d \in Places(kind), NEW ref,
         Writes(kind, known, d, ref), NEW h, h = Here, NEW k
  PROVE  /\ Within(h, k)' = IF kind = k THEN h ELSE Within(open[d], k)
         /\ \A q \in DOMAIN file : Within(q, k)' = Within(q, k)
<1> DEFINE g == file'
           n == Len(file)
           V == Up(g, k)
           p == open[d]
<1>1. /\ Adds(NewObject(kind, known, d, ref)) /\ h = Len(file) + 1 /\ d \in 1 .. Len(open)
      /\ \A j \in 1 .. Len(open) : open[j] \in 1 .. Len(file)
  BY WritesGrows
<1>2. TreeInv /\ TreeInv' /\ file'[h] = NewObject(kind, known, d, ref)
  BY TreeGrows DEF ReadInv
<1>3. /\ Treelike(g) /\ DOMAIN g = 1 .. n + 1 /\ n \in Nat /\ n + 1 \in Nat /\ g[n + 1].kind = kind
      /\ g[n + 1].under = p /\ n + 1 \in 1 .. n + 1 /\ h = n + 1 /\ p \in 1 .. n
      /\ DOMAIN file = 1 .. n
  <2>1. n \in Nat /\ DOMAIN file = 1 .. n /\ DOMAIN g = 1 .. n + 1
    BY <1>1 DEF Adds
  <2>2. g[n + 1].kind = kind /\ g[n + 1].under = p
    BY <1>1, <1>2 DEF NewObject
  <2>3. Treelike(g)
    BY <1>2 DEF TreeInv
  <2> QED BY <1>1, <2>1, <2>2, <2>3
<1>4. \A q \in 1 .. Len(file) : Within(q, k)' = Within(q, k)
  BY <1>1, <1>2, WithinKept DEF TreeInv
<1>5. \A q : Within(q, k)' = Up(file', k)[q]
  BY WithinIs
<1> HIDE DEF g, p
<1>6. V[n + 1] = IF g[n + 1].kind = k \/ g[n + 1].under = None THEN n + 1 ELSE V[g[n + 1].under]
  <2> HIDE DEF n
  <2> QED BY <1>3, UpIs
<1>7. p # None
  BY <1>3, FileImportAssumption
<1> HIDE DEF n
<1>8. V[n + 1] = IF kind = k THEN n + 1 ELSE V[p]
  BY <1>3, <1>6, <1>7
<1>9. \A q : Within(q, k)' = V[q]
  BY <1>5 DEF g
<1>10. V[p] = Within(p, k)
  <2>1. Within(p, k)' = V[open'[d]]
    BY <1>5 DEF p, g
  <2>2. open'[d] = p
    BY <1>1, WritesGrows DEF p
  <2>3. \A q : q = p => Within(q, k)' = V[q]
    BY <1>9
  <2>4. \A q : q = p => Within(q, k)' = Within(q, k)
    BY <1>3, <1>4 DEF n
  <2> QED BY <2>3, <2>4
<1> QED BY <1>3, <1>4, <1>8, <1>9, <1>10 DEF p, n

(* The owners of the objects of the path, of the kinds that are referred to. *)
LEMMA OnePath ==
  ASSUME Ground, result = "reading", NEW j \in DOMAIN open, Whole[open[j]], KindAt(j) \in ImporterTypes
  PROVE  latest[KindAt(j)] = open[j] /\ open[j] \in Nat /\ open[j] # None /\ Whole[open[j]]
<1>1. open[j] \in DOMAIN file
  BY DEF Ground, ReadInv, TreeInv, IInv, Shape
<1>2. Importer(open[j])
  BY DEF Importer, KindAt
<1>3. open[j] \in Nat
  BY <1>1 DEF Ground, ReadInv, IInv, Shape
<1> QED BY <1>2, <1>3, FileImportAssumption DEF Ground, ReadInv, PathInv

LEMMA UpPath ==
  ASSUME Ground, result = "reading", NEW j \in DOMAIN open, Whole[open[j]], KindAt(j) # "backboard", NEW k
  PROVE  /\ j - 1 \in DOMAIN open /\ Whole[open[j - 1]] /\ KindAt(j - 1) \in Owners[KindAt(j)]
         /\ Within(open[j], k) = IF KindAt(j) = k THEN open[j] ELSE Within(open[j - 1], k)
<1>1. ReadInv /\ OwnersInv
  BY DEF Ground
<1>2. /\ j - 1 \in DOMAIN open /\ KindAt(j - 1) \in Owners[KindAt(j)]
      /\ open[j - 1] \in DOMAIN file /\ Whole[open[j]] = (file[open[j]].known /\ Whole[open[j - 1]])
  BY <1>1, PathOwners
<1>3. Whole[open[j - 1]] \in BOOLEAN
  BY <1>1, <1>2, WholeIs DEF ReadInv, IInv, TreeInv
<1> QED BY <1>1, <1>2, <1>3, WithinPath

(* The nearest owners of the objects of the path are the latest importers.   *)
LEMMA PathArtboard ==
  ASSUME Ground, result = "reading", NEW j \in DOMAIN open, Whole[open[j]],
         KindAt(j) \in {"artboard", "machine", "layer", "state"}
  PROVE  /\ Within(open[j], "artboard") = latest["artboard"]
         /\ latest["artboard"] \in DOMAIN file /\ Whole[latest["artboard"]] /\ file[latest["artboard"]].kind = "artboard"
<1>1. ASSUME NEW i \in DOMAIN open, Whole[open[i]], KindAt(i) = "artboard"
      PROVE  /\ Within(open[i], "artboard") = latest["artboard"]
             /\ latest["artboard"] \in DOMAIN file /\ Whole[latest["artboard"]]
             /\ file[latest["artboard"]].kind = "artboard"
  <2>1. "artboard" \in ImporterTypes
    BY DEF ImporterTypes
  <2>2. latest["artboard"] = open[i]
    BY <1>1, <2>1, OnePath
  <2>3. Within(open[i], "artboard") = open[i]
    BY <1>1, UpPath
  <2>4. open[i] \in DOMAIN file
    BY <1>1 DEF Ground, ReadInv, TreeInv, IInv, Shape
  <2> QED BY <1>1, <2>2, <2>3, <2>4 DEF KindAt
<1>2. ASSUME NEW i \in DOMAIN open, Whole[open[i]], KindAt(i) = "machine"
      PROVE  /\ Within(open[i], "artboard") = latest["artboard"]
             /\ latest["artboard"] \in DOMAIN file /\ Whole[latest["artboard"]]
             /\ file[latest["artboard"]].kind = "artboard"
  <2>1. /\ i - 1 \in DOMAIN open /\ Whole[open[i - 1]] /\ KindAt(i - 1) \in Owners["machine"]
        /\ Within(open[i], "artboard") = Within(open[i - 1], "artboard")
    BY <1>2, UpPath
  <2>2. KindAt(i - 1) = "artboard"
    BY <2>1, OwnersAre
  <2> QED BY <1>1, <2>1, <2>2
<1>3. ASSUME NEW i \in DOMAIN open, Whole[open[i]], KindAt(i) = "layer"
      PROVE  /\ Within(open[i], "artboard") = latest["artboard"]
             /\ latest["artboard"] \in DOMAIN file /\ Whole[latest["artboard"]]
             /\ file[latest["artboard"]].kind = "artboard"
  <2>1. /\ i - 1 \in DOMAIN open /\ Whole[open[i - 1]] /\ KindAt(i - 1) \in Owners["layer"]
        /\ Within(open[i], "artboard") = Within(open[i - 1], "artboard")
    BY <1>3, UpPath
  <2>2. KindAt(i - 1) = "machine"
    BY <2>1, OwnersAre
  <2> QED BY <1>2, <2>1, <2>2
<1>4. CASE KindAt(j) = "state"
  <2>1. /\ j - 1 \in DOMAIN open /\ Whole[open[j - 1]] /\ KindAt(j - 1) \in Owners["state"]
        /\ Within(open[j], "artboard") = Within(open[j - 1], "artboard")
    BY <1>4, UpPath
  <2>2. KindAt(j - 1) = "layer"
    BY <2>1, OwnersAre
  <2> QED BY <1>3, <2>1, <2>2
<1> QED BY <1>1, <1>2, <1>3, <1>4

LEMMA PathLayer ==
  ASSUME Ground, result = "reading", NEW j \in DOMAIN open, Whole[open[j]],
         KindAt(j) \in {"layer", "state"}
  PROVE  Within(open[j], "layer") = latest["layer"] /\ latest["layer"] # None
<1>1. ASSUME NEW i \in DOMAIN open, Whole[open[i]], KindAt(i) = "layer"
      PROVE  Within(open[i], "layer") = latest["layer"] /\ latest["layer"] # None
  <2>1. "layer" \in ImporterTypes
    BY DEF ImporterTypes
  <2>2. latest["layer"] = open[i] /\ open[i] # None
    BY <1>1, <2>1, OnePath
  <2>3. Within(open[i], "layer") = open[i]
    BY <1>1, UpPath
  <2> QED BY <2>2, <2>3
<1>2. CASE KindAt(j) = "state"
  <2>1. /\ j - 1 \in DOMAIN open /\ Whole[open[j - 1]] /\ KindAt(j - 1) \in Owners["state"]
        /\ Within(open[j], "layer") = Within(open[j - 1], "layer")
    BY <1>2, UpPath
  <2>2. KindAt(j - 1) = "layer"
    BY <2>1, OwnersAre
  <2> QED BY <1>1, <2>1, <2>2
<1> QED BY <1>1, <1>2

LEMMA PathAnimation ==
  ASSUME Ground, result = "reading", NEW j \in DOMAIN open, Whole[open[j]],
         KindAt(j) \in {"animation", "keyedObject"}
  PROVE  Within(open[j], "animation") = latest["animation"] /\ latest["animation"] # None
<1>1. ASSUME NEW i \in DOMAIN open, Whole[open[i]], KindAt(i) = "animation"
      PROVE  Within(open[i], "animation") = latest["animation"] /\ latest["animation"] # None
  <2>1. "animation" \in ImporterTypes
    BY DEF ImporterTypes
  <2>2. latest["animation"] = open[i] /\ open[i] # None
    BY <1>1, <2>1, OnePath
  <2>3. Within(open[i], "animation") = open[i]
    BY <1>1, UpPath
  <2> QED BY <2>2, <2>3
<1>2. CASE KindAt(j) = "keyedObject"
  <2>1. /\ j - 1 \in DOMAIN open /\ Whole[open[j - 1]] /\ KindAt(j - 1) \in Owners["keyedObject"]
        /\ Within(open[j], "animation") = Within(open[j - 1], "animation")
    BY <1>2, UpPath
  <2>2. KindAt(j - 1) = "animation"
    BY <2>1, OwnersAre
  <2> QED BY <1>1, <2>1, <2>2
<1> QED BY <1>1, <1>2
-----------------------------------------------------------------------------
(* What the exporter writes to refer by, and what a data bind is for.       *)
HasIn(ref, a) == ref \in Nat /\ ref < Len(Written(a, "animation"))
RefersWell(p) ==
  /\ file[p].kind \in {"transition", "nested", "image"} => file[p].ref \in Nat
  /\ file[p].kind = "state" => file[p].ref = None \/ HasIn(file[p].ref, Within(p, "artboard"))
  /\ file[p].kind = "blend" => HasIn(file[p].ref, Within(p, "artboard"))
RefsInv == \A p \in DOMAIN file : file[p].known => RefersWell(p)

ContentsInv == \A a : Len(Written(a, "contents")) <= 1

BindsLast(j) ==
  /\ file[open[j]].known /\ KindAt(j) \in {"component", "nested", "image"} => bindable = open[j]
  /\ KindAt(j) = "bind" => bindable = open[j - 1]
BindableInv == \A j \in DOMAIN open : j = Len(open) => BindsLast(j)

(* A list that is written only grows, at its end.                            *)
LEMMA WrittenLonger ==
  ASSUME ReadInv, NEW kind \in Kinds, NEW known \in BOOLEAN, NEW d \in Places(kind), NEW ref,
         Writes(kind, known, d, ref), NEW l
  PROVE  \A o : /\ Len(Written(o, l)) \in Nat /\ Len(Written(o, l)') \in Nat
                /\ Len(Written(o, l)) <= Len(Written(o, l)')
                /\ \A i \in 1 .. Len(Written(o, l)) : Written(o, l)'[i] = Written(o, l)[i]
<1> TAKE o
<1> DEFINE w == Written(o, l)
           v == Written(o, l)'
<1>1. w \in Seq(Nat) /\ v = IF open[d] = o /\ ListOf(kind) = l THEN Append(w, Here) ELSE w
  BY WrittenGrows
<1>2. Here \in Nat
  BY DEF ReadInv, IInv, Shape, Here
<1> HIDE DEF w, v
<1>3. Len(w) \in Nat /\ Len(v) \in Nat /\ Len(w) <= Len(v) /\ \A i \in 1 .. Len(w) : v[i] = w[i]
  BY <1>1, <1>2
<1> QED BY <1>3 DEF w, v

(* What objects refer by stays in reach; no asset gets contents twice.       *)
LEMMA RefsKept ==
  ASSUME Ground, Fits, IInv', RefsInv,
         NEW kind \in Kinds, NEW known \in BOOLEAN, NEW d \in Places(kind), NEW ref,
         Links(kind, known, d, ref)
  PROVE  RefsInv'
<1>1. /\ ReadInv /\ Writes(kind, known, d, ref) /\ (known => RefersAs(kind, d, ref))
  BY DEF Ground, Links, Reads
<1>2. /\ \A p \in DOMAIN file : file'[p] = file[p]
      /\ file'[Here] = NewObject(kind, known, d, ref)
      /\ DOMAIN file' = DOMAIN file \cup {Here}
  BY <1>1, TreeGrows
<1>3. \A o : /\ Len(Written(o, "animation")) \in Nat /\ Len(Written(o, "animation")') \in Nat
             /\ Len(Written(o, "animation")) <= Len(Written(o, "animation")')
  BY <1>1, WrittenLonger
<1>4. ASSUME NEW r, NEW a, HasIn(r, a) PROVE HasIn(r, a)'
  <2> HIDE DEF Written
  <2> QED BY <1>3, <1>4 DEF HasIn
<1>5. ASSUME NEW p \in DOMAIN file', file'[p].known PROVE RefersWell(p)'
  <2>1. CASE p \in DOMAIN file
    <3>1. file'[p] = file[p] /\ RefersWell(p)
      BY <1>2, <1>5, <2>1 DEF RefsInv
    <3>2. Within(p, "artboard")' = Within(p, "artboard")
      BY <1>1, <2>1, WithinHere
    <3>3. HasIn(file[p].ref, Within(p, "artboard")) => HasIn(file[p].ref, Within(p, "artboard"))'
      <4> SUFFICES ASSUME HasIn(file[p].ref, Within(p, "artboard"))
                   PROVE  HasIn(file[p].ref, Within(p, "artboard"))'
        OBVIOUS
      <4> DEFINE r == file[p].ref
                 a == Within(p, "artboard")
      <4>1. PICK x, y : x = r /\ y = a /\ HasIn(x, y)
        OBVIOUS
      <4>2. HasIn(x, y)'
        BY <1>4, <4>1
      <4>3. x = r' /\ y = a'
        BY <3>1, <3>2, <4>1
      <4> HIDE DEF r, a, HasIn
      <4>4. HasIn(r, a)'
        BY <4>2, <4>3
      <4> QED BY <4>4 DEF r, a
    <3> HIDE DEF HasIn
    <3> QED BY <3>1, <3>3 DEF RefersWell
  <2>2. CASE p = Here
    <3> DEFINE a == Within(p, "artboard")
    <3>1. file'[p].kind = kind /\ file'[p].ref = ref /\ known
      BY <1>2, <1>5, <2>2 DEF NewObject
    <3>2. RefersAs(kind, d, ref)
      BY <1>1, <3>1
    <3>3. ASSUME ref \in Animations(d), kind # "artboard" PROVE HasIn(file[p].ref, Within(p, "artboard"))'
      <4>1. PICK y : y = Within(open[d], "artboard")
        OBVIOUS
      <4>2. HasIn(ref, y)
        BY <1>3, <3>3, <4>1 DEF Animations, HasIn
      <4>3. HasIn(ref, y)'
        BY <1>4, <4>2
      <4>4. Within(p, "artboard")' = y
        BY <1>1, <2>2, <3>3, <4>1, WithinHere
      <4> HIDE DEF HasIn
      <4>5. HasIn(file[p].ref, a)'
        BY <3>1, <4>3, <4>4
      <4> QED BY <4>5 DEF a
    <3> HIDE DEF HasIn
    <3> QED BY <3>1, <3>2, <3>3 DEF RefersAs, RefersWell
  <2> QED BY <1>2, <2>1, <2>2
<1> QED BY <1>5 DEF RefsInv

LEMMA ContentsKept ==
  ASSUME Ground, Fits, ContentsInv,
         NEW kind \in Kinds, NEW known \in BOOLEAN, NEW d \in Places(kind), NEW ref,
         Links(kind, known, d, ref)
  PROVE  ContentsInv'
<1>1. /\ ReadInv /\ Writes(kind, known, d, ref) /\ (known => RefersAs(kind, d, ref))
      /\ (known \/ kind \in family.unknown)
  BY DEF Ground, Links, Reads
<1>2. ASSUME NEW a PROVE Len(Written(a, "contents")') <= 1
  <2>1. /\ Written(a, "contents") \in Seq(Nat)
        /\ Written(a, "contents")' = IF open[d] = a /\ ListOf(kind) = "contents"
                                     THEN Append(Written(a, "contents"), Here) ELSE Written(a, "contents")
    BY <1>1, WrittenGrows
  <2>2. Len(Written(a, "contents")) <= 1
    BY DEF ContentsInv
  <2>3. CASE open[d] = a /\ ListOf(kind) = "contents"
    <3>1. kind = "contents"
      BY <2>3, KindsAre, ListsAre
    <3>2. kind \notin family.unknown
      BY <3>1 DEF Fits, ReferencesFit
    <3>3. Written(a, "contents") = <<>>
      BY <1>1, <2>3, <3>1, <3>2 DEF RefersAs
    <3> DEFINE w == Written(a, "contents")
               v == Written(a, "contents")'
    <3>4. w \in Seq(Nat) /\ w = <<>> /\ v = Append(w, Here)
      BY <2>1, <2>3, <3>3
    <3> HIDE DEF w, v
    <3>5. Len(v) <= 1
      BY <3>4
    <3> QED BY <3>5 DEF v
  <2> QED BY <2>1, <2>2, <2>3
<1> QED BY <1>2 DEF ContentsInv

(* Nothing but binds is written under an object of an artboard.             *)
LEMMA UnderComponent ==
  ASSUME NEW kind \in Kinds
  PROVE  /\ Owners[kind] \cap {"component", "nested", "image"} # {} => kind = "bind"
         /\ "bind" \notin Owners[kind]
BY KindsAre, OwnersAre

(* A data bind is for the object it is written under (File::readRuntimeObject).*)
LEMMA BindIsFor ==
  ASSUME Ground, Fits, BindableInv, NEW known \in BOOLEAN, NEW d \in Places("bind"), NEW ref,
         Writes("bind", known, d, ref)
  PROVE  bindable = open[d]
<1>0. "bind" \in Kinds
  BY KindsAre
<1>1. /\ d \in 1 .. Len(open) /\ DOMAIN open = 1 .. Len(open) /\ Len(open) \in Nat
      /\ KindAt(d) \in Owners["bind"] /\ result = "reading"
  BY <1>0, WritesGrows DEF Ground
<1> DEFINE n == Len(open)
<1> HIDE DEF n
<1>2. KindAt(d) \in {"component", "nested", "image"} /\ file[open[d]].known
  BY <1>0, <1>1, OwnersAre, PlaceIsWhole
<1>3. ASSUME NEW j \in DOMAIN open, j - 1 \in DOMAIN open, KindAt(j) # "backboard"
      PROVE  KindAt(j) \in Kinds /\ KindAt(j - 1) \in Owners[KindAt(j)]
  BY <1>1, <1>3, PathOwners DEF Ground
<1>4. ASSUME NEW j \in DOMAIN open, j # 1 PROVE KindAt(j) # "backboard"
  <2>1. j \in 1 .. n /\ 1 \in 1 .. n /\ 1 < j
    BY <1>1, <1>4 DEF n
  <2>2. open[j] \in DOMAIN file
    BY DEF Ground, ReadInv, TreeInv, IInv, Shape
  <2>3. open[1] = 1 /\ open[1] < open[j]
    BY <1>1, <2>1 DEF Ground, OwnersInv, n
  <2>4. open[j] # 1 /\ (file[open[j]].kind \in Kinds \/ open[j] = 1)
    BY <2>2, <2>3 DEF Ground, OwnersInv
  <2> QED BY KindsAre, <2>4 DEF KindAt
<1>5. CASE d = Len(open)
  BY <1>1, <1>2, <1>5 DEF BindableInv, BindsLast
<1>6. CASE d # Len(open)
  <2>1. d + 1 \in DOMAIN open /\ (d + 1) - 1 = d /\ d + 1 # 1
    <3>1. n \in Nat /\ d \in 1 .. n /\ d # n
      BY <1>1, <1>6 DEF n
    <3>2. d + 1 \in 1 .. n /\ (d + 1) - 1 = d /\ d + 1 # 1
      BY <3>1
    <3> QED BY <1>1, <3>2 DEF n
  <2>2. KindAt(d + 1) \in Kinds /\ KindAt(d) \in Owners[KindAt(d + 1)]
    BY <1>1, <1>3, <1>4, <2>1
  <2>3. KindAt(d + 1) = "bind"
    BY <1>2, <2>2, UnderComponent
  <2>4. d + 1 = Len(open)
    <3> SUFFICES ASSUME d + 1 # Len(open) PROVE FALSE
      OBVIOUS
    <3>1. d + 2 \in DOMAIN open /\ (d + 2) - 1 = d + 1 /\ d + 2 # 1
      <4>1. n \in Nat /\ d + 1 \in 1 .. n /\ d \in 1 .. n /\ d + 1 # n
        BY <1>1, <2>1 DEF n
      <4>2. d + 2 \in 1 .. n /\ (d + 2) - 1 = d + 1 /\ d + 2 # 1
        BY <4>1
      <4> QED BY <1>1, <4>2 DEF n
    <3>2. KindAt(d + 2) \in Kinds /\ KindAt(d + 1) \in Owners[KindAt(d + 2)]
      BY <1>3, <1>4, <2>1, <3>1
    <3> QED BY <2>3, <3>2, UnderComponent
  <2> QED BY <2>1, <2>3, <2>4 DEF BindableInv, BindsLast
<1> QED BY <1>5, <1>6

(* The last component that is read is the one that binds are for.            *)
LEMMA BindableKept ==
  ASSUME Ground, Fits, IInv', BindableInv,
         NEW kind \in Kinds, NEW known \in BOOLEAN, NEW d \in Places(kind), NEW ref,
         Links(kind, known, d, ref)
  PROVE  BindableInv'
<1>1. /\ ReadInv /\ Writes(kind, known, d, ref) /\ LinksAs(kind, known, ref)
      /\ (known \/ kind \in family.unknown)
  BY DEF Ground, Links, Reads
<1>2. /\ Len(open') = d + 1 /\ open'[d + 1] = Here /\ d \in 1 .. Len(open) /\ Len(open) \in Nat
      /\ open'[d] = open[d]
  <2>1. /\ Len(open') = d + 1 /\ open'[d + 1] = Here /\ d \in 1 .. Len(open) /\ Len(open) \in Nat
        /\ d \in Nat /\ \A j \in 1 .. d : open'[j] = open[j]
    BY <1>1, WritesGrows
  <2>2. d \in 1 .. d
    BY <2>1
  <2> QED BY <2>1, <2>2
<1>3. KindAt(d + 1)' = kind
  BY <1>1, PathOpens
<1>4. file'[open'[d + 1]].known = known
  <2>1. file'[Here] = NewObject(kind, known, d, ref)
    BY <1>1, TreeGrows
  <2> QED BY <1>2, <2>1 DEF NewObject
<1>5. CASE known /\ kind \in {"component", "nested", "image"}
  <2>1. bindable' = Here
    BY <1>1, <1>5 DEF LinksAs
  <2>2. BindsLast(d + 1)'
    BY <1>2, <1>3, <1>5, <2>1 DEF BindsLast
  <2> QED BY <1>2, <2>2 DEF BindableInv
<1>6. CASE kind = "bind"
  <2>1. known
    BY <1>1, <1>6 DEF Fits, PlaceholdersFit
  <2>2. bindable = open[d]
    BY <1>1, <1>6, BindIsFor
  <2>3. bindable' = bindable
    BY <1>1, <1>6, <2>1 DEF LinksAs
  <2>4. (d + 1) - 1 = d
    BY <1>2
  <2>5. BindsLast(d + 1)'
    BY <1>2, <1>3, <1>6, <2>2, <2>3, <2>4 DEF BindsLast
  <2> QED BY <1>2, <2>5 DEF BindableInv
<1>7. CASE ~(known /\ kind \in {"component", "nested", "image"}) /\ kind # "bind"
  <2>1. BindsLast(d + 1)'
    BY <1>3, <1>4, <1>7 DEF BindsLast
  <2> QED BY <1>2, <2>1 DEF BindableInv
<1> QED BY <1>5, <1>6, <1>7
-----------------------------------------------------------------------------
(* A map that another overrides.                                            *)
LEMMA Overlaid ==
  ASSUME NEW f, NEW g
  PROVE  /\ \A x : x \in DOMAIN Overlay(f, g) <=> x \in DOMAIN f \/ x \in DOMAIN g
         /\ \A x \in DOMAIN f : Overlay(f, g)[x] = f[x]
         /\ \A x \in DOMAIN g : x \notin DOMAIN f => Overlay(f, g)[x] = g[x]
BY DEF Overlay

LEMMA SingleIs ==
  ASSUME NEW x, NEW v
  PROVE  (\A y : y \in DOMAIN Single(x, v) <=> y = x) /\ Single(x, v)[x] = v
BY DEF Single

(* What is given is what the entries say.                                   *)
LEMMA GivenMembers ==
  ASSUME Shape, NEW o, NEW l
  PROVE  /\ \A x \in ToSet(Given(o, l)) :
              \E k \in DOMAIN added : added[k].to = o /\ added[k].list = l /\ added[k].what = x
         /\ \A k \in DOMAIN added :
              added[k].to = o /\ added[k].list = l => added[k].what \in ToSet(Given(o, l))
<1> DEFINE S == GivenIn(o, l)
           n == Len(added)
           s == InOrder(S, n)
           g == [i \in DOMAIN s |-> added[s[i]].what]
<1>1. n \in Nat /\ DOMAIN added = 1 .. n
  BY DEF Shape
<1>2. \A k : k \in S <=> k \in DOMAIN added /\ added[k].to = o /\ added[k].list = l
  BY DEF GivenIn
<1>3. Given(o, l) = g
  BY DEF Given
<1> HIDE DEF S, n
<1>4. /\ s \in Seq(Nat)
      /\ \A i \in 1 .. Len(s) : s[i] \in S /\ s[i] \in 1 .. n
      /\ \A k \in 1 .. n : k \in S => \E i \in 1 .. Len(s) : s[i] = k
  BY <1>1, InOrderHolds
<1> HIDE DEF s
<1>5. DOMAIN s = 1 .. Len(s)
  BY <1>4
<1>6. DOMAIN g = 1 .. Len(s) /\ \A i \in 1 .. Len(s) : g[i] = added[s[i]].what
  BY <1>5
<1> HIDE DEF g
<1>7. \A x : x \in ToSet(g) <=> \E i \in 1 .. Len(s) : x = g[i]
  BY <1>6 DEF ToSet
<1>8. ASSUME NEW x \in ToSet(g)
      PROVE  \E k \in DOMAIN added : added[k].to = o /\ added[k].list = l /\ added[k].what = x
  <2>1. PICK i \in 1 .. Len(s) : x = g[i]
    BY <1>7, <1>8
  <2>2. s[i] \in S /\ g[i] = added[s[i]].what
    BY <1>4, <1>6
  <2> QED BY <1>2, <2>1, <2>2
<1>9. ASSUME NEW k \in DOMAIN added, added[k].to = o, added[k].list = l
      PROVE  added[k].what \in ToSet(g)
  <2>1. k \in S /\ k \in 1 .. n
    BY <1>1, <1>2, <1>9
  <2>2. PICK i \in 1 .. Len(s) : s[i] = k
    BY <1>4, <2>1
  <2> QED BY <1>6, <1>7, <2>2
<1> QED BY <1>3, <1>8, <1>9

(* What is written for a list is in it once it is given.                     *)
LEMMA WrittenMembers ==
  ASSUME Shape, NEW o, NEW l
  PROVE  /\ Written(o, l) \in Seq(Nat)
         /\ \A i \in 1 .. Len(Written(o, l)) : Written(o, l)[i] \in WrittenIn(o, l)
         /\ \A p \in WrittenIn(o, l) : \E i \in 1 .. Len(Written(o, l)) : Written(o, l)[i] = p
<1>1. Len(file) \in Nat /\ DOMAIN file = 1 .. Len(file)
  BY DEF Shape
<1>2. \A p \in WrittenIn(o, l) : p \in 1 .. Len(file)
  BY <1>1 DEF WrittenIn
<1>3. Written(o, l) = InOrder(WrittenIn(o, l), Len(file))
  BY DEF Written
<1> QED BY <1>1, <1>2, <1>3, InOrderHolds

(* Who is given is written there, and is known.                             *)
LEMMA GivenUnder ==
  ASSUME Ground, TypedInv, NEW o, NEW l \in {"state", "transition", "contents"},
         NEW x \in ToSet(Given(o, l)), x # 0
  PROVE  x \in DOMAIN file /\ file[x].kind = l /\ file[x].under = o /\ Whole[x]
<1>1. PICK k \in DOMAIN added : added[k].to = o /\ added[k].list = l /\ added[k].what = x
  BY GivenMembers DEF Ground, ReadInv, IInv
<1>2. x \in DOMAIN file /\ x > 0
  BY <1>1 DEF Ground, GivenInv, ReadInv, IInv, Shape
<1>3. Whole[x]
  BY <1>1, <1>2 DEF Ground, KnownInv
<1>4. TypedAt(added[k]) /\ OfItsOwner(added[k])
  BY DEF TypedInv, Ground, GivenInv, HandedToOwner
<1>5. l = ListOf(file[x].kind)
  BY <1>1, <1>2, <1>4 DEF TypedAt
<1>6. file[x].kind = l
  BY <1>5 DEF ListOf
<1>7. file[x].under = o
  BY <1>1, <1>2, <1>3, <1>4, <1>5 DEF OfItsOwner
<1> QED BY <1>2, <1>3, <1>6, <1>7

LEMMA GivenLeft ==
  ASSUME Ground, TypedInv, NEW o, NEW l \in {"nested", "image"}, NEW x \in ToSet(Given(o, l))
  PROVE  x \in DOMAIN file /\ file[x].kind = l
<1>1. PICK k \in DOMAIN added : added[k].to = o /\ added[k].list = l /\ added[k].what = x
  BY GivenMembers DEF Ground, ReadInv, IInv
<1>2. TypedAt(added[k])
  BY DEF TypedInv
<1>3. x # 0
  BY <1>1, <1>2 DEF TypedAt, ByIndex
<1>4. x \in DOMAIN file
  BY <1>1, <1>3 DEF Ground, GivenInv, ReadInv, IInv, Shape
<1>5. file[x].kind = l
  BY <1>1, <1>2, <1>3 DEF TypedAt, ListOf
<1> QED BY <1>4, <1>5

(* The lists that are referred to by index but keep no place: all is known. *)
Plain == {"animation", "artboard", "asset", "contents"}

LEMMA PlainOwed ==
  ASSUME Ground, Fits, NEW o, NEW l \in Plain
  PROVE  /\ Owed(o, l) = Written(o, l)
         /\ \A p \in WrittenIn(o, l) : file[p].known
<1>1. l \notin ByIndex /\ l \notin {"bind", "condition", "backboard"} /\ l \notin family.unknown
  BY DEF Plain, ByIndex, Fits, ReferencesFit
<1>2. ASSUME NEW p \in WrittenIn(o, l) PROVE p \in Kept /\ file[p].known
  <2>1. p \in DOMAIN file /\ ListOf(file[p].kind) = l
    BY DEF WrittenIn
  <2>2. file[p].kind = l
    BY <2>1, <1>1 DEF ListOf, ByIndex
  <2>3. file[p].known
    BY <1>1, <2>1, <2>2 DEF Ground, OwnersInv
  <2>4. Whole[p]
    BY <2>1, <2>3 DEF Ground, KnownInv
  <2>5. IsKept(p)
    BY <1>1, <2>1, <2>2, <2>4 DEF IsKept
  <2> QED BY <2>3, <2>5, KeptIs
<1>3. Len(file) \in Nat
  BY DEF Ground, ReadInv, IInv, Shape
<1>4. \A k \in 1 .. Len(file) : k \in WrittenIn(o, l) \cap Kept <=> k \in WrittenIn(o, l)
  BY <1>2
<1>5. InOrder(WrittenIn(o, l) \cap Kept, Len(file)) = InOrder(WrittenIn(o, l), Len(file))
  BY <1>3, <1>4, InOrderSame
<1>6. Owed(o, l) = InOrder(WrittenIn(o, l) \cap Kept, Len(file))
  BY <1>1 DEF Owed, Counted, ByIndex
<1> QED BY <1>2, <1>5, <1>6 DEF Written

(* An index into a list finds what the exporter meant.                      *)
LEMMA NthGiven ==
  ASSUME Ground, Fits, NEW o \in DOMAIN file, Whole[o], NEW l \in {"state", "animation", "artboard", "asset"},
         Owns(file[o].kind, l), NEW i \in Nat, i < Len(Written(o, l))
  PROVE  i < Len(Given(o, l)) /\ Given(o, l)[i + 1] = Nth(Written(o, l), i)
<1>1. Shape /\ Given(o, l) \in Seq(Nat)
  BY TakenIs, TakenIsSeq, RecordsAre DEF Ground, ReadInv, IInv
<1>2. Written(o, l) \in Seq(Nat) /\ \A k \in 1 .. Len(Written(o, l)) : Written(o, l)[k] \in WrittenIn(o, l)
  BY <1>1, WrittenMembers
<1>3. l \in Lists
  BY KindsAre, ListsAre
<1>4. Holds(Given(o, l), Owed(o, l), Growing(o, l))
  BY <1>3 DEF Ground, ListsInv
<1>5. i + 1 \in 1 .. Len(Written(o, l))
  BY <1>2
<1>6. Len(Owed(o, l)) = Len(Written(o, l)) /\ Owed(o, l)[i + 1] = Mark(Written(o, l)[i + 1])
  <2>1. CASE l = "state"
    <3>1. l \in ByIndex
      BY <2>1 DEF ByIndex
    <3> QED BY <1>2, <1>5, <3>1, OwedLen
  <2>2. CASE l # "state"
    <3>1. Owed(o, l) = Written(o, l) /\ \A p \in WrittenIn(o, l) : file[p].known
      BY <2>2, PlainOwed DEF Plain
    <3> QED BY <1>2, <1>5, <3>1 DEF Mark
  <2> QED BY <2>1, <2>2
<1>7. Nth(Written(o, l), i) = Mark(Written(o, l)[i + 1])
  BY DEF Nth, Mark
<1> DEFINE g == Given(o, l)
           w == Owed(o, l)
           m == Len(Written(o, l))
<1>8. g \in Seq(Nat) /\ Len(w) <= Len(g) /\ (\A k \in 1 .. Len(w) : g[k] = w[k]) /\ Len(w) = m /\ i < m
      /\ i + 1 \in 1 .. m /\ m \in Nat
  BY <1>1, <1>2, <1>4, <1>5, <1>6 DEF Holds
<1>9. w[i + 1] = Nth(Written(o, l), i)
  BY <1>6, <1>7
<1> HIDE DEF g, w, m
<1>10. i < Len(g) /\ g[i + 1] = w[i + 1]
  BY <1>8
<1> QED BY <1>9, <1>10 DEF g
-----------------------------------------------------------------------------
(* What an object refers to: what Linked says, and for the importers that   *)
(* remember it the artboard of a layer and the animation of a property.     *)
Refers(p) == CASE file[p].kind = "layer" -> Within(p, "artboard")
               [] file[p].kind = "keyedProperty" -> Within(p, "animation")
               [] OTHER -> Meant(p)
(* The importer that binds it; 0, its own import.                           *)
Resolver(p) == CASE file[p].kind \in {"transition", "state"} -> Within(p, "layer")
                 [] file[p].kind \in {"nested", "image"} -> 1
                 [] file[p].kind = "asset" -> p
                 [] OTHER -> 0
Linking(p) ==
   \/ file[p].kind \in {"layer", "keyedProperty", "keyFrame", "blend", "bind", "transition",
                        "nested", "image", "asset"}
   \/ file[p].kind = "state" /\ file[p].ref # None
Settled(p) == Resolver(p) = 0 \/ Resolver(p) \in ToSet(done)
Right(p) == Refers(p) = None \/ (p \in DOMAIN bound /\ bound[p] = Refers(p))
BoundInv == \A p \in Objects : Linking(p) /\ Settled(p) => Right(p)

(* The cases of the definitions, one by one.                                 *)
LEMMA RefersIs ==
  ASSUME NEW p
  PROVE  /\ file[p].kind = "layer" => Refers(p) = Within(p, "artboard")
         /\ file[p].kind = "keyedProperty" => Refers(p) = Within(p, "animation")
         /\ file[p].kind = "transition" => Refers(p) = Nth(Written(Within(p, "layer"), "state"), file[p].ref)
         /\ file[p].kind \in {"state", "blend"} =>
              Refers(p) = Nth(Written(Within(p, "artboard"), "animation"), file[p].ref)
         /\ file[p].kind = "nested" => Refers(p) = Nth(Written(1, "artboard"), file[p].ref)
         /\ file[p].kind = "image" => Refers(p) = Nth(Written(1, "asset"), file[p].ref)
         /\ file[p].kind = "keyFrame" => Refers(p) = Within(p, "animation")
         /\ file[p].kind = "bind" => Refers(p) = file[p].under
         /\ file[p].kind = "asset" => Refers(p) = IF Written(p, "contents") = <<>> THEN None
                                                  ELSE Written(p, "contents")[1]
BY DEF Refers, Meant

LEMMA ResolverIs ==
  ASSUME NEW p
  PROVE  /\ file[p].kind \in {"transition", "state"} => Resolver(p) = Within(p, "layer")
         /\ file[p].kind \in {"nested", "image"} => Resolver(p) = 1
         /\ file[p].kind = "asset" => Resolver(p) = p
         /\ file[p].kind \notin {"transition", "state", "nested", "image", "asset"} => Resolver(p) = 0
BY DEF Resolver

LEMMA BindsIs ==
  ASSUME NEW i
  PROVE  /\ file[i].kind = "layer" => Binds(i) = ResolveLayer(i)
         /\ file[i].kind = "backboard" => Binds(i) = ResolveBackboard(i)
         /\ file[i].kind = "asset" => Binds(i) = ResolveAsset(i)
         /\ file[i].kind \notin {"layer", "backboard", "asset"} => Binds(i) = <<>>
BY DEF Binds

Plays(i, s) == s \in ToSet(Given(i, "state")) /\ s # 0 /\ file[s].ref # None
(* What a layer binds: its transitions and the states that play.             *)
LEMMA LayerBinds ==
  ASSUME NEW i
  PROVE  /\ \A x : x \in DOMAIN ResolveLayer(i) <=> x \in TransitionsOf(i) \/ Plays(i, x)
         /\ \A t \in TransitionsOf(i) : ResolveLayer(i)[t] = RefersTo(t, i, "state")
         /\ \A s : Plays(i, s) /\ s \notin TransitionsOf(i) =>
              ResolveLayer(i)[s] = RefersTo(s, bound[i], "animation")
<1> DEFINE f == [t \in TransitionsOf(i) |-> RefersTo(t, i, "state")]
           g == [s \in {p \in ToSet(Given(i, "state")) \ {0} : file[p].ref # None} |->
                   RefersTo(s, bound[i], "animation")]
<1>1. ResolveLayer(i) = Overlay(f, g)
  BY DEF ResolveLayer
<1>2. DOMAIN f = TransitionsOf(i) /\ \A t \in TransitionsOf(i) : f[t] = RefersTo(t, i, "state")
  OBVIOUS
<1>3. (\A s : s \in DOMAIN g <=> Plays(i, s)) /\ \A s : Plays(i, s) => g[s] = RefersTo(s, bound[i], "animation")
  BY DEF Plays
<1> HIDE DEF f, g
<1> QED BY <1>1, <1>2, <1>3, Overlaid

(* What the backboard binds: nested artboards and images.                    *)
LEMMA BackboardBinds ==
  ASSUME NEW i
  PROVE  /\ \A x : x \in DOMAIN ResolveBackboard(i) <=>
                     x \in ToSet(Given(i, "nested")) \/ x \in ToSet(Given(i, "image"))
         /\ \A n \in ToSet(Given(i, "nested")) : ResolveBackboard(i)[n] = RefersTo(n, i, "artboard")
         /\ \A r \in ToSet(Given(i, "image")) : r \notin ToSet(Given(i, "nested")) =>
              ResolveBackboard(i)[r] = RefersTo(r, i, "asset")
<1> DEFINE f == [n \in ToSet(Given(i, "nested")) |-> RefersTo(n, i, "artboard")]
           g == [r \in ToSet(Given(i, "image")) |-> RefersTo(r, i, "asset")]
<1>1. ResolveBackboard(i) = Overlay(f, g)
  BY DEF ResolveBackboard
<1>2. DOMAIN f = ToSet(Given(i, "nested")) /\ \A n \in ToSet(Given(i, "nested")) : f[n] = RefersTo(n, i, "artboard")
  OBVIOUS
<1>3. DOMAIN g = ToSet(Given(i, "image")) /\ \A n \in ToSet(Given(i, "image")) : g[n] = RefersTo(n, i, "asset")
  OBVIOUS
<1> HIDE DEF f, g
<1> QED BY <1>1, <1>2, <1>3, Overlaid

(* A transition of a layer, a state of it. *)
LEMMA OfLayer ==
  ASSUME Ground, TypedInv, NEW i \in DOMAIN file, file[i].kind = "layer"
  PROVE  /\ \A t \in TransitionsOf(i) : t \in DOMAIN file /\ file[t].kind = "transition" /\ Within(t, "layer") = i
         /\ \A s : Plays(i, s) => s \in DOMAIN file /\ file[s].kind = "state" /\ Within(s, "layer") = i
<1>1. ReadInv /\ DOMAIN file = 1 .. Len(file)
  BY DEF Ground, ReadInv, IInv, Shape
<1>2. Within(i, "layer") = i /\ i # None
  BY <1>1, WithinUp, FileImportAssumption
<1>3. ASSUME NEW s \in ToSet(Given(i, "state")), s # 0
      PROVE  s \in DOMAIN file /\ file[s].kind = "state" /\ Within(s, "layer") = i
  <2>1. s \in DOMAIN file /\ file[s].kind = "state" /\ file[s].under = i
    BY <1>3, GivenUnder
  <2>2. Within(s, "layer") = Within(file[s].under, "layer")
    BY <1>1, <1>2, <2>1, WithinUp
  <2> QED BY <1>2, <2>1, <2>2
<1>4. ASSUME NEW t \in TransitionsOf(i)
      PROVE  t \in DOMAIN file /\ file[t].kind = "transition" /\ Within(t, "layer") = i
  <2>1. PICK s \in ToSet(Given(i, "state")) : s > 0 /\ t \in ToSet(Given(s, "transition")) /\ t \in DOMAIN file
    BY <1>4 DEF TransitionsOf
  <2>2. s # 0
    BY <2>1
  <2>3. t # 0
    BY <1>1, <2>1
  <2>4. file[t].kind = "transition" /\ file[t].under = s
    BY <2>1, <2>3, GivenUnder
  <2>5. s \in DOMAIN file /\ file[s].kind = "state" /\ Within(s, "layer") = i
    BY <1>3, <2>2
  <2>6. s # None
    BY <1>1, <2>5, FileImportAssumption
  <2>7. Within(t, "layer") = Within(file[t].under, "layer")
    BY <1>1, <2>1, <2>4, <2>6, WithinUp
  <2> QED BY <2>1, <2>4, <2>5, <2>7
<1> QED BY <1>3, <1>4 DEF Plays

(* An importer binds only what is its to bind.                              *)
LEMMA BindsOwn ==
  ASSUME Ground, TypedInv, NEW i \in DOMAIN file, NEW p \in DOMAIN Binds(i)
  PROVE  p \in DOMAIN file /\ Resolver(p) = i
<1>1. CASE file[i].kind = "layer"
  <2>1. p \in TransitionsOf(i) \/ Plays(i, p)
    BY <1>1, BindsIs, LayerBinds
  <2>2. /\ p \in TransitionsOf(i) => p \in DOMAIN file /\ file[p].kind = "transition" /\ Within(p, "layer") = i
        /\ Plays(i, p) => p \in DOMAIN file /\ file[p].kind = "state" /\ Within(p, "layer") = i
    BY <1>1, OfLayer
  <2> QED BY <2>1, <2>2, ResolverIs
<1>2. CASE file[i].kind = "backboard"
  <2>1. i = 1
    BY <1>2, KindsAre DEF Ground, OwnersInv
  <2>2. p \in ToSet(Given(i, "nested")) \/ p \in ToSet(Given(i, "image"))
    BY <1>2, BindsIs, BackboardBinds
  <2>3. p \in DOMAIN file /\ file[p].kind \in {"nested", "image"}
    BY <2>2, GivenLeft
  <2> QED BY <2>1, <2>3, ResolverIs
<1>3. CASE file[i].kind = "asset"
  <2>1. p = i
    BY <1>3, BindsIs, SingleIs DEF ResolveAsset
  <2> QED BY <1>3, <2>1, ResolverIs
<1>4. CASE file[i].kind \notin {"layer", "backboard", "asset"}
  <2>1. DOMAIN Binds(i) = {}
    <3>1. Binds(i) = <<>>
      BY <1>4, BindsIs
    <3> QED BY <3>1
  <2> QED BY <2>1
<1> QED BY <1>1, <1>2, <1>3, <1>4
-----------------------------------------------------------------------------
(* The owner of an object that is kept. *)
LEMMA OwnerIs ==
  ASSUME Ground, NEW p \in Objects
  PROVE  /\ p \in DOMAIN file /\ file[p].known /\ file[p].kind \in Kinds
         /\ file[p].under \in DOMAIN file /\ Whole[file[p].under]
         /\ file[file[p].under].kind \in Owners[file[p].kind]
         /\ file[file[p].under].kind # "backboard" => file[p].under \in Objects
         /\ file[file[p].under].kind = "backboard" => file[p].under = 1
         /\ \A k : Within(p, k) = IF file[p].kind = k THEN p ELSE Within(file[p].under, k)
<1> DEFINE o == file[p].under
<1>1. ReadInv /\ Shape /\ Treelike(file) /\ DOMAIN file = 1 .. Len(file) /\ Len(file) \in Nat
  BY DEF Ground, ReadInv, TreeInv, IInv, Shape
<1>2. p \in DOMAIN file /\ Whole[p] /\ file[p].kind # "backboard"
  BY DEF Objects
<1>3. o \in 1 .. p - 1 /\ file[p].kind \in Kinds /\ file[o].kind \in Owners[file[p].kind]
  BY <1>2 DEF Ground, OwnersInv
<1>4. o \in DOMAIN file /\ o # None
  <2>1. o \in 1 .. Len(file)
    BY <1>1, <1>2, <1>3
  <2> QED BY <1>1, <2>1, FileImportAssumption
<1>5. Whole[o] /\ file[p].known
  BY <1>1, <1>2, <1>4, WholeIs
<1>6. file[o].kind = "backboard" => o = 1
  BY <1>4, KindsAre DEF Ground, OwnersInv
<1>7. \A k : Within(p, k) = IF file[p].kind = k THEN p ELSE Within(o, k)
  BY <1>1, <1>2, <1>4, WithinUp
<1> HIDE DEF o
<1>8. file[o].kind # "backboard" => o \in Objects
  BY <1>4, <1>5 DEF Objects
<1> QED BY <1>2, <1>3, <1>4, <1>5, <1>6, <1>7, <1>8 DEF o

(* It is in the list of its owner.                                           *)
LEMMA IsGiven ==
  ASSUME Ground, NEW p \in Objects, file[p].kind \notin {"bind", "condition"}
  PROVE  p \in ToSet(Given(file[p].under, ListOf(file[p].kind)))
<1>1. p \in Kept
  BY DEF Kept
<1>2. Listed(p)
  BY <1>1, ListsList DEF Ground
<1> QED BY <1>2 DEF Listed, ToSet

(* The artboard of a layer.                                                  *)
LEMMA ArtboardOf ==
  ASSUME Ground, NEW i \in Objects, file[i].kind = "layer"
  PROVE  /\ Within(i, "artboard") \in DOMAIN file /\ Whole[Within(i, "artboard")]
         /\ file[Within(i, "artboard")].kind = "artboard"
<1> DEFINE m == file[i].under
           a == file[m].under
<1>1. /\ m \in DOMAIN file /\ file[m].kind \in Owners["layer"]
      /\ (file[m].kind # "backboard" => m \in Objects) /\ Within(i, "artboard") = Within(m, "artboard")
  BY OwnerIs
<1>2. file[m].kind = "machine" /\ m \in Objects
  BY <1>1, OwnersAre
<1> HIDE DEF m
<1>3. /\ a \in DOMAIN file /\ file[a].kind \in Owners["machine"] /\ Whole[a]
      /\ (file[a].kind # "backboard" => a \in Objects) /\ Within(m, "artboard") = Within(a, "artboard")
  BY <1>2, OwnerIs
<1>4. file[a].kind = "artboard" /\ a \in Objects
  BY <1>3, OwnersAre
<1> HIDE DEF a
<1>5. Within(a, "artboard") = a
  BY <1>4, OwnerIs
<1> QED BY <1>1, <1>3, <1>4, <1>5

LEMMA OwnsAre ==
  /\ Owns("layer", "state") /\ Owns("artboard", "animation")
  /\ Owns("backboard", "artboard") /\ Owns("backboard", "asset")
<1>1. /\ {"state", "animation", "artboard", "asset"} \subseteq Kinds \ {"bind"}
      /\ \A l \in {"state", "animation", "artboard", "asset"} : ListOf(l) = l
  BY KindsAre, ListsAre
<1> QED BY <1>1, OwnersAre DEF Owns

(* What a list is asked for is what was meant, if it was written.           *)
LEMMA FindsMeant ==
  ASSUME Ground, Fits, NEW p, file[p].ref \in Nat, NEW o \in DOMAIN file, Whole[o],
         NEW l \in {"state", "animation", "artboard", "asset"}, Owns(file[o].kind, l)
  PROVE  \/ Nth(Written(o, l), file[p].ref) = None
         \/ RefersTo(p, o, l) = Nth(Written(o, l), file[p].ref)
<1>1. CASE file[p].ref < Len(Written(o, l))
  BY <1>1, NthGiven DEF RefersTo
<1>2. CASE ~(file[p].ref < Len(Written(o, l)))
  BY <1>2 DEF Nth
<1> QED BY <1>1, <1>2

LinksWell(i, p) == p \in DOMAIN Binds(i) /\ (Refers(p) = None \/ Binds(i)[p] = Refers(p))

(* What the importers bind is what is meant: transitions of a layer to its states,*)
LEMMA TransitionRight ==
  ASSUME Ground, Fits, TypedInv, RefsInv, NEW p \in Objects, file[p].kind = "transition"
  PROVE  LinksWell(Resolver(p), p)
<1> DEFINE s == file[p].under
           i == file[s].under
<1>1. /\ s \in DOMAIN file /\ file[s].kind \in Owners["transition"] /\ p \in DOMAIN file /\ file[p].known
      /\ (file[s].kind # "backboard" => s \in Objects) /\ Within(p, "layer") = Within(s, "layer")
  BY OwnerIs
<1>2. file[s].kind = "state" /\ s \in Objects
  BY <1>1, OwnersAre
<1>a. p \in ToSet(Given(s, "transition"))
  <2>1. ListOf("transition") = "transition"
    BY DEF ListOf
  <2> QED BY <2>1, IsGiven
<1> HIDE DEF s
<1>3. /\ i \in DOMAIN file /\ file[i].kind \in Owners["state"] /\ Whole[i]
      /\ (file[i].kind # "backboard" => i \in Objects) /\ Within(s, "layer") = Within(i, "layer")
  BY <1>2, OwnerIs
<1>4. file[i].kind = "layer" /\ i \in Objects
  BY <1>3, OwnersAre
<1>b. s \in ToSet(Given(i, "state"))
  <2>1. ListOf("state") = "state"
    BY DEF ListOf
  <2> QED BY <1>2, <2>1, IsGiven
<1> HIDE DEF i
<1>5. Within(i, "layer") = i
  BY <1>4, OwnerIs
<1>6. Resolver(p) = i /\ Refers(p) = Nth(Written(i, "state"), file[p].ref)
  BY <1>1, <1>3, <1>5, ResolverIs, RefersIs
<1>7. s > 0
  BY <1>1 DEF Ground, ReadInv, IInv, Shape
<1>8. p \in TransitionsOf(i)
  BY <1>1, <1>a, <1>b, <1>7 DEF TransitionsOf
<1>9. p \in DOMAIN Binds(i) /\ Binds(i)[p] = RefersTo(p, i, "state")
  BY <1>4, <1>8, BindsIs, LayerBinds
<1>10. file[p].ref \in Nat
  BY <1>1 DEF RefsInv, RefersWell
<1>11. Refers(p) = None \/ RefersTo(p, i, "state") = Refers(p)
  BY <1>3, <1>4, <1>6, <1>10, FindsMeant, OwnsAre
<1> QED BY <1>6, <1>9, <1>11 DEF LinksWell

(* states to the animations of the artboard their layer remembers,           *)
LEMMA StateRight ==
  ASSUME Ground, Fits, TypedInv, RefsInv, BoundInv, NEW p \in Objects, file[p].kind = "state", file[p].ref # None
  PROVE  LinksWell(Resolver(p), p)
<1> DEFINE i == file[p].under
           a == Within(i, "artboard")
<1>1. /\ i \in DOMAIN file /\ file[i].kind \in Owners["state"] /\ p \in DOMAIN file /\ file[p].known
      /\ (file[i].kind # "backboard" => i \in Objects) /\ Within(p, "layer") = Within(i, "layer")
      /\ Within(p, "artboard") = Within(i, "artboard")
  BY OwnerIs
<1>2. file[i].kind = "layer" /\ i \in Objects
  BY <1>1, OwnersAre
<1>3. p \in ToSet(Given(i, "state"))
  <2>1. ListOf("state") = "state"
    BY DEF ListOf
  <2> QED BY <2>1, IsGiven
<1> HIDE DEF i
<1>4. Within(i, "layer") = i
  BY <1>2, OwnerIs
<1>5. a \in DOMAIN file /\ Whole[a] /\ file[a].kind = "artboard" /\ a # None
  <2>1. a \in DOMAIN file /\ Whole[a] /\ file[a].kind = "artboard"
    BY <1>2, ArtboardOf
  <2>2. a \in Nat
    BY <2>1 DEF Ground, ReadInv, IInv, Shape
  <2> QED BY <2>1, <2>2, FileImportAssumption
<1>6. bound[i] = a
  <2>1. Linking(i) /\ Settled(i) /\ Refers(i) = a
    BY <1>2, ResolverIs, RefersIs DEF Linking, Settled
  <2>2. Right(i)
    BY <1>2, <2>1 DEF BoundInv
  <2> QED BY <1>5, <2>1, <2>2 DEF Right
<1> HIDE DEF a
<1>7. Resolver(p) = i /\ Refers(p) = Nth(Written(a, "animation"), file[p].ref)
  BY <1>1, <1>4, ResolverIs, RefersIs DEF a
<1>8. p # 0
  BY <1>1 DEF Ground, ReadInv, IInv, Shape
<1>9. Plays(i, p)
  BY <1>3, <1>8 DEF Plays
<1>10. p \notin TransitionsOf(i)
  BY <1>1, <1>2, OfLayer
<1>11. p \in DOMAIN Binds(i) /\ Binds(i)[p] = RefersTo(p, a, "animation")
  BY <1>2, <1>6, <1>9, <1>10, BindsIs, LayerBinds
<1>12. file[p].ref \in Nat
  BY <1>1 DEF RefsInv, RefersWell, HasIn
<1>13. Refers(p) = None \/ RefersTo(p, a, "animation") = Refers(p)
  BY <1>5, <1>7, <1>12, FindsMeant, OwnsAre
<1> QED BY <1>7, <1>11, <1>13 DEF LinksWell

(* nested artboards and images to those of the file,                         *)
LEMMA LeftRight ==
  ASSUME Ground, Fits, TypedInv, LeftInv, RefsInv, NEW p \in Objects, file[p].kind \in {"nested", "image"}
  PROVE  LinksWell(Resolver(p), p)
<1> DEFINE a == file[p].under
<1>1. /\ a \in DOMAIN file /\ file[a].kind \in Owners[file[p].kind] /\ p \in DOMAIN file /\ file[p].known
      /\ (file[a].kind # "backboard" => a \in Objects)
  BY OwnerIs
<1>2. file[a].kind = "artboard" /\ a \in Objects
  BY <1>1, OwnersAre
<1> HIDE DEF a
<1>3. 1 \in DOMAIN file /\ Whole[1] /\ file[1].kind = "backboard"
  <2> DEFINE b == file[a].under
  <2>1. /\ b \in DOMAIN file /\ file[b].kind \in Owners["artboard"] /\ Whole[b]
        /\ (file[b].kind = "backboard" => b = 1)
    BY <1>2, OwnerIs
  <2> QED BY <2>1, OwnersAre
<1>4. Resolver(p) = 1
  BY ResolverIs
<1>5. p \in ToSet(Given(1, file[p].kind))
  <2>1. PICK k \in DOMAIN added : added[k] = LeftAs(p)
    BY DEF LeftInv, LeftWord
  <2>2. added[k].to = 1 /\ added[k].list = file[p].kind /\ added[k].what = p
    BY <2>1 DEF LeftAs
  <2> QED BY <2>2, GivenMembers DEF Ground, ReadInv, IInv
<1>6. file[p].ref \in Nat
  BY <1>1 DEF RefsInv, RefersWell
<1>7. CASE file[p].kind = "nested"
  <2>1. p \in DOMAIN Binds(1) /\ Binds(1)[p] = RefersTo(p, 1, "artboard")
    BY <1>3, <1>5, <1>7, BindsIs, BackboardBinds
  <2>2. Refers(p) = Nth(Written(1, "artboard"), file[p].ref)
    BY <1>7, RefersIs
  <2>3. Refers(p) = None \/ RefersTo(p, 1, "artboard") = Refers(p)
    BY <1>3, <1>6, <2>2, FindsMeant, OwnsAre
  <2> QED BY <1>4, <2>1, <2>3 DEF LinksWell
<1>8. CASE file[p].kind = "image"
  <2>1. p \notin ToSet(Given(1, "nested"))
    BY <1>8, GivenLeft
  <2>2. p \in DOMAIN Binds(1) /\ Binds(1)[p] = RefersTo(p, 1, "asset")
    BY <1>3, <1>5, <1>8, <2>1, BindsIs, BackboardBinds
  <2>3. Refers(p) = Nth(Written(1, "asset"), file[p].ref)
    BY <1>8, RefersIs
  <2>4. Refers(p) = None \/ RefersTo(p, 1, "asset") = Refers(p)
    BY <1>3, <1>6, <2>3, FindsMeant, OwnsAre
  <2> QED BY <1>4, <2>2, <2>4 DEF LinksWell
<1> QED BY <1>7, <1>8

(* assets to their contents.                                                 *)
LEMMA AssetRight ==
  ASSUME Ground, Fits, TypedInv, ContentsInv, NEW p \in Objects, file[p].kind = "asset"
  PROVE  LinksWell(Resolver(p), p)
<1> DEFINE w == Written(p, "contents")
           g == Given(p, "contents")
<1>1. p \in DOMAIN file /\ Whole[p] /\ Shape
  BY DEF Objects, Ground, ReadInv, IInv
<1>2. Resolver(p) = p /\ Refers(p) = IF w = <<>> THEN None ELSE w[1]
  BY ResolverIs, RefersIs
<1>3. p \in DOMAIN Binds(p) /\ Binds(p)[p] = IF g = <<>> THEN None ELSE Last(g)
  BY BindsIs, SingleIs DEF ResolveAsset
<1>4. /\ w \in Seq(Nat) /\ Len(w) <= 1 /\ (\A k \in 1 .. Len(w) : w[k] \in WrittenIn(p, "contents"))
      /\ \A x \in WrittenIn(p, "contents") : \E k \in 1 .. Len(w) : w[k] = x
  BY <1>1, WrittenMembers DEF ContentsInv
<1>5. g \in Seq(Nat)
  BY <1>1, TakenIs, TakenIsSeq, RecordsAre DEF Ground
<1>6. Owed(p, "contents") = w
  BY PlainOwed DEF Plain
<1>7. Holds(g, w, Growing(p, "contents"))
  <2>1. "contents" \in Lists /\ Owns("asset", "contents")
    <3>1. "contents" \in Kinds \ {"bind"} /\ ListOf("contents") = "contents"
      BY KindsAre, ListsAre
    <3> QED BY <3>1, OwnersAre DEF Lists, Owns
  <2> QED BY <1>1, <1>6, <2>1 DEF Ground, ListsInv
<1>8. \A x \in ToSet(g) : x # 0 => x \in WrittenIn(p, "contents")
  <2> SUFFICES ASSUME NEW x \in ToSet(g), x # 0 PROVE x \in WrittenIn(p, "contents")
    OBVIOUS
  <2>1. x \in DOMAIN file /\ file[x].kind = "contents" /\ file[x].under = p
    BY GivenUnder
  <2>2. ListOf("contents") = "contents"
    BY DEF ListOf
  <2> QED BY <2>1, <2>2 DEF WrittenIn
<1>9. \A x \in ToSet(g) : x # 0
  <2> SUFFICES ASSUME NEW x \in ToSet(g), x = 0 PROVE FALSE
    OBVIOUS
  <2>1. PICK k \in DOMAIN added : added[k].list = "contents" /\ added[k].what = 0
    BY <1>1, GivenMembers
  <2> QED BY <2>1 DEF TypedInv, TypedAt, ByIndex
<1>10. \A k \in 1 .. Len(g) : g[k] \in WrittenIn(p, "contents")
  <2>1. \A k \in 1 .. Len(g) : g[k] \in ToSet(g)
    BY <1>5 DEF ToSet
  <2> QED BY <1>8, <1>9, <2>1
<1> HIDE DEF w, g
<1>11. CASE w = <<>>
  BY <1>2, <1>3, <1>11 DEF LinksWell
<1>12. CASE w # <<>>
  <2>1. Len(w) = 1
    <3>1. w \in Seq(Nat) /\ Len(w) <= 1
      BY <1>4
    <3>2. Len(w) \in Nat /\ Len(w) # 0
      BY <1>12, <3>1, EmptySeq
    <3>3. \A m \in Nat : m <= 1 /\ m # 0 => m = 1
      OBVIOUS
    <3> QED BY <3>1, <3>2, <3>3, Zenon
  <2>2. Len(g) >= 1 /\ Len(g) \in 1 .. Len(g) /\ g # <<>>
    BY <1>5, <1>7, <2>1 DEF Holds
  <2>3. \A x \in WrittenIn(p, "contents") : x = w[1]
    BY <1>4, <2>1
  <2>4. g[Len(g)] = w[1]
    BY <1>10, <2>2, <2>3
  <2>5. Last(g) = g[Len(g)]
    BY DEF Last
  <2> QED BY <1>2, <1>3, <1>12, <2>2, <2>4, <2>5 DEF LinksWell
<1> QED BY <1>11, <1>12

(* The importer that binds a reference binds it to what was meant.          *)
LEMMA BindsRight ==
  ASSUME Ground, Fits, TypedInv, LeftInv, RefsInv, ContentsInv, BoundInv,
         NEW p \in Objects, Linking(p), Resolver(p) # 0
  PROVE  LinksWell(Resolver(p), p)
<1>1. file[p].kind \in {"transition", "state", "nested", "image", "asset"}
  BY ResolverIs
<1>2. file[p].kind = "state" => file[p].ref # None
  BY DEF Linking
<1> QED BY <1>1, <1>2, TransitionRight, StateRight, LeftRight, AssetRight
-----------------------------------------------------------------------------
(* The cases of the definitions, after a step.                               *)
LEMMA RefersNext ==
  ASSUME NEW p, NEW a, NEW b, NEW c, NEW r,
         a = Within(p, "artboard")', b = Within(p, "layer")', c = Within(p, "animation")', r = file'[p].ref
  PROVE  /\ file'[p].kind = "layer" => Refers(p)' = a
         /\ file'[p].kind = "keyedProperty" => Refers(p)' = c
         /\ file'[p].kind = "transition" => Refers(p)' = Nth(Written(b, "state"), r)'
         /\ file'[p].kind \in {"state", "blend"} => Refers(p)' = Nth(Written(a, "animation"), r)'
         /\ file'[p].kind = "keyFrame" => Refers(p)' = c
         /\ file'[p].kind = "bind" => Refers(p)' = file'[p].under
         /\ file'[p].kind = "asset" => Refers(p)' = IF Written(p, "contents")' = <<>> THEN None
                                                    ELSE Written(p, "contents")'[1]
BY DEF Refers, Meant

LEMMA ResolverNext ==
  ASSUME NEW p
  PROVE  /\ file'[p].kind \in {"transition", "state"} => Resolver(p)' = Within(p, "layer")'
         /\ file'[p].kind \in {"nested", "image"} => Resolver(p)' = 1
         /\ file'[p].kind = "asset" => Resolver(p)' = p
         /\ file'[p].kind \notin {"transition", "state", "nested", "image", "asset"} => Resolver(p)' = 0
BY DEF Resolver

(* An index that was in reach of a list finds what it did.                  *)
LEMMA NthStays ==
  ASSUME ReadInv, IInv', NEW kind \in Kinds, NEW known \in BOOLEAN, NEW d \in Places(kind), NEW ref,
         Writes(kind, known, d, ref), NEW l, NEW o, NEW i \in Nat,
         i < Len(Written(o, l)) \/ Written(o, l)' = Written(o, l)
  PROVE  Nth(Written(o, l), i)' = Nth(Written(o, l), i)
<1> DEFINE w == Written(o, l)
           v == Written(o, l)'
<1>1. /\ Len(w) \in Nat /\ Len(v) \in Nat /\ Len(w) <= Len(v) /\ \A k \in 1 .. Len(w) : v[k] = w[k]
  BY WrittenLonger
<1>2. \A k \in 1 .. Len(w) : w[k] \in DOMAIN file
  <2>1. \A k \in 1 .. Len(w) : w[k] \in 1 .. Len(file)
    BY WrittenGrows
  <2> QED BY <2>1 DEF ReadInv, IInv, Shape
<1>3. \A p \in DOMAIN file : file'[p] = file[p]
  BY TreeGrows
<1>4. i < Len(w) \/ v = w
  OBVIOUS
<1>5. Nth(w, i) = IF i < Len(w) THEN (IF file[w[i + 1]].known THEN w[i + 1] ELSE 0) ELSE None
  BY DEF Nth
<1>6. Nth(w, i)' = IF i < Len(v) THEN (IF file'[v[i + 1]].known THEN v[i + 1] ELSE 0) ELSE None
  BY DEF Nth
<1> HIDE DEF w, v
<1>7. CASE i < Len(w)
  <2>1. i + 1 \in 1 .. Len(w) /\ i < Len(v)
    BY <1>1, <1>7
  <2>2. v[i + 1] = w[i + 1] /\ file'[w[i + 1]] = file[w[i + 1]]
    BY <1>1, <1>2, <1>3, <2>1
  <2> QED BY <1>5, <1>6, <1>7, <2>1, <2>2 DEF w
<1>8. CASE ~(i < Len(w))
  <2>1. ~(i < Len(v))
    BY <1>4, <1>8
  <2> QED BY <1>5, <1>6, <1>8, <2>1 DEF w
<1> QED BY <1>7, <1>8

(* The importers of the path are not resolved.                              *)
LEMMA OpenNotDone ==
  ASSUME Ground, ReadInv', result' = "reading",
         NEW kind \in Kinds, NEW known \in BOOLEAN, NEW d \in Places(kind), NEW ref,
         Writes(kind, known, d, ref), NEW j \in 1 .. d, Whole[open[j]], KindAt(j) \in ImporterTypes
  PROVE  open[j] \notin ToSet(done')
<1>1. /\ d \in Nat /\ DOMAIN open' = 1 .. d + 1 /\ open'[j] = open[j] /\ d \in 1 .. Len(open)
      /\ Len(open) \in Nat /\ open[j] \in 1 .. Len(file)
  <2>1. /\ d \in Nat /\ DOMAIN open' = 1 .. d + 1 /\ (\A i \in 1 .. d : open'[i] = open[i]) /\ d \in 1 .. Len(open)
        /\ Len(open) \in Nat /\ \A i \in 1 .. Len(open) : open[i] \in 1 .. Len(file)
    BY WritesGrows DEF Ground
  <2>2. j \in 1 .. Len(open)
    BY <2>1
  <2> QED BY <2>1, <2>2
<1>2. j \in DOMAIN open'
  BY <1>1
<1>3. KindAt(j)' = KindAt(j)
  BY PathOpens DEF Ground
<1>4. open[j] \in DOMAIN file
  BY <1>1 DEF Ground, ReadInv, IInv, Shape
<1>5. Whole'[open[j]] = Whole[open[j]] /\ file'[open[j]] = file[open[j]]
  BY <1>4, TreeGrows DEF Ground, ReadInv
<1>6. file[open[j]].kind = KindAt(j)
  BY DEF KindAt
<1>7. Importer(open[j])'
  BY <1>1, <1>5, <1>6 DEF Importer
<1>8. latest'[KindAt(j)] = open[j]
  <2>1. PathInv'
    BY DEF ReadInv
  <2>2. \A i \in DOMAIN open' : Importer(open[i])' => latest'[KindAt(i)'] = open'[i]
    BY <2>1 DEF PathInv
  <2>3. Importer(open[j])' <=> (Whole'[open'[j]] /\ file'[open'[j]].kind \in ImporterTypes)
    BY DEF Importer
  <2>4. Whole'[open'[j]] /\ file'[open'[j]].kind \in ImporterTypes
    BY <1>1, <1>5, <1>6
  <2> QED BY <1>1, <1>2, <1>3, <2>2, <2>3, <2>4
<1>9. open[j] # None
  <2>1. open[j] \in Nat
    BY <1>1
  <2> QED BY <2>1, FileImportAssumption
<1> QED BY <1>8, <1>9 DEF ReadInv, IInv, StackInv

(* The backboard's importer is resolved last.                                *)
LEMMA RootNotDone ==
  ASSUME ReadInv', result' = "reading", file' # <<>>
  PROVE  1 \notin ToSet(done')
<1>1. latest'["backboard"] = 1
  BY DEF ReadInv, KeptInv
<1>2. 1 # None /\ "backboard" \in ImporterTypes
  BY FileImportAssumption DEF ImporterTypes
<1> QED BY <1>1, <1>2 DEF ReadInv, IInv, StackInv

(* An object that is settled refers to what it did before.                  *)
LEMMA RefersStays ==
  ASSUME Ground, Fits, ReadInv', result' = "reading", RefsInv,
         NEW kind \in Kinds, NEW known \in BOOLEAN, NEW d \in Places(kind), NEW ref,
         Links(kind, known, d, ref), NEW p \in Objects, Linking(p), Settled(p)'
  PROVE  Refers(p)' = Refers(p) /\ Resolver(p)' = Resolver(p) /\ file'[p] = file[p]
<1>1. ReadInv /\ Writes(kind, known, d, ref) /\ IInv' /\ p \in DOMAIN file
  BY DEF Ground, Links, Reads, ReadInv, Objects
<1>2. file'[p] = file[p] /\ (\A q \in DOMAIN file : file'[q] = file[q]) /\ DOMAIN file' = DOMAIN file \cup {Here}
  BY <1>1, TreeGrows
<1>3. PICK a, b, c, r : a = Within(p, "artboard") /\ b = Within(p, "layer") /\ c = Within(p, "animation")
                        /\ r = file[p].ref
  OBVIOUS
<1>4. a = Within(p, "artboard")' /\ b = Within(p, "layer")' /\ c = Within(p, "animation")' /\ r = file'[p].ref
  BY <1>1, <1>2, <1>3, WithinHere
<1>5. /\ file[p].kind = "layer" => Refers(p)' = a
      /\ file[p].kind = "keyedProperty" => Refers(p)' = c
      /\ file[p].kind = "transition" => Refers(p)' = Nth(Written(b, "state"), r)'
      /\ file[p].kind \in {"state", "blend"} => Refers(p)' = Nth(Written(a, "animation"), r)'
      /\ file[p].kind = "keyFrame" => Refers(p)' = c
      /\ file[p].kind = "bind" => Refers(p)' = file[p].under
      /\ file[p].kind = "asset" => Refers(p)' = IF Written(p, "contents")' = <<>> THEN None
                                                ELSE Written(p, "contents")'[1]
  <2>1. file'[p].kind = file[p].kind /\ file'[p].under = file[p].under
    BY <1>2
  <2> QED BY <1>4, <2>1, RefersNext
<1>6. /\ file[p].kind = "layer" => Refers(p) = a
      /\ file[p].kind = "keyedProperty" => Refers(p) = c
      /\ file[p].kind = "transition" => Refers(p) = Nth(Written(b, "state"), r)
      /\ file[p].kind \in {"state", "blend"} => Refers(p) = Nth(Written(a, "animation"), r)
      /\ file[p].kind = "keyFrame" => Refers(p) = c
      /\ file[p].kind = "bind" => Refers(p) = file[p].under
      /\ file[p].kind = "asset" => Refers(p) = IF Written(p, "contents") = <<>> THEN None
                                               ELSE Written(p, "contents")[1]
  BY <1>3, RefersIs
<1>7. Resolver(p)' = Resolver(p)
  <2>1. file'[p].kind = file[p].kind
    BY <1>2
  <2>2. Within(p, "layer")' = Within(p, "layer")
    BY <1>3, <1>4
  <2> QED BY <2>1, <2>2, ResolverIs, ResolverNext
<1>8. Resolver(p) = 0 \/ Resolver(p) \in ToSet(done')
  BY <1>7 DEF Settled
<1>9. /\ d \in 1 .. d /\ Whole[open[d]] /\ KindAt(d) \in Owners[kind]
      /\ \A o, l : Written(o, l)' = IF open[d] = o /\ ListOf(kind) = l
                                    THEN Append(Written(o, l), Here) ELSE Written(o, l)
  <2>1. d \in Nat /\ d \in 1 .. Len(open) /\ KindAt(d) \in Owners[kind]
    BY <1>1, WritesGrows
  <2>2. d \in 1 .. d
    BY <2>1
  <2> QED BY <1>1, <2>1, <2>2, PlaceIsWhole, WrittenGrows
<1>10. KindAt(d) \in ImporterTypes => open[d] \notin ToSet(done')
  BY <1>1, <1>9, OpenNotDone
<1>11. file[p].known /\ RefersWell(p)
  BY OwnerIs DEF RefsInv
<1>12. p \in Nat /\ p # 0
  BY <1>1 DEF Ground, ReadInv, IInv, Shape
<1>13. CASE file[p].kind = "transition"
  <2>1. Resolver(p) = b /\ b \in Nat /\ b # 0
    <3>1. Within(p, "layer") \in 1 .. p
      BY <1>1, WithinUp
    <3>2. Within(p, "layer") \in Nat /\ Within(p, "layer") # 0
      BY <1>12, <3>1
    <3> QED BY <1>3, <1>13, <3>2, ResolverIs
  <2>2. b \in ToSet(done')
    BY <1>8, <2>1
  <2>3. ~(open[d] = b /\ ListOf(kind) = "state")
    <3> SUFFICES ASSUME open[d] = b, ListOf(kind) = "state" PROVE FALSE
      OBVIOUS
    <3>1. kind = "state"
      BY DEF ListOf
    <3>2. KindAt(d) \in ImporterTypes
      BY <1>9, <3>1, OwnersAre DEF ImporterTypes
    <3> QED BY <1>10, <2>2, <3>2
  <2>4. Written(b, "state")' = Written(b, "state")
    BY <1>9, <2>3
  <2>5. r \in Nat
    BY <1>3, <1>11, <1>13 DEF RefersWell
  <2>6. Nth(Written(b, "state"), r)' = Nth(Written(b, "state"), r)
    BY <1>1, <2>4, <2>5, NthStays
  <2> QED BY <1>2, <1>5, <1>6, <1>7, <1>13, <2>6
<1>14. CASE file[p].kind \in {"state", "blend"}
  <2>1. HasIn(file[p].ref, Within(p, "artboard"))
    <3>1. file[p].kind = "state" => file[p].ref # None
      BY DEF Linking
    <3> QED BY <1>11, <1>14, <3>1 DEF RefersWell
  <2>2. r \in Nat /\ r < Len(Written(a, "animation"))
    BY <1>3, <2>1 DEF HasIn
  <2>3. Nth(Written(a, "animation"), r)' = Nth(Written(a, "animation"), r)
    BY <1>1, <2>2, NthStays
  <2> QED BY <1>2, <1>5, <1>6, <1>7, <1>14, <2>3
<1>15. CASE file[p].kind \in {"nested", "image"}
  <2>1. Resolver(p) = 1
    BY <1>15, ResolverIs
  <2>2. file' # <<>>
    BY <1>1, <1>2
  <2> QED BY <1>8, <2>1, <2>2, RootNotDone
<1>16. CASE file[p].kind = "asset"
  <2>1. p \in ToSet(done')
    BY <1>8, <1>12, <1>16, ResolverIs
  <2>2. ~(open[d] = p /\ ListOf(kind) = "contents")
    <3> SUFFICES ASSUME open[d] = p, ListOf(kind) = "contents" PROVE FALSE
      OBVIOUS
    <3>1. kind = "contents"
      BY DEF ListOf
    <3>2. KindAt(d) \in ImporterTypes
      BY <1>9, <3>1, OwnersAre DEF ImporterTypes
    <3> QED BY <1>10, <2>1, <3>2
  <2>3. Written(p, "contents")' = Written(p, "contents")
    BY <1>9, <2>2
  <2> QED BY <1>2, <1>5, <1>6, <1>7, <1>16, <2>3
<1>17. CASE file[p].kind \in {"layer", "keyedProperty", "keyFrame", "bind"}
  BY <1>2, <1>5, <1>6, <1>7, <1>17
<1> QED BY <1>13, <1>14, <1>15, <1>16, <1>17 DEF Linking
-----------------------------------------------------------------------------
(* What a step does to the references, and which importer it resolves.      *)
Old(kind, known) == IF known /\ kind \in Owning THEN latest[kind] ELSE None
OwnBound(kind, ref) == \A p \in DOMAIN Own(kind, ref) : p \in DOMAIN bound' /\ bound'[p] = Own(kind, ref)[p]
BoundByOld(kind, known) == IF Old(kind, known) = None THEN <<>> ELSE Binds(Old(kind, known))

(* An import binds only the object it reads.                                 *)
LEMMA OwnHere ==
  ASSUME NEW kind, NEW ref
  PROVE  /\ \A x \in DOMAIN Own(kind, ref) : x = Here
         /\ kind \in {"bind", "keyFrame", "blend", "keyedProperty", "layer"} => Here \in DOMAIN Own(kind, ref)
<1>1. CASE kind \in {"bind", "keyFrame", "blend", "keyedProperty", "layer"}
  <2>1. PICK v : Own(kind, ref) = Single(Here, v)
    BY <1>1, OwnIs
  <2> QED BY <2>1, SingleIs
<1>2. CASE kind \notin {"bind", "keyFrame", "blend", "keyedProperty", "layer"}
  <2>1. Own(kind, ref) = <<>>
    BY <1>2 DEF Own
  <2>2. DOMAIN Own(kind, ref) = {}
    BY <2>1
  <2> QED BY <1>2, <2>2
<1> QED BY <1>1, <1>2

(* A head resolves the importer it replaces.                                 *)
LEMMA LinksChange ==
  ASSUME Ground, Fits, ReadInv', result' = "reading",
         NEW kind \in Kinds, NEW known \in BOOLEAN, NEW d \in Places(kind), NEW ref,
         Links(kind, known, d, ref)
  PROVE  /\ known /\ kind \in Owning => LatestIs(kind)
         /\ \A x : x \in ToSet(done') <=> x \in ToSet(done) \/ (x = Old(kind, known) /\ x # None)
         /\ \A p \in DOMAIN file : p \in DOMAIN BoundByOld(kind, known) =>
              p \in DOMAIN bound' /\ bound'[p] = BoundByOld(kind, known)[p]
         /\ \A p \in DOMAIN file : p \in DOMAIN bound /\ p \notin DOMAIN BoundByOld(kind, known) =>
              p \in DOMAIN bound' /\ bound'[p] = bound[p]
         /\ known /\ kind \in Immediate \cup Owning => OwnBound(kind, ref)
<1>1. /\ Writes(kind, known, d, ref) /\ LinksAs(kind, known, ref) /\ ReadInv /\ IInv' /\ IInv
      /\ result = "reading" /\ Shape
  BY DEF Links, Reads, Ground, ReadInv, Writes, IInv
<1>2. \A p \in DOMAIN file : p # Here
  BY <1>1 DEF Shape, Here
<1> DEFINE own == Own(kind, ref)
<1>3. \A x \in DOMAIN own : x = Here
  BY OwnHere
<1>4. CASE known /\ kind \in Owning
  <2> DEFINE old == latest[kind]
             by == IF old = None THEN <<>> ELSE Binds(old)
  <2>1. MakeLatest(kind, own) /\ Writes(kind, TRUE, d, ref) /\ kind \in Kinds \cap Owning
    BY <1>1, <1>4 DEF LinksAs
  <2>2. LatestIs(kind)
    BY <1>1, <2>1, KeptByHead
  <2>3. bound' = Overlay(own, Overlay(by, bound)) /\ done' = IF old = None THEN done ELSE Append(done, old)
    BY <2>1 DEF MakeLatest
  <2>4. BoundByOld(kind, known) = by /\ Old(kind, known) = old
    BY <1>4 DEF BoundByOld, Old
  <2> HIDE DEF old, by, own
  <2>5. \A x : x \in ToSet(done') <=> x \in ToSet(done) \/ (x = old /\ x # None)
    <3>1. done \in Seq(Nat) /\ done' \in Seq(Nat)
      BY <1>1 DEF Shape, IInv
    <3>2. CASE old = None
      BY <2>3, <3>2
    <3>3. CASE old # None
      <4>1. old \in Nat
        <5>1. latest[kind] # None => latest[kind] \in 1 .. Len(file)
          BY <1>1, <1>4 DEF IInv, StackInv, Owning
        <5>2. Len(file) \in Nat
          BY <1>1 DEF Shape
        <5> QED BY <3>3, <5>1, <5>2 DEF old
      <4>2. /\ Len(done') = Len(done) + 1 /\ done'[Len(done) + 1] = old
            /\ \A k \in 1 .. Len(done) : done'[k] = done[k]
        BY <2>3, <3>1, <3>3, <4>1
      <4>3. DOMAIN done = 1 .. Len(done) /\ DOMAIN done' = 1 .. Len(done) + 1 /\ Len(done) \in Nat
        BY <3>1, <4>2
      <4>4. \A k : k \in 1 .. Len(done) + 1 <=> k \in 1 .. Len(done) \/ k = Len(done) + 1
        BY <4>3
      <4>5. \A x : x \in ToSet(done) <=> \E k \in 1 .. Len(done) : x = done[k]
        BY <4>3 DEF ToSet
      <4>6. \A x : x \in ToSet(done') <=> \E k \in 1 .. Len(done) + 1 : x = done'[k]
        BY <4>3 DEF ToSet
      <4> QED BY <3>3, <4>2, <4>4, <4>5, <4>6
    <3> QED BY <3>2, <3>3
  <2>6. ASSUME NEW p \in DOMAIN by, p \in DOMAIN file PROVE p \in DOMAIN bound' /\ bound'[p] = by[p]
    <3>1. p \in DOMAIN Overlay(by, bound) /\ Overlay(by, bound)[p] = by[p]
      BY Overlaid
    <3>2. p \notin DOMAIN own
      BY <1>2, <1>3, <2>6
    <3> QED BY <2>3, <3>1, <3>2, Overlaid
  <2>7. ASSUME NEW p \in DOMAIN bound, p \in DOMAIN file, p \notin DOMAIN by
        PROVE  p \in DOMAIN bound' /\ bound'[p] = bound[p]
    <3>1. p \in DOMAIN Overlay(by, bound) /\ Overlay(by, bound)[p] = bound[p]
      BY <2>7, Overlaid
    <3>2. p \notin DOMAIN own
      BY <1>2, <1>3, <2>7
    <3> QED BY <2>3, <3>1, <3>2, Overlaid
  <2>8. OwnBound(kind, ref)
    <3>1. ASSUME NEW p \in DOMAIN own PROVE p \in DOMAIN bound' /\ bound'[p] = own[p]
      BY <2>3, Overlaid
    <3> QED BY <3>1 DEF own, OwnBound
  <2> QED BY <2>2, <2>4, <2>5, <2>6, <2>7, <2>8
<1>5. CASE ~(known /\ kind \in Owning)
  <2>1. UNCHANGED stack
    BY <1>1, <1>5 DEF LinksAs
  <2>2. Old(kind, known) = None /\ DOMAIN BoundByOld(kind, known) = {}
    <3>1. Old(kind, known) = None /\ BoundByOld(kind, known) = <<>>
      BY <1>5 DEF Old, BoundByOld
    <3> QED BY <3>1
  <2>3. done' = done
    BY <2>1 DEF stack
  <2>4. CASE known /\ kind \in Immediate
    <3>1. bound' = Overlay(own, bound)
      BY <1>1, <1>5, <2>4 DEF LinksAs
    <3>2. OwnBound(kind, ref)
      <4>1. \A p \in DOMAIN own : p \in DOMAIN bound' /\ bound'[p] = own[p]
        BY <3>1, Overlaid
      <4> QED BY <4>1 DEF OwnBound
    <3>3. \A p \in DOMAIN file : p \in DOMAIN bound => p \in DOMAIN bound' /\ bound'[p] = bound[p]
      <4> HIDE DEF own
      <4> QED BY <1>2, <1>3, <3>1, Overlaid
    <3> HIDE DEF own
    <3> QED BY <1>5, <2>2, <2>3, <3>2, <3>3
  <2>5. CASE ~(known /\ kind \in Immediate)
    <3>1. bound' = bound
      BY <1>1, <1>5, <2>5 DEF LinksAs
    <3> QED BY <1>5, <2>2, <2>3, <2>5, <3>1
  <2> QED BY <2>4, <2>5
<1> QED BY <1>4, <1>5

(* The objects read before.                                                 *)
LEMMA OldRight ==
  ASSUME Ground, Fits, ReadInv', result' = "reading",
         TypedInv, LeftInv, RefsInv, ContentsInv, BoundInv,
         NEW kind \in Kinds, NEW known \in BOOLEAN, NEW d \in Places(kind), NEW ref,
         Links(kind, known, d, ref), NEW p \in Objects, Linking(p), Settled(p)'
  PROVE  Right(p)'
<1> DEFINE old == Old(kind, known)
           by == BoundByOld(kind, known)
<1>1. Refers(p)' = Refers(p) /\ Resolver(p)' = Resolver(p) /\ p \in DOMAIN file
  BY RefersStays DEF Objects
<1>2. /\ \A x : x \in ToSet(done') <=> x \in ToSet(done) \/ (x = old /\ x # None)
      /\ p \in DOMAIN by => p \in DOMAIN bound' /\ bound'[p] = by[p]
      /\ p \in DOMAIN bound /\ p \notin DOMAIN by => p \in DOMAIN bound' /\ bound'[p] = bound[p]
  BY <1>1, LinksChange
<1>3. old # None => old \in DOMAIN file /\ old \notin ToSet(done) /\ old # 0 /\ by = Binds(old)
  <2>1. old # None => old = latest[kind] /\ kind \in Owning /\ by = Binds(old)
    BY DEF Old, BoundByOld
  <2>2. ReadInv /\ result = "reading" /\ DOMAIN file = 1 .. Len(file) /\ Len(file) \in Nat
    BY DEF Ground, Links, Reads, Writes, ReadInv, IInv, Shape
  <2>3. \A t \in ImporterTypes : latest[t] # None => latest[t] \in 1 .. Len(file) /\ latest[t] \notin ToSet(done)
    BY <2>2 DEF ReadInv, IInv, StackInv
  <2>4. old # None => old \in 1 .. Len(file) /\ old \notin ToSet(done)
    BY <2>1, <2>3 DEF Owning
  <2>5. \A i \in 1 .. Len(file) : i # 0
    BY <2>2
  <2> QED BY <2>1, <2>2, <2>4, <2>5
<1>4. old = None => DOMAIN by = {}
  <2>1. old = None => by = <<>>
    BY DEF BoundByOld
  <2> QED BY <2>1
<1> HIDE DEF old, by
<1>5. Resolver(p) = 0 \/ Resolver(p) \in ToSet(done')
  BY <1>1 DEF Settled
<1>6. CASE Settled(p)
  <2>1. Right(p)
    BY <1>6 DEF BoundInv
  <2>2. p \notin DOMAIN by
    <3> SUFFICES ASSUME p \in DOMAIN by PROVE FALSE
      OBVIOUS
    <3>1. old # None
      BY <1>4
    <3>2. Resolver(p) = old
      BY <1>3, <3>1, BindsOwn
    <3> QED BY <1>3, <1>6, <3>1, <3>2 DEF Settled
  <2> QED BY <1>1, <1>2, <2>1, <2>2 DEF Right
<1>7. CASE ~Settled(p)
  <2>1. Resolver(p) = old /\ old # None /\ Resolver(p) # 0
    BY <1>2, <1>5, <1>7 DEF Settled
  <2>2. LinksWell(old, p)
    BY <2>1, BindsRight
  <2>3. p \in DOMAIN by /\ (Refers(p) = None \/ by[p] = Refers(p))
    BY <1>3, <2>1, <2>2 DEF LinksWell
  <2> QED BY <1>1, <1>2, <2>3 DEF Right
<1> QED BY <1>6, <1>7
-----------------------------------------------------------------------------
(* The object that is read: who binds it is not resolved yet, or it is bound *)
(* as it is imported.                                                       *)
(* The object that is read is of a known type.                             *)
Surely(known) == known = TRUE

LEMMA HereIs ==
  ASSUME ReadInv, IInv',
         NEW kind \in Kinds, NEW known \in BOOLEAN, NEW d \in Places(kind), NEW ref,
         Writes(kind, known, d, ref), NEW h, h = Here
  PROVE  /\ file'[h].kind = kind /\ file'[h].ref = ref /\ file'[h].under = open[d]
         /\ h \in DOMAIN file'
<1>1. file'[Here] = NewObject(kind, known, d, ref) /\ DOMAIN file' = DOMAIN file \cup {Here}
  BY TreeGrows
<1>2. NewObject(kind, known, d, ref) = [kind |-> kind, known |-> known, ref |-> ref, under |-> open[d]]
  BY DEF NewObject
<1> QED BY <1>1, <1>2

Deferred == {"transition", "state", "nested", "image", "asset"}

(* An importer that binds the object that is read is on the path, unresolved.*)
LEMMA HereDeferred ==
  ASSUME Ground, Fits, ReadInv', result' = "reading",
         NEW kind \in Kinds, NEW known \in BOOLEAN, NEW d \in Places(kind), NEW ref,
         Links(kind, known, d, ref), NEW h, h = Here, Surely(known), kind \in Deferred
  PROVE  ~Settled(h)'
<1> SUFFICES ASSUME Settled(h)' PROVE FALSE
  OBVIOUS
<1>1. ReadInv /\ Writes(kind, known, d, ref) /\ IInv' /\ result = "reading"
  BY DEF Ground, Links, Reads, ReadInv, Writes
<1>2. file'[h].kind = kind /\ h \in DOMAIN file'
  BY <1>1, HereIs
<1>3. d \in 1 .. d /\ d \in DOMAIN open /\ KindAt(d) \in Owners[kind] /\ Whole[open[d]] /\ d \in Nat
      /\ h \in Nat /\ h # 0
  <2>1. d \in Nat /\ d \in 1 .. Len(open) /\ KindAt(d) \in Owners[kind] /\ DOMAIN open = 1 .. Len(open)
        /\ Here = Len(file) + 1
    BY <1>1, WritesGrows
  <2>2. Len(file) \in Nat
    BY <1>1 DEF ReadInv, IInv, Shape
  <2>3. d \in 1 .. d /\ h \in Nat /\ h # 0
    BY <2>1, <2>2
  <2> QED BY <1>1, <2>1, <2>3, PlaceIsWhole
<1>4. Resolver(h)' = 0 \/ Resolver(h)' \in ToSet(done')
  BY DEF Settled
<1>5. CASE kind \in {"transition", "state"}
  <2>1. Resolver(h)' = Within(open[d], "layer")
    <3>1. Within(h, "layer")' = Within(open[d], "layer")
      BY <1>1, <1>5, WithinHere
    <3> QED BY <1>2, <1>5, <3>1, ResolverNext
  <2>2. KindAt(d) \in {"layer", "state"}
    BY <1>3, <1>5, OwnersAre
  <2>3. Within(open[d], "layer") = latest["layer"] /\ latest["layer"] # None
    BY <1>1, <1>3, <2>2, PathLayer
  <2>4. latest'["layer"] = latest["layer"]
    <3>1. "layer" \in ImporterTypes /\ "layer" \notin Types(kind)
      BY <1>5 DEF ImporterTypes, Types
    <3>2. kind \in Owning
      BY <1>5 DEF Owning, ImporterTypes
    <3>3. LatestIs(kind)
      <4>1. known /\ kind \in Owning => LatestIs(kind)
        BY LinksChange
      <4> QED BY <3>2, <4>1 DEF Surely
    <3> QED BY <3>1, <3>3 DEF LatestIs
  <2>5. latest["layer"] \in 1 .. Len(file') /\ latest["layer"] \notin ToSet(done')
    BY <1>1, <2>3, <2>4 DEF IInv, StackInv, ImporterTypes
  <2>6. latest["layer"] # 0
    <3>1. Len(file') \in Nat
      BY <1>1 DEF IInv, Shape
    <3> QED BY <2>5, <3>1
  <2> QED BY <1>4, <2>1, <2>3, <2>5, <2>6
<1>6. CASE kind \in {"nested", "image"}
  <2>1. Resolver(h)' = 1
    BY <1>2, <1>6, ResolverNext
  <2>2. file' # <<>>
    BY <1>2
  <2> QED BY <1>4, <2>1, <2>2, RootNotDone
<1>7. CASE kind = "asset"
  <2>1. Resolver(h)' = h
    BY <1>2, <1>7, ResolverNext
  <2>2. latest'["asset"] = h
    <3>1. "asset" \in ImporterTypes /\ "asset" \in Types(kind) /\ kind \in Owning
      BY <1>7 DEF ImporterTypes, Types, Owning
    <3>2. LatestIs(kind)
      <4>1. known /\ kind \in Owning => LatestIs(kind)
        BY LinksChange
      <4> QED BY <3>1, <4>1 DEF Surely
    <3> QED BY <3>1, <3>2 DEF LatestIs
  <2>3. h # None
    BY <1>3, FileImportAssumption
  <2>4. h \notin ToSet(done')
    BY <1>1, <2>2, <2>3 DEF IInv, StackInv, ImporterTypes
  <2> QED BY <1>3, <1>4, <2>1, <2>4
<1> QED BY <1>5, <1>6, <1>7 DEF Deferred

(* What is bound as it is imported is what is meant, the path being the latest.*)
LEMMA HereBound ==
  ASSUME Ground, Fits, ReadInv', result' = "reading", RefsInv, BindableInv, BoundInv,
         NEW kind \in Kinds, NEW known \in BOOLEAN, NEW d \in Places(kind), NEW ref,
         Links(kind, known, d, ref), NEW h, h = Here, Surely(known),
         kind \in {"layer", "keyedProperty", "keyFrame", "blend", "bind"}
  PROVE  Right(h)'
<1>1. ReadInv /\ Writes(kind, known, d, ref) /\ IInv' /\ result = "reading" /\ RefersAs(kind, d, ref)
  <2>1. ReadInv /\ Writes(kind, known, d, ref) /\ IInv' /\ result = "reading" /\ (known => RefersAs(kind, d, ref))
    BY DEF Ground, Links, Reads, ReadInv, Writes
  <2> QED BY <2>1 DEF Surely
<1>2. file'[h].kind = kind /\ file'[h].ref = ref /\ file'[h].under = open[d]
  BY <1>1, HereIs
<1>3. d \in DOMAIN open /\ KindAt(d) \in Owners[kind] /\ Whole[open[d]] /\ open[d] \in DOMAIN file
  <2>1. d \in 1 .. Len(open) /\ KindAt(d) \in Owners[kind] /\ DOMAIN open = 1 .. Len(open)
    BY <1>1, WritesGrows
  <2> QED BY <1>1, <2>1, PlaceIsWhole
<1>4. kind \in Immediate \cup Owning
  BY DEF Immediate, Owning, ImporterTypes
<1>5. h \in DOMAIN bound' /\ bound'[h] = Own(kind, ref)[h]
  <2>1. h \in DOMAIN Own(kind, ref)
    BY OwnHere
  <2>2. known /\ kind \in Immediate \cup Owning => OwnBound(kind, ref)
    BY LinksChange
  <2>3. \A p \in DOMAIN Own(kind, ref) : p \in DOMAIN bound' /\ bound'[p] = Own(kind, ref)[p]
    BY ONLY <1>4, <2>2, Surely(known) DEF Surely, OwnBound
  <2> QED BY <2>1, <2>3
<1>6. PICK a, b, c : a = Within(open[d], "artboard") /\ b = Within(h, "layer")' /\ c = Within(open[d], "animation")
  OBVIOUS
<1>7. a = Within(h, "artboard")' /\ c = Within(h, "animation")'
  BY <1>1, <1>6, WithinHere
<1>8. /\ kind = "layer" => Refers(h)' = a
      /\ kind = "keyedProperty" => Refers(h)' = c
      /\ kind = "blend" => Refers(h)' = Nth(Written(a, "animation"), ref)'
      /\ kind = "keyFrame" => Refers(h)' = c
      /\ kind = "bind" => Refers(h)' = open[d]
  BY <1>2, <1>6, <1>7, RefersNext
<1>9. bound'[h] = Refers(h)'
  <2>1. CASE kind = "layer"
    <3>1. KindAt(d) = "machine"
      BY <1>3, <2>1, OwnersAre
    <3>2. a = latest["artboard"]
      BY <1>1, <1>3, <1>6, <3>1, PathArtboard
    <3>3. Own(kind, ref)[h] = latest["artboard"]
      BY <2>1, OwnIs, SingleIs
    <3> QED BY <1>5, <1>8, <2>1, <3>2, <3>3
  <2>2. CASE kind = "keyedProperty"
    <3>1. KindAt(d) = "keyedObject"
      BY <1>3, <2>2, OwnersAre
    <3>2. c = latest["animation"]
      BY <1>1, <1>3, <1>6, <3>1, PathAnimation
    <3>3. Own(kind, ref)[h] = latest["animation"]
      BY <2>2, OwnIs, SingleIs
    <3> QED BY <1>5, <1>8, <2>2, <3>2, <3>3
  <2>3. CASE kind = "keyFrame"
    <3>1. KindAt(d) = "keyedProperty"
      BY <1>3, <2>3, OwnersAre
    <3>2. latest["keyedProperty"] = open[d]
      <4>1. latest[Asks("keyFrame")] = open[d]
        BY <1>1, <2>3, ReadingIs
      <4> QED BY <4>1, AsksAre
    <3>3. Own(kind, ref)[h] = bound[open[d]]
      BY <2>3, <3>2, OwnIs, SingleIs
    <3>4. open[d] \in Objects /\ file[open[d]].kind = "keyedProperty"
      BY <1>3, <3>1 DEF Objects, KindAt
    <3>5. Right(open[d]) /\ Refers(open[d]) = c
      <4>1. Linking(open[d]) /\ Settled(open[d])
        BY <3>4, ResolverIs DEF Linking, Settled
      <4> QED BY <1>6, <3>4, <4>1, RefersIs DEF BoundInv
    <3>6. c # None
      <4>1. c \in 1 .. open[d]
        BY <1>1, <1>3, <1>6, WithinUp
      <4>2. open[d] \in Nat
        BY <1>1, <1>3 DEF ReadInv, IInv, Shape
      <4>3. c \in Nat
        BY <4>1, <4>2
      <4> QED BY <4>3, FileImportAssumption
    <3> QED BY <1>5, <1>8, <2>3, <3>3, <3>5, <3>6 DEF Right
  <2>4. CASE kind = "bind"
    <3>1. bindable = open[d]
      BY <1>1, <2>4, BindIsFor
    <3>2. Own(kind, ref)[h] = bindable
      BY <2>4, OwnIs, SingleIs
    <3> QED BY <1>5, <1>8, <2>4, <3>1, <3>2
  <2>5. CASE kind = "blend"
    <3>1. KindAt(d) = "state"
      BY <1>3, <2>5, OwnersAre
    <3>2. a = latest["artboard"] /\ a \in DOMAIN file /\ Whole[a] /\ file[a].kind = "artboard"
      BY <1>1, <1>3, <1>6, <3>1, PathArtboard
    <3>3. ref \in 0 .. Len(Written(a, "animation")) - 1
      BY <1>1, <1>6, <2>5 DEF RefersAs, Animations
    <3>4. ref \in Nat /\ ref < Len(Written(a, "animation"))
      <4>1. Len(Written(a, "animation")) \in Nat
        BY <1>1, WrittenLonger
      <4> QED BY <3>3, <4>1
    <3>5. ref < Len(Given(a, "animation")) /\ Given(a, "animation")[ref + 1] = Nth(Written(a, "animation"), ref)
      BY <3>2, <3>4, NthGiven, OwnsAre
    <3>6. Own(kind, ref)[h] = Given(a, "animation")[ref + 1]
      BY <2>5, <3>2, <3>5, OwnIs, SingleIs
    <3>7. Nth(Written(a, "animation"), ref)' = Nth(Written(a, "animation"), ref)
      BY <1>1, <3>4, NthStays
    <3> QED BY <1>5, <1>8, <2>5, <3>5, <3>6, <3>7
  <2> QED BY <2>1, <2>2, <2>3, <2>4, <2>5
<1> QED BY <1>5, <1>9 DEF Right

(* Every reference that is resolved stays right.                             *)
LEMMA BoundKept ==
  ASSUME Ground, Fits, ReadInv', result' = "reading",
         TypedInv, LeftInv, RefsInv, ContentsInv, BindableInv, BoundInv,
         NEW kind \in Kinds, NEW known \in BOOLEAN, NEW d \in Places(kind), NEW ref,
         Links(kind, known, d, ref)
  PROVE  BoundInv'
<1>1. ReadInv /\ Writes(kind, known, d, ref) /\ IInv'
  BY DEF Ground, Links, Reads, ReadInv
<1>2. /\ \A p \in DOMAIN file : Whole'[p] = Whole[p] /\ file'[p] = file[p]
      /\ Whole'[Here] = (known /\ Whole[open[d]])
      /\ file'[Here] = NewObject(kind, known, d, ref)
      /\ DOMAIN file' = DOMAIN file \cup {Here}
  BY <1>1, TreeGrows
<1>3. ASSUME NEW p \in Objects', Linking(p)', Settled(p)' PROVE Right(p)'
  <2>1. p \in DOMAIN file' /\ Whole'[p] /\ file'[p].kind # "backboard"
    BY DEF Objects
  <2>2. CASE p \in DOMAIN file
    <3>1. p \in Objects /\ file'[p] = file[p]
      BY <1>2, <2>1, <2>2 DEF Objects
    <3>2. Linking(p)
      BY <1>3, <3>1 DEF Linking
    <3> QED BY <1>3, <3>1, <3>2, OldRight
  <2>3. CASE p = Here
    <3>1. PICK h : h = Here
      OBVIOUS
    <3>2. Surely(known)
      <4>1. known
        BY <1>2, <2>1, <2>3, Zenon
      <4> QED BY <4>1 DEF Surely
    <3>3. file'[h].kind = kind
      BY <1>2, <3>1 DEF NewObject
    <3>4. kind \in Deferred \/ kind \in {"layer", "keyedProperty", "keyFrame", "blend", "bind"}
      BY <1>3, <2>3, <3>1, <3>3 DEF Linking, Deferred
    <3>5. kind \in Deferred => ~Settled(h)'
      BY <3>1, <3>2, HereDeferred
    <3>6. kind \in {"layer", "keyedProperty", "keyFrame", "blend", "bind"} => Right(h)'
      BY <3>1, <3>2, HereBound
    <3>7. p = h
      BY <2>3, <3>1
    <3> QED BY <1>3, <3>4, <3>5, <3>6, <3>7
  <2> QED BY <1>2, <2>1, <2>2, <2>3
<1> QED BY <1>3 DEF BoundInv
-----------------------------------------------------------------------------
(* At the end: the order of the importers, and the bindings they make.      *)
LEMMA EndsAs ==
  ASSUME IInv, Finish, result' = "success"
  PROVE  /\ result = "reading" /\ Len(lastAdded) \in Nat /\ UNCHANGED <<file, added>>
         /\ DOMAIN lastAdded = 1 .. Len(lastAdded)
         /\ bound' = Overlay(BoundBy(Len(lastAdded)), bound)
         /\ \A k \in 1 .. Len(lastAdded) : ResolveOrder[k] = lastAdded[Len(lastAdded) - k + 1]
<1> DEFINE L == Len(lastAdded)
<1>1. PICK n \in DOMAIN lastAdded :
        /\ Resolves(ResolveOrder[n]) => n = Len(lastAdded)
        /\ bound' = Overlay(BoundBy(n), bound)
        /\ result' = IF Resolves(ResolveOrder[n]) THEN "success" ELSE "malformed"
  BY ZenonT(30) DEF Finish, ResolveAll
<1>2. n = L
  BY <1>1
<1>3. UNCHANGED <<file, open, family, added>> /\ result = "reading"
  BY DEF Finish, disk
<1>4. lastAdded \in Seq(Nat)
  BY DEF IInv, Shape
<1>5. \A k \in 1 .. L : ResolveOrder[k] = lastAdded[L - k + 1]
  BY <1>4 DEF ResolveOrder, Reverse
<1> QED BY <1>1, <1>2, <1>3, <1>4, <1>5

LEMMA MaxOfOne ==
  ASSUME NEW S, NEW c \in Nat, c \in S, \A y \in S : y = c
  PROVE  Max(S) = c
<1>1. S = {c}
  OBVIOUS
<1>2. \E x \in S : \A y \in S : x >= y
  <2>1. c >= c
    OBVIOUS
  <2>2. \A y \in S : c >= y
    BY <2>1
  <2> QED BY <2>2
<1>3. Max(S) \in S
  BY <1>2, Zenon DEF Max
<1> QED BY <1>3

(* An importer of the stack binds its objects at the end, and no other does. *)
LEMMA BoundAtEnd ==
  ASSUME Ground, TypedInv, result = "reading", Len(lastAdded) \in Nat, DOMAIN lastAdded = 1 .. Len(lastAdded),
         \A k \in 1 .. Len(lastAdded) : ResolveOrder[k] = lastAdded[Len(lastAdded) - k + 1],
         NEW p
  PROVE  /\ p \in DOMAIN BoundBy(Len(lastAdded)) =>
              p \in DOMAIN file /\ Resolver(p) \in ToSet(lastAdded) \ (ToSet(done) \cup {0})
         /\ Resolver(p) \in ToSet(lastAdded) /\ p \in DOMAIN Binds(Resolver(p)) =>
              /\ p \in DOMAIN BoundBy(Len(lastAdded))
              /\ BoundBy(Len(lastAdded))[p] = Binds(Resolver(p))[p]
<1> DEFINE n == Len(lastAdded)
           i(k) == ResolveOrder[k]
<1>1. \A k \in 1 .. n : n - k + 1 \in 1 .. n /\ n - (n - k + 1) + 1 = k
  OBVIOUS
<1>2. IInv /\ StackInv /\ DOMAIN file = 1 .. Len(file) /\ Len(file) \in Nat
  BY DEF Ground, ReadInv, IInv, Shape
<1>3. \A k \in 1 .. n : i(k) \in ToSet(lastAdded) /\ i(k) \in DOMAIN file /\ i(k) \notin ToSet(done) /\ i(k) # 0
  <2>1. ASSUME NEW k \in 1 .. n PROVE lastAdded[k] \in DOMAIN file /\ lastAdded[k] \notin ToSet(done) /\ lastAdded[k] # 0
    <3>1. PICK t \in Owning : lastAdded[k] = latest[t]
      BY <1>2 DEF StackInv
    <3>2. t \in ImporterTypes
      BY DEF Owning
    <3>3. lastAdded[k] # None
      BY <1>2 DEF StackInv
    <3>4. lastAdded[k] \in 1 .. Len(file) /\ lastAdded[k] \notin ToSet(done)
      BY <1>2, <3>1, <3>2, <3>3 DEF StackInv
    <3> QED BY <1>2, <3>4
  <2>2. \A k \in 1 .. n : lastAdded[k] \in ToSet(lastAdded)
    BY DEF ToSet
  <2> QED BY <1>1, <2>1, <2>2
<1>4. \A j, k \in 1 .. n : i(j) = i(k) => j = k
  <2>1. IsInjective(lastAdded)
    BY <1>2 DEF StackInv
  <2>2. \A j, k \in 1 .. n : lastAdded[j] = lastAdded[k] => j = k
    BY <2>1 DEF IsInjective
  <2>3. SUFFICES ASSUME NEW j \in 1 .. n, NEW k \in 1 .. n, i(j) = i(k) PROVE j = k
    OBVIOUS
  <2>4. n - j + 1 = n - k + 1
    BY <1>1, <2>2, <2>3
  <2> QED BY <2>4
<1>5. \A x \in ToSet(lastAdded) : \E k \in 1 .. n : i(k) = x
  <2> SUFFICES ASSUME NEW x \in ToSet(lastAdded) PROVE \E k \in 1 .. n : i(k) = x
    OBVIOUS
  <2>1. PICK j \in 1 .. n : x = lastAdded[j]
    BY DEF ToSet
  <2>2. n - j + 1 \in 1 .. n /\ i(n - j + 1) = lastAdded[j]
    BY <1>1
  <2> QED BY <2>1, <2>2
<1>6. \A k \in 1 .. n : p \in DOMAIN Binds(i(k)) => p \in DOMAIN file /\ Resolver(p) = i(k)
  BY <1>3, BindsOwn
<1> HIDE DEF n
<1>7. /\ \A q : q \in DOMAIN BoundBy(n) <=> \E k \in 1 .. n : q \in DOMAIN Binds(i(k))
      /\ p \in DOMAIN BoundBy(n) => BoundBy(n)[p] = Binds(ResolveOrder[Max(Binders(n, p))])[p]
  BY DEF BoundBy
<1>8. ASSUME p \in DOMAIN BoundBy(n)
      PROVE  p \in DOMAIN file /\ Resolver(p) \in ToSet(lastAdded) \ (ToSet(done) \cup {0})
  <2>1. PICK k \in 1 .. n : p \in DOMAIN Binds(i(k))
    BY <1>7, <1>8
  <2>2. p \in DOMAIN file /\ Resolver(p) = i(k)
    BY <1>6, <2>1
  <2> QED BY <1>3, <2>2
<1>9. ASSUME Resolver(p) \in ToSet(lastAdded), p \in DOMAIN Binds(Resolver(p))
      PROVE  p \in DOMAIN BoundBy(n) /\ BoundBy(n)[p] = Binds(Resolver(p))[p]
  <2>1. PICK k \in 1 .. n : i(k) = Resolver(p)
    BY <1>5, <1>9
  <2>2. k \in Nat /\ k \in Binders(n, p) /\ \A y \in Binders(n, p) : y = k
    <3>1. k \in Binders(n, p)
      BY <1>9, <2>1 DEF Binders
    <3>2. ASSUME NEW y \in Binders(n, p) PROVE y = k
      <4>1. y \in 1 .. n /\ p \in DOMAIN Binds(i(y))
        BY DEF Binders
      <4> QED BY <1>4, <1>6, <2>1, <4>1
    <3> QED BY <3>1, <3>2
  <2>3. Max(Binders(n, p)) = k
    BY <2>2, MaxOfOne
  <2> QED BY <1>7, <1>9, <2>1, <2>3
<1> QED BY <1>8, <1>9 DEF n

(* The importer that binds an object is among those of the stack.           *)
LEMMA ResolverKept ==
  ASSUME Ground, Fits, result = "reading", NEW p \in Objects, Linking(p), Resolver(p) # 0
  PROVE  Resolver(p) \in ToSet(done) \cup ToSet(lastAdded)
<1>1. KeptInv /\ p \in DOMAIN file /\ Whole[p] /\ lastAdded \in Seq(Nat)
  BY DEF Ground, ReadInv, IInv, Shape, Objects
<1>2. file[p].kind \in {"transition", "state", "nested", "image", "asset"}
  BY ResolverIs
<1>3. CASE file[p].kind = "asset"
  <2>1. Resolver(p) = p
    BY <1>3, ResolverIs
  <2>2. Importer(p)
    BY <1>1, <1>3 DEF Importer, ImporterTypes
  <2> QED BY <1>1, <2>1, <2>2 DEF KeptInv
<1>4. CASE file[p].kind \in {"nested", "image"}
  <2>1. Resolver(p) = 1
    BY <1>4, ResolverIs
  <2>2. lastAdded # <<>> /\ lastAdded[1] = 1
    BY <1>1 DEF KeptInv
  <2>3. 1 \in DOMAIN lastAdded
    BY <1>1, <2>2
  <2> QED BY <2>1, <2>2, <2>3 DEF ToSet
<1>5. ASSUME NEW s \in Objects, file[s].kind = "state"
      PROVE  Within(s, "layer") \in ToSet(done) \cup ToSet(lastAdded)
  <2> DEFINE i == file[s].under
  <2>1. /\ i \in DOMAIN file /\ file[i].kind \in Owners["state"] /\ Whole[i]
        /\ (file[i].kind # "backboard" => i \in Objects) /\ Within(s, "layer") = Within(i, "layer")
    BY <1>5, OwnerIs
  <2>2. file[i].kind = "layer" /\ i \in Objects
    BY <2>1, OwnersAre
  <2> HIDE DEF i
  <2>3. Within(i, "layer") = i
    BY <2>2, OwnerIs
  <2>4. Importer(i)
    BY <2>1, <2>2 DEF Importer, ImporterTypes
  <2> QED BY <1>1, <2>1, <2>3, <2>4 DEF KeptInv
<1>6. CASE file[p].kind = "state"
  BY <1>5, <1>6, ResolverIs
<1>7. CASE file[p].kind = "transition"
  <2> DEFINE s == file[p].under
  <2>1. /\ s \in DOMAIN file /\ file[s].kind \in Owners["transition"]
        /\ (file[s].kind # "backboard" => s \in Objects) /\ Within(p, "layer") = Within(s, "layer")
    BY <1>7, OwnerIs
  <2>2. file[s].kind = "state" /\ s \in Objects
    BY <2>1, OwnersAre
  <2> HIDE DEF s
  <2> QED BY <1>5, <1>7, <2>1, <2>2, ResolverIs
<1> QED BY <1>2, <1>3, <1>4, <1>6, <1>7

(* So every reference is right at the end.                                   *)
LEMMA EndLinks ==
  ASSUME Ground, Fits, IInv, TypedInv, LeftInv, RefsInv, ContentsInv, BoundInv, Finish, result' = "success",
         NEW p \in Objects, Linking(p)
  PROVE  Refers(p) = None \/ (p \in DOMAIN bound' /\ bound'[p] = Refers(p))
<1> DEFINE by == BoundBy(Len(lastAdded))
<1>1. result = "reading" /\ bound' = Overlay(by, bound)
  BY EndsAs
<1>2. /\ p \in DOMAIN by => Resolver(p) \in ToSet(lastAdded) \ (ToSet(done) \cup {0})
      /\ Resolver(p) \in ToSet(lastAdded) /\ p \in DOMAIN Binds(Resolver(p)) =>
           p \in DOMAIN by /\ by[p] = Binds(Resolver(p))[p]
  BY EndsAs, BoundAtEnd
<1> HIDE DEF by
<1>3. CASE Settled(p)
  <2>1. Right(p)
    BY <1>3 DEF BoundInv
  <2>2. p \notin DOMAIN by
    BY <1>2, <1>3 DEF Settled
  <2> QED BY <1>1, <2>1, <2>2, Overlaid DEF Right
<1>4. CASE ~Settled(p)
  <2>1. Resolver(p) # 0 /\ Resolver(p) \notin ToSet(done)
    BY <1>4 DEF Settled
  <2>2. Resolver(p) \in ToSet(lastAdded)
    BY <1>1, <2>1, ResolverKept
  <2>3. LinksWell(Resolver(p), p)
    BY <2>1, BindsRight
  <2>4. p \in DOMAIN by /\ (Refers(p) = None \/ by[p] = Refers(p))
    BY <1>2, <2>2, <2>3 DEF LinksWell
  <2> QED BY <1>1, <2>4, Overlaid
<1> QED BY <1>3, <1>4
-----------------------------------------------------------------------------
(* References resolve as meant while the file is read, and all of them once *)
(* it is accepted.                                                          *)
LinkInv ==
  /\ ReferencesFit
  /\ result = "reading" =>
       TypedInv /\ LeftInv /\ RefsInv /\ ContentsInv /\ BindableInv /\ BoundInv
  /\ Linked

(* What is meant is a matter of the file alone.                              *)
LEMMA SameFile ==
  ASSUME UNCHANGED file
  PROVE  Objects' = Objects /\ \A p : Meant(p)' = Meant(p)
<1>1. \A p, k : Within(p, k)' = Within(p, k)
  BY DEF Within
<1>2. \A o, l : Written(o, l)' = Written(o, l)
  BY DEF Written, WrittenIn
<1>3. Whole' = Whole
  BY DEF Whole
<1>4. Objects' = Objects
  BY <1>3 DEF Objects
<1>5. ASSUME NEW p PROVE Meant(p)' = Meant(p)
  BY DEF Meant, Within, Written, WrittenIn, Nth
<1> QED BY <1>4, <1>5

LEMMA InitLinks ==
  ASSUME ReferencesFit, Init
  PROVE  LinkInv
<1>1. file = <<>> /\ open = <<>> /\ added = <<>> /\ DOMAIN file = {} /\ DOMAIN open = {} /\ DOMAIN added = {}
      /\ result = "reading"
  BY DEF Init
<1>2. Objects = {}
  BY <1>1 DEF Objects
<1>3. TypedInv /\ LeftInv /\ RefsInv /\ BindableInv /\ BoundInv
  BY <1>1, <1>2 DEF TypedInv, LeftInv, RefsInv, BindableInv, BoundInv
<1>4. ContentsInv
  <2> SUFFICES ASSUME NEW a PROVE Len(Written(a, "contents")) <= 1
    BY DEF ContentsInv
  <2>1. Len(file) = 0
    BY <1>1
  <2>2. Written(a, "contents") = <<>>
    BY <2>1, InOrderNone DEF Written
  <2> QED BY <2>2
<1> QED BY <1>1, <1>3, <1>4 DEF LinkInv, Linked

(* The first object, and every other.                                        *)
LEMMA FirstLinks ==
  ASSUME ReadInv, OwnersInv, IInv', ImportBackboard
  PROVE  TypedInv' /\ LeftInv' /\ RefsInv' /\ ContentsInv' /\ BindableInv' /\ BoundInv'
<1> DEFINE o == [kind |-> "backboard", known |-> TRUE, ref |-> None, under |-> None]
<1>1. file = <<>> /\ file' = <<o>> /\ open' = <<1>> /\ Here = 1 /\ added' = added
  BY DEF ImportBackboard, Here
<1>2. o.kind = "backboard" /\ o.known = TRUE /\ o.under = None
  OBVIOUS
<1> HIDE DEF o
<1>3. Len(file') = 1 /\ DOMAIN file' = {1} /\ file'[1] = o /\ Len(file) = 0
  BY <1>1
<1>4. DOMAIN open' = {1} /\ open'[1] = 1
  BY <1>1
<1>5. DOMAIN added' = {}
  <2>1. \A k \in DOMAIN added : added[k].to \in 1 .. 0
    BY <1>3 DEF OwnersInv
  <2>2. \A k : k \notin DOMAIN added
    BY <2>1
  <2> QED BY <1>1, <2>2
<1>6. Objects' = {}
  BY <1>2, <1>3 DEF Objects
<1>7. TypedInv' /\ LeftInv' /\ BoundInv'
  BY <1>5, <1>6 DEF TypedInv, LeftInv, BoundInv
<1>8. RefsInv'
  BY <1>2, <1>3 DEF RefsInv, RefersWell
<1>9. BindableInv'
  BY <1>2, <1>3, <1>4 DEF BindableInv, BindsLast, KindAt
<1>10. ContentsInv'
  <2>1. ASSUME NEW a PROVE Len(Written(a, "contents")') <= 1
    <3> DEFINE S == {p \in DOMAIN file' : file'[p].under = a /\ ListOf(file'[p].kind) = "contents"}
    <3>1. Written(a, "contents")' = InOrder(S, 1)
      BY <1>3 DEF Written, WrittenIn
    <3>2. \A k \in 1 .. 1 : k \notin S
      BY <1>2, <1>3 DEF ListOf
    <3> HIDE DEF S
    <3>3. InOrder(S, 1) = <<>>
      BY <3>2, InOrderEmpty
    <3> QED BY <3>1, <3>3
  <2> QED BY <2>1 DEF ContentsInv
<1> QED BY <1>7, <1>8, <1>9, <1>10

LEMMA StepLinks ==
  ASSUME FileInv, GivenInv, ListingInv, KnowingInv, LinkInv, Next
  PROVE  LinkInv'
<1>1. /\ ReadInv /\ IInv /\ family \in Families /\ ReferencesFit /\ ReferencesFit'
      /\ PlaceholdersFit /\ NoHeads
  BY DEF FileInv, ReadInv, LinkInv, ListingInv, KnowingInv, ReferencesFit
<1>2. IInv' /\ ReadInv' /\ result = "reading"
  <2>1. FileInv'
    BY StepHolds
  <2> QED BY <1>1, <2>1, StepReads DEF FileInv, ReadInv
<1>3. Fits
  BY <1>1 DEF Fits
<1>4. Ground /\ TypedInv /\ LeftInv /\ RefsInv /\ ContentsInv /\ BindableInv /\ BoundInv
  BY <1>1, <1>2 DEF Ground, ListingInv, KnowingInv, LinkInv
<1>5. ImportBackboard \/ LinksOne \/ CutShort \/ Finish
  BY <1>1, <1>3, <1>4, StepLinksOne, NoOrphan
<1>6. result' # "success" => Linked'
  BY DEF Linked
<1>7. CASE ImportBackboard
  <2>1. result' # "success"
    BY <1>1, <1>7, StepReads DEF ImportBackboard, Finish
  <2> QED BY <1>1, <1>2, <1>4, <1>6, <1>7, <2>1, FirstLinks DEF Ground, LinkInv
<1>8. CASE LinksOne
  <2>1. PICK kind \in Kinds : \E known \in BOOLEAN : \E d \in Places(kind) : \E ref :
              Links(kind, known, d, ref)
    BY <1>8 DEF LinksOne
  <2>2. PICK known \in BOOLEAN : \E d \in Places(kind) : \E ref : Links(kind, known, d, ref)
    BY <2>1
  <2>3. PICK d \in Places(kind) : \E ref : Links(kind, known, d, ref)
    BY <2>2
  <2>4. PICK ref : Links(kind, known, d, ref)
    BY <2>3
  <2>5. result' # "success"
    <3>1. DOMAIN file' = DOMAIN file \cup {Here}
      BY <1>1, <1>2, <2>4, TreeGrows DEF Links, Reads
    <3>2. Here \notin DOMAIN file
      BY <1>1 DEF IInv, Shape, Here
    <3>3. ~Finish
      BY <3>1, <3>2 DEF Finish, disk
    <3> QED BY <1>1, <3>3, StepReads
  <2>6. TypedInv' /\ LeftInv'
    BY <1>2, <1>3, <1>4, <2>4, TypedKept DEF Links
  <2>7. RefsInv' /\ ContentsInv' /\ BindableInv'
    BY <1>2, <1>3, <1>4, <2>4, RefsKept, ContentsKept, BindableKept
  <2>8. result' = "reading" => BoundInv'
    BY <1>2, <1>3, <1>4, <2>4, BoundKept
  <2> QED BY <1>1, <1>6, <2>5, <2>6, <2>7, <2>8 DEF LinkInv
<1>9. CASE CutShort
  BY <1>1, <1>6, <1>9 DEF CutShort, LinkInv
<1>10. CASE Finish
  <2>1. result' # "reading"
    BY <1>1, <1>10, FinishIs
  <2>2. ASSUME result' = "success" PROVE Linked'
    <3>1. UNCHANGED file
      BY <1>1, <1>10, <2>2, EndsAs
    <3>2. Objects' = Objects /\ \A p : Meant(p)' = Meant(p)
      BY <3>1, SameFile
    <3>3. \A p \in Objects : Linking(p) => Refers(p) = None \/ bound'[p] = Refers(p)
      BY <1>1, <1>3, <1>4, <1>10, <2>2, EndLinks
    <3>4. ASSUME NEW p \in Objects,
                 file[p].kind \in {"transition", "blend", "nested", "image", "keyFrame", "bind", "asset"}
                   \/ (file[p].kind = "state" /\ file[p].ref # None)
          PROVE  Meant(p) = None \/ bound'[p] = Meant(p)
      <4>1. Linking(p)
        BY <3>4 DEF Linking
      <4>2. file[p].kind \notin {"layer", "keyedProperty"}
        BY <3>4
      <4>3. Refers(p) = Meant(p)
        BY <4>2 DEF Refers
      <4> QED BY <3>3, <4>1, <4>3
    <3> QED BY <3>1, <3>2, <3>4 DEF Linked
  <2> QED BY <1>1, <1>6, <2>1, <2>2 DEF LinkInv
<1> QED BY <1>5, <1>7, <1>8, <1>9, <1>10

LEMMA StutterLinks ==
  ASSUME LinkInv, UNCHANGED vars
  PROVE  LinkInv'
<1>1. UNCHANGED <<file, open, family, added, latest, lastAdded, done, bindable, bound, result>>
  BY DEF vars, disk, stack
<1>2. Objects' = Objects /\ \A p : Meant(p)' = Meant(p)
  BY <1>1, SameFile
<1>3. Linked'
  BY <1>1, <1>2 DEF LinkInv, Linked
<1>4. \A o, l : Written(o, l)' = Written(o, l)
  BY <1>1 DEF Written, WrittenIn
<1>5. \A p, k : Within(p, k)' = Within(p, k)
  BY <1>1 DEF Within
<1>6. \A p : Refers(p)' = Refers(p) /\ Resolver(p)' = Resolver(p)
  BY <1>1, <1>2, <1>5 DEF Refers, Resolver
<1>7. (TypedInv => TypedInv') /\ (LeftInv => LeftInv')
  <2>1. TypedInv => TypedInv'
    BY <1>1 DEF TypedInv, TypedAt
  <2>2. LeftInv => LeftInv'
    BY <1>1, <1>2 DEF LeftInv, LeftWord, LeftAs
  <2> QED BY <2>1, <2>2
<1>8. RefsInv => RefsInv'
  <2>1. \A r, a : HasIn(r, a)' = HasIn(r, a)
    BY <1>4 DEF HasIn
  <2>2. \A p : RefersWell(p) => RefersWell(p)'
    <3> SUFFICES ASSUME NEW p, RefersWell(p) PROVE RefersWell(p)'
      OBVIOUS
    <3>1. HasIn(file[p].ref, Within(p, "artboard"))' = HasIn(file[p].ref, Within(p, "artboard"))
      BY <1>1, <1>4, <1>5 DEF HasIn
    <3> HIDE DEF HasIn
    <3> QED BY <1>1, <3>1 DEF RefersWell
  <2> QED BY <1>1, <2>2 DEF RefsInv
<1>9. ContentsInv => ContentsInv'
  BY <1>4 DEF ContentsInv
<1>10. BindableInv => BindableInv'
  BY <1>1 DEF BindableInv, BindsLast, KindAt
<1>11. BoundInv => BoundInv'
  BY <1>1, <1>2, <1>6 DEF BoundInv, Linking, Settled, Right
<1>12. ReferencesFit'
  BY DEF LinkInv, ReferencesFit
<1> QED BY <1>1, <1>3, <1>7, <1>8, <1>9, <1>10, <1>11, <1>12 DEF LinkInv

(* A file that is accepted has every object bound to what it refers to, if  *)
(* no type newer than this runtime is one that keeps no place in a list that *)
(* is referred to by index (ImportStack::resolve, the importers' resolve()). *)
THEOREM EveryReferenceResolves ==
  PlaceholdersFit /\ NoHeads /\ ReferencesFit => (Spec => []Linked)
<1>1. PlaceholdersFit /\ Init => ListingInv
  BY InitLists
<1>2. NoHeads /\ Init => KnowingInv
  BY DEF Init, KnowingInv, KnownInv
<1>3. ReferencesFit /\ Init => LinkInv
  BY InitLinks
<1>4. FileInv /\ GivenInv /\ ListingInv /\ [Next]_vars => ListingInv'
  BY StepLists, StutterLists
<1>5. FileInv /\ GivenInv /\ ListingInv /\ KnowingInv /\ [Next]_vars => KnowingInv'
  BY StepKnows, StutterKnows
<1>6. FileInv /\ GivenInv /\ ListingInv /\ KnowingInv /\ LinkInv /\ [Next]_vars => LinkInv'
  BY StepLinks, StutterLinks
<1>7. LinkInv => Linked
  BY DEF LinkInv
<1> QED BY <1>1, <1>2, <1>3, <1>4, <1>5, <1>6, <1>7, FileHolds, GivenHolds, PTL DEF Spec
=============================================================================
