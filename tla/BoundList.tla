------------------------------ MODULE BoundList ------------------------------
(***************************************************************************)
(* How a list of a view model is shown: DataBindContextValueList keeps an  *)
(* artboard instance for each item of the list, and brings its cache of    *)
(* them in line when the list has changed.                                 *)
(***************************************************************************)
EXTENDS Naturals, SequencesExt

(* createArtboard and createStateMachineInstance for an item: no stands    *)
(* for the one instance.                                                   *)
Instance(item, no) == [item |-> item, no |-> no]

(* The position behind k in which the item is cached, or 0.                *)
Later(cache, k, item) ==
  SelectInSubSeq(cache, k + 1, Len(cache), LAMBDA e : e.item = item)

SwapItems(s, i, j) == [s EXCEPT ![i] = s[j], ![j] = s[i]]

(* Mutant: what is in the way is replaced.                                 *)
Overwritten(cache, k, item, no) ==
  IF k > Len(cache) THEN Append(cache, Instance(item, no))
  ELSE IF cache[k].item = item THEN cache
  ELSE LET j == Later(cache, k, item)
       IN  IF j # 0 THEN SwapItems(cache, k, j)
           ELSE [cache EXCEPT ![k] = Instance(item, no)]

(* The cache once position k shows the item.                               *)
Placed(cache, k, item, no) ==
  IF k > Len(cache) THEN Append(cache, Instance(item, no))
  ELSE IF cache[k].item = item THEN cache
  ELSE LET j == Later(cache, k, item)
       IN  IF j # 0 THEN SwapItems(cache, k, j)
           ELSE InsertAt(cache, k, Instance(item, no))

(* The cache once the first positions show the items of the list; from no  *)
(* on the numbers are not taken.                                           *)
Matched(cache, items, no) ==
  LET upTo[k \in 0 .. Len(items)] ==
        IF k = 0 THEN cache
        ELSE LET c == upTo[k - 1] IN Placed(c, k, items[k], no + k)
  IN  upTo[Len(items)]

(* Mutant: one instance too many is kept.                                  *)
OneMore(cache, items) == SubSeq(cache, 1, Min({Len(cache), Len(items) + 1}))

(* What is left once the rest is popped, if the list is not empty.         *)
Popped(cache, items) == SubSeq(cache, 1, Len(items))

(* update(target).                                                         *)
Updated(cache, items, no) == Popped(Matched(cache, items, no), items)

(* The loop that pops compares an int with a size_t: for an empty list it  *)
(* does not stop and pops from a vector that has nothing left.             *)
PopsEmpty(items) == items = <<>>
=============================================================================
