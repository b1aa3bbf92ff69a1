-------------------------- MODULE DependencySorter --------------------------
(***************************************************************************)
(* DependencySorter::sort: a depth first walk over the dependents of each  *)
(* component that puts every component in front of its dependents, or      *)
(* finds that they form a cycle.  The artboard sorts its components this   *)
(* way into the order updateComponents visits them in, and its draw        *)
(* targets into the order sortDrawOrder places their groups in.            *)
(*                                                                         *)
(* The recursion of visit is a stack of the calls that are open, each with *)
(* the dependent it comes to next.                                         *)
(***************************************************************************)
EXTENDS Naturals, Sequences, FiniteSets

CONSTANTS
  Components,
  Roots,      (* the components sort is called with, one or several        *)
  Graphs      (* the dependents each component may have, in order          *)

ASSUME SorterAssumption ==
  /\ Roots \in Seq(Components)
  /\ Graphs \subseteq [Components -> Seq(Components)]

VARIABLES
  graph,  (* the dependents of each component                              *)
  perm,   (* m_Perm                                                        *)
  temp,   (* m_Temp                                                        *)
  order,  (* the result, as far as it is known                             *)
  stack,  (* the open calls of visit                                       *)
  root,   (* which of the roots comes next                                 *)
  failed  (* a cycle was found                                             *)

vars == <<graph, perm, temp, order, stack, root, failed>>

Frame == [component : Components, child : Nat \ {0}]

Top == stack[Len(stack)]

Init ==
  /\ graph \in Graphs
  /\ perm = {} /\ temp = {} /\ order = <<>> /\ stack = <<>>
  /\ root = 1
  /\ failed = FALSE

(* The next call is visit(c).                                              *)
Calls(c) ==
  \/ stack = <<>> /\ root \in DOMAIN Roots /\ c = Roots[root]
  \/ /\ stack # <<>>
     /\ Top.child \in DOMAIN graph[Top.component]
     /\ c = graph[Top.component][Top.child]

(* The loop over the dependents has come one further.                      *)
NextChild ==
  IF stack = <<>> THEN stack ELSE [stack EXCEPT ![Len(stack)].child = @ + 1]

NextRoot == IF stack = <<>> THEN root + 1 ELSE root

(* visit returns true at once.                                             *)
Known(c) ==
  /\ Calls(c)
  /\ c \in perm
  /\ stack' = NextChild /\ root' = NextRoot
  /\ UNCHANGED <<graph, perm, temp, order, failed>>

(* Mutant: a component that is done looks like one that is open.           *)
SeenBefore(c) == c \in temp

IsOpen(c) == c \in temp /\ c \notin perm

(* visit returns false, and so do all the calls that are open.             *)
Cycle(c) ==
  /\ Calls(c)
  /\ IsOpen(c)
  /\ failed' = TRUE
  /\ stack' = <<>> /\ root' = NextRoot
  /\ UNCHANGED <<graph, perm, temp, order>>

IsNew(c) == c \notin temp /\ c \notin perm

Enter(c) ==
  /\ Calls(c)
  /\ IsNew(c)
  /\ temp' = temp \cup {c}
  /\ stack' = Append(NextChild, [component |-> c, child |-> 1])
  /\ root' = NextRoot
  /\ UNCHANGED <<graph, perm, order, failed>>

(* Mutant: a finished component goes behind the others.                    *)
AtTheBack(c) == Append(order, c)

InFront(c) == <<c>> \o order

(* All dependents were visited: the component goes in front of them.       *)
Finish ==
  /\ stack # <<>>
  /\ Top.child \notin DOMAIN graph[Top.component]
  /\ perm' = perm \cup {Top.component}
  /\ order' = InFront(Top.component)
  /\ stack' = SubSeq(stack, 1, Len(stack) - 1)
  /\ UNCHANGED <<graph, temp, root, failed>>

Done == stack = <<>> /\ root \notin DOMAIN Roots

Next == (\E c \in Components : Known(c) \/ Cycle(c) \/ Enter(c)) \/ Finish

Spec == Init /\ [][Next]_vars

-----------------------------------------------------------------------------
TypeOK ==
  /\ graph \in Graphs
  /\ perm \subseteq Components
  /\ temp \subseteq Components
  /\ order \in Seq(Components)
  /\ stack \in Seq(Frame)
  /\ root \in Nat \ {0}
  /\ failed \in BOOLEAN

(* Every component in the order comes before all its dependents, at any    *)
(* time, also in what a cycle left unfinished.                             *)
DependentsFollow ==
  \A i \in DOMAIN order : \A k \in DOMAIN graph[order[i]] :
    \E j \in DOMAIN order : i < j /\ order[j] = graph[order[i]][k]

(* No component is in the order twice, however many ways lead to it.       *)
NoRepeats == \A i, j \in DOMAIN order : order[i] = order[j] => i = j

Children(S) == UNION {{graph[c][k] : k \in DOMAIN graph[c]} : c \in S}

(* What the walk can reach from component c in one call or more: all that  *)
(* is in every set that has the dependents of c, and those of its own.     *)
Below(c) ==
  {d \in Components : \A S \in SUBSET Components : Children(S \cup {c}) \subseteq S => d \in S}

Above == {Roots[k] : k \in DOMAIN Roots}

(* A sort that found no cycle has everything the roots lead to, and one    *)
(* that did was right.                                                     *)
SortIsComplete ==
  Done => /\ failed <=> \E r \in Above : \E c \in {r} \cup Below(r) : c \in Below(c)
          /\ ~failed => perm = Above \cup UNION {Below(r) : r \in Above}
=============================================================================
