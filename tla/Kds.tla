-------------------------------- MODULE Kds --------------------------------
(***************************************************************************)
(* The module of "Assignment 2 Kernel Data Structures/kds.c": when loaded  *)
(* it parses its parameter int_str and takes the numbers through a linked  *)
(* list, a hash table, a red-black tree, a radix tree, an xarray and a     *)
(* bitmap, one after the other.                                            *)
(*                                                                         *)
(* The parameter is the sequence of its words between the spaces; a word   *)
(* is a number, or Empty where a space is first, last or follows another   *)
(* one.  A node of a container is named by the position of its number.     *)
(* remove_hash_table and remove_rb_tree read links of nodes they have just *)
(* freed; the kernel that the assignments patch (5.8) leaves those two     *)
(* links in place, and so does this model.  A store outside of an array    *)
(* may end the kernel at any later time, or do no harm.  Printing is left  *)
(* out, except for what the lookups find.                                  *)
(***************************************************************************)
EXTENDS Integers, Sequences, FiniteSets, FiniteSetsExt

CONSTANTS
  Inputs,    \* the values of int_str, as sequences of words
  Empty,     \* the word without characters
  Slots,     \* the size of results in lookup_tagged_tree: 10
  Limit      \* how many results its gang lookup asks for: 100

\* Any parameter of digits and spaces; the empty one is one Empty word.
ASSUME InputAssumption ==
  /\ Empty \notin Nat
  /\ \A w \in Inputs : w \in Seq(Nat \cup {Empty}) /\ w # <<>>

ASSUME SlotsAssumption == Slots \in Nat /\ Limit \in Nat /\ Slots < Limit

\* The loops of each run_ function, and lkp_init's order of the functions.
run_linked_list == << <<"list", "insert">>, <<"list", "drain">> >>
run_hash_table ==
  << <<"hash", "insert">>, <<"hash", "lookup">>, <<"hash", "remove">> >>
run_redblack_trees ==
  << <<"rbtree", "insert">>, <<"rbtree", "lookup">>, <<"rbtree", "drain">> >>
run_radix_tree ==
  << <<"radix", "insert">>, <<"radix", "lookup">>, <<"radix", "tag">>,
     <<"radix", "tagged">>, <<"radix", "remove">>, <<"radix", "relookup">> >>
run_xarray ==
  << <<"xarray", "insert">>, <<"xarray", "lookup">>, <<"xarray", "tag">>,
     <<"xarray", "tagged">>, <<"xarray", "remove">> >>
run_bitmap == << <<"bitmap", "set">>, <<"bitmap", "show">> >>
Plan == run_linked_list \o run_hash_table \o run_redblack_trees
          \o run_radix_tree \o run_xarray \o run_bitmap

\* The value of at when the kernel has died in the module.
Crashed == -1

VARIABLES
  int_array,  \* the parsed numbers
  at,         \* the loop of Plan that runs; 0 before, Len(Plan) + 1 after
  i,          \* its index, from 1
  heap,       \* the nodes that are allocated, with their containers
  nodes,      \* the nodes linked into the current container
  tagged,     \* the tagged ones of them
  seen,       \* the numbers that the current loop found
  bits,       \* the set bits of mybitmap
  overran     \* the arrays behind whose end something was stored

vars == <<int_array, at, i, heap, nodes, tagged, seen, bits, overran>>

count == Len(int_array)
Running == at \in 1 .. Len(Plan)
Kind == Plan[at][1]
Loop == Plan[at][2]

TypeOK ==
  /\ int_array \in Seq(Nat)
  /\ at \in {Crashed} \cup (0 .. Len(Plan) + 1)
  /\ i \in 1 .. count + 1
  /\ heap \subseteq {"list", "hash", "rbtree", "radix", "xarray"} \X (1 .. count)
  /\ nodes \subseteq 1 .. count
  /\ tagged \subseteq nodes
  /\ seen \subseteq Nat
  /\ bits \subseteq 0 .. 30
  /\ overran \subseteq {"int_array", "results"}

Init ==
  /\ int_array = <<>>
  /\ at = 0 /\ i = 1
  /\ heap = {} /\ nodes = {} /\ tagged = {} /\ seen = {}
  /\ bits = {} /\ overran = {}

----------------------------------------------------------------------------
(* Parsing. *)

\* Mutant: no number is started for a word without digits.
ValueUnset(word) == word

\* sum starts from 0 at every word.
Value(word) == IF word = Empty THEN 0 ELSE word

\* The numbers that lkp_init makes room for: none behind a last space.
Count(words) == IF words[Len(words)] = Empty THEN Len(words) - 1 ELSE Len(words)

\* convert_str_to_integers stores every word, also one that was not counted.
\* Without any room the first store faults.
lkp_init(words) ==
  /\ at = 0
  /\ int_array' = [k \in 1 .. Count(words) |-> Value(words[k])]
  /\ overran' = IF Count(words) < Len(words) THEN {"int_array"} ELSE {}
  /\ at' = IF Count(words) = 0 THEN Crashed ELSE 1
  /\ UNCHANGED <<i, heap, nodes, tagged, seen, bits>>

\* What was stored outside is found by whoever owns that memory.
Oops ==
  /\ Running /\ overran # {}
  /\ at' = Crashed
  /\ UNCHANGED <<int_array, i, heap, nodes, tagged, seen, bits, overran>>

----------------------------------------------------------------------------
(* The loops. *)

Matching(number) == {n \in nodes : int_array[n] = number}

\* The nodes that are linked after node n: the list and the hash table take
\* every node, the trees refuse a number they have, and xa_store puts the new
\* node in the place of the old one.
list_add(n) == nodes \cup {n}
hash_add(n) == nodes \cup {n}
insert_rb_tree(n) ==
  IF Matching(int_array[n]) = {} THEN nodes \cup {n} ELSE nodes
\* Mutant: the radix tree takes a number again.
RadixTakesAll(n) == nodes \cup {n}
radix_tree_insert(n) ==
  IF Matching(int_array[n]) = {} THEN nodes \cup {n} ELSE nodes
xa_store(n) == (nodes \ Matching(int_array[n])) \cup {n}

Linked(n) ==
  CASE Kind = "list" -> list_add(n) [] Kind = "hash" -> hash_add(n)
    [] Kind = "rbtree" -> insert_rb_tree(n)
    [] Kind = "radix" -> radix_tree_insert(n) [] Kind = "xarray" -> xa_store(n)

\* kmalloc and insert, for every number.
InsertOne ==
  /\ Running /\ Loop = "insert" /\ i <= count
  /\ heap' = heap \cup {<<Kind, i>>}
  /\ nodes' = Linked(i)
  /\ i' = i + 1
  /\ UNCHANGED <<int_array, at, tagged, seen, bits, overran>>

\* The lookups, which print the numbers that they find.
LookupOne ==
  /\ Running /\ Loop \in {"lookup", "relookup"} /\ i <= count
  /\ seen' = seen \cup {int_array[n] : n \in Matching(int_array[i])}
  /\ i' = i + 1
  /\ UNCHANGED <<int_array, at, heap, nodes, tagged, bits, overran>>

\* Mutant: even numbers.
ToTagEven(number) == number % 2 = 0

ToTag(number) == number % 2 = 1

TagOne ==
  /\ Running /\ Loop = "tag" /\ i <= count
  /\ tagged' = tagged \cup {n \in Matching(int_array[i]) : ToTag(int_array[n])}
  /\ i' = i + 1
  /\ UNCHANGED <<int_array, at, heap, nodes, seen, bits, overran>>

\* The gang lookup of the radix tree takes the first Limit tagged nodes, in
\* the order of their numbers, and stores them without regard to Slots.
GangLookup ==
  {n \in tagged : Cardinality({m \in tagged : int_array[m] < int_array[n]}) < Limit}

lookup_tagged_tree ==
  /\ seen' = {int_array[n] : n \in GangLookup}
  /\ overran' = overran \cup (IF Cardinality(tagged) > Slots THEN {"results"} ELSE {})

\* The loop over the marked entries of the xarray.
lookup_tagged ==
  /\ seen' = {int_array[n] : n \in tagged}
  /\ UNCHANGED overran

LookupTagged ==
  /\ Running /\ Loop = "tagged" /\ i <= count
  /\ IF Kind = "radix" THEN lookup_tagged_tree ELSE lookup_tagged
  /\ i' = count + 1
  /\ UNCHANGED <<int_array, at, heap, nodes, tagged, bits>>

\* Mutants: the nodes are freed and stay where they are; they are not freed.
FreedLinked(ns) ==
  /\ heap' = heap \ ({Kind} \X ns)
  /\ UNCHANGED <<nodes, tagged>>
FreedNever(ns) ==
  /\ nodes' = nodes \ ns
  /\ tagged' = tagged \ ns
  /\ UNCHANGED heap

\* Unlink and kfree.
Freed(ns) ==
  /\ heap' = heap \ ({Kind} \X ns)
  /\ nodes' = nodes \ ns
  /\ tagged' = tagged \ ns

\* Mutant: the last number of the array is not removed.
RadixKeepsLast(number) == IF i = count THEN {} ELSE Matching(number)

\* What a removal by number takes: the hash table's loop ends after the first
\* node, the last one added, because hash_del clears its link; the trees hold
\* one node at most.
remove_hash_table(number) ==
  LET ns == Matching(number) IN IF ns = {} THEN {} ELSE {Max(ns)}
remove_radix_tree(number) == Matching(number)
remove_xarray(number) == Matching(number)

RemoveOne ==
  /\ Running /\ Loop = "remove" /\ i <= count
  /\ Freed(CASE Kind = "hash" -> remove_hash_table(int_array[i])
             [] Kind = "radix" -> remove_radix_tree(int_array[i])
             [] Kind = "xarray" -> remove_xarray(int_array[i]))
  /\ i' = i + 1
  /\ UNCHANGED <<int_array, at, seen, bits, overran>>

\* The order in which a whole container is emptied: the list from its head,
\* the last node added; the tree from its smallest number.
ListFirst == Max(nodes)
TreeFirst == CHOOSE n \in nodes : \A m \in nodes : int_array[n] <= int_array[m]

DrainOne ==
  /\ Running /\ Loop = "drain" /\ nodes # {}
  /\ Freed({IF Kind = "list" THEN ListFirst ELSE TreeFirst})
  /\ UNCHANGED <<int_array, at, i, seen, bits, overran>>

\* The bits of a number in binary, which run_bitmap sets.
Digits(number) == {b \in 0 .. 30 : (number \div 2 ^ b) % 2 = 1}

\* Mutant: the index of the loop does not move.
SetBitsStuck ==
  /\ Running /\ Loop = "set" /\ i <= count
  /\ bits' = bits \cup Digits(int_array[i])
  /\ UNCHANGED <<int_array, at, i, heap, nodes, tagged, seen, overran>>

SetBits ==
  /\ Running /\ Loop = "set" /\ i <= count
  /\ bits' = bits \cup Digits(int_array[i])
  /\ i' = i + 1
  /\ UNCHANGED <<int_array, at, heap, nodes, tagged, seen, overran>>

\* All set bits are printed, and then cleared.
ShowBits ==
  /\ Running /\ Loop = "show" /\ i <= count
  /\ bits' = {}
  /\ i' = count + 1
  /\ UNCHANGED <<int_array, at, heap, nodes, tagged, seen, overran>>

\* The end of a loop; a container is local to its run_ function, so that what
\* it still links is lost with it.
NextLoop ==
  /\ Running
  /\ IF Loop = "drain" THEN nodes = {} ELSE i > count
  /\ at' = at + 1 /\ i' = 1 /\ seen' = {}
  /\ IF at = Len(Plan) \/ Plan[at + 1][1] # Kind
     THEN nodes' = {} /\ tagged' = {}
     ELSE UNCHANGED <<nodes, tagged>>
  /\ UNCHANGED <<int_array, heap, bits, overran>>

Next ==
  \/ \E words \in Inputs : lkp_init(words)
  \/ Oops
  \/ InsertOne \/ LookupOne \/ TagOne \/ LookupTagged
  \/ RemoveOne \/ DrainOne \/ SetBits \/ ShowBits \/ NextLoop

Spec == Init /\ [][Next]_vars

\* Loading a module runs its init function to the end, or to the kernel's.
FairSpec == Spec /\ WF_vars(Next)

----------------------------------------------------------------------------
(* Properties. *)

\* What is linked is allocated: no container ever leads to a freed node.
NoDangling == Running => \A n \in nodes : <<Kind, n>> \in heap

\* The lookups find every number that was inserted, and after the removal the
\* repeated lookup of the radix tree finds none.
LookupsFind ==
  Running =>
    /\ Loop = "lookup" => seen = {int_array[k] : k \in 1 .. i - 1}
    /\ Loop = "relookup" => seen = {}

OddNumbers == {x \in {int_array[k] : k \in 1 .. count} : x % 2 = 1}

\* The lookups by tag find only odd numbers, and all of them, except that the
\* radix tree's one stops at Limit.
TaggedAreOdd ==
  Running /\ Loop = "tagged" /\ i > 1 =>
    /\ seen \subseteq OddNumbers
    /\ Kind = "xarray" \/ Cardinality(OddNumbers) <= Limit => seen = OddNumbers

\* results is left by the gang lookup exactly when there are more different odd
\* numbers than it has room for: numbers that are repeated need no more room,
\* because the radix tree has refused them.
ResultsOverrun ==
  /\ "results" \in overran => Cardinality(OddNumbers) > Slots
  /\ at = Len(Plan) + 1 /\ Cardinality(OddNumbers) > Slots => "results" \in overran

\* The list and the hash table free all they allocated, equal numbers
\* included; the trees and the xarray leak at most nodes of numbers that are
\* there more than once.
LeaksOnlyDuplicates ==
  at = Len(Plan) + 1 =>
    \A h \in heap :
      /\ h[1] \notin {"list", "hash"}
      /\ \E k \in 1 .. count \ {h[2]} : int_array[k] = int_array[h[2]]

\* Every loop ends, and so does loading the module, unless a store outside of an
\* array is the kernel's end.
Loads == <>(at = Len(Plan) + 1 \/ (at = Crashed /\ overran # {}))
=============================================================================
