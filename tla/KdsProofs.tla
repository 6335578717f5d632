----------------------------- MODULE KdsProofs -----------------------------
(***************************************************************************)
(* Proofs about Kds, for parameters of any length: the containers never    *)
(* lead to freed memory, the lookups find what was inserted, and only      *)
(* nodes of repeated numbers are leaked.                                   *)
(***************************************************************************)
EXTENDS Kds, FiniteSetTheorems, WellFoundedInduction, TLAPS

----------------------------------------------------------------------------
(* Lemmas about numbers and about Plan. *)

\* A set of natural numbers that is not empty has a least element.
LEMMA LeastNumber ==
  ASSUME NEW T \in SUBSET Nat, T # {}
  PROVE  \E x \in T : \A y \in T : x <= y
  <1> DEFINE R == {ss \in Nat \X Nat : ss[1] < ss[2]}
  <1>1. IsWellFoundedOn(R, Nat)
    BY NatLessThanWellFounded DEF OpToRel
  <1> HIDE DEF R
  <1>2. PICK x \in T : \A y \in T : ~ (<<y, x>> \in R)
    BY <1>1, WFMin
  <1>3. \A y \in T : y < x => <<y, x>> \in R
    BY DEF R
  <1>4. \A y \in T : ~ (y < x)
    BY <1>2, <1>3, Zenon
  <1>5. \A y \in T : x <= y
    BY <1>4
  <1>6. QED BY <1>5

\* Max is what its name says.
LEMMA MaxInSet ==
  ASSUME NEW m \in Nat, NEW S \in SUBSET (1 .. m), S # {}
  PROVE  Max(S) \in S
  <1> DEFINE T == {m - x : x \in S}
  <1>1. T \in SUBSET Nat /\ T # {}
    <2>1. \A x \in S : m - x \in Nat
      OBVIOUS
    <2>2. QED BY <2>1
  <1> HIDE DEF T
  <1>2. PICK y \in T : \A z \in T : y <= z
    BY <1>1, LeastNumber
  <1>3. PICK x \in S : y = m - x
    BY <1>2 DEF T
  <1>4. \A z \in S : m - z \in T
    BY DEF T
  <1>5. \A z \in S : x >= z
    BY <1>2, <1>3, <1>4
  <1>6. QED BY <1>3, <1>5 DEF Max

\* The loops of lkp_init, in order.
LEMMA PlanTable ==
  /\ Len(Plan) = 21
  /\ Plan[1] = <<"list", "insert">> /\ Plan[2] = <<"list", "drain">>
  /\ Plan[3] = <<"hash", "insert">> /\ Plan[4] = <<"hash", "lookup">>
  /\ Plan[5] = <<"hash", "remove">>
  /\ Plan[6] = <<"rbtree", "insert">> /\ Plan[7] = <<"rbtree", "lookup">>
  /\ Plan[8] = <<"rbtree", "drain">>
  /\ Plan[9] = <<"radix", "insert">> /\ Plan[10] = <<"radix", "lookup">>
  /\ Plan[11] = <<"radix", "tag">> /\ Plan[12] = <<"radix", "tagged">>
  /\ Plan[13] = <<"radix", "remove">> /\ Plan[14] = <<"radix", "relookup">>
  /\ Plan[15] = <<"xarray", "insert">> /\ Plan[16] = <<"xarray", "lookup">>
  /\ Plan[17] = <<"xarray", "tag">> /\ Plan[18] = <<"xarray", "tagged">>
  /\ Plan[19] = <<"xarray", "remove">>
  /\ Plan[20] = <<"bitmap", "set">> /\ Plan[21] = <<"bitmap", "show">>
  BY DEF Plan, run_linked_list, run_hash_table, run_redblack_trees,
         run_radix_tree, run_xarray, run_bitmap

LoopOf(k) == Plan[k][2]
KindOf(k) == Plan[k][1]

\* What the proofs need to know of the order of the loops.
LEMMA PlanOrder ==
  ASSUME NEW k \in 1 .. Len(Plan)
  PROVE  /\ LoopOf(k) \in {"insert", "lookup", "tag", "tagged", "remove",
                           "relookup", "drain", "set", "show"}
         /\ LoopOf(k) \in {"insert", "lookup"} =>
              KindOf(k) \in {"list", "hash", "rbtree", "radix", "xarray"}
         /\ LoopOf(k) \in {"tag", "tagged", "relookup"} =>
              KindOf(k) \in {"radix", "xarray"}
         /\ LoopOf(k) = "remove" => KindOf(k) \in {"hash", "radix", "xarray"}
         /\ LoopOf(k) = "drain" => KindOf(k) \in {"list", "rbtree"}
  BY PlanTable DEF LoopOf, KindOf

\* The next loop is one of the same container, or the first one of another,
\* which only comes behind a loop that empties its container.
LEMMA PlanNext ==
  ASSUME NEW k \in 1 .. Len(Plan) - 1
  PROVE  /\ KindOf(k + 1) # KindOf(k) =>
              /\ LoopOf(k) \in {"drain", "remove", "relookup"}
              /\ LoopOf(k) = "remove" => KindOf(k) \in {"hash", "xarray"}
              /\ LoopOf(k + 1) \in {"insert", "set"}
         /\ KindOf(k + 1) = KindOf(k) =>
              \/ LoopOf(k) = "insert" /\ LoopOf(k + 1) \in {"lookup", "drain"}
              \/ LoopOf(k) = "lookup" /\ LoopOf(k + 1) \in {"tag", "drain"}
              \/ /\ LoopOf(k) = "lookup" /\ LoopOf(k + 1) = "remove"
                 /\ KindOf(k) = "hash"
              \/ LoopOf(k) = "tag" /\ LoopOf(k + 1) = "tagged"
              \/ /\ LoopOf(k) = "tagged" /\ LoopOf(k + 1) = "remove"
                 /\ KindOf(k) # "hash"
              \/ /\ LoopOf(k) = "remove" /\ LoopOf(k + 1) = "relookup"
                 /\ KindOf(k) # "hash"
              \/ LoopOf(k) = "set" /\ LoopOf(k + 1) = "show"
  BY PlanTable DEF LoopOf, KindOf

LEMMA PlanEnds ==
  /\ Len(Plan) \in Nat \ {0}
  /\ LoopOf(1) = "insert" /\ KindOf(1) = "list"
  /\ LoopOf(Len(Plan)) = "show"
  BY PlanTable DEF LoopOf, KindOf

----------------------------------------------------------------------------
(* The inductive invariant. *)

\* Every one of the first m numbers is in a node of the container.
Found(m) == \A k \in 1 .. m : \E n \in nodes : int_array[n] = int_array[k]

Repeated(n) == \E k \in 1 .. count \ {n} : int_array[k] = int_array[n]

\* What is allocated is linked, or is a leaked node of a repeated number.
Kept ==
  \A h \in heap :
    \/ Running /\ h[1] = Kind /\ h[2] \in nodes
    \/ h[1] \notin {"list", "hash"} /\ Repeated(h[2])

\* The numbers at and behind the index that are equal to v.
Ahead(v) == {k \in i .. count : int_array[k] = v}

\* The hash table keeps equal numbers, and a removal takes one node: as many
\* nodes of a number are left as removals of it are still to come.
EnoughRemovals == \A v \in Nat : Cardinality(Matching(v)) = Cardinality(Ahead(v))

\* What each loop has done so far and what the ones before it have left.
InsertInv ==
  /\ nodes \subseteq 1 .. i - 1 /\ tagged = {} /\ Found(i - 1)
  /\ Kind = "hash" => nodes = 1 .. i - 1
LookupInv ==
  /\ tagged = {} /\ Found(count)
  /\ seen = {int_array[k] : k \in 1 .. i - 1}
  /\ Kind = "hash" => nodes = 1 .. count
TagInv ==
  /\ Found(count)
  /\ tagged = {n \in nodes : /\ int_array[n] % 2 = 1
                             /\ \E k \in 1 .. i - 1 : int_array[k] = int_array[n]}
TaggedInv ==
  /\ Found(count)
  /\ tagged = {n \in nodes : int_array[n] % 2 = 1}
  /\ i > 1 => seen = {int_array[n] : n \in IF Kind = "radix" THEN GangLookup
                                                       ELSE tagged}
RemoveInv ==
  IF Kind = "hash" THEN EnoughRemovals
  ELSE \A k \in 1 .. i - 1 : Matching(int_array[k]) = {}
RelookupInv == nodes = {} /\ seen = {}

LoopInv ==
  /\ Loop = "insert" => InsertInv
  /\ Loop = "lookup" => LookupInv
  /\ Loop = "tag" => TagInv
  /\ Loop = "tagged" => TaggedInv
  /\ Loop = "remove" => RemoveInv
  /\ Loop = "relookup" => RelookupInv
  /\ Loop \in {"set", "show"} => nodes = {}

KdsInv ==
  /\ TypeOK
  /\ at = 0 => heap = {} /\ i = 1 /\ seen = {}
  /\ at \in {0, Len(Plan) + 1} => nodes = {}
  /\ NoDangling
  /\ at # Crashed => Kept
  /\ Running => LoopInv

----------------------------------------------------------------------------
(* The steps. *)

LEMMA KdsInit == Init => KdsInv
  <1> SUFFICES ASSUME Init PROVE KdsInv
    OBVIOUS
  <1>1. at \notin 1 .. Len(Plan) /\ Len(Plan) \in Nat
    BY PlanEnds DEF Init
  <1>2. count = 0 /\ int_array \in Seq(Nat)
    BY DEF Init, count
  <1>3. QED
    BY <1>1, <1>2 DEF Init, KdsInv, TypeOK, NoDangling, Kept, Running

LEMMA KdsLoad ==
  ASSUME KdsInv, NEW words \in Inputs, lkp_init(words)
  PROVE  KdsInv'
  <1> DEFINE c == Count(words)
  <1>1. words \in Seq(Nat \cup {Empty}) /\ words # <<>>
    BY InputAssumption
  <1>2. c \in Nat /\ \A k \in 1 .. c : Value(words[k]) \in Nat
    BY <1>1 DEF Value, Count
  <1>3. /\ int_array' = [k \in 1 .. c |-> Value(words[k])]
        /\ at' = IF c = 0 THEN Crashed ELSE 1
        /\ overran' \subseteq {"int_array", "results"}
    BY DEF lkp_init
  <1> HIDE DEF c
  <1>4. int_array' \in Seq(Nat) /\ count' \in Nat
    BY <1>2, <1>3 DEF count
  <1>5. /\ i = 1 /\ heap = {} /\ nodes = {} /\ tagged = {} /\ bits \subseteq 0 .. 30
        /\ seen = {}
    BY DEF lkp_init, KdsInv, TypeOK
  <1>6. UNCHANGED <<i, heap, nodes, tagged, seen, bits>>
    BY DEF lkp_init
  <1>7. at' \in {Crashed} \cup (0 .. Len(Plan) + 1) /\ at' # 0
    BY <1>3, PlanEnds DEF Crashed
  <1>8. TypeOK'
    <2>1. \A m \in Nat : 1 \in 1 .. m + 1
      OBVIOUS
    <2>2. i' \in 1 .. count' + 1
      BY <1>4, <1>5, <1>6, <2>1
    <2>3. QED BY <1>3, <1>4, <1>5, <1>6, <1>7, <2>2 DEF TypeOK
  <1>9. InsertInv'
    BY <1>5, <1>6 DEF InsertInv, Found
  <1>10. Running' => Loop' = "insert"
    BY <1>3, PlanEnds DEF LoopOf, Loop, Running, Crashed
  <1>11. QED
    BY <1>5, <1>6, <1>7, <1>8, <1>9, <1>10 DEF KdsInv, NoDangling, Kept, LoopInv

LEMMA KdsOops ==
  ASSUME KdsInv, Oops
  PROVE  KdsInv'
  <1>1. /\ at' = Crashed
        /\ UNCHANGED <<int_array, i, heap, nodes, tagged, seen, bits, overran>>
    BY DEF Oops
  <1>2. count' = count
    BY <1>1 DEF count
  <1>3. Crashed \notin 0 .. Len(Plan) + 1 /\ ~Running'
    BY <1>1, PlanEnds DEF Running, Crashed
  <1>4. TypeOK'
    BY <1>1, <1>2 DEF KdsInv, TypeOK
  <1>5. at' \notin {0, Len(Plan) + 1}
    BY <1>1, PlanEnds DEF Crashed
  <1>6. QED BY <1>1, <1>3, <1>4, <1>5 DEF KdsInv, NoDangling

\* The facts of a step inside a loop.
LEMMA InLoop ==
  ASSUME KdsInv, Running, UNCHANGED <<int_array, at>>
  PROVE  /\ count \in Nat /\ count' = count
         /\ Running' /\ Kind' = Kind /\ Loop' = Loop
         /\ at # 0 /\ at' # 0 /\ at' \notin {0, Len(Plan) + 1}
         /\ int_array \in Seq(Nat)
         /\ \A n \in 1 .. count : int_array[n] \in Nat
         /\ Kind = KindOf(at) /\ Loop = LoopOf(at) /\ at \in 1 .. Len(Plan)
         /\ NoDangling /\ Kept /\ LoopInv /\ TypeOK
  <1>0. at # Crashed
    BY PlanEnds DEF Running, Crashed
  <1>1. NoDangling /\ Kept /\ LoopInv /\ TypeOK
    BY <1>0 DEF KdsInv
  <1>2. int_array \in Seq(Nat)
    BY <1>1 DEF TypeOK
  <1>3. /\ count \in Nat /\ count' = count
        /\ \A n \in 1 .. count : int_array[n] \in Nat
    BY <1>2 DEF count
  <1>4. /\ Running' /\ Kind' = Kind /\ Loop' = Loop
        /\ Kind = KindOf(at) /\ Loop = LoopOf(at)
    BY DEF Running, Kind, Loop, KindOf, LoopOf
  <1>5. at \in 1 .. Len(Plan) /\ at' \notin {0, Len(Plan) + 1} /\ at # 0 /\ at' # 0
    BY PlanEnds DEF Running
  <1>6. QED BY <1>1, <1>2, <1>3, <1>4, <1>5

\* A step inside a loop keeps the types that it does not touch.
LEMMA TypeInLoop ==
  ASSUME TypeOK, UNCHANGED <<int_array, at>>, count \in Nat,
         i' \in 1 .. count + 1,
         heap' \subseteq {"list", "hash", "rbtree", "radix", "xarray"} \X (1 .. count),
         nodes' \subseteq 1 .. count, tagged' \subseteq nodes',
         seen' \subseteq Nat, bits' \subseteq 0 .. 30,
         overran' \subseteq {"int_array", "results"}
  PROVE  TypeOK'
  <1>1. count' = count
    BY DEF count
  <1>2. int_array' \in Seq(Nat) /\ at' \in {Crashed} \cup (0 .. Len(Plan) + 1)
    BY DEF TypeOK
  <1>3. QED BY <1>1, <1>2 DEF TypeOK

\* What a linked node has to do with the one it may replace or be refused for.
LEMMA LinkedFacts ==
  ASSUME KdsInv, Running, Loop = "insert", i \in 1 .. count
  PROVE  /\ Linked(i) \subseteq nodes \cup {i}
         /\ \E n \in Linked(i) : int_array[n] = int_array[i]
         /\ \A m \in nodes : \E n \in Linked(i) : int_array[n] = int_array[m]
         /\ \A m \in nodes \ Linked(i) : Repeated(m) /\ Kind = "xarray"
         /\ i \notin Linked(i) => Repeated(i) /\ Kind \notin {"list", "hash"}
         /\ Kind = "hash" => Linked(i) = nodes \cup {i}
  <1>1. /\ Kind \in {"list", "hash", "rbtree", "radix", "xarray"}
        /\ nodes \subseteq 1 .. i - 1
    BY PlanOrder DEF KdsInv, Running, Kind, Loop, LoopOf, KindOf, LoopInv,
                     InsertInv
  <1>2. \A m \in nodes : m \in 1 .. count /\ m # i
    <2>1. nodes \subseteq 1 .. count /\ count \in Nat
      BY DEF KdsInv, TypeOK, count
    <2>2. QED BY <1>1, <2>1
  <1>3. CASE Kind \in {"list", "hash"}
    <2>1. Linked(i) = nodes \cup {i}
      BY <1>3 DEF Linked, list_add, hash_add
    <2>2. QED BY <1>2, <1>3, <2>1
  <1>4. CASE Kind \in {"rbtree", "radix"}
    <2>1. Linked(i) = IF Matching(int_array[i]) = {} THEN nodes \cup {i} ELSE nodes
      BY <1>4 DEF Linked, insert_rb_tree, radix_tree_insert
    <2>2. CASE Matching(int_array[i]) = {}
      BY <1>4, <2>1, <2>2
    <2>3. CASE Matching(int_array[i]) # {}
      <3>1. PICK m \in nodes : int_array[m] = int_array[i]
        BY <2>3 DEF Matching
      <3>2. Repeated(i)
        BY <1>2, <3>1 DEF Repeated
      <3>3. QED BY <1>4, <2>1, <2>3, <3>1, <3>2
    <2>4. QED BY <2>2, <2>3
  <1>5. CASE Kind = "xarray"
    <2>1. Linked(i) = (nodes \ Matching(int_array[i])) \cup {i}
      BY <1>5 DEF Linked, xa_store
    <2>2. \A m \in nodes \ Linked(i) : int_array[m] = int_array[i]
      BY <2>1 DEF Matching
    <2>3. \A m \in nodes \ Linked(i) : Repeated(m)
      BY <1>2, <2>2 DEF Repeated
    <2>4. \A m \in nodes : \E n \in Linked(i) : int_array[n] = int_array[m]
      BY <2>1, <2>2
    <2>5. QED BY <1>5, <2>1, <2>3, <2>4
  <1>6. QED BY <1>1, <1>3, <1>4, <1>5

LEMMA KdsInsert ==
  ASSUME KdsInv, InsertOne
  PROVE  KdsInv'
  <1>1. /\ Running /\ Loop = "insert" /\ i <= count /\ i' = i + 1
        /\ UNCHANGED <<int_array, at, tagged, seen, bits, overran>>
        /\ heap' = heap \cup {<<Kind, i>>} /\ nodes' = Linked(i)
    BY DEF InsertOne
  <1> DEFINE L == Linked(i)
  <1>2. /\ count \in Nat /\ count' = count
        /\ Running' /\ Kind' = Kind /\ Loop' = Loop
        /\ at # 0 /\ at' # 0 /\ at' \notin {0, Len(Plan) + 1}
        /\ NoDangling /\ Kept /\ LoopInv /\ TypeOK
        /\ Kind \in {"list", "hash", "rbtree", "radix", "xarray"}
    BY <1>1, InLoop, PlanOrder
  <1>3. /\ i \in 1 .. count /\ nodes \subseteq 1 .. i - 1 /\ tagged = {}
        /\ Found(i - 1) /\ (Kind = "hash" => nodes = 1 .. i - 1)
    BY <1>1, <1>2 DEF TypeOK, LoopInv, InsertInv
  <1>4. /\ L \subseteq nodes \cup {i}
        /\ \E n \in L : int_array[n] = int_array[i]
        /\ \A m \in nodes : \E n \in L : int_array[n] = int_array[m]
        /\ \A m \in nodes \ L : Repeated(m) /\ Kind = "xarray"
        /\ i \notin L => Repeated(i) /\ Kind \notin {"list", "hash"}
        /\ Kind = "hash" => L = nodes \cup {i}
    BY <1>1, <1>3, LinkedFacts
  <1>5. nodes' = L
    BY <1>1
  <1> HIDE DEF L
  <1>6. TypeOK'
    <2>1. heap' \subseteq {"list", "hash", "rbtree", "radix", "xarray"} \X (1 .. count)
      BY <1>1, <1>2, <1>3 DEF TypeOK
    <2>2. nodes' \subseteq 1 .. count /\ i' \in 1 .. count + 1
      BY <1>1, <1>2, <1>3, <1>4, <1>5
    <2>3. /\ tagged' \subseteq nodes' /\ seen' \subseteq Nat /\ bits' \subseteq 0 .. 30
          /\ overran' \subseteq {"int_array", "results"}
      BY <1>1, <1>2, <1>3 DEF TypeOK
    <2>4. QED BY <1>1, <1>2, <2>1, <2>2, <2>3, TypeInLoop
  <1>7. NoDangling'
    BY <1>1, <1>2, <1>4, <1>5 DEF NoDangling
  <1>8. Kept'
    <2>1. \A n : Repeated(n)' <=> Repeated(n)
      BY <1>1, <1>2 DEF Repeated
    <2>2. SUFFICES ASSUME NEW h \in heap'
                   PROVE  \/ h[1] = Kind /\ h[2] \in L
                          \/ h[1] \notin {"list", "hash"} /\ Repeated(h[2])
      BY <1>2, <1>5, <2>1 DEF Kept
    <2>3. CASE h = <<Kind, i>>
      BY <1>2, <1>4, <2>3
    <2>4. CASE h \in heap
      BY <1>2, <1>4, <2>4 DEF Kept
    <2>5. QED BY <1>1, <2>2, <2>3, <2>4
  <1>9. InsertInv'
    <2>1. \A k \in 1 .. i : \E n \in L : int_array[n] = int_array[k]
      <3>1. \A k \in 1 .. i - 1 : \E m \in nodes : int_array[m] = int_array[k]
        BY <1>3 DEF Found
      <3>2. \A k \in 1 .. i : k = i \/ k \in 1 .. i - 1
        BY <1>3
      <3>3. QED BY <1>4, <3>1, <3>2
    <2>2. i' - 1 = i /\ 1 .. i = (1 .. i - 1) \cup {i}
      BY <1>1, <1>2, <1>3
    <2>4. L \subseteq 1 .. i /\ (Kind = "hash" => L = 1 .. i)
      BY <1>3, <1>4, <2>2
    <2>3. QED BY <1>1, <1>2, <1>3, <1>5, <2>1, <2>2, <2>4 DEF InsertInv, Found
  <1>10. QED
    BY <1>1, <1>2, <1>6, <1>7, <1>8, <1>9 DEF KdsInv, LoopInv

\* Kept speaks of heap and nodes only, inside a loop.
LEMMA KeptInLoop ==
  ASSUME Kept, Running, Running', Kind' = Kind, count' = count, int_array' = int_array,
         heap' \subseteq heap,
         \A h \in heap' : h[1] = Kind /\ h[2] \in nodes => h[2] \in nodes'
  PROVE  Kept'
  <1>1. \A n : Repeated(n)' <=> Repeated(n)
    BY DEF Repeated
  <1>2. QED BY <1>1 DEF Kept

LEMMA KdsLookup ==
  ASSUME KdsInv, LookupOne
  PROVE  KdsInv'
  <1>1. /\ Running /\ Loop \in {"lookup", "relookup"} /\ i <= count /\ i' = i + 1
        /\ UNCHANGED <<int_array, at, heap, nodes, tagged, bits, overran>>
        /\ seen' = seen \cup {int_array[n] : n \in Matching(int_array[i])}
    BY DEF LookupOne
  <1>2. /\ count \in Nat /\ count' = count
        /\ Running' /\ Kind' = Kind /\ Loop' = Loop
        /\ at # 0 /\ at' # 0 /\ at' \notin {0, Len(Plan) + 1}
        /\ \A n \in 1 .. count : int_array[n] \in Nat
        /\ NoDangling /\ Kept /\ LoopInv /\ TypeOK
    BY <1>1, InLoop
  <1>3. i \in 1 .. count /\ i' \in 1 .. count + 1
    BY <1>1, <1>2 DEF TypeOK
  <1>4. TypeOK'
    <2>1. seen' \subseteq Nat
      BY <1>1, <1>2 DEF TypeOK, Matching
    <2>2. QED BY <1>1, <1>2, <1>3, <2>1, TypeInLoop DEF TypeOK
  <1>5. NoDangling' /\ Kept'
    BY <1>1, <1>2, KeptInLoop DEF NoDangling
  <1>6. CASE Loop = "lookup"
    <2>1. /\ LookupInv
          /\ \E n \in nodes : int_array[n] = int_array[i]
      BY <1>2, <1>3, <1>6 DEF LoopInv, LookupInv, Found
    <2>2. {int_array[n] : n \in Matching(int_array[i])} = {int_array[i]}
      BY <2>1 DEF Matching
    <2>3. i' - 1 = i /\ 1 .. i = (1 .. i - 1) \cup {i}
      BY <1>1, <1>3
    <2>4. seen' = {int_array[k] : k \in 1 .. i}
      BY <1>1, <2>1, <2>2, <2>3 DEF LookupInv
    <2>5. LookupInv'
      <3>1. Found(count)'
        BY <1>1, <1>2, <2>1 DEF LookupInv, Found
      <3>2. QED BY <1>1, <1>2, <2>1, <2>3, <2>4, <3>1 DEF LookupInv
    <2>6. QED
      BY <1>1, <1>2, <1>4, <1>5, <1>6, <2>5 DEF KdsInv, LoopInv
  <1>7. CASE Loop = "relookup"
    <2>1. nodes = {} /\ seen = {}
      BY <1>2, <1>7 DEF LoopInv, RelookupInv
    <2>2. RelookupInv'
      BY <1>1, <2>1 DEF RelookupInv, Matching
    <2>3. QED
      BY <1>1, <1>2, <1>4, <1>5, <1>7, <2>2 DEF KdsInv, LoopInv
  <1>8. QED BY <1>1, <1>6, <1>7

LEMMA KdsTag ==
  ASSUME KdsInv, TagOne
  PROVE  KdsInv'
  <1>1. /\ Running /\ Loop = "tag" /\ i <= count /\ i' = i + 1
        /\ UNCHANGED <<int_array, at, heap, nodes, seen, bits, overran>>
        /\ tagged' = tagged \cup {n \in Matching(int_array[i]) : ToTag(int_array[n])}
    BY DEF TagOne
  <1>2. /\ count \in Nat /\ count' = count
        /\ Running' /\ Kind' = Kind /\ Loop' = Loop
        /\ at # 0 /\ at' # 0 /\ at' \notin {0, Len(Plan) + 1}
        /\ NoDangling /\ Kept /\ LoopInv /\ TypeOK
    BY <1>1, InLoop
  <1>3. i \in 1 .. count /\ i' \in 1 .. count + 1
    BY <1>1, <1>2 DEF TypeOK
  <1>4. TypeOK'
    <2>1. tagged' \subseteq nodes'
      BY <1>1, <1>2 DEF TypeOK, Matching
    <2>2. QED BY <1>1, <1>2, <1>3, <2>1, TypeInLoop DEF TypeOK
  <1>5. NoDangling' /\ Kept'
    BY <1>1, <1>2, KeptInLoop DEF NoDangling
  <1>6. TagInv
    BY <1>1, <1>2 DEF LoopInv
  <1>7. i' - 1 = i /\ 1 .. i = (1 .. i - 1) \cup {i}
    BY <1>1, <1>3
  <1>8. tagged' = {n \in nodes : /\ int_array[n] % 2 = 1
                                 /\ \E k \in 1 .. i : int_array[k] = int_array[n]}
    BY <1>1, <1>6, <1>7 DEF TagInv, Matching, ToTag
  <1>9. TagInv'
    BY <1>1, <1>2, <1>6, <1>7, <1>8 DEF TagInv, Found
  <1>10. QED
    BY <1>1, <1>2, <1>4, <1>5, <1>9 DEF KdsInv, LoopInv

LEMMA KdsTagged ==
  ASSUME KdsInv, LookupTagged
  PROVE  KdsInv'
  <1>1. /\ Running /\ Loop = "tagged" /\ i <= count /\ i' = count + 1
        /\ UNCHANGED <<int_array, at, heap, nodes, tagged, bits>>
        /\ seen' = {int_array[n] : n \in IF Kind = "radix" THEN GangLookup ELSE tagged}
        /\ overran' \subseteq overran \cup {"results"}
    BY DEF LookupTagged, lookup_tagged_tree, lookup_tagged
  <1>2. /\ count \in Nat /\ count' = count
        /\ Running' /\ Kind' = Kind /\ Loop' = Loop
        /\ at # 0 /\ at' # 0 /\ at' \notin {0, Len(Plan) + 1}
        /\ \A n \in 1 .. count : int_array[n] \in Nat
        /\ NoDangling /\ Kept /\ LoopInv /\ TypeOK
    BY <1>1, InLoop
  <1>4. TypeOK'
    <2>1. seen' \subseteq Nat
      <3>1. GangLookup \subseteq tagged
        BY DEF GangLookup
      <3>2. tagged \subseteq 1 .. count
        BY <1>2 DEF TypeOK
      <3>3. QED BY <1>1, <1>2, <3>1, <3>2
    <2>2. i' \in 1 .. count + 1
      BY <1>1, <1>2
    <2>3. QED BY <1>1, <1>2, <2>1, <2>2, TypeInLoop DEF TypeOK
  <1>5. NoDangling' /\ Kept'
    BY <1>1, <1>2, KeptInLoop DEF NoDangling
  <1>6. TaggedInv'
    <2>1. TaggedInv
      BY <1>1, <1>2 DEF LoopInv
    <2>2. GangLookup' = GangLookup
      BY <1>1 DEF GangLookup
    <2>3. Found(count)' /\ tagged' = {n \in nodes' : int_array'[n] % 2 = 1}
      BY <1>1, <1>2, <2>1 DEF TaggedInv, Found
    <2>4. QED BY <1>1, <1>2, <2>2, <2>3 DEF TaggedInv
  <1>7. QED
    BY <1>1, <1>2, <1>4, <1>5, <1>6 DEF KdsInv, LoopInv

LEMMA KdsBitmap ==
  ASSUME KdsInv, SetBits \/ ShowBits
  PROVE  KdsInv'
  <1>1. /\ Running /\ Loop \in {"set", "show"} /\ i <= count
        /\ i' \in {i + 1, count + 1}
        /\ UNCHANGED <<int_array, at, heap, nodes, tagged, seen, overran>>
        /\ bits' \in {bits \cup Digits(int_array[i]), {}}
    BY DEF SetBits, ShowBits
  <1>2. /\ count \in Nat /\ count' = count
        /\ Running' /\ Kind' = Kind /\ Loop' = Loop
        /\ at # 0 /\ at' # 0 /\ at' \notin {0, Len(Plan) + 1}
        /\ NoDangling /\ Kept /\ LoopInv /\ TypeOK
    BY <1>1, InLoop
  <1>4. TypeOK'
    <2>1. bits' \subseteq 0 .. 30
      BY <1>1, <1>2 DEF TypeOK, Digits
    <2>2. i' \in 1 .. count + 1
      BY <1>1, <1>2 DEF TypeOK
    <2>3. QED BY <1>1, <1>2, <2>1, <2>2, TypeInLoop DEF TypeOK
  <1>5. NoDangling' /\ Kept'
    BY <1>1, <1>2, KeptInLoop DEF NoDangling
  <1>6. nodes' = {}
    BY <1>1, <1>2 DEF LoopInv
  <1>7. QED
    BY <1>1, <1>2, <1>4, <1>5, <1>6 DEF KdsInv, LoopInv

\* Unlinking and freeing the same nodes neither dangles nor leaks.
LEMMA FreedFacts ==
  ASSUME KdsInv, Running, UNCHANGED <<int_array, at, seen, bits, overran>>, NEW ns, Freed(ns),
         i' \in 1 .. count + 1
  PROVE  TypeOK' /\ NoDangling' /\ Kept'
  <1>1. /\ heap' = heap \ ({Kind} \X ns) /\ nodes' = nodes \ ns
        /\ tagged' = tagged \ ns
    BY DEF Freed
  <1>2. /\ count \in Nat /\ count' = count
        /\ Running' /\ Kind' = Kind
        /\ NoDangling /\ Kept /\ TypeOK
    BY InLoop
  <1>3. TypeOK'
    BY <1>1, <1>2, TypeInLoop DEF TypeOK
  <1>4. NoDangling'
    BY <1>1, <1>2 DEF NoDangling
  <1>5. ASSUME NEW h \in heap', h[1] = Kind, h[2] \in nodes PROVE h[2] \in nodes'
    <2>1. h = <<h[1], h[2]>>
      BY <1>1, <1>2, <1>5 DEF TypeOK
    <2>2. QED BY <1>1, <1>5, <2>1
  <1>6. Kept'
    BY <1>1, <1>2, <1>5, KeptInLoop
  <1>7. QED BY <1>3, <1>4, <1>6

\* As long as removals are to come, Matching and Ahead are finite.
LEMMA CountedFinite ==
  ASSUME KdsInv, NEW v
  PROVE  /\ IsFiniteSet(Matching(v)) /\ IsFiniteSet(Ahead(v))
         /\ Matching(v) \in SUBSET (1 .. count) /\ count \in Nat
  <1>1. count \in Nat /\ nodes \subseteq 1 .. count /\ i \in 1 .. count + 1
    BY DEF KdsInv, TypeOK, count
  <1>2. IsFiniteSet(1 .. count)
    BY <1>1, FS_Interval
  <1>3. Matching(v) \in SUBSET (1 .. count) /\ Ahead(v) \in SUBSET (1 .. count)
    <2>1. \A k \in i .. count : k \in 1 .. count
      BY <1>1
    <2>2. QED BY <1>1, <2>1 DEF Matching, Ahead
  <1>4. QED BY <1>1, <1>2, <1>3, FS_Subset

\* One removal from the hash table.
LEMMA RemovalCounted ==
  ASSUME KdsInv, Running, EnoughRemovals, i \in 1 .. count, i' = i + 1,
         UNCHANGED <<int_array, at>>,
         nodes' = nodes \ remove_hash_table(int_array[i])
  PROVE  EnoughRemovals'
  <1>1. /\ count \in Nat /\ count' = count
        /\ \A n \in 1 .. count : int_array[n] \in Nat
    BY InLoop
  <1>2. SUFFICES ASSUME NEW v \in Nat
                 PROVE  Cardinality(Matching(v)') = Cardinality(Ahead(v)')
    BY DEF EnoughRemovals
  <1> DEFINE b == int_array[i]
             x == Max(Matching(b))
  <1>3. b \in Nat
    BY <1>1
  <1>4. Matching(b) # {}
    <2>1. i \in Ahead(b)
      BY <1>1 DEF Ahead
    <2>2. Cardinality(Ahead(b)) # 0
      BY <2>1, CountedFinite, FS_EmptySet
    <2>3. Cardinality(Matching(b)) # 0
      BY <1>3, <2>2 DEF EnoughRemovals
    <2>4. QED BY <2>3, FS_EmptySet
  <1>5. x \in Matching(b)
    BY <1>4, CountedFinite, MaxInSet
  <1>6. remove_hash_table(b) = {x}
    BY <1>4 DEF remove_hash_table
  <1> HIDE DEF x
  <1>7. Matching(v)' = Matching(v) \ {x}
    BY <1>6 DEF Matching
  <1>8. Ahead(v)' = Ahead(v) \ {i}
    BY <1>1 DEF Ahead
  <1>9. x \in Matching(v) <=> v = b
    BY <1>5 DEF Matching
  <1>10. i \in Ahead(v) <=> v = b
    BY <1>1 DEF Ahead
  <1>11. Cardinality(Matching(v)) = Cardinality(Ahead(v))
    BY DEF EnoughRemovals
  <1>12. /\ Cardinality(Matching(v) \ {x})
              = IF v = b THEN Cardinality(Matching(v)) - 1 ELSE Cardinality(Matching(v))
         /\ Cardinality(Ahead(v) \ {i})
              = IF v = b THEN Cardinality(Ahead(v)) - 1 ELSE Cardinality(Ahead(v))
    BY <1>9, <1>10, CountedFinite, FS_RemoveElement
  <1>13. QED BY <1>7, <1>8, <1>11, <1>12

LEMMA KdsRemove ==
  ASSUME KdsInv, RemoveOne
  PROVE  KdsInv'
  <1>1. /\ Running /\ Loop = "remove" /\ i <= count /\ i' = i + 1
        /\ UNCHANGED <<int_array, at, seen, bits, overran>>
    BY DEF RemoveOne
  <1>2. /\ count \in Nat /\ count' = count
        /\ Running' /\ Kind' = Kind /\ Loop' = Loop
        /\ at # 0 /\ at' # 0 /\ at' \notin {0, Len(Plan) + 1}
        /\ LoopInv /\ TypeOK /\ Kind \in {"hash", "radix", "xarray"}
    BY <1>1, InLoop, PlanOrder
  <1>3. i \in 1 .. count /\ i' \in 1 .. count + 1
    BY <1>1, <1>2 DEF TypeOK
  <1> DEFINE ns == IF Kind = "hash" THEN remove_hash_table(int_array[i])
                   ELSE Matching(int_array[i])
  <1>4. Freed(ns)
    BY <1>2 DEF RemoveOne, remove_radix_tree, remove_xarray
  <1>5. TypeOK' /\ NoDangling' /\ Kept'
    BY <1>1, <1>3, <1>4, FreedFacts
  <1>6. nodes' = nodes \ ns
    BY <1>4 DEF Freed
  <1>7. RemoveInv'
    <2>1. RemoveInv
      BY <1>1, <1>2 DEF LoopInv
    <2>2. CASE Kind = "hash"
      BY <1>1, <1>2, <1>3, <1>6, <2>1, <2>2, RemovalCounted DEF RemoveInv
    <2>3. CASE Kind # "hash"
      <3>1. i' - 1 = i /\ 1 .. i = (1 .. i - 1) \cup {i}
        BY <1>1, <1>3
      <3>2. \A v : Matching(v)' = Matching(v) \ Matching(int_array[i])
        BY <1>1, <1>6, <2>3 DEF Matching
      <3>3. \A k \in 1 .. i : Matching(int_array[k])' = {}
        BY <1>1, <2>1, <2>3, <3>1, <3>2 DEF RemoveInv
      <3>4. QED BY <1>1, <1>2, <2>3, <3>1, <3>3 DEF RemoveInv
    <2>4. QED BY <2>2, <2>3
  <1>8. QED
    BY <1>1, <1>2, <1>5, <1>7 DEF KdsInv, LoopInv

LEMMA KdsDrain ==
  ASSUME KdsInv, DrainOne
  PROVE  KdsInv'
  <1>1. /\ Running /\ Loop = "drain"
        /\ UNCHANGED <<int_array, at, i, seen, bits, overran>>
    BY DEF DrainOne
  <1>2. /\ Running' /\ Loop' = Loop /\ at' # 0 /\ at' \notin {0, Len(Plan) + 1} /\ TypeOK
    BY <1>1, InLoop
  <1>3. TypeOK' /\ NoDangling' /\ Kept'
    BY <1>1, <1>2, FreedFacts DEF DrainOne, TypeOK
  <1>4. QED
    BY <1>1, <1>2, <1>3 DEF KdsInv, LoopInv

\* The last step of a loop, whose work is done by then.
LEMMA LoopDone ==
  ASSUME KdsInv, Running, IF Loop = "drain" THEN nodes = {} ELSE i > count
  PROVE  /\ Loop # "drain" => i - 1 = count
         /\ Loop \in {"drain", "remove", "relookup", "set", "show"} => nodes = {}
  <1>1. /\ count \in Nat /\ LoopInv /\ TypeOK /\ Loop = LoopOf(at) /\ Kind = KindOf(at)
        /\ at \in 1 .. Len(Plan)
        /\ \A n \in 1 .. count : int_array[n] \in Nat
    <2>1. LoopInv /\ TypeOK
      BY DEF KdsInv
    <2>2. count \in Nat /\ \A n \in 1 .. count : int_array[n] \in Nat
      BY <2>1 DEF TypeOK, count
    <2>3. QED BY <2>1, <2>2 DEF Running, Loop, Kind, LoopOf, KindOf
  <1>2. Loop # "drain" => i = count + 1
    BY <1>1 DEF TypeOK
  <1>3. Loop = "remove" => nodes = {}
    <2>1. SUFFICES ASSUME Loop = "remove", NEW n \in nodes PROVE FALSE
      OBVIOUS
    <2>2. /\ RemoveInv /\ i = count + 1 /\ n \in 1 .. count
          /\ int_array[n] \in Nat /\ n \in Matching(int_array[n])
      BY <1>1, <1>2, <2>1 DEF LoopInv, TypeOK, Matching
    <2>3. CASE Kind = "hash"
      <3>1. Ahead(int_array[n]) = {}
        BY <1>1, <2>2 DEF Ahead
      <3>2. Cardinality(Matching(int_array[n])) = Cardinality({})
        BY <2>2, <2>3, <3>1 DEF RemoveInv, EnoughRemovals
      <3>3. Matching(int_array[n]) = {}
        BY <3>2, CountedFinite, FS_EmptySet
      <3>4. QED BY <2>2, <3>3
    <2>4. CASE Kind # "hash"
      <3>1. n \in 1 .. i - 1
        BY <1>1, <2>2
      <3>2. Matching(int_array[n]) = {}
        BY <2>2, <2>4, <3>1 DEF RemoveInv
      <3>3. QED BY <2>2, <3>2
    <2>5. QED BY <2>3, <2>4
  <1>4. QED
    BY <1>1, <1>2, <1>3 DEF LoopInv, RelookupInv

\* From a loop to the next one of the same container: the state it starts from
\* is the one that the last loop has reached at its end.
LEMMA NextInKind ==
  ASSUME KdsInv, NextLoop, at # Len(Plan), KindOf(at + 1) = KindOf(at)
  PROVE  LoopInv'
  <1>1. /\ Running /\ (IF Loop = "drain" THEN nodes = {} ELSE i > count)
        /\ at' = at + 1 /\ i' = 1 /\ seen' = {} /\ UNCHANGED <<int_array, heap, bits, overran>>
        /\ UNCHANGED <<nodes, tagged>>
    BY DEF NextLoop, KindOf, Kind
  <1>2. /\ Loop = LoopOf(at) /\ Kind = KindOf(at) /\ Loop' = LoopOf(at + 1)
        /\ Kind' = Kind /\ count' = count
    BY <1>1 DEF Loop, Kind, LoopOf, KindOf, count
  <1>3. at \in 1 .. Len(Plan) - 1
    BY <1>1, PlanEnds DEF Running
  <1>4. LoopInv /\ TypeOK /\ count \in Nat
    <2>1. LoopInv /\ TypeOK
      BY <1>1 DEF KdsInv
    <2>2. QED BY <2>1 DEF TypeOK, count
  <1>5. /\ Loop # "drain" => i - 1 = count
        /\ Loop = "remove" => nodes = {}
    BY <1>1, LoopDone
  <1>6. 1 .. i' - 1 = {}
    BY <1>1
  <1>7. CASE Loop = "insert" /\ Loop' \in {"lookup", "drain"}
    <2>1. tagged = {} /\ Found(count) /\ (Kind = "hash" => nodes = 1 .. count)
      BY <1>4, <1>5, <1>7 DEF LoopInv, InsertInv
    <2>2. LookupInv'
      BY <1>1, <1>2, <1>6, <2>1 DEF LookupInv, Found
    <2>3. QED BY <1>7, <2>2 DEF LoopInv
  <1>8. CASE Loop = "lookup" /\ Loop' \in {"tag", "drain"}
    <2>1. tagged = {} /\ Found(count)
      BY <1>4, <1>8 DEF LoopInv, LookupInv
    <2>2. TagInv'
      BY <1>1, <1>2, <1>6, <2>1 DEF TagInv, Found
    <2>3. QED BY <1>8, <2>2 DEF LoopInv
  <1>9. CASE Loop = "lookup" /\ Loop' = "remove" /\ Kind = "hash"
    <2>1. nodes = 1 .. count
      BY <1>4, <1>9 DEF LoopInv, LookupInv
    <2>2. \A v : Matching(v)' = Ahead(v)'
      BY <1>1, <1>2, <2>1 DEF Matching, Ahead
    <2>3. RemoveInv'
      BY <1>2, <1>9, <2>2 DEF RemoveInv, EnoughRemovals
    <2>4. QED BY <1>9, <2>3 DEF LoopInv
  <1>10. CASE Loop = "tag" /\ Loop' = "tagged"
    <2>1. /\ Found(count)
          /\ tagged = {n \in nodes : /\ int_array[n] % 2 = 1
                                     /\ \E k \in 1 .. count : int_array[k] = int_array[n]}
          /\ nodes \subseteq 1 .. count
      BY <1>4, <1>5, <1>10 DEF LoopInv, TagInv, TypeOK
    <2>2. tagged = {n \in nodes : int_array[n] % 2 = 1}
      BY <2>1
    <2>3. TaggedInv'
      BY <1>1, <1>2, <2>1, <2>2 DEF TaggedInv, Found
    <2>4. QED BY <1>10, <2>3 DEF LoopInv
  <1>11. CASE Loop = "tagged" /\ Loop' = "remove" /\ Kind # "hash"
    <2>1. RemoveInv'
      BY <1>2, <1>6, <1>11 DEF RemoveInv
    <2>2. QED BY <1>11, <2>1 DEF LoopInv
  <1>12. CASE Loop = "remove" /\ Loop' = "relookup" /\ Kind # "hash"
    <2>1. RelookupInv'
      BY <1>1, <1>5, <1>12 DEF RelookupInv
    <2>2. QED BY <1>12, <2>1 DEF LoopInv
  <1>13. CASE Loop = "set" /\ Loop' = "show"
    BY <1>1, <1>4, <1>13 DEF LoopInv
  <1>14. QED
    BY <1>2, <1>3, <1>7, <1>8, <1>9, <1>10, <1>11, <1>12, <1>13, PlanNext

LEMMA KdsNextLoop ==
  ASSUME KdsInv, NextLoop
  PROVE  KdsInv'
  <1>1. /\ Running /\ (IF Loop = "drain" THEN nodes = {} ELSE i > count)
        /\ at' = at + 1 /\ i' = 1 /\ seen' = {} /\ UNCHANGED <<int_array, heap, bits, overran>>
        /\ at \in 1 .. Len(Plan) /\ Len(Plan) \in Nat \ {0}
        /\ Loop = LoopOf(at) /\ Kind = KindOf(at)
        /\ Loop' = LoopOf(at + 1) /\ Kind' = KindOf(at + 1)
    BY PlanEnds DEF NextLoop, Running, Loop, Kind, LoopOf, KindOf
  <1>2. /\ count \in Nat /\ count' = count /\ TypeOK /\ NoDangling /\ Kept
    <2>1. at # Crashed
      BY <1>1 DEF Crashed
    <2>2. TypeOK /\ NoDangling /\ Kept
      BY <2>1 DEF KdsInv
    <2>3. QED BY <1>1, <2>2 DEF TypeOK, count
  <1>3. \A n : Repeated(n)' <=> Repeated(n)
    BY <1>1, <1>2 DEF Repeated
  <1>4. /\ at' # 0 /\ at' \in 0 .. Len(Plan) + 1 /\ i' \in 1 .. count + 1
        /\ at # Len(Plan) => at \in 1 .. Len(Plan) - 1 /\ Running'
    BY <1>1, <1>2 DEF Running
  <1>5. TypeOK'
    <2>1. tagged' \subseteq nodes' /\ nodes' \subseteq 1 .. count
      BY <1>2 DEF NextLoop, TypeOK
    <2>2. QED BY <1>1, <1>2, <1>4, <2>1 DEF TypeOK
  <1>6. CASE at # Len(Plan) /\ KindOf(at + 1) = KindOf(at)
    <2>1. UNCHANGED <<nodes, tagged>> /\ Running' /\ Kind' = Kind
      BY <1>1, <1>4, <1>6 DEF NextLoop, Kind, KindOf
    <2>2. NoDangling' /\ Kept'
      BY <1>1, <1>2, <2>1, KeptInLoop DEF NoDangling
    <2>3. LoopInv'
      BY <1>6, NextInKind
    <2>4. QED BY <1>4, <1>5, <2>1, <2>2, <2>3 DEF KdsInv, Running
  <1>7. CASE at = Len(Plan) \/ KindOf(at + 1) # KindOf(at)
    <2>1. nodes = {}
      <3>1. CASE at = Len(Plan)
        BY <1>1, <3>1, PlanEnds, LoopDone
      <3>2. CASE at # Len(Plan)
        BY <1>1, <1>4, <1>7, <3>2, PlanNext, LoopDone
      <3>3. QED BY <3>1, <3>2
    <2>2. nodes' = {} /\ tagged' = {}
      BY <1>1, <1>7 DEF NextLoop, KindOf
    <2>3. NoDangling' /\ Kept'
      BY <1>1, <1>2, <1>3, <2>1, <2>2 DEF NoDangling, Kept
    <2>4. ASSUME Running' PROVE LoopInv'
      <3>1. at # Len(Plan)
        BY <1>1, <2>4 DEF Running
      <3>2. Loop' \in {"insert", "set"}
        BY <1>1, <1>4, <1>7, <3>1, PlanNext
      <3>3. InsertInv'
        BY <1>1, <2>2 DEF InsertInv, Found
      <3>4. QED BY <2>2, <3>2, <3>3 DEF LoopInv
    <2>5. QED BY <1>4, <1>5, <2>2, <2>3, <2>4 DEF KdsInv
  <1>8. QED BY <1>6, <1>7

LEMMA KdsStutter ==
  ASSUME KdsInv, UNCHANGED vars
  PROVE  KdsInv'
  <1>1. /\ count' = count /\ Kind' = Kind /\ Loop' = Loop /\ (Running' <=> Running)
    BY DEF vars, count, Kind, Loop, Running
  <1>2. \A v : (Matching(v)' = Matching(v) /\ Ahead(v)' = Ahead(v))
    BY <1>1 DEF vars, Matching, Ahead
  <1>3. \A n : Repeated(n)' <=> Repeated(n)
    BY <1>1 DEF vars, Repeated
  <1>4. TypeOK' /\ NoDangling' /\ (at # Crashed => Kept')
    <2>1. TypeOK'
      BY <1>1 DEF vars, KdsInv, TypeOK
    <2>2. NoDangling' /\ (Kept => Kept')
      BY <1>1, <1>3 DEF vars, KdsInv, NoDangling, Kept
    <2>3. QED BY <2>1, <2>2 DEF KdsInv
  <1> GangLookup' = GangLookup
    BY DEF vars, GangLookup
  <1>5. Running => LoopInv'
    BY <1>1, <1>2
    DEF vars, KdsInv, LoopInv, InsertInv, LookupInv, TagInv, TaggedInv, RemoveInv,
        RelookupInv, Found, EnoughRemovals
  <1>6. QED BY <1>1, <1>4, <1>5 DEF vars, KdsInv

\* KdsInv is an invariant of Kds.
THEOREM KdsInvariant == Spec => []KdsInv
  <1>1. ASSUME KdsInv, [Next]_vars PROVE KdsInv'
    BY <1>1, KdsLoad, KdsOops, KdsInsert, KdsLookup, KdsTag, KdsTagged, KdsRemove, KdsDrain,
       KdsBitmap, KdsNextLoop, KdsStutter DEF Next
  <1>2. QED BY <1>1, KdsInit, PTL DEF Spec

----------------------------------------------------------------------------
(* The properties. *)

\* Type correctness: the index stays within the array, and tags are on linked
\* nodes only.
THEOREM TypeCorrect == Spec => []TypeOK
  BY KdsInvariant, PTL DEF KdsInv

\* What is linked is allocated, in every loop of every container: kfree always
\* comes with the unlinking of its node, also for the equal numbers that the
\* trees refuse and the xarray replaces.
THEOREM NoDanglingHolds == Spec => []NoDangling
  <1>1. KdsInv => NoDangling
    BY DEF KdsInv
  <1>2. QED BY <1>1, KdsInvariant, PTL

\* The lookups find every number that was inserted, and none after the removal.
THEOREM LookupsFindHolds == Spec => []LookupsFind
  <1>1. KdsInv => LookupsFind
    BY DEF KdsInv, LookupsFind, LoopInv, LookupInv, RelookupInv
  <1>2. QED BY <1>1, KdsInvariant, PTL

----------------------------------------------------------------------------
(* The room for results. *)

\* The radix tree holds a number once.
Unique == \A m, n \in nodes : int_array[m] = int_array[n] => m = n

\* The gang lookup has been made.
Swept == at > 12 \/ (at = 12 /\ i > 1)

RoomInv ==
  /\ Running /\ Kind = "radix" => Unique
  /\ "results" \in overran => Cardinality(OddNumbers) > Slots
  /\ Swept /\ Cardinality(OddNumbers) > Slots => "results" \in overran

LEMMA OddFinite ==
  ASSUME TypeOK
  PROVE  /\ IsFiniteSet(OddNumbers) /\ Cardinality(OddNumbers) \in Nat
         /\ count \in Nat /\ \A n \in 1 .. count : int_array[n] \in Nat
  <1>1. count \in Nat /\ \A n \in 1 .. count : int_array[n] \in Nat
    BY DEF TypeOK, count
  <1> DEFINE S == {int_array[k] : k \in 1 .. count}
             f == [k \in 1 .. count |-> int_array[k]]
  <1>2. f \in Surjection(1 .. count, S)
    BY DEF Surjection
  <1>3. IsFiniteSet(1 .. count)
    BY <1>1, FS_Interval
  <1> HIDE DEF f
  <1>4. IsFiniteSet(S)
    BY <1>2, <1>3, FS_Surjection
  <1>5. IsFiniteSet(OddNumbers)
    BY <1>4, FS_Subset DEF OddNumbers
  <1>6. QED BY <1>1, <1>5, FS_CardinalityType

\* At the radix tree's tagged loop there is one tagged node for each odd number.
LEMMA OnePerOdd ==
  ASSUME KdsInv, RoomInv, Running, Kind = "radix", Loop = "tagged"
  PROVE  /\ IsFiniteSet(tagged) /\ Cardinality(tagged) = Cardinality(OddNumbers)
         /\ OddNumbers = {int_array[n] : n \in tagged}
  <1>1. /\ Found(count) /\ tagged = {n \in nodes : int_array[n] % 2 = 1}
        /\ nodes \subseteq 1 .. count /\ TypeOK /\ Unique
    BY DEF KdsInv, LoopInv, TaggedInv, TypeOK, RoomInv
  <1>2. OddNumbers = {int_array[n] : n \in tagged}
    <2>1. \A n \in tagged : int_array[n] \in OddNumbers
      BY <1>1 DEF OddNumbers
    <2>2. ASSUME NEW x \in OddNumbers
          PROVE  \E n \in tagged : int_array[n] = x
      BY <1>1 DEF OddNumbers, Found
    <2>3. QED BY <2>1, <2>2
  <1> DEFINE f == [n \in tagged |-> int_array[n]]
  <1>3. f \in Injection(tagged, OddNumbers)
    BY <1>1, <1>2 DEF Injection, IsInjective, Unique
  <1>4. f \in Surjection(tagged, OddNumbers)
    BY <1>2 DEF Surjection
  <1> HIDE DEF f
  <1>5. QED BY <1>1, <1>2, <1>3, <1>4, OddFinite, FS_Injection

LEMMA RoomInit == Init => RoomInv
  <1> SUFFICES ASSUME Init PROVE RoomInv
    OBVIOUS
  <1>1. /\ overran = {} /\ at = 0 /\ ~Running
    BY PlanEnds DEF Init, Running
  <1>2. QED BY <1>1 DEF RoomInv, Swept

\* A step that leaves overran and the numbers alone and passes no gang lookup.
LEMMA RoomKept ==
  ASSUME RoomInv, UNCHANGED <<int_array, overran>>, Swept' => Swept,
         Running' /\ Kind' = "radix" => Unique'
  PROVE  RoomInv'
  <1>1. OddNumbers' = OddNumbers
    BY DEF OddNumbers, count
  <1>2. QED BY <1>1 DEF RoomInv

LEMMA RoomNext ==
  ASSUME KdsInv, KdsInv', RoomInv, [Next]_vars
  PROVE  RoomInv'
  <1> USE DEF Crashed
  <1>1. CASE \E words \in Inputs : lkp_init(words)
    <2>1. /\ at' \in {Crashed, 1} /\ overran' \subseteq {"int_array"}
          /\ ~Swept' /\ nodes = {} /\ nodes' = nodes
      BY <1>1 DEF lkp_init, Swept, KdsInv
    <2>2. QED BY <2>1 DEF RoomInv, Unique
  <1>2. CASE Oops
    <2>1. at' = Crashed /\ UNCHANGED <<int_array, overran>> /\ ~Swept' /\ ~Running'
      BY <1>2 DEF Oops, Swept, Running
    <2>2. QED BY <2>1, RoomKept
  <1>3. CASE UNCHANGED vars
    <2>1. UNCHANGED <<int_array, overran>> /\ (Swept' <=> Swept)
      BY <1>3 DEF vars, Swept
    <2>2. Running' /\ Kind' = "radix" => Unique'
      BY <1>3 DEF vars, Running, Kind, RoomInv, Unique
    <2>3. QED BY <2>1, <2>2, RoomKept
  <1>4. CASE LookupTagged
    <2>1. /\ Running /\ Loop = "tagged" /\ UNCHANGED <<int_array, at, nodes, tagged>>
          /\ Kind = "radix" =>
               overran' = overran \cup
                            (IF Cardinality(tagged) > Slots THEN {"results"} ELSE {})
          /\ Kind # "radix" => UNCHANGED overran
      BY <1>4 DEF LookupTagged, lookup_tagged_tree, lookup_tagged
    <2>2. OddNumbers' = OddNumbers /\ Kind' = Kind /\ (Running' <=> Running)
      BY <2>1 DEF OddNumbers, count, Kind, Running
    <2>3. Running' /\ Kind' = "radix" => Unique'
      BY <2>1, <2>2 DEF RoomInv, Unique
    <2>4. CASE Kind = "radix"
      <3>1. Cardinality(tagged) = Cardinality(OddNumbers)
        BY <2>1, <2>4, OnePerOdd
      <3>2. "results" \in overran' <=>
              "results" \in overran \/ Cardinality(OddNumbers) > Slots
        BY <2>1, <2>4, <3>1
      <3>3. QED BY <2>2, <2>3, <3>2 DEF RoomInv
    <2>5. CASE Kind # "radix"
      <3>1. at # 12
        BY <2>5, PlanTable DEF Kind
      <3>2. Swept' => Swept
        BY <2>1, <3>1 DEF Swept
      <3>3. QED BY <2>1, <2>3, <2>5, <3>2, RoomKept
    <2>6. QED BY <2>4, <2>5
  <1>5. CASE NextLoop
    <2>1. /\ at \in 1 .. Len(Plan) /\ at' = at + 1 /\ i' = 1
          /\ UNCHANGED <<int_array, overran>>
          /\ IF Loop = "drain" THEN nodes = {} ELSE i > count
          /\ IF at = Len(Plan) \/ Plan[at + 1][1] # Kind THEN nodes' = {}
             ELSE nodes' = nodes
      BY <1>5 DEF NextLoop, Running
    <2>2. Running' /\ Kind' = "radix" => Unique'
      <3>1. CASE at = Len(Plan) \/ Plan[at + 1][1] # Kind
        BY <2>1, <3>1 DEF Unique
      <3>2. CASE ~(at = Len(Plan) \/ Plan[at + 1][1] # Kind)
        <4>1. Kind' = Kind /\ Running /\ nodes' = nodes /\ int_array' = int_array
          BY <2>1, <3>2 DEF Kind, Running
        <4>2. QED BY <4>1 DEF RoomInv, Unique
      <3>3. QED BY <3>1, <3>2
    <2>3. OddNumbers' = OddNumbers
      BY <2>1 DEF OddNumbers, count
    <2>4. CASE at = 12 /\ i <= 1
      <3>1. TypeOK /\ Slots \in Nat
        BY SlotsAssumption DEF KdsInv
      <3>2. Loop # "drain"
        BY <2>4, PlanTable DEF Loop
      <3>3. count = 0
        BY <2>1, <2>4, <3>1, <3>2, OddFinite DEF TypeOK
      <3>4. OddNumbers = {}
        BY <3>3 DEF OddNumbers
      <3>5. ~(Cardinality(OddNumbers) > Slots)
        BY <3>1, <3>4, FS_EmptySet
      <3>6. QED BY <2>1, <2>2, <2>3, <3>5 DEF RoomInv
    <2>5. CASE ~(at = 12 /\ i <= 1)
      <3>1. i \in Int /\ at \in Int
        BY <2>1 DEF KdsInv, TypeOK
      <3>2. Swept' => Swept
        BY <2>1, <2>5, <3>1 DEF Swept
      <3>3. QED BY <2>1, <2>2, <3>2, RoomKept
    <2>6. QED BY <2>4, <2>5
  <1>6. CASE InsertOne
    <2>1. /\ Running /\ Loop = "insert" /\ UNCHANGED <<int_array, at, overran>>
          /\ nodes' = Linked(i)
      BY <1>6 DEF InsertOne
    <2>2. at # 12 /\ Kind' = Kind
      BY <2>1, PlanTable DEF Loop, Kind
    <2>3. Swept' => Swept
      BY <2>1, <2>2 DEF Swept
    <2>4. ASSUME Kind = "radix" PROVE Unique'
      <3>1. Linked(i) = IF Matching(int_array[i]) = {} THEN nodes \cup {i} ELSE nodes
        BY <2>4 DEF Linked, radix_tree_insert
      <3>2. QED BY <2>1, <2>4, <3>1 DEF RoomInv, Unique, Matching
    <2>5. QED BY <2>1, <2>2, <2>3, <2>4, RoomKept
  <1>7. CASE LookupOne \/ TagOne \/ RemoveOne \/ DrainOne \/ SetBits \/ ShowBits
    <2>1. /\ Running /\ Loop \notin {"tagged", "insert"}
          /\ UNCHANGED <<int_array, at, overran>>
      BY <1>7 DEF LookupOne, TagOne, RemoveOne, DrainOne, SetBits, ShowBits
    <2>2. nodes' \subseteq nodes
      BY <1>7 DEF LookupOne, TagOne, RemoveOne, DrainOne, SetBits, ShowBits, Freed
    <2>3. at # 12 /\ Kind' = Kind
      BY <2>1, PlanTable DEF Loop, Kind
    <2>4. Swept' => Swept
      BY <2>1, <2>3 DEF Swept
    <2>5. Kind = "radix" => Unique'
      BY <2>1, <2>2 DEF RoomInv, Unique
    <2>6. QED BY <2>1, <2>3, <2>4, <2>5, RoomKept
  <1>8. QED BY <1>1, <1>2, <1>3, <1>4, <1>5, <1>6, <1>7 DEF Next

\* RoomInv is an invariant of Kds.
THEOREM RoomInvariant == Spec => [](KdsInv /\ RoomInv)
  <1>1. ASSUME KdsInv, KdsInv', RoomInv, [Next]_vars PROVE RoomInv'
    BY <1>1, RoomNext
  <1>2. QED BY <1>1, RoomInit, KdsInvariant, PTL DEF Spec

\* Whatever the numbers, the gang lookup leaves its array exactly when there are
\* more different odd ones than it has room for.
THEOREM ResultsOverrunHolds == Spec => []ResultsOverrun
  <1>1. RoomInv => ResultsOverrun
    BY PlanTable DEF RoomInv, ResultsOverrun, Swept
  <1>2. QED BY <1>1, RoomInvariant, PTL

\* The lookups by tag find only odd numbers and, but for the limit of the radix
\* tree's one, all of them, also when results is overrun and nothing else happens.
THEOREM TaggedAreOddHolds == Spec => []TaggedAreOdd
  <1>1. KdsInv /\ RoomInv => TaggedAreOdd
    <2> SUFFICES ASSUME KdsInv, RoomInv, Running, Loop = "tagged", i > 1
                 PROVE  /\ seen \subseteq OddNumbers
                        /\ Kind = "xarray" \/ Cardinality(OddNumbers) <= Limit =>
                             seen = OddNumbers
      BY DEF TaggedAreOdd
    <2>1. /\ Found(count) /\ tagged = {n \in nodes : int_array[n] % 2 = 1}
          /\ seen = {int_array[n] : n \in IF Kind = "radix" THEN GangLookup ELSE tagged}
          /\ nodes \subseteq 1 .. count /\ TypeOK
      BY DEF KdsInv, LoopInv, TaggedInv, TypeOK
    <2>2. {int_array[n] : n \in tagged} = OddNumbers
      <3>1. \A n \in tagged : int_array[n] \in OddNumbers
        BY <2>1 DEF OddNumbers
      <3>2. ASSUME NEW x \in OddNumbers
            PROVE  \E n \in tagged : int_array[n] = x
        BY <2>1 DEF OddNumbers, Found
      <3>3. QED BY <3>1, <3>2
    <2>3. CASE Kind # "radix"
      BY <2>1, <2>2, <2>3
    <2>4. CASE Kind = "radix"
      <3>1. GangLookup \subseteq tagged
        BY DEF GangLookup
      <3>2. ASSUME Cardinality(OddNumbers) <= Limit PROVE GangLookup = tagged
        <4>1. IsFiniteSet(tagged) /\ Cardinality(tagged) <= Limit
          BY <2>4, <3>2, OnePerOdd
        <4>2. ASSUME NEW n \in tagged PROVE n \in GangLookup
          <5> DEFINE S == {m \in tagged : int_array[m] < int_array[n]}
          <5>1. IsFiniteSet(tagged \ {n}) /\ Cardinality(tagged \ {n}) = Cardinality(tagged) - 1
            BY <4>1, FS_RemoveElement
          <5>2. int_array[n] \in Nat
            BY <2>1, OddFinite
          <5>3. S \in SUBSET (tagged \ {n})
            BY <5>2
          <5> HIDE DEF S
          <5>4. /\ Cardinality(S) <= Cardinality(tagged \ {n})
                /\ Cardinality(S) \in Nat /\ Cardinality(tagged) \in Nat
            BY <4>1, <5>1, <5>3, FS_Subset, FS_CardinalityType
          <5>5. Cardinality(S) < Limit
            BY <4>1, <5>1, <5>4, SlotsAssumption
          <5>6. QED BY <5>5 DEF GangLookup, S
        <4>3. QED BY <3>1, <4>2
      <3>3. seen \subseteq OddNumbers
        BY <2>1, <2>2, <2>4, <3>1
      <3>4. QED BY <2>1, <2>2, <2>4, <3>2, <3>3
    <2>5. QED BY <2>3, <2>4
  <1>2. QED BY <1>1, RoomInvariant, PTL

\* After loading, the list and the hash table have freed everything, equal
\* numbers included, and the trees and the xarray everything but nodes of
\* repeated numbers.
THEOREM LeaksOnlyDuplicatesHolds == Spec => []LeaksOnlyDuplicates
  <1>1. KdsInv => LeaksOnlyDuplicates
    <2> SUFFICES ASSUME KdsInv, at = Len(Plan) + 1, NEW h \in heap
                 PROVE  /\ h[1] \notin {"list", "hash"}
                        /\ \E k \in 1 .. count \ {h[2]} : int_array[k] = int_array[h[2]]
      BY DEF LeaksOnlyDuplicates
    <2>1. ~Running /\ at # Crashed
      BY PlanEnds DEF Running, Crashed
    <2>2. QED BY <2>1 DEF KdsInv, Kept, Repeated
  <1>2. QED BY <1>1, KdsInvariant, PTL
=============================================================================
