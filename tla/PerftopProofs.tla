--------------------------- MODULE PerftopProofs ---------------------------
(***************************************************************************)
(* Proofs about Perftop, for any number of processors and tasks and any    *)
(* bounds: the counters agree, nothing is used while it is freed, the      *)
(* reader prints the largest totals, and a task that is credited with more *)
(* time than it had was switched out unseen or raced for.                  *)
(***************************************************************************)
EXTENDS Perftop, FiniteSetTheorems, TLAPS

----------------------------------------------------------------------------
(* The inductive invariants. *)

\* Nothing has happened yet.
Fresh ==
  /\ \A c \in CPU : pc[c] = "run"
  /\ pre_count = 0 /\ post_count = 0 /\ context_switch_count = 0
  /\ Len(free) = Cardinality(CPU)
  /\ \A p \in Task : hash[p] = 0
  /\ tree = {}

\* The calls that are left, of either part: all; without proc_create; those of
\* perftop_exit; without remove_proc; those that free the tables.
All == {<<"proc_create", "register", "remove_proc", "unregister">>,
        <<"proc_create", "register", "remove_proc", "unregister", "free_hash",
          "free_tree">>}
ToRegister == {<<"register", "remove_proc", "unregister">>,
               <<"register", "remove_proc", "unregister", "free_hash", "free_tree">>}
ToExit == {<<"remove_proc", "unregister">>,
           <<"remove_proc", "unregister", "free_hash", "free_tree">>}
ToUnregister == {<<"unregister">>, <<"unregister", "free_hash", "free_tree">>}
ToFree == {<<"free_hash", "free_tree">>, <<"free_tree">>, <<>>}
Failed == <<"failed">>

\* The stages of the module's life.
LoadInv ==
  \/ plan \in All /\ ~proc /\ ~probed /\ reader = "off" /\ Fresh
  \/ plan \in ToRegister \cup {Failed} /\ proc /\ ~probed /\ Fresh
  \/ plan \in ToExit /\ proc /\ probed
  \/ plan \in ToUnregister /\ ~proc /\ probed /\ reader = "off"
  \/ /\ plan \in ToFree /\ ~proc /\ ~probed /\ reader = "off"
     /\ \A c \in CPU : pc[c] \in {"run", "pick"}

\* The locals of a CPU, by where its handlers are.
HandlerInv(c) ==
  /\ pc[c] \in {"run", "pick"} => next[c] = Null
  /\ pc[c] = "pick" => running[c] \in Task
  /\ pc[c] \in Switching =>
       /\ part = 2
       /\ next[c] \in Pid \cup {Retry} /\ next[c] # prev[c]
       /\ prev[c] \in Task /\ running[c] \in Task
       /\ curr[c] <= now

\* While the probe is registered, every CPU that is not inside a probed call has
\* left an instance in the list.
FreeInv ==
  probed => Len(free) = Cardinality(At({"run"}))

\* Start times are in the past, and Part 1 keeps no tables.
TableInv ==
  /\ \A p \in Task : hash[p] <= now
  /\ part = 1 => tree = {} /\ \A p \in Task : hash[p] = 0

PInv ==
  /\ TypeOK /\ LoadInv /\ FreeInv /\ TableInv
  /\ \A c \in CPU : HandlerInv(c)

\* The tree is ordered: no two entries have the same total, or the same pid.
TreeInv ==
  \A e, f \in tree : e.tsc = f.tsc \/ e.pid = f.pid => e = f

\* A reader prints the totals from the largest down, and has room left until it
\* is at the end.
ShowInv ==
  /\ ShowsMostScheduled
  /\ \A i \in 1 .. Len(out) : out[i].tsc >= out[Len(out)].tsc
  /\ reader = "off" => out = <<>>
  /\ reader = "walk" => Len(out) < Limit

\* A task is on one CPU at most.
Exclusive ==
  \A c, d \in CPU : \A t \in Pid :
    t \in {running[c], next[c]} /\ t \in {running[d], next[d]} => c = d

\* The tasks whose switches were all recorded and whose start times no two
\* handlers raced for.
Seen == Task \ (unrecorded \cup raced)

\* The time is cut into units, unit k being the tick to time k.  A handler
\* charges prev with the units of one interval; c's handler is about to charge p,
\* switches to p, or away from it.
Charge(c) == old[c] + 1 .. curr[c]
Charging(c, p) == pc[c] = "account" /\ prev[c] = p
Coming(c, p) == pc[c] \in Switching /\ next[c] = p
Leaving(c, p) == pc[c] \in Switching /\ running[c] = p /\ next[c] \in Pid \ {p}

\* H[p] are the units that p had, K[p] those that its total stands for.
UsedInv(H) ==
  /\ H \in [Task -> SUBSET (1 .. now)]
  /\ \A p \in Task : Cardinality(H[p]) = used[p]
TotalInv(H, K) ==
  /\ K \in [Task -> SUBSET Nat]
  /\ \A p \in Seen : K[p] \subseteq H[p] /\ Total(tree, p) <= Cardinality(K[p])

\* A start time belongs to a turn that is not over: a handler that lets a task
\* leave has removed it by the time it inserts the next one's.
TurnInv ==
  probed =>
    \A p \in Task \ unrecorded :
      hash[p] # 0 => \E c \in CPU : p \in {running[c], next[c]}
LeaveInv ==
  \A p \in Task \ unrecorded, c \in CPU : Leaving(c, p) =>
    prev[c] = p /\ (pc[c] \in {"account", "insert"} => hash[p] = 0)

\* A task had all of its turn, up to now or to where it leaves.
SpanInv(H) ==
  \A p \in Seen, c \in CPU :
    /\ probed /\ hash[p] # 0 /\ Owner(c) = p => hash[p] + 1 .. now \subseteq H[p]
    /\ hash[p] # 0 /\ Leaving(c, p) => hash[p] + 1 .. curr[c] \subseteq H[p]
    /\ Coming(c, p) => curr[c] + 1 .. now \subseteq H[p]

\* Everything that was charged, or is about to be, was before the current turn.
StartInv(K) ==
  \A p \in Seen, k \in Nat :
    k \in K[p] \/ (\E c \in CPU : Charging(c, p) /\ k \in Charge(c)) =>
      /\ hash[p] # 0 => k <= hash[p]
      /\ \A d \in CPU : Coming(d, p) => k <= curr[d]

\* No unit is charged twice.
ChargeInv(H, K) ==
  \A p \in Seen, c \in CPU : Charging(c, p) =>
    /\ old[c] <= curr[c]
    /\ Charge(c) \subseteq H[p] \ K[p]
    /\ \A d \in CPU \ {c} : Charging(d, p) => Charge(c) \cap Charge(d) = {}

\* What a handler has looked up, or is about to, is the start time.
LookInv ==
  \A p \in Seen, c \in CPU : pc[c] \in {"lookup", "remove"} /\ prev[c] = p =>
    /\ hash[p] <= curr[c]
    /\ pc[c] = "remove" => old[c] = hash[p] /\ old[c] # 0

TimeParts(H, K) ==
  /\ Exclusive /\ UsedInv(H) /\ TotalInv(H, K) /\ TurnInv /\ LeaveInv
  /\ SpanInv(H) /\ StartInv(K) /\ ChargeInv(H, K) /\ LookInv

TimeInv == PInv /\ TreeInv /\ \E H, K : TimeParts(H, K)

----------------------------------------------------------------------------
(* Lemmas about the parts of the state. *)

TypeLoad ==
  /\ part \in Parts
  /\ plan \in Seq({"proc_create", "register", "remove_proc", "unregister",
                   "free_hash", "free_tree", "failed"})
  /\ proc \in BOOLEAN /\ probed \in BOOLEAN
TypeSched ==
  /\ now \in 1 .. MaxTime
  /\ running \in [CPU -> Pid \cup {Idle}]
  /\ next \in [CPU -> Pid \cup {Null, Retry}]
TypePc == pc \in [CPU -> {"run", "pick", "oops"} \cup Switching]
TypeLocals ==
  /\ prev \in [CPU -> Task \cup {Null, Junk}]
  /\ free \in Seq(Task \cup {Null, Junk}) /\ Len(free) <= Cardinality(CPU)
  /\ curr \in [CPU -> 0 .. MaxTime] /\ old \in [CPU -> 0 .. MaxTime]
TypeHash == hash \in [Task -> 0 .. MaxTime]
TypeTree == tree \subseteq Entry
TypeReader == reader \in {"off", "walk", "end"} /\ out \in Seq(Entry)
TypeCounts == {pre_count, post_count, context_switch_count} \subseteq Nat
TypeGhosts ==
  /\ used \in [Task -> Nat] /\ credited \in [Task -> Int]
  /\ unrecorded \subseteq Task /\ raced \subseteq Task

LEMMA TypeParts ==
  TypeOK <=> /\ TypeLoad /\ TypeSched /\ TypePc /\ TypeLocals /\ TypeHash
             /\ TypeTree /\ TypeReader /\ TypeCounts /\ TypeGhosts
  BY DEF TypeOK, TypeLoad, TypeSched, TypePc, TypeLocals, TypeHash, TypeTree,
         TypeReader, TypeCounts, TypeGhosts

LEMMA TypeKept ==
  /\ TypeLoad /\ UNCHANGED loading => TypeLoad'
  /\ TypeSched /\ UNCHANGED sched => TypeSched'
  /\ TypePc /\ UNCHANGED pc => TypePc'
  /\ TypeLocals /\ UNCHANGED locals => TypeLocals'
  /\ TypeHash /\ UNCHANGED hash => TypeHash'
  /\ TypeTree /\ UNCHANGED tree => TypeTree'
  /\ TypeReader /\ UNCHANGED <<reader, out>> => TypeReader'
  /\ TypeCounts /\ UNCHANGED counts => TypeCounts'
  /\ TypeGhosts /\ UNCHANGED ghosts => TypeGhosts'
  BY DEF TypeLoad, TypeSched, TypePc, TypeLocals, TypeHash, TypeTree,
         TypeReader, TypeCounts, TypeGhosts, loading, sched, locals, counts, ghosts

\* The pointers that are no tasks.
LEMMA Pointers ==
  /\ Idle \notin Pid /\ Null \notin Pid /\ Retry \notin Pid /\ Junk \notin Pid
  /\ Idle # Null /\ Idle # Retry /\ Idle # Junk
  /\ Null # Retry /\ Null # Junk /\ Retry # Junk
  /\ Task \subseteq Pid
  BY TaskAssumption DEF Pid, Idle, Null, Retry, Junk

\* How many CPUs are at some of the places, and what one of them changes when it
\* moves to y.
LEMMA AtSet ==
  ASSUME NEW S
  PROVE  IsFiniteSet(At(S)) /\ Cardinality(At(S)) \in Nat
  <1>1. At(S) \subseteq CPU
    BY DEF At
  <1>2. QED BY <1>1, CpuAssumption, FS_Subset, FS_CardinalityType

LEMMA AtEnter ==
  ASSUME TypePc, NEW c \in CPU, NEW y, pc' = [pc EXCEPT ![c] = y], NEW S,
         y \in S, pc[c] \notin S
  PROVE  /\ Cardinality(At(S)) \in Nat
         /\ Cardinality(At(S)') = Cardinality(At(S)) + 1
  <1>1. IsFiniteSet(At(S)) /\ Cardinality(At(S)) \in Nat
    BY AtSet
  <1>2. At(S)' = At(S) \cup {c} /\ c \notin At(S)
    BY DEF At, TypePc
  <1>3. QED BY <1>1, <1>2, FS_AddElement

LEMMA AtLeave ==
  ASSUME TypePc, NEW c \in CPU, NEW y, pc' = [pc EXCEPT ![c] = y], NEW S,
         y \notin S, pc[c] \in S
  PROVE  /\ Cardinality(At(S)) \in Nat /\ Cardinality(At(S)) > 0
         /\ Cardinality(At(S)') = Cardinality(At(S)) - 1
  <1>1. IsFiniteSet(At(S)) /\ Cardinality(At(S)) \in Nat
    BY AtSet
  <1>2. At(S)' = At(S) \ {c} /\ c \in At(S)
    BY DEF At, TypePc
  <1>3. Cardinality(At(S)) # 0
    BY <1>1, <1>2, FS_EmptySet
  <1>4. Cardinality(At(S) \ {c}) =
          IF c \in At(S) THEN Cardinality(At(S)) - 1 ELSE Cardinality(At(S))
    BY <1>1, FS_RemoveElement
  <1>5. QED BY <1>1, <1>2, <1>3, <1>4

LEMMA AtSame ==
  ASSUME TypePc, NEW c \in CPU, NEW y, pc' = [pc EXCEPT ![c] = y], NEW S,
         y \in S <=> pc[c] \in S
  PROVE  At(S)' = At(S)
  BY DEF At, TypePc

LEMMA AtKept ==
  ASSUME UNCHANGED pc, NEW S
  PROVE  At(S)' = At(S)
  BY DEF At

\* The first call of a plan, and what it leaves.
LEMMA Plans ==
  /\ plan \in All => plan # <<>> /\ Head(plan) = "proc_create" /\ Tail(plan) \in ToRegister
  /\ plan \in ToRegister =>
       plan # <<>> /\ Head(plan) = "register" /\ Tail(plan) \in ToExit
  /\ plan \in ToExit =>
       plan # <<>> /\ Head(plan) = "remove_proc" /\ Tail(plan) \in ToUnregister
  /\ plan \in ToUnregister =>
       plan # <<>> /\ Head(plan) = "unregister" /\ Tail(plan) \in ToFree
  /\ plan \in ToFree /\ plan # <<>> =>
       Head(plan) \in {"free_hash", "free_tree"} /\ Tail(plan) \in ToFree
  /\ plan = Failed => plan # <<>> /\ Head(plan) = "failed"
  <1>1. /\ Tail(<<"proc_create", "register", "remove_proc", "unregister">>)
             = <<"register", "remove_proc", "unregister">>
        /\ Tail(<<"proc_create", "register", "remove_proc", "unregister",
                  "free_hash", "free_tree">>)
             = <<"register", "remove_proc", "unregister", "free_hash", "free_tree">>
    OBVIOUS
  <1>2. /\ Tail(<<"register", "remove_proc", "unregister">>)
             = <<"remove_proc", "unregister">>
        /\ Tail(<<"register", "remove_proc", "unregister", "free_hash", "free_tree">>)
             = <<"remove_proc", "unregister", "free_hash", "free_tree">>
    OBVIOUS
  <1>3. /\ Tail(<<"remove_proc", "unregister">>) = <<"unregister">>
        /\ Tail(<<"remove_proc", "unregister", "free_hash", "free_tree">>)
             = <<"unregister", "free_hash", "free_tree">>
    OBVIOUS
  <1>4. /\ Tail(<<"unregister">>) = <<>>
        /\ Tail(<<"unregister", "free_hash", "free_tree">>) = <<"free_hash", "free_tree">>
        /\ Tail(<<"free_hash", "free_tree">>) = <<"free_tree">>
        /\ Tail(<<"free_tree">>) = <<>>
    OBVIOUS
  <1>5. \A f \in {"proc_create", "register", "remove_proc", "unregister",
                  "free_hash", "free_tree", "failed"} :
          Head(<<f>>) = f /\ <<f>> # <<>>
    OBVIOUS
  <1>6. plan \in All => plan # <<>> /\ Head(plan) = "proc_create" /\ Tail(plan) \in ToRegister
    <2>1. \A t \in All : t # <<>> /\ Head(t) = "proc_create"
      BY DEF All
    <2>2. \A t \in All : Tail(t) \in ToRegister
      BY Zenon, <1>1 DEF All, ToRegister
    <2>3. QED BY <2>1, <2>2
  <1>7. plan \in ToRegister =>
          plan # <<>> /\ Head(plan) = "register" /\ Tail(plan) \in ToExit
    <2>1. \A t \in ToRegister : t # <<>> /\ Head(t) = "register"
      BY DEF ToRegister
    <2>2. \A t \in ToRegister : Tail(t) \in ToExit
      BY Zenon, <1>2 DEF ToExit, ToRegister
    <2>3. QED BY <2>1, <2>2
  <1>8. plan \in ToExit =>
          plan # <<>> /\ Head(plan) = "remove_proc" /\ Tail(plan) \in ToUnregister
    <2>1. \A t \in ToExit : t # <<>> /\ Head(t) = "remove_proc"
      BY DEF ToExit
    <2>2. \A t \in ToExit : Tail(t) \in ToUnregister
      BY Zenon, <1>3 DEF ToExit, ToUnregister
    <2>3. QED BY <2>1, <2>2
  <1>9. plan \in ToUnregister =>
          plan # <<>> /\ Head(plan) = "unregister" /\ Tail(plan) \in ToFree
    <2>1. \A t \in ToUnregister : t # <<>> /\ Head(t) = "unregister"
      BY DEF ToUnregister
    <2>2. \A t \in ToUnregister : Tail(t) \in ToFree
      BY Zenon, <1>4 DEF ToFree, ToUnregister
    <2>3. QED BY <2>1, <2>2
  <1>10. plan \in ToFree /\ plan # <<>> =>
           Head(plan) \in {"free_hash", "free_tree"} /\ Tail(plan) \in ToFree
    <2>1. \A t \in ToFree : t = <<>> \/ Head(t) \in {"free_hash", "free_tree"}
      BY DEF ToFree
    <2>2. \A t \in ToFree : t = <<>> \/ Tail(t) \in ToFree
      BY Zenon, <1>4 DEF ToFree
    <2>3. QED BY <2>1, <2>2
  <1>11. plan = Failed => plan # <<>> /\ Head(plan) = "failed"
    BY DEF Failed
  <1>12. QED BY <1>6, <1>7, <1>8, <1>9, <1>10, <1>11

LEMMA RunBound ==
  /\ Cardinality(At({"run"})) \in Nat /\ Cardinality(CPU) \in Nat
  /\ Cardinality(At({"run"})) <= Cardinality(CPU)
  <1>1. At({"run"}) \subseteq CPU
    BY DEF At
  <1>2. QED BY <1>1, CpuAssumption, FS_Subset, FS_CardinalityType

\* A handler is under way only while the probe is registered.
LEMMA BusyProbed ==
  ASSUME LoadInv, NEW c \in CPU, pc[c] \notin {"run", "pick"}
  PROVE  probed /\ ~Fresh
  BY DEF LoadInv, Fresh

LEMMA UnprobedPick ==
  ASSUME LoadInv, NEW c \in CPU, pc[c] # "run", ~probed
  PROVE  /\ plan \in ToFree /\ ~proc /\ reader = "off"
         /\ \A d \in CPU : pc[d] \in {"run", "pick"}
  BY DEF LoadInv, Fresh

\* What a step of the handlers keeps of the module's life.
LEMMA LoadProbed ==
  ASSUME LoadInv, probed, UNCHANGED <<plan, proc, probed, reader>>
  PROVE  LoadInv'
  BY DEF LoadInv

LEMMA HandlerKept ==
  ASSUME TypeOK, NEW d \in CPU, HandlerInv(d), part' = part,
         now' \in Nat, now <= now',
         pc'[d] = pc[d], next'[d] = next[d], running'[d] = running[d],
         prev'[d] = prev[d], old'[d] = old[d], curr'[d] = curr[d]
  PROVE  HandlerInv(d)'
  <1>1. now \in Nat /\ curr[d] \in Nat /\ old[d] \in Nat
    BY DEF TypeOK
  <1>2. curr[d] <= now => curr[d] <= now'
    BY <1>1
  <1>3. QED BY <1>2 DEF HandlerInv

LEMMA HandlerRuns ==
  ASSUME NEW d \in CPU, pc'[d] = "run", next'[d] = Null
  PROVE  HandlerInv(d)'
  BY DEF HandlerInv, Switching

\* What Done leaves.
LEMMA DoneTypes ==
  ASSUME TypeOK, FreeInv, probed, UNCHANGED probed,
         NEW c \in CPU, pc[c] # "run", NEW t \in Pid \cup {Idle},
         UNCHANGED now, Done(c, t)
  PROVE  TypeSched' /\ TypePc' /\ TypeLocals' /\ FreeInv'
  <1>1. TypePc /\ TypeSched /\ TypeLocals
    BY TypeParts
  <1>2. TypePc'
    BY <1>1 DEF Done, TypePc
  <1>3. TypeSched'
    BY <1>1 DEF Done, TypeSched
  <1>4. prev[c] \in Task \cup {Null, Junk}
    BY <1>1 DEF TypeLocals
  <1>5. /\ free' \in Seq(Task \cup {Null, Junk})
        /\ Len(free') = Len(free) + 1
    <2> DEFINE P == Task \cup {Null, Junk}
    <2>1. free \in Seq(P) /\ prev[c] \in P /\ free' = <<prev[c]>> \o free
      BY <1>1, <1>4 DEF TypeLocals, Done
    <2> HIDE DEF P
    <2>2. <<prev[c]>> \in Seq(P) /\ Len(<<prev[c]>>) = 1
      BY <2>1
    <2>3. free' \in Seq(P) /\ Len(free') = Len(free) + 1
      BY <2>1, <2>2
    <2>4. QED BY <2>3 DEF P
  <1>6. /\ Cardinality(At({"run"})) \in Nat
        /\ Cardinality(At({"run"})') = Cardinality(At({"run"})) + 1
    <2>1. pc' = [pc EXCEPT ![c] = "run"]
      BY DEF Done
    <2>2. "run" \in {"run"} /\ pc[c] \notin {"run"}
      OBVIOUS
    <2>3. QED BY <1>1, <2>1, <2>2, AtEnter, Zenon
  <1>7. (Cardinality(At({"run"})) <= Cardinality(CPU))'
    BY RunBound, PTL
  <1>8. Len(free') = Cardinality(At({"run"})') /\ Len(free') <= Cardinality(CPU)
    <2>1. Len(free) = Cardinality(At({"run"}))
      BY DEF FreeInv
    <2>2. Cardinality(At({"run"})') <= Cardinality(CPU)
      BY <1>7
    <2>3. QED BY <1>5, <1>6, <2>1, <2>2
  <1>9. curr' \in [CPU -> 0 .. MaxTime] /\ old' \in [CPU -> 0 .. MaxTime]
    BY <1>1, BoundAssumption DEF Done, TypeLocals
  <1>10. prev' \in [CPU -> Task \cup {Null, Junk}]
    BY <1>1 DEF Done, TypeLocals
  <1>11. QED
    BY <1>2, <1>3, <1>5, <1>8, <1>9, <1>10 DEF TypeLocals, FreeInv

LEMMA DoneHandlers ==
  ASSUME TypeOK, \A d \in CPU : HandlerInv(d), NEW c \in CPU, NEW t,
         UNCHANGED <<part, now>>, Done(c, t)
  PROVE  \A d \in CPU : HandlerInv(d)'
  <1>0. /\ pc \in [CPU -> {"run", "pick", "oops"} \cup Switching]
        /\ DOMAIN next = CPU /\ DOMAIN running = CPU /\ DOMAIN prev = CPU
        /\ DOMAIN curr = CPU /\ DOMAIN old = CPU
        /\ now \in Nat
    BY DEF TypeOK
  <1>1. TAKE d \in CPU
  <1>2. CASE d = c
    <2>1. pc'[d] = "run" /\ next'[d] = Null
      BY <1>0, <1>2 DEF Done
    <2>2. QED BY <2>1, HandlerRuns
  <1>3. CASE d # c
    <2>1. /\ pc'[d] = pc[d] /\ next'[d] = next[d] /\ running'[d] = running[d]
          /\ prev'[d] = prev[d] /\ old'[d] = old[d] /\ curr'[d] = curr[d]
      BY <1>0, <1>3 DEF Done
    <2>2. now' \in Nat /\ now <= now' /\ part' = part
      BY <1>0
    <2>3. HandlerInv(d)
      OBVIOUS
    <2>4. QED BY <2>1, <2>2, <2>3, HandlerKept
  <1>4. QED BY <1>2, <1>3

----------------------------------------------------------------------------
(* PInv is inductive: one lemma per kind of step. *)

LEMMA LoaderKeeps ==
  ASSUME Loader
  PROVE  UNCHANGED <<part, sched, pc, locals, reader, out, counts, ghosts>>
  BY DEF Loader, ProcCreate, RegisterKretprobe, RegisterFails, RemoveProcEntry,
         UnregisterKretprobe, RemoveHashTableAll, RemoveRbTreeAll, Call

LEMMA FreshKept ==
  ASSUME Fresh, UNCHANGED <<pc, counts, locals, hash, tree>>
  PROVE  Fresh'
  BY DEF Fresh, counts, locals

\* Each call moves the module on to its next stage.
LEMMA LoaderStage ==
  ASSUME LoadInv, Loader
  PROVE  LoadInv'
  <1>0. UNCHANGED <<pc, counts, locals, reader>>
    BY LoaderKeeps
  <1>1. CASE ProcCreate
    <2>1. Head(plan) = "proc_create" /\ plan # <<>> /\ plan' = Tail(plan)
          /\ proc' = TRUE /\ UNCHANGED <<probed, hash, tree>>
      BY <1>1 DEF ProcCreate, Call
    <2>2. plan \in All /\ ~probed /\ Fresh
      BY <2>1, Plans DEF LoadInv
    <2>3. plan' \in ToRegister
      BY <2>1, <2>2, Plans
    <2>4. Fresh'
      BY <1>0, <2>1, <2>2, FreshKept
    <2>5. QED BY <2>1, <2>2, <2>3, <2>4 DEF LoadInv
  <1>2. CASE RegisterKretprobe
    <2>1. Head(plan) = "register" /\ plan # <<>> /\ plan' = Tail(plan)
          /\ probed' = TRUE /\ UNCHANGED proc
      BY <1>2 DEF RegisterKretprobe, Call
    <2>2. plan \in ToRegister /\ proc
      BY <2>1, Plans DEF LoadInv
    <2>3. plan' \in ToExit
      BY <2>1, <2>2, Plans
    <2>4. QED BY <2>1, <2>2, <2>3 DEF LoadInv
  <1>3. CASE RegisterFails
    <2>1. Head(plan) = "register" /\ plan # <<>> /\ plan' = Failed
          /\ UNCHANGED <<proc, probed, hash, tree>>
      BY <1>3 DEF RegisterFails, Failed
    <2>2. plan \in ToRegister /\ proc /\ ~probed /\ Fresh
      BY <2>1, Plans DEF LoadInv
    <2>3. Fresh'
      BY <1>0, <2>1, <2>2, FreshKept
    <2>4. QED BY <2>1, <2>2, <2>3 DEF LoadInv
  <1>4. CASE RemoveProcEntry
    <2>1. Head(plan) = "remove_proc" /\ plan # <<>> /\ plan' = Tail(plan)
          /\ reader = "off" /\ proc' = FALSE /\ UNCHANGED probed
      BY <1>4 DEF RemoveProcEntry, Call
    <2>2. plan \in ToExit /\ probed
      BY <2>1, Plans DEF LoadInv
    <2>3. plan' \in ToUnregister
      BY <2>1, <2>2, Plans
    <2>4. QED BY <1>0, <2>1, <2>2, <2>3 DEF LoadInv
  <1>5. CASE UnregisterKretprobe
    <2>1. Head(plan) = "unregister" /\ plan # <<>> /\ plan' = Tail(plan)
          /\ probed' = FALSE /\ UNCHANGED proc
          /\ \A c \in CPU : pc[c] \in {"run", "pick"}
      BY <1>5 DEF UnregisterKretprobe, Call
    <2>2. plan \in ToUnregister /\ ~proc /\ reader = "off"
      BY <2>1, Plans DEF LoadInv
    <2>3. plan' \in ToFree
      BY <2>1, <2>2, Plans
    <2>4. QED BY <1>0, <2>1, <2>2, <2>3 DEF LoadInv
  <1>6. CASE RemoveHashTableAll \/ RemoveRbTreeAll
    <2>1. Head(plan) \in {"free_hash", "free_tree"} /\ plan # <<>>
          /\ plan' = Tail(plan) /\ UNCHANGED <<proc, probed>>
      BY <1>6 DEF RemoveHashTableAll, RemoveRbTreeAll, Call
    <2>2. /\ plan \in ToFree /\ ~proc /\ ~probed /\ reader = "off"
          /\ \A c \in CPU : pc[c] \in {"run", "pick"}
      BY <2>1, Plans DEF LoadInv
    <2>3. plan' \in ToFree
      BY <2>1, <2>2, Plans
    <2>4. QED BY <1>0, <2>1, <2>2, <2>3 DEF LoadInv
  <1>7. QED BY <1>1, <1>2, <1>3, <1>4, <1>5, <1>6 DEF Loader

LEMMA HandlersKept ==
  ASSUME TypeOK, \A d \in CPU : HandlerInv(d), part' = part,
         now' \in Nat, now <= now', UNCHANGED <<pc, next, running, prev, old, curr>>
  PROVE  \A d \in CPU : HandlerInv(d)'
  <1>1. TAKE d \in CPU
  <1>2. /\ pc'[d] = pc[d] /\ next'[d] = next[d] /\ running'[d] = running[d]
        /\ prev'[d] = prev[d] /\ old'[d] = old[d] /\ curr'[d] = curr[d]
    OBVIOUS
  <1>3. QED BY <1>2, HandlerKept

LEMMA LoaderTypes ==
  ASSUME TypeOK, Loader
  PROVE  TypeOK'
  <1>1. UNCHANGED <<part, sched, pc, locals, reader, out, counts, ghosts>>
    BY LoaderKeeps
  <1>2. TypeLoad /\ TypeHash /\ TypeTree
    BY TypeParts
  <1>3. /\ TypeSched' /\ TypePc' /\ TypeLocals' /\ TypeReader' /\ TypeCounts'
        /\ TypeGhosts'
    BY <1>1, TypeParts, TypeKept
  <1>4. plan' = <<"failed">> \/ (plan # <<>> /\ plan' = Tail(plan))
    BY DEF Loader, ProcCreate, RegisterKretprobe, RegisterFails, RemoveProcEntry,
           UnregisterKretprobe, RemoveHashTableAll, RemoveRbTreeAll, Call
  <1>5. proc' \in BOOLEAN /\ probed' \in BOOLEAN
    BY <1>2 DEF TypeLoad, Loader, ProcCreate, RegisterKretprobe, RegisterFails,
         RemoveProcEntry, UnregisterKretprobe, RemoveHashTableAll, RemoveRbTreeAll, Call
  <1>6. TypeLoad'
    <2> DEFINE F == {"proc_create", "register", "remove_proc", "unregister",
                     "free_hash", "free_tree", "failed"}
    <2>1. plan \in Seq(F) /\ "failed" \in F
      BY <1>2 DEF TypeLoad
    <2> HIDE DEF F
    <2>2. plan' \in Seq(F)
      <3>1. <<"failed">> \in Seq(F)
        BY <2>1
      <3>2. plan # <<>> => Tail(plan) \in Seq(F)
        BY <2>1
      <3>3. QED BY <1>4, <3>1, <3>2
    <2>3. part' \in Parts
      BY <1>1, <1>2 DEF TypeLoad
    <2>4. QED BY <1>5, <2>2, <2>3 DEF TypeLoad, F
  <1>7. UNCHANGED hash \/ \E p \in Task : hash' = [hash EXCEPT ![p] = 0]
    BY DEF Loader, ProcCreate, RegisterKretprobe, RegisterFails, RemoveProcEntry,
           UnregisterKretprobe, RemoveHashTableAll, RemoveRbTreeAll, Call
  <1>8. TypeHash'
    BY <1>2, <1>7, BoundAssumption DEF TypeHash
  <1>9. UNCHANGED tree \/ tree' = {}
    BY DEF Loader, ProcCreate, RegisterKretprobe, RegisterFails, RemoveProcEntry,
           UnregisterKretprobe, RemoveHashTableAll, RemoveRbTreeAll, Call
  <1>10. TypeTree'
    BY <1>2, <1>9 DEF TypeTree
  <1>11. (/\ TypeLoad /\ TypeSched /\ TypePc /\ TypeLocals /\ TypeHash
          /\ TypeTree /\ TypeReader /\ TypeCounts /\ TypeGhosts)'
    BY <1>3, <1>6, <1>8, <1>10
  <1>12. QED BY <1>11, TypeParts, PTL

LEMMA LoaderPInv ==
  ASSUME PInv, Loader
  PROVE  PInv'
  <1>1. UNCHANGED <<part, sched, pc, locals, reader, out, counts, ghosts>>
    BY LoaderKeeps
  <1>2. TypeOK /\ LoadInv /\ FreeInv /\ TableInv /\ \A c \in CPU : HandlerInv(c)
    BY DEF PInv
  <1>3. TypeOK'
    BY <1>2, LoaderTypes
  <1>4. LoadInv'
    BY <1>2, LoaderStage
  <1>5. FreeInv'
    <2>1. At({"run"})' = At({"run"}) /\ UNCHANGED free
      BY <1>1, AtKept DEF locals
    <2>2. probed' => probed \/ RegisterKretprobe
      BY DEF Loader, ProcCreate, RegisterKretprobe, RegisterFails, RemoveProcEntry,
             UnregisterKretprobe, RemoveHashTableAll, RemoveRbTreeAll, Call
    <2>3. RegisterKretprobe => Fresh
      BY <1>2, Plans DEF RegisterKretprobe, Call, LoadInv
    <2>4. Fresh => Len(free) = Cardinality(At({"run"}))
      <3>1. Fresh => At({"run"}) = CPU
        BY DEF Fresh, At
      <3>2. QED BY <3>1 DEF Fresh
    <2>5. QED BY <1>2, <2>1, <2>2, <2>3, <2>4 DEF FreeInv
  <1>6. TableInv'
    <2>1. UNCHANGED hash \/ \E p \in Task : hash' = [hash EXCEPT ![p] = 0]
      BY DEF Loader, ProcCreate, RegisterKretprobe, RegisterFails, RemoveProcEntry,
             UnregisterKretprobe, RemoveHashTableAll, RemoveRbTreeAll, Call
    <2>2. hash \in [Task -> 0 .. MaxTime] /\ now \in Nat
      BY <1>2 DEF TypeOK
    <2>3. \A p \in Task : hash'[p] = hash[p] \/ hash'[p] = 0
      BY <2>1, <2>2
    <2>4. UNCHANGED tree \/ tree' = {}
      BY DEF Loader, ProcCreate, RegisterKretprobe, RegisterFails, RemoveProcEntry,
             UnregisterKretprobe, RemoveHashTableAll, RemoveRbTreeAll, Call
    <2>5. now' = now /\ part' = part
      BY <1>1 DEF sched
    <2>6. QED BY <1>2, <2>2, <2>3, <2>4, <2>5 DEF TableInv
  <1>7. \A c \in CPU : HandlerInv(c)'
    <2>1. now \in Nat
      BY <1>2 DEF TypeOK
    <2>2. part' = part /\ now' \in Nat /\ now <= now'
          /\ UNCHANGED <<pc, next, running, prev, old, curr>>
      BY <1>1, <2>1 DEF sched, locals
    <2>3. QED BY <1>2, <2>2, HandlersKept
  <1>8. QED BY <1>3, <1>4, <1>5, <1>6, <1>7 DEF PInv

\* The parts of PInv together.
LEMMA PInvParts ==
  PInv <=> /\ TypeLoad /\ TypeSched /\ TypePc /\ TypeLocals /\ TypeHash
           /\ TypeTree /\ TypeReader /\ TypeCounts /\ TypeGhosts
           /\ LoadInv /\ FreeInv /\ TableInv /\ \A c \in CPU : HandlerInv(c)
  BY TypeParts DEF PInv

\* A step that leaves the tables and the clock alone.
LEMMA TableKept ==
  ASSUME TableInv, UNCHANGED <<part, now, hash, tree>>
  PROVE  TableInv'
  BY DEF TableInv

LEMMA ReaderPInv ==
  ASSUME PInv, Reader
  PROVE  PInv'
  <1>1. UNCHANGED <<loading, sched, pc, locals, hash, tree, counts, ghosts>>
    BY DEF Reader, ShowOpen, ShowNext, ShowClose
  <1>2. TypeOK /\ TypeTree /\ TypeReader /\ LoadInv /\ FreeInv /\ TableInv
        /\ \A c \in CPU : HandlerInv(c)
    BY PInvParts DEF PInv
  <1>3. TypeReader'
    <2>1. CASE ShowOpen
      BY <1>2, <2>1 DEF ShowOpen, TypeReader
    <2>2. CASE ShowNext
      <3>1. Below \subseteq Entry
        BY <1>2 DEF Below, TypeTree
      <3>2. reader' \in {"off", "walk", "end"}
        BY <2>2 DEF ShowNext
      <3>3. UNCHANGED out \/ \E e \in Below : out' = Append(out, e)
        BY <2>2 DEF ShowNext
      <3>4. out \in Seq(Entry)
        BY <1>2 DEF TypeReader
      <3> HIDE DEF Entry
      <3>5. out' \in Seq(Entry)
        BY <3>1, <3>3, <3>4
      <3>6. QED BY <3>2, <3>5 DEF TypeReader
    <2>3. CASE ShowClose
      BY <2>3 DEF ShowClose, TypeReader
    <2>4. QED BY <2>1, <2>2, <2>3 DEF Reader
  <1>4. LoadInv'
    <2>1. UNCHANGED <<plan, proc, probed, pc, counts, locals, hash, tree>>
      BY <1>1 DEF loading
    <2>2. reader # "off" \/ proc
      BY DEF Reader, ShowOpen, ShowNext, ShowClose
    <2>3. \/ plan \in ToRegister \cup {Failed} /\ proc /\ ~probed /\ Fresh
          \/ plan \in ToExit /\ proc /\ probed
      BY <1>2, <2>2 DEF LoadInv
    <2>4. Fresh => Fresh'
      BY <2>1, FreshKept
    <2>5. QED BY <2>1, <2>3, <2>4 DEF LoadInv
  <1>5. FreeInv'
    <2>1. At({"run"})' = At({"run"}) /\ UNCHANGED <<free, probed>>
      BY <1>1, AtKept DEF locals, loading
    <2>2. QED BY <1>2, <2>1 DEF FreeInv
  <1>6. TableInv'
    BY <1>1, <1>2, TableKept DEF loading, sched
  <1>7. \A c \in CPU : HandlerInv(c)'
    <2>1. now \in Nat
      BY <1>2 DEF TypeOK
    <2>2. part' = part /\ now' \in Nat /\ now <= now'
          /\ UNCHANGED <<pc, next, running, prev, old, curr>>
      BY <1>1, <2>1 DEF sched, locals, loading
    <2>3. QED BY <1>2, <2>2, HandlersKept
  <1>8. TypeLoad' /\ TypeSched' /\ TypePc' /\ TypeLocals' /\ TypeHash'
        /\ TypeTree' /\ TypeCounts' /\ TypeGhosts'
    BY <1>1, TypeKept, PInvParts
  <1>9. PInvParts!2'
    BY <1>3, <1>4, <1>5, <1>6, <1>7, <1>8
  <1>10. QED BY <1>9, PInvParts, PTL

LEMMA TickPInv ==
  ASSUME PInv, Tick
  PROVE  PInv'
  <1>1. /\ UNCHANGED <<loading, running, next, pc, locals, hash, tree, reader,
                       out, counts, credited, unrecorded, raced>>
        /\ probed /\ part = 2 /\ now < MaxTime /\ now' = now + 1
    BY DEF Tick
  <1>2. TypeOK /\ TypeSched /\ TypeGhosts /\ TypeHash /\ LoadInv /\ FreeInv
        /\ TableInv /\ \A c \in CPU : HandlerInv(c)
    BY PInvParts DEF PInv
  <1>3. now \in 1 .. MaxTime /\ MaxTime \in Nat
    BY <1>2, BoundAssumption DEF TypeSched
  <1>4. TypeSched'
    <2>1. now' \in 1 .. MaxTime
      BY <1>1, <1>3
    <2>2. QED BY <1>1, <1>2, <2>1 DEF TypeSched
  <1>5. TypeGhosts'
    BY <1>1, <1>2 DEF Tick, TypeGhosts
  <1>6. LoadInv'
    BY <1>1, <1>2, LoadProbed DEF loading
  <1>7. FreeInv'
    <2>1. At({"run"})' = At({"run"}) /\ UNCHANGED <<free, probed>>
      BY <1>1, AtKept DEF locals, loading
    <2>2. QED BY <1>2, <2>1 DEF FreeInv
  <1>8. TableInv'
    <2>1. \A p \in Task : hash[p] \in Nat /\ hash[p] <= now
      BY <1>2 DEF TypeHash, TableInv
    <2>2. \A p \in Task : hash[p] <= now + 1
      BY <1>3, <2>1
    <2>3. QED BY <1>1, <2>2 DEF TableInv, loading
  <1>9. \A c \in CPU : HandlerInv(c)'
    <2>2. part' = part /\ now' \in Nat /\ now <= now'
          /\ UNCHANGED <<pc, next, running, prev, old, curr>>
      BY <1>1, <1>3 DEF locals, loading
    <2>3. QED BY <1>2, <2>2, HandlersKept
  <1>10. TypeLoad' /\ TypePc' /\ TypeLocals' /\ TypeHash' /\ TypeTree'
         /\ TypeReader' /\ TypeCounts'
    BY <1>1, TypeKept, PInvParts
  <1>11. PInvParts!2'
    BY <1>4, <1>5, <1>6, <1>7, <1>8, <1>9, <1>10
  <1>12. QED BY <1>11, PInvParts, PTL

\* A step of c leaves the other CPUs' handlers as they are.
LEMMA OthersKept ==
  ASSUME TypeOK, \A d \in CPU : HandlerInv(d), NEW c \in CPU,
         UNCHANGED <<part, now>>, HandlerInv(c)',
         \A d \in CPU \ {c} :
           /\ pc'[d] = pc[d] /\ next'[d] = next[d] /\ running'[d] = running[d]
           /\ prev'[d] = prev[d] /\ old'[d] = old[d] /\ curr'[d] = curr[d]
  PROVE  \A d \in CPU : HandlerInv(d)'
  <1>1. now \in Nat
    BY DEF TypeOK
  <1>2. now' \in Nat /\ now <= now' /\ part' = part
    BY <1>1
  <1>3. ASSUME NEW d \in CPU \ {c} PROVE HandlerInv(d)'
    BY <1>2, <1>3, HandlerKept
  <1>4. QED BY <1>3

\* Where a CPU's variables are functions on CPU.
LEMMA Domains ==
  ASSUME TypeOK
  PROVE  /\ DOMAIN pc = CPU /\ DOMAIN next = CPU /\ DOMAIN running = CPU
         /\ DOMAIN prev = CPU /\ DOMAIN curr = CPU /\ DOMAIN old = CPU
         /\ pc = [d \in CPU |-> pc[d]] /\ next = [d \in CPU |-> next[d]]
         /\ running = [d \in CPU |-> running[d]] /\ prev = [d \in CPU |-> prev[d]]
         /\ curr = [d \in CPU |-> curr[d]] /\ old = [d \in CPU |-> old[d]]
  BY DEF TypeOK

LEMMA SwitchUnseenPInv ==
  ASSUME PInv, NEW c \in CPU, NEW t \in Pid \cup {Idle}, SwitchUnseen(c, t)
  PROVE  PInv'
  <1>1. /\ UNCHANGED <<loading, now, next, free, curr, old, hash, tree, reader,
                       out, counts, ghosts>>
        /\ running' = [running EXCEPT ![c] = t]
        /\ pc' = [pc EXCEPT ![c] = "run"]
        /\ prev' = [prev EXCEPT ![c] = Null]
    BY DEF SwitchUnseen
  <1>2. TypeOK /\ TypeSched /\ TypePc /\ TypeLocals /\ LoadInv /\ FreeInv
        /\ TableInv /\ \A d \in CPU : HandlerInv(d)
    BY PInvParts DEF PInv
  <1>3. \/ pc[c] = "run" /\ probed
        \/ pc[c] = "pick" /\ ~probed
    BY DEF SwitchUnseen
  <1>4. TypeSched' /\ TypePc'
    BY <1>1, <1>2 DEF TypeSched, TypePc
  <1>5. TypeLocals'
    BY <1>1, <1>2 DEF TypeLocals
  <1>6. LoadInv'
    <2>1. CASE probed
      BY <1>1, <1>2, <2>1, LoadProbed DEF loading
    <2>2. CASE ~probed
      <3>1. /\ plan \in ToFree /\ ~proc /\ reader = "off"
            /\ \A d \in CPU : pc[d] \in {"run", "pick"}
        BY <1>2, <1>3, <2>2, UnprobedPick
      <3>2. \A d \in CPU : pc'[d] \in {"run", "pick"}
        BY <1>1, <1>2, <3>1 DEF TypePc
      <3>3. QED BY <1>1, <2>2, <3>1, <3>2 DEF LoadInv, loading
    <2>3. QED BY <2>1, <2>2
  <1>7. FreeInv'
    <2>1. CASE probed
      <3>1. "run" \in {"run"} <=> pc[c] \in {"run"}
        BY <1>3, <2>1
      <3>2. At({"run"})' = At({"run"})
        BY <1>1, <1>2, <3>1, AtSame, Zenon
      <3>3. QED BY <1>1, <1>2, <3>2 DEF FreeInv, loading
    <2>2. CASE ~probed
      BY <1>1, <2>2 DEF FreeInv, loading
    <2>3. QED BY <2>1, <2>2
  <1>8. TableInv'
    BY <1>1, <1>2, TableKept DEF loading
  <1>9. \A d \in CPU : HandlerInv(d)'
    <2>1. HandlerInv(c)'
      <3>1. next[c] = Null
        BY <1>2, <1>3 DEF HandlerInv
      <3>2. pc'[c] = "run" /\ next'[c] = Null
        BY <1>1, <1>2, <3>1 DEF TypePc
      <3>3. QED BY <3>2, HandlerRuns
    <2>2. \A d \in CPU \ {c} :
           /\ pc'[d] = pc[d] /\ next'[d] = next[d] /\ running'[d] = running[d]
           /\ prev'[d] = prev[d] /\ old'[d] = old[d] /\ curr'[d] = curr[d]
      BY <1>1, <1>2, Domains
    <2>3. UNCHANGED <<part, now>>
      BY <1>1 DEF loading
    <2>4. QED BY <1>2, <2>1, <2>2, <2>3, OthersKept
  <1>10. TypeLoad' /\ TypeHash' /\ TypeTree' /\ TypeReader' /\ TypeCounts' /\ TypeGhosts'
    BY <1>1, TypeKept, PInvParts
  <1>11. PInvParts!2'
    BY <1>4, <1>5, <1>6, <1>7, <1>8, <1>9, <1>10
  <1>12. QED BY <1>11, PInvParts, PTL

LEMMA EntryHandlerPInv ==
  ASSUME PInv, NEW c \in CPU, NEW arg \in {running[c], Null}, EntryHandler(c, arg)
  PROVE  PInv'
  <1>1. /\ UNCHANGED <<loading, sched, curr, old, hash, tree, reader, out,
                       post_count, context_switch_count, ghosts>>
        /\ pc' = [pc EXCEPT ![c] = "pick"]
        /\ free' = Tail(free) /\ pre_count' = pre_count + 1
        /\ probed /\ pc[c] = "run" /\ running[c] \in Task
    BY DEF EntryHandler
  <1>2. TypeOK /\ TypePc /\ TypeLocals /\ TypeCounts /\ LoadInv /\ FreeInv
        /\ TableInv /\ \A d \in CPU : HandlerInv(d)
    BY PInvParts DEF PInv
  <1>3. /\ Cardinality(At({"run"})) \in Nat /\ Cardinality(At({"run"})) > 0
        /\ Cardinality(At({"run"})') = Cardinality(At({"run"})) - 1
    <2>1. "pick" \notin {"run"} /\ pc[c] \in {"run"}
      BY <1>1
    <2>2. QED BY <1>1, <1>2, <2>1, AtLeave, Zenon
  <1>4. Len(free) = Cardinality(At({"run"}))
    BY <1>1, <1>2 DEF FreeInv
  <1>5. /\ free' \in Seq(Task \cup {Null, Junk})
        /\ Len(free') = Len(free) - 1
        /\ Head(free) \in Task \cup {Null, Junk}
    <2> DEFINE P == Task \cup {Null, Junk}
    <2>1. free \in Seq(P) /\ free' = Tail(free) /\ Len(free) > 0
      BY <1>1, <1>2, <1>3, <1>4 DEF TypeLocals
    <2> HIDE DEF P
    <2>2. free' \in Seq(P) /\ Len(free') = Len(free) - 1 /\ Head(free) \in P
      BY <2>1
    <2>3. QED BY <2>2 DEF P
  <1>6. PICK d \in Task \cup {Null, Junk} : prev' = [prev EXCEPT ![c] = d]
    <2>1. PICK d \in IF part = 1 THEN DataPrev1(arg, Head(free))
                                 ELSE DataPrev2(arg, Head(free)) :
               prev' = [prev EXCEPT ![c] = d]
      BY DEF EntryHandler
    <2>2. d \in {arg, Head(free), Null, Junk}
      BY <2>1 DEF DataPrev1, DataPrev2
    <2>3. d \in Task \cup {Null, Junk}
      BY <1>1, <1>5, <2>2
    <2>4. QED BY <2>1, <2>3
  <1>7. TypeLocals'
    <2>1. Len(free') <= Cardinality(CPU)
      BY <1>3, <1>4, <1>5, RunBound
    <2>2. prev' \in [CPU -> Task \cup {Null, Junk}]
      BY <1>2, <1>6 DEF TypeLocals
    <2>3. QED BY <1>1, <1>2, <1>5, <2>1, <2>2 DEF TypeLocals
  <1>8. TypePc'
    BY <1>1, <1>2 DEF TypePc
  <1>9. TypeCounts'
    <2>1. pre_count \in Nat /\ post_count \in Nat /\ context_switch_count \in Nat
      BY <1>2 DEF TypeCounts
    <2>2. pre_count' \in Nat
      BY <1>1, <2>1
    <2>3. QED BY <1>1, <2>1, <2>2 DEF TypeCounts
  <1>10. LoadInv'
    BY <1>1, <1>2, LoadProbed DEF loading
  <1>11. FreeInv'
    BY <1>3, <1>4, <1>5 DEF FreeInv
  <1>12. TableInv'
    BY <1>1, <1>2, TableKept DEF loading, sched
  <1>13. \A e \in CPU : HandlerInv(e)'
    <2>1. HandlerInv(c)'
      <3>1. next[c] = Null
        BY <1>1, <1>2 DEF HandlerInv
      <3>2. pc'[c] = "pick" /\ next'[c] = Null /\ running'[c] \in Task
        BY <1>1, <1>2, <3>1 DEF TypePc, sched
      <3>3. QED BY <3>2 DEF HandlerInv, Switching
    <2>2. \A e \in CPU \ {c} :
           /\ pc'[e] = pc[e] /\ next'[e] = next[e] /\ running'[e] = running[e]
           /\ prev'[e] = prev[e] /\ old'[e] = old[e] /\ curr'[e] = curr[e]
      BY <1>1, <1>2, <1>6, Domains DEF sched
    <2>3. UNCHANGED <<part, now>>
      BY <1>1 DEF loading, sched
    <2>4. QED BY <1>2, <2>1, <2>2, <2>3, OthersKept
  <1>14. TypeLoad' /\ TypeSched' /\ TypeHash' /\ TypeTree' /\ TypeReader' /\ TypeGhosts'
    BY <1>1, TypeKept, PInvParts
  <1>15. PInvParts!2'
    BY <1>7, <1>8, <1>9, <1>10, <1>11, <1>12, <1>13, <1>14
  <1>16. QED BY <1>15, PInvParts, PTL

\* What pick_next_task_fair may return inside a probed call.
LEMMA PickedTypes ==
  ASSUME TypeOK, NEW c \in CPU, HandlerInv(c), pc[c] = "pick"
  PROVE  /\ running[c] \in Task /\ next[c] = Null
         /\ Picked(c) \subseteq Pid \cup {Null, Retry}
         /\ \A t : Unseen(c, t) \subseteq Task
  <1>1. running[c] \in Task /\ next[c] = Null
    BY DEF HandlerInv
  <1>2. Picked(c) \subseteq Pid \cup {Null, Retry}
    BY <1>1, Pointers DEF Picked
  <1>3. \A t : Unseen(c, t) \subseteq Task
    BY <1>1 DEF Unseen
  <1>4. QED BY <1>1, <1>2, <1>3

LEMMA ReturnNoSwitchPInv ==
  ASSUME PInv, NEW c \in CPU, NEW t, ReturnNoSwitch(c, t)
  PROVE  PInv'
  <1> DEFINE u == IF t = Null THEN Idle ELSE IF t = Retry THEN running[c] ELSE t
  <1>1. /\ UNCHANGED <<loading, now, hash, tree, reader, out, pre_count,
                       context_switch_count, used, credited, raced>>
        /\ post_count' = post_count + 1 /\ Done(c, u)
        /\ unrecorded' = unrecorded \cup Unseen(c, t)
        /\ probed /\ pc[c] = "pick" /\ t \in Picked(c)
    BY DEF ReturnNoSwitch
  <1>2. TypeOK /\ TypeCounts /\ TypeGhosts /\ LoadInv /\ FreeInv
        /\ TableInv /\ \A d \in CPU : HandlerInv(d)
    BY PInvParts DEF PInv
  <1>3. u \in Pid \cup {Idle} /\ Unseen(c, t) \subseteq Task
    BY <1>1, <1>2, PickedTypes, Pointers
  <1> HIDE DEF u
  <1>4. TypeSched' /\ TypePc' /\ TypeLocals' /\ FreeInv'
    BY <1>1, <1>2, <1>3, DoneTypes DEF loading
  <1>5. TypeCounts'
    <2>1. pre_count \in Nat /\ post_count \in Nat /\ context_switch_count \in Nat
      BY <1>2 DEF TypeCounts
    <2>2. post_count' \in Nat
      BY <1>1, <2>1
    <2>3. QED BY <1>1, <2>1, <2>2 DEF TypeCounts
  <1>6. TypeGhosts'
    BY <1>1, <1>2, <1>3 DEF TypeGhosts
  <1>7. LoadInv'
    BY <1>1, <1>2, LoadProbed DEF loading
  <1>8. TableInv'
    BY <1>1, <1>2, TableKept DEF loading
  <1>9. \A d \in CPU : HandlerInv(d)'
    BY <1>1, <1>2, DoneHandlers DEF loading
  <1>10. TypeLoad' /\ TypeHash' /\ TypeTree' /\ TypeReader'
    BY <1>1, TypeKept, PInvParts
  <1>11. PInvParts!2'
    BY <1>4, <1>5, <1>6, <1>7, <1>8, <1>9, <1>10
  <1>12. QED BY <1>11, PInvParts, PTL

LEMMA ReturnCountsPInv ==
  ASSUME PInv, NEW c \in CPU, NEW t, ReturnCounts(c, t)
  PROVE  PInv'
  <1>1. /\ UNCHANGED <<loading, now, hash, tree, reader, out, pre_count, ghosts>>
        /\ post_count' = post_count + 1
        /\ context_switch_count' = context_switch_count + 1 /\ Done(c, t)
        /\ probed /\ pc[c] = "pick" /\ t \in Picked(c) \ {Retry} /\ t # Null
    BY DEF ReturnCounts, IsSwitch
  <1>2. TypeOK /\ TypeCounts /\ LoadInv /\ FreeInv
        /\ TableInv /\ \A d \in CPU : HandlerInv(d)
    BY PInvParts DEF PInv
  <1>3. t \in Pid \cup {Idle}
    BY <1>1, <1>2, PickedTypes, Pointers
  <1>4. TypeSched' /\ TypePc' /\ TypeLocals' /\ FreeInv'
    BY <1>1, <1>2, <1>3, DoneTypes DEF loading
  <1>5. TypeCounts'
    <2>1. pre_count \in Nat /\ post_count \in Nat /\ context_switch_count \in Nat
      BY <1>2 DEF TypeCounts
    <2>2. post_count' \in Nat /\ context_switch_count' \in Nat
      BY <1>1, <2>1
    <2>3. QED BY <1>1, <2>1, <2>2 DEF TypeCounts
  <1>7. LoadInv'
    BY <1>1, <1>2, LoadProbed DEF loading
  <1>8. TableInv'
    BY <1>1, <1>2, TableKept DEF loading
  <1>9. \A d \in CPU : HandlerInv(d)'
    BY <1>1, <1>2, DoneHandlers DEF loading
  <1>10. TypeLoad' /\ TypeHash' /\ TypeTree' /\ TypeReader' /\ TypeGhosts'
    BY <1>1, TypeKept, PInvParts
  <1>11. PInvParts!2'
    BY <1>4, <1>5, <1>7, <1>8, <1>9, <1>10
  <1>12. QED BY <1>11, PInvParts, PTL

\* A step that moves the handler of c on, with an instance in use before and
\* after.
LEMMA FreeMoved ==
  ASSUME TypePc, FreeInv, NEW c \in CPU, NEW y, pc' = [pc EXCEPT ![c] = y],
         pc[c] # "run", y # "run", UNCHANGED <<free, probed>>
  PROVE  FreeInv'
  <1>1. y \in {"run"} <=> pc[c] \in {"run"}
    OBVIOUS
  <1>2. At({"run"})' = At({"run"})
    BY <1>1, AtSame, Zenon
  <1>3. QED BY <1>2 DEF FreeInv

LEMMA ReturnReadsClockPInv ==
  ASSUME PInv, NEW c \in CPU, NEW t, ReturnReadsClock(c, t)
  PROVE  PInv'
  <1>1. /\ UNCHANGED <<loading, now, running, prev, free, old, hash, tree, reader,
                       out, pre_count, context_switch_count, used, credited, raced>>
        /\ post_count' = post_count + 1
        /\ next' = [next EXCEPT ![c] = t]
        /\ curr' = [curr EXCEPT ![c] = now]
        /\ pc' = [pc EXCEPT ![c] = "lookup"]
        /\ unrecorded' = unrecorded \cup Unseen(c, t)
        /\ part = 2 /\ probed /\ pc[c] = "pick" /\ t \in Picked(c)
        /\ prev[c] # Null /\ t # Null /\ prev[c] # t /\ prev[c] # Junk
    BY DEF ReturnReadsClock, IsSwitch
  <1>2. TypeOK /\ TypeSched /\ TypePc /\ TypeLocals /\ TypeHash /\ TypeCounts
        /\ TypeGhosts /\ LoadInv /\ FreeInv /\ TableInv
        /\ \A d \in CPU : HandlerInv(d)
    BY PInvParts DEF PInv
  <1>3. t \in Pid \cup {Retry} /\ Unseen(c, t) \subseteq Task /\ running[c] \in Task
    BY <1>1, <1>2, PickedTypes
  <1>4. prev[c] \in Task
    BY <1>1, <1>2 DEF TypeLocals
  <1>6. now \in 1 .. MaxTime
    BY <1>2 DEF TypeSched
  <1>7. TypeSched' /\ TypePc'
    BY <1>1, <1>2, <1>3 DEF TypeSched, TypePc, Switching
  <1>8. TypeLocals'
    <2>1. now \in 0 .. MaxTime
      BY <1>6
    <2>2. QED BY <1>1, <1>2, <1>6, <2>1 DEF TypeLocals
  <1>9. TypeCounts'
    <2>1. pre_count \in Nat /\ post_count \in Nat /\ context_switch_count \in Nat
      BY <1>2 DEF TypeCounts
    <2>2. post_count' \in Nat
      BY <1>1, <2>1
    <2>3. QED BY <1>1, <2>1, <2>2 DEF TypeCounts
  <1>10. TypeGhosts'
    BY <1>1, <1>2, <1>3 DEF TypeGhosts
  <1>11. LoadInv'
    BY <1>1, <1>2, LoadProbed DEF loading
  <1>12. FreeInv'
    BY <1>1, <1>2, FreeMoved DEF loading
  <1>13. TableInv'
    BY <1>1, <1>2, TableKept DEF loading
  <1>14. \A d \in CPU : HandlerInv(d)'
    <2>1. HandlerInv(c)'
      <3>1. pc'[c] = "lookup"
        BY <1>1, <1>2 DEF TypePc
      <3>2. next'[c] = t /\ curr'[c] = now
        BY <1>1, <1>2, Domains
      <3>3. curr'[c] <= now'
        BY <1>1, <1>6, <3>2
      <3>4. /\ part' = 2 /\ prev'[c] = prev[c] /\ running'[c] = running[c]
        BY <1>1 DEF loading
      <3>5. QED BY <1>1, <1>3, <1>4, <3>1, <3>2, <3>3, <3>4 DEF HandlerInv, Switching
    <2>2. \A e \in CPU \ {c} :
           /\ pc'[e] = pc[e] /\ next'[e] = next[e] /\ running'[e] = running[e]
           /\ prev'[e] = prev[e] /\ old'[e] = old[e] /\ curr'[e] = curr[e]
      BY <1>1, <1>2, Domains
    <2>3. UNCHANGED <<part, now>>
      BY <1>1 DEF loading
    <2>4. QED BY <1>2, <2>1, <2>2, <2>3, OthersKept
  <1>15. TypeLoad' /\ TypeHash' /\ TypeTree' /\ TypeReader'
    BY <1>1, TypeKept, PInvParts
  <1>16. PInvParts!2'
    BY <1>7, <1>8, <1>9, <1>10, <1>11, <1>12, <1>13, <1>14, <1>15
  <1>17. QED BY <1>16, PInvParts, PTL

LEMMA LookupStartPInv ==
  ASSUME PInv, NEW c \in CPU, LookupStart(c)
  PROVE  PInv'
  <1>1. /\ UNCHANGED <<loading, sched, prev, free, curr, hash, tree, reader, out,
                       counts, ghosts>>
        /\ pc[c] = "lookup" /\ old' = [old EXCEPT ![c] = hash[prev[c]]]
        /\ pc' = [pc EXCEPT ![c] = IF old'[c] # 0 THEN "remove" ELSE "insert"]
    BY DEF LookupStart, lookup_hash_table
  <1>2. TypeOK /\ TypePc /\ TypeLocals /\ TypeHash /\ LoadInv /\ FreeInv
        /\ TableInv /\ \A d \in CPU : HandlerInv(d)
    BY PInvParts DEF PInv
  <1>3. probed
    BY <1>1, <1>2, BusyProbed
  <1>4. hash[prev[c]] \in 0 .. MaxTime
    <2>1. prev[c] \in Task
      BY <1>1, <1>2 DEF HandlerInv, Switching
    <2>2. QED BY <1>2, <2>1 DEF TypeHash
  <1>5. PICK y \in {"remove", "insert"} : pc' = [pc EXCEPT ![c] = y]
    BY <1>1
  <1>6. TypePc' /\ TypeLocals'
    <2>1. TypePc'
      BY <1>2, <1>5 DEF TypePc, Switching
    <2>2. TypeLocals'
      BY <1>1, <1>2, <1>4 DEF TypeLocals
    <2>3. QED BY <2>1, <2>2
  <1>7. LoadInv'
    BY <1>1, <1>2, <1>3, LoadProbed DEF loading
  <1>8. FreeInv'
    BY <1>1, <1>2, <1>5, FreeMoved DEF loading
  <1>9. TableInv'
    BY <1>1, <1>2, TableKept DEF loading, sched
  <1>10. \A d \in CPU : HandlerInv(d)'
    <2>0. UNCHANGED <<part, now, running, next, prev, curr>>
      BY <1>1 DEF loading, sched
    <2>1. HandlerInv(c)'
      <3>1. pc'[c] \in {"remove", "insert"}
        BY <1>2, <1>5 DEF TypePc
      <3>2. HandlerInv(c)
        BY <1>2
      <3>3. QED BY <1>1, <2>0, <3>1, <3>2 DEF HandlerInv, Switching
    <2>2. \A e \in CPU \ {c} :
           /\ pc'[e] = pc[e] /\ next'[e] = next[e] /\ running'[e] = running[e]
           /\ prev'[e] = prev[e] /\ old'[e] = old[e] /\ curr'[e] = curr[e]
      BY <1>1, <1>2, <1>5, <2>0, Domains
    <2>3. QED BY <1>2, <2>0, <2>1, <2>2, OthersKept
  <1>11. TypeLoad' /\ TypeSched' /\ TypeHash' /\ TypeTree' /\ TypeReader'
         /\ TypeCounts' /\ TypeGhosts'
    BY <1>1, TypeKept, PInvParts
  <1>12. PInvParts!2'
    BY <1>6, <1>7, <1>8, <1>9, <1>10, <1>11
  <1>13. QED BY <1>12, PInvParts, PTL

\* Only tasks race.
LEMMA RacedTasks ==
  ASSUME TypeGhosts, NEW c, NEW p, Races(c, p)
  PROVE  raced' \subseteq Task
  BY DEF TypeGhosts, Races, ToTouch

\* The handler of c moves on to y without touching its locals.
LEMMA HandlersMoved ==
  ASSUME TypeOK, \A d \in CPU : HandlerInv(d), NEW c \in CPU, NEW y,
         pc[c] \in Switching, y \in Switching \cup {"oops"}, pc' = [pc EXCEPT ![c] = y],
         UNCHANGED <<part, sched, locals>>
  PROVE  \A d \in CPU : HandlerInv(d)'
  <1>0. UNCHANGED <<part, now, running, next, prev, old, curr>>
    BY DEF sched, locals
  <1>1. HandlerInv(c)'
    <2>1. pc'[c] = y
      BY Domains
    <2>2. QED BY <1>0, <2>1 DEF HandlerInv, Switching
  <1>2. \A e \in CPU \ {c} :
          /\ pc'[e] = pc[e] /\ next'[e] = next[e] /\ running'[e] = running[e]
          /\ prev'[e] = prev[e] /\ old'[e] = old[e] /\ curr'[e] = curr[e]
    BY <1>0, Domains
  <1>3. QED BY <1>0, <1>1, <1>2, OthersKept

LEMMA RemoveStartPInv ==
  ASSUME PInv, NEW c \in CPU, RemoveStart(c)
  PROVE  PInv'
  <1>1. /\ UNCHANGED <<loading, sched, locals, tree, reader, out, counts, used,
                       credited, unrecorded>>
        /\ Races(c, prev[c])
        /\ pc[c] = "remove" /\ hash' = [hash EXCEPT ![prev[c]] = 0]
        /\ pc' = [pc EXCEPT ![c] = "account"]
    BY DEF RemoveStart
  <1>2. TypeOK /\ TypePc /\ TypeHash /\ TypeGhosts /\ LoadInv /\ FreeInv
        /\ TableInv /\ \A d \in CPU : HandlerInv(d)
    BY PInvParts DEF PInv
  <1>3. probed
    BY <1>1, <1>2, BusyProbed
  <1>4. TypeHash' /\ TypePc' /\ TypeGhosts'
    <2>1. 0 \in 0 .. MaxTime
      BY BoundAssumption
    <2>2. TypeHash'
      BY <1>1, <1>2, <2>1 DEF TypeHash
    <2>3. TypePc'
      BY <1>1, <1>2 DEF TypePc, Switching
    <2>4. TypeGhosts'
      BY <1>1, <1>2, RacedTasks DEF TypeGhosts
    <2>5. QED BY <2>2, <2>3, <2>4
  <1>5. LoadInv'
    BY <1>1, <1>2, <1>3, LoadProbed DEF loading
  <1>6. FreeInv'
    BY <1>1, <1>2, FreeMoved DEF loading, locals
  <1>7. TableInv'
    <2>1. \A p \in Task : hash'[p] = hash[p] \/ hash'[p] = 0
      BY <1>1, <1>2 DEF TypeHash
    <2>2. now \in Nat
      BY <1>2 DEF TypeOK
    <2>3. QED BY <1>1, <1>2, <2>1, <2>2 DEF TableInv, loading, sched
  <1>8. \A d \in CPU : HandlerInv(d)'
    BY <1>1, <1>2, HandlersMoved DEF loading, Switching
  <1>9. TypeLoad' /\ TypeSched' /\ TypeLocals' /\ TypeTree' /\ TypeReader'
        /\ TypeCounts'
    BY <1>1, TypeKept, PInvParts
  <1>10. PInvParts!2'
    BY <1>4, <1>5, <1>6, <1>7, <1>8, <1>9
  <1>11. QED BY <1>10, PInvParts, PTL

LEMMA TotalNat ==
  ASSUME TypeTree, NEW p
  PROVE  Total(tree, p) \in Nat
  <1>1. \A e \in tree : e.tsc \in Nat
    BY WordAssumption DEF TypeTree, Entry
  <1>2. QED BY <1>1 DEF Total

\* Totals are unsigned words.
LEMMA ModWord ==
  ASSUME NEW a \in Nat, NEW b \in Nat, NEW d \in Nat
  PROVE  (a + b - d) % Word \in 0 .. Word - 1
  <1>1. Word \in Nat /\ Word > 0
    BY WordAssumption, BoundAssumption
  <1>2. a + b - d \in Int
    OBVIOUS
  <1>3. QED BY <1>1, <1>2

LEMMA AccountPInv ==
  ASSUME PInv, NEW c \in CPU, Account(c)
  PROVE  PInv'
  <1>1. /\ UNCHANGED <<loading, sched, locals, hash, reader, out, counts, used,
                       unrecorded, raced>>
        /\ pc[c] = "account"
        /\ tree' = Insert(Without(tree, prev[c]), prev[c],
                          (Total(tree, prev[c]) + curr[c] - old[c]) % Word)
        /\ credited' = [credited EXCEPT ![prev[c]] = @ + curr[c] - old[c]]
        /\ pc' = [pc EXCEPT ![c] = "insert"]
    BY DEF Account, AddTotal
  <1>2. TypeOK /\ TypePc /\ TypeTree /\ TypeLocals /\ TypeGhosts /\ LoadInv
        /\ FreeInv /\ TableInv /\ \A d \in CPU : HandlerInv(d)
    BY PInvParts DEF PInv
  <1>3. probed
    BY <1>1, <1>2, BusyProbed
  <1>4. part = 2 /\ prev[c] \in Task
    BY <1>1, <1>2 DEF HandlerInv, Switching
  <1>5. curr[c] \in Nat /\ old[c] \in Nat
    BY <1>2 DEF TypeLocals
  <1>7. TypeTree'
    <2> DEFINE x == (Total(tree, prev[c]) + curr[c] - old[c]) % Word
    <2>1. Total(tree, prev[c]) \in Nat
      BY <1>2, TotalNat
    <2>2. x \in 0 .. Word - 1
      BY <1>5, <2>1, ModWord
    <2> HIDE DEF x
    <2>3. Insert(Without(tree, prev[c]), prev[c], x) \subseteq
            tree \cup {[pid |-> prev[c], tsc |-> x]}
      BY DEF Insert, Without
    <2>4. [pid |-> prev[c], tsc |-> x] \in Entry
      BY <1>4, <2>2 DEF Entry
    <2>5. QED BY <1>1, <1>2, <2>3, <2>4 DEF TypeTree, x
  <1>8. TypeGhosts'
    <2>1. credited \in [Task -> Int]
      BY <1>2 DEF TypeGhosts
    <2>2. credited[prev[c]] + curr[c] - old[c] \in Int
      BY <1>4, <1>5, <2>1
    <2>3. credited' \in [Task -> Int]
      BY <1>1, <2>1, <2>2
    <2>4. QED BY <1>1, <1>2, <2>3 DEF TypeGhosts
  <1>9. TypePc'
    BY <1>1, <1>2 DEF TypePc, Switching
  <1>10. LoadInv'
    BY <1>1, <1>2, <1>3, LoadProbed DEF loading
  <1>11. FreeInv'
    BY <1>1, <1>2, FreeMoved DEF loading, locals
  <1>12. TableInv'
    BY <1>1, <1>2, <1>4 DEF TableInv, loading, sched
  <1>13. \A d \in CPU : HandlerInv(d)'
    BY <1>1, <1>2, HandlersMoved DEF loading, Switching
  <1>14. TypeLoad' /\ TypeSched' /\ TypeLocals' /\ TypeHash' /\ TypeReader' /\ TypeCounts'
    BY <1>1, TypeKept, PInvParts
  <1>15. PInvParts!2'
    BY <1>7, <1>8, <1>9, <1>10, <1>11, <1>12, <1>13, <1>14
  <1>16. QED BY <1>15, PInvParts, PTL

LEMMA InsertStartPInv ==
  ASSUME PInv, NEW c \in CPU, InsertStart(c)
  PROVE  PInv'
  <1>1. /\ UNCHANGED <<loading, now, tree, reader, out, pre_count, post_count,
                       used, credited, unrecorded>>
        /\ Races(c, next[c])
        /\ pc[c] = "insert" /\ next[c] # Retry
        /\ hash' = [p \in Task |-> IF p = next[c] THEN curr[c] ELSE hash[p]]
        /\ context_switch_count' = context_switch_count + 1
        /\ Done(c, next[c])
    BY DEF InsertStart
  <1>2. TypeOK /\ TypeHash /\ TypeLocals /\ TypeCounts /\ TypeGhosts /\ LoadInv
        /\ FreeInv /\ TableInv /\ \A d \in CPU : HandlerInv(d)
    BY PInvParts DEF PInv
  <1>3. probed
    BY <1>1, <1>2, BusyProbed
  <1>4. part = 2 /\ next[c] \in Pid \cup {Idle} /\ curr[c] <= now
    BY <1>1, <1>2 DEF HandlerInv, Switching
  <1>5. TypeSched' /\ TypePc' /\ TypeLocals' /\ FreeInv'
    BY <1>1, <1>2, <1>3, <1>4, DoneTypes DEF loading
  <1>6. TypeHash'
    <2>1. curr[c] \in 0 .. MaxTime
      BY <1>2 DEF TypeLocals
    <2>2. QED BY <1>1, <1>2, <2>1 DEF TypeHash
  <1>7. TypeCounts'
    <2>1. pre_count \in Nat /\ post_count \in Nat /\ context_switch_count \in Nat
      BY <1>2 DEF TypeCounts
    <2>2. context_switch_count' \in Nat
      BY <1>1, <2>1
    <2>3. QED BY <1>1, <2>1, <2>2 DEF TypeCounts
  <1>8. LoadInv'
    BY <1>1, <1>2, <1>3, LoadProbed DEF loading
  <1>9. TableInv'
    BY <1>1, <1>2, <1>4 DEF TableInv, loading
  <1>10. \A d \in CPU : HandlerInv(d)'
    BY <1>1, <1>2, DoneHandlers DEF loading
  <1>11. TypeLoad' /\ TypeTree' /\ TypeReader' /\ TypeGhosts'
    <2>1. TypeGhosts'
      BY <1>1, <1>2, RacedTasks DEF TypeGhosts
    <2>2. QED BY <1>1, <2>1, TypeKept, PInvParts
  <1>12. PInvParts!2'
    BY <1>5, <1>6, <1>7, <1>8, <1>9, <1>10, <1>11
  <1>13. QED BY <1>12, PInvParts, PTL

LEMMA OopsPInv ==
  ASSUME PInv, NEW c \in CPU,
         OopsAtInsert(c) \/ OopsAtTable(c) \/ \E t : OopsAtReturn(c, t)
  PROVE  PInv'
  <1>1. /\ UNCHANGED <<loading, sched, locals, hash, tree, reader, out, pre_count,
                       context_switch_count, ghosts>>
        /\ pc[c] \in {"pick", "lookup", "remove", "insert"}
        /\ pc' = [pc EXCEPT ![c] = "oops"]
        /\ UNCHANGED post_count \/ post_count' = post_count + 1
    BY DEF OopsAtInsert, OopsAtReturn, OopsAtTable, AtTable, counts
  <1>2. TypeOK /\ TypePc /\ TypeCounts /\ LoadInv /\ FreeInv
        /\ TableInv /\ \A d \in CPU : HandlerInv(d)
    BY PInvParts DEF PInv
  <1>3. probed
    <2>1. CASE pc[c] \in {"lookup", "remove", "insert"}
      BY <1>2, <2>1, BusyProbed
    <2>2. CASE pc[c] = "pick"
      BY <2>2 DEF OopsAtInsert, OopsAtReturn, OopsAtTable, AtTable
    <2>3. QED BY <1>1, <2>1, <2>2
  <1>4. TypePc'
    BY <1>1, <1>2 DEF TypePc
  <1>5. TypeCounts'
    <2>1. pre_count \in Nat /\ post_count \in Nat /\ context_switch_count \in Nat
      BY <1>2 DEF TypeCounts
    <2>2. post_count' \in Nat
      BY <1>1, <2>1
    <2>3. QED BY <1>1, <2>1, <2>2 DEF TypeCounts
  <1>6. LoadInv'
    BY <1>1, <1>2, <1>3, LoadProbed DEF loading
  <1>7. FreeInv'
    BY <1>1, <1>2, FreeMoved DEF loading, locals
  <1>8. TableInv'
    BY <1>1, <1>2, TableKept DEF loading, sched
  <1>9. \A d \in CPU : HandlerInv(d)'
    <2>0. UNCHANGED <<part, now, running, next, prev, old, curr>>
      BY <1>1 DEF sched, locals, loading
    <2>1. HandlerInv(c)'
      <3>1. pc'[c] = "oops"
        BY <1>1, <1>2, Domains
      <3>2. QED BY <3>1 DEF HandlerInv, Switching
    <2>2. \A e \in CPU \ {c} :
          /\ pc'[e] = pc[e] /\ next'[e] = next[e] /\ running'[e] = running[e]
          /\ prev'[e] = prev[e] /\ old'[e] = old[e] /\ curr'[e] = curr[e]
      BY <1>1, <1>2, <2>0, Domains
    <2>3. QED BY <1>2, <2>0, <2>1, <2>2, OthersKept
  <1>10. TypeLoad' /\ TypeSched' /\ TypeLocals' /\ TypeHash' /\ TypeTree'
         /\ TypeReader' /\ TypeGhosts'
    BY <1>1, TypeKept, PInvParts
  <1>11. PInvParts!2'
    BY <1>4, <1>5, <1>6, <1>7, <1>8, <1>9, <1>10
  <1>12. QED BY <1>11, PInvParts, PTL

\* Short sequences written out.
LEMMA Concat22 ==
  ASSUME NEW a, NEW b, NEW c, NEW d
  PROVE  <<a, b>> \o <<c, d>> = <<a, b, c, d>>
  <1>1. ASSUME NEW s, s = <<a, b>> \o <<c, d>> PROVE s = <<a, b, c, d>>
    <2>1. Len(s) = 4 /\ s \in Seq({a, b, c, d})
      BY <1>1
    <2>2. s[1] = a /\ s[2] = b /\ s[3] = c /\ s[4] = d
      BY <1>1
    <2>3. QED BY <2>1, <2>2
  <1>2. QED BY <1>1

LEMMA InitPInv ==
  ASSUME Init
  PROVE  PInv
  <1>1. TypeSched /\ TypePc /\ TypeHash /\ TypeTree /\ TypeReader /\ TypeCounts /\ TypeGhosts
    <2>1. TypeSched
      BY BoundAssumption DEF Init, TypeSched
    <2>2. TypePc /\ TypeHash /\ TypeTree /\ TypeReader /\ TypeCounts
      BY BoundAssumption DEF Init, TypePc, TypeHash, TypeTree, TypeReader, TypeCounts
    <2>3. TypeGhosts
      BY DEF Init, TypeGhosts
    <2>4. QED BY <2>1, <2>2, <2>3
  <1>2. Cardinality(CPU) \in Nat
    BY CpuAssumption
  <1>3. Len(free) = Cardinality(CPU) /\ free \in Seq(Task \cup {Null, Junk})
    <2>1. free = [i \in 1 .. Cardinality(CPU) |-> Junk]
      BY DEF Init
    <2>2. QED BY <1>2, <2>1
  <1>4. TypeLocals
    BY <1>2, <1>3, BoundAssumption DEF Init, TypeLocals
  <1>5. plan \in All
    <2>1. InitCalls1 \o ExitCalls1 =
            <<"proc_create", "register", "remove_proc", "unregister">>
      BY Concat22, Zenon DEF InitCalls1, ExitCalls1
    <2>2. InitCalls2 \o ExitCalls2 =
            <<"proc_create", "register", "remove_proc", "unregister",
              "free_hash", "free_tree">>
      <3>1. ASSUME NEW u, u = InitCalls2 \o ExitCalls2
            PROVE  u = <<"proc_create", "register", "remove_proc", "unregister",
                         "free_hash", "free_tree">>
        <4> DEFINE F == {"proc_create", "register", "remove_proc", "unregister",
                         "free_hash", "free_tree"}
        <4>1. Len(u) = 6 /\ u \in Seq(F)
          <5>1. /\ "proc_create" \in F /\ "register" \in F /\ "remove_proc" \in F
                /\ "unregister" \in F /\ "free_hash" \in F /\ "free_tree" \in F
            OBVIOUS
          <5> HIDE DEF F
          <5>2. InitCalls2 \in Seq(F) /\ Len(InitCalls2) = 2
            BY <5>1 DEF InitCalls2
          <5>3. ExitCalls2 \in Seq(F) /\ Len(ExitCalls2) = 4
            BY <5>1 DEF ExitCalls2
          <5>4. \A v, w \in Seq(F) : v \o w \in Seq(F) /\ Len(v \o w) = Len(v) + Len(w)
            OBVIOUS
          <5>5. u \in Seq(F) /\ Len(u) = Len(InitCalls2) + Len(ExitCalls2)
            BY <3>1, <5>2, <5>3, <5>4
          <5>6. QED BY <5>2, <5>3, <5>5
        <4> HIDE DEF F
        <4>2. /\ u[1] = "proc_create" /\ u[2] = "register" /\ u[3] = "remove_proc"
              /\ u[4] = "unregister" /\ u[5] = "free_hash" /\ u[6] = "free_tree"
          BY <3>1 DEF InitCalls2, ExitCalls2
        <4>3. QED BY <4>1, <4>2
      <3>2. QED BY <3>1
    <2>3. plan = InitCalls1 \o ExitCalls1 \/ plan = InitCalls2 \o ExitCalls2
      BY DEF Init, InitCalls, ExitCalls
    <2>4. QED BY <2>1, <2>2, <2>3, Zenon DEF All
  <1>6. TypeLoad
    <2> DEFINE F == {"proc_create", "register", "remove_proc", "unregister",
                     "free_hash", "free_tree", "failed"}
    <2>1. \A t \in All : t \in Seq(F)
      <3>1. /\ "proc_create" \in F /\ "register" \in F /\ "remove_proc" \in F
            /\ "unregister" \in F /\ "free_hash" \in F /\ "free_tree" \in F
        OBVIOUS
      <3> HIDE DEF F
      <3>2. <<"proc_create", "register", "remove_proc", "unregister">> \in Seq(F)
        BY <3>1
      <3>3. <<"proc_create", "register", "remove_proc", "unregister",
              "free_hash", "free_tree">> \in Seq(F)
        BY <3>1
      <3>4. QED BY <3>2, <3>3, Zenon DEF All
    <2>2. plan \in Seq(F)
      BY <1>5, <2>1
    <2>3. part \in Parts /\ proc \in BOOLEAN /\ probed \in BOOLEAN
      BY DEF Init
    <2>4. QED BY <2>2, <2>3 DEF TypeLoad
  <1>7. LoadInv
    <2>1. Fresh
      BY <1>3 DEF Init, Fresh
    <2>2. ~proc /\ ~probed /\ reader = "off"
      BY DEF Init
    <2>3. QED BY <1>5, <2>1, <2>2 DEF LoadInv
  <1>8. FreeInv
    BY DEF Init, FreeInv
  <1>9. TableInv
    BY DEF Init, TableInv
  <1>10. \A c \in CPU : HandlerInv(c)
    BY DEF Init, HandlerInv, Switching
  <1>11. QED BY <1>1, <1>4, <1>6, <1>7, <1>8, <1>9, <1>10, PInvParts

LEMMA NextPInv ==
  ASSUME PInv, [Next]_vars
  PROVE  PInv'
  <1>1. CASE Tick
    BY <1>1, TickPInv
  <1>2. CASE Loader
    BY <1>2, LoaderPInv
  <1>3. CASE Reader
    BY <1>3, ReaderPInv
  <1>4. ASSUME NEW c \in CPU, Handlers(c) PROVE PInv'
    <2>1. CASE EntryHandler(c, running[c]) \/ EntryHandler(c, Null)
      BY <2>1, EntryHandlerPInv
    <2>2. ASSUME NEW t, ReturnNoSwitch(c, t) PROVE PInv'
      BY <2>2, ReturnNoSwitchPInv
    <2>3. ASSUME NEW t, ReturnCounts(c, t) PROVE PInv'
      BY <2>3, ReturnCountsPInv
    <2>4. ASSUME NEW t, ReturnReadsClock(c, t) PROVE PInv'
      BY <2>4, ReturnReadsClockPInv
    <2>5. CASE OopsAtInsert(c) \/ OopsAtTable(c) \/ \E t : OopsAtReturn(c, t)
      BY <2>5, OopsPInv
    <2>6. CASE RemoveStart(c)
      BY <2>6, RemoveStartPInv
    <2>7. CASE Account(c)
      BY <2>7, AccountPInv
    <2>8. CASE InsertStart(c)
      BY <2>8, InsertStartPInv
    <2>9. CASE LookupStart(c)
      BY <2>9, LookupStartPInv
    <2>10. QED
      BY <1>4, <2>1, <2>2, <2>3, <2>4, <2>5, <2>6, <2>7, <2>8, <2>9 DEF Handlers
  <1>5. ASSUME NEW c \in CPU, NEW t \in Pid \cup {Idle}, SwitchUnseen(c, t)
        PROVE  PInv'
    BY <1>5, SwitchUnseenPInv
  <1>6. CASE UNCHANGED vars
    <2>1. UNCHANGED <<loading, sched, pc, locals, hash, tree, reader, out, counts, ghosts>>
      BY <1>6 DEF vars
    <2>2. UNCHANGED <<part, plan, proc, probed, now, running, next, pc, prev, free,
                      curr, old, hash, tree, reader, out, counts, ghosts>>
      BY <2>1 DEF loading, sched, locals
    <2>3. TypeLoad' /\ TypeSched' /\ TypePc' /\ TypeLocals' /\ TypeHash' /\ TypeTree'
          /\ TypeReader' /\ TypeCounts' /\ TypeGhosts'
      BY <2>1, TypeKept, PInvParts
    <2>4. LoadInv'
      <3>1. Fresh => Fresh'
        BY <2>1, FreshKept
      <3>2. LoadInv
        BY DEF PInv
      <3>3. QED BY <2>2, <3>1, <3>2 DEF LoadInv
    <2>5. FreeInv' /\ TableInv'
      BY <2>2 DEF PInv, FreeInv, TableInv, At
    <2>6. \A c \in CPU : HandlerInv(c)'
      BY <2>2 DEF PInv, HandlerInv
    <2>7. PInvParts!2'
      BY <2>3, <2>4, <2>5, <2>6
    <2>8. QED BY <2>7, PInvParts, PTL
  <1>7. QED BY <1>1, <1>2, <1>3, <1>4, <1>5, <1>6 DEF Next

\* The stages of the module's life, the handlers' locals and the instances.
THEOREM PInvariant == Spec => []PInv
  <1>1. Init => PInv
    BY InitPInv
  <1>2. PInv /\ [Next]_vars => PInv'
    BY NextPInv
  <1>3. QED BY <1>1, <1>2, PTL DEF Spec

\* Every variable of the profiler keeps its type.
THEOREM TypeCorrect == Spec => []TypeOK
  <1>1. PInv => TypeOK
    BY DEF PInv
  <1>2. QED BY <1>1, PInvariant, PTL

\* When perftop_exit frees the tables, and after it has returned, no reader and
\* no handler is inside the module and none can enter.
THEOREM UnusedWhenFreedHolds == Spec => []UnusedWhenFreed
  <1>1. PInv => UnusedWhenFreed
    <2> SUFFICES ASSUME PInv, Freeing PROVE UnusedWhenFreed!2
      BY DEF UnusedWhenFreed
    <2>1. LoadInv
      BY DEF PInv
    <2>2. plan = <<>> \/ Head(plan) \in {"free_hash", "free_tree"}
      BY DEF Freeing
    <2>3. /\ plan \in ToFree /\ ~proc /\ ~probed /\ reader = "off"
          /\ \A c \in CPU : pc[c] \in {"run", "pick"}
      BY <2>1, <2>2, Plans DEF LoadInv
    <2>4. QED BY <2>3
  <1>2. QED BY <1>1, PInvariant, PTL

----------------------------------------------------------------------------
(* The counters. *)

\* What the calls under way do to the counters.
Pick == Cardinality(At({"pick"}))
Rest == Cardinality(At(Switching))

LEMMA CountersStep ==
  ASSUME PInv, PInv', CountersAgree, [Next]_vars
  PROVE  CountersAgree'
  <1>1. /\ pre_count \in Nat /\ post_count \in Nat /\ context_switch_count \in Nat
        /\ TypePc /\ LoadInv
    BY DEF PInv, TypeOK, TypePc
  <1>2. Pick \in Nat /\ Rest \in Nat
    BY AtSet DEF Pick, Rest
  <1>3. SUFFICES ASSUME probed'
                 PROVE  /\ pre_count' = post_count' + Pick'
                        /\ context_switch_count' + Rest' <= post_count'
    BY DEF CountersAgree, Pick, Rest
  <1>4. probed => /\ pre_count = post_count + Pick
                  /\ context_switch_count + Rest <= post_count
    BY DEF CountersAgree, Pick, Rest
  <1>5. UNCHANGED pc => Pick' = Pick /\ Rest' = Rest
    BY AtKept DEF Pick, Rest
  <1>6. ASSUME NEW c \in CPU, NEW y, pc' = [pc EXCEPT ![c] = y]
        PROVE  /\ y = "pick" /\ pc[c] # "pick" => Pick' = Pick + 1
               /\ y # "pick" /\ pc[c] = "pick" => Pick' = Pick - 1
               /\ (y = "pick" <=> pc[c] = "pick") => Pick' = Pick
               /\ y \in Switching /\ pc[c] \notin Switching => Rest' = Rest + 1
               /\ y \notin Switching /\ pc[c] \in Switching => Rest' = Rest - 1
               /\ (y \in Switching <=> pc[c] \in Switching) => Rest' = Rest
    <2>1. y = "pick" /\ pc[c] # "pick" => Pick' = Pick + 1
      <3>1. SUFFICES ASSUME y \in {"pick"}, pc[c] \notin {"pick"}
                     PROVE  Cardinality(At({"pick"})') = Cardinality(At({"pick"})) + 1
        BY DEF Pick
      <3>2. QED BY <1>1, <1>6, <3>1, AtEnter, Zenon
    <2>2. y # "pick" /\ pc[c] = "pick" => Pick' = Pick - 1
      <3>1. SUFFICES ASSUME y \notin {"pick"}, pc[c] \in {"pick"}
                     PROVE  Cardinality(At({"pick"})') = Cardinality(At({"pick"})) - 1
        BY DEF Pick
      <3>2. QED BY <1>1, <1>6, <3>1, AtLeave, Zenon
    <2>3. (y = "pick" <=> pc[c] = "pick") => Pick' = Pick
      <3>1. SUFFICES ASSUME y \in {"pick"} <=> pc[c] \in {"pick"}
                     PROVE  At({"pick"})' = At({"pick"})
        BY DEF Pick
      <3>2. QED BY <1>1, <1>6, <3>1, AtSame, Zenon
    <2>4. y \in Switching /\ pc[c] \notin Switching => Rest' = Rest + 1
      <3>1. SUFFICES ASSUME y \in Switching, pc[c] \notin Switching
                     PROVE  Cardinality(At(Switching)') = Cardinality(At(Switching)) + 1
        BY DEF Rest, Switching
      <3>2. QED BY <1>1, <1>6, <3>1, AtEnter, Zenon
    <2>5. y \notin Switching /\ pc[c] \in Switching => Rest' = Rest - 1
      <3>1. SUFFICES ASSUME y \notin Switching, pc[c] \in Switching
                     PROVE  Cardinality(At(Switching)') = Cardinality(At(Switching)) - 1
        BY DEF Rest, Switching
      <3>2. QED BY <1>1, <1>6, <3>1, AtLeave, Zenon
    <2>6. (y \in Switching <=> pc[c] \in Switching) => Rest' = Rest
      <3>1. SUFFICES ASSUME y \in Switching <=> pc[c] \in Switching
                     PROVE  At(Switching)' = At(Switching)
        BY DEF Rest, Switching
      <3>2. QED BY <1>1, <1>6, <3>1, AtSame, Zenon
    <2>7. QED BY <2>1, <2>2, <2>3, <2>4, <2>5, <2>6
  <1>7. CASE Loader
    <2>1. UNCHANGED <<pc, pre_count, post_count, context_switch_count>>
      BY <1>7, LoaderKeeps DEF counts
    <2>2. probed \/ RegisterKretprobe
      BY <1>3, <1>7 DEF Loader, ProcCreate, RegisterKretprobe, RegisterFails, RemoveProcEntry,
             UnregisterKretprobe, RemoveHashTableAll, RemoveRbTreeAll, Call
    <2>3. RegisterKretprobe => Fresh
      BY <1>1, Plans DEF RegisterKretprobe, Call, LoadInv
    <2>4. Fresh => Pick = 0 /\ Rest = 0 /\ pre_count = 0 /\ post_count = 0
                   /\ context_switch_count = 0
      <3>1. Fresh => At({"pick"}) = {} /\ At(Switching) = {}
        BY DEF Fresh, At, Switching
      <3>2. QED BY <3>1, FS_EmptySet DEF Fresh, Pick, Rest
    <2>5. QED BY <1>4, <1>5, <2>1, <2>2, <2>3, <2>4
  <1>8. CASE Tick \/ Reader \/ UNCHANGED vars
    <2>1. UNCHANGED <<probed, pc, pre_count, post_count, context_switch_count>>
      BY <1>8 DEF Tick, Reader, ShowOpen, ShowNext, ShowClose, vars, loading, counts
    <2>2. QED BY <1>3, <1>4, <1>5, <2>1
  <1>9. ASSUME NEW c \in CPU, NEW t \in Pid \cup {Idle}, SwitchUnseen(c, t)
        PROVE  /\ pre_count' = post_count' + Pick'
                        /\ context_switch_count' + Rest' <= post_count'
    <2>1. /\ UNCHANGED <<pre_count, post_count, context_switch_count, probed>>
          /\ pc' = [pc EXCEPT ![c] = "run"] /\ pc[c] \in {"run", "pick"}
          /\ probed => pc[c] = "run"
      BY <1>9 DEF SwitchUnseen, counts, loading
    <2>2. Pick' = Pick /\ Rest' = Rest
      BY <1>3, <1>6, <2>1 DEF Switching
    <2>3. QED BY <1>3, <1>4, <2>1, <2>2
  <1>10. ASSUME NEW c \in CPU, Handlers(c)
         PROVE  /\ pre_count' = post_count' + Pick'
                /\ context_switch_count' + Rest' <= post_count'
    <2>1. ASSUME NEW arg, EntryHandler(c, arg)
          PROVE  /\ pre_count' = post_count' + Pick'
                /\ context_switch_count' + Rest' <= post_count'
      <3>1. /\ UNCHANGED <<post_count, context_switch_count>>
            /\ pre_count' = pre_count + 1 /\ probed
            /\ pc' = [pc EXCEPT ![c] = "pick"] /\ pc[c] = "run"
        BY <2>1 DEF EntryHandler
      <3>2. Pick' = Pick + 1 /\ Rest' = Rest
        <4>1. PICK y : y = "pick" /\ pc' = [pc EXCEPT ![c] = y]
          BY <3>1
        <4>2. /\ y = "pick" /\ pc[c] # "pick" => Pick' = Pick + 1
              /\ y # "pick" /\ pc[c] = "pick" => Pick' = Pick - 1
              /\ (y = "pick" <=> pc[c] = "pick") => Pick' = Pick
          BY <1>6, <4>1, Zenon
        <4>3. /\ y \notin Switching /\ pc[c] \in Switching => Rest' = Rest - 1
              /\ (y \in Switching <=> pc[c] \in Switching) => Rest' = Rest
          BY <1>6, <4>1, Zenon
        <4>4. QED BY <3>1, <4>1, <4>2, <4>3 DEF Switching
      <3>3. QED BY <1>1, <1>2, <1>4, <3>1, <3>2
    <2>2. ASSUME NEW t, ReturnNoSwitch(c, t)
          PROVE  /\ pre_count' = post_count' + Pick'
                /\ context_switch_count' + Rest' <= post_count'
      <3>1. /\ UNCHANGED <<pre_count, context_switch_count>>
            /\ post_count' = post_count + 1 /\ probed
            /\ pc' = [pc EXCEPT ![c] = "run"] /\ pc[c] = "pick"
        BY <2>2 DEF ReturnNoSwitch, Done
      <3>2. Pick' = Pick - 1 /\ Rest' = Rest
        <4>1. PICK y : y = "run" /\ pc' = [pc EXCEPT ![c] = y]
          BY <3>1
        <4>2. /\ y = "pick" /\ pc[c] # "pick" => Pick' = Pick + 1
              /\ y # "pick" /\ pc[c] = "pick" => Pick' = Pick - 1
              /\ (y = "pick" <=> pc[c] = "pick") => Pick' = Pick
          BY <1>6, <4>1, Zenon
        <4>3. /\ y \notin Switching /\ pc[c] \in Switching => Rest' = Rest - 1
              /\ (y \in Switching <=> pc[c] \in Switching) => Rest' = Rest
          BY <1>6, <4>1, Zenon
        <4>4. QED BY <3>1, <4>1, <4>2, <4>3 DEF Switching
      <3>3. QED BY <1>1, <1>2, <1>4, <3>1, <3>2
    <2>3. ASSUME NEW t, ReturnCounts(c, t)
          PROVE  /\ pre_count' = post_count' + Pick'
                /\ context_switch_count' + Rest' <= post_count'
      <3>1. /\ UNCHANGED pre_count /\ context_switch_count' = context_switch_count + 1
            /\ post_count' = post_count + 1 /\ probed
            /\ pc' = [pc EXCEPT ![c] = "run"] /\ pc[c] = "pick"
        BY <2>3 DEF ReturnCounts, Done
      <3>2. Pick' = Pick - 1 /\ Rest' = Rest
        <4>1. PICK y : y = "run" /\ pc' = [pc EXCEPT ![c] = y]
          BY <3>1
        <4>2. /\ y = "pick" /\ pc[c] # "pick" => Pick' = Pick + 1
              /\ y # "pick" /\ pc[c] = "pick" => Pick' = Pick - 1
              /\ (y = "pick" <=> pc[c] = "pick") => Pick' = Pick
          BY <1>6, <4>1, Zenon
        <4>3. /\ y \notin Switching /\ pc[c] \in Switching => Rest' = Rest - 1
              /\ (y \in Switching <=> pc[c] \in Switching) => Rest' = Rest
          BY <1>6, <4>1, Zenon
        <4>4. QED BY <3>1, <4>1, <4>2, <4>3 DEF Switching
      <3>3. QED BY <1>1, <1>2, <1>4, <3>1, <3>2
    <2>4. ASSUME NEW t, ReturnReadsClock(c, t)
          PROVE  /\ pre_count' = post_count' + Pick'
                /\ context_switch_count' + Rest' <= post_count'
      <3>1. PICK y \in {"lookup"} : pc' = [pc EXCEPT ![c] = y]
        BY <2>4 DEF ReturnReadsClock
      <3>2. /\ UNCHANGED <<pre_count, context_switch_count>>
            /\ post_count' = post_count + 1 /\ probed /\ pc[c] = "pick"
        BY <2>4 DEF ReturnReadsClock
      <3>3. Pick' = Pick - 1 /\ Rest' = Rest + 1
        BY <1>6, <3>1, <3>2 DEF Switching
      <3>4. QED BY <1>1, <1>2, <1>4, <3>2, <3>3
    <2>5. ASSUME NEW t, OopsAtReturn(c, t)
          PROVE  /\ pre_count' = post_count' + Pick'
                /\ context_switch_count' + Rest' <= post_count'
      <3>1. /\ UNCHANGED <<pre_count, context_switch_count>>
            /\ post_count' = post_count + 1 /\ probed
            /\ pc' = [pc EXCEPT ![c] = "oops"] /\ pc[c] = "pick"
        BY <2>5 DEF OopsAtReturn
      <3>2. Pick' = Pick - 1 /\ Rest' = Rest
        <4>1. PICK y : y = "oops" /\ pc' = [pc EXCEPT ![c] = y]
          BY <3>1
        <4>2. /\ y = "pick" /\ pc[c] # "pick" => Pick' = Pick + 1
              /\ y # "pick" /\ pc[c] = "pick" => Pick' = Pick - 1
              /\ (y = "pick" <=> pc[c] = "pick") => Pick' = Pick
          BY <1>6, <4>1, Zenon
        <4>3. /\ y \notin Switching /\ pc[c] \in Switching => Rest' = Rest - 1
              /\ (y \in Switching <=> pc[c] \in Switching) => Rest' = Rest
          BY <1>6, <4>1, Zenon
        <4>4. QED BY <3>1, <4>1, <4>2, <4>3 DEF Switching
      <3>3. QED BY <1>1, <1>2, <1>4, <3>1, <3>2
    <2>6. CASE LookupStart(c) \/ RemoveStart(c) \/ Account(c)
      <3>1. PICK y \in {"remove", "account", "insert"} : pc' = [pc EXCEPT ![c] = y]
        BY <2>6 DEF LookupStart, RemoveStart, Account, AddTotal
      <3>2. /\ UNCHANGED <<probed, pre_count, post_count, context_switch_count>>
            /\ pc[c] \in {"lookup", "remove", "account"}
        BY <2>6 DEF LookupStart, RemoveStart, Account, AddTotal, counts, loading
      <3>3. Pick' = Pick /\ Rest' = Rest
        BY <1>6, <3>1, <3>2 DEF Switching
      <3>4. QED BY <1>3, <1>4, <3>2, <3>3
    <2>7. CASE InsertStart(c)
      <3>1. /\ UNCHANGED <<probed, pre_count, post_count>>
            /\ context_switch_count' = context_switch_count + 1
            /\ pc' = [pc EXCEPT ![c] = "run"] /\ pc[c] = "insert"
        BY <2>7 DEF InsertStart, Done, loading
      <3>2. Pick' = Pick /\ Rest' = Rest - 1
        <4>1. PICK y : y = "run" /\ pc' = [pc EXCEPT ![c] = y]
          BY <3>1
        <4>2. /\ y = "pick" /\ pc[c] # "pick" => Pick' = Pick + 1
              /\ y # "pick" /\ pc[c] = "pick" => Pick' = Pick - 1
              /\ (y = "pick" <=> pc[c] = "pick") => Pick' = Pick
          BY <1>6, <4>1, Zenon
        <4>3. /\ y \notin Switching /\ pc[c] \in Switching => Rest' = Rest - 1
              /\ (y \in Switching <=> pc[c] \in Switching) => Rest' = Rest
          BY <1>6, <4>1, Zenon
        <4>4. QED BY <3>1, <4>1, <4>2, <4>3 DEF Switching
      <3>3. QED BY <1>1, <1>2, <1>3, <1>4, <3>1, <3>2
    <2>8. CASE OopsAtInsert(c) \/ OopsAtTable(c)
      <3>1. /\ UNCHANGED <<probed, pre_count, post_count, context_switch_count>>
            /\ pc' = [pc EXCEPT ![c] = "oops"]
            /\ pc[c] \in {"lookup", "remove", "insert"}
        BY <2>8 DEF OopsAtInsert, OopsAtTable, AtTable, counts, loading
      <3>2. Pick' = Pick /\ Rest' = Rest - 1
        <4>1. PICK y : y = "oops" /\ pc' = [pc EXCEPT ![c] = y]
          BY <3>1
        <4>2. /\ y = "pick" /\ pc[c] # "pick" => Pick' = Pick + 1
              /\ y # "pick" /\ pc[c] = "pick" => Pick' = Pick - 1
              /\ (y = "pick" <=> pc[c] = "pick") => Pick' = Pick
          BY <1>6, <4>1, Zenon
        <4>3. /\ y \notin Switching /\ pc[c] \in Switching => Rest' = Rest - 1
              /\ (y \in Switching <=> pc[c] \in Switching) => Rest' = Rest
          BY <1>6, <4>1, Zenon
        <4>4. QED BY <3>1, <4>1, <4>2, <4>3 DEF Switching
      <3>3. QED BY <1>1, <1>2, <1>3, <1>4, <3>1, <3>2
    <2>9. QED
      BY <1>10, <2>1, <2>2, <2>3, <2>4, <2>5, <2>6, <2>7, <2>8 DEF Handlers
  <1>11. QED BY <1>7, <1>8, <1>9, <1>10 DEF Next

\* While the probe is registered, entries and returns agree up to the calls under
\* way, and no more switches are counted than calls have returned.
THEOREM CountersAgreeHolds == Spec => []CountersAgree
  <1>1. Init => CountersAgree
    BY DEF Init, CountersAgree
  <1>2. PInv /\ PInv' /\ CountersAgree /\ [Next]_vars => CountersAgree'
    BY CountersStep
  <1>3. QED BY <1>1, <1>2, PInvariant, PTL DEF Spec

----------------------------------------------------------------------------
(* The reader. *)

\* Only the update under my_lock and perftop_exit change the tree, and neither
\* while a reader is inside perftop_show.
LEMMA TreeChanges ==
  ASSUME PInv, [Next]_vars
  PROVE  \/ UNCHANGED tree
         \/ RemoveRbTreeAll /\ tree' = {} /\ reader = "off" /\ UNCHANGED <<reader, out>>
         \/ \E c \in CPU : Account(c) /\ reader = "off" /\ UNCHANGED <<reader, out>>
  <1>1. CASE Tick \/ Reader \/ UNCHANGED vars
    BY <1>1 DEF Tick, Reader, ShowOpen, ShowNext, ShowClose, vars
  <1>2. CASE Loader
    <2>1. RemoveRbTreeAll => tree' = {} /\ reader = "off" /\ UNCHANGED <<reader, out>>
      BY Plans DEF RemoveRbTreeAll, Call, PInv, LoadInv
    <2>2. QED
      BY <1>2, <2>1 DEF Loader, ProcCreate, RegisterKretprobe, RegisterFails,
           RemoveProcEntry, UnregisterKretprobe, RemoveHashTableAll
  <1>3. ASSUME NEW c \in CPU, Handlers(c)
        PROVE  UNCHANGED tree \/ (Account(c) /\ reader = "off" /\ UNCHANGED <<reader, out>>)
    <2>1. \A arg : EntryHandler(c, arg) => UNCHANGED tree
      BY DEF EntryHandler
    <2>2. \A t : (\/ ReturnNoSwitch(c, t) \/ ReturnCounts(c, t)
                  \/ ReturnReadsClock(c, t) \/ OopsAtReturn(c, t)) => UNCHANGED tree
      BY DEF ReturnNoSwitch, ReturnCounts, ReturnReadsClock, OopsAtReturn
    <2>3. (\/ LookupStart(c) \/ RemoveStart(c) \/ InsertStart(c)
           \/ OopsAtInsert(c) \/ OopsAtTable(c)) => UNCHANGED tree
      BY DEF LookupStart, RemoveStart, InsertStart, OopsAtInsert, OopsAtTable
    <2>4. Account(c) => reader = "off" /\ UNCHANGED <<reader, out>>
      BY DEF Account, AddTotal
    <2>5. QED BY <1>3, <2>1, <2>2, <2>3, <2>4 DEF Handlers
  <1>4. ASSUME NEW c \in CPU, NEW t \in Pid \cup {Idle}, SwitchUnseen(c, t)
        PROVE  UNCHANGED tree
    BY <1>4 DEF SwitchUnseen
  <1>5. QED BY <1>1, <1>2, <1>3, <1>4 DEF Next

LEMMA TreeStep ==
  ASSUME PInv, TreeInv, [Next]_vars
  PROVE  TreeInv'
  <1>1. CASE UNCHANGED tree
    BY <1>1 DEF TreeInv
  <1>2. CASE tree' = {}
    BY <1>2 DEF TreeInv
  <1>3. ASSUME NEW c \in CPU, Account(c) PROVE TreeInv'
    <2> DEFINE p == prev[c]
               x == (Total(tree, prev[c]) + curr[c] - old[c]) % Word
    <2>1. tree' = Insert(Without(tree, p), p, x)
      BY <1>3 DEF Account, AddTotal
    <2> HIDE DEF p, x
    <2>2. TreeInv
      OBVIOUS
    <2>3. CASE \E e \in Without(tree, p) : e.tsc = x
      BY <2>1, <2>2, <2>3 DEF TreeInv, Insert, Without
    <2>4. CASE ~ \E e \in Without(tree, p) : e.tsc = x
      <3>1. tree' = Without(tree, p) \cup {[pid |-> p, tsc |-> x]}
        BY <2>1, <2>4 DEF Insert
      <3>2. \A e \in Without(tree, p) : e \in tree /\ e.pid # p /\ e.tsc # x
        BY <2>4 DEF Without
      <3>3. QED BY <2>2, <3>1, <3>2 DEF TreeInv
    <2>5. QED BY <2>3, <2>4
  <1>4. QED BY <1>1, <1>2, <1>3, TreeChanges

\* The entries that are not printed yet are those below the last one printed.
LEMMA Unprinted ==
  ASSUME TypeTree, TypeReader, ShowInv
  PROVE  Below = tree \ {out[i] : i \in 1 .. Len(out)}
  <1> DEFINE shown == {out[i] : i \in 1 .. Len(out)}
  <1>1. /\ shown \subseteq tree
        /\ \A e \in shown, f \in tree \ shown : f.tsc < e.tsc
        /\ \A i \in 1 .. Len(out) : out[i].tsc >= out[Len(out)].tsc
    BY DEF ShowInv, ShowsMostScheduled
  <1>2. out \in Seq(Entry) /\ tree \subseteq Entry
    BY DEF TypeTree, TypeReader
  <1>3. CASE out = <<>>
    <2>1. shown = {}
      BY <1>3
    <2>2. QED BY <1>3, <2>1 DEF Below
  <1>4. CASE out # <<>>
    <2>1. Len(out) \in 1 .. Len(out)
      BY <1>2, <1>4
    <2>2. out[Len(out)] \in shown
      BY <2>1
    <2>3. \A e \in shown : e.tsc \in Nat /\ e.tsc >= out[Len(out)].tsc
      BY <1>1, <1>2, WordAssumption DEF Entry
    <2>4. \A e \in tree : e.tsc \in Nat
      BY <1>2, WordAssumption DEF Entry
    <2>5. out[Len(out)].tsc \in Nat
      BY <2>2, <2>3
    <2> HIDE DEF shown
    <2>6. \A e \in tree : e.tsc < out[Len(out)].tsc => e \notin shown
      BY <2>3, <2>4, <2>5
    <2>7. \A e \in tree : e \notin shown => e.tsc < out[Len(out)].tsc
      BY <1>1, <2>2
    <2>8. Below = tree \ shown
      BY <1>4, <2>6, <2>7 DEF Below
    <2>9. QED BY <2>8 DEF shown
  <1>5. QED BY <1>3, <1>4

LEMMA ShowNextShows ==
  ASSUME PInv, TreeInv, ShowInv, ShowNext
  PROVE  ShowInv'
  <1> DEFINE shown == {out[i] : i \in 1 .. Len(out)}
  <1>1. /\ shown \subseteq tree
        /\ \A e \in shown, f \in tree \ shown : f.tsc < e.tsc
        /\ \A i \in 1 .. Len(out) : out[i].tsc >= out[Len(out)].tsc
        /\ Len(out) < Limit /\ UNCHANGED tree
    BY DEF ShowInv, ShowsMostScheduled, ShowNext
  <1>2. out \in Seq(Entry) /\ tree \subseteq Entry /\ Len(out) \in Nat /\ Limit \in Nat
    BY PInvParts, BoundAssumption DEF TypeTree, TypeReader
  <1>3. Below = tree \ shown
    BY Unprinted, PInvParts
  <1>4. CASE Below = {}
    <2>1. reader' = "end" /\ UNCHANGED out
      BY <1>4 DEF ShowNext
    <2>2. shown = tree
      BY <1>1, <1>3, <1>4
    <2>3. QED BY <1>1, <1>2, <2>1, <2>2 DEF ShowInv, ShowsMostScheduled
  <1>5. ASSUME NEW e \in Below, \A f \in Below : f.tsc <= e.tsc,
               out' = Append(out, e),
               reader' = IF BreaksAfter(Len(out) + 1) THEN "end" ELSE "walk"
        PROVE  ShowInv'
    <2> DEFINE shown2 == {out'[i] : i \in 1 .. Len(out')}
    <2>1. e \in tree /\ e \in Entry /\ e.tsc \in Nat
      BY <1>2, <1>3, <1>5, WordAssumption DEF Entry
    <2>2. /\ Len(out') = Len(out) + 1 /\ out'[Len(out')] = e
          /\ \A i \in 1 .. Len(out) : out'[i] = out[i]
      <3> HIDE DEF Entry
      <3>1. QED BY <1>2, <1>5, <2>1
    <2>3. shown2 = shown \cup {e}
      <3>1. \A i \in 1 .. Len(out') : i \in 1 .. Len(out) \/ i = Len(out')
        BY <1>2, <2>2
      <3>2. \A i \in 1 .. Len(out) : i \in 1 .. Len(out')
        BY <1>2, <2>2
      <3>3. Len(out') \in 1 .. Len(out')
        BY <1>2, <2>2
      <3>4. shown2 \subseteq shown \cup {e}
        BY <2>2, <3>1
      <3>5. shown \subseteq shown2 /\ e \in shown2
        BY <2>2, <3>2, <3>3
      <3>6. QED BY <3>4, <3>5
    <2>4. \A f \in shown : e.tsc < f.tsc
      BY <1>1, <1>3, <2>1
    <2>5. \A f \in tree \ shown2 : f.tsc < e.tsc
      <3>1. TAKE f \in tree \ shown2
      <3>2. f \in Below /\ f # e
        BY <1>3, <2>3
      <3>3. f.tsc # e.tsc
        BY <2>1, <3>1, <3>2 DEF TreeInv
      <3>4. f.tsc \in Nat /\ f.tsc <= e.tsc
        BY <1>2, <1>5, <3>1, <3>2, WordAssumption DEF Entry
      <3>5. QED BY <2>1, <3>3, <3>4
    <2>6. \A f \in shown2, g \in tree \ shown2 : g.tsc < f.tsc
      <3> HIDE DEF shown, shown2
      <3>1. QED BY <1>1, <2>3, <2>5
    <2>7. shown2 \subseteq tree
      BY <1>1, <2>1, <2>3
    <2>8. \A i \in 1 .. Len(out') : out'[i].tsc >= out'[Len(out')].tsc
      <3>1. \A f \in shown2 : f.tsc >= e.tsc
        <4>1. \A f \in shown : f.tsc \in Nat
          BY <1>1, <1>2, WordAssumption DEF Entry
        <4>2. \A f \in shown : f.tsc >= e.tsc
          BY <2>1, <2>4, <4>1
        <4>3. e.tsc >= e.tsc
          BY <2>1
        <4> HIDE DEF shown, shown2
        <4>4. QED BY <2>3, <4>2, <4>3
      <3>2. QED BY <2>2, <3>1
    <2>9. Len(out') <= Limit /\ (reader' = "end" => Len(out') = Limit)
          /\ (reader' = "walk" => Len(out') < Limit)
      <3>1. BreaksAfter(Len(out) + 1) <=> Len(out) + 1 >= Limit
        BY <1>2 DEF BreaksAfter
      <3>2. reader' = "end" <=> Len(out) + 1 >= Limit
        BY <1>5, <3>1
      <3>3. reader' = "walk" => ~(Len(out) + 1 >= Limit)
        BY <1>5, <3>1
      <3>4. QED BY <1>1, <1>2, <2>2, <3>2, <3>3
    <2>10. reader' # "off"
      BY <1>5
    <2>11. ShowsMostScheduled'
      BY <1>1, <2>6, <2>7, <2>9 DEF ShowsMostScheduled
    <2>12. QED BY <2>8, <2>9, <2>10, <2>11 DEF ShowInv
  <1>6. QED BY <1>4, <1>5 DEF ShowNext

LEMMA ShowStep ==
  ASSUME PInv, TreeInv, ShowInv, [Next]_vars
  PROVE  ShowInv'
  <1>0. Limit \in Nat \ {0}
    BY BoundAssumption
  <1>1. out' = <<>> /\ reader' # "end" => ShowInv'
    <2>1. SUFFICES ASSUME out' = <<>>, reader' # "end" PROVE ShowInv'
      OBVIOUS
    <2>2. {out'[i] : i \in 1 .. Len(out')} = {} /\ Len(out') = 0
      BY <2>1
    <2>3. ShowsMostScheduled'
      BY <1>0, <2>1, <2>2 DEF ShowsMostScheduled
    <2>4. QED BY <1>0, <2>1, <2>2, <2>3 DEF ShowInv
  <1>2. reader = "off" => out = <<>>
    BY DEF ShowInv
  <1>3. CASE UNCHANGED <<tree, reader, out>>
    <2>1. ShowsMostScheduled'
      BY <1>3 DEF ShowInv, ShowsMostScheduled
    <2>2. QED BY <1>3, <2>1 DEF ShowInv
  <1>4. CASE reader = "off" /\ UNCHANGED <<reader, out>>
    BY <1>1, <1>2, <1>4
  <1>5. CASE ShowOpen \/ ShowClose
    BY <1>1, <1>2, <1>5 DEF ShowOpen, ShowClose
  <1>6. CASE ShowNext
    BY <1>6, ShowNextShows
  <1>7. Reader \/ UNCHANGED <<reader, out>>
    <2>1. CASE Tick \/ UNCHANGED vars
      BY <2>1 DEF Tick, vars
    <2>2. CASE Loader
      BY <2>2, LoaderKeeps
    <2>3. ASSUME NEW c \in CPU, Handlers(c) PROVE UNCHANGED <<reader, out>>
      <3>1. \A arg : EntryHandler(c, arg) => UNCHANGED <<reader, out>>
        BY DEF EntryHandler
      <3>2. \A t : (\/ ReturnNoSwitch(c, t) \/ ReturnCounts(c, t)
                    \/ ReturnReadsClock(c, t) \/ OopsAtReturn(c, t)) => UNCHANGED <<reader, out>>
        BY DEF ReturnNoSwitch, ReturnCounts, ReturnReadsClock, OopsAtReturn
      <3>3. (\/ LookupStart(c) \/ RemoveStart(c) \/ Account(c) \/ InsertStart(c)
             \/ OopsAtInsert(c) \/ OopsAtTable(c)) => UNCHANGED <<reader, out>>
        BY DEF LookupStart, RemoveStart, InsertStart, OopsAtInsert, OopsAtTable,
               Account, AddTotal
      <3>4. QED BY <2>3, <3>1, <3>2, <3>3 DEF Handlers
    <2>4. ASSUME NEW c \in CPU, NEW t \in Pid \cup {Idle}, SwitchUnseen(c, t)
          PROVE  UNCHANGED <<reader, out>>
      BY <2>4 DEF SwitchUnseen
    <2>5. QED BY <2>1, <2>2, <2>3, <2>4 DEF Next
  <1>8. QED BY <1>3, <1>4, <1>5, <1>6, <1>7, TreeChanges DEF Reader

\* What a reader has printed are the largest totals of the tree as it is now, and
\* at the end there are Limit of them or all.
THEOREM ShowsMostScheduledHolds == Spec => []ShowsMostScheduled
  <1>1. Init => TreeInv /\ ShowInv
    <2>1. SUFFICES ASSUME Init PROVE TreeInv /\ ShowInv
      OBVIOUS
    <2>2. tree = {} /\ reader = "off" /\ out = <<>>
      BY <2>1 DEF Init
    <2>3. {out[i] : i \in 1 .. Len(out)} = {} /\ Len(out) = 0
      BY <2>2
    <2>4. QED BY <2>2, <2>3, BoundAssumption DEF TreeInv, ShowInv, ShowsMostScheduled
  <1>2. PInv /\ TreeInv /\ ShowInv /\ [Next]_vars => (TreeInv /\ ShowInv)'
    BY TreeStep, ShowStep
  <1>3. ShowInv => ShowsMostScheduled
    BY DEF ShowInv
  <1>4. QED BY <1>1, <1>2, <1>3, PInvariant, PTL DEF Spec

----------------------------------------------------------------------------
(* The time stamps. *)

\* A step moves tasks on c only, to ones that no other CPU has.
LEMMA ExclusiveMove ==
  ASSUME Exclusive, NEW c \in CPU,
         \A d \in CPU \ {c} : running'[d] = running[d] /\ next'[d] = next[d],
         \A t \in Pid : t \in {running'[c], next'[c]} =>
                          t \in {running[c], next[c]} \/ Pickable(t)
  PROVE  Exclusive'
  <1>1. SUFFICES ASSUME NEW d \in CPU, NEW e \in CPU, NEW t \in Pid,
                        t \in {running'[d], next'[d]}, t \in {running'[e], next'[e]}
                 PROVE  d = e
    BY DEF Exclusive
  <1>2. \A f \in CPU : t \in {running'[f], next'[f]} =>
          t \in {running[f], next[f]} \/ (f = c /\ Pickable(t))
    OBVIOUS
  <1>3. CASE Pickable(t)
    BY <1>1, <1>2, <1>3 DEF Pickable
  <1>4. CASE ~Pickable(t)
    <2>1. t \in {running[d], next[d]} /\ t \in {running[e], next[e]}
      BY <1>1, <1>2, <1>4
    <2>2. QED BY <2>1 DEF Exclusive
  <1>5. QED BY <1>3, <1>4

\* The handler of d is not under way any more, or is where it was.
Still(d) ==
  \/ pc'[d] \notin Switching
  \/ /\ pc'[d] = pc[d] /\ prev'[d] = prev[d] /\ curr'[d] = curr[d] /\ old'[d] = old[d]
     /\ running'[d] = running[d] /\ next'[d] = next[d]

\* The handlers' part of the invariant, when a step changes no start time and
\* lets no handler go on.
LEMMA StillKept ==
  ASSUME NEW H, NEW K, TimeParts(H, K), \A d \in CPU : Still(d),
         UNCHANGED <<now, hash, used, raced>>, unrecorded \subseteq unrecorded'
  PROVE  /\ LeaveInv' /\ StartInv(K)' /\ ChargeInv(H, K)' /\ LookInv' /\ UsedInv(H)'
         /\ \A p \in Seen', c \in CPU :
              /\ hash[p] # 0 /\ Leaving(c, p)' => hash[p] + 1 .. curr'[c] \subseteq H[p]
              /\ Coming(c, p)' => curr'[c] + 1 .. now \subseteq H[p]
  <1>1. Seen' \subseteq Seen /\ Task \ unrecorded' \subseteq Task \ unrecorded
    BY DEF Seen
  <1>2. /\ LeaveInv /\ StartInv(K) /\ ChargeInv(H, K) /\ LookInv /\ UsedInv(H)
        /\ SpanInv(H)
    BY DEF TimeParts
  <1>3. LeaveInv'
    BY <1>1, <1>2 DEF LeaveInv, Leaving, Still
  <1>4. StartInv(K)'
    BY <1>1, <1>2 DEF StartInv, Charging, Charge, Coming, Still, Switching
  <1>5. ChargeInv(H, K)'
    BY <1>1, <1>2 DEF ChargeInv, Charging, Charge, Still, Switching
  <1>6. LookInv'
    BY <1>1, <1>2 DEF LookInv, Still, Switching
  <1>7. UsedInv(H)'
    BY <1>2 DEF UsedInv
  <1>8. \A p \in Seen', c \in CPU :
              /\ hash[p] # 0 /\ Leaving(c, p)' => hash[p] + 1 .. curr'[c] \subseteq H[p]
              /\ Coming(c, p)' => curr'[c] + 1 .. now \subseteq H[p]
    BY <1>1, <1>2 DEF SpanInv, Leaving, Coming, Still
  <1>9. QED BY <1>3, <1>4, <1>5, <1>6, <1>7, <1>8

\* A step that at most ends a handler.
LEMMA TimeSame ==
  ASSUME NEW H, NEW K, TimeParts(H, K), \A d \in CPU : Still(d),
         UNCHANGED <<probed, now, running, next, hash, tree, used, unrecorded, raced>>
  PROVE  TimeParts(H, K)'
  <1>1. /\ LeaveInv' /\ StartInv(K)' /\ ChargeInv(H, K)' /\ LookInv' /\ UsedInv(H)'
        /\ \A p \in Seen', c \in CPU :
             /\ hash[p] # 0 /\ Leaving(c, p)' => hash[p] + 1 .. curr'[c] \subseteq H[p]
             /\ Coming(c, p)' => curr'[c] + 1 .. now \subseteq H[p]
    BY StillKept
  <1>2. Exclusive' /\ TurnInv'
    BY DEF TimeParts, Exclusive, TurnInv
  <1>3. Seen' = Seen /\ \A c \in CPU : Owner(c)' = Owner(c)
    BY DEF Seen, Owner
  <1>4. TotalInv(H, K)'
    BY <1>3 DEF TimeParts, TotalInv
  <1>5. SpanInv(H)'
    <2>1. SpanInv(H)
      BY DEF TimeParts
    <2>2. QED BY <1>1, <1>3, <2>1 DEF SpanInv
  <1>6. QED BY <1>1, <1>2, <1>4, <1>5 DEF TimeParts

\* A step puts another task on c, past a handler: none with a start time leaves
\* unless its leaving goes unrecorded.
LEMMA TimeMoved ==
  ASSUME NEW H, NEW K, PInv, TimeParts(H, K), \A d \in CPU : Still(d),
         UNCHANGED <<probed, now, hash, tree, used, raced>>,
         unrecorded \subseteq unrecorded', NEW c \in CPU,
         \A d \in CPU \ {c} : running'[d] = running[d] /\ next'[d] = next[d],
         next[c] = Null, next'[c] = Null,
         running'[c] = running[c] \/ Pickable(running'[c]) \/ running'[c] = Idle,
         probed /\ running[c] \in Task \ unrecorded' =>
           hash[running[c]] = 0 \/ running'[c] = running[c]
  PROVE  TimeParts(H, K)'
  <1>1. /\ LeaveInv' /\ StartInv(K)' /\ ChargeInv(H, K)' /\ LookInv' /\ UsedInv(H)'
        /\ \A p \in Seen', d \in CPU :
             /\ hash[p] # 0 /\ Leaving(d, p)' => hash[p] + 1 .. curr'[d] \subseteq H[p]
             /\ Coming(d, p)' => curr'[d] + 1 .. now \subseteq H[p]
    BY StillKept
  <1>2. Exclusive'
    <2>1. Exclusive
      BY DEF TimeParts
    <2>2. \A t \in Pid : t \in {running'[c], next'[c]} =>
                           t \in {running[c], next[c]} \/ Pickable(t)
      BY Pointers
    <2>3. QED BY <2>1, <2>2, ExclusiveMove
  <1>3. Seen' \subseteq Seen /\ Seen \subseteq Task \ unrecorded /\ Seen \subseteq Pid
        /\ Task \ unrecorded' \subseteq Task \ unrecorded
    BY Pointers DEF Seen
  <1>4. TotalInv(H, K)'
    BY <1>3 DEF TimeParts, TotalInv
  <1>5. TurnInv'
    <2>1. SUFFICES ASSUME probed, NEW p \in Task \ unrecorded', hash[p] # 0
                   PROVE  \E d \in CPU : p \in {running'[d], next'[d]}
      BY DEF TurnInv
    <2>2. PICK d \in CPU : p \in {running[d], next[d]}
      BY <1>3, <2>1 DEF TimeParts, TurnInv
    <2>3. CASE d # c
      BY <2>2, <2>3
    <2>4. CASE d = c
      <3>1. p = running[c]
        BY <2>2, <2>4, Pointers
      <3>2. running'[c] = p
        BY <2>1, <3>1
      <3>3. QED BY <3>2
    <2>5. QED BY <2>3, <2>4
  <1>6. SpanInv(H)'
    <2>1. ASSUME NEW p \in Seen', NEW d \in CPU, probed, hash[p] # 0, Owner(d)' = p
          PROVE  hash[p] + 1 .. now \subseteq H[p]
      <3>0. p \in Seen /\ p \in Task \ unrecorded
        BY <1>3, <2>1
      <3>1. ~Pickable(p)
        <4>1. \E e \in CPU : p \in {running[e], next[e]}
          BY <2>1, <3>0 DEF TimeParts, TurnInv
        <4>2. QED BY <4>1 DEF Pickable
      <3>2. Owner(d) = p
        <4>1. CASE d # c
          BY <2>1, <4>1 DEF Owner
        <4>2. CASE d = c
          <5>1. running'[c] = p
            BY <2>1, <4>2, Pointers DEF Owner
          <5>2. p = running[c]
            BY <3>0, <3>1, <5>1, Pointers
          <5>3. QED BY <4>2, <5>2, Pointers DEF Owner
        <4>3. QED BY <4>1, <4>2
      <3>3. SpanInv(H)
        BY DEF TimeParts
      <3>4. QED BY <2>1, <3>0, <3>2, <3>3 DEF SpanInv
    <2>2. QED BY <1>1, <2>1 DEF SpanInv
  <1>7. QED BY <1>1, <1>2, <1>4, <1>5, <1>6 DEF TimeParts

\* What Done changes.
LEMMA DoneAt ==
  ASSUME TypeOK, NEW c \in CPU, NEW u, Done(c, u)
  PROVE  /\ running'[c] = u /\ next'[c] = Null /\ pc'[c] = "run"
         /\ \A d \in CPU \ {c} :
              /\ pc'[d] = pc[d] /\ next'[d] = next[d] /\ running'[d] = running[d]
              /\ prev'[d] = prev[d] /\ old'[d] = old[d] /\ curr'[d] = curr[d]
         /\ \A d \in CPU : Still(d)
  <1>1. /\ running'[c] = u /\ next'[c] = Null /\ pc'[c] = "run"
        /\ \A d \in CPU \ {c} :
             /\ pc'[d] = pc[d] /\ next'[d] = next[d] /\ running'[d] = running[d]
             /\ prev'[d] = prev[d] /\ old'[d] = old[d] /\ curr'[d] = curr[d]
    BY Domains DEF Done
  <1>2. \A d \in CPU : Still(d)
    BY <1>1 DEF Still, Switching
  <1>3. QED BY <1>1, <1>2

LEMMA PickedOn ==
  ASSUME NEW c, NEW t \in Picked(c)
  PROVE  t = running[c] \/ Pickable(t) \/ t = Null \/ t = Retry
  BY DEF Picked

LEMMA SwitchUnseenTime ==
  ASSUME NEW H, NEW K, PInv, TimeParts(H, K), NEW c \in CPU,
         NEW t \in Pid \cup {Idle}, SwitchUnseen(c, t)
  PROVE  TimeParts(H, K)'
  <1>1. /\ UNCHANGED <<probed, now, next, curr, old, hash, tree, used, raced, unrecorded>>
        /\ running' = [running EXCEPT ![c] = t]
        /\ pc' = [pc EXCEPT ![c] = "run"]
        /\ prev' = [prev EXCEPT ![c] = Null]
        /\ Pickable(t) \/ t = Idle
        /\ probed => running[c] \notin Task
    BY DEF SwitchUnseen, loading, ghosts
  <1>2. TypeOK /\ HandlerInv(c)
    BY DEF PInv
  <1>3. next[c] = Null
    BY <1>2 DEF SwitchUnseen, HandlerInv
  <1>4. /\ running'[c] = t /\ next'[c] = Null /\ pc'[c] = "run"
        /\ \A d \in CPU \ {c} :
             /\ running'[d] = running[d] /\ pc'[d] = pc[d] /\ prev'[d] = prev[d]
             /\ next'[d] = next[d]
    BY <1>1, <1>2, <1>3, Domains
  <1>5. \A d \in CPU : Still(d)
    BY <1>1, <1>4 DEF Still, Switching
  <1>6. unrecorded \subseteq unrecorded'
    BY <1>1
  <1>7. QED BY <1>1, <1>3, <1>4, <1>5, <1>6, TimeMoved

LEMMA ReturnNoSwitchTime ==
  ASSUME NEW H, NEW K, PInv, TimeParts(H, K), NEW c \in CPU, NEW t,
         ReturnNoSwitch(c, t)
  PROVE  TimeParts(H, K)'
  <1> DEFINE u == IF t = Null THEN Idle ELSE IF t = Retry THEN running[c] ELSE t
  <1>1. /\ UNCHANGED <<probed, now, hash, tree, used, raced>>
        /\ Done(c, u) /\ unrecorded' = unrecorded \cup Unseen(c, t)
        /\ pc[c] = "pick" /\ t \in Picked(c) /\ ~IsSwitch(prev[c], t)
    BY DEF ReturnNoSwitch, loading
  <1>2. TypeOK /\ HandlerInv(c)
    BY DEF PInv
  <1>3. next[c] = Null /\ running[c] \in Task
    BY <1>1, <1>2 DEF HandlerInv
  <1>4. u = running[c] \/ Pickable(u) \/ u = Idle
    BY <1>1, <1>3, PickedOn
  <1>5. running[c] \in unrecorded' \/ u = running[c]
    <2>1. CASE t \in {running[c], Retry}
      BY <1>3, <2>1, Pointers
    <2>2. CASE t \notin {running[c], Retry}
      <3>1. t = Null \/ prev[c] # running[c]
        BY <1>1, <1>3, <2>2, Pointers DEF IsSwitch
      <3>2. QED BY <1>1, <2>2, <3>1 DEF Unseen
    <2>3. QED BY <2>1, <2>2
  <1> HIDE DEF u
  <1>6. /\ running'[c] = u /\ next'[c] = Null
        /\ \A d \in CPU \ {c} : running'[d] = running[d] /\ next'[d] = next[d]
        /\ \A d \in CPU : Still(d)
    BY <1>1, <1>2, DoneAt
  <1>7. unrecorded \subseteq unrecorded'
    BY <1>1
  <1>8. QED BY <1>1, <1>3, <1>4, <1>5, <1>6, <1>7, TimeMoved

LEMMA ReturnCountsTime ==
  ASSUME NEW H, NEW K, PInv, TimeParts(H, K), NEW c \in CPU, NEW t,
         ReturnCounts(c, t)
  PROVE  TimeParts(H, K)'
  <1>1. /\ UNCHANGED <<probed, now, hash, tree, used, raced, unrecorded>>
        /\ Done(c, t) /\ part = 1
        /\ pc[c] = "pick" /\ t \in Picked(c) \ {Retry} /\ t # Null
    BY DEF ReturnCounts, IsSwitch, loading, ghosts
  <1>2. TypeOK /\ HandlerInv(c) /\ TableInv
    BY DEF PInv
  <1>3. next[c] = Null /\ running[c] \in Task
    BY <1>1, <1>2 DEF HandlerInv
  <1>4. t = running[c] \/ Pickable(t) \/ t = Idle
    BY <1>1, PickedOn
  <1>5. hash[running[c]] = 0
    BY <1>1, <1>2, <1>3 DEF TableInv
  <1>6. /\ running'[c] = t /\ next'[c] = Null
        /\ \A d \in CPU \ {c} : running'[d] = running[d] /\ next'[d] = next[d]
        /\ \A d \in CPU : Still(d)
    BY <1>1, <1>2, DoneAt
  <1>7. unrecorded \subseteq unrecorded'
    BY <1>1
  <1>8. QED BY <1>1, <1>3, <1>4, <1>5, <1>6, <1>7, TimeMoved

LEMMA EntryHandlerTime ==
  ASSUME NEW H, NEW K, PInv, TimeParts(H, K), NEW c \in CPU, NEW arg,
         EntryHandler(c, arg)
  PROVE  TimeParts(H, K)'
  <1>1. /\ UNCHANGED <<probed, now, running, next, curr, old, hash, tree, used,
                       unrecorded, raced>>
        /\ pc' = [pc EXCEPT ![c] = "pick"]
        /\ \E x : prev' = [prev EXCEPT ![c] = x]
    BY DEF EntryHandler, loading, ghosts, sched
  <1>2. TypeOK
    BY DEF PInv
  <1>3. /\ pc'[c] = "pick"
        /\ \A d \in CPU \ {c} : pc'[d] = pc[d] /\ prev'[d] = prev[d]
    BY <1>1, <1>2, Domains
  <1>4. \A d \in CPU : Still(d)
    BY <1>1, <1>3 DEF Still, Switching
  <1>5. QED BY <1>1, <1>4, TimeSame

LEMMA OopsTime ==
  ASSUME NEW H, NEW K, PInv, TimeParts(H, K), NEW c \in CPU,
         OopsAtInsert(c) \/ OopsAtTable(c) \/ \E t : OopsAtReturn(c, t)
  PROVE  TimeParts(H, K)'
  <1>1. /\ UNCHANGED <<probed, now, running, next, prev, curr, old, hash, tree,
                       used, unrecorded, raced>>
        /\ pc' = [pc EXCEPT ![c] = "oops"]
    BY DEF OopsAtInsert, OopsAtReturn, OopsAtTable, loading, sched, locals, ghosts
  <1>2. TypeOK
    BY DEF PInv
  <1>3. pc'[c] = "oops" /\ \A d \in CPU \ {c} : pc'[d] = pc[d]
    BY <1>1, <1>2, Domains
  <1>4. \A d \in CPU : Still(d)
    BY <1>1, <1>3 DEF Still, Switching
  <1>5. QED BY <1>1, <1>4, TimeSame

\* The sets of units are finite.
LEMMA UnitsFinite ==
  ASSUME NEW H, NEW K, PInv, UsedInv(H)
  PROVE  /\ \A p \in Task : /\ IsFiniteSet(H[p]) /\ Cardinality(H[p]) \in Nat
                            /\ H[p] \subseteq 1 .. now
         /\ \A p \in Task : K[p] \subseteq H[p] =>
              /\ IsFiniteSet(K[p]) /\ Cardinality(K[p]) \in Nat
              /\ Cardinality(K[p]) <= Cardinality(H[p])
  <1>1. now \in Int /\ 1 \in Int
    BY DEF PInv, TypeOK
  <1>2. IsFiniteSet(1 .. now)
    BY <1>1, FS_Interval
  <1>3. \A p \in Task : H[p] \subseteq 1 .. now
    BY DEF UsedInv
  <1>4. \A p \in Task : IsFiniteSet(H[p]) /\ Cardinality(H[p]) \in Nat
    BY <1>2, <1>3, FS_Subset, FS_CardinalityType
  <1>5. \A p \in Task : K[p] \subseteq H[p] =>
          /\ IsFiniteSet(K[p]) /\ Cardinality(K[p]) \in Nat
          /\ Cardinality(K[p]) <= Cardinality(H[p])
    BY <1>4, FS_Subset, FS_CardinalityType
  <1>6. QED BY <1>3, <1>4, <1>5

\* Every task that a CPU is on had the new unit.
LEMMA TickTime ==
  ASSUME NEW H, NEW K, PInv, TimeParts(H, K), Tick
  PROVE  \E G : TimeParts(G, K)'
  <1>1. /\ UNCHANGED <<probed, running, next, pc, prev, curr, old, hash, tree,
                       unrecorded, raced>>
        /\ now' = now + 1
        /\ used' = [p \in Task |->
                      IF \E c \in CPU : Owner(c) = p THEN used[p] + 1 ELSE used[p]]
    BY DEF Tick, loading, locals
  <1>2. now \in Nat /\ used \in [Task -> Nat] /\ TypeHash /\ TypeLocals /\ TableInv
        /\ \A c \in CPU : HandlerInv(c)
    BY PInvParts DEF PInv, TypeOK
  <1>3. /\ Exclusive /\ UsedInv(H) /\ TotalInv(H, K) /\ TurnInv /\ LeaveInv
        /\ SpanInv(H) /\ StartInv(K) /\ ChargeInv(H, K) /\ LookInv
    BY DEF TimeParts
  <1>4. PICK G : G = [p \in Task |-> IF \E c \in CPU : Owner(c) = p
                                     THEN H[p] \cup {now + 1} ELSE H[p]]
    OBVIOUS
  <1>5. Seen' = Seen /\ Seen \subseteq Task /\ Seen \subseteq Pid
    BY <1>1, Pointers DEF Seen
  <1>6. \A p \in Task : /\ H[p] \subseteq 1 .. now /\ IsFiniteSet(H[p])
                        /\ Cardinality(H[p]) = used[p] /\ used[p] \in Nat
    BY <1>2, <1>3, UnitsFinite DEF UsedInv
  <1>7. UsedInv(G)'
    <2>1. ASSUME NEW p \in Task
          PROVE  G[p] \subseteq 1 .. now + 1 /\ Cardinality(G[p]) = used'[p]
      <3>1. CASE \E c \in CPU : Owner(c) = p
        <4>1. G[p] = H[p] \cup {now + 1} /\ used'[p] = used[p] + 1
          BY <1>1, <1>4, <3>1
        <4>2. now + 1 \notin H[p] /\ G[p] \subseteq 1 .. now + 1
          BY <1>2, <1>6, <4>1
        <4>3. QED BY <1>6, <4>1, <4>2, FS_AddElement
      <3>2. CASE ~ \E c \in CPU : Owner(c) = p
        <4>1. G[p] = H[p] /\ used'[p] = used[p]
          BY <1>1, <1>4, <3>2
        <4>2. QED BY <1>2, <1>6, <4>1
      <3>3. QED BY <3>1, <3>2
    <2>2. G \in [Task -> SUBSET (1 .. now + 1)]
      BY <1>4, <2>1
    <2>3. QED BY <1>1, <2>1, <2>2 DEF UsedInv
  <1>8. \A p \in Task : /\ H[p] \subseteq G[p]
                        /\ \A c \in CPU : Owner(c) = p => now + 1 \in G[p]
    BY <1>4
  <1>9. TotalInv(G, K)'
    BY <1>1, <1>3, <1>5, <1>8 DEF TotalInv
  <1>10. Exclusive' /\ TurnInv' /\ LeaveInv'
    BY <1>1, <1>3 DEF Exclusive, TurnInv, LeaveInv, Leaving
  <1>11. StartInv(K)' /\ LookInv'
    BY <1>1, <1>3, <1>5 DEF StartInv, Charging, Charge, Coming, LookInv
  <1>12. ChargeInv(G, K)'
    BY <1>1, <1>3, <1>5, <1>8 DEF ChargeInv, Charging, Charge
  <1>13. SpanInv(G)'
    <2>1. SUFFICES ASSUME NEW p \in Seen, NEW c \in CPU
            PROVE
            /\ probed /\ hash[p] # 0 /\ Owner(c) = p =>
                 hash[p] + 1 .. now + 1 \subseteq G[p]
            /\ hash[p] # 0 /\ Leaving(c, p) => hash[p] + 1 .. curr[c] \subseteq G[p]
            /\ Coming(c, p) => curr[c] + 1 .. now + 1 \subseteq G[p]
      BY <1>1, <1>5 DEF SpanInv, Leaving, Coming, Owner
    <2>2. /\ probed /\ hash[p] # 0 /\ Owner(c) = p => hash[p] + 1 .. now \subseteq H[p]
          /\ hash[p] # 0 /\ Leaving(c, p) => hash[p] + 1 .. curr[c] \subseteq H[p]
          /\ Coming(c, p) => curr[c] + 1 .. now \subseteq H[p]
      BY <1>3 DEF SpanInv
    <2>3. hash[p] \in Nat /\ curr[c] \in Nat /\ p \in Task /\ p \in Pid
      BY <1>2, <1>5 DEF TypeHash, TypeLocals
    <2>4. Coming(c, p) => Owner(c) = p
      BY <2>3 DEF Coming, Owner
    <2>5. \A x \in Nat : Owner(c) = p /\ x + 1 .. now \subseteq H[p] =>
                           x + 1 .. now + 1 \subseteq G[p]
      <3>1. TAKE x \in Nat
      <3>2. \A k \in x + 1 .. now + 1 : k \in x + 1 .. now \/ k = now + 1
        BY <1>2
      <3>3. QED BY <1>8, <2>3, <3>2
    <2>6. QED BY <1>8, <2>2, <2>3, <2>4, <2>5
  <1>14. TimeParts(G, K)'
    BY <1>7, <1>9, <1>10, <1>11, <1>12, <1>13 DEF TimeParts
  <1>15. QED BY <1>14

\* The total of an empty tree.
LEMMA TotalEmpty ==
  ASSUME NEW p
  PROVE  Total({}, p) = 0
  BY DEF Total

LEMMA LoaderTime ==
  ASSUME NEW H, NEW K, PInv, TimeParts(H, K), Loader
  PROVE  TimeParts(H, K)'
  <1>1. UNCHANGED <<now, running, next, pc, prev, curr, old, used, unrecorded, raced>>
    BY LoaderKeeps DEF sched, locals, ghosts
  <1>2. LoadInv /\ TypeHash
    BY PInvParts
  <1>3. CASE ProcCreate \/ RegisterFails \/ RemoveProcEntry
    <2>1. UNCHANGED <<probed, hash, tree>>
      BY <1>3 DEF ProcCreate, RegisterFails, RemoveProcEntry
    <2>2. \A d \in CPU : Still(d)
      BY <1>1 DEF Still
    <2>3. QED BY <1>1, <2>1, <2>2, TimeSame
  <1>4. Seen' = Seen /\ Seen \subseteq Task
    BY <1>1 DEF Seen
  <1>5. Exclusive' /\ UsedInv(H)'
    BY <1>1 DEF TimeParts, Exclusive, UsedInv
  <1>6. CASE ~(ProcCreate \/ RegisterFails \/ RemoveProcEntry)
    <2>1. \A c \in CPU : pc'[c] \notin Switching
      <3>1. CASE RegisterKretprobe
        BY <1>1, <1>2, <3>1, Plans DEF RegisterKretprobe, Call, LoadInv, Fresh, Switching
      <3>2. CASE UnregisterKretprobe
        BY <1>1, <3>2 DEF UnregisterKretprobe, Switching
      <3>3. CASE RemoveHashTableAll \/ RemoveRbTreeAll
        BY <1>1, <1>2, <3>3, Plans
           DEF RemoveHashTableAll, RemoveRbTreeAll, Call, LoadInv, Switching
      <3>4. QED BY <1>6, <3>1, <3>2, <3>3 DEF Loader
    <2>2. ~probed' \/ \A p \in Task : hash'[p] = 0
      <3>1. CASE RegisterKretprobe
        BY <1>2, <3>1, Plans DEF RegisterKretprobe, Call, LoadInv, Fresh
      <3>2. CASE UnregisterKretprobe
        BY <3>2 DEF UnregisterKretprobe
      <3>3. CASE RemoveHashTableAll \/ RemoveRbTreeAll
        BY <1>2, <3>3, Plans DEF RemoveHashTableAll, RemoveRbTreeAll, Call, LoadInv
      <3>4. QED BY <1>6, <3>1, <3>2, <3>3 DEF Loader
    <2>3. \A p \in Task : hash'[p] = hash[p] \/ hash'[p] = 0
      <3>1. UNCHANGED hash \/ \E p \in Task : hash' = [hash EXCEPT ![p] = 0]
        BY DEF Loader, ProcCreate, RegisterKretprobe, RegisterFails, RemoveProcEntry,
               UnregisterKretprobe, RemoveHashTableAll, RemoveRbTreeAll, Call
      <3>2. QED BY <1>2, <3>1 DEF TypeHash
    <2>4. TurnInv'
      BY <2>2 DEF TurnInv
    <2>5. LeaveInv' /\ ChargeInv(H, K)' /\ LookInv'
      BY <2>1 DEF LeaveInv, Leaving, ChargeInv, Charging, LookInv, Switching
    <2>6. SpanInv(H)'
      BY <1>4, <2>1, <2>2 DEF SpanInv, Leaving, Coming
    <2>7. StartInv(K)'
      <3>1. StartInv(K)
        BY DEF TimeParts
      <3>2. QED BY <1>4, <2>1, <2>3, <3>1 DEF StartInv, Charging, Coming, Switching
    <2>8. TotalInv(H, K)'
      <3>1. UNCHANGED tree \/ tree' = {}
        BY <1>6 DEF Loader, RegisterKretprobe, UnregisterKretprobe,
                    RemoveHashTableAll, RemoveRbTreeAll
      <3>2. TotalInv(H, K) /\ UsedInv(H)
        BY DEF TimeParts
      <3>3. CASE UNCHANGED tree
        BY <1>4, <3>2, <3>3 DEF TotalInv
      <3>4. CASE tree' = {}
        <4>1. \A p \in Seen : K[p] \subseteq H[p] /\ Cardinality(K[p]) \in Nat
          BY <1>4, <3>2, UnitsFinite DEF TotalInv
        <4>2. \A p \in Seen : Total(tree', p) <= Cardinality(K[p])
          BY <3>4, <4>1, TotalEmpty
        <4>3. QED BY <1>4, <3>2, <4>1, <4>2 DEF TotalInv
      <3>5. QED BY <3>1, <3>3, <3>4
    <2>9. QED BY <1>5, <2>4, <2>5, <2>6, <2>7, <2>8 DEF TimeParts
  <1>7. QED BY <1>3, <1>6

LEMMA ReturnReadsClockTime ==
  ASSUME NEW H, NEW K, PInv, TimeParts(H, K), NEW c \in CPU, NEW t,
         ReturnReadsClock(c, t)
  PROVE  TimeParts(H, K)'
  <1>1. /\ UNCHANGED <<probed, now, running, prev, old, hash, tree, used, raced>>
        /\ next' = [next EXCEPT ![c] = t]
        /\ curr' = [curr EXCEPT ![c] = now]
        /\ pc' = [pc EXCEPT ![c] = "lookup"]
        /\ unrecorded' = unrecorded \cup Unseen(c, t)
        /\ probed /\ pc[c] = "pick" /\ t \in Picked(c) /\ t # Null
    BY DEF ReturnReadsClock, IsSwitch, loading
  <1>2. TypeOK /\ HandlerInv(c) /\ TableInv /\ now \in Nat
    BY DEF PInv, TypeOK
  <1>3. next[c] = Null /\ running[c] \in Task
    BY <1>1, <1>2 DEF HandlerInv
  <1>4. /\ pc'[c] = "lookup" /\ next'[c] = t /\ curr'[c] = now
        /\ \A d \in CPU \ {c} :
             pc'[d] = pc[d] /\ next'[d] = next[d] /\ curr'[d] = curr[d]
    BY <1>1, <1>2, Domains
  <1>5. /\ Exclusive /\ UsedInv(H) /\ TotalInv(H, K) /\ TurnInv /\ LeaveInv
        /\ SpanInv(H) /\ StartInv(K) /\ ChargeInv(H, K) /\ LookInv
    BY DEF TimeParts
  <1>6. /\ Seen' \subseteq Seen /\ Task \ unrecorded' \subseteq Task \ unrecorded
        /\ Seen \subseteq Task \ unrecorded /\ Seen \subseteq Pid
    BY <1>1, Pointers DEF Seen
  <1>7. t = running[c] \/ Pickable(t) \/ t = Retry
    BY <1>1, PickedOn
  <1>10. Exclusive'
    <2>1. \A u \in Pid : u \in {running'[c], next'[c]} =>
                           u \in {running[c], next[c]} \/ Pickable(u)
      BY <1>1, <1>4, <1>7, Pointers
    <2>2. \A d \in CPU \ {c} : running'[d] = running[d] /\ next'[d] = next[d]
      BY <1>1, <1>4
    <2>3. QED BY <1>5, <2>1, <2>2, ExclusiveMove
  <1>11. UsedInv(H)' /\ TotalInv(H, K)'
    BY <1>1, <1>5, <1>6 DEF UsedInv, TotalInv
  <1>12. TurnInv'
    BY <1>1, <1>3, <1>4, <1>5, <1>6, Pointers DEF TurnInv
  <1>13. LeaveInv'
    <2>1. ASSUME NEW p \in Task \ unrecorded', Leaving(c, p)' PROVE prev'[c] = p
      BY <1>1, <1>4, <2>1, Pointers DEF Leaving, Unseen
    <2>2. ASSUME NEW p \in Task \ unrecorded', NEW d \in CPU \ {c}, Leaving(d, p)'
          PROVE  prev'[d] = p /\ (pc'[d] \in {"account", "insert"} => hash'[p] = 0)
      BY <1>1, <1>4, <1>5, <1>6, <2>2 DEF Leaving, LeaveInv
    <2>3. QED BY <1>4, <2>1, <2>2 DEF LeaveInv
  <1>14. SpanInv(H)'
    <2>1. ASSUME NEW p \in Seen', NEW d \in CPU, d # c
          PROVE  /\ hash[p] # 0 /\ Owner(d)' = p => hash[p] + 1 .. now \subseteq H[p]
                 /\ hash[p] # 0 /\ Leaving(d, p)' => hash[p] + 1 .. curr'[d] \subseteq H[p]
                 /\ Coming(d, p)' => curr'[d] + 1 .. now \subseteq H[p]
      BY <1>1, <1>4, <1>5, <1>6, <2>1 DEF SpanInv, Owner, Leaving, Coming
    <2>2. ASSUME NEW p \in Seen'
          PROVE  /\ hash[p] # 0 /\ Owner(c)' = p => hash[p] + 1 .. now \subseteq H[p]
                 /\ hash[p] # 0 /\ Leaving(c, p)' => hash[p] + 1 .. curr'[c] \subseteq H[p]
                 /\ Coming(c, p)' => curr'[c] + 1 .. now \subseteq H[p]
      <3>1. hash[p] # 0 /\ p = running[c] => hash[p] + 1 .. now \subseteq H[p]
        <4>1. Owner(c) = running[c]
          BY <1>3, Pointers DEF Owner
        <4>2. QED BY <1>1, <1>5, <1>6, <4>1 DEF SpanInv
      <3>2. hash[p] # 0 /\ Owner(c)' = p => p = running[c]
        <4>1. hash[p] # 0 => ~Pickable(p)
          BY <1>1, <1>5, <1>6 DEF TurnInv, Pickable
        <4>2. Owner(c)' \in {t, running[c]} /\ Owner(c)' # Retry
          BY <1>1, <1>3, <1>4, Pointers DEF Owner
        <4>3. QED BY <1>7, <4>1, <4>2
      <3>3. Leaving(c, p)' => p = running[c]
        BY <1>1 DEF Leaving
      <3>4. now + 1 .. now = {}
        BY <1>2
      <3>5. QED BY <1>4, <3>1, <3>2, <3>3, <3>4
    <2>3. QED BY <1>1, <2>1, <2>2 DEF SpanInv
  <1>15. StartInv(K)'
    <2>1. SUFFICES ASSUME NEW p \in Seen', NEW k \in Nat,
                     k \in K[p] \/ \E d \in CPU : Charging(d, p)' /\ k \in Charge(d)'
                   PROVE  /\ hash[p] # 0 => k <= hash[p]
                          /\ \A d \in CPU : Coming(d, p)' => k <= curr'[d]
      BY <1>1 DEF StartInv
    <2>2. k \in K[p] \/ \E d \in CPU : Charging(d, p) /\ k \in Charge(d)
      BY <1>1, <1>4, <2>1 DEF Charging, Charge
    <2>3. /\ hash[p] # 0 => k <= hash[p]
          /\ \A d \in CPU : Coming(d, p) => k <= curr[d]
      BY <1>5, <1>6, <2>2 DEF StartInv
    <2>4. k <= now
      <3>1. k \in H[p]
        BY <1>5, <1>6, <2>2 DEF TotalInv, ChargeInv
      <3>2. H[p] \subseteq 1 .. now
        BY <1>5, <1>6 DEF UsedInv
      <3>3. QED BY <1>2, <3>1, <3>2
    <2>5. ASSUME NEW d \in CPU, Coming(d, p)' PROVE k <= curr'[d]
      <3>1. CASE d = c
        BY <1>4, <2>4, <3>1
      <3>2. CASE d # c
        BY <1>1, <1>4, <2>3, <2>5, <3>2 DEF Coming
      <3>3. QED BY <3>1, <3>2
    <2>6. QED BY <2>3, <2>5
  <1>16. ChargeInv(H, K)'
    BY <1>1, <1>4, <1>5, <1>6 DEF ChargeInv, Charging, Charge
  <1>17. LookInv'
    <2>1. \A p \in Seen' : hash[p] <= now
      BY <1>2, <1>6 DEF TableInv
    <2>2. QED BY <1>1, <1>4, <1>5, <1>6, <2>1 DEF LookInv
  <1>18. QED
    BY <1>10, <1>11, <1>12, <1>13, <1>14, <1>15, <1>16, <1>17 DEF TimeParts

LEMMA LookupStartTime ==
  ASSUME NEW H, NEW K, PInv, TimeParts(H, K), NEW c \in CPU, LookupStart(c)
  PROVE  TimeParts(H, K)'
  <1>1. /\ UNCHANGED <<probed, now, running, next, prev, curr, hash, tree, used,
                       unrecorded, raced>>
        /\ pc[c] = "lookup" /\ old' = [old EXCEPT ![c] = hash[prev[c]]]
        /\ pc' = [pc EXCEPT ![c] = IF old'[c] # 0 THEN "remove" ELSE "insert"]
    BY DEF LookupStart, lookup_hash_table, loading, sched, ghosts
  <1>2. TypeOK
    BY DEF PInv
  <1>3. /\ old'[c] = hash[prev[c]]
        /\ pc'[c] = IF hash[prev[c]] # 0 THEN "remove" ELSE "insert"
        /\ \A d \in CPU \ {c} : pc'[d] = pc[d] /\ old'[d] = old[d]
    BY <1>1, <1>2, Domains
  <1>4. /\ Exclusive /\ UsedInv(H) /\ TotalInv(H, K) /\ TurnInv /\ LeaveInv
        /\ SpanInv(H) /\ StartInv(K) /\ ChargeInv(H, K) /\ LookInv
    BY DEF TimeParts
  <1>5. Seen' = Seen /\ \A d \in CPU : Owner(d)' = Owner(d)
    BY <1>1 DEF Seen, Owner
  <1>6. Exclusive' /\ UsedInv(H)' /\ TotalInv(H, K)' /\ TurnInv'
    BY <1>1, <1>4, <1>5 DEF Exclusive, UsedInv, TotalInv, TurnInv
  <1>7. \A d \in CPU : pc'[d] \in Switching <=> pc[d] \in Switching
    BY <1>1, <1>3 DEF Switching
  <1>8. LeaveInv'
    BY <1>1, <1>3, <1>4, <1>7 DEF LeaveInv, Leaving
  <1>9. SpanInv(H)'
    BY <1>1, <1>4, <1>5, <1>7 DEF SpanInv, Leaving, Coming, Owner
  <1>10. StartInv(K)'
    BY <1>1, <1>3, <1>4, <1>5, <1>7 DEF StartInv, Charging, Charge, Coming
  <1>11. ChargeInv(H, K)'
    BY <1>1, <1>3, <1>4, <1>5 DEF ChargeInv, Charging, Charge
  <1>12. LookInv'
    BY <1>1, <1>3, <1>4, <1>5 DEF LookInv
  <1>13. QED BY <1>6, <1>8, <1>9, <1>10, <1>11, <1>12 DEF TimeParts

\* What is taken out of the table was the whole of a turn, or a part of one that
\* is not over: it is charged to the task that had it.
LEMMA RemoveStartTime ==
  ASSUME NEW H, NEW K, PInv, TimeParts(H, K), NEW c \in CPU, RemoveStart(c),
         \A d \in CPU : pc[d] # "oops"
  PROVE  TimeParts(H, K)'
  <1>1. /\ UNCHANGED <<probed, now, running, next, prev, curr, old, tree, used, unrecorded>>
        /\ pc[c] = "remove" /\ hash' = [hash EXCEPT ![prev[c]] = 0]
        /\ pc' = [pc EXCEPT ![c] = "account"]
        /\ Races(c, prev[c])
    BY DEF RemoveStart, loading, sched, locals
  <1>2. TypeOK /\ LoadInv /\ \A d \in CPU : HandlerInv(d)
    BY DEF PInv
  <1>3. /\ hash \in [Task -> 0 .. MaxTime] /\ now \in Nat
        /\ \A d \in CPU : curr[d] \in Nat /\ old[d] \in Nat
    BY <1>2 DEF TypeOK
  <1>4. PICK p \in Task : p = prev[c]
    BY <1>1, <1>2 DEF HandlerInv, Switching
  <1>5. probed /\ next[c] # p /\ curr[c] <= now
    <2>1. probed
      BY <1>1, <1>2, BusyProbed
    <2>2. QED BY <1>1, <1>2, <1>4, <2>1 DEF HandlerInv, Switching
  <1>6. /\ pc'[c] = "account" /\ hash'[p] = 0
        /\ \A d \in CPU \ {c} : pc'[d] = pc[d]
        /\ \A q \in Task \ {p} : hash'[q] = hash[q]
    BY <1>1, <1>2, <1>3, <1>4, Domains
  <1>7. /\ Exclusive /\ UsedInv(H) /\ TotalInv(H, K) /\ TurnInv /\ LeaveInv
        /\ SpanInv(H) /\ StartInv(K) /\ ChargeInv(H, K) /\ LookInv
    BY DEF TimeParts
  <1>8. /\ Seen' \subseteq Seen /\ Seen \subseteq Task \ unrecorded /\ Seen \subseteq Pid
    BY <1>1, Pointers DEF Seen, Races
  <1>9. \A d \in CPU : pc'[d] \in Switching <=> pc[d] \in Switching
    BY <1>1, <1>6 DEF Switching
  <1>10. p \in Seen' => \A d \in CPU \ {c} :
           /\ pc[d] \in {"lookup", "remove"} => prev[d] # p
           /\ pc[d] \in Switching => next[d] # p
    BY <1>1, <1>4 DEF Seen, Races, ToTouch
  <1>11. Exclusive' /\ UsedInv(H)' /\ TotalInv(H, K)'
    BY <1>1, <1>7, <1>8 DEF Exclusive, UsedInv, TotalInv
  <1>12. TurnInv'
    BY <1>1, <1>6, <1>7 DEF TurnInv
  <1>13. LeaveInv'
    BY <1>1, <1>4, <1>6, <1>7, <1>9 DEF LeaveInv, Leaving
  <1>14. SpanInv(H)'
    BY <1>1, <1>6, <1>7, <1>8, <1>9 DEF SpanInv, Leaving, Coming, Owner
  <1>16. StartInv(K)'
    <2>1. ASSUME NEW q \in Seen', q # p, NEW k \in Nat,
                 k \in K[q] \/ \E d \in CPU : Charging(d, q)' /\ k \in Charge(d)'
          PROVE  /\ hash'[q] # 0 => k <= hash'[q]
                 /\ \A d \in CPU : Coming(d, q)' => k <= curr'[d]
      <3>1. q \in Seen /\ q \in Task
        BY <1>8, <2>1
      <3>2. k \in K[q] \/ \E d \in CPU : Charging(d, q) /\ k \in Charge(d)
        BY <1>1, <1>4, <1>6, <2>1 DEF Charging, Charge
      <3>3. /\ hash[q] # 0 => k <= hash[q]
            /\ \A d \in CPU : Coming(d, q) => k <= curr[d]
        BY <1>7, <3>1, <3>2 DEF StartInv
      <3>4. QED BY <1>1, <1>6, <1>9, <2>1, <3>1, <3>3 DEF Coming
    <2>2. p \in Seen' => hash'[p] = 0 /\ \A d \in CPU : ~Coming(d, p)'
      BY <1>1, <1>5, <1>6, <1>9, <1>10 DEF Coming
    <2>3. QED BY <2>1, <2>2 DEF StartInv
  <1>17. p \in Seen' => /\ old[c] = hash[p] /\ old[c] # 0 /\ old[c] <= curr[c]
                        /\ Charge(c) \subseteq H[p]
    <2>1. SUFFICES ASSUME p \in Seen'
                   PROVE  /\ old[c] = hash[p] /\ old[c] # 0 /\ old[c] <= curr[c]
                          /\ Charge(c) \subseteq H[p]
      OBVIOUS
    <2>2. p \in Seen /\ p \in Task \ unrecorded
      BY <1>8, <2>1
    <2>3. old[c] = hash[p] /\ old[c] # 0 /\ old[c] <= curr[c]
      BY <1>1, <1>4, <1>7, <2>2 DEF LookInv
    <2>4. PICK e \in CPU : p \in {running[e], next[e]}
      BY <1>5, <1>7, <2>2, <2>3 DEF TurnInv
    <2>5. next[e] = Null \/ pc[e] \in Switching
      BY <1>2 DEF HandlerInv, TypeOK
    <2>6. next[e] # p
      BY <1>5, <1>10, <2>1, <2>5, Pointers
    <2>7. running[e] = p
      BY <2>4, <2>6
    <2>8. CASE next[e] \in Pid
      <3>1. Leaving(e, p)
        BY <2>5, <2>6, <2>7, <2>8, Pointers DEF Leaving
      <3>2. prev[e] = p /\ (pc[e] \in {"account", "insert"} => hash[p] = 0)
        BY <1>7, <2>2, <3>1 DEF LeaveInv
      <3>3. e = c
        BY <1>10, <2>1, <2>3, <3>1, <3>2 DEF Leaving, Switching
      <3>4. hash[p] + 1 .. curr[c] \subseteq H[p]
        BY <1>7, <2>2, <2>3, <3>1, <3>3 DEF SpanInv
      <3>5. QED BY <2>3, <3>4 DEF Charge
    <2>9. CASE next[e] \notin Pid
      <3>1. Owner(e) = p
        BY <2>7, <2>9 DEF Owner
      <3>2. hash[p] + 1 .. now \subseteq H[p]
        BY <1>5, <1>7, <2>2, <2>3, <3>1 DEF SpanInv
      <3>3. hash[p] + 1 .. curr[c] \subseteq hash[p] + 1 .. now
        BY <1>3, <1>5
      <3>4. QED BY <2>3, <3>2, <3>3 DEF Charge
    <2>10. QED BY <2>3, <2>8, <2>9
  <1>18. p \in Seen' => \A k \in Charge(c) :
           k \notin K[p] /\ \A d \in CPU : ~(Charging(d, p) /\ k \in Charge(d))
    <2>1. SUFFICES ASSUME p \in Seen', NEW k \in Charge(c),
                     k \in K[p] \/ \E d \in CPU : Charging(d, p) /\ k \in Charge(d)
                   PROVE  FALSE
      OBVIOUS
    <2>2. k \in Nat /\ k > old[c] /\ p \in Seen
      BY <1>3, <1>8, <2>1 DEF Charge
    <2>3. k <= hash[p]
      BY <1>7, <1>17, <2>1, <2>2 DEF StartInv
    <2>4. QED BY <1>3, <1>17, <2>1, <2>2, <2>3
  <1>19. ChargeInv(H, K)'
    <2>1. ASSUME NEW q \in Seen', q # p, NEW d \in CPU, Charging(d, q)'
          PROVE  /\ old'[d] <= curr'[d]
                 /\ Charge(d)' \subseteq H[q] \ K[q]
                 /\ \A e \in CPU \ {d} :
                      Charging(e, q)' => Charge(d)' \cap Charge(e)' = {}
      BY <1>1, <1>4, <1>6, <1>7, <1>8, <2>1 DEF ChargeInv, Charging, Charge
    <2>2. ASSUME p \in Seen', NEW d \in CPU, Charging(d, p)'
          PROVE  /\ old'[d] <= curr'[d]
                 /\ Charge(d)' \subseteq H[p] \ K[p]
                 /\ \A e \in CPU \ {d} :
                      Charging(e, p)' => Charge(d)' \cap Charge(e)' = {}
      <3>1. p \in Seen /\ \A e \in CPU : Charge(e)' = Charge(e)
        BY <1>1, <1>8, <2>2 DEF Charge
      <3>2. \A e \in CPU \ {c} : Charging(e, p)' => Charging(e, p)
        BY <1>1, <1>6 DEF Charging
      <3>3. CASE d = c
        BY <1>1, <1>17, <1>18, <2>2, <3>1, <3>2, <3>3
      <3>4. CASE d # c
        <4>1. Charging(d, p)
          BY <2>2, <3>2, <3>4
        <4>2. /\ old[d] <= curr[d] /\ Charge(d) \subseteq H[p] \ K[p]
              /\ \A e \in CPU \ {d} : Charging(e, p) => Charge(d) \cap Charge(e) = {}
          BY <1>7, <3>1, <4>1 DEF ChargeInv
        <4>3. Charge(d) \cap Charge(c) = {}
          BY <1>18, <2>2, <4>1
        <4>4. QED BY <1>1, <3>1, <3>2, <4>2, <4>3
      <3>5. QED BY <3>3, <3>4
    <2>3. QED BY <2>1, <2>2 DEF ChargeInv
  <1>20. LookInv'
    BY <1>1, <1>4, <1>6, <1>7, <1>8, <1>10 DEF LookInv
  <1>21. QED BY <1>11, <1>12, <1>13, <1>14, <1>16, <1>19, <1>20 DEF TimeParts

\* The total of p becomes x, or is lost to a tie; the others stay.
LEMMA TotalInsert ==
  ASSUME TreeInv, NEW p, NEW x, NEW T, T = Insert(Without(tree, p), p, x)
  PROVE  /\ Total(T, p) \in {x, 0}
         /\ \A q : q # p => Total(T, q) = Total(tree, q)
  <1>1. \A e \in Without(tree, p) : e \in tree /\ e.pid # p
    BY DEF Without
  <1>2. \A e \in tree : e.pid # p => e \in Without(tree, p)
    BY DEF Without
  <1>3. T = Without(tree, p) \/ T = Without(tree, p) \cup {[pid |-> p, tsc |-> x]}
    BY DEF Insert
  <1>4. \A e \in T : e.pid = p => e.tsc = x
    BY <1>1, <1>3
  <1>5. Total(T, p) \in {x, 0}
    <2>1. CASE \E e \in T : e.pid = p
      <3>1. /\ (CHOOSE e \in T : e.pid = p) \in T
            /\ (CHOOSE e \in T : e.pid = p).pid = p
        BY <2>1
      <3>2. QED BY <1>4, <2>1, <3>1 DEF Total
    <2>2. CASE ~ \E e \in T : e.pid = p
      BY <2>2 DEF Total
    <2>3. QED BY <2>1, <2>2
  <1>6. ASSUME NEW q, q # p PROVE Total(T, q) = Total(tree, q)
    <2>1. \A e \in T : e.pid = q => e \in tree
      BY <1>1, <1>3, <1>6
    <2>2. \A e \in tree : e.pid = q => e \in T
      BY <1>2, <1>3, <1>6
    <2>3. CASE \E e \in T : e.pid = q
      <3>1. \E e \in tree : e.pid = q
        BY <2>1, <2>3
      <3>2. PICK e1 : e1 = CHOOSE e \in T : e.pid = q
        OBVIOUS
      <3>3. PICK e2 : e2 = CHOOSE e \in tree : e.pid = q
        OBVIOUS
      <3>4. e1 \in T /\ e1.pid = q
        BY <2>3, <3>2
      <3>5. e2 \in tree /\ e2.pid = q
        BY <3>1, <3>3
      <3>6. e1 = e2
        BY <2>1, <3>4, <3>5 DEF TreeInv
      <3>7. Total(T, q) = e1.tsc
        BY <2>3, <3>2 DEF Total
      <3>8. Total(tree, q) = e2.tsc
        BY <3>1, <3>3 DEF Total
      <3>9. QED BY <3>6, <3>7, <3>8
    <2>4. CASE ~ \E e \in T : e.pid = q
      <3>1. ~ \E e \in tree : e.pid = q
        BY <2>2, <2>4
      <3>2. QED BY <2>4, <3>1 DEF Total
    <2>5. QED BY <2>3, <2>4
  <1>7. QED BY <1>5, <1>6

\* A word that does not wrap.
LEMMA ModSmall ==
  ASSUME NEW x \in Nat, x < Word
  PROVE  x % Word = x
  <1>1. Word \in Nat /\ Word > 0
    BY WordAssumption, BoundAssumption
  <1>2. QED BY <1>1

LEMMA AccountTime ==
  ASSUME NEW H, NEW K, PInv, TreeInv, TimeParts(H, K), NEW c \in CPU, Account(c)
  PROVE  \E L : TimeParts(H, L)'
  <1>1. /\ UNCHANGED <<probed, now, running, next, prev, curr, old, hash, used,
                       unrecorded, raced>>
        /\ pc[c] = "account" /\ pc' = [pc EXCEPT ![c] = "insert"]
        /\ tree' = Insert(Without(tree, prev[c]), prev[c],
                          (Total(tree, prev[c]) + curr[c] - old[c]) % Word)
    BY DEF Account, AddTotal, loading, sched, locals
  <1>2. TypeOK /\ TypeTree /\ HandlerInv(c)
    BY PInvParts DEF PInv
  <1>3. /\ now \in 1 .. MaxTime /\ MaxTime \in Nat
        /\ \A d \in CPU : curr[d] \in Nat /\ old[d] \in Nat
    BY <1>2, BoundAssumption DEF TypeOK
  <1>4. PICK p \in Task : p = prev[c]
    BY <1>1, <1>2 DEF HandlerInv, Switching
  <1>5. pc'[c] = "insert" /\ \A d \in CPU \ {c} : pc'[d] = pc[d]
    BY <1>1, <1>2, Domains
  <1>6. /\ Exclusive /\ UsedInv(H) /\ TotalInv(H, K) /\ TurnInv /\ LeaveInv
        /\ SpanInv(H) /\ StartInv(K) /\ ChargeInv(H, K) /\ LookInv
    BY DEF TimeParts
  <1>7. Seen' = Seen /\ Seen \subseteq Task
    BY <1>1 DEF Seen
  <1>8. \A d \in CPU : pc'[d] \in Switching <=> pc[d] \in Switching
    BY <1>1, <1>5 DEF Switching
  <1>9. PICK L : L = [K EXCEPT ![p] = K[p] \cup Charge(c)]
    OBVIOUS
  <1>10. Charging(c, p) /\ Charge(c) \subseteq Nat
    BY <1>1, <1>3, <1>4 DEF Charging, Charge
  <1>11. /\ L \in [Task -> SUBSET Nat] /\ L[p] = K[p] \cup Charge(c)
         /\ \A q \in Task \ {p} : L[q] = K[q]
    BY <1>6, <1>9, <1>10 DEF TotalInv
  <1>12. Exclusive' /\ UsedInv(H)' /\ TurnInv' /\ LeaveInv' /\ LookInv'
    <2>1. Exclusive' /\ UsedInv(H)' /\ TurnInv'
      BY <1>1, <1>6 DEF Exclusive, UsedInv, TurnInv
    <2>2. LeaveInv'
      BY <1>1, <1>5, <1>6, <1>8 DEF LeaveInv, Leaving
    <2>3. LookInv'
      BY <1>1, <1>5, <1>6, <1>7 DEF LookInv
    <2>4. QED BY <2>1, <2>2, <2>3
  <1>13. SpanInv(H)'
    BY <1>1, <1>6, <1>7, <1>8 DEF SpanInv, Leaving, Coming, Owner
  <1>14. StartInv(L)'
    <2>1. SUFFICES ASSUME NEW q \in Seen, NEW k \in Nat,
                     k \in L[q] \/ \E d \in CPU : Charging(d, q)' /\ k \in Charge(d)'
                   PROVE  /\ hash[q] # 0 => k <= hash[q]
                          /\ \A d \in CPU : Coming(d, q)' => k <= curr[d]
      BY <1>1, <1>7 DEF StartInv
    <2>2. k \in K[q] \/ \E d \in CPU : Charging(d, q) /\ k \in Charge(d)
      <3>1. CASE k \in L[q]
        BY <1>7, <1>10, <1>11, <3>1
      <3>2. CASE \E d \in CPU : Charging(d, q)' /\ k \in Charge(d)'
        BY <1>1, <1>5, <3>2 DEF Charging, Charge
      <3>3. QED BY <2>1, <3>1, <3>2
    <2>3. /\ hash[q] # 0 => k <= hash[q]
          /\ \A d \in CPU : Coming(d, q) => k <= curr[d]
      BY <1>6, <2>2 DEF StartInv
    <2>4. QED BY <1>1, <1>8, <2>3 DEF Coming
  <1>15. ChargeInv(H, L)'
    <2>1. SUFFICES ASSUME NEW q \in Seen, NEW d \in CPU, Charging(d, q)'
                   PROVE  /\ old[d] <= curr[d]
                          /\ Charge(d) \subseteq H[q] \ L[q]
                          /\ \A e \in CPU \ {d} :
                               Charging(e, q)' => Charge(d) \cap Charge(e) = {}
      BY <1>1, <1>7 DEF ChargeInv, Charge
    <2>2. d # c /\ \A e \in CPU : Charging(e, q)' => Charging(e, q)
      BY <1>1, <1>5, <2>1 DEF Charging
    <2>3. /\ old[d] <= curr[d] /\ Charge(d) \subseteq H[q] \ K[q]
          /\ \A e \in CPU \ {d} : Charging(e, q) => Charge(d) \cap Charge(e) = {}
      BY <1>6, <2>1, <2>2 DEF ChargeInv
    <2>4. Charge(d) \subseteq H[q] \ L[q]
      <3>1. CASE q = p
        BY <1>10, <1>11, <2>2, <2>3, <3>1
      <3>2. CASE q # p
        BY <1>7, <1>11, <2>3, <3>2
      <3>3. QED BY <3>1, <3>2
    <2>5. QED BY <2>2, <2>3, <2>4
  <1>16. TotalInv(H, L)'
    <2>1. PICK x : x = (Total(tree, p) + curr[c] - old[c]) % Word
      OBVIOUS
    <2>2. tree' = Insert(Without(tree, p), p, x)
      BY <1>1, <1>4, <2>1
    <2>3. /\ Total(tree', p) \in {x, 0}
          /\ \A q : q # p => Total(tree', q) = Total(tree, q)
      BY <2>2, TotalInsert
    <2>4. ASSUME p \in Seen
          PROVE  L[p] \subseteq H[p] /\ Total(tree', p) <= Cardinality(L[p])
      <3>1. /\ old[c] <= curr[c] /\ Charge(c) \subseteq H[p] \ K[p]
            /\ K[p] \subseteq H[p] /\ Total(tree, p) <= Cardinality(K[p])
        BY <1>6, <1>10, <2>4 DEF ChargeInv, TotalInv
      <3>2. L[p] \subseteq H[p] /\ K[p] \cap Charge(c) = {}
        BY <1>11, <3>1
      <3>3. /\ IsFiniteSet(K[p]) /\ Cardinality(K[p]) \in Nat
            /\ IsFiniteSet(H[p]) /\ H[p] \subseteq 1 .. now
        BY <1>6, <3>1, UnitsFinite
      <3>4. IsFiniteSet(Charge(c)) /\ Cardinality(Charge(c)) = curr[c] - old[c]
        <4>1. old[c] + 1 \in Int /\ curr[c] \in Int
          BY <1>3
        <4>2. /\ IsFiniteSet(old[c] + 1 .. curr[c])
              /\ Cardinality(old[c] + 1 .. curr[c]) =
                   IF old[c] + 1 > curr[c] THEN 0 ELSE curr[c] - (old[c] + 1) + 1
          BY <4>1, FS_Interval
        <4>3. QED BY <1>3, <3>1, <4>2 DEF Charge
      <3>5. Cardinality(L[p]) = Cardinality(K[p]) + (curr[c] - old[c])
        <4>1. Cardinality(K[p] \cup Charge(c)) =
                Cardinality(K[p]) + Cardinality(Charge(c))
                  - Cardinality(K[p] \cap Charge(c))
          BY <3>3, <3>4, FS_Union
        <4>2. Cardinality(K[p] \cap Charge(c)) = 0
          BY <3>2, FS_EmptySet
        <4>3. QED BY <1>3, <1>11, <3>3, <3>4, <4>1, <4>2
      <3>6. Cardinality(L[p]) \in Nat /\ Cardinality(L[p]) <= now
        <4>1. IsFiniteSet(1 .. now) /\ Cardinality(1 .. now) = now
          BY <1>3, FS_Interval
        <4>2. L[p] \subseteq 1 .. now
          BY <3>2, <3>3
        <4>3. Cardinality(L[p]) <= Cardinality(1 .. now)
          BY <4>1, <4>2, FS_Subset
        <4>4. Cardinality(L[p]) \in Nat
          BY <1>3, <3>1, <3>3, <3>5
        <4>5. QED BY <4>1, <4>3, <4>4
      <3>7. x <= Cardinality(L[p])
        <4> DEFINE y == Total(tree, p) + curr[c] - old[c]
        <4>1. Total(tree, p) \in Nat
          BY <1>2, TotalNat
        <4>2. y \in Nat /\ y <= Cardinality(L[p])
          BY <1>3, <3>1, <3>3, <3>5, <4>1
        <4>3. y < Word
          <5> HIDE DEF y
          <5>1. QED BY <1>3, <3>6, <4>2, WordAssumption
        <4> HIDE DEF y
        <4>4. y % Word = y
          BY <4>2, <4>3, ModSmall
        <4>5. x = y % Word
          BY <2>1 DEF y
        <4>6. QED BY <4>2, <4>4, <4>5
      <3>8. QED BY <2>3, <3>2, <3>6, <3>7
    <2>5. ASSUME NEW q \in Seen, q # p
          PROVE  L[q] \subseteq H[q] /\ Total(tree', q) <= Cardinality(L[q])
      BY <1>6, <1>7, <1>11, <2>3, <2>5 DEF TotalInv
    <2>6. QED BY <1>7, <1>11, <2>4, <2>5 DEF TotalInv
  <1>17. TimeParts(H, L)'
    BY <1>12, <1>13, <1>14, <1>15, <1>16 DEF TimeParts
  <1>18. QED BY <1>17

\* The next task's turn begins: what it has had since the handler's rdtsc is all
\* after its start time, and everything charged to it was before.
LEMMA InsertStartTime ==
  ASSUME NEW H, NEW K, PInv, TimeParts(H, K), NEW c \in CPU, InsertStart(c)
  PROVE  TimeParts(H, K)'
  <1>1. /\ UNCHANGED <<probed, now, tree, used, unrecorded>>
        /\ pc[c] = "insert" /\ next[c] # Retry
        /\ hash' = [p \in Task |-> IF p = next[c] THEN curr[c] ELSE hash[p]]
        /\ Done(c, next[c]) /\ Races(c, next[c])
    BY DEF InsertStart, loading
  <1>2. TypeOK /\ HandlerInv(c)
    BY DEF PInv
  <1>3. PICK n \in Pid : n = next[c]
    BY <1>1, <1>2 DEF HandlerInv, Switching
  <1>4. /\ running'[c] = n /\ next'[c] = Null /\ pc'[c] = "run"
        /\ \A d \in CPU \ {c} :
             /\ pc'[d] = pc[d] /\ next'[d] = next[d] /\ running'[d] = running[d]
             /\ prev'[d] = prev[d] /\ old'[d] = old[d] /\ curr'[d] = curr[d]
    BY <1>1, <1>2, <1>3, DoneAt
  <1>5. /\ Exclusive /\ UsedInv(H) /\ TotalInv(H, K) /\ TurnInv /\ LeaveInv
        /\ SpanInv(H) /\ StartInv(K) /\ ChargeInv(H, K) /\ LookInv
    BY DEF TimeParts
  <1>6. Seen' \subseteq Seen /\ Seen \subseteq Task \ unrecorded /\ Task \subseteq Pid
    BY <1>1, Pointers DEF Seen, Races
  <1>7. \A q \in Task : /\ q = n => hash'[q] = curr[c]
                        /\ q # n => hash'[q] = hash[q]
    BY <1>1, <1>3
  <1>8. \A d \in CPU \ {c} : n \notin {running[d], next[d]}
    BY <1>3, <1>5 DEF Exclusive
  <1>9. \A q \in Seen' : q = n => \A d \in CPU \ {c} :
          pc[d] \in {"lookup", "remove"} => prev[d] # q
    BY <1>1, <1>3 DEF Seen, Races, ToTouch
  <1>10. Exclusive'
    <2>1. \A u \in Pid : u \in {running'[c], next'[c]} =>
                           u \in {running[c], next[c]} \/ Pickable(u)
      BY <1>3, <1>4, Pointers
    <2>2. QED BY <1>4, <1>5, <2>1, ExclusiveMove
  <1>11. UsedInv(H)' /\ TotalInv(H, K)'
    BY <1>1, <1>5, <1>6 DEF UsedInv, TotalInv
  <1>12. TurnInv'
    <2>1. SUFFICES ASSUME probed, NEW p \in Task \ unrecorded, hash'[p] # 0
                   PROVE  \E d \in CPU : p \in {running'[d], next'[d]}
      BY <1>1 DEF TurnInv
    <2>2. CASE p = n
      BY <1>4, <2>2
    <2>3. CASE p # n
      <3>1. PICK d \in CPU : p \in {running[d], next[d]}
        BY <1>5, <1>7, <2>1, <2>3 DEF TurnInv
      <3>2. CASE d # c
        BY <1>4, <3>1, <3>2
      <3>3. CASE d = c
        <4>1. Leaving(c, p)
          BY <1>1, <1>3, <2>3, <3>1, <3>3 DEF Leaving, Switching
        <4>2. hash[p] = 0
          BY <1>1, <1>5, <2>1, <4>1 DEF LeaveInv
        <4>3. QED BY <1>7, <2>1, <2>3, <4>2
      <3>4. QED BY <3>2, <3>3
    <2>4. QED BY <2>2, <2>3
  <1>13. LeaveInv'
    <2>1. SUFFICES ASSUME NEW p \in Task \ unrecorded, NEW d \in CPU, Leaving(d, p)'
                   PROVE  prev'[d] = p /\ (pc'[d] \in {"account", "insert"} => hash'[p] = 0)
      BY <1>1 DEF LeaveInv
    <2>2. d # c
      BY <1>4, <2>1 DEF Leaving, Switching
    <2>3. Leaving(d, p) /\ p # n
      BY <1>4, <1>8, <2>1, <2>2 DEF Leaving
    <2>4. prev[d] = p /\ (pc[d] \in {"account", "insert"} => hash[p] = 0)
      BY <1>5, <2>1, <2>3 DEF LeaveInv
    <2>5. QED BY <1>4, <1>7, <2>1, <2>2, <2>3, <2>4
  <1>14. SpanInv(H)'
    <2>1. ASSUME NEW p \in Seen', NEW d \in CPU, p # n
          PROVE  /\ probed /\ hash'[p] # 0 /\ Owner(d)' = p =>
                      hash'[p] + 1 .. now \subseteq H[p]
                 /\ hash'[p] # 0 /\ Leaving(d, p)' =>
                      hash'[p] + 1 .. curr'[d] \subseteq H[p]
                 /\ Coming(d, p)' => curr'[d] + 1 .. now \subseteq H[p]
      <3>1. hash'[p] = hash[p] /\ p \in Seen
        BY <1>6, <1>7, <2>1
      <3>2. CASE d = c
        <4>1. Owner(c)' = n
          BY <1>4, Pointers DEF Owner
        <4>2. pc'[c] \notin Switching
          BY <1>4 DEF Switching
        <4>3. QED BY <2>1, <3>2, <4>1, <4>2 DEF Leaving, Coming
      <3>3. CASE d # c
        BY <1>4, <1>5, <3>1, <3>3 DEF SpanInv, Owner, Leaving, Coming
      <3>4. QED BY <3>2, <3>3
    <2>2. ASSUME NEW p \in Seen', p = n, NEW d \in CPU
          PROVE  /\ hash'[p] + 1 .. now \subseteq H[p]
                 /\ ~Leaving(d, p)' /\ ~Coming(d, p)'
      <3>1. Coming(c, p) /\ p \in Seen
        BY <1>1, <1>3, <1>6, <2>2 DEF Coming, Switching
      <3>2. hash'[p] = curr[c]
        BY <1>6, <1>7, <2>2
      <3>3. hash'[p] + 1 .. now \subseteq H[p]
        BY <1>5, <3>1, <3>2 DEF SpanInv
      <3>4. ~Leaving(d, p)' /\ ~Coming(d, p)'
        BY <1>4, <1>8, <2>2 DEF Leaving, Coming, Switching
      <3>5. QED BY <3>3, <3>4
    <2>3. QED BY <1>1, <2>1, <2>2 DEF SpanInv
  <1>15. StartInv(K)'
    <2>1. SUFFICES ASSUME NEW p \in Seen', NEW k \in Nat,
                     k \in K[p] \/ \E d \in CPU : Charging(d, p)' /\ k \in Charge(d)'
                   PROVE  /\ hash'[p] # 0 => k <= hash'[p]
                          /\ \A d \in CPU : Coming(d, p)' => k <= curr'[d]
      BY DEF StartInv
    <2>2. k \in K[p] \/ \E d \in CPU : Charging(d, p) /\ k \in Charge(d)
      BY <1>1, <1>4, <2>1 DEF Charging, Charge
    <2>3. /\ hash[p] # 0 => k <= hash[p]
          /\ \A d \in CPU : Coming(d, p) => k <= curr[d]
      BY <1>5, <1>6, <2>1, <2>2 DEF StartInv
    <2>4. hash'[p] # 0 => k <= hash'[p]
      <3>1. CASE p = n
        <4>1. Coming(c, p)
          BY <1>1, <1>3, <3>1 DEF Coming, Switching
        <4>2. hash'[p] = curr[c]
          BY <1>6, <1>7, <3>1
        <4>3. QED BY <2>3, <4>1, <4>2
      <3>2. CASE p # n
        BY <1>6, <1>7, <2>1, <2>3, <3>2
      <3>3. QED BY <3>1, <3>2
    <2>5. ASSUME NEW d \in CPU, Coming(d, p)' PROVE k <= curr'[d]
      <3>1. d # c
        BY <1>4, <2>5 DEF Coming, Switching
      <3>2. QED BY <1>4, <2>3, <2>5, <3>1 DEF Coming
    <2>6. QED BY <2>4, <2>5
  <1>16. ChargeInv(H, K)'
    BY <1>4, <1>5, <1>6 DEF ChargeInv, Charging, Charge
  <1>17. LookInv'
    <2>1. SUFFICES ASSUME NEW p \in Seen', NEW d \in CPU,
                     pc'[d] \in {"lookup", "remove"}, prev'[d] = p
                   PROVE  /\ hash'[p] <= curr'[d]
                          /\ pc'[d] = "remove" => old'[d] = hash'[p] /\ old'[d] # 0
      BY DEF LookInv
    <2>2. d # c
      BY <1>4, <2>1
    <2>3. p # n
      BY <1>4, <1>9, <2>1, <2>2
    <2>4. p \in Seen /\ hash'[p] = hash[p]
      BY <1>6, <1>7, <2>1, <2>3
    <2>5. /\ hash[p] <= curr[d]
          /\ pc[d] = "remove" => old[d] = hash[p] /\ old[d] # 0
      BY <1>4, <1>5, <2>1, <2>2, <2>4 DEF LookInv
    <2>6. QED BY <1>4, <2>2, <2>4, <2>5
  <1>18. QED
    BY <1>10, <1>11, <1>12, <1>13, <1>14, <1>15, <1>16, <1>17 DEF TimeParts

LEMMA TimeStep ==
  ASSUME NEW H, NEW K, PInv, TreeInv, TimeParts(H, K), [Next]_vars
  PROVE  \E G, L : TimeParts(G, L)'
  <1>1. CASE Tick
    BY <1>1, TickTime
  <1>2. CASE Loader
    BY <1>2, LoaderTime
  <1>3. CASE Reader \/ UNCHANGED vars
    <2>1. UNCHANGED <<probed, now, running, next, pc, prev, curr, old, hash, tree,
                      used, unrecorded, raced>>
      BY <1>3 DEF Reader, ShowOpen, ShowNext, ShowClose, vars, loading, sched,
                  locals, ghosts
    <2>2. \A d \in CPU : Still(d)
      BY <2>1 DEF Still
    <2>3. TimeParts(H, K)'
      BY <2>1, <2>2, TimeSame
    <2>4. QED BY <2>3
  <1>4. ASSUME NEW c \in CPU, Handlers(c), \A d \in CPU : pc[d] # "oops"
        PROVE  \E G, L : TimeParts(G, L)'
    <2>1. CASE EntryHandler(c, running[c]) \/ EntryHandler(c, Null)
      BY <2>1, EntryHandlerTime
    <2>2. ASSUME NEW t, ReturnNoSwitch(c, t) PROVE \E G, L : TimeParts(G, L)'
      BY <2>2, ReturnNoSwitchTime
    <2>3. ASSUME NEW t, ReturnCounts(c, t) PROVE \E G, L : TimeParts(G, L)'
      BY <2>3, ReturnCountsTime
    <2>4. ASSUME NEW t, ReturnReadsClock(c, t) PROVE \E G, L : TimeParts(G, L)'
      BY <2>4, ReturnReadsClockTime
    <2>5. CASE OopsAtInsert(c) \/ OopsAtTable(c) \/ \E t : OopsAtReturn(c, t)
      BY <2>5, OopsTime
    <2>6. CASE LookupStart(c)
      BY <2>6, LookupStartTime
    <2>7. CASE RemoveStart(c)
      BY <1>4, <2>7, RemoveStartTime
    <2>8. CASE Account(c)
      BY <2>8, AccountTime
    <2>9. CASE InsertStart(c)
      BY <2>9, InsertStartTime
    <2>10. QED
      BY <1>4, <2>1, <2>2, <2>3, <2>4, <2>5, <2>6, <2>7, <2>8, <2>9 DEF Handlers
  <1>5. ASSUME NEW c \in CPU, NEW t \in Pid \cup {Idle}, SwitchUnseen(c, t)
        PROVE  \E G, L : TimeParts(G, L)'
    BY <1>5, SwitchUnseenTime
  <1>6. QED BY <1>1, <1>2, <1>3, <1>4, <1>5 DEF Next

LEMMA InitTime ==
  ASSUME Init
  PROVE  TreeInv /\ \E H, K : TimeParts(H, K)
  <1>1. /\ tree = {} /\ pc = [c \in CPU |-> "run"] /\ next = [c \in CPU |-> Null]
        /\ hash = [p \in Task |-> 0] /\ used = [p \in Task |-> 0] /\ now = 1
    BY DEF Init
  <1>2. TreeInv
    BY <1>1 DEF TreeInv
  <1>3. Exclusive
    BY <1>1, Pointers DEF Init, Exclusive
  <1>4. PICK H : H = [p \in Task |-> {}]
    OBVIOUS
  <1>5. UsedInv(H) /\ TotalInv(H, H)
    <2>1. Cardinality({}) = 0
      BY FS_EmptySet
    <2>2. H \in [Task -> SUBSET (1 .. now)] /\ H \in [Task -> SUBSET Nat]
          /\ \A p \in Task : H[p] = {} /\ used[p] = 0 /\ Total(tree, p) = 0
      BY <1>1, <1>4, TotalEmpty
    <2>3. Seen \subseteq Task
      BY DEF Seen
    <2>4. \A p \in Task : H[p] \subseteq H[p] /\ Total(tree, p) <= Cardinality(H[p])
      BY <2>1, <2>2
    <2>5. TotalInv(H, H)
      BY <2>2, <2>3, <2>4 DEF TotalInv
    <2>6. QED BY <2>1, <2>2, <2>5 DEF UsedInv
  <1>6. \A c \in CPU : pc[c] = "run"
    BY <1>1
  <1>7. TurnInv /\ LeaveInv /\ SpanInv(H)
    BY <1>1, <1>6 DEF TurnInv, LeaveInv, SpanInv, Leaving, Coming, Seen, Switching
  <1>8. StartInv(H) /\ ChargeInv(H, H) /\ LookInv
    BY <1>1, <1>4, <1>6 DEF StartInv, ChargeInv, LookInv, Charging, Coming, Seen
  <1>9. TimeParts(H, H)
    BY <1>3, <1>5, <1>7, <1>8 DEF TimeParts
  <1>10. QED BY <1>2, <1>9

\* Whose turn every start time belongs to, and that no unit of time is charged
\* twice, or to a task that did not have it.
THEOREM TimeInvariant == Spec => []TimeInv
  <1>1. Init => TimeInv
    BY InitTime, InitPInv DEF TimeInv
  <1>2. TimeInv /\ [Next]_vars => TimeInv'
    <2>1. SUFFICES ASSUME TimeInv, [Next]_vars PROVE TimeInv'
      OBVIOUS
    <2>2. PInv' /\ TreeInv'
      BY <2>1, NextPInv, TreeStep DEF TimeInv
    <2>3. PICK H, K : TimeParts(H, K)
      BY <2>1 DEF TimeInv
    <2>4. \E G, L : TimeParts(G, L)'
      BY <2>1, <2>3, TimeStep DEF TimeInv
    <2>5. QED BY <2>2, <2>4 DEF TimeInv
  <1>3. QED BY <1>1, <1>2, PTL DEF Spec

\* A task that is listed with more CPU time than it had was switched out by a
\* call that its return handler did not see as a switch from it, or two handlers
\* raced for its start time; there is no third cause.
THEOREM OvercountsExplainedHolds == Spec => []OvercountsExplained
  <1>1. TimeInv => OvercountsExplained
    <2>1. SUFFICES ASSUME TimeInv, NEW p \in Seen PROVE Total(tree, p) <= used[p]
      BY DEF OvercountsExplained, Seen
    <2>2. PICK H, K : TimeParts(H, K)
      BY <2>1 DEF TimeInv
    <2>3. UsedInv(H) /\ TotalInv(H, K) /\ PInv /\ p \in Task
      BY <2>1, <2>2 DEF TimeInv, TimeParts, Seen
    <2>4. /\ K[p] \subseteq H[p] /\ Total(tree, p) <= Cardinality(K[p])
          /\ Cardinality(H[p]) = used[p]
      BY <2>1, <2>3 DEF UsedInv, TotalInv
    <2>5. /\ Cardinality(K[p]) \in Nat /\ Cardinality(H[p]) \in Nat
          /\ Cardinality(K[p]) <= Cardinality(H[p])
      BY <2>3, <2>4, UnitsFinite
    <2>6. Total(tree, p) \in Nat
      BY <2>3, PInvParts, TotalNat
    <2>7. QED BY <2>4, <2>5, <2>6
  <1>2. QED BY <1>1, TimeInvariant, PTL

\* A start time lives only as long as the turn it belongs to, whatever handlers
\* race for it.
THEOREM StartOnlyInTurnHolds == Spec => []StartOnlyInTurn
  <1>1. TimeInv => StartOnlyInTurn
    <2>1. SUFFICES ASSUME TimeInv, probed, NEW p \in Task \ unrecorded, hash[p] # 0
                   PROVE  ~Pickable(p)
      BY DEF StartOnlyInTurn
    <2>2. PICK c \in CPU : p \in {running[c], next[c]}
      BY <2>1 DEF TimeInv, TimeParts, TurnInv
    <2>3. QED BY <2>2 DEF Pickable
  <1>2. QED BY <1>1, TimeInvariant, PTL

----------------------------------------------------------------------------
(* Where the overcounting comes from. *)

\* The scheduler always passes the current task and never finds the queue empty.
Plain == Paths \subseteq {"retry"}

\* The handlers then see every switch, and each looks only after the tasks of its
\* own CPU.
PlainInv ==
  /\ unrecorded = {} /\ raced = {}
  /\ \A c \in CPU : pc[c] \in {"pick"} \cup Switching => prev[c] = running[c]

LEMMA PlainStep ==
  ASSUME Plain, PInv, Exclusive, PlainInv, [Next]_vars
  PROVE  PlainInv'
  <1>1. TypeOK /\ \A c \in CPU : HandlerInv(c)
    BY DEF PInv
  <1>2. ASSUME NEW c \in CPU, NEW t \in Picked(c), pc[c] = "pick"
        PROVE  Unseen(c, t) = {}
    <2>1. running[c] \in Task /\ prev[c] = running[c]
      BY <1>1, <1>2, PickedTypes DEF PlainInv
    <2>2. t # Null
      BY <1>2, <2>1, Pointers DEF Plain, Picked
    <2>3. QED BY <2>1, <2>2 DEF Unseen
  <1>3. CASE Tick \/ Loader \/ Reader \/ UNCHANGED vars
    <2>1. UNCHANGED <<pc, prev, running, unrecorded, raced>>
      BY <1>3, LoaderKeeps DEF Tick, Reader, ShowOpen, ShowNext, ShowClose, vars,
           sched, locals, ghosts
    <2>2. QED BY <2>1 DEF PlainInv
  \* A step of c that leaves the other CPUs alone.
  <1>4. ASSUME NEW c \in CPU, unrecorded' = {}, raced' = {},
               pc'[c] \in {"pick"} \cup Switching => prev'[c] = running'[c],
               \A d \in CPU \ {c} : /\ pc'[d] = pc[d] /\ prev'[d] = prev[d]
                                    /\ running'[d] = running[d]
        PROVE  PlainInv'
    BY <1>4 DEF PlainInv
  \* Nobody else is after the tasks of c.
  <1>5. ASSUME NEW c \in CPU, NEW p \in {running[c], next[c]}, Races(c, p)
        PROVE  raced' = {}
    <2>1. ASSUME NEW d \in CPU \ {c}, p \in ToTouch(d) PROVE FALSE
      <3>1. p \in Task /\ p \in {running[d], next[d]}
        BY <2>1 DEF ToTouch, PlainInv, Switching
      <3>2. QED BY <3>1, Pointers DEF Exclusive
    <2>2. QED BY <1>5, <2>1 DEF Races, PlainInv
  <1>6. ASSUME NEW c \in CPU, NEW t \in Pid \cup {Idle}, SwitchUnseen(c, t)
        PROVE  PlainInv'
    <2>1. pc'[c] = "run" /\ \A d \in CPU \ {c} :
            pc'[d] = pc[d] /\ prev'[d] = prev[d] /\ running'[d] = running[d]
      BY <1>1, <1>6, Domains DEF SwitchUnseen
    <2>2. unrecorded' = {} /\ raced' = {}
      BY <1>6 DEF SwitchUnseen, ghosts, PlainInv
    <2>3. QED BY <1>4, <2>1, <2>2 DEF Switching
  <1>7. ASSUME NEW c \in CPU, Handlers(c) PROVE PlainInv'
    <2>1. CASE EntryHandler(c, running[c])
      <3>1. prev' = [prev EXCEPT ![c] = running[c]]
        <4>1. running[c] # Null
          BY <2>1, Pointers DEF EntryHandler
        <4>2. QED BY <2>1, <4>1 DEF EntryHandler, DataPrev1, DataPrev2
      <3>2. pc' = [pc EXCEPT ![c] = "pick"] /\ UNCHANGED <<running, unrecorded, raced>>
        BY <2>1 DEF EntryHandler, sched, ghosts
      <3>3. prev'[c] = running'[c] /\ \A d \in CPU \ {c} :
              pc'[d] = pc[d] /\ prev'[d] = prev[d] /\ running'[d] = running[d]
        BY <1>1, <3>1, <3>2, Domains
      <3>4. QED BY <1>4, <3>2, <3>3 DEF PlainInv
    <2>2. ASSUME NEW t \in Picked(c), ReturnNoSwitch(c, t) PROVE PlainInv'
      <3>1. pc'[c] = "run" /\ \A d \in CPU \ {c} :
              pc'[d] = pc[d] /\ prev'[d] = prev[d] /\ running'[d] = running[d]
        BY <1>1, <2>2, Domains DEF ReturnNoSwitch, Done
      <3>2. unrecorded' = {} /\ raced' = {}
        BY <1>2, <2>2 DEF ReturnNoSwitch, PlainInv
      <3>3. QED BY <1>4, <3>1, <3>2 DEF Switching
    <2>3. ASSUME NEW t \in Picked(c), ReturnCounts(c, t) PROVE PlainInv'
      <3>1. pc'[c] = "run" /\ \A d \in CPU \ {c} :
              pc'[d] = pc[d] /\ prev'[d] = prev[d] /\ running'[d] = running[d]
        BY <1>1, <2>3, Domains DEF ReturnCounts, Done
      <3>2. unrecorded' = {} /\ raced' = {}
        BY <2>3 DEF ReturnCounts, PlainInv, ghosts
      <3>3. QED BY <1>4, <3>1, <3>2 DEF Switching
    <2>4. ASSUME NEW t \in Picked(c), ReturnReadsClock(c, t) PROVE PlainInv'
      <3>1. /\ pc' = [pc EXCEPT ![c] = "lookup"] /\ pc[c] = "pick"
            /\ UNCHANGED <<prev, running, raced>>
        BY <2>4 DEF ReturnReadsClock
      <3>2. \A d \in CPU \ {c} : pc'[d] = pc[d]
        BY <1>1, <3>1, Domains
      <3>3. unrecorded' = {} /\ raced' = {} /\ prev[c] = running[c]
        BY <1>2, <2>4, <3>1 DEF ReturnReadsClock, PlainInv
      <3>4. QED BY <1>4, <3>1, <3>2, <3>3
    <2>5. CASE OopsAtInsert(c) \/ OopsAtTable(c) \/ \E t : OopsAtReturn(c, t)
      <3>1. /\ pc' = [pc EXCEPT ![c] = "oops"]
            /\ UNCHANGED <<prev, running, unrecorded, raced>>
        BY <2>5 DEF OopsAtReturn, OopsAtInsert, OopsAtTable, locals, sched, ghosts
      <3>2. pc'[c] = "oops" /\ \A d \in CPU \ {c} : pc'[d] = pc[d]
        BY <1>1, <3>1, Domains
      <3>3. QED BY <3>1, <3>2 DEF PlainInv, Switching
    <2>6. CASE LookupStart(c) \/ RemoveStart(c) \/ Account(c)
      <3>1. \E y \in {"remove", "account", "insert"} : pc' = [pc EXCEPT ![c] = y]
        BY <2>6 DEF LookupStart, RemoveStart, Account, AddTotal
      <3>2. UNCHANGED <<prev, running, unrecorded>> /\ pc[c] \in Switching
        BY <2>6 DEF LookupStart, RemoveStart, Account, AddTotal, locals, sched,
                    ghosts, Switching
      <3>3. prev[c] = running[c]
        BY <3>2 DEF PlainInv
      <3>4. raced' = {}
        <4>1. CASE RemoveStart(c)
          BY <1>5, <3>3, <4>1 DEF RemoveStart
        <4>2. CASE LookupStart(c) \/ Account(c)
          BY <4>2 DEF LookupStart, Account, AddTotal, ghosts, PlainInv
        <4>3. QED BY <2>6, <4>1, <4>2
      <3>5. \A d \in CPU \ {c} : pc'[d] = pc[d]
        BY <1>1, <3>1, Domains
      <3>6. unrecorded' = {}
        BY <3>2 DEF PlainInv
      <3>7. QED BY <1>4, <3>2, <3>3, <3>4, <3>5, <3>6
    <2>7. CASE InsertStart(c)
      <3>1. pc'[c] = "run" /\ \A d \in CPU \ {c} :
              pc'[d] = pc[d] /\ prev'[d] = prev[d] /\ running'[d] = running[d]
        BY <1>1, <2>7, Domains DEF InsertStart, Done
      <3>2. unrecorded' = {}
        BY <2>7 DEF InsertStart, PlainInv
      <3>3. raced' = {}
        BY <1>5, <2>7 DEF InsertStart
      <3>4. QED BY <1>4, <3>1, <3>2, <3>3 DEF Switching
    <2>8. "null" \notin Paths
      BY DEF Plain
    <2>9. QED
      BY <1>7, <2>1, <2>2, <2>3, <2>4, <2>5, <2>6, <2>7, <2>8 DEF Handlers
  <1>8. QED BY <1>3, <1>6, <1>7 DEF Next

\* If the scheduler always passed the current task and never went idle, no total
\* would ever be more than the task had: the counterexample to TotalAtMostUsed,
\* and every race for a start time, need one of these two paths.
THEOREM PlainPathsNeverOvercount ==
  ASSUME Plain
  PROVE  Spec => []TotalAtMostUsed
  <1>1. Init => PlainInv
    BY DEF Init, PlainInv, Switching
  <1>2. TimeInv /\ PlainInv /\ [Next]_vars => PlainInv'
    BY PlainStep DEF TimeInv, TimeParts
  <1>3. PlainInv /\ OvercountsExplained => TotalAtMostUsed
    BY DEF PlainInv, OvercountsExplained, TotalAtMostUsed
  <1>4. QED BY <1>1, <1>2, <1>3, TimeInvariant, OvercountsExplainedHolds, PTL DEF Spec
=============================================================================
