------------------------------ MODULE Perftop ------------------------------
(***************************************************************************)
(* The profiler module of "Assignment 4 Profiler".  A kretprobe on         *)
(* pick_next_task_fair counts calls and context switches (Part 1); Part 2  *)
(* also keeps, per pid, the tsc at which the task was switched in (hash    *)
(* table) and the total it has spent on a CPU (red-black tree ordered by   *)
(* the total), and /proc/perftop prints the largest totals.                *)
(*                                                                         *)
(* Every CPU runs the probe's handlers, a reader prints /proc/perftop, and *)
(* the module is loaded and unloaded under them.  my_lock protects the     *)
(* tree: its update is one step, which waits for a reader.  The hash table *)
(* has no lock, so rdtsc and each call that accesses the table are steps   *)
(* of their own.  The scheduler, kprobes and procfs are external.          *)
(***************************************************************************)
EXTENDS Integers, Sequences, FiniteSets

CONSTANTS
  Parts,      \* which of the two programs, a subset of {1, 2}
  CPU,        \* the processors
  Task,       \* pids with an mm
  Kthread,    \* pids without one
  Paths,      \* what else the scheduler does: "idle", "null", "retry"
  Limit,      \* how many tasks are to be printed (10)
  Word,       \* the modulus of unsigned long long (2^64)
  MaxTime,    \* bound on the time stamp counter
  MaxCalls    \* bound on the calls of the entry handler

\* With no more CPUs than maxactive (20) no call misses an instance.
ASSUME CpuAssumption == IsFiniteSet(CPU) /\ Cardinality(CPU) \in 1 .. 20
ASSUME TaskAssumption ==
  /\ IsFiniteSet(Task \cup Kthread) /\ Task \cap Kthread = {}
  /\ (Task \cup Kthread) \cap {"idle", "null", "retry", "junk"} = {}
ASSUME BoundAssumption ==
  /\ Parts \subseteq {1, 2} /\ Paths \subseteq {"idle", "null", "retry"}
  /\ Limit \in Nat \ {0} /\ MaxTime \in Nat \ {0} /\ MaxCalls \in Nat
\* The time stamp counter itself does not wrap.
ASSUME WordAssumption == Word \in Nat /\ MaxTime < Word

Pid == Task \cup Kthread

\* task_struct pointers that are no task of Pid.
Idle  == "idle"    \* the idle task of any CPU
Null  == "null"
Retry == "retry"   \* RETRY_TASK, (void *) -1
Junk  == "junk"    \* whatever kmalloc left in a new instance

VARIABLES
  part,                   \* the program
  plan,                   \* the calls perftop_init and _exit have still to make
  proc, probed,           \* /proc/perftop exists; the probe is registered
  now,                    \* rdtsc, the same on every CPU
  running,                \* running[c]: current of c
  next,                   \* next[c]: the task that c is switching to
  pc,                     \* where c's handlers are
  prev,                   \* prev[c]: data->prev of the instance c is using
  free,                   \* data->prev of the free instances, last used first
  curr, old,              \* the return handler's locals
  hash,                   \* hash[p]: the start tsc of p, 0 if there is none;
                          \* those of kernel threads are never looked up
  tree,                   \* the entries of the red-black tree
  reader, out,            \* a reader of /proc/perftop, and what it has printed
  pre_count, post_count, context_switch_count,
  used, credited,         \* the time p had, and the sum of its elapsed times
  unrecorded,             \* tasks switched out past the handler's record
  raced                   \* tasks whose start time one handler changed while
                          \* another was between its rdtsc and its use of it

loading == <<part, plan, proc, probed>>
sched == <<now, running, next>>
locals == <<prev, free, curr, old>>
counts == <<pre_count, post_count, context_switch_count>>
ghosts == <<used, credited, unrecorded, raced>>
vars == <<loading, sched, pc, locals, hash, tree, reader, out, counts, ghosts>>

\* The places of a return handler that has seen a switch.
Switching == {"lookup", "remove", "account", "insert"}

Entry == [pid : Task, tsc : 0 .. Word - 1]

TypeOK ==
  /\ part \in Parts
  /\ plan \in Seq({"proc_create", "register", "remove_proc", "unregister",
                   "free_hash", "free_tree", "failed"})
  /\ proc \in BOOLEAN /\ probed \in BOOLEAN
  /\ now \in 1 .. MaxTime
  /\ running \in [CPU -> Pid \cup {Idle}]
  /\ next \in [CPU -> Pid \cup {Null, Retry}]
  /\ pc \in [CPU -> {"run", "pick", "oops"} \cup Switching]
  /\ prev \in [CPU -> Task \cup {Null, Junk}]
  /\ free \in Seq(Task \cup {Null, Junk}) /\ Len(free) <= Cardinality(CPU)
  /\ curr \in [CPU -> 0 .. MaxTime] /\ old \in [CPU -> 0 .. MaxTime]
  /\ hash \in [Task -> 0 .. MaxTime]
  /\ tree \subseteq Entry
  /\ reader \in {"off", "walk", "end"} /\ out \in Seq(Entry)
  /\ {pre_count, post_count, context_switch_count} \subseteq Nat
  /\ used \in [Task -> Nat] /\ credited \in [Task -> Int]
  /\ unrecorded \subseteq Task /\ raced \subseteq Task

----------------------------------------------------------------------------
(* Loading and unloading. *)

\* perftop_init and perftop_exit of Part 1, then of Part 2.
InitCalls1 == <<"proc_create", "register">>
ExitCalls1 == <<"remove_proc", "unregister">>
InitCalls2 == <<"proc_create", "register">>
\* Mutant: the tables are freed before the probe is unregistered.
ExitCallsTablesFirst ==
  <<"remove_proc", "free_hash", "free_tree", "unregister">>
ExitCalls2 == <<"remove_proc", "unregister", "free_hash", "free_tree">>

InitCalls == IF part = 1 THEN InitCalls1 ELSE InitCalls2
ExitCalls == IF part = 1 THEN ExitCalls1 ELSE ExitCalls2

\* The module is loaded while any tasks are running.
Init ==
  /\ part \in Parts
  /\ plan = InitCalls \o ExitCalls
  /\ proc = FALSE /\ probed = FALSE
  /\ now = 1
  /\ running \in [CPU -> Pid \cup (IF "idle" \in Paths THEN {Idle} ELSE {})]
  /\ \A c, d \in CPU : running[c] = running[d] /\ running[c] # Idle => c = d
  /\ next = [c \in CPU |-> Null]
  /\ pc = [c \in CPU |-> "run"]
  /\ prev = [c \in CPU |-> Null]
  /\ free = [i \in 1 .. Cardinality(CPU) |-> Junk]
  /\ curr = [c \in CPU |-> 0] /\ old = [c \in CPU |-> 0]
  /\ hash = [p \in Task |-> 0]
  /\ tree = {}
  /\ reader = "off" /\ out = <<>>
  /\ pre_count = 0 /\ post_count = 0 /\ context_switch_count = 0
  /\ used = [p \in Task |-> 0] /\ credited = [p \in Task |-> 0]
  /\ unrecorded = {} /\ raced = {}

\* The next call is f.  Between the calls of perftop_init and the first one of
\* perftop_exit the module is loaded for as long as one likes.
Call(f) ==
  /\ plan # <<>> /\ Head(plan) = f
  /\ plan' = Tail(plan)
  /\ UNCHANGED <<part, sched, pc, locals, reader, out, counts, ghosts>>

ProcCreate ==
  Call("proc_create") /\ proc' = TRUE /\ UNCHANGED <<probed, hash, tree>>

RegisterKretprobe ==
  Call("register") /\ probed' = TRUE /\ UNCHANGED <<proc, hash, tree>>

\* perftop_init returns -1 and leaves /proc/perftop behind.
RegisterFails ==
  /\ plan # <<>> /\ Head(plan) = "register"
  /\ plan' = <<"failed">>
  /\ UNCHANGED <<part, proc, probed, sched, pc, locals, hash, tree, reader,
                 out, counts, ghosts>>

\* remove_proc_entry waits for the readers that are inside perftop_show.
RemoveProcEntry ==
  /\ Call("remove_proc")
  /\ reader = "off"
  /\ proc' = FALSE
  /\ UNCHANGED <<probed, hash, tree>>

\* unregister_kretprobe waits for the handlers that are running; a call whose
\* return is still to come goes on without its return handler.
UnregisterKretprobe ==
  /\ Call("unregister")
  /\ \A c \in CPU : pc[c] \in {"run", "pick"}
  /\ probed' = FALSE
  /\ UNCHANGED <<proc, hash, tree>>

\* remove_hash_table_all looks at the bucket of key 0 only and stops after one
\* entry, because hash_del has cleared its next pointer; the others leak.
RemoveHashTableAll ==
  /\ Call("free_hash")
  /\ \/ UNCHANGED hash
     \/ \E p \in Task : hash[p] # 0 /\ hash' = [hash EXCEPT ![p] = 0]
  /\ UNCHANGED <<proc, probed, tree>>

RemoveRbTreeAll ==
  Call("free_tree") /\ tree' = {} /\ UNCHANGED <<proc, probed, hash>>

Loader ==
  \/ ProcCreate \/ RegisterKretprobe \/ RegisterFails
  \/ RemoveProcEntry \/ UnregisterKretprobe
  \/ RemoveHashTableAll \/ RemoveRbTreeAll

----------------------------------------------------------------------------
(* The tree. *)

\* remove_rb_tree
Without(tr, p) == {e \in tr : e.pid # p}

\* lookup_rb_tree: the total of p, 0 if it is not there.
Total(tr, p) ==
  IF \E e \in tr : e.pid = p THEN (CHOOSE e \in tr : e.pid = p).tsc ELSE 0

\* insert_rb_tree gives up when an entry has the same total.
Insert(tr, p, t) ==
  IF \E e \in tr : e.tsc = t THEN tr ELSE tr \cup {[pid |-> p, tsc |-> t]}

----------------------------------------------------------------------------
(* The reader of /proc/perftop.  perftop_show holds my_lock from "walk" on. *)

\* Part 1 prints the counters only, which changes nothing.  What opening the
\* file does after a failed load, when the code is gone, is left open.
ShowOpen ==
  /\ proc /\ part = 2 /\ reader = "off" /\ plan # <<"failed">>
  /\ reader' = "walk"
  /\ UNCHANGED <<loading, sched, pc, locals, hash, tree, out, counts, ghosts>>

\* The entries that print_rb_tree has still to come to, from rb_last down.
Below == IF out = <<>> THEN tree
         ELSE {e \in tree : e.tsc < out[Len(out)].tsc}

\* Mutant: the loop goes on for one entry more.
BreaksAfterOneMore(printed) == printed - 1 > Limit - 1
\* if (count++ > 8) break; count is one behind the entries printed.
BreaksAfter(printed) == printed - 1 > Limit - 2

ShowNext ==
  /\ reader = "walk"
  /\ IF Below = {}
     THEN reader' = "end" /\ UNCHANGED out
     ELSE /\ \E e \in Below :
               /\ \A f \in Below : f.tsc <= e.tsc
               /\ out' = Append(out, e)
          /\ reader' = IF BreaksAfter(Len(out) + 1) THEN "end" ELSE "walk"
  /\ UNCHANGED <<loading, sched, pc, locals, hash, tree, counts, ghosts>>

ShowClose ==
  /\ reader = "end"
  /\ reader' = "off"
  /\ out' = <<>>
  /\ UNCHANGED <<loading, sched, pc, locals, hash, tree, counts, ghosts>>

Reader == ShowOpen \/ ShowNext \/ ShowClose

----------------------------------------------------------------------------
(* The scheduler, external. *)

\* A task can be picked when no CPU runs it or is switching to it.
Pickable(t) == t \in Pid /\ \A c \in CPU : t \notin {running[c], next[c]}

\* From the handler's rdtsc on, the time is the next task's.
Owner(c) == IF next[c] \in Pid THEN next[c] ELSE running[c]

\* Only Part 2 looks at the time, and only through the probe.
Tick ==
  /\ part = 2 /\ probed /\ now < MaxTime
  /\ now' = now + 1
  /\ used' = [p \in Task |->
                IF \E c \in CPU : Owner(c) = p THEN used[p] + 1 ELSE used[p]]
  /\ UNCHANGED <<loading, running, next, pc, locals, hash, tree, reader, out,
                 counts, credited, unrecorded, raced>>

\* A switch without the return handler: the entry handler has returned 1, for a
\* kernel thread or the idle task, or the probe went away during the call.
SwitchUnseen(c, t) ==
  /\ \/ pc[c] = "run" /\ probed /\ running[c] \notin Task
     \/ pc[c] = "pick" /\ ~probed
  /\ Pickable(t) \/ (t = Idle /\ "idle" \in Paths)
  /\ running' = [running EXCEPT ![c] = t]
  /\ pc' = [pc EXCEPT ![c] = "run"]
  /\ prev' = [prev EXCEPT ![c] = Null]
  /\ UNCHANGED <<loading, now, next, free, curr, old, hash, tree, reader, out,
                 counts, ghosts>>

----------------------------------------------------------------------------
(* The probe's handlers. *)

\* What the entry handlers leave in data->prev, the instance's last user having
\* left stale there.  Part 1 stores its argument, Part 2 only if it is a task.
DataPrev1(arg, stale) == {arg}
DataPrev2(arg, stale) ==
  IF arg # Null THEN {arg}
  ELSE IF stale = Junk THEN {Null, Junk} ELSE {stale}

\* Mutants: kernel threads are not skipped; the call is counted only if there
\* is a prev.
EntryHandlerNoSkip(c, arg) ==
  /\ probed /\ pc[c] = "run" /\ running[c] \in Pid
  /\ pre_count < MaxCalls
  /\ \E d \in IF part = 1 THEN DataPrev1(arg, Head(free))
                          ELSE DataPrev2(arg, Head(free)) :
       prev' = [prev EXCEPT ![c] = d]
  /\ free' = Tail(free)
  /\ pre_count' = pre_count + 1
  /\ pc' = [pc EXCEPT ![c] = "pick"]
  /\ UNCHANGED <<loading, sched, curr, old, hash, tree, reader, out,
                 post_count, context_switch_count, ghosts>>
EntryHandlerCountsTasks(c, arg) ==
  /\ probed /\ pc[c] = "run" /\ running[c] \in Task
  /\ pre_count < MaxCalls
  /\ \E d \in IF part = 1 THEN DataPrev1(arg, Head(free))
                          ELSE DataPrev2(arg, Head(free)) :
       prev' = [prev EXCEPT ![c] = d]
  /\ free' = Tail(free)
  /\ pre_count' = pre_count + IF arg = Null THEN 0 ELSE 1
  /\ pc' = [pc EXCEPT ![c] = "pick"]
  /\ UNCHANGED <<loading, sched, curr, old, hash, tree, reader, out,
                 post_count, context_switch_count, ghosts>>

\* entry_pick_next_fair.  The scheduler's fast path passes the current task, its
\* slow path NULL.
EntryHandler(c, arg) ==
  /\ probed /\ pc[c] = "run" /\ running[c] \in Task
  /\ pre_count < MaxCalls
  /\ \E d \in IF part = 1 THEN DataPrev1(arg, Head(free))
                          ELSE DataPrev2(arg, Head(free)) :
       prev' = [prev EXCEPT ![c] = d]
  /\ free' = Tail(free)
  /\ pre_count' = pre_count + 1
  /\ pc' = [pc EXCEPT ![c] = "pick"]
  /\ UNCHANGED <<loading, sched, curr, old, hash, tree, reader, out,
                 post_count, context_switch_count, ghosts>>

\* The handler is done and t runs: its instance is free again.
Done(c, t) ==
  /\ running' = [running EXCEPT ![c] = t]
  /\ next' = [next EXCEPT ![c] = Null]
  /\ pc' = [pc EXCEPT ![c] = "run"]
  /\ prev' = [prev EXCEPT ![c] = Null]
  /\ free' = <<prev[c]>> \o free
  /\ curr' = [curr EXCEPT ![c] = 0]
  /\ old' = [old EXCEPT ![c] = 0]

\* What pick_next_task_fair may return to c.
Picked(c) ==
  {running[c]} \cup {t \in Pid : Pickable(t)}
    \cup (IF "idle" \in Paths THEN {Null} ELSE {})
    \cup (IF "retry" \in Paths THEN {Retry} ELSE {})

\* The handlers' test: a switch from one task to another.
IsSwitch(p, t) == p # Null /\ t # Null /\ p # t

\* The task that leaves c for t, if the handler does not see it as prev.
Unseen(c, t) ==
  IF t \notin {running[c], Retry} /\ (t = Null \/ prev[c] # running[c])
  THEN {running[c]} ELSE {}

\* ret_pick_next_fair when its test fails; NULL sends the CPU idle, RETRY_TASK
\* makes the scheduler start again.
ReturnNoSwitch(c, t) ==
  /\ probed /\ pc[c] = "pick" /\ t \in Picked(c)
  /\ ~IsSwitch(prev[c], t)
  /\ post_count' = post_count + 1
  /\ Done(c, IF t = Null THEN Idle ELSE IF t = Retry THEN running[c] ELSE t)
  /\ unrecorded' = unrecorded \cup Unseen(c, t)
  /\ UNCHANGED <<loading, now, hash, tree, reader, out, pre_count,
                 context_switch_count, used, credited, raced>>

\* Part 1 counts the switch.
ReturnCounts(c, t) ==
  /\ part = 1 /\ probed /\ pc[c] = "pick" /\ t \in Picked(c) \ {Retry}
  /\ IsSwitch(prev[c], t)
  /\ post_count' = post_count + 1
  /\ context_switch_count' = context_switch_count + 1
  /\ Done(c, t)
  /\ UNCHANGED <<loading, now, hash, tree, reader, out, pre_count, ghosts>>

\* The start time of p, 0 if there is none.
lookup_hash_table(p) == hash[p]

\* Part 2: the test, and rdtsc.
ReturnReadsClock(c, t) ==
  /\ part = 2 /\ probed /\ pc[c] = "pick" /\ t \in Picked(c)
  /\ IsSwitch(prev[c], t) /\ prev[c] # Junk
  /\ post_count' = post_count + 1
  /\ next' = [next EXCEPT ![c] = t]
  /\ curr' = [curr EXCEPT ![c] = now]
  /\ pc' = [pc EXCEPT ![c] = "lookup"]
  /\ unrecorded' = unrecorded \cup Unseen(c, t)
  /\ UNCHANGED <<loading, now, running, prev, free, old, hash, tree, reader,
                 out, pre_count, context_switch_count, used, credited, raced>>

LookupStart(c) ==
  /\ pc[c] = "lookup"
  /\ old' = [old EXCEPT ![c] = lookup_hash_table(prev[c])]
  /\ pc' = [pc EXCEPT ![c] = IF old'[c] # 0 THEN "remove" ELSE "insert"]
  /\ UNCHANGED <<loading, sched, prev, free, curr, hash, tree, reader, out,
                 counts, ghosts>>

\* The tasks whose start time c's handler, having read the clock, has still to
\* look up, remove or set.
ToTouch(c) ==
  Task \cap ((IF pc[c] \in {"lookup", "remove"} THEN {prev[c]} ELSE {})
               \cup (IF pc[c] \in Switching THEN {next[c]} ELSE {}))

\* c changes the start time of p while another handler is at it.
Races(c, p) ==
  raced' = raced \cup {q \in {p} : \E d \in CPU \ {c} : q \in ToTouch(d)}

\* Mutant: the start of prev is left in the hash table.
RemoveStartMissing(c) ==
  /\ pc[c] = "remove"
  /\ pc' = [pc EXCEPT ![c] = "account"]
  /\ UNCHANGED <<loading, sched, locals, hash, tree, reader, out, counts,
                 ghosts>>

\* remove_hash_table(prev)
RemoveStart(c) ==
  /\ pc[c] = "remove"
  /\ hash' = [hash EXCEPT ![prev[c]] = 0]
  /\ Races(c, prev[c])
  /\ pc' = [pc EXCEPT ![c] = "account"]
  /\ UNCHANGED <<loading, sched, locals, tree, reader, out, counts, used,
                 credited, unrecorded>>

\* The update of the tree under my_lock; sum + curr - old is unsigned.
AddTotal(c) ==
  /\ tree' = Insert(Without(tree, prev[c]), prev[c],
                    (Total(tree, prev[c]) + curr[c] - old[c]) % Word)
  /\ credited' = [credited EXCEPT ![prev[c]] = @ + curr[c] - old[c]]
  /\ pc' = [pc EXCEPT ![c] = "insert"]
  /\ UNCHANGED <<loading, sched, locals, hash, reader, out, counts, used,
                 unrecorded, raced>>

\* Mutant: without my_lock.
AccountUnlocked(c) == pc[c] = "account" /\ AddTotal(c)
Account(c) == pc[c] = "account" /\ reader = "off" /\ AddTotal(c)

\* insert_hash_table(next), which removes an older entry first.
InsertStart(c) ==
  /\ pc[c] = "insert" /\ next[c] # Retry
  /\ hash' = [p \in Task |-> IF p = next[c] THEN curr[c] ELSE hash[p]]
  /\ Races(c, next[c])
  /\ context_switch_count' = context_switch_count + 1
  /\ Done(c, next[c])
  /\ UNCHANGED <<loading, now, tree, reader, out, pre_count, post_count, used,
                 credited, unrecorded>>

\* The handler follows a pointer that is no task_struct: next->pid for
\* RETRY_TASK, data->prev->pid of an instance that was never written.
OopsAtReturn(c, t) ==
  /\ probed /\ pc[c] = "pick" /\ t \in Picked(c)
  /\ IsSwitch(prev[c], t)
  /\ IF part = 1 THEN t = Retry ELSE prev[c] = Junk
  /\ post_count' = post_count + 1
  /\ pc' = [pc EXCEPT ![c] = "oops"]
  /\ UNCHANGED <<loading, sched, locals, hash, tree, reader, out, pre_count,
                 context_switch_count, ghosts>>

OopsAtInsert(c) ==
  /\ pc[c] = "insert" /\ next[c] = Retry
  /\ pc' = [pc EXCEPT ![c] = "oops"]
  /\ UNCHANGED <<loading, sched, locals, hash, tree, reader, out, counts,
                 ghosts>>

\* The pid that c's handler is about to look up, remove or insert.
AtTable(c) ==
  CASE pc[c] \in {"lookup", "remove"} -> {prev[c]}
    [] pc[c] = "insert" -> {next[c]}
    [] OTHER -> {}

\* Two handlers are inside the table for one pid and one of them changes it: a
\* node may be freed twice, or while the other one is looking at it.  Unless
\* that stops the machine, the calls take effect in one of the two orders.
OopsAtTable(c) ==
  /\ \E d \in CPU \ {c} :
       AtTable(c) \cap AtTable(d) \cap Task # {} /\ pc[d] # "lookup"
  /\ pc' = [pc EXCEPT ![c] = "oops"]
  /\ UNCHANGED <<loading, sched, locals, hash, tree, reader, out, counts,
                 ghosts>>

Handlers(c) ==
  \/ EntryHandler(c, running[c])
  \/ "null" \in Paths /\ EntryHandler(c, Null)
  \/ \E t \in Picked(c) :
       \/ ReturnNoSwitch(c, t) \/ ReturnCounts(c, t) \/ ReturnReadsClock(c, t)
       \/ OopsAtReturn(c, t)
  \/ LookupStart(c) \/ RemoveStart(c) \/ Account(c) \/ InsertStart(c)
  \/ OopsAtInsert(c) \/ OopsAtTable(c)

\* An oops inside the scheduler stops the machine.
Next ==
  /\ \A c \in CPU : pc[c] # "oops"
  /\ \/ Tick \/ Loader \/ Reader
     \/ \E c \in CPU :
          Handlers(c) \/ \E t \in Pid \cup {Idle} : SwitchUnseen(c, t)

Spec == Init /\ [][Next]_vars

----------------------------------------------------------------------------
(* Properties. *)

\* No task is listed with more CPU time than it had.
TotalAtMostUsed == \A p \in Task : Total(tree, p) <= used[p]

\* Where the handlers do credit too much, there are two causes: the task was
\* switched out before by a call that the return handler did not see as a switch
\* from it, or two handlers raced for its start time, which no lock protects. A
\* recycled instance that makes a handler charge the wrong task is none alone.
OvercountsExplained ==
  \A p \in Task \ (unrecorded \cup raced) : Total(tree, p) <= used[p]

\* A start time lives only as long as the turn it belongs to: a task that no
\* CPU runs or switches to has none, unless a switch from it was not recorded.
StartOnlyInTurn ==
  probed => \A p \in Task \ unrecorded : hash[p] # 0 => ~Pickable(p)

At(pcs) == {c \in CPU : pc[c] \in pcs}

\* The three counters of /proc/perftop agree up to the handlers under way: every
\* entry has its return, and every switch is one of them.
CountersAgree ==
  probed =>
    /\ pre_count = post_count + Cardinality(At({"pick"}))
    /\ context_switch_count + Cardinality(At(Switching)) <= post_count

\* What a reader has printed so far are the largest totals of the tree as it is
\* now, and at the end there are Limit of them, or all: the handlers of the
\* other CPUs never change the tree under print_rb_tree.
ShowsMostScheduled ==
  LET shown == {out[i] : i \in 1 .. Len(out)} IN
    /\ shown \subseteq tree
    /\ \A e \in shown, f \in tree \ shown : f.tsc < e.tsc
    /\ Len(out) <= Limit
    /\ reader = "end" => shown = tree \/ Len(out) = Limit

\* perftop_exit is about to free a table, or has returned and the module's code
\* is freed.
Freeing == plan = <<>> \/ Head(plan) \in {"free_hash", "free_tree"}

\* The code and the tables are not used while and after they are freed: no
\* reader is inside perftop_show, no handler is under way and no probe or file
\* is left that could start one.
UnusedWhenFreed ==
  Freeing => /\ ~proc /\ reader = "off"
             /\ ~probed /\ \A c \in CPU : pc[c] \in {"run", "pick"}

\* The tree of a live module holds, for every task, the sum of its elapsed times.
TotalIsSum ==
  plan = ExitCalls => \A p \in Task : Total(tree, p) = credited[p]
=============================================================================
