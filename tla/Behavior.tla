------------------------------ MODULE Behavior ------------------------------
(***************************************************************************)
(* The behavioural heuristics of av/behavior.c: the table of per-process   *)
(* entries, its eviction and garbage collection, the trust and protect     *)
(* lists, and the kill at the end of a detection.                          *)
(*                                                                         *)
(* Hooks queue work items and the workqueue runs them in any order, so an  *)
(* item may run after its process has ended and its pid has been given to  *)
(* another task.  A task is identified by its start_time.  A work item     *)
(* holds a struct pid, so a signal reaches that task or nobody; the table  *)
(* is keyed by the number.                                                 *)
(*                                                                         *)
(* The two rings of an entry are sets here, see SlidingWindow: a member is *)
(* a path and (history) the task that touched it.  A path stands for its   *)
(* content too: the file of a binary for its SHA-256.                      *)
(***************************************************************************)
EXTENDS Integers, FiniteSets

CONSTANTS
    Pids, InitPid,      \* tgids; the one of init
    Files, Exes,        \* absolute paths; those that are executed
    NoFile,             \* the empty exec_path
    Pseudo, Sensitive, Noise,  \* path_is_pseudo_fs(), ..._sensitive(), ..._noise()
    Appends,            \* <<old, new>> of extension-append shape
    MaxEntries,         \* MAX_BEHAVIOR_ENTRIES
    WriteThreshold, RenameThreshold,
    MaxStart,           \* bound: tasks that are ever created
    MaxWork,            \* bound: work items in flight at a time
    MaxJiffies          \* bound on the clock

ASSUME ProcessAssumption == InitPid \in Pids /\ MaxStart \in Nat \ {0} /\ IsFiniteSet(Pids)
ASSUME PathAssumption ==
    /\ Exes \subseteq Files /\ Pseudo \subseteq Files
    /\ Sensitive \subseteq Files /\ Noise \subseteq Files
    /\ Appends \subseteq Files \X Files
    /\ NoFile \notin Files
ASSUME LimitAssumption ==
    /\ MaxEntries \in Nat \ {0}
    /\ WriteThreshold \in Nat \ {0}
    /\ RenameThreshold \in Nat \ {0}
    /\ MaxWork \in Nat /\ MaxJiffies \in Nat

Starts == 1 .. MaxStart

VARIABLES
    proc, exe,   \* per pid: start_time of its task (0: none), its exe_file
    forks,       \* start_times given out so far
    held,        \* history, per pid: the start_times of all tasks it was given to
    exposed,     \* history: live pids that were once not on the protect list
    jiffies,
    work,        \* queued work items
    kills,       \* detections on their way through kill_with_reason()
    tracked, table, count,  \* behavior_table, behavior_table_count
    trust, protect,         \* trust_table, protected_table
    vouched      \* history: everything that was ever on the trust list

procVars == <<proc, exe, held, forks, exposed>>
tableVars == <<tracked, table, count>>
listVars == <<trust, protect, vouched>>
vars == <<procVars, jiffies, work, kills, tableVars, listVars>>

\* kzalloc().  setBy is history: the task whose exec filled exec and trusted.
ZeroEntry == [start |-> 0, exec |-> NoFile, setBy |-> 0, trusted |-> FALSE,
              writes |-> {}, renames |-> {}, touched |-> 0]

Init ==
    /\ proc = [p \in Pids |-> IF p = InitPid THEN 1 ELSE 0]
    /\ exe \in [Pids -> Exes]
    /\ held = [p \in Pids |-> IF p = InitPid THEN {1} ELSE {}]
    /\ forks = 1
    /\ exposed = {InitPid}
    /\ jiffies = 0
    /\ work = {}
    /\ kills = {}
    /\ tracked = {}
    /\ table = [p \in Pids |-> ZeroEntry]
    /\ count = 0
    /\ trust = {} /\ protect = {} /\ vouched = {}

-----------------------------------------------------------------------------
(* Processes and the hooks (EventIntake models how an item is queued).     *)

\* A child runs its parent's binary until it calls execve().  Its pid may have
\* been that of a task which is gone.
Fork(p, b) ==
    /\ proc[p] = 0
    /\ forks < MaxStart
    /\ \E q \in Pids : proc[q] # 0 /\ exe[q] = b
    /\ forks' = forks + 1
    /\ proc' = [proc EXCEPT ![p] = forks + 1]
    /\ exe' = [exe EXCEPT ![p] = b]
    /\ held' = [held EXCEPT ![p] = @ \cup {forks + 1}]
    /\ exposed' = IF b \in protect THEN exposed \ {p} ELSE exposed \cup {p}
    /\ UNCHANGED <<jiffies, work, kills, tableVars, listVars>>

Exit(p) ==
    /\ p # InitPid
    /\ proc[p] # 0
    /\ proc' = [proc EXCEPT ![p] = 0]
    /\ UNCHANGED <<exe, held, forks, exposed, jiffies, work, kills, tableVars,
                   listVars>>

\* One work item: the operation, the task that asked for it, and its paths.
Item(op, p, f, g) == [op |-> op, pid |-> p, start |-> proc[p], file |-> f, to |-> g]

\* An item is in flight until its work function ends, the kill included.
Enqueue(i) ==
    /\ Cardinality(work) + Cardinality(kills) < MaxWork
    /\ work' = work \cup {i}

Exec(p, b) ==
    /\ proc[p] # 0
    /\ Enqueue(Item("exec", p, b, NoFile))
    /\ exe' = [exe EXCEPT ![p] = b]
    /\ exposed' = IF b \in protect THEN exposed ELSE exposed \cup {p}
    /\ UNCHANGED <<proc, held, forks, jiffies, kills, tableVars, listVars>>

Touch(op, p, f, g) ==
    /\ proc[p] # 0
    /\ Enqueue(Item(op, p, f, g))
    /\ UNCHANGED <<procVars, jiffies, kills, tableVars, listVars>>

Tick ==
    /\ jiffies < MaxJiffies
    /\ jiffies' = jiffies + 1
    /\ UNCHANGED <<procVars, work, kills, tableVars, listVars>>

\* Time passes: an entry of a ring leaves the trailing window.
AgeOut(p) ==
    /\ p \in tracked
    /\ \/ \E r \in table[p].writes :
             table' = [table EXCEPT ![p].writes = @ \ {r}]
       \/ \E r \in table[p].renames :
             table' = [table EXCEPT ![p].renames = @ \ {r}]
    /\ UNCHANGED <<procVars, jiffies, work, kills, tracked, count, listVars>>

-----------------------------------------------------------------------------
(* get_or_create_entry() and evict_lru_entry(), under behavior_lock.       *)

\* Any of the entries not touched for longest (ties: the order of the walk).
Oldest == {p \in tracked : \A q \in tracked : table[p].touched <= table[q].touched}

\* Faulty variant: an evicted entry is handed on without being cleared.
ReuseVictim(p) ==
    IF p \in tracked
    THEN {[others |-> tracked \ {p}, ok |-> TRUE,
           entry |-> [table[p] EXCEPT !.touched = jiffies]]}
    ELSE IF count >= MaxEntries
    THEN {[others |-> tracked \ {v}, ok |-> TRUE,
           entry |-> [table[v] EXCEPT !.touched = jiffies]] : v \in Oldest}
    ELSE {[others |-> tracked, ok |-> TRUE,
           entry |-> [ZeroEntry EXCEPT !.touched = jiffies]]}

\* The ways a lookup can end: what is left of the other entries, and the
\* entry, unless kzalloc() failed (ok = FALSE) after the eviction.
get_or_create_entry(p) ==
    IF p \in tracked
    THEN {[others |-> tracked \ {p}, ok |-> TRUE,
           entry |-> [table[p] EXCEPT !.touched = jiffies]]}
    ELSE {[others |-> tracked \ V, ok |-> b,
           entry |-> [ZeroEntry EXCEPT !.touched = jiffies]] :
             V \in IF count >= MaxEntries THEN {{v} : v \in Oldest} ELSE {{}},
             b \in BOOLEAN}

\* Faulty variant: the eviction is not counted.
StoreUncounted(p, L, e) ==
    /\ tracked' = IF L.ok THEN L.others \cup {p} ELSE L.others
    /\ table' = [q \in Pids |-> IF q = p /\ L.ok THEN e
                                ELSE IF q \in L.others THEN table[q] ELSE ZeroEntry]
    /\ count' = count + (IF L.ok /\ p \notin tracked THEN 1 ELSE 0)

\* The table after the lookup L for p, with e in place of the entry found.
Store(p, L, e) ==
    /\ tracked' = IF L.ok THEN L.others \cup {p} ELSE L.others
    /\ table' = [q \in Pids |-> IF q = p /\ L.ok THEN e
                                ELSE IF q \in L.others THEN table[q] ELSE ZeroEntry]
    /\ count' = count - Cardinality((tracked \ {p}) \ L.others)
                      + (IF L.ok /\ p \notin tracked THEN 1 ELSE 0)

-----------------------------------------------------------------------------
(* The work functions.                                                     *)

\* Is the path a new one in this ring?
IsNew(R, f) == \A r \in R : r[1] # f

\* sliding_window_note() on a ring of cap members: the rings it may leave
\* behind (a full one gives up a member).
sliding_window_note(R, f, s, cap) ==
    IF ~IsNew(R, f) THEN {R}
    ELSE IF Cardinality(R) < cap THEN {R \cup {<<f, s>>}}
    ELSE {(R \ {r}) \cup {<<f, s>>} : r \in R}

\* ... and whether the number it returns exceeds the threshold.
Trips(R, f, cap) == IsNew(R, f) /\ Cardinality(R) + 1 > cap

\* A detection: basis names (history) the tasks that did what it is based on,
\* besides the event itself.
Detection(i, reason, basis) ==
    [pid |-> i.pid, start |-> i.start, reason |-> reason, basis |-> basis,
     stage |-> "check"]
Detect(K) == kills' = kills \cup K
Touchers(R) == {r[2] : r \in R}

\* hash_file_multi() fails (not a regular file, too large, gone, no memory):
\* av_work_fn() skips the item.
HashFails(i) ==
    /\ i.op = "exec"
    /\ work' = work \ {i}
    /\ UNCHANGED <<procVars, jiffies, kills, tableVars, listVars>>

\* hash_is_trusted() takes trust_lock before behavior_lock is taken.
ReadTrust(i) ==
    /\ i.op = "exec"
    /\ work' = (work \ {i}) \cup
                  {[i EXCEPT !.op = IF i.file \in trust THEN "execTrusted"
                                    ELSE "execUntrusted"]}
    /\ UNCHANGED <<procVars, jiffies, kills, tableVars, listVars>>

av_behavior_record_exec(i) ==
    /\ i.op \in {"execTrusted", "execUntrusted"}
    /\ \E L \in get_or_create_entry(i.pid) :
          LET e == [L.entry EXCEPT !.exec = i.file, !.setBy = i.start,
                                   !.trusted = (i.op = "execTrusted")]
          IN Store(i.pid, L,
                   IF e.start = i.start THEN e
                   ELSE [e EXCEPT !.start = i.start, !.writes = {}, !.renames = {}])
    /\ work' = work \ {i}
    /\ UNCHANGED <<procVars, jiffies, kills, listVars>>

av_behavior_check_openat(i) ==
    /\ i.op = "open"
    /\ work' = work \ {i}
    /\ IF i.file \in Pseudo
       THEN UNCHANGED <<kills, tableVars>>
       ELSE \E L \in get_or_create_entry(i.pid) :
               LET R == L.entry.writes
                   counted == L.ok /\ ~L.entry.trusted /\ i.file \notin Noise
                   rapid == counted /\ Trips(R, i.file, WriteThreshold)
               IN /\ \E S \in IF counted
                              THEN sliding_window_note(R, i.file, i.start,
                                                       WriteThreshold)
                              ELSE {R} :
                        Store(i.pid, L, [L.entry EXCEPT !.writes = S])
                  /\ Detect(IF i.file \in Sensitive
                            THEN {Detection(i, "sensitive", {})}
                            ELSE IF rapid
                            THEN {Detection(i, "rapid", Touchers(R))} ELSE {})
    /\ UNCHANGED <<procVars, jiffies, listVars>>

av_behavior_check_unlink(i) ==
    /\ i.op = "unlink"
    /\ work' = work \ {i}
    /\ IF i.file \in Pseudo
       THEN UNCHANGED <<kills, tableVars>>
       ELSE \E L \in get_or_create_entry(i.pid) :
               /\ Store(i.pid, L, L.entry)
               /\ Detect(IF L.ok /\ L.entry.exec = i.file
                         THEN {Detection(i, "selfDelete", {L.entry.setBy})}
                         ELSE IF i.file \in Sensitive
                         THEN {Detection(i, "sensitive", {})} ELSE {})
    /\ UNCHANGED <<procVars, jiffies, listVars>>

av_behavior_check_rename(i) ==
    /\ i.op = "rename"
    /\ work' = work \ {i}
    /\ LET sensitive == i.file \in Sensitive \/ i.to \in Sensitive IN
       IF <<i.file, i.to>> \notin Appends
       THEN /\ Detect(IF sensitive THEN {Detection(i, "sensitive", {})} ELSE {})
            /\ UNCHANGED tableVars
       ELSE \E L \in get_or_create_entry(i.pid) :
               LET R == L.entry.renames
                   counted == L.ok /\ ~L.entry.trusted
                              /\ {i.file, i.to} \cap (Pseudo \cup Noise) = {}
                   rapid == counted /\ Trips(R, i.file, RenameThreshold)
               IN /\ \E S \in IF counted
                              THEN sliding_window_note(R, i.file, i.start,
                                                       RenameThreshold)
                              ELSE {R} :
                        Store(i.pid, L, [L.entry EXCEPT !.renames = S])
                  /\ Detect(IF sensitive THEN {Detection(i, "sensitive", {})}
                            ELSE IF rapid
                            THEN {Detection(i, "rapid", Touchers(R))} ELSE {})
    /\ UNCHANGED <<procVars, jiffies, listVars>>

-----------------------------------------------------------------------------
(* kill_with_reason(): after behavior_lock is dropped.                     *)

\* The task of the detection is still there.
Alive(k) == proc[k.pid] = k.start

\* Faulty variant: the protected list is not asked.
TargetNeverProtected(k) == FALSE

av_behavior_target_is_protected(k) == Alive(k) /\ exe[k.pid] \in protect

\* The PID 1 guard and the protected list end it, or it goes on to the signal.
\* Without memory for the target's path the list is not asked ("blind").
kill_with_reason(k) ==
    /\ k.stage = "check"
    /\ \E hasBuf \in BOOLEAN :
          kills' = (kills \ {k}) \cup
              IF k.pid = InitPid \/ (hasBuf /\ av_behavior_target_is_protected(k))
              THEN {} ELSE {[k EXCEPT !.stage = IF hasBuf THEN "signal" ELSE "blind"]}
    /\ UNCHANGED <<procVars, jiffies, work, tableVars, listVars>>

\* send_sig(SIGKILL) if pid_task() still finds the task.
SendSig(k) ==
    /\ k.stage \in {"signal", "blind"}
    /\ kills' = kills \ {k}
    /\ proc' = IF Alive(k) THEN [proc EXCEPT ![k.pid] = 0] ELSE proc
    /\ UNCHANGED <<exe, held, forks, exposed, jiffies, work, tableVars, listVars>>

-----------------------------------------------------------------------------
(* Garbage collection and the /proc lists.                                 *)

\* Faulty variants: a recycled pid keeps its old entry; its trust survives.
GcIgnoresRecycling ==
    LET gone == {p \in tracked : proc[p] = 0} IN
    /\ tracked' = tracked \ gone
    /\ count' = count - Cardinality(gone)
    /\ table' = [p \in Pids |-> IF p \in gone THEN ZeroEntry ELSE table[p]]
    /\ UNCHANGED <<procVars, jiffies, work, kills, listVars>>

GcKeepsTrust ==
    LET gone == {p \in tracked : proc[p] = 0}
        recycled == {p \in tracked \ gone : table[p].start \notin {0, proc[p]}}
    IN /\ tracked' = tracked \ gone
       /\ count' = count - Cardinality(gone)
       /\ table' = [p \in Pids |->
                      IF p \in gone THEN ZeroEntry
                      ELSE IF p \in recycled
                      THEN [ZeroEntry EXCEPT !.start = proc[p],
                                             !.trusted = table[p].trusted,
                                             !.touched = table[p].touched]
                      ELSE table[p]]
       /\ UNCHANGED <<procVars, jiffies, work, kills, listVars>>

\* behavior_gc_fn() holds behavior_lock over the whole walk.
behavior_gc_fn ==
    LET gone == {p \in tracked : proc[p] = 0}
        recycled == {p \in tracked \ gone : table[p].start \notin {0, proc[p]}}
    IN /\ tracked' = tracked \ gone
       /\ count' = count - Cardinality(gone)
       /\ table' = [p \in Pids |->
                      IF p \in gone THEN ZeroEntry
                      ELSE IF p \in recycled
                      THEN [ZeroEntry EXCEPT !.start = proc[p],
                                             !.touched = table[p].touched]
                      ELSE table[p]]
       /\ UNCHANGED <<procVars, jiffies, work, kills, listVars>>

av_behavior_trust_add(b) ==
    /\ b \notin trust
    /\ trust' = trust \cup {b}
    /\ vouched' = vouched \cup {b}
    /\ UNCHANGED <<procVars, jiffies, work, kills, tableVars, protect>>

av_behavior_trust_del(b) ==
    /\ b \in trust
    /\ trust' = trust \ {b}
    /\ UNCHANGED <<procVars, jiffies, work, kills, tableVars, protect, vouched>>

av_behavior_protect_add(b) ==
    /\ b \notin protect
    /\ protect' = protect \cup {b}
    /\ UNCHANGED <<procVars, jiffies, work, kills, tableVars, trust, vouched>>

av_behavior_protect_del(b) ==
    /\ b \in protect
    /\ protect' = protect \ {b}
    /\ exposed' = exposed \cup {p \in Pids : exe[p] = b}
    /\ UNCHANGED <<proc, exe, held, forks, jiffies, work, kills, tableVars, trust,
                   vouched>>

-----------------------------------------------------------------------------
Processes ==
    \E p \in Pids :
        \/ \E b \in Exes : Fork(p, b) \/ Exec(p, b)
        \/ Exit(p)
        \/ \E f \in Files : Touch("open", p, f, NoFile) \/ Touch("unlink", p, f, NoFile)
        \/ \E f, g \in Files : f # g /\ Touch("rename", p, f, g)

Work ==
    \E i \in work :
        \/ HashFails(i) \/ ReadTrust(i)
        \/ av_behavior_record_exec(i) \/ av_behavior_check_openat(i)
        \/ av_behavior_check_unlink(i) \/ av_behavior_check_rename(i)

Kill == \E k \in kills : kill_with_reason(k) \/ SendSig(k)

\* A write() to one of the two /proc files is one command; any other text is
\* refused and changes nothing.
trust_proc_write ==
    \E b \in Exes : av_behavior_trust_add(b) \/ av_behavior_trust_del(b)
protected_proc_write ==
    \E b \in Exes : av_behavior_protect_add(b) \/ av_behavior_protect_del(b)

Lists == trust_proc_write \/ protected_proc_write

Next ==
    \/ Processes \/ Work \/ Kill \/ Lists
    \/ Tick
    \/ \E p \in Pids : AgeOut(p)
    \/ behavior_gc_fn

Spec == Init /\ [][Next]_vars

\* The sweep runs again and again (queue_delayed_work() at its end).
FairSpec == Spec /\ WF_vars(behavior_gc_fn)

-----------------------------------------------------------------------------
(* Properties.                                                             *)

Ring == SUBSET (Files \X (Starts \cup {0}))
Entry == [start : {0} \cup Starts, exec : Exes \cup {NoFile}, setBy : {0} \cup Starts,
          trusted : BOOLEAN, writes : Ring, renames : Ring, touched : 0 .. MaxJiffies]

RingsFit(e) == /\ Cardinality(e.writes) <= WriteThreshold
               /\ Cardinality(e.renames) <= RenameThreshold

\* Every variable has its type, and no ring outgrows its array.
TypeOK ==
    /\ proc \in [Pids -> {0} \cup Starts]
    /\ exe \in [Pids -> Exes]
    /\ held \in [Pids -> SUBSET Starts] /\ exposed \subseteq Pids /\ tracked \subseteq Pids
    /\ forks \in 0 .. MaxStart
    /\ jiffies \in 0 .. MaxJiffies
    /\ count \in Int
    /\ \A p \in Pids : table[p] \in Entry /\ RingsFit(table[p])
    /\ trust \subseteq Exes /\ protect \subseteq Exes /\ vouched \subseteq Exes

\* behavior_table_count is the number of entries and never exceeds
\* MAX_BEHAVIOR_ENTRIES, through eviction, failed allocation and sweeps.
CountIsExact == count = Cardinality(tracked) /\ count <= MaxEntries

\* A detection rests on nothing but what tasks of the very pid it names have
\* done: eviction, reallocation, sweeps and work that runs late never carry
\* activity, or the path of a binary, from one pid's entry to another's.
JudgedByPid == \A k \in kills : k.basis \subseteq held[k.pid]

\* What the comment in behavior_gc_fn() claims (behavior.c:1273, "so the new
\* occupant is never judged on the previous process's activity"): no detection
\* of a living task rests on what another task did.
JudgedOnOwnActivity == \A k \in kills : Alive(k) => k.basis \subseteq {k.start}

\* An entry is exempt from counting only if it names the vouched-for binary
\* the exemption comes from: trust is never left behind without its binary.
TrustIsVouched ==
    \A p \in tracked : table[p].trusted => table[p].exec \in vouched

\* init is never killed by a detection, nor is a process that was on the
\* protected list for all of its life, however late the detection is carried
\* out (unless the check had no memory to look its path up).
GuardedNeverKilled ==
    [][\A k \in kills :
          (k \notin kills' /\ Alive(k) /\ proc'[k.pid] = 0)
              => k.pid # InitPid /\ (k.pid \in exposed \/ k.stage = "blind")]_vars

\* A stale entry does not stay: an entry recorded for a task that is gone is
\* swept or handed to the pid's new task.
StaleIsReclaimed ==
    \A p \in Pids, s \in Starts :
        (p \in tracked /\ table[p].start = s /\ proc[p] # s)
            ~> ~(p \in tracked /\ table[p].start = s /\ proc[p] # s)

-----------------------------------------------------------------------------
(* The inductive invariant.                                                *)

Items == [op : {"exec", "execTrusted", "execUntrusted", "open", "unlink", "rename"},
          pid : Pids, start : Starts, file : Files, to : Files \cup {NoFile}]
Detections == [pid : Pids, start : Starts, reason : {"sensitive", "rapid", "selfDelete"},
               basis : SUBSET ({0} \cup Starts), stage : {"check", "signal", "blind"}]

\* What is in flight has its type, only binaries are executed, and the rings
\* are finite.
FlightInv ==
    /\ work \subseteq Items /\ kills \subseteq Detections
    /\ \A i \in work : i.op \in {"exec", "execTrusted", "execUntrusted"} => i.file \in Exes
    /\ table \in [Pids -> Entry]
    /\ \A p \in Pids : IsFiniteSet(table[p].writes) /\ IsFiniteSet(table[p].renames)

\* Behind TrustIsVouched: a trust read before behavior_lock was taken, and
\* perhaps withdrawn since, was once given.
VouchInv ==
    /\ trust \subseteq vouched
    /\ \A i \in work : i.op = "execTrusted" => i.file \in vouched
    /\ TrustIsVouched

\* Behind GuardedNeverKilled: a task is as young as its start_time says, one
\* that is not protected now has been exposed, and the guard has let a
\* detection through only for a task that is exposed, or gone, when it can
\* look its path up.
GuardInv ==
    /\ \A p \in Pids : proc[p] <= forks
    /\ \A p \in Pids : proc[p] # 0 /\ exe[p] \notin protect => p \in exposed
    /\ \A i \in work : i.start <= forks
    /\ \A k \in kills :
          /\ k.start <= forks
          /\ k.stage # "check" => k.pid # InitPid
          /\ k.stage = "signal" /\ Alive(k) => k.pid \in exposed

IInv == TypeOK /\ FlightInv /\ CountIsExact /\ VouchInv /\ GuardInv

\* Behind JudgedByPid: whatever names p names tasks that had p.
Concerns(e, S) ==
    /\ \A r \in e.writes \cup e.renames : r[2] \in S
    /\ e.exec # NoFile => e.setBy \in S

PidInv ==
    /\ \A p \in Pids : /\ proc[p] # 0 => proc[p] \in held[p]
                       /\ Concerns(table[p], held[p])
    /\ \A i \in work : i.start \in held[i.pid]
    /\ JudgedByPid
=============================================================================
