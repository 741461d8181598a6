------------------------------- MODULE Reload -------------------------------
(***************************************************************************)
(* Loading, unloading and reloading the kernel module without losing its   *)
(* runtime state: av_init/av_exit (src/av/main.c) with the start and end   *)
(* of the behaviour tables (src/av/behavior.c), `avctl save` and `avctl    *)
(* load` (src/userspace/avctl/avctl.c), the operator's edits, and          *)
(* scripts/av-reload.sh, which strings them together.                      *)
(*                                                                         *)
(* A table entry is a model value; `entries' holds the signatures, trusted *)
(* hashes and protected paths of the running module, `policy' its          *)
(* daemon-unavailable policy.  A state file is an inode with the entries   *)
(* and policy dumped so far, and `missed', what they miss because a read   *)
(* failed and nobody noticed; the directory of the state file has the two  *)
(* names `base' and `tmp'.  A power loss keeps of the directory some       *)
(* version since its last fsync and of a file that was not synced          *)
(* possibly nothing; it empties the tables, which are memory only.         *)
(***************************************************************************)
EXTENDS Naturals, Sequences, FiniteSets, SequencesExt

CONSTANTS
    Sigs, Trusts, Protects,  \* what the three tables can hold
    Seed,                    \* the EICAR signature av_init adds itself
    MaxSig,                  \* MAX_SIG_ENTRIES
    Starts,                  \* table contents to start from
    Probes,                  \* the kprobes in the order av_init hooks them
    Savers, Script,          \* avctl save processes; the one of the script
    MaxSaves,                \* bound: saves begun
    MaxDisturbances          \* bound: failing calls, kills, removals, power
                             \* losses and the operator's edits, all together

ASSUME ReloadAssumption ==
    /\ Seed \in Sigs /\ Script \in Savers
    /\ Starts \subseteq [entries : SUBSET (Sigs \cup Trusts \cup Protects),
                         policy : {"fail-open", "fail-closed"}]
    /\ MaxSig \in Nat \ {0} /\ MaxSaves \in Nat /\ MaxDisturbances \in Nat

\* What av_init sets up before the first probe.
BaseOrder ==
    <<"sig_proc", "policy_proc", "seed", "trust_proc", "protect_proc", "gc_wq",
      "wq", "netlink">>

ASSUME ProbesAssumption ==
    /\ Probes \in Seq(STRING)
    /\ \A i, j \in DOMAIN Probes : Probes[i] = Probes[j] => i = j
    /\ Range(Probes) \cap Range(BaseOrder) = {}

VARIABLES
    phase, up, work, entries, policy,  \* the module
    file, dir, disk, next,             \* the state file's directory
    sv,                                \* the save processes
    sh, todo, errors,                  \* the script and its avctl load
    owed, armed,       \* ghost: what the reload under way must not lose
    raced, replaced, unsynced,         \* ghost: events outside its control
    disturbances                       \* count of the bounded events

kernel == <<phase, up, work, entries, policy>>
fs == <<file, dir, disk, next>>
script == <<sh, todo, errors>>
ghosts == <<owed, armed, raced, replaced, unsynced>>
vars == <<kernel, fs, sv, script, ghosts, disturbances>>

Entries == Sigs \cup Trusts \cup Protects
Policies == {"fail-open", "fail-closed"}
Unset == "unset"
Tables == <<Sigs, Trusts, Protects, {}>>
Procs == <<"sig_proc", "trust_proc", "protect_proc", "policy_proc">>
Inodes == 1 .. MaxSaves
Absent == 0

\* A step in which something goes wrong, or does not, as bad says.
Disturbed(bad) ==
    /\ bad => disturbances < MaxDisturbances
    /\ disturbances' = IF bad THEN disturbances + 1 ELSE disturbances

----------------------------------------------------------------------------
(* The module's life.  A stage is something av_init sets up.               *)

InitOrder == BaseOrder \o Probes

\* The error path of av_init undoes its stages in reverse; av_exit flushes the
\* work queue before it closes the verdict channel.
UnwindOrder == Reverse(InitOrder)

\* Faulty variant: the tables go before the work queue is flushed.
ExitTablesFirst ==
    Reverse(Probes)
      \o <<"netlink", "gc_wq", "protect_proc", "trust_proc", "seed", "wq",
           "policy_proc", "sig_proc">>

ExitOrder ==
    Reverse(Probes)
      \o <<"wq", "netlink", "gc_wq", "protect_proc", "trust_proc", "seed",
           "policy_proc", "sig_proc">>

\* The first stage of an order that is in S.
First(order, S) ==
    order[CHOOSE i \in DOMAIN order :
             order[i] \in S /\ \A j \in DOMAIN order : j < i => order[j] \notin S]

\* The stage that av_init has reached.
NextStage == First(InitOrder, Range(InitOrder) \ up)

\* av_sigtable_add(EICAR): a failure (already there, table full) is ignored.
Seeded ==
    IF Cardinality(entries \cap Sigs) < MaxSig THEN entries \cup {Seed} ELSE entries

InitStage ==
    /\ phase = "init"
    /\ up' = up \cup {NextStage}
    /\ entries' = IF NextStage = "seed" THEN Seeded ELSE entries
    /\ phase' = IF up' = Range(InitOrder) THEN "live" ELSE "init"
    /\ UNCHANGED <<work, policy, fs, sv, script, ghosts, disturbances>>

InitFails ==
    /\ phase = "init"
    /\ NextStage # "seed"
    /\ phase' = IF up = {} THEN "out" ELSE "unwind"
    /\ Disturbed(TRUE)
    /\ UNCHANGED <<up, work, entries, policy, fs, sv, script, ghosts>>

\* The entries a stage's end takes with it.  (When av_behavior_init itself
\* fails, entries written meanwhile are leaked rather than freed; either way
\* they are gone from the tables.)
FreedBy(stage) ==
    CASE stage = "sig_proc" -> Sigs
      [] stage = "trust_proc" -> Trusts
      [] stage = "protect_proc" -> Protects
      [] OTHER -> {}

\* destroy_workqueue() waits for the work that is queued or running.
Undo ==
    /\ phase \in {"unwind", "exit"}
    /\ LET stage == First(IF phase = "unwind" THEN UnwindOrder ELSE ExitOrder, up)
       IN  /\ stage = "wq" => ~work
           /\ up' = up \ {stage}
           /\ entries' = entries \ FreedBy(stage)
    /\ phase' = IF up' = {} THEN "out" ELSE phase
    /\ policy' = IF up' = {} THEN "fail-open" ELSE policy
    /\ UNCHANGED <<work, fs, sv, script, ghosts, disturbances>>

\* A hooked system call queues work that reads the tables and may ask the
\* daemon.  Work that comes and goes while nothing is set up or torn down is
\* EventIntake's subject.
Event ==
    /\ ~work /\ phase \in {"init", "unwind", "exit"}
    /\ up \cap Range(Probes) # {}
    /\ work' = TRUE
    /\ UNCHANGED <<phase, up, entries, policy, fs, sv, script, ghosts, disturbances>>

WorkDone ==
    /\ work
    /\ work' = FALSE
    /\ UNCHANGED <<phase, up, entries, policy, fs, sv, script, ghosts, disturbances>>

----------------------------------------------------------------------------
(* The directory of the state file.                                        *)

EmptyFile == [entries |-> {}, policy |-> Unset, full |-> FALSE, synced |-> FALSE,
              missed |-> {}]

\* Every version of the directory since its last fsync may be the one on disk.
SetDir(d) == dir' = d /\ disk' = disk \cup {d}

AboutToRename(s) == sv[s].pc = "rename"

\* The name tmp is unlinked, perhaps between another save's last look at it and
\* that save's rename.
UnlinkTmp(others) ==
    /\ SetDir([dir EXCEPT !.tmp = Absent])
    /\ raced' = (raced \/ \E t \in others : AboutToRename(t))

----------------------------------------------------------------------------
(* avctl save.                                                             *)

Off == [pc |-> "off", ino |-> Absent, k |-> 1, werr |-> FALSE, have |-> FALSE,
        rm |-> FALSE, ok |-> FALSE]

Step(s, pc) == sv' = [sv EXCEPT ![s].pc = pc]
Exit(s, ok) == sv' = [sv EXCEPT ![s] = [Off EXCEPT !.ok = ok]]
StillOurs(s) == dir.tmp = sv[s].ino

BeginSave(s) ==
    /\ sv[s].pc = "off" /\ next \in Inodes
    /\ sv' = [sv EXCEPT ![s] = [Off EXCEPT !.pc = "create", !.ino = next]]
    /\ next' = next + 1
    /\ UNCHANGED <<file, dir, disk>>

OperatorSaves(s) ==
    /\ s # Script
    /\ BeginSave(s)
    /\ UNCHANGED <<kernel, script, ghosts, disturbances>>

\* O_CREAT|O_EXCL: a tmp left by a killed save, or of a save under way, refuses.
CreateFails(s) ==
    /\ sv[s].pc = "create"
    /\ Exit(s, FALSE)
    /\ Disturbed(dir.tmp = Absent)
    /\ UNCHANGED <<kernel, fs, script, ghosts>>

\* When fdopen() fails the new name is unlinked at once.
CreateTmp(s) ==
    /\ sv[s].pc = "create"
    /\ dir.tmp = Absent
    /\ SetDir([dir EXCEPT !.tmp = sv[s].ino])
    /\ file' = [file EXCEPT ![sv[s].ino] = EmptyFile]
    /\ \E stream \in BOOLEAN :
         /\ sv' = [sv EXCEPT ![s].pc = IF stream THEN "dump" ELSE "clean",
                             ![s].rm = ~stream]
         /\ Disturbed(~stream)
    /\ UNCHANGED <<kernel, next, script, ghosts>>

\* What there is to read.
Held(k) == IF k = 4 THEN {policy} ELSE entries \cap Tables[k]

\* One table is read as a whole (single_open) and written out.  The loop ends
\* alike at the end of the table and when its read fails, and the save goes on;
\* a write error is remembered, into a file of which nothing is known.
DumpTable(s) ==
    /\ sv[s].pc = "dump"
    /\ Procs[sv[s].k] \in up
    /\ \E bad \in BOOLEAN, read \in BOOLEAN :
         LET r == sv[s]
             werr == r.werr \/ bad
             dumped == [EmptyFile EXCEPT
                          !.entries = file[r.ino].entries
                                       \cup IF read THEN entries \cap Tables[r.k] ELSE {},
                          !.policy = IF r.k = 4 /\ read THEN policy ELSE Unset,
                          !.full = r.k = 4,
                          !.missed = file[r.ino].missed \cup IF read THEN {} ELSE Held(r.k)]
         IN  /\ file' = [file EXCEPT ![r.ino] = IF werr THEN EmptyFile ELSE dumped]
             /\ sv' = [sv EXCEPT ![s].werr = werr,
                                 ![s].k = IF r.k = 4 THEN 1 ELSE r.k + 1,
                                 ![s].pc = IF r.k = 4 THEN "sync" ELSE "dump"]
             /\ Disturbed(bad \/ ~read)
    /\ UNCHANGED <<kernel, dir, disk, next, script, ghosts>>

\* The table's /proc file is not there: save_abort() looks whose tmp it is.
save_abort(s) ==
    /\ sv[s].pc = "dump"
    /\ Procs[sv[s].k] \notin up
    /\ sv' = [sv EXCEPT ![s].pc = "clean", ![s].rm = StillOurs(s)]
    /\ UNCHANGED <<kernel, fs, script, ghosts, disturbances>>

\* fflush() and fsync().
SyncTmp(s) ==
    /\ sv[s].pc = "sync"
    /\ \E bad \in BOOLEAN :
         /\ file' = [file EXCEPT ![sv[s].ino].synced = ~bad]
         /\ sv' = [sv EXCEPT ![s].pc = "check", ![s].werr = @ \/ bad]
         /\ Disturbed(bad)
    /\ UNCHANGED <<kernel, dir, disk, next, script, ghosts>>

\* The identity check on the open stream, fstat() and fclose().
CheckTmp(s) ==
    /\ sv[s].pc = "check"
    /\ \E have \in BOOLEAN, bad \in BOOLEAN :
         /\ sv' = [sv EXCEPT ![s].pc = "recheck", ![s].have = have,
                             ![s].werr = @ \/ ~StillOurs(s) \/ bad]
         /\ Disturbed(bad \/ ~have)
    /\ UNCHANGED <<kernel, fs, script, ghosts>>

\* Faulty variant: whose name it is was seen before, and is not looked at again.
RecheckTrusting(s) ==
    /\ sv[s].pc = "recheck"
    /\ sv' = [sv EXCEPT ![s].pc = IF sv[s].have /\ ~sv[s].werr THEN "rename" ELSE "clean",
                        ![s].rm = TRUE]
    /\ UNCHANGED <<kernel, fs, script, ghosts, disturbances>>

\* The last look at the name before rename, or before the clean-up of a save
\* that failed.
Recheck(s) ==
    /\ sv[s].pc = "recheck"
    /\ LET ours == sv[s].have /\ StillOurs(s)
           install == ours /\ ~sv[s].werr
       IN  sv' = [sv EXCEPT ![s].pc = IF install THEN "rename" ELSE "clean",
                            ![s].rm = ours \/ ~sv[s].have]
    /\ UNCHANGED <<kernel, fs, script, ghosts, disturbances>>

RenameTmp(s) ==
    /\ AboutToRename(s)
    /\ dir.tmp # Absent
    /\ SetDir([base |-> dir.tmp, tmp |-> Absent])
    /\ Step(s, "dirsync")
    /\ replaced' = (replaced \/ (armed /\ s # Script))
    /\ UNCHANGED <<kernel, file, next, script, owed, armed, raced, unsynced, disturbances>>

RenameFails(s) ==
    /\ AboutToRename(s)
    /\ sv' = [sv EXCEPT ![s].pc = "clean", ![s].rm = sv[s].have /\ StillOurs(s)]
    /\ Disturbed(dir.tmp # Absent)
    /\ UNCHANGED <<kernel, fs, script, ghosts>>

\* unlinkat(tmp) where the code decided to; exit status 1.
CleanUp(s) ==
    /\ sv[s].pc = "clean"
    /\ IF sv[s].rm /\ dir.tmp # Absent
       THEN UnlinkTmp(Savers \ {s})
       ELSE UNCHANGED <<dir, disk, raced>>
    /\ Exit(s, FALSE)
    /\ UNCHANGED <<kernel, file, next, script, owed, armed, replaced, unsynced, disturbances>>

\* Faulty variant: no fsync of the directory.
SyncDirOmitted(s) ==
    /\ sv[s].pc = "dirsync"
    /\ armed' = (armed \/ s = Script)
    /\ Exit(s, TRUE)
    /\ UNCHANGED <<kernel, fs, script, owed, raced, replaced, unsynced, disturbances>>

\* fsync() of the directory; a failure only warns.  Exit status 0.
SyncDir(s) ==
    /\ sv[s].pc = "dirsync"
    /\ \E synced \in BOOLEAN :
         /\ disk' = IF synced THEN {dir} ELSE disk
         /\ unsynced' = IF s = Script THEN ~synced ELSE unsynced
         /\ Disturbed(~synced)
    /\ armed' = (armed \/ s = Script)
    /\ Exit(s, TRUE)
    /\ UNCHANGED <<kernel, file, dir, next, script, owed, raced, replaced>>

\* SIGKILL: whatever the save had created stays.
KillSave(s) ==
    /\ sv[s].pc # "off"
    /\ Exit(s, FALSE)
    /\ Disturbed(TRUE)
    /\ UNCHANGED <<kernel, fs, script, ghosts>>

----------------------------------------------------------------------------
(* scripts/av-reload.sh.                                                   *)

Nothing == [entries |-> {}, policy |-> Unset]

\* What do_load() has before it, and what it and the dump have missed.
NothingToDo == [entries |-> {}, policy |-> Unset, missed |-> {}]

StartWithModule ==
    /\ sh = "idle" /\ phase = "live"
    /\ BeginSave(Script)
    /\ sh' = "save"
    /\ owed' = [entries |-> entries, policy |-> policy]
    /\ armed' = FALSE /\ replaced' = FALSE /\ unsynced' = FALSE
    /\ UNCHANGED <<kernel, todo, errors, raced, disturbances>>

StartWithoutModule ==
    /\ sh = "idle" /\ phase = "out"
    /\ sh' = "insmod" /\ phase' = "init"
    /\ UNCHANGED <<up, work, entries, policy, fs, sv, todo, errors, ghosts, disturbances>>

\* Faulty variant: the exit status of the save is not looked at.
SaveIgnored ==
    /\ sh = "save" /\ sv[Script].pc = "off"
    /\ sh' = "rmmod"
    /\ UNCHANGED <<kernel, fs, sv, todo, errors, ghosts, disturbances>>

\* A failed save aborts before rmmod.
SaveReturns ==
    /\ sh = "save" /\ sv[Script].pc = "off"
    /\ sh' = IF sv[Script].ok THEN "rmmod" ELSE "failed"
    /\ owed' = IF sv[Script].ok THEN owed ELSE Nothing
    /\ UNCHANGED <<kernel, fs, sv, todo, errors, armed, raced, replaced, unsynced, disturbances>>

Rmmod ==
    /\ sh = "rmmod"
    /\ sh' = "unload" /\ phase' = "exit"
    /\ UNCHANGED <<up, work, entries, policy, fs, sv, todo, errors, ghosts, disturbances>>

\* The old module, and its tables, stay.
RmmodFails ==
    /\ sh = "rmmod"
    /\ sh' = "failed" /\ owed' = Nothing /\ armed' = FALSE
    /\ Disturbed(TRUE)
    /\ UNCHANGED <<kernel, fs, sv, todo, errors, raced, replaced, unsynced>>

Insmod ==
    /\ sh = "unload" /\ phase = "out"
    /\ sh' = "insmod" /\ phase' = "init"
    /\ UNCHANGED <<up, work, entries, policy, fs, sv, todo, errors, ghosts, disturbances>>

InsmodReturns ==
    /\ sh = "insmod"
    /\ \/ phase = "out" /\ sh' = "failed" /\ UNCHANGED todo
       \/ phase = "live" /\ dir.base = Absent /\ sh' = "done" /\ UNCHANGED todo
       \/ /\ phase = "live" /\ dir.base # Absent /\ sh' = "load"
          /\ todo' = [entries |-> file[dir.base].entries, policy |-> file[dir.base].policy,
                      missed |-> file[dir.base].missed]
    /\ errors' = FALSE
    /\ UNCHANGED <<kernel, fs, sv, ghosts, disturbances>>

\* do_load() cannot open the state file; exit status 1.
OpenStateFails ==
    /\ sh = "insmod" /\ phase = "live" /\ dir.base # Absent
    /\ sh' = "failed" /\ errors' = FALSE
    /\ Disturbed(TRUE)
    /\ UNCHANGED <<kernel, fs, sv, todo, ghosts>>

\* What the /proc handlers answer to the line of an entry: a duplicate
\* signature or path is -EEXIST, which load skips; a duplicate trusted hash is
\* -EINVAL; the signature table has a limit.
Skipped(e) == e \in entries \ Trusts
Refused(e) ==
    \/ e \in entries \cap Trusts
    \/ e \in Sigs \ entries /\ Cardinality(entries \cap Sigs) >= MaxSig

\* do_load() replays the dump in the order of its lines; a line that fails is
\* counted and the rest is replayed.
LoadEntry ==
    /\ sh = "load" /\ todo.entries # {}
    /\ LET k == CHOOSE i \in 1 .. 3 :
                  /\ todo.entries \cap Tables[i] # {}
                  /\ \A j \in 1 .. i - 1 : todo.entries \cap Tables[j] = {}
       IN \E e \in todo.entries \cap Tables[k] :
            /\ todo' = [todo EXCEPT !.entries = @ \ {e}]
            /\ \/ Skipped(e) /\ UNCHANGED <<entries, errors, disturbances>>
               \/ /\ ~Skipped(e) /\ ~Refused(e)
                  /\ entries' = entries \cup {e} /\ UNCHANGED <<errors, disturbances>>
               \/ /\ ~Skipped(e) /\ Disturbed(~Refused(e))
                  /\ errors' = TRUE /\ UNCHANGED entries
    /\ UNCHANGED <<phase, up, work, policy, fs, sv, sh, ghosts>>

LoadPolicy ==
    /\ sh = "load" /\ todo.entries = {} /\ todo.policy # Unset
    /\ todo' = [todo EXCEPT !.policy = Unset]
    /\ \/ policy' = todo.policy /\ UNCHANGED <<errors, disturbances>>
       \/ errors' = TRUE /\ Disturbed(TRUE) /\ UNCHANGED policy
    /\ UNCHANGED <<phase, up, work, entries, fs, sv, sh, ghosts>>

\* A read of the state file fails: the loop ends like at the end of the file.
LoadStops ==
    /\ sh = "load"
    /\ todo' = [NothingToDo EXCEPT !.missed = todo.missed \cup todo.entries \cup {todo.policy}]
    /\ Disturbed(TRUE)
    /\ UNCHANGED <<kernel, fs, sv, sh, errors, ghosts>>

LoadReturns ==
    /\ sh = "load" /\ todo.entries = {} /\ todo.policy = Unset
    /\ sh' = IF errors THEN "failed" ELSE "done"
    /\ UNCHANGED <<kernel, fs, sv, todo, errors, ghosts, disturbances>>

\* After a failed insmod or load the state is still owed by the file.
Finish ==
    /\ sh \in {"done", "failed"}
    /\ sh' = "idle" /\ todo' = NothingToDo /\ errors' = FALSE
    /\ owed' = IF sh = "done" THEN Nothing ELSE owed
    /\ armed' = (armed /\ sh # "done")
    /\ UNCHANGED <<kernel, fs, sv, raced, replaced, unsynced, disturbances>>

----------------------------------------------------------------------------
(* The operator's own commands, and a power loss.                          *)

\* write_command_to(): one write to the table's /proc file, if it is there.
Command(k) ==
    /\ Procs[k] \in up
    /\ Disturbed(TRUE)
    /\ UNCHANGED <<phase, up, work, fs, sv, script, armed, raced, replaced, unsynced>>

Add(k) ==
    /\ Command(k)
    /\ \E e \in Tables[k] \ entries : ~Refused(e) /\ entries' = entries \cup {e}
    /\ UNCHANGED <<policy, owed>>

Del(k) ==
    /\ Command(k)
    /\ \E e \in Tables[k] \cap entries :
         /\ entries' = entries \ {e}
         /\ owed' = [owed EXCEPT !.entries = @ \ {e}]
    /\ UNCHANGED policy

AddOrDelSignature == Add(1) \/ Del(1)
do_trust == Add(2) \/ Del(2)
do_protect == Add(3) \/ Del(3)

do_policy ==
    /\ Command(4)
    /\ \E p \in Policies : p # policy /\ policy' = p
    /\ owed' = [owed EXCEPT !.policy = Unset]
    /\ UNCHANGED entries

\* "remove it first": the operator removes a tmp, stale or not.
RemoveTmp ==
    /\ dir.tmp # Absent
    /\ Disturbed(TRUE)
    /\ UnlinkTmp(Savers)
    /\ UNCHANGED <<kernel, file, next, sv, script, owed, armed, replaced, unsynced>>

Crash ==
    /\ Disturbed(TRUE)
    /\ dir' \in disk /\ disk' = {dir'}
    /\ \E cut \in SUBSET {i \in Inodes : ~file[i].synced} :
         file' = [i \in Inodes |-> IF i \in cut THEN EmptyFile ELSE file[i]]
    /\ phase' = "out" /\ up' = {} /\ work' = FALSE
    /\ entries' = {} /\ policy' = "fail-open"
    /\ sv' = [s \in Savers |-> Off]
    /\ sh' = "idle" /\ todo' = NothingToDo /\ errors' = FALSE
    /\ armed' = (armed /\ ~unsynced)
    /\ owed' = IF armed' THEN owed ELSE Nothing
    /\ unsynced' = FALSE
    /\ UNCHANGED <<next, raced, replaced>>

----------------------------------------------------------------------------
\* The module is not loaded, or is and has been edited.
Init ==
    /\ \/ phase = "out" /\ up = {} /\ entries = {} /\ policy = "fail-open"
       \/ /\ phase = "live" /\ up = Range(InitOrder)
          /\ \E s \in Starts : entries = s.entries /\ policy = s.policy
    /\ work = FALSE
    /\ file = [i \in Inodes |-> EmptyFile] /\ next = 1
    /\ dir = [base |-> Absent, tmp |-> Absent] /\ disk = {dir}
    /\ sv = [s \in Savers |-> Off]
    /\ sh = "idle" /\ todo = NothingToDo /\ errors = FALSE
    /\ owed = Nothing /\ armed = FALSE
    /\ raced = FALSE /\ replaced = FALSE /\ unsynced = FALSE
    /\ disturbances = 0

ModuleNext == InitStage \/ InitFails \/ Undo \/ Event \/ WorkDone

SaveNext(s) ==
    \/ OperatorSaves(s) \/ CreateFails(s) \/ CreateTmp(s) \/ DumpTable(s) \/ save_abort(s)
    \/ SyncTmp(s) \/ CheckTmp(s) \/ Recheck(s) \/ RenameTmp(s) \/ RenameFails(s)
    \/ CleanUp(s) \/ SyncDir(s) \/ KillSave(s)

ScriptNext ==
    \/ StartWithModule \/ StartWithoutModule \/ SaveReturns \/ Rmmod \/ RmmodFails
    \/ Insmod \/ InsmodReturns \/ OpenStateFails \/ LoadEntry \/ LoadPolicy \/ LoadStops
    \/ LoadReturns \/ Finish

OperatorNext == AddOrDelSignature \/ do_trust \/ do_protect \/ do_policy \/ RemoveTmp

Next == ModuleNext \/ (\E s \in Savers : SaveNext(s)) \/ ScriptNext \/ OperatorNext \/ Crash

Spec == Init /\ [][Next]_vars

----------------------------------------------------------------------------
(* Properties.                                                             *)

Whole(i) == i # Absent => file[i].full /\ file[i].synced

\* The state file is always absent or a dump that went to its end and is on
\* disk, in every version of the directory a power loss may leave, whatever
\* saves fail, are killed or overlap - as long as nobody unlinks tmp between a
\* save's last look at it and its rename (do_save, avctl.c).
FileIsWhole == ~raced => \A d \in disk : Whole(d.base)

\* What is owed is in the file, or escaped a read that failed while it was made.
Covers(d) ==
    /\ d.base # Absent
    /\ owed.entries \subseteq file[d.base].entries \cup file[d.base].missed
    /\ owed.policy \in {Unset, file[d.base].policy} \cup file[d.base].missed

\* From the moment `avctl save' reports success to the script until the reload
\* is done, every entry that has been there since the save began, and the
\* policy, is in the state file, also after a power loss, unless the directory
\* could not be synced, another save replaced the file (av-reload.sh), or this
\* very entry was to be read from /proc when that failed.
StateNeverLost ==
    armed /\ ~raced /\ ~replaced =>
        \A d \in IF unsynced THEN {dir} ELSE disk : Covers(d)

\* A reload that reports `done' has put back every entry that was in the tables
\* when its save began and that nobody deleted since, and the policy, but for
\* what escaped a failing read of its save or of its load.
ReloadRestores ==
    sh = "done" /\ ~raced /\ ~replaced =>
      /\ owed.entries \subseteq entries \cup todo.missed
      /\ owed.policy \in {Unset, policy} \cup todo.missed

\* No mid-dump failure, "a /proc read that goes away" among them, leaves a
\* truncated file behind an exit status 0 (comment of do_save, avctl.c:285):
\* the file of a successful save has all that is owed.
SaveIsComplete ==
    armed /\ ~raced /\ ~replaced =>
        /\ owed.entries \subseteq file[dir.base].entries
        /\ owed.policy \in {Unset, file[dir.base].policy}

\* "reload the av kernel module without losing its runtime state" (av-reload.sh):
\* from a complete state file, a reload that reports `done' has put all back.
LoadIsComplete ==
    sh = "done" /\ ~raced /\ ~replaced /\ (dir.base # Absent => file[dir.base].missed = {}) =>
        owed.entries \subseteq entries /\ owed.policy \in {Unset, policy}

\* Work queued by a probe runs only while the tables it reads exist, on every
\* way down from a partial av_init and in av_exit.
WorkHasItsTables ==
    work => {"sig_proc", "trust_proc", "protect_proc", "gc_wq", "wq"} \subseteq up

----------------------------------------------------------------------------
(* The inductive invariant.                                                *)

Names == [base : Inodes \cup {Absent}, tmp : Inodes \cup {Absent}]
Dumps == [entries : SUBSET Entries, policy : Policies \cup {Unset}]
Misses == SUBSET (Entries \cup Policies \cup {Unset})
Replays == [entries : SUBSET Entries, policy : Policies \cup {Unset}, missed : Misses]
SavePlaces == {"off", "create", "dump", "sync", "check", "recheck", "rename", "dirsync",
               "clean"}

\* Every variable has its type.
TypeOK ==
    /\ phase \in {"out", "init", "live", "unwind", "exit"} /\ up \subseteq Range(InitOrder)
    /\ work \in BOOLEAN /\ entries \subseteq Entries /\ policy \in Policies
    /\ file \in [Inodes -> [entries : SUBSET Entries, policy : Policies \cup {Unset},
                            full : BOOLEAN, synced : BOOLEAN, missed : Misses]]
    /\ dir \in Names /\ disk \subseteq Names /\ next \in 1 .. MaxSaves + 1
    /\ sv \in [Savers -> [pc : SavePlaces, ino : Inodes \cup {Absent}, k : 1 .. 4,
                          werr : BOOLEAN, have : BOOLEAN, rm : BOOLEAN, ok : BOOLEAN]]
    /\ sh \in {"idle", "save", "rmmod", "unload", "insmod", "load", "done", "failed"}
    /\ todo \in Replays /\ errors \in BOOLEAN
    /\ owed \in Dumps /\ armed \in BOOLEAN /\ raced \in BOOLEAN /\ replaced \in BOOLEAN
    /\ unsynced \in BOOLEAN /\ disturbances \in Nat

\* Behind WorkHasItsTables: on the way up and on the way back a stage is there
\* only if all before it are, on the way out only if all after it are; the
\* queue is there as long as there is work in it.
StageInv ==
    /\ phase = "live" => up = Range(InitOrder)
    /\ phase = "out" => up = {}
    /\ phase = "init" => up # Range(InitOrder)
    /\ phase \in {"unwind", "exit"} => up # {}
    /\ phase \in {"init", "unwind"} =>
          \A i, j \in DOMAIN InitOrder : j < i /\ InitOrder[i] \in up => InitOrder[j] \in up
    /\ phase = "exit" =>
          \A i, j \in DOMAIN ExitOrder : i < j /\ ExitOrder[i] \in up => ExitOrder[j] \in up
    /\ work => "wq" \in up

\* Only the script loads and unloads, and it waits for that.
PhaseInv ==
    /\ sh \in {"save", "rmmod", "load", "done"} => phase = "live"
    /\ sh = "unload" => phase \in {"exit", "out"}
    /\ sh = "insmod" => phase # "exit"
    /\ sh \in {"idle", "failed"} => phase \in {"live", "out"}

\* Behind FileIsWhole: inodes are given out once and written by the save that
\* has them only; a save about to rename owns the name tmp, and what it will
\* install is complete and on disk.
Running(s) == sv[s].pc # "off"
Writing(s) == sv[s].pc \in {"create", "dump", "sync"}

InodeInv ==
    /\ dir \in disk
    /\ \A d \in disk : d.base < next /\ d.tmp < next
    /\ \A s \in Savers : Running(s) => sv[s].ino \in 1 .. next - 1
    /\ \A s, t \in Savers : s # t /\ Running(s) /\ Running(t) => sv[s].ino # sv[t].ino

SaveInv ==
    \A s \in Savers :
        /\ sv[s].pc \in {"sync", "check", "recheck", "rename"} /\ ~sv[s].werr =>
              file[sv[s].ino].full
        /\ sv[s].pc \in {"check", "recheck", "rename"} /\ ~sv[s].werr =>
              file[sv[s].ino].synced
        /\ sv[s].pc = "create" => sv[s].k = 1
        /\ AboutToRename(s) => ~sv[s].werr

WholeInv ==
    ~raced => /\ \A d \in disk : /\ Whole(d.base)
                                 /\ \A s \in Savers : Writing(s) => sv[s].ino # d.base
              /\ \A s \in Savers : AboutToRename(s) => StillOurs(s)

\* Behind StateNeverLost: what a save has dumped so far holds what is owed, for
\* the script's save, and for any other that got hold of tmp after it.
Filled(s) ==
    /\ sv[s].pc = "dump" =>
          \A i \in 1 .. sv[s].k - 1 :
              owed.entries \cap Tables[i]
                  \subseteq file[sv[s].ino].entries \cup file[sv[s].ino].missed
    /\ sv[s].pc \in {"sync", "check", "recheck", "rename"} =>
          /\ owed.entries \subseteq file[sv[s].ino].entries \cup file[sv[s].ino].missed
          /\ owed.policy \in {Unset, file[sv[s].ino].policy} \cup file[sv[s].ino].missed

DumpInv ==
    \A s \in Savers :
        (s = Script \/ sv[Script].pc = "dirsync") /\ StillOurs(s) /\ ~sv[s].werr => Filled(s)

OwedInv ==
    /\ sh \in {"save", "rmmod"} => owed.entries \subseteq entries /\ owed.policy \in {Unset, policy}
    /\ Running(Script) => sh = "save" /\ ~armed
    /\ sh = "save" /\ sv[Script].ok => armed
    /\ ~armed /\ sh # "save" => owed = Nothing

KeepInv ==
    /\ sv[Script].pc = "dirsync" /\ ~raced => Covers(dir)
    /\ armed /\ ~raced /\ ~replaced => \A d \in IF unsynced THEN {dir} ELSE disk : Covers(d)

\* Behind ReloadRestores: what is owed is back, or still to be replayed.
LoadInv ==
    sh = "load" /\ ~errors /\ ~raced /\ ~replaced =>
        /\ owed.entries \subseteq entries \cup todo.entries \cup todo.missed
        /\ owed.policy \in {Unset, IF todo.policy = Unset THEN policy ELSE todo.policy}
                              \cup todo.missed

FileInv == TypeOK /\ InodeInv /\ SaveInv /\ WholeInv
IInv == /\ FileInv /\ StageInv /\ PhaseInv
        /\ DumpInv /\ OwedInv /\ KeepInv /\ LoadInv /\ ReloadRestores
=============================================================================
