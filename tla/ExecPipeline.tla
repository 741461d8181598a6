---------------------------- MODULE ExecPipeline ----------------------------
(***************************************************************************)
(* What happens to one execve(): av_work_fn() and hash_file_multi() of     *)
(* av/main.c with the signature table of av/sigtable.c and the             *)
(* daemon-unavailable policy, while the operator changes both.             *)
(*                                                                         *)
(* sig_lock makes av_sigtable_add(), _del() and _match() atomic.  The      *)
(* per-algorithm counts are read without it, before the file is hashed.    *)
(* A digest is modelled by the file and the algorithm it is made with: two *)
(* files have different digests, and hex_tolower() makes the spelling of a *)
(* signature immaterial.  The daemon's answer is that of ScanService.      *)
(***************************************************************************)
EXTENDS Integers, FiniteSets

CONSTANTS
    Workers,       \* workqueue threads
    Files,         \* contents that are executed or listed
    MaxSigEntries  \* MAX_SIG_ENTRIES

ASSUME WorkersAssumption == IsFiniteSet(Workers)
ASSUME FilesAssumption == IsFiniteSet(Files)
ASSUME MaxSigAssumption == MaxSigEntries \in Nat \ {0}

Algos == {"md5", "sha1", "sha256"}
Sigs == Algos \X Files
Policies == {"fail-open", "fail-closed"}

VARIABLES
    sigs,      \* sig_table: <<algorithm, file>>
    count,     \* sig_count
    algoCount, \* sig_count_algo
    policy,    \* av_daemon_fail_closed, by its name in /proc
    place,     \* per worker: place in av_work_fn()
    file,      \* per worker: the file its item is about
    target,    \* per worker: what av_kill() finds: init, a task it sees to be
               \* protected, nobody, or any other task
    active,    \* per worker: the algorithms hash_file_multi() computes
    outcome,   \* per worker: how its last item ended
    since,     \* history: algorithms under which the file has been listed
               \* ever since its item started
    asked,     \* history: the policy in force when the daemon was asked
    policies   \* history: the policies in force since the request failed, up
               \* to the end of the item

sigVars == <<sigs, count, algoCount>>
pipelineVars ==
    <<sigVars, policy, place, file, target, active, outcome, since, asked, policies>>

Listed(f) == {a \in Algos : <<a, f>> \in sigs}
Targets == {"normal", "protected", "init", "gone"}

PipelineInit ==
    /\ sigs = {} /\ count = 0 /\ algoCount = [a \in Algos |-> 0]
    /\ policy = "fail-open"
    /\ place = [w \in Workers |-> "idle"]
    /\ file \in [Workers -> Files]
    /\ target = [w \in Workers |-> "normal"]
    /\ active = [w \in Workers |-> {}]
    /\ outcome = [w \in Workers |-> "none"]
    /\ since = [w \in Workers |-> {}]
    /\ asked = [w \in Workers |-> "fail-open"]
    /\ policies = [w \in Workers |-> {}]

-----------------------------------------------------------------------------
(* The signature table.                                                    *)

\* A duplicate (-EEXIST) and a full table (-ENOSPC) change nothing.
av_sigtable_add(a, f) ==
    /\ <<a, f>> \notin sigs
    /\ count < MaxSigEntries
    /\ sigs' = sigs \cup {<<a, f>>}
    /\ count' = count + 1
    /\ algoCount' = [algoCount EXCEPT ![a] = @ + 1]
    /\ UNCHANGED <<policy, place, file, target, active, outcome, since, asked,
                   policies>>

\* Faulty variant: the count of the first algorithm is decremented whatever
\* the algorithm.
DelWrongCount(a, f) ==
    /\ <<a, f>> \in sigs
    /\ sigs' = sigs \ {<<a, f>>}
    /\ count' = count - 1
    /\ algoCount' = [algoCount EXCEPT !["md5"] = @ - 1]
    /\ since' = [w \in Workers |-> IF file[w] = f THEN since[w] \ {a} ELSE since[w]]
    /\ UNCHANGED <<policy, place, file, target, active, outcome, asked, policies>>

av_sigtable_del(a, f) ==
    /\ <<a, f>> \in sigs
    /\ sigs' = sigs \ {<<a, f>>}
    /\ count' = count - 1
    /\ algoCount' = [algoCount EXCEPT ![a] = @ - 1]
    /\ since' = [w \in Workers |-> IF file[w] = f THEN since[w] \ {a} ELSE since[w]]
    /\ UNCHANGED <<policy, place, file, target, active, outcome, asked, policies>>

\* daemon_policy_proc_write() with one of its two words; every other input is
\* -EINVAL and changes nothing.
daemon_policy_proc_write(word) ==
    /\ policy' = word
    /\ policies' = [w \in Workers |-> IF place[w] = "policy"
                                      THEN policies[w] \cup {word} ELSE policies[w]]
    /\ UNCHANGED <<sigVars, place, file, target, active, outcome, since, asked>>

-----------------------------------------------------------------------------
(* av_work_fn().                                                           *)

Go(w, p) == place' = [place EXCEPT ![w] = p]

\* The item ends.
End(w, how) ==
    /\ Go(w, "idle")
    /\ outcome' = [outcome EXCEPT ![w] = how]

\* av_kill(): the PID 1 guard, the protected list, and pid_task().
av_kill(w, why) ==
    End(w, IF target[w] \in {"init", "protected"} THEN "suppressed"
           ELSE IF target[w] = "gone" THEN "gone" ELSE why)

Begin(w, f, t) ==
    /\ place[w] = "idle"
    /\ Go(w, "sampleMd5")
    /\ file' = [file EXCEPT ![w] = f]
    /\ target' = [target EXCEPT ![w] = t]
    /\ active' = [active EXCEPT ![w] = {}]
    /\ outcome' = [outcome EXCEPT ![w] = "none"]
    /\ since' = [since EXCEPT ![w] = Listed(f)]
    /\ policies' = [policies EXCEPT ![w] = {}]
    /\ UNCHANGED <<sigVars, policy, asked>>

\* hash_file_multi(): need_md5, then need_sha1; SHA-256 always.
SampleMd5(w) ==
    /\ place[w] = "sampleMd5"
    /\ Go(w, "sampleSha1")
    /\ active' = [active EXCEPT ![w] = {"sha256"} \cup
                     IF algoCount["md5"] > 0 THEN {"md5"} ELSE {}]
    /\ UNCHANGED <<sigVars, policy, file, target, outcome, since, asked, policies>>

SampleSha1(w) ==
    /\ place[w] = "sampleSha1"
    /\ Go(w, "hash")
    /\ active' = [active EXCEPT ![w] = @ \cup
                     IF algoCount["sha1"] > 0 THEN {"sha1"} ELSE {}]
    /\ UNCHANGED <<sigVars, policy, file, target, outcome, since, asked, policies>>

\* Not a regular file, too large or growing, unreadable, no memory: skipped.
HashFails(w) ==
    /\ place[w] = "hash"
    /\ End(w, "skipped")
    /\ UNCHANGED <<sigVars, policy, file, target, active, since, asked, policies>>

\* The digests are made; then av_behavior_record_exec() (see Behavior).
HashDone(w) ==
    /\ place[w] = "hash"
    /\ Go(w, "match")
    /\ UNCHANGED <<sigVars, policy, file, target, active, outcome, since, asked,
                   policies>>

\* av_sigtable_match(): a digest that was not computed is the empty string
\* and matches nothing.
av_sigtable_match(w) == active[w] \cap Listed(file[w]) # {}

Match(w) ==
    /\ place[w] = "match"
    /\ IF av_sigtable_match(w)
       THEN av_kill(w, "signature") /\ UNCHANGED asked
       ELSE /\ Go(w, "ask")
            /\ asked' = [asked EXCEPT ![w] = policy]
            /\ UNCHANGED outcome
    /\ UNCHANGED <<sigVars, policy, file, target, active, since, policies>>

\* av_netlink_scan_request() answers, or fails, which leaves the decision to
\* the policy.
Ask(w, answer) ==
    /\ place[w] = "ask"
    /\ \/ answer = "malicious" /\ av_kill(w, "daemon") /\ UNCHANGED policies
       \/ answer = "clean" /\ End(w, "clean") /\ UNCHANGED policies
       \/ /\ answer = "failed"
          /\ Go(w, "policy")
          /\ policies' = [policies EXCEPT ![w] = {policy}]
          /\ UNCHANGED outcome
    /\ UNCHANGED <<sigVars, policy, file, target, active, since, asked>>

\* Faulty variant: the policy was sampled before the daemon was asked.
PolicyWhenAsked(w) == asked[w]

\* atomic_read(&av_daemon_fail_closed), after the request has failed.
PolicyRead(w) == policy

ReadPolicy(w) ==
    /\ place[w] = "policy"
    /\ IF PolicyRead(w) = "fail-closed" THEN av_kill(w, "failClosed")
       ELSE End(w, "failOpen")
    /\ UNCHANGED <<sigVars, policy, file, target, active, since, asked, policies>>

Item(w) ==
    \/ SampleMd5(w) \/ SampleSha1(w) \/ HashFails(w) \/ HashDone(w) \/ Match(w)
    \/ \E answer \in {"malicious", "clean", "failed"} : Ask(w, answer)
    \/ ReadPolicy(w)

\* One write() to /proc/kernel_av_sigs is one command; any other text is
\* refused and changes nothing.
sig_proc_write ==
    \E a \in Algos, f \in Files : av_sigtable_add(a, f) \/ av_sigtable_del(a, f)

PipelineNext ==
    \/ sig_proc_write
    \/ \E word \in Policies : daemon_policy_proc_write(word)
    \/ \E w \in Workers :
          \/ \E f \in Files, t \in Targets : Begin(w, f, t)
          \/ Item(w)

PipelineSpec == PipelineInit /\ [][PipelineNext]_pipelineVars

-----------------------------------------------------------------------------
(* Properties.                                                             *)

Places == {"idle", "sampleMd5", "sampleSha1", "hash", "match", "ask", "policy"}
Outcomes == {"none", "skipped", "suppressed", "gone", "signature", "daemon",
             "clean", "failClosed", "failOpen"}

\* Every variable has its type.
PipelineTypeOK ==
    /\ sigs \in SUBSET Sigs
    /\ count \in 0 .. MaxSigEntries
    /\ algoCount \in [Algos -> Int]
    /\ policy \in Policies
    /\ place \in [Workers -> Places]
    /\ file \in [Workers -> Files]
    /\ target \in [Workers -> Targets]
    /\ active \in [Workers -> SUBSET Algos]
    /\ outcome \in [Workers -> Outcomes]
    /\ since \in [Workers -> SUBSET Algos]
    /\ asked \in [Workers -> Policies]
    /\ policies \in [Workers -> SUBSET Policies]

Of(a) == {s \in sigs : s[1] = a}

\* sig_count and sig_count_algo, which hash_file_multi() relies on, are the
\* sizes of the table and of its parts.
CountsAreExact ==
    /\ count = Cardinality(sigs)
    /\ \A a \in Algos : algoCount[a] = Cardinality(Of(a))

\* A file with a signature that stays in the table from the start of its item
\* is stopped by it, although its digest may be skipped on an unlocked count.
PersistentSignatureStops ==
    [][\A w \in Workers :
          (place[w] = "match" /\ place'[w] = "ask") => since[w] = {}]_pipelineVars

\* An item without a verdict is let pass only if fail-open was in force, and
\* is treated as malicious only if fail-closed was, at some moment between the
\* failure of the request and the end of the item: the policy of verdict time
\* decides, whatever it was at launch or while the daemon was asked.
PolicyIsCurrent ==
    \A w \in Workers :
        (place[w] = "idle" /\ policies[w] # {})
            => (IF outcome[w] = "failOpen" THEN "fail-open" ELSE "fail-closed")
                  \in policies[w]

\* The inductive invariant: a digest is skipped only if the signatures of its
\* algorithm are all younger than the item.
SampleInv ==
    \A w \in Workers :
        /\ place[w] # "idle" => since[w] \subseteq Listed(file[w])
        /\ place[w] = "sampleSha1" => since[w] \cap {"md5", "sha256"} \subseteq active[w]
        /\ place[w] \in {"hash", "match"} => since[w] \subseteq active[w]
        /\ place[w] = "policy" => policy \in policies[w]
        /\ place[w] \notin {"idle", "policy"} => policies[w] = {}

PipelineInv == PipelineTypeOK /\ CountsAreExact /\ SampleInv /\ PolicyIsCurrent
=============================================================================
