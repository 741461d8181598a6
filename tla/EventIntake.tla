----------------------------- MODULE EventIntake -----------------------------
(***************************************************************************)
(* How a hooked system call becomes a work item: the kprobe pre-handlers   *)
(* and the work functions of av/main.c, their admission control            *)
(* (av_inflight_work) and the references they hold.                        *)
(*                                                                         *)
(* An event is one invocation of a pre-handler, on some CPU, and the work  *)
(* item it queues.  The only state that events share is the counter        *)
(* av_inflight_work, an atomic_t, so one step is one atomic operation on   *)
(* it with the event's own, unshared work around it.  What a work function *)
(* does with its event is the subject of other modules.                    *)
(***************************************************************************)
EXTENDS Integers, FiniteSets

CONSTANTS
    Events,        \* hook invocations that can be in flight together
    MaxInflight,   \* AV_MAX_INFLIGHT_WORK
    ExecReserved,  \* AV_EXEC_RESERVED_WORK
    MaxActive      \* av_wq_max_active

ASSUME EventsAssumption == IsFiniteSet(Events)
ASSUME CapAssumption ==
    /\ MaxInflight \in Nat \ {0}
    /\ ExecReserved \in 0 .. MaxInflight
ASSUME MaxActiveAssumption == MaxActive \in Nat \ {0}

-----------------------------------------------------------------------------
(* The hooks.  Each takes references to directories ("base", "newBase")    *)
(* before it asks for a slot, then allocates its work struct ("mem") and   *)
(* takes a pid reference.  A hook is described by what it releases on each *)
(* way out:                                                                *)
(*   first     held when its last directory may turn out not to resolve    *)
(*   noDfd     dropped when it does not                                    *)
(*   before    held when it asks for a slot                                *)
(*   rejected  dropped when the slot is refused                            *)
(*   noMem     dropped when kmalloc(GFP_ATOMIC) fails                      *)
(*   badPath   dropped when strncpy_from_user() fails or truncates         *)
(*   after     taken last, before queue_work()                             *)
(*   workNoMem dropped when the work function cannot allocate              *)
(*   done      dropped at the end of the work function                     *)

\* resolve_dfd_path(): a reference to the base directory, or nothing.
Base == {"base"}

handler_pre ==
    [exec |-> TRUE, first |-> {}, noDfd |-> {}, before |-> {},
     rejected |-> {}, noMem |-> {"slot"}, badPath |-> {"mem", "slot"},
     after |-> {"pid", "base"}]

handler_pre_execveat ==
    [exec |-> TRUE, first |-> {}, noDfd |-> {}, before |-> Base,
     rejected |-> Base, noMem |-> {"base", "slot"},
     badPath |-> {"base", "mem", "slot"}, after |-> {"pid"}]

handler_pre_openat ==
    [exec |-> FALSE, first |-> {}, noDfd |-> {}, before |-> Base,
     rejected |-> Base, noMem |-> {"base", "slot"},
     badPath |-> {"base", "mem", "slot"}, after |-> {"pid"}]

schedule_unlink_work ==
    [exec |-> FALSE, first |-> {}, noDfd |-> {}, before |-> Base,
     rejected |-> Base, noMem |-> {"base", "slot"},
     badPath |-> {"base", "mem", "slot"}, after |-> {"pid"}]

\* Faulty variant: when the second directory does not resolve, the first is
\* not put.
RenameLeaksFirst ==
    [exec |-> FALSE, first |-> {"base"}, noDfd |-> {},
     before |-> {"base", "newBase"}, rejected |-> {"base", "newBase"},
     noMem |-> {"base", "newBase", "slot"},
     badPath |-> {"base", "newBase", "mem", "slot"}, after |-> {"pid"}]

schedule_rename_work ==
    [exec |-> FALSE, first |-> {"base"}, noDfd |-> {"base"},
     before |-> {"base", "newBase"}, rejected |-> {"base", "newBase"},
     noMem |-> {"base", "newBase", "slot"},
     badPath |-> {"base", "newBase", "mem", "slot"}, after |-> {"pid"}]

\* The work functions: what is dropped if their own allocation fails, and at
\* their end.
av_work_fn ==
    [workNoMem |-> {"base", "pid", "mem", "slot"},
     done |-> {"base", "pid", "mem", "slot"}]

av_openat_work_fn ==
    [workNoMem |-> {"base", "pid", "mem", "slot"},
     done |-> {"base", "pid", "mem", "slot"}]

av_unlink_work_fn ==
    [workNoMem |-> {"base", "pid", "mem", "slot"},
     done |-> {"base", "pid", "mem", "slot"}]

av_rename_work_fn ==
    [workNoMem |-> {"base", "newBase", "pid", "mem", "slot"},
     done |-> {"base", "newBase", "pid", "mem", "slot"}]

Hooks == {"execve", "execveat", "openat", "unlink", "rename"}

Handler == [k \in Hooks |-> CASE k = "execve" -> handler_pre
                              [] k = "execveat" -> handler_pre_execveat
                              [] k = "openat" -> handler_pre_openat
                              [] k = "unlink" -> schedule_unlink_work
                              [] k = "rename" -> schedule_rename_work]

WorkFn == [k \in Hooks |-> CASE k = "openat" -> av_openat_work_fn
                             [] k = "unlink" -> av_unlink_work_fn
                             [] k = "rename" -> av_rename_work_fn
                             [] OTHER -> av_work_fn]

VARIABLES
    inflight,  \* av_inflight_work
    pc,        \* per event: its place
    hook,      \* per event: the hook it runs
    held,      \* per event: references it holds
    module     \* "up", "unhooked" (kprobes gone), "gone" (workqueue destroyed)

vars == <<inflight, pc, hook, held, module>>

Init ==
    /\ inflight = 0
    /\ pc = [e \in Events |-> "none"]
    /\ hook = [e \in Events |-> "execve"]
    /\ held = [e \in Events |-> {}]
    /\ module = "up"

-----------------------------------------------------------------------------
\* The event is over; h is what it still holds.
Ends(e, h) ==
    /\ pc' = [pc EXCEPT ![e] = "none"]
    /\ held' = [held EXCEPT ![e] = h]

\* The probed system call starts; of two directories the handler takes the
\* first.  An event that the handler does not want (no path, read-only open)
\* returns here without a trace.
Probe(e, k) ==
    /\ module = "up"
    /\ pc[e] = "none"
    /\ pc' = [pc EXCEPT ![e] = "resolving"]
    /\ hook' = [hook EXCEPT ![e] = k]
    /\ held' = [held EXCEPT ![e] = held[e] \cup Handler[k].first]
    /\ UNCHANGED <<inflight, module>>

\* resolve_dfd_path() succeeds for the last (or only) directory, or fails,
\* which ends the event.
Resolve(e) ==
    /\ pc[e] = "resolving"
    /\ pc' = [pc EXCEPT ![e] = "probed"]
    /\ held' = [held EXCEPT ![e] = held[e] \cup Handler[hook[e]].before]
    /\ UNCHANGED <<inflight, hook, module>>

Unresolved(e) ==
    /\ pc[e] = "resolving"
    /\ Handler[hook[e]].before # {}
    /\ Ends(e, held[e] \ Handler[hook[e]].noDfd)
    /\ UNCHANGED <<inflight, hook, module>>

\* Faulty variant: one cap for everybody.
CapUnreserved(k) == MaxInflight

\* av_work_admit() and av_work_admit_nonexec(): the cap for a hook.
Cap(k) == IF Handler[k].exec THEN MaxInflight ELSE MaxInflight - ExecReserved

\* av_work_admit_capped(): atomic_inc_return() and, on refusal, atomic_dec()
\* are two steps.  Between them the counter includes an event that is never
\* admitted.
Admit(e) ==
    /\ pc[e] = "probed"
    /\ inflight' = inflight + 1
    /\ IF inflight + 1 > Cap(hook[e])
       THEN pc' = [pc EXCEPT ![e] = "over"] /\ UNCHANGED held
       ELSE /\ pc' = [pc EXCEPT ![e] = "admitted"]
            /\ held' = [held EXCEPT ![e] = @ \cup {"slot"}]
    /\ UNCHANGED <<hook, module>>

\* av_work_release() is called once if "slot" is in the released set.
Released(R) == IF "slot" \in R THEN 1 ELSE 0
Release(R) == inflight' = inflight - Released(R)

\* Faulty variants: a refusal keeps its increment; a refused event asks again
\* instead of being dropped.
RefuseWithoutDec(e) ==
    /\ pc[e] = "over"
    /\ Ends(e, held[e] \ Handler[hook[e]].rejected)
    /\ UNCHANGED <<inflight, hook, module>>

RefuseRetries(e) ==
    /\ pc[e] = "over"
    /\ inflight' = inflight - 1
    /\ pc' = [pc EXCEPT ![e] = "probed"]
    /\ UNCHANGED <<hook, held, module>>

\* The increment is taken back and the handler returns.
Refuse(e) ==
    /\ pc[e] = "over"
    /\ inflight' = inflight - 1 - Released(Handler[hook[e]].rejected)
    /\ Ends(e, held[e] \ Handler[hook[e]].rejected)
    /\ UNCHANGED <<hook, module>>

NoMemory(e) ==
    /\ pc[e] = "admitted"
    /\ Release(Handler[hook[e]].noMem)
    /\ Ends(e, held[e] \ Handler[hook[e]].noMem)
    /\ UNCHANGED <<hook, module>>

BadPath(e) ==
    /\ pc[e] = "admitted"
    /\ Release(Handler[hook[e]].badPath)
    /\ Ends(e, (held[e] \cup {"mem"}) \ Handler[hook[e]].badPath)
    /\ UNCHANGED <<hook, module>>

\* queue_work() on av_wq.
Queue(e) ==
    /\ pc[e] = "admitted"
    /\ pc' = [pc EXCEPT ![e] = "queued"]
    /\ held' = [held EXCEPT ![e] = @ \cup {"mem"} \cup Handler[hook[e]].after]
    /\ UNCHANGED <<inflight, hook, module>>

Running == {e \in Events : pc[e] = "running"}

\* The workqueue runs items in any order, at most max_active at a time.
Start(e) ==
    /\ pc[e] = "queued"
    /\ Cardinality(Running) < MaxActive
    /\ pc' = [pc EXCEPT ![e] = "running"]
    /\ UNCHANGED <<inflight, hook, held, module>>

WorkNoMemory(e) ==
    /\ pc[e] = "running"
    /\ Release(WorkFn[hook[e]].workNoMem)
    /\ Ends(e, held[e] \ WorkFn[hook[e]].workNoMem)
    /\ UNCHANGED <<hook, module>>

WorkDone(e) ==
    /\ pc[e] = "running"
    /\ Release(WorkFn[hook[e]].done)
    /\ Ends(e, held[e] \ WorkFn[hook[e]].done)
    /\ UNCHANGED <<hook, module>>

-----------------------------------------------------------------------------
(* av_exit().                                                              *)

InHandler(e) == pc[e] \in {"resolving", "probed", "over", "admitted"}

\* unregister_kprobe() returns when no handler runs any more.
Unhook ==
    /\ module = "up"
    /\ \A e \in Events : ~InHandler(e)
    /\ module' = "unhooked"
    /\ UNCHANGED <<inflight, pc, hook, held>>

\* Faulty variant: the workqueue is destroyed while the probes still fire.
DestroyBeforeUnhook ==
    /\ module = "up"
    /\ \A e \in Events : pc[e] \notin {"queued", "running"}
    /\ module' = "gone"
    /\ UNCHANGED <<inflight, pc, hook, held>>

\* destroy_workqueue() drains the queue first.
DestroyWorkqueue ==
    /\ module = "unhooked"
    /\ \A e \in Events : pc[e] \notin {"queued", "running"}
    /\ module' = "gone"
    /\ UNCHANGED <<inflight, pc, hook, held>>

Advance(e) ==
    \/ Resolve(e) \/ Unresolved(e) \/ Admit(e) \/ Refuse(e) \/ NoMemory(e)
    \/ BadPath(e) \/ Queue(e) \/ Start(e) \/ WorkNoMemory(e) \/ WorkDone(e)

Next ==
    \/ \E e \in Events, k \in Hooks : Probe(e, k)
    \/ \E e \in Events : Advance(e)
    \/ Unhook
    \/ DestroyWorkqueue

Spec == Init /\ [][Next]_vars

\* A handler runs to its end without sleeping; the workqueue is first in,
\* first out, so an item that waits for one of the max_active places gets one
\* (strong fairness, as places come and go).
Fairness == \A e \in Events : WF_vars(Advance(e)) /\ SF_vars(Start(e))

FairSpec == Spec /\ Fairness

-----------------------------------------------------------------------------
(* Properties.                                                             *)

PCs == {"none", "resolving", "probed", "over", "admitted", "queued", "running"}
Refs == {"slot", "base", "newBase", "mem", "pid"}

\* Every variable has its type; av_inflight_work is never negative.
TypeOK ==
    /\ inflight \in Nat
    /\ pc \in [Events -> PCs]
    /\ hook \in [Events -> Hooks]
    /\ held \in [Events -> SUBSET Refs]
    /\ module \in {"up", "unhooked", "gone"}

\* Events whose increment of av_inflight_work has not been taken back, and
\* those among them that were admitted.
Counted == {e \in Events : pc[e] \in {"over", "admitted", "queued", "running"}}
Admitted == {e \in Events : pc[e] \in {"admitted", "queued", "running"}}
AdmittedNonexec == {e \in Admitted : ~Handler[hook[e]].exec}

\* av_inflight_work counts exactly the events in flight: one release on every
\* path that follows an admission, none on the others.
CounterIsExact == inflight = Cardinality(Counted)

\* No event ends with a reference or a slot it took, whichever way it ends.
NoLeak == \A e \in Events : pc[e] = "none" => held[e] = {}

\* No way out drops what the event does not hold (a double path_put() or
\* av_work_release()).
NoDoublePut ==
    \A e \in Events :
        LET H == Handler[hook[e]]  W == WorkFn[hook[e]] IN
        /\ pc[e] = "resolving" => H.noDfd \subseteq held[e]
        /\ pc[e] = "over" => H.rejected \subseteq held[e]
        /\ pc[e] = "admitted" => /\ H.noMem \subseteq held[e]
                                 /\ H.badPath \subseteq held[e] \cup {"mem"}
        /\ pc[e] = "running" => W.workNoMem \cup W.done \subseteq held[e]

\* However the increments and decrements of the handlers interleave, at most
\* AV_MAX_INFLIGHT_WORK work structs exist, and the hooks other than exec
\* never hold more than their share of them.
CapsRespected ==
    /\ Cardinality(Admitted) <= MaxInflight
    /\ Cardinality(AdmittedNonexec) <= MaxInflight - ExecReserved

\* After destroy_workqueue() no event is left to run module code.
NothingAfterUnload ==
    module = "gone" => inflight = 0 /\ \A e \in Events : pc[e] = "none"

\* Every event that is picked up comes to an end (destroy_workqueue() in
\* av_exit() waits for that).
EveryEventEnds == \A e \in Events : pc[e] # "none" ~> pc[e] = "none"

\* The inductive invariant behind the safety properties: what an event holds
\* is a function of its hook and its place, and teardown has passed the
\* events it waited for.
HeldAt(e) ==
    LET H == Handler[hook[e]] IN
    CASE pc[e] = "none" -> {}
      [] pc[e] = "resolving" -> H.first
      [] pc[e] \in {"probed", "over"} -> H.before
      [] pc[e] = "admitted" -> H.before \cup {"slot"}
      [] OTHER -> H.before \cup {"slot", "mem"} \cup H.after

HeldInv == \A e \in Events : held[e] = HeldAt(e)

TeardownInv ==
    /\ module # "up" => \A e \in Events : ~InHandler(e)
    /\ module = "gone" => \A e \in Events : pc[e] = "none"

IInv == TypeOK /\ CounterIsExact /\ HeldInv /\ CapsRespected /\ TeardownInv
=============================================================================
