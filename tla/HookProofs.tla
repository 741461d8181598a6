----------------------------- MODULE HookProofs -----------------------------
(***************************************************************************)
(* The way of an event through av/main.c: EventIntake, from the hook to    *)
(* the workqueue, and ExecPipeline, what av_work_fn() does with an exec.   *)
(***************************************************************************)
EXTENDS EventIntake, ExecPipeline, FiniteSetTheorems, TLAPS

-----------------------------------------------------------------------------
(* The admission counter, the caps and the references of the hooks, for    *)
(* any number of concurrent events and any cap.                            *)

USE DEF PCs, Refs

\* What the ways out of the five handlers and of their work functions have in
\* common: each drops exactly what is held there.
LEMMA HookTable ==
  ASSUME NEW k \in Hooks
  PROVE  LET H == Handler[k]  W == WorkFn[k] IN
         /\ H.exec \in BOOLEAN
         /\ H.before \in SUBSET {"base", "newBase"}
         /\ H.after \in SUBSET {"base", "pid"}
         /\ H.rejected = H.before
         /\ H.noMem = H.before \cup {"slot"}
         /\ H.badPath = H.before \cup {"slot", "mem"}
         /\ W.workNoMem = H.before \cup {"slot", "mem"} \cup H.after
         /\ W.done = H.before \cup {"slot", "mem"} \cup H.after
<1> DEFINE H == Handler[k]
           W == WorkFn[k]
<1> USE DEF Base, handler_pre, handler_pre_execveat, handler_pre_openat,
        schedule_unlink_work, schedule_rename_work, av_work_fn,
        av_openat_work_fn, av_unlink_work_fn, av_rename_work_fn
<1>1. CASE k = "execve"
  <2>1. H = handler_pre /\ W = av_work_fn
    BY <1>1 DEF Hooks, Handler, WorkFn
  <2> QED  BY <2>1
<1>2. CASE k = "execveat"
  <2>1. H = handler_pre_execveat /\ W = av_work_fn
    BY <1>2 DEF Hooks, Handler, WorkFn
  <2> QED  BY <2>1
<1>3. CASE k = "openat"
  <2>1. H = handler_pre_openat /\ W = av_openat_work_fn
    BY <1>3 DEF Hooks, Handler, WorkFn
  <2> QED  BY <2>1
<1>4. CASE k = "unlink"
  <2>1. H = schedule_unlink_work /\ W = av_unlink_work_fn
    BY <1>4 DEF Hooks, Handler, WorkFn
  <2> QED  BY <2>1
<1>5. CASE k = "rename"
  <2>1. H = schedule_rename_work /\ W = av_rename_work_fn
    BY <1>5 DEF Hooks, Handler, WorkFn
  <2> QED  BY <2>1
<1> QED  BY <1>1, <1>2, <1>3, <1>4, <1>5 DEF Hooks

\* A directory that does not resolve leaves nothing behind.
LEMMA ResolveTable ==
  ASSUME NEW k \in Hooks
  PROVE  /\ Handler[k].first \in SUBSET {"base", "newBase"}
         /\ Handler[k].first \cup Handler[k].before = Handler[k].before
         /\ Handler[k].noDfd = Handler[k].first
<1> DEFINE H == Handler[k]
<1> USE DEF Base, handler_pre, handler_pre_execveat, handler_pre_openat,
        schedule_unlink_work, schedule_rename_work
<1>1. CASE k = "execve"
  <2>1. H = handler_pre
    BY <1>1 DEF Hooks, Handler
  <2> QED  BY <2>1
<1>2. CASE k = "execveat"
  <2>1. H = handler_pre_execveat
    BY <1>2 DEF Hooks, Handler
  <2> QED  BY <2>1
<1>3. CASE k = "openat"
  <2>1. H = handler_pre_openat
    BY <1>3 DEF Hooks, Handler
  <2> QED  BY <2>1
<1>4. CASE k = "unlink"
  <2>1. H = schedule_unlink_work
    BY <1>4 DEF Hooks, Handler
  <2> QED  BY <2>1
<1>5. CASE k = "rename"
  <2>1. H = schedule_rename_work
    BY <1>5 DEF Hooks, Handler
  <2> QED  BY <2>1
<1> QED  BY <1>1, <1>2, <1>3, <1>4, <1>5 DEF Hooks

\* Both caps are natural numbers, the one of exec being the larger.
LEMMA CapType ==
  ASSUME NEW k \in Hooks
  PROVE  /\ Cap(k) \in Nat
         /\ Cap(k) <= MaxInflight
         /\ ~Handler[k].exec => Cap(k) = MaxInflight - ExecReserved
BY CapAssumption DEF Cap

\* The sets of events that the counter and the caps are about are finite, and
\* the counter bounds the other two.
LEMMA CountsAreFinite ==
  /\ IsFiniteSet(Counted) /\ Cardinality(Counted) \in Nat
  /\ IsFiniteSet(Admitted) /\ Cardinality(Admitted) \in Nat
  /\ IsFiniteSet(AdmittedNonexec) /\ Cardinality(AdmittedNonexec) \in Nat
  /\ Cardinality(Admitted) <= Cardinality(Counted)
  /\ Cardinality(AdmittedNonexec) <= Cardinality(Counted)
<1>1. Counted \in SUBSET Events /\ Admitted \in SUBSET Counted
      /\ AdmittedNonexec \in SUBSET Counted
  BY DEF Counted, Admitted, AdmittedNonexec
<1>2. IsFiniteSet(Counted)
  BY <1>1, FS_Subset, EventsAssumption
<1>3. /\ IsFiniteSet(Admitted) /\ Cardinality(Admitted) <= Cardinality(Counted)
      /\ IsFiniteSet(AdmittedNonexec)
      /\ Cardinality(AdmittedNonexec) <= Cardinality(Counted)
  BY <1>1, <1>2, FS_Subset
<1> QED  BY <1>2, <1>3, FS_CardinalityType

\* A step that leaves every event in its class keeps the counts.
LEMMA SameClass ==
  ASSUME IInv, inflight' = inflight, Counted' = Counted, Admitted' = Admitted,
         AdmittedNonexec' = AdmittedNonexec
  PROVE  (CounterIsExact /\ CapsRespected)'
BY DEF IInv, CounterIsExact, CapsRespected

\* An event that leaves takes its increment with it.
LEMMA OneLeaves ==
  ASSUME IInv, NEW e \in Events, e \in Counted, inflight' = inflight - 1,
         pc' = [pc EXCEPT ![e] = "none"], hook' = hook
  PROVE  (CounterIsExact /\ CapsRespected)' /\ inflight' \in Nat
<1>1. /\ Counted' = Counted \ {e}
      /\ Admitted' \in SUBSET Admitted
      /\ AdmittedNonexec' \in SUBSET AdmittedNonexec
  BY DEF IInv, TypeOK, Counted, Admitted, AdmittedNonexec
<1>2. Cardinality(Counted') = Cardinality(Counted) - 1
      /\ Cardinality(Counted') \in Nat
  BY <1>1, CountsAreFinite, FS_RemoveElement, FS_CardinalityType
<1>3. /\ Cardinality(Admitted') <= Cardinality(Admitted)
      /\ Cardinality(AdmittedNonexec') <= Cardinality(AdmittedNonexec)
      /\ Cardinality(Admitted') \in Nat /\ Cardinality(AdmittedNonexec') \in Nat
  BY <1>1, CountsAreFinite, FS_Subset, FS_CardinalityType
<1>4. inflight' = Cardinality(Counted') /\ inflight' \in Nat
  BY <1>2 DEF IInv, CounterIsExact
<1>5. CapsRespected'
  BY <1>3, CountsAreFinite, CapAssumption DEF IInv, CapsRespected
<1> QED  BY <1>4, <1>5 DEF CounterIsExact

\* The initial state satisfies the inductive invariant.
LEMMA InitIInv == Init => IInv
<1> SUFFICES ASSUME Init PROVE IInv
  OBVIOUS
<1>1. TypeOK
  <2>1. held \in [Events -> SUBSET Refs]
    BY Zenon DEF Init
  <2> QED  BY <2>1 DEF Init, TypeOK, Hooks
<1>2. Counted = {} /\ Admitted = {} /\ AdmittedNonexec = {}
  BY DEF Init, Counted, Admitted, AdmittedNonexec
<1>3. CounterIsExact /\ CapsRespected
  BY <1>2, FS_EmptySet, CapAssumption
  DEF Init, CounterIsExact, CapsRespected
<1>4. HeldInv /\ TeardownInv
  BY DEF Init, HeldInv, HeldAt, TeardownInv
<1> QED  BY <1>1, <1>3, <1>4 DEF IInv

\* Admission keeps the counts: the counter bounds the admitted events, so one
\* more fits whenever the increment stays within the cap.
LEMMA AdmitCounts ==
  ASSUME IInv, NEW e \in Events, Admit(e)
  PROVE  (CounterIsExact /\ CapsRespected)' /\ inflight' \in Nat
<1>1. e \notin Counted /\ e \notin Admitted
  BY DEF Admit, Counted, Admitted
<1>2. hook[e] \in Hooks /\ inflight \in Nat /\ hook' = hook
  BY DEF IInv, TypeOK, Admit
<1>3. Counted' = Counted \cup {e}
  BY DEF IInv, TypeOK, Admit, Counted
<1>4. Cardinality(Counted') = Cardinality(Counted) + 1
  BY <1>1, <1>3, CountsAreFinite, FS_AddElement
<1>5. CounterIsExact' /\ inflight' \in Nat
  BY <1>2, <1>4 DEF IInv, CounterIsExact, Admit
<1>6. CASE inflight + 1 > Cap(hook[e])
  <2>1. Admitted' = Admitted /\ AdmittedNonexec' = AdmittedNonexec
    BY <1>6 DEF IInv, TypeOK, Admit, Admitted, AdmittedNonexec
  <2> QED  BY <1>5, <2>1 DEF IInv, CapsRespected
<1>7. CASE ~(inflight + 1 > Cap(hook[e]))
  <2>1. /\ Admitted' = Admitted \cup {e}
        /\ AdmittedNonexec' = IF Handler[hook[e]].exec THEN AdmittedNonexec
                              ELSE AdmittedNonexec \cup {e}
    BY <1>7, <1>2 DEF IInv, TypeOK, Admit, Admitted, AdmittedNonexec
  <2>2. inflight + 1 <= Cap(hook[e])
    BY <1>7, <1>2, CapType
  <2>3. Cardinality(Admitted') = Cardinality(Admitted) + 1
    BY <1>1, <2>1, CountsAreFinite, FS_AddElement
  <2>4. Cardinality(Admitted') <= MaxInflight
    BY <2>2, <2>3, <1>2, CapType, CapAssumption, CountsAreFinite
    DEF IInv, CounterIsExact
  <2>5. CASE Handler[hook[e]].exec
    BY <1>5, <2>1, <2>4, <2>5 DEF IInv, CapsRespected
  <2>6. CASE ~Handler[hook[e]].exec
    <3>1. Cardinality(AdmittedNonexec') = Cardinality(AdmittedNonexec) + 1
      <4>1. e \notin AdmittedNonexec
        BY <1>1 DEF AdmittedNonexec
      <4> QED  BY <4>1, <2>1, <2>6, CountsAreFinite, FS_AddElement
    <3>2. Cardinality(AdmittedNonexec') <= MaxInflight - ExecReserved
      BY <2>2, <2>6, <3>1, <1>2, CapType, CapAssumption, CountsAreFinite
      DEF IInv, CounterIsExact
    <3> QED  BY <1>5, <2>4, <3>2 DEF CapsRespected
  <2> QED  BY <2>5, <2>6
<1> QED  BY <1>6, <1>7

\* Every step preserves the invariant.
LEMMA NextIInv == ASSUME IInv, [Next]_vars PROVE IInv'
<1> USE DEF TypeOK, HeldInv, HeldAt, TeardownInv, InHandler
<1>h. \A e \in Events : hook[e] \in Hooks
  BY DEF IInv
<1>1. ASSUME NEW e \in Events, NEW k \in Hooks, Probe(e, k) PROVE IInv'
  <2>1. Counted' = Counted /\ Admitted' = Admitted
        /\ AdmittedNonexec' = AdmittedNonexec
    BY <1>1 DEF IInv, Probe, Counted, Admitted, AdmittedNonexec
  <2>2. (CounterIsExact /\ CapsRespected)'
    BY <1>1, <2>1, SameClass DEF Probe
  <2>3. held[e] = {} /\ Handler[k].first \in SUBSET Refs
    BY <1>1, ResolveTable DEF IInv, Probe
  <2>4. TypeOK'
    BY <1>1, <2>3 DEF IInv, Probe
  <2>5. HeldInv' /\ TeardownInv'
    BY <1>1, <2>3 DEF IInv, Probe
  <2> QED  BY <2>2, <2>4, <2>5 DEF IInv
<1>0. ASSUME NEW e \in Events, Resolve(e) \/ Unresolved(e) PROVE IInv'
  <2>1. Counted' = Counted /\ Admitted' = Admitted
        /\ AdmittedNonexec' = AdmittedNonexec
    BY <1>0
    DEF IInv, Resolve, Unresolved, Ends, Counted, Admitted, AdmittedNonexec
  <2>2. (CounterIsExact /\ CapsRespected)'
    BY <1>0, <2>1, SameClass DEF Resolve, Unresolved
  <2>3. /\ held[e] = Handler[hook[e]].first
        /\ held[e] \cup Handler[hook[e]].before = Handler[hook[e]].before
        /\ held[e] \ Handler[hook[e]].noDfd = {}
        /\ Handler[hook[e]].before \in SUBSET Refs
    <3>1. held[e] = Handler[hook[e]].first
      BY <1>0 DEF IInv, Resolve, Unresolved
    <3> QED  BY <3>1, <1>h, ResolveTable, HookTable
  <2>4. CASE Resolve(e)
    <3>1. TypeOK'
      BY <2>3, <2>4 DEF IInv, Resolve
    <3>2. HeldInv' /\ TeardownInv'
      BY <2>3, <2>4 DEF IInv, Resolve
    <3> QED  BY <2>2, <3>1, <3>2 DEF IInv
  <2>5. CASE Unresolved(e)
    <3>1. TypeOK'
      BY <2>3, <2>5 DEF IInv, Unresolved, Ends
    <3>2. HeldInv' /\ TeardownInv'
      BY <2>3, <2>5 DEF IInv, Unresolved, Ends
    <3> QED  BY <2>2, <3>1, <3>2 DEF IInv
  <2> QED  BY <1>0, <2>4, <2>5
<1>2. ASSUME NEW e \in Events, Admit(e) PROVE IInv'
  <2>1. (CounterIsExact /\ CapsRespected)' /\ inflight' \in Nat
    BY <1>2, AdmitCounts
  <2>2. TypeOK'
    BY <1>2, <2>1 DEF IInv, Admit
  <2>3. HeldInv'
    <3>1. CASE inflight + 1 > Cap(hook[e])
      BY <1>2, <3>1 DEF IInv, Admit
    <3>2. CASE ~(inflight + 1 > Cap(hook[e]))
      BY <1>2, <3>2 DEF IInv, Admit
    <3> QED  BY <3>1, <3>2
  <2>4. TeardownInv'
    BY <1>2 DEF IInv, Admit
  <2> QED  BY <2>1, <2>2, <2>3, <2>4 DEF IInv
<1>3. ASSUME NEW e \in Events, NEW R, Ends(e, held[e] \ R), inflight' = inflight - 1,
             UNCHANGED <<hook, module>>, e \in Counted, held[e] \ R = {}
      PROVE  IInv'
  <2>1. (CounterIsExact /\ CapsRespected)' /\ inflight' \in Nat
    BY <1>3, OneLeaves DEF Ends
  <2>2. TypeOK'
    BY <1>3, <2>1 DEF IInv, Ends
  <2>3. HeldInv' /\ TeardownInv'
    BY <1>3 DEF IInv, Ends
  <2> QED  BY <2>1, <2>2, <2>3 DEF IInv
<1>4. ASSUME NEW e \in Events, Refuse(e) PROVE IInv'
  <2>1. held[e] \ Handler[hook[e]].rejected = {}
        /\ Released(Handler[hook[e]].rejected) = 0
    BY <1>4, <1>h, HookTable DEF IInv, Refuse, Released
  <2>2. inflight' = inflight - 1 /\ e \in Counted
    BY <1>4, <2>1 DEF IInv, Refuse, Counted
  <2> QED  BY <1>3, <1>4, <2>1, <2>2 DEF Refuse
<1>5. ASSUME NEW e \in Events, NoMemory(e) PROVE IInv'
  <2>1. held[e] \ Handler[hook[e]].noMem = {}
        /\ Released(Handler[hook[e]].noMem) = 1
    BY <1>5, <1>h, HookTable DEF IInv, NoMemory, Released
  <2>2. inflight' = inflight - 1 /\ e \in Counted
    BY <1>5, <2>1 DEF NoMemory, Release, Counted
  <2> QED  BY <1>3, <1>5, <2>1, <2>2 DEF NoMemory
<1>6. ASSUME NEW e \in Events, BadPath(e) PROVE IInv'
  <2> DEFINE R == Handler[hook[e]].badPath
  <2>1. (held[e] \cup {"mem"}) \ R = {} /\ held[e] \ R = {} /\ Released(R) = 1
    BY <1>6, <1>h, HookTable DEF IInv, BadPath, Released
  <2>2. inflight' = inflight - 1 /\ e \in Counted /\ Ends(e, held[e] \ R)
    BY <1>6, <2>1 DEF BadPath, Release, Counted
  <2> QED  BY <1>3, <1>6, <2>1, <2>2 DEF BadPath
<1>7. ASSUME NEW e \in Events, Queue(e) PROVE IInv'
  <2>1. Counted' = Counted /\ Admitted' = Admitted
        /\ AdmittedNonexec' = AdmittedNonexec
    BY <1>7 DEF IInv, Queue, Counted, Admitted, AdmittedNonexec
  <2>2. (CounterIsExact /\ CapsRespected)'
    BY <1>7, <2>1, SameClass DEF Queue
  <2>3. TypeOK'
    BY <1>7, <1>h, HookTable DEF IInv, Queue
  <2>4. HeldInv' /\ TeardownInv'
    BY <1>7, <1>h, HookTable DEF IInv, Queue
  <2> QED  BY <2>2, <2>3, <2>4 DEF IInv
<1>8. ASSUME NEW e \in Events, Start(e) PROVE IInv'
  <2>1. Counted' = Counted /\ Admitted' = Admitted
        /\ AdmittedNonexec' = AdmittedNonexec
    BY <1>8 DEF IInv, Start, Counted, Admitted, AdmittedNonexec
  <2>2. (CounterIsExact /\ CapsRespected)'
    BY <1>8, <2>1, SameClass DEF Start
  <2>3. TypeOK' /\ HeldInv' /\ TeardownInv'
    BY <1>8 DEF IInv, Start
  <2> QED  BY <2>2, <2>3 DEF IInv
<1>9. ASSUME NEW e \in Events, WorkNoMemory(e) PROVE IInv'
  <2>1. held[e] \ WorkFn[hook[e]].workNoMem = {}
        /\ Released(WorkFn[hook[e]].workNoMem) = 1
    BY <1>9, <1>h, HookTable DEF IInv, WorkNoMemory, Released
  <2>2. inflight' = inflight - 1 /\ e \in Counted
    BY <1>9, <2>1 DEF WorkNoMemory, Release, Counted
  <2> QED  BY <1>3, <1>9, <2>1, <2>2 DEF WorkNoMemory
<1>10. ASSUME NEW e \in Events, WorkDone(e) PROVE IInv'
  <2>1. held[e] \ WorkFn[hook[e]].done = {}
        /\ Released(WorkFn[hook[e]].done) = 1
    BY <1>10, <1>h, HookTable DEF IInv, WorkDone, Released
  <2>2. inflight' = inflight - 1 /\ e \in Counted
    BY <1>10, <2>1 DEF WorkDone, Release, Counted
  <2> QED  BY <1>3, <1>10, <2>1, <2>2 DEF WorkDone
<1>11. ASSUME UNCHANGED <<inflight, pc, hook, held>>,
              TypeOK', TeardownInv'
       PROVE  IInv'
  <2>1. Counted' = Counted /\ Admitted' = Admitted
        /\ AdmittedNonexec' = AdmittedNonexec
    BY <1>11 DEF Counted, Admitted, AdmittedNonexec
  <2>2. (CounterIsExact /\ CapsRespected)'
    BY <1>11, <2>1, SameClass
  <2>3. HeldInv'
    BY <1>11 DEF IInv
  <2> QED  BY <1>11, <2>2, <2>3 DEF IInv
<1>12. CASE Unhook
  BY <1>11, <1>12 DEF IInv, Unhook
<1>13. CASE DestroyWorkqueue
  BY <1>11, <1>13 DEF IInv, DestroyWorkqueue
<1>14. CASE UNCHANGED vars
  BY <1>11, <1>14 DEF IInv, vars
<1> QED
  BY <1>0, <1>1, <1>2, <1>4, <1>5, <1>6, <1>7, <1>8, <1>9, <1>10, <1>12, <1>13,
     <1>14
  DEF Next, Advance

\* The invariant holds in every reachable state.
THEOREM InvariantHolds == Spec => []IInv
<1>1. Init => IInv
  BY InitIInv
<1>2. IInv /\ [Next]_vars => IInv'
  BY NextIInv
<1> QED  BY <1>1, <1>2, PTL DEF Spec

-----------------------------------------------------------------------------
\* av_inflight_work is the number of events in flight, however the
\* increments and decrements of concurrent handlers interleave.
THEOREM CounterExact == Spec => []CounterIsExact
<1>1. IInv => CounterIsExact
  BY DEF IInv
<1> QED  BY <1>1, InvariantHolds, PTL

\* At most AV_MAX_INFLIGHT_WORK work structs exist, and the hooks other than
\* exec leave AV_EXEC_RESERVED_WORK of them alone.
THEOREM CapsHold == Spec => []CapsRespected
<1>1. IInv => CapsRespected
  BY DEF IInv
<1> QED  BY <1>1, InvariantHolds, PTL

\* Every way out of every handler and work function drops each reference it
\* took: none is left over when the event ends.
THEOREM NothingLeaks == Spec => []NoLeak
<1>1. IInv => NoLeak
  BY DEF IInv, HeldInv, HeldAt, NoLeak
<1> QED  BY <1>1, InvariantHolds, PTL

\* ... and none is dropped twice.
THEOREM NothingPutTwice == Spec => []NoDoublePut
<1>1. ASSUME IInv PROVE NoDoublePut
  <2> SUFFICES ASSUME NEW e \in Events
               PROVE  /\ pc[e] = "resolving" => Handler[hook[e]].noDfd \subseteq held[e]
                      /\ pc[e] = "over" => Handler[hook[e]].rejected \subseteq held[e]
                      /\ pc[e] = "admitted" =>
                            /\ Handler[hook[e]].noMem \subseteq held[e]
                            /\ Handler[hook[e]].badPath \subseteq held[e] \cup {"mem"}
                      /\ pc[e] = "running" =>
                            WorkFn[hook[e]].workNoMem \cup WorkFn[hook[e]].done
                                \subseteq held[e]
    BY DEF NoDoublePut
  <2>1. hook[e] \in Hooks /\ held[e] = HeldAt(e)
    BY <1>1 DEF IInv, TypeOK, HeldInv
  <2>2. pc[e] = "resolving" => Handler[hook[e]].noDfd \subseteq held[e]
    BY <2>1, ResolveTable DEF HeldAt
  <2> QED  BY <2>1, <2>2, HookTable DEF HeldAt
<1> QED  BY <1>1, InvariantHolds, PTL

\* When av_exit() has destroyed the workqueue, no handler and no work item is
\* left to run the module's code and the counter is back at zero.
THEOREM UnloadIsClean == Spec => []NothingAfterUnload
<1>1. ASSUME IInv PROVE NothingAfterUnload
  <2> SUFFICES ASSUME module = "gone"
               PROVE  inflight = 0 /\ \A e \in Events : pc[e] = "none"
    BY DEF NothingAfterUnload
  <2>1. \A e \in Events : pc[e] = "none"
    BY <1>1 DEF IInv, TeardownInv
  <2>2. Counted = {}
    BY <2>1 DEF Counted
  <2> QED  BY <1>1, <2>1, <2>2, FS_EmptySet DEF IInv, CounterIsExact
<1> QED  BY <1>1, InvariantHolds, PTL

-----------------------------------------------------------------------------
(* The signature check of av_work_fn() for any number of workers, files    *)
(* and signatures, while the operator changes the table and the policy.    *)

HIDE DEF PCs, Refs
USE DEF Algos, Sigs, Policies, Targets, Places, Outcomes

\* The table and its part for one algorithm are finite.
LEMMA TableFinite ==
  ASSUME PipelineTypeOK, NEW a \in Algos
  PROVE  /\ IsFiniteSet(sigs) /\ Cardinality(sigs) \in Nat
         /\ IsFiniteSet(Of(a)) /\ Cardinality(Of(a)) \in Nat
<1>1. IsFiniteSet(Sigs)
  <2>1. IsFiniteSet({"md5", "sha1", "sha256"})
    <3>1. IsFiniteSet({} \cup {"md5"})
      BY FS_EmptySet, FS_AddElement
    <3>2. IsFiniteSet(({} \cup {"md5"}) \cup {"sha1"})
      BY <3>1, FS_AddElement
    <3>3. IsFiniteSet((({} \cup {"md5"}) \cup {"sha1"}) \cup {"sha256"})
      BY <3>2, FS_AddElement
    <3>4. (({} \cup {"md5"}) \cup {"sha1"}) \cup {"sha256"}
             = {"md5", "sha1", "sha256"}
      OBVIOUS
    <3> QED  BY <3>3, <3>4
  <2> QED  BY <2>1, FilesAssumption, FS_Product
<1>2. sigs \in SUBSET Sigs /\ Of(a) \in SUBSET Sigs
  BY DEF PipelineTypeOK, Of
<1>3. IsFiniteSet(sigs) /\ IsFiniteSet(Of(a))
  BY <1>1, <1>2, FS_Subset
<1> QED  BY <1>3, FS_CardinalityType

\* While a signature of the algorithm is listed, its count is positive: the
\* digest is not skipped.
LEMMA ListedIsCounted ==
  ASSUME PipelineTypeOK, CountsAreExact, NEW f \in Files, NEW a \in Listed(f)
  PROVE  algoCount[a] > 0
<1>1. a \in Algos /\ <<a, f>> \in Of(a)
  BY DEF Listed, Of
<1>2. Of(a) # {}
  BY <1>1
<1>3. Cardinality(Of(a)) # 0 /\ Cardinality(Of(a)) \in Nat
  BY <1>1, <1>2, TableFinite, FS_EmptySet
<1>4. algoCount[a] = Cardinality(Of(a))
  BY <1>1 DEF CountsAreExact
<1> QED  BY <1>3, <1>4

\* The initial state satisfies the inductive invariant.
LEMMA InitPipeline == PipelineInit => PipelineInv
<1> SUFFICES ASSUME PipelineInit PROVE PipelineInv
  OBVIOUS
<1>1. PipelineTypeOK
  <2>1. /\ active \in [Workers -> SUBSET Algos]
        /\ since \in [Workers -> SUBSET Algos]
        /\ policies \in [Workers -> SUBSET Policies]
    BY Zenon DEF PipelineInit
  <2>2. policy \in Policies /\ asked \in [Workers -> Policies]
    BY DEF PipelineInit
  <2>3. count \in 0 .. MaxSigEntries /\ algoCount \in [Algos -> Int]
    BY MaxSigAssumption DEF PipelineInit
  <2>4. /\ sigs \in SUBSET Sigs
        /\ place \in [Workers -> Places]
        /\ file \in [Workers -> Files]
        /\ target \in [Workers -> Targets]
        /\ outcome \in [Workers -> Outcomes]
    BY DEF PipelineInit
  <2> QED  BY <2>1, <2>2, <2>3, <2>4 DEF PipelineTypeOK
<1>2. CountsAreExact
  <2>1. sigs = {} /\ \A a \in Algos : Of(a) = {}
    BY DEF PipelineInit, Of
  <2> QED  BY <2>1, FS_EmptySet DEF PipelineInit, CountsAreExact
<1>3. SampleInv /\ PolicyIsCurrent
  BY DEF PipelineInit, SampleInv, PolicyIsCurrent
<1> QED  BY <1>1, <1>2, <1>3 DEF PipelineInv

\* Adding a signature.
LEMMA AddPipeline ==
  ASSUME PipelineInv, NEW a \in Algos, NEW f \in Files, av_sigtable_add(a, f)
  PROVE  PipelineInv'
<1> USE DEF av_sigtable_add
<1>1. PipelineTypeOK'
  BY MaxSigAssumption DEF PipelineInv, PipelineTypeOK
<1>2. Cardinality(sigs') = Cardinality(sigs) + 1
  BY TableFinite, FS_AddElement DEF PipelineInv
<1>3. ASSUME NEW b \in Algos PROVE algoCount'[b] = Cardinality(Of(b)')
  <2>1. algoCount[b] = Cardinality(Of(b)) /\ IsFiniteSet(Of(b))
    BY TableFinite DEF PipelineInv, CountsAreExact
  <2>2. CASE b = a
    <3>1. Of(b)' = Of(b) \cup {<<a, f>>} /\ <<a, f>> \notin Of(b)
      BY <2>2 DEF Of
    <3>2. algoCount'[b] = algoCount[b] + 1
      BY <2>2 DEF PipelineInv, PipelineTypeOK
    <3> QED  BY <2>1, <3>1, <3>2, FS_AddElement
  <2>3. CASE b # a
    <3>1. Of(b)' = Of(b) /\ algoCount'[b] = algoCount[b]
      BY <2>3 DEF Of, PipelineInv, PipelineTypeOK
    <3> QED  BY <2>1, <3>1
  <2> QED  BY <2>2, <2>3
<1>4. CountsAreExact'
  BY <1>2, <1>3 DEF PipelineInv, CountsAreExact
<1>5. SampleInv' /\ PolicyIsCurrent'
  BY DEF PipelineInv, SampleInv, PolicyIsCurrent, Listed
<1> QED  BY <1>1, <1>4, <1>5 DEF PipelineInv

\* Removing one: a file of a running item loses its claim to it.
LEMMA DelPipeline ==
  ASSUME PipelineInv, NEW a \in Algos, NEW f \in Files, av_sigtable_del(a, f)
  PROVE  PipelineInv'
<1> USE DEF av_sigtable_del
<1>1. Cardinality(sigs') = Cardinality(sigs) - 1 /\ Cardinality(sigs') \in Nat
  BY TableFinite, FS_RemoveElement, FS_CardinalityType DEF PipelineInv
<1>2. ASSUME NEW b \in Algos PROVE algoCount'[b] = Cardinality(Of(b)')
  <2>1. algoCount[b] = Cardinality(Of(b)) /\ IsFiniteSet(Of(b))
    BY TableFinite DEF PipelineInv, CountsAreExact
  <2>2. CASE b = a
    <3>1. Of(b)' = Of(b) \ {<<a, f>>} /\ <<a, f>> \in Of(b)
      BY <2>2 DEF Of
    <3>2. algoCount'[b] = algoCount[b] - 1
      BY <2>2 DEF PipelineInv, PipelineTypeOK
    <3> QED  BY <2>1, <3>1, <3>2, FS_RemoveElement
  <2>3. CASE b # a
    <3>1. Of(b)' = Of(b) /\ algoCount'[b] = algoCount[b]
      BY <2>3 DEF Of, PipelineInv, PipelineTypeOK
    <3> QED  BY <2>1, <3>1
  <2> QED  BY <2>2, <2>3
<1>3. CountsAreExact'
  BY <1>1, <1>2 DEF PipelineInv, CountsAreExact
<1>4. PipelineTypeOK'
  <2>1. count' \in 0 .. MaxSigEntries
    BY <1>1, MaxSigAssumption DEF PipelineInv, PipelineTypeOK, CountsAreExact
  <2>2. since' \in [Workers -> SUBSET Algos]
    BY DEF PipelineInv, PipelineTypeOK
  <2>4. sigs' \in SUBSET Sigs /\ algoCount' \in [Algos -> Int]
    BY DEF PipelineInv, PipelineTypeOK
  <2> QED  BY <2>1, <2>2, <2>4 DEF PipelineInv, PipelineTypeOK
<1>5. SampleInv' /\ PolicyIsCurrent'
  BY DEF PipelineInv, PipelineTypeOK, SampleInv, PolicyIsCurrent, Listed
<1> QED  BY <1>3, <1>4, <1>5 DEF PipelineInv

\* A step that leaves the table alone keeps the counts.
LEMMA CountsKept ==
  ASSUME CountsAreExact, UNCHANGED sigVars
  PROVE  CountsAreExact'
BY DEF CountsAreExact, sigVars, Of

\* Every step preserves the invariant.
LEMMA NextPipeline == ASSUME PipelineInv, [PipelineNext]_pipelineVars PROVE PipelineInv'
<1> USE DEF PipelineInv
<1>1. ASSUME NEW word \in Policies, daemon_policy_proc_write(word) PROVE PipelineInv'
  <2> USE <1>1 DEF daemon_policy_proc_write
  <2>1. policies' \in [Workers -> SUBSET Policies]
    BY DEF PipelineTypeOK
  <2>2. PipelineTypeOK'
    BY <2>1 DEF PipelineTypeOK, sigVars
  <2>3. SampleInv'
    BY DEF SampleInv, PipelineTypeOK, Listed, sigVars
  <2>4. PolicyIsCurrent'
    BY DEF PolicyIsCurrent, PipelineTypeOK
  <2> QED  BY <2>2, <2>3, <2>4, CountsKept
<1>2. ASSUME NEW w \in Workers, NEW f \in Files, NEW t \in Targets, Begin(w, f, t)
      PROVE  PipelineInv'
  <2> USE <1>2 DEF Begin, Go
  <2>1. Listed(f) \in SUBSET Algos
    BY DEF Listed
  <2>2. since' \in [Workers -> SUBSET Algos] /\ active' \in [Workers -> SUBSET Algos]
    BY <2>1 DEF PipelineTypeOK
  <2>4. policies' \in [Workers -> SUBSET Policies]
    BY DEF PipelineTypeOK
  <2>5. PipelineTypeOK'
    BY <2>2, <2>4 DEF PipelineTypeOK, sigVars
  <2>6. SampleInv'
    BY DEF SampleInv, PipelineTypeOK, Listed, sigVars
  <2>7. PolicyIsCurrent'
    BY DEF PolicyIsCurrent, PipelineTypeOK
  <2> QED  BY <2>5, <2>6, <2>7, CountsKept
<1>3. ASSUME NEW w \in Workers, SampleMd5(w) PROVE PipelineInv'
  <2> USE <1>3 DEF SampleMd5, Go
  <2>1. PipelineTypeOK'
    BY DEF PipelineTypeOK, sigVars
  <2>2. "md5" \in since[w] => algoCount["md5"] > 0
    BY ListedIsCounted DEF SampleInv, PipelineTypeOK
  <2>3. SampleInv'
    BY <2>2 DEF SampleInv, PipelineTypeOK, Listed, sigVars
  <2>4. PolicyIsCurrent'
    BY DEF PolicyIsCurrent
  <2> QED  BY <2>1, <2>3, <2>4, CountsKept
<1>4. ASSUME NEW w \in Workers, SampleSha1(w) PROVE PipelineInv'
  <2> USE <1>4 DEF SampleSha1, Go
  <2>1. PipelineTypeOK'
    BY DEF PipelineTypeOK, sigVars
  <2>2. "sha1" \in since[w] => algoCount["sha1"] > 0
    BY ListedIsCounted DEF SampleInv, PipelineTypeOK
  <2>3. SampleInv'
    BY <2>2 DEF SampleInv, PipelineTypeOK, Listed, sigVars
  <2>4. PolicyIsCurrent'
    BY DEF PolicyIsCurrent
  <2> QED  BY <2>1, <2>3, <2>4, CountsKept
<1>5. ASSUME NEW w \in Workers, NEW p \in {"idle", "match", "ask", "policy"},
             place[w] # "idle", NEW how \in Outcomes,
             place' = [place EXCEPT ![w] = p],
             p = "match" => place[w] = "hash",
             outcome' = [outcome EXCEPT ![w] = how],
             policies' \in [Workers -> SUBSET Policies],
             asked' \in [Workers -> Policies],
             \A v \in Workers \ {w} : policies'[v] = policies[v],
             p \in {"match", "ask"} => policies'[w] = {},
             p = "policy" => policy \in policies'[w],
             p = "idle" /\ policies'[w] # {}
                => (IF how = "failOpen" THEN "fail-open" ELSE "fail-closed")
                      \in policies'[w],
             UNCHANGED <<sigVars, policy, file, target, active, since>>
      PROVE  PipelineInv'
  <2>1. PipelineTypeOK'
    BY <1>5 DEF PipelineTypeOK, sigVars
  <2>2. SampleInv'
    BY <1>5 DEF SampleInv, PipelineTypeOK, Listed, sigVars
  <2>3. PolicyIsCurrent'
    BY <1>5 DEF PolicyIsCurrent, PipelineTypeOK
  <2> QED  BY <1>5, <2>1, <2>2, <2>3, CountsKept
<1>6. ASSUME NEW w \in Workers, UNCHANGED outcome
      PROVE  /\ outcome' = [outcome EXCEPT ![w] = outcome[w]]
             /\ outcome[w] \in Outcomes
  BY <1>6 DEF PipelineTypeOK
<1>t. /\ policies \in [Workers -> SUBSET Policies]
      /\ asked \in [Workers -> Policies]
      /\ policy \in Policies
  BY DEF PipelineTypeOK
<1>7. ASSUME NEW w \in Workers, HashFails(w) PROVE PipelineInv'
  <2>1. policies[w] = {}
    BY <1>7 DEF HashFails, SampleInv
  <2> QED  BY <1>5, <1>7, <1>t, <2>1 DEF HashFails, End, Go
<1>8. ASSUME NEW w \in Workers, HashDone(w) PROVE PipelineInv'
  <2>1. policies[w] = {}
    BY <1>8 DEF HashDone, SampleInv
  <2> QED  BY <1>5, <1>6, <1>8, <1>t, <2>1 DEF HashDone, Go
<1>9. ASSUME NEW w \in Workers, Match(w) PROVE PipelineInv'
  <2>1. policies[w] = {} /\ asked' \in [Workers -> Policies]
    BY <1>9, <1>t DEF Match, SampleInv
  <2>2. CASE av_sigtable_match(w)
    BY <1>5, <1>9, <1>t, <2>1, <2>2 DEF Match, av_kill, End, Go
  <2>3. CASE ~av_sigtable_match(w)
    BY <1>5, <1>6, <1>9, <1>t, <2>1, <2>3 DEF Match, Go
  <2> QED  BY <2>2, <2>3
<1>10. ASSUME NEW w \in Workers, NEW answer, Ask(w, answer) PROVE PipelineInv'
  <2>1. policies[w] = {} /\ policies' \in [Workers -> SUBSET Policies]
    BY <1>10, <1>t DEF Ask, SampleInv
  <2>2. CASE answer # "failed"
    BY <1>5, <1>10, <1>t, <2>1, <2>2 DEF Ask, av_kill, End, Go
  <2>3. CASE answer = "failed"
    BY <1>5, <1>6, <1>10, <1>t, <2>1, <2>3 DEF Ask, Go
  <2> QED  BY <2>2, <2>3
<1>11. ASSUME NEW w \in Workers, ReadPolicy(w) PROVE PipelineInv'
  <2>1. policy \in policies[w] /\ PolicyRead(w) = policy
    BY <1>11 DEF ReadPolicy, SampleInv, PolicyRead
  <2>2. CASE policy = "fail-closed"
    BY <1>5, <1>11, <1>t, <2>1, <2>2 DEF ReadPolicy, av_kill, End, Go
  <2>3. CASE policy = "fail-open"
    BY <1>5, <1>11, <1>t, <2>1, <2>3 DEF ReadPolicy, End, Go
  <2> QED  BY <1>t, <2>2, <2>3
<1>12. CASE UNCHANGED pipelineVars
  <2>1. PipelineTypeOK' /\ SampleInv' /\ PolicyIsCurrent'
    BY <1>12 DEF pipelineVars, sigVars, PipelineTypeOK, SampleInv, PolicyIsCurrent, Listed
  <2> QED  BY <1>12, <2>1, CountsKept DEF pipelineVars
<1> QED
  BY <1>1, <1>2, <1>3, <1>4, <1>7, <1>8, <1>9, <1>10, <1>11, <1>12, AddPipeline, DelPipeline
  DEF PipelineNext, sig_proc_write, Item

\* The invariant holds in every reachable state.
THEOREM PipelineHolds == PipelineSpec => []PipelineInv
<1>1. PipelineInit => PipelineInv
  BY InitPipeline
<1>2. PipelineInv /\ [PipelineNext]_pipelineVars => PipelineInv'
  BY NextPipeline
<1> QED  BY <1>1, <1>2, PTL DEF PipelineSpec

-----------------------------------------------------------------------------
\* sig_count and sig_count_algo are exact, and the table stays within
\* MAX_SIG_ENTRIES.
THEOREM CountsExact == PipelineSpec => [](PipelineTypeOK /\ CountsAreExact)
<1>1. PipelineInv => PipelineTypeOK /\ CountsAreExact
  BY DEF PipelineInv
<1> QED  BY <1>1, PipelineHolds, PTL

\* A signature that is in the table from the start of an item to its match is
\* found, whatever else is added or removed meanwhile: the unlocked counts
\* never make hash_file_multi() skip its digest.
THEOREM PersistentStops == PipelineSpec => PersistentSignatureStops
<1>1. ASSUME PipelineInv, [PipelineNext]_pipelineVars, NEW w \in Workers, place[w] = "match", place'[w] = "ask"
      PROVE  since[w] = {}
  <2>1. Match(w)
    <3> USE <1>1
    <3>1. place \in [Workers -> Places]
      BY DEF PipelineInv, PipelineTypeOK
    <3>2. place' # place
      OBVIOUS
    <3>3. \E v \in Workers :
             \/ \E f \in Files, t \in Targets : Begin(v, f, t)
             \/ Item(v)
      BY <3>2 DEF PipelineNext, sig_proc_write, pipelineVars, av_sigtable_add, av_sigtable_del,
                 daemon_policy_proc_write
    <3> QED  BY <3>1, <3>3
             DEF Item, Begin, SampleMd5, SampleSha1, HashFails, HashDone, Match, Ask,
                 ReadPolicy, av_kill, End, Go
  <2>2. ~av_sigtable_match(w)
    BY <1>1, <2>1 DEF Match, av_kill, End, Go, PipelineInv, PipelineTypeOK
  <2>3. since[w] \subseteq Listed(file[w]) /\ since[w] \subseteq active[w]
    BY <1>1 DEF PipelineInv, SampleInv
  <2> QED  BY <2>2, <2>3 DEF av_sigtable_match
<1>2. PipelineInv /\ [PipelineNext]_pipelineVars
      => [\A w \in Workers : (place[w] = "match" /\ place'[w] = "ask") => since[w] = {}]_pipelineVars
  BY <1>1
<1> QED  BY <1>2, PipelineHolds, PTL DEF PipelineSpec, PersistentSignatureStops

\* An item without a verdict ends by a policy that was in force after the
\* request had failed, never by an older one.
THEOREM PolicyCurrent == PipelineSpec => []PolicyIsCurrent
<1>1. PipelineInv => PolicyIsCurrent
  BY DEF PipelineInv
<1> QED  BY <1>1, PipelineHolds, PTL
=============================================================================
