--------------------------- MODULE BehaviorProofs ---------------------------
(***************************************************************************)
(* av/behavior.c for any number of pids, any paths, limits and thresholds. *)
(* Of Behavior: the table's count and its trust, the guard before a kill,  *)
(* and, while no pid is given out twice, that nobody is judged on what     *)
(* another task did.  Of SlidingWindow: the ring, while the clock has not  *)
(* run past the 2^32 milliseconds that jiffies_to_msecs() can tell apart.  *)
(***************************************************************************)
EXTENDS Behavior, SlidingWindow, FiniteSetTheorems, TLAPS

\* An entry of the right type whose rings are finite and fit their arrays.
GoodEntry(e) ==
    /\ e \in Entry /\ RingsFit(e)
    /\ IsFiniteSet(e.writes) /\ IsFiniteSet(e.renames)

\* The invariant in two parts: what is said of the table, and the rest.
TableFacts ==
    /\ tracked \subseteq Pids /\ count \in Int
    /\ table \in [Pids -> Entry]
    /\ \A p \in Pids : GoodEntry(table[p])
    /\ CountIsExact /\ TrustIsVouched

OtherFacts ==
    /\ proc \in [Pids -> {0} \cup Starts] /\ exe \in [Pids -> Exes]
    /\ held \in [Pids -> SUBSET Starts] /\ exposed \subseteq Pids
    /\ forks \in 0 .. MaxStart /\ jiffies \in 0 .. MaxJiffies
    /\ trust \subseteq Exes /\ protect \subseteq Exes /\ vouched \subseteq Exes
    /\ work \subseteq Items /\ kills \subseteq Detections
    /\ \A i \in work : i.op \in {"exec", "execTrusted", "execUntrusted"} => i.file \in Exes
    /\ trust \subseteq vouched
    /\ \A i \in work : i.op = "execTrusted" => i.file \in vouched
    /\ GuardInv

\* The invariant, split into what concerns the process table and the rest.
LEMMA Split ==
    /\ IInv <=> TableFacts /\ OtherFacts
    /\ IInv' <=> TableFacts' /\ OtherFacts'
  <1>1. IInv <=> TableFacts /\ OtherFacts
    BY DEF IInv, TypeOK, FlightInv, VouchInv, TableFacts, OtherFacts, GoodEntry
  <1>2. IInv' <=> TableFacts' /\ OtherFacts'
    BY DEF IInv, TypeOK, FlightInv, VouchInv, TableFacts, OtherFacts, GoodEntry
  <1> QED  BY <1>1, <1>2

-----------------------------------------------------------------------------
(* The table.                                                              *)

\* kzalloc() gives a good entry.
LEMMA ZeroGood ==
  ASSUME jiffies \in 0 .. MaxJiffies
  PROVE  /\ GoodEntry(ZeroEntry)
         /\ GoodEntry([ZeroEntry EXCEPT !.touched = jiffies])
         /\ ~ZeroEntry.trusted /\ ZeroEntry.exec = NoFile
         /\ ZeroEntry.writes = {} /\ ZeroEntry.renames = {}
  <1>1. IsFiniteSet({}) /\ Cardinality({}) = 0
    BY FS_EmptySet
  <1>2. ZeroEntry \in Entry /\ [ZeroEntry EXCEPT !.touched = jiffies] \in Entry
    <2>1. {} \in Ring /\ 0 \in 0 .. MaxJiffies
      BY LimitAssumption DEF Ring
    <2>2. ZeroEntry \in Entry
      BY <2>1 DEF ZeroEntry, Entry
    <2> QED  BY <2>2 DEF Entry
  <1>3. /\ ~ZeroEntry.trusted /\ ZeroEntry.exec = NoFile
        /\ ZeroEntry.writes = {} /\ ZeroEntry.renames = {}
        /\ [ZeroEntry EXCEPT !.touched = jiffies].writes = {}
        /\ [ZeroEntry EXCEPT !.touched = jiffies].renames = {}
    BY DEF ZeroEntry
  <1>4. 0 <= WriteThreshold /\ 0 <= RenameThreshold
    BY LimitAssumption
  <1> QED
    BY <1>1, <1>2, <1>3, <1>4 DEF GoodEntry, RingsFit

\* What a lookup finds: the entry of p or a cleared one, in a table from which
\* at most one other entry was evicted, and one was if the table was full.
LEMMA Lookup ==
  ASSUME TableFacts, jiffies \in 0 .. MaxJiffies, NEW p \in Pids,
         NEW L \in get_or_create_entry(p)
  PROVE  /\ L.ok \in BOOLEAN /\ L.others \subseteq tracked \ {p}
         /\ GoodEntry(L.entry)
         /\ L.entry.trusted => L.entry.exec \in vouched
         /\ \/ p \in tracked /\ L.ok /\ L.others = tracked \ {p}
               /\ L.entry = [table[p] EXCEPT !.touched = jiffies]
            \/ p \notin tracked /\ L.others = tracked /\ count < MaxEntries
               /\ L.entry = [ZeroEntry EXCEPT !.touched = jiffies]
            \/ p \notin tracked /\ (\E v \in tracked : L.others = tracked \ {v})
               /\ L.entry = [ZeroEntry EXCEPT !.touched = jiffies]
  <1>1. CASE p \in tracked
    <2>1. L.ok /\ L.others = tracked \ {p} /\ L.entry = [table[p] EXCEPT !.touched = jiffies]
          /\ L.ok = TRUE
      BY <1>1 DEF get_or_create_entry
    <2>2. table[p] \in Entry /\ GoodEntry(table[p])
      BY DEF TableFacts
    <2>3. L.entry \in Entry /\ L.entry.writes = table[p].writes
          /\ L.entry.renames = table[p].renames /\ L.entry.trusted = table[p].trusted
          /\ L.entry.exec = table[p].exec
      BY <2>1, <2>2 DEF Entry
    <2>4. GoodEntry(L.entry)
      BY <2>2, <2>3 DEF GoodEntry, RingsFit
    <2> QED  BY <1>1, <2>1, <2>3, <2>4 DEF TableFacts, TrustIsVouched
  <1>2. CASE p \notin tracked
    <2>1. PICK V \in (IF count >= MaxEntries THEN {{v} : v \in Oldest} ELSE {{}}),
               b \in BOOLEAN :
            L = [others |-> tracked \ V, ok |-> b,
                 entry |-> [ZeroEntry EXCEPT !.touched = jiffies]]
      BY <1>2 DEF get_or_create_entry
    <2>2. L.others = tracked \ V /\ L.ok = b
          /\ L.entry = [ZeroEntry EXCEPT !.touched = jiffies]
      BY <2>1
    <2>3. GoodEntry(L.entry) /\ ~L.entry.trusted
      BY <2>2, ZeroGood DEF ZeroEntry
    <2>4. CASE count >= MaxEntries
      <3>1. PICK v \in Oldest : V = {v}
        BY <2>4
      <3> QED  BY <1>2, <2>2, <2>3, <3>1 DEF Oldest
    <2>5. CASE ~(count >= MaxEntries)
      <3>1. V = {} /\ count < MaxEntries
        BY <2>5, LimitAssumption DEF TableFacts
      <3> QED  BY <1>2, <2>2, <2>3, <3>1
    <2> QED  BY <2>4, <2>5
  <1> QED  BY <1>1, <1>2

\* Storing the entry keeps the count exact.
LEMMA StoreCount ==
  ASSUME TableFacts, jiffies \in 0 .. MaxJiffies, NEW p \in Pids,
         NEW L \in get_or_create_entry(p), NEW e, Store(p, L, e)
  PROVE  CountIsExact' /\ count' \in Int
  <1> USE LimitAssumption
  <1>0. /\ IsFiniteSet(tracked) /\ Cardinality(tracked) \in Nat
        /\ count = Cardinality(tracked) /\ count <= MaxEntries
    BY ProcessAssumption, FS_Subset, FS_CardinalityType DEF TableFacts, CountIsExact
  <1>1. CASE p \in tracked /\ L.ok /\ L.others = tracked \ {p}
    <2>1. tracked' = tracked /\ (tracked \ {p}) \ L.others = {}
      BY <1>1 DEF Store
    <2>2. count' = count - 0 + 0
      BY <1>1, <2>1, FS_EmptySet DEF Store
    <2> QED  BY <1>0, <2>1, <2>2 DEF CountIsExact
  <1>2. CASE p \notin tracked /\ L.others = tracked /\ count < MaxEntries
    <2>1. (tracked \ {p}) \ L.others = {}
      BY <1>2
    <2>2. count' = IF L.ok THEN count + 1 ELSE count
      <3>1. count' = count - Cardinality({}) + (IF L.ok THEN 1 ELSE 0)
        BY <1>2, <2>1 DEF Store
      <3>2. Cardinality({}) = 0
        BY FS_EmptySet
      <3> QED  BY <1>0, <3>1, <3>2
    <2>3. tracked' = IF L.ok THEN tracked \cup {p} ELSE tracked
      BY <1>2 DEF Store
    <2>4. Cardinality(tracked \cup {p}) = Cardinality(tracked) + 1
      BY <1>0, <1>2, FS_AddElement
    <2> QED  BY <1>0, <1>2, <2>2, <2>3, <2>4 DEF CountIsExact
  <1>3. ASSUME p \notin tracked, NEW v \in tracked, L.others = tracked \ {v}
        PROVE  CountIsExact' /\ count' \in Int
    <2>1. (tracked \ {p}) \ L.others = {v}
      BY <1>3
    <2>2. count' = IF L.ok THEN count ELSE count - 1
      <3>1. count' = count - Cardinality({v}) + (IF L.ok THEN 1 ELSE 0)
        BY <1>3, <2>1 DEF Store
      <3>2. Cardinality({v}) = 1
        BY FS_Singleton
      <3> QED  BY <1>0, <3>1, <3>2
    <2>3. tracked' = IF L.ok THEN (tracked \ {v}) \cup {p} ELSE tracked \ {v}
      BY <1>3 DEF Store
    <2>4. IsFiniteSet(tracked \ {v}) /\ Cardinality(tracked \ {v}) = Cardinality(tracked) - 1
      BY <1>0, FS_RemoveElement
    <2>5. Cardinality((tracked \ {v}) \cup {p}) = Cardinality(tracked \ {v}) + 1
      BY <1>3, <2>4, FS_AddElement
    <2> QED  BY <1>0, <2>2, <2>3, <2>4, <2>5 DEF CountIsExact
  <1> QED  BY <1>1, <1>2, <1>3, Lookup

\* Storing a good entry whose trust is vouched for leaves a good table.
LEMMA StoreTable ==
  ASSUME TableFacts, jiffies \in 0 .. MaxJiffies, NEW p \in Pids,
         NEW L \in get_or_create_entry(p), NEW e, Store(p, L, e), GoodEntry(e),
         e.trusted => e.exec \in vouched, vouched' = vouched
  PROVE  TableFacts'
  <1>1. CountIsExact' /\ count' \in Int
    BY StoreCount
  <1>2. L.others \subseteq tracked \ {p} /\ tracked \subseteq Pids
    BY Lookup DEF TableFacts
  <1>3. \A q \in Pids : table'[q] = IF q = p /\ L.ok THEN e
                                   ELSE IF q \in L.others THEN table[q] ELSE ZeroEntry
    BY DEF Store
  <1>4. \A q \in Pids : GoodEntry(table'[q])
    BY <1>3, ZeroGood DEF TableFacts
  <1>5. table' \in [Pids -> Entry]
    BY <1>4 DEF Store, GoodEntry
  <1>6. tracked' \subseteq Pids /\ \A q \in tracked' : (q = p /\ L.ok) \/ q \in L.others
    BY <1>2 DEF Store
  <1>7. TrustIsVouched'
    BY <1>2, <1>3, <1>6 DEF TableFacts, TrustIsVouched
  <1>8. (\A q \in Pids : GoodEntry(table[q]))'
    BY <1>4 DEF GoodEntry, RingsFit
  <1> QED  BY <1>1, <1>5, <1>6, <1>7, <1>8 DEF TableFacts

\* A ring never outgrows its array.
LEMMA NoteRing ==
  ASSUME NEW R \in Ring, IsFiniteSet(R), NEW cap \in Nat \ {0}, Cardinality(R) <= cap,
         NEW f \in Files, NEW s \in Starts, NEW S \in sliding_window_note(R, f, s, cap)
  PROVE  S \in Ring /\ IsFiniteSet(S) /\ Cardinality(S) <= cap
  <1>0. Cardinality(R) \in Nat
    BY FS_CardinalityType
  <1>1. CASE ~IsNew(R, f)
    BY <1>1 DEF sliding_window_note
  <1>2. CASE IsNew(R, f) /\ Cardinality(R) < cap
    <2>1. S = R \cup {<<f, s>>}
      BY <1>2 DEF sliding_window_note
    <2>2. <<f, s>> \notin R
      BY <1>2 DEF IsNew
    <2>3. IsFiniteSet(S) /\ Cardinality(S) = Cardinality(R) + 1
      BY <2>1, <2>2, FS_AddElement
    <2> QED  BY <1>0, <1>2, <2>1, <2>3 DEF Ring
  <1>3. CASE IsNew(R, f) /\ ~(Cardinality(R) < cap)
    <2>1. PICK r \in R : S = (R \ {r}) \cup {<<f, s>>}
      BY <1>3 DEF sliding_window_note
    <2>2. <<f, s>> \notin R \ {r}
      BY <1>3 DEF IsNew
    <2>3. IsFiniteSet(R \ {r}) /\ Cardinality(R \ {r}) = Cardinality(R) - 1
      BY FS_RemoveElement
    <2>4. IsFiniteSet(S) /\ Cardinality(S) = Cardinality(R \ {r}) + 1
      BY <2>1, <2>2, <2>3, FS_AddElement
    <2> QED  BY <1>0, <2>1, <2>3, <2>4 DEF Ring
  <1> QED  BY <1>1, <1>2, <1>3

\* Steps that leave the table alone.
LEMMA TableSame ==
  ASSUME TableFacts, UNCHANGED tableVars, vouched \subseteq vouched'
  PROVE  TableFacts'
  BY DEF TableFacts, tableVars, CountIsExact, TrustIsVouched, GoodEntry, RingsFit

-----------------------------------------------------------------------------
(* Every step keeps the invariant.                                         *)

\* The initial state satisfies the invariant.
LEMMA InitIInv == ASSUME Init PROVE IInv
  <1>1. Starts \subseteq Nat /\ 1 \in Starts
    BY ProcessAssumption DEF Starts
  <1>2. TableFacts
    <2>1. \A p \in Pids : table[p] = ZeroEntry /\ GoodEntry(ZeroEntry)
      BY ZeroGood, LimitAssumption DEF Init
    <2>2. table \in [Pids -> Entry]
      BY <2>1 DEF Init, GoodEntry
    <2>3. CountIsExact
      BY FS_EmptySet, LimitAssumption DEF Init, CountIsExact
    <2> QED  BY <2>1, <2>2, <2>3 DEF Init, TableFacts, TrustIsVouched
  <1>3. OtherFacts
    <2>1. proc \in [Pids -> {0} \cup Starts] /\ \A p \in Pids : proc[p] <= forks
      BY <1>1 DEF Init
    <2>2. forks \in 0 .. MaxStart /\ jiffies \in 0 .. MaxJiffies
      BY ProcessAssumption, LimitAssumption DEF Init
    <2>3. \A p \in Pids : proc[p] # 0 => p \in exposed
      BY DEF Init
    <2> QED
      BY <2>1, <2>2, <2>3, ProcessAssumption DEF Init, OtherFacts, GuardInv
  <1> QED  BY <1>2, <1>3, Split

\* Processes and hooks.
LEMMA ProcessStep == ASSUME TableFacts, OtherFacts, Processes PROVE OtherFacts'
  <1> USE ProcessAssumption, PathAssumption DEF OtherFacts, GuardInv, Starts, Alive,
              tableVars, listVars, procVars
  <1>1. ASSUME NEW p \in Pids, NEW b \in Exes, Fork(p, b) PROVE OtherFacts'
    <2>1. /\ forks' = forks + 1 /\ forks' \in 0 .. MaxStart
          /\ proc' \in [Pids -> {0} \cup Starts] /\ \A q \in Pids : proc'[q] <= forks'
      BY <1>1 DEF Fork
    <2>2. /\ exe' \in [Pids -> Exes] /\ held' \in [Pids -> SUBSET Starts] /\ exposed' \subseteq Pids
          /\ \A q \in Pids : proc'[q] # 0 /\ exe'[q] \notin protect => q \in exposed'
      BY <1>1 DEF Fork
    <2>3. work' \subseteq Items /\ kills' \subseteq Detections
      BY <1>1 DEF Fork
    <2>4. (\A i \in work : i.start <= forks)'
      BY <1>1, <2>1 DEF Fork, Items
    <2>5. ASSUME NEW k \in kills PROVE /\ k.start <= forks'
                                       /\ k.stage = "signal" /\ Alive(k)' => k.pid \in exposed'
      <3>1. k.start \in Nat /\ k.start <= forks /\ k.pid \in Pids
        BY DEF Detections
      <3>2. Alive(k)' => k.pid # p
        BY <1>1, <3>1 DEF Fork
      <3> QED  BY <1>1, <3>1, <3>2 DEF Fork
    <2> QED  BY <1>1, <2>1, <2>2, <2>3, <2>4, <2>5 DEF Fork
  <1>2. ASSUME NEW p \in Pids, NEW b \in Exes, Exec(p, b) PROVE OtherFacts'
    <2>1. Item("exec", p, b, NoFile) \in Items /\ proc[p] <= forks
      BY <1>2 DEF Exec, Item, Items
    <2>2. work' \subseteq Items /\ work' = work \cup {Item("exec", p, b, NoFile)}
      BY <1>2, <2>1 DEF Exec, Enqueue
    <2>3. /\ exe' \in [Pids -> Exes] /\ exposed' \subseteq Pids
          /\ \A q \in Pids : proc[q] # 0 /\ exe'[q] \notin protect => q \in exposed'
      BY <1>2 DEF Exec
    <2>4. \A i \in work' : /\ i \in work \/ i = Item("exec", p, b, NoFile)
                           /\ i.start <= forks
                           /\ i.op = "execTrusted" => i.file \in vouched
                           /\ i.op \in {"exec", "execTrusted", "execUntrusted"}
                                 => i.file \in Exes
      BY <1>2, <2>1, <2>2 DEF Item
    <2>5. \A k \in kills : k.stage = "signal" /\ Alive(k) => k.pid \in exposed'
      BY <1>2 DEF Exec
    <2> QED  BY <1>2, <2>2, <2>3, <2>4, <2>5 DEF Exec
  <1>3. ASSUME NEW p \in Pids, Exit(p) PROVE OtherFacts'
    <2>1. proc' \in [Pids -> {0} \cup Starts] /\ \A q \in Pids : proc'[q] \in {0, proc[q]}
      BY <1>3 DEF Exit
    <2>2. \A k \in kills : k.start \in Starts /\ k.pid \in Pids
      BY DEF Detections
    <2> QED  BY <1>3, <2>1, <2>2 DEF Exit
  <1>4. ASSUME NEW op \in {"open", "unlink", "rename"}, NEW p \in Pids, NEW f \in Files,
               NEW g \in Files \cup {NoFile}, Touch(op, p, f, g)
        PROVE  OtherFacts'
    <2>1. Item(op, p, f, g) \in Items /\ proc[p] <= forks
      BY <1>4 DEF Touch, Item, Items
    <2>2. work' \subseteq Items /\ work' = work \cup {Item(op, p, f, g)}
      BY <1>4, <2>1 DEF Touch, Enqueue
    <2>3. \A i \in work' : /\ i.start <= forks
                           /\ i.op = "execTrusted" => i.file \in vouched
                           /\ i.op \in {"exec", "execTrusted", "execUntrusted"}
                                 => i.file \in Exes
      BY <1>4, <2>1, <2>2 DEF Item
    <2> QED  BY <1>4, <2>2, <2>3 DEF Touch
  <1> QED
    BY <1>1, <1>2, <1>3, <1>4 DEF Processes

\* The work that leaves the table alone.
LEMMA ReadTrustStep ==
  ASSUME TableFacts, OtherFacts, NEW i \in work, HashFails(i) \/ ReadTrust(i)
  PROVE  OtherFacts'
  <1> USE DEF OtherFacts, GuardInv, Alive, tableVars, listVars, procVars
  <1>1. CASE HashFails(i)
    BY <1>1 DEF HashFails
  <1>2. CASE ReadTrust(i)
    <2> DEFINE j == [i EXCEPT !.op = IF i.file \in trust THEN "execTrusted"
                                     ELSE "execUntrusted"]
    <2>1. j \in Items /\ j.start = i.start /\ j.file = i.file
          /\ (j.op = "execTrusted" => i.file \in trust)
      BY DEF Items
    <2>2. work' = (work \ {i}) \cup {j} /\ i.file \in Exes
      BY <1>2 DEF ReadTrust
    <2> HIDE DEF j
    <2>3. work' \subseteq Items
      BY <2>1, <2>2
    <2>4. \A w \in work' : /\ w.start <= forks
                           /\ w.op = "execTrusted" => w.file \in vouched
                           /\ w.op \in {"exec", "execTrusted", "execUntrusted"}
                                 => w.file \in Exes
      BY <2>1, <2>2
    <2> QED  BY <1>2, <2>3, <2>4 DEF ReadTrust
  <1> QED  BY <1>1, <1>2

\* What a work function may detect.
Fresh(i) == {k \in Detections : k.start = i.start /\ k.stage = "check"}

\* What the three detecting work functions detect is of that kind.
LEMMA DetectionFresh ==
  ASSUME NEW i, i.pid \in Pids, i.start \in Starts
  PROVE  /\ Detection(i, "sensitive", {}) \in Fresh(i)
         /\ \A R \in Ring : Detection(i, "rapid", Touchers(R)) \in Fresh(i)
         /\ \A t \in {0} \cup Starts : Detection(i, "selfDelete", {t}) \in Fresh(i)
  <1>1. \A r \in {"sensitive", "rapid", "selfDelete"}, b \in SUBSET ({0} \cup Starts) :
           Detection(i, r, b) \in Fresh(i)
    BY DEF Detection, Detections, Fresh
  <1>2. \A R \in Ring : Touchers(R) \in SUBSET ({0} \cup Starts)
    BY DEF Touchers, Ring
  <1> QED  BY <1>1, <1>2

\* A detection of a work function.
LEMMA DetectStep ==
  ASSUME OtherFacts, NEW i \in work, work' = work \ {i}, UNCHANGED <<procVars, jiffies, listVars>>,
         NEW K, kills' = kills \cup K,
         K \subseteq Fresh(i)
  PROVE  OtherFacts'
  <1> USE DEF Fresh, OtherFacts, GuardInv, Alive, listVars, procVars
  <1>1. work' \subseteq Items /\ kills' \subseteq Detections
    OBVIOUS
  <1>2. \A k \in kills' : k.start <= forks
    OBVIOUS
  <1>3. \A k \in kills' : /\ k.stage # "check" => k.pid # InitPid
                          /\ k.stage = "signal" /\ proc[k.pid] = k.start => k.pid \in exposed
    OBVIOUS
  <1> QED  BY <1>1, <1>2, <1>3

\* kill_with_reason() and the signal.
LEMMA KillStep == ASSUME OtherFacts, Kill PROVE OtherFacts'
  <1> USE DEF OtherFacts, GuardInv, Alive, tableVars, listVars, procVars
  <1>1. ASSUME NEW k \in kills, kill_with_reason(k) PROVE OtherFacts'
    <2>1. PICK hasBuf \in BOOLEAN :
             kills' = (kills \ {k}) \cup
              IF k.pid = InitPid \/ (hasBuf /\ av_behavior_target_is_protected(k))
              THEN {} ELSE {[k EXCEPT !.stage = IF hasBuf THEN "signal" ELSE "blind"]}
      BY <1>1 DEF kill_with_reason
    <2>2. CASE k.pid = InitPid \/ (hasBuf /\ av_behavior_target_is_protected(k))
      BY <1>1, <2>1, <2>2 DEF kill_with_reason
    <2>3. CASE ~(k.pid = InitPid \/ (hasBuf /\ av_behavior_target_is_protected(k)))
      <3> DEFINE l == [k EXCEPT !.stage = IF hasBuf THEN "signal" ELSE "blind"]
      <3>1. l \in Detections /\ l.pid = k.pid /\ l.start = k.start
            /\ (l.stage = "signal" => hasBuf)
        BY DEF Detections
      <3>2. kills' = (kills \ {k}) \cup {l}
        BY <2>1, <2>3
      <3>3. k.pid \in Pids /\ k.start \in Starts
        BY DEF Detections
      <3> HIDE DEF l
      <3>4. l.pid # InitPid
        BY <2>3, <3>1
      <3>5. l.stage = "signal" /\ Alive(l) => l.pid \in exposed
        BY <2>3, <3>1, <3>3, ProcessAssumption DEF av_behavior_target_is_protected, Starts
      <3> QED  BY <1>1, <3>1, <3>2, <3>4, <3>5 DEF kill_with_reason
    <2> QED  BY <2>2, <2>3
  <1>2. ASSUME NEW k \in kills, SendSig(k) PROVE OtherFacts'
    <2>1. k.pid \in Pids /\ \A l \in kills : l.start \in Starts /\ l.pid \in Pids
      BY DEF Detections
    <2>2. proc' \in [Pids -> {0} \cup Starts] /\ \A q \in Pids : proc'[q] \in {0, proc[q]}
      BY <1>2, <2>1 DEF SendSig
    <2> QED  BY <1>2, <2>1, <2>2, ProcessAssumption DEF SendSig, Starts
  <1> QED  BY <1>1, <1>2 DEF Kill

\* The /proc lists, the clock and the sweep.
LEMMA ListStep == ASSUME OtherFacts, Lists PROVE OtherFacts'
  <1> USE DEF OtherFacts, GuardInv, Alive, tableVars, procVars
  <1>1. ASSUME NEW b \in Exes, av_behavior_trust_add(b) PROVE OtherFacts'
    BY <1>1 DEF av_behavior_trust_add
  <1>2. ASSUME NEW b \in Exes, av_behavior_trust_del(b) PROVE OtherFacts'
    BY <1>2 DEF av_behavior_trust_del
  <1>3. ASSUME NEW b \in Exes, av_behavior_protect_add(b) PROVE OtherFacts'
    BY <1>3 DEF av_behavior_protect_add
  <1>4. ASSUME NEW b \in Exes, av_behavior_protect_del(b) PROVE OtherFacts'
    BY <1>4 DEF av_behavior_protect_del
  <1> QED
    BY <1>1, <1>2, <1>3, <1>4 DEF Lists, trust_proc_write, protected_proc_write

\* The exec of a binary: its trust was read before.
LEMMA RecordExecStep ==
  ASSUME TableFacts, OtherFacts, NEW i \in work, av_behavior_record_exec(i)
  PROVE  TableFacts' /\ OtherFacts'
  <1>1. /\ i.pid \in Pids /\ i.start \in Starts /\ i.file \in Exes
        /\ jiffies \in 0 .. MaxJiffies
        /\ i.op = "execTrusted" => i.file \in vouched
    BY DEF OtherFacts, Items, av_behavior_record_exec
  <1>2. OtherFacts'
    BY DEF av_behavior_record_exec, OtherFacts, GuardInv, Alive, procVars, listVars
  <1> DEFINE e(L) == [L.entry EXCEPT !.exec = i.file, !.setBy = i.start,
                                     !.trusted = (i.op = "execTrusted")]
             n(L) == IF e(L).start = i.start THEN e(L)
                     ELSE [e(L) EXCEPT !.start = i.start, !.writes = {}, !.renames = {}]
  <1>3. PICK L \in get_or_create_entry(i.pid) : Store(i.pid, L, n(L))
    BY DEF av_behavior_record_exec
  <1>4. GoodEntry(L.entry) /\ L.entry \in Entry
    BY <1>1, Lookup DEF GoodEntry
  <1>5. /\ e(L) \in Entry /\ e(L).writes = L.entry.writes /\ e(L).renames = L.entry.renames
        /\ e(L).trusted = (i.op = "execTrusted") /\ e(L).exec = i.file
    BY <1>1, <1>4 DEF Entry
  <1>6. /\ [e(L) EXCEPT !.start = i.start, !.writes = {}, !.renames = {}] \in Entry
        /\ [e(L) EXCEPT !.start = i.start, !.writes = {}, !.renames = {}].writes = {}
        /\ [e(L) EXCEPT !.start = i.start, !.writes = {}, !.renames = {}].renames = {}
        /\ [e(L) EXCEPT !.start = i.start, !.writes = {}, !.renames = {}].exec = i.file
        /\ [e(L) EXCEPT !.start = i.start, !.writes = {}, !.renames = {}].trusted
             = (i.op = "execTrusted")
    <2> HIDE DEF e
    <2>1. {} \in Ring
      BY DEF Ring
    <2> QED  BY <1>1, <1>5, <2>1 DEF Entry
  <1>7. IsFiniteSet({}) /\ Cardinality({}) = 0 /\ 0 <= WriteThreshold /\ 0 <= RenameThreshold
    BY FS_EmptySet, LimitAssumption
  <1>8. /\ n(L) \in Entry /\ n(L).exec = i.file /\ n(L).trusted = (i.op = "execTrusted")
        /\ \/ n(L).writes = {} /\ n(L).renames = {}
           \/ n(L).writes = L.entry.writes /\ n(L).renames = L.entry.renames
    <2> HIDE DEF e
    <2> QED  BY <1>5, <1>6
  <1> HIDE DEF n
  <1>9. GoodEntry(n(L))
    BY <1>4, <1>7, <1>8 DEF GoodEntry, RingsFit
  <1>10. vouched' = vouched /\ (n(L).trusted => n(L).exec \in vouched)
    BY <1>1, <1>8 DEF av_behavior_record_exec, listVars
  <1> QED  BY <1>1, <1>2, <1>3, <1>9, <1>10, StoreTable

\* An open for writing.
LEMMA OpenStep ==
  ASSUME TableFacts, OtherFacts, NEW i \in work, av_behavior_check_openat(i)
  PROVE  TableFacts' /\ OtherFacts'
  <1>1. /\ i.pid \in Pids /\ i.start \in Starts /\ i.file \in Files
        /\ jiffies \in 0 .. MaxJiffies
    BY DEF OtherFacts, Items
  <1>2. /\ work' = work \ {i} /\ UNCHANGED <<procVars, jiffies, listVars>> /\ vouched' = vouched
    BY DEF av_behavior_check_openat, listVars
  <1>3. CASE i.file \in Pseudo
    <2> DEFINE K == {}
    <2>1. UNCHANGED tableVars /\ kills' = kills \cup K /\ K \subseteq Fresh(i)
      BY <1>3 DEF av_behavior_check_openat
    <2> HIDE DEF K
    <2>2. OtherFacts'
      BY <1>2, <2>1, DetectStep
    <2> QED  BY <1>2, <2>1, <2>2, TableSame
  <1>4. CASE i.file \notin Pseudo
    <2> DEFINE counted(L) == L.ok /\ ~L.entry.trusted /\ i.file \notin Noise
               K(L) == IF i.file \in Sensitive THEN {Detection(i, "sensitive", {})}
                       ELSE IF counted(L) /\ Trips(L.entry.writes, i.file, WriteThreshold)
                       THEN {Detection(i, "rapid", Touchers(L.entry.writes))} ELSE {}
    <2>1. PICK L \in get_or_create_entry(i.pid) :
             /\ \E S \in IF counted(L) THEN sliding_window_note(L.entry.writes, i.file, i.start,
                                                                WriteThreshold)
                         ELSE {L.entry.writes} :
                   Store(i.pid, L, [L.entry EXCEPT !.writes = S])
             /\ kills' = kills \cup K(L)
      BY <1>4 DEF av_behavior_check_openat, Detect
    <2>2. PICK S \in IF counted(L) THEN sliding_window_note(L.entry.writes, i.file, i.start,
                                                            WriteThreshold)
                     ELSE {L.entry.writes} :
             Store(i.pid, L, [L.entry EXCEPT !.writes = S])
      BY <2>1
    <2>3. GoodEntry(L.entry) /\ (L.entry.trusted => L.entry.exec \in vouched)
      BY <1>1, Lookup
    <2>4. /\ L.entry \in Entry /\ L.entry.writes \in Ring
          /\ IsFiniteSet(L.entry.writes) /\ Cardinality(L.entry.writes) <= WriteThreshold
      BY <2>3 DEF GoodEntry, RingsFit, Entry
    <2>5. S \in Ring /\ IsFiniteSet(S) /\ Cardinality(S) <= WriteThreshold
      <3>1. CASE counted(L)
        <4>1. S \in sliding_window_note(L.entry.writes, i.file, i.start, WriteThreshold)
          BY <2>2, <3>1
        <4> QED  BY <1>1, <2>4, <4>1, NoteRing, LimitAssumption
      <3>2. CASE ~counted(L)
        BY <2>2, <2>4, <3>2
      <3> QED  BY <3>1, <3>2
    <2>6. GoodEntry([L.entry EXCEPT !.writes = S])
          /\ [L.entry EXCEPT !.writes = S].trusted = L.entry.trusted
          /\ [L.entry EXCEPT !.writes = S].exec = L.entry.exec
      <3>1. /\ [L.entry EXCEPT !.writes = S] \in Entry
            /\ [L.entry EXCEPT !.writes = S].writes = S
            /\ [L.entry EXCEPT !.writes = S].renames = L.entry.renames
            /\ [L.entry EXCEPT !.writes = S].trusted = L.entry.trusted
            /\ [L.entry EXCEPT !.writes = S].exec = L.entry.exec
        BY <2>4, <2>5 DEF Entry
      <3> QED  BY <2>3, <2>5, <3>1 DEF GoodEntry, RingsFit
    <2>7. TableFacts'
      BY <1>1, <1>2, <2>2, <2>3, <2>6, StoreTable
    <2>8. K(L) \subseteq Fresh(i)
      <3>1. /\ Detection(i, "sensitive", {}) \in Fresh(i)
            /\ Detection(i, "rapid", Touchers(L.entry.writes)) \in Fresh(i)
        BY <1>1, <2>4, DetectionFresh
      <3> HIDE DEF counted
      <3> QED  BY <3>1
    <2> HIDE DEF K
    <2> QED  BY <1>2, <2>1, <2>7, <2>8, DetectStep
  <1> QED  BY <1>3, <1>4

\* An unlink.
LEMMA UnlinkStep ==
  ASSUME TableFacts, OtherFacts, NEW i \in work, av_behavior_check_unlink(i)
  PROVE  TableFacts' /\ OtherFacts'
  <1>1. /\ i.pid \in Pids /\ i.start \in Starts /\ i.file \in Files
        /\ jiffies \in 0 .. MaxJiffies
    BY DEF OtherFacts, Items
  <1>2. /\ work' = work \ {i} /\ UNCHANGED <<procVars, jiffies, listVars>> /\ vouched' = vouched
    BY DEF av_behavior_check_unlink, listVars
  <1>3. CASE i.file \in Pseudo
    <2> DEFINE K == {}
    <2>1. UNCHANGED tableVars /\ kills' = kills \cup K /\ K \subseteq Fresh(i)
      BY <1>3 DEF av_behavior_check_unlink
    <2> HIDE DEF K
    <2>2. OtherFacts'
      BY <1>2, <2>1, DetectStep
    <2> QED  BY <1>2, <2>1, <2>2, TableSame
  <1>4. CASE i.file \notin Pseudo
    <2> DEFINE K(L) == IF L.ok /\ L.entry.exec = i.file
                       THEN {Detection(i, "selfDelete", {L.entry.setBy})}
                       ELSE IF i.file \in Sensitive
                       THEN {Detection(i, "sensitive", {})} ELSE {}
    <2>1. PICK L \in get_or_create_entry(i.pid) :
             Store(i.pid, L, L.entry) /\ kills' = kills \cup K(L)
      BY <1>4 DEF av_behavior_check_unlink, Detect
    <2>e. GoodEntry(L.entry) /\ (L.entry.trusted => L.entry.exec \in vouched)
      BY <1>1, Lookup
    <2>2. TableFacts'
      BY <1>1, <1>2, <2>1, <2>e, StoreTable
    <2>3. K(L) \subseteq Fresh(i)
      <3>1. L.entry.setBy \in {0} \cup Starts
        BY <2>e DEF GoodEntry, Entry
      <3> QED  BY <1>1, <3>1, DetectionFresh
    <2> HIDE DEF K
    <2> QED  BY <1>2, <2>1, <2>2, <2>3, DetectStep
  <1> QED  BY <1>3, <1>4

\* A rename.
LEMMA RenameStep ==
  ASSUME TableFacts, OtherFacts, NEW i \in work, av_behavior_check_rename(i)
  PROVE  TableFacts' /\ OtherFacts'
  <1>1. /\ i.pid \in Pids /\ i.start \in Starts /\ i.file \in Files
        /\ jiffies \in 0 .. MaxJiffies
    BY DEF OtherFacts, Items
  <1>2. /\ work' = work \ {i} /\ UNCHANGED <<procVars, jiffies, listVars>> /\ vouched' = vouched
    BY DEF av_behavior_check_rename, listVars
  <1> DEFINE sensitive == i.file \in Sensitive \/ i.to \in Sensitive
  <1>3. CASE <<i.file, i.to>> \notin Appends
    <2> DEFINE K == IF sensitive THEN {Detection(i, "sensitive", {})} ELSE {}
    <2>1. UNCHANGED tableVars /\ kills' = kills \cup K
      BY <1>3 DEF av_behavior_check_rename, Detect
    <2>2. K \subseteq Fresh(i)
      BY <1>1, DetectionFresh
    <2> HIDE DEF K
    <2> QED  BY <1>2, <2>1, <2>2, TableSame, DetectStep
  <1>4. CASE <<i.file, i.to>> \in Appends
    <2> DEFINE counted(L) == L.ok /\ ~L.entry.trusted
                             /\ {i.file, i.to} \cap (Pseudo \cup Noise) = {}
               K(L) == IF sensitive THEN {Detection(i, "sensitive", {})}
                       ELSE IF counted(L) /\ Trips(L.entry.renames, i.file, RenameThreshold)
                       THEN {Detection(i, "rapid", Touchers(L.entry.renames))} ELSE {}
    <2>1. PICK L \in get_or_create_entry(i.pid) :
             /\ \E S \in IF counted(L) THEN sliding_window_note(L.entry.renames, i.file, i.start,
                                                                RenameThreshold)
                         ELSE {L.entry.renames} :
                   Store(i.pid, L, [L.entry EXCEPT !.renames = S])
             /\ kills' = kills \cup K(L)
      BY <1>4 DEF av_behavior_check_rename, Detect
    <2>2. PICK S \in IF counted(L) THEN sliding_window_note(L.entry.renames, i.file, i.start,
                                                            RenameThreshold)
                     ELSE {L.entry.renames} :
             Store(i.pid, L, [L.entry EXCEPT !.renames = S])
      BY <2>1
    <2>3. GoodEntry(L.entry) /\ (L.entry.trusted => L.entry.exec \in vouched)
      BY <1>1, Lookup
    <2>4. /\ L.entry \in Entry /\ L.entry.renames \in Ring
          /\ IsFiniteSet(L.entry.renames) /\ Cardinality(L.entry.renames) <= RenameThreshold
      BY <2>3 DEF GoodEntry, RingsFit, Entry
    <2>5. S \in Ring /\ IsFiniteSet(S) /\ Cardinality(S) <= RenameThreshold
      <3>1. CASE counted(L)
        <4>1. S \in sliding_window_note(L.entry.renames, i.file, i.start, RenameThreshold)
          BY <2>2, <3>1
        <4> QED  BY <1>1, <2>4, <4>1, NoteRing, LimitAssumption
      <3>2. CASE ~counted(L)
        BY <2>2, <2>4, <3>2
      <3> QED  BY <3>1, <3>2
    <2>6. GoodEntry([L.entry EXCEPT !.renames = S])
          /\ [L.entry EXCEPT !.renames = S].trusted = L.entry.trusted
          /\ [L.entry EXCEPT !.renames = S].exec = L.entry.exec
      <3>1. /\ [L.entry EXCEPT !.renames = S] \in Entry
            /\ [L.entry EXCEPT !.renames = S].renames = S
            /\ [L.entry EXCEPT !.renames = S].writes = L.entry.writes
            /\ [L.entry EXCEPT !.renames = S].trusted = L.entry.trusted
            /\ [L.entry EXCEPT !.renames = S].exec = L.entry.exec
        BY <2>4, <2>5 DEF Entry
      <3> QED  BY <2>3, <2>5, <3>1 DEF GoodEntry, RingsFit
    <2>7. TableFacts'
      BY <1>1, <1>2, <2>2, <2>3, <2>6, StoreTable
    <2>8. K(L) \subseteq Fresh(i)
      <3>1. /\ Detection(i, "sensitive", {}) \in Fresh(i)
            /\ Detection(i, "rapid", Touchers(L.entry.renames)) \in Fresh(i)
        BY <1>1, <2>4, DetectionFresh
      <3> HIDE DEF counted
      <3> QED  BY <3>1
    <2> HIDE DEF K
    <2> QED  BY <1>2, <2>1, <2>7, <2>8, DetectStep
  <1> QED  BY <1>3, <1>4

\* A member leaves a ring.
LEMMA AgeOutStep ==
  ASSUME TableFacts, OtherFacts, NEW p \in Pids, AgeOut(p)
  PROVE  TableFacts' /\ OtherFacts'
  <1>1. OtherFacts'
    BY DEF AgeOut, OtherFacts, GuardInv, Alive, procVars, listVars
  <1>2. /\ tracked' = tracked /\ count' = count /\ vouched' = vouched
        /\ GoodEntry(table[p]) /\ table[p] \in Entry
    BY DEF AgeOut, listVars, TableFacts
  <1>3. ASSUME NEW e, table' = [table EXCEPT ![p] = e], GoodEntry(e),
               e.trusted = table[p].trusted, e.exec = table[p].exec
        PROVE  TableFacts'
    <2>1. \A q \in Pids : table'[q] = IF q = p THEN e ELSE table[q]
      BY <1>3 DEF TableFacts
    <2>2. (\A q \in Pids : GoodEntry(table[q]))' /\ table' \in [Pids -> Entry]
      BY <1>3, <2>1 DEF TableFacts, GoodEntry, RingsFit
    <2>3. TrustIsVouched'
      BY <1>2, <1>3, <2>1 DEF TableFacts, TrustIsVouched
    <2> QED  BY <1>2, <2>2, <2>3 DEF TableFacts, CountIsExact
  <1>4. ASSUME NEW r \in table[p].writes, table' = [table EXCEPT ![p].writes = @ \ {r}]
        PROVE  TableFacts'
    <2> DEFINE e == [table[p] EXCEPT !.writes = table[p].writes \ {r}]
    <2>1. table' = [table EXCEPT ![p] = e]
      BY <1>4
    <2>2. /\ e \in Entry /\ e.writes = table[p].writes \ {r} /\ e.renames = table[p].renames
          /\ e.trusted = table[p].trusted /\ e.exec = table[p].exec
      <3>1. table[p].writes \ {r} \in Ring
        BY <1>2 DEF Entry, Ring
      <3> QED  BY <1>2, <3>1 DEF Entry
    <2> HIDE DEF e
    <2>3. IsFiniteSet(e.writes) /\ Cardinality(e.writes) <= Cardinality(table[p].writes)
          /\ Cardinality(e.writes) \in Nat /\ Cardinality(table[p].writes) \in Nat
      <3>1. e.writes \subseteq table[p].writes /\ IsFiniteSet(table[p].writes)
        BY <1>2, <2>2 DEF GoodEntry
      <3> QED  BY <3>1, FS_Subset, FS_CardinalityType
    <2>4. GoodEntry(e)
      BY <1>2, <2>2, <2>3, LimitAssumption DEF GoodEntry, RingsFit
    <2> QED  BY <1>3, <2>1, <2>2, <2>4
  <1>5. ASSUME NEW r \in table[p].renames, table' = [table EXCEPT ![p].renames = @ \ {r}]
        PROVE  TableFacts'
    <2> DEFINE e == [table[p] EXCEPT !.renames = table[p].renames \ {r}]
    <2>1. table' = [table EXCEPT ![p] = e]
      BY <1>5
    <2>2. /\ e \in Entry /\ e.renames = table[p].renames \ {r} /\ e.writes = table[p].writes
          /\ e.trusted = table[p].trusted /\ e.exec = table[p].exec
      <3>1. table[p].renames \ {r} \in Ring
        BY <1>2 DEF Entry, Ring
      <3> QED  BY <1>2, <3>1 DEF Entry
    <2> HIDE DEF e
    <2>3. IsFiniteSet(e.renames) /\ Cardinality(e.renames) <= Cardinality(table[p].renames)
          /\ Cardinality(e.renames) \in Nat /\ Cardinality(table[p].renames) \in Nat
      <3>1. e.renames \subseteq table[p].renames /\ IsFiniteSet(table[p].renames)
        BY <1>2, <2>2 DEF GoodEntry
      <3> QED  BY <3>1, FS_Subset, FS_CardinalityType
    <2>4. GoodEntry(e)
      BY <1>2, <2>2, <2>3, LimitAssumption DEF GoodEntry, RingsFit
    <2> QED  BY <1>3, <2>1, <2>2, <2>4
  <1> QED  BY <1>1, <1>4, <1>5 DEF AgeOut

\* The sweep: an entry goes, is handed on cleared, or stays.
LEMMA GcStep ==
  ASSUME TableFacts, OtherFacts, behavior_gc_fn
  PROVE  TableFacts' /\ OtherFacts'
  <1> DEFINE gone == {p \in tracked : proc[p] = 0}
             recycled == {p \in tracked \ gone : table[p].start \notin {0, proc[p]}}
             handed(p) == [ZeroEntry EXCEPT !.start = proc[p], !.touched = table[p].touched]
  <1>1. OtherFacts'
    BY DEF behavior_gc_fn, OtherFacts, GuardInv, Alive, procVars, listVars
  <1>2. /\ tracked' = tracked \ gone /\ count' = count - Cardinality(gone)
        /\ table' = [p \in Pids |-> IF p \in gone THEN ZeroEntry
                                    ELSE IF p \in recycled THEN handed(p) ELSE table[p]]
        /\ vouched' = vouched
    BY DEF behavior_gc_fn, listVars
  <1>3. /\ IsFiniteSet(tracked) /\ Cardinality(tracked) \in Nat
        /\ count = Cardinality(tracked) /\ count <= MaxEntries
    BY ProcessAssumption, FS_Subset, FS_CardinalityType DEF TableFacts, CountIsExact
  <1>4. CountIsExact' /\ count' \in Int
    <2>1. gone \subseteq tracked
      OBVIOUS
    <2> HIDE DEF gone
    <2>2. IsFiniteSet(gone) /\ Cardinality(gone) \in Nat
      BY <1>3, <2>1, FS_Subset, FS_CardinalityType
    <2>3. Cardinality(tracked \ gone) = Cardinality(tracked) - Cardinality(tracked \cap gone)
      BY <1>3, <2>2, FS_Difference
    <2>4. tracked \cap gone = gone
      BY <2>1
    <2>5. tracked' = tracked \ gone /\ count' = count - Cardinality(gone)
      BY <1>2
    <2>6. count' = Cardinality(tracked') /\ count' <= count
      <3>1. Cardinality(tracked \ gone) = count - Cardinality(gone)
        BY <1>3, <2>3, <2>4, Zenon
      <3>2. Cardinality(tracked') = count'
        BY <2>5, <3>1, Zenon
      <3> QED  BY <1>3, <2>2, <2>5, <3>2
    <2>7. count' \in Int
      BY <1>3, <2>2, <2>5
    <2> QED  BY <1>3, <2>6, <2>7, LimitAssumption DEF CountIsExact
  <1>5. GoodEntry(ZeroEntry) /\ ~ZeroEntry.trusted /\ ZeroEntry \in Entry
        /\ ZeroEntry.writes = {} /\ ZeroEntry.renames = {}
    BY ZeroGood DEF OtherFacts, GoodEntry
  <1>6. ASSUME NEW p \in Pids PROVE GoodEntry(handed(p)) /\ ~handed(p).trusted
    <2>1. table[p].touched \in 0 .. MaxJiffies /\ proc[p] \in {0} \cup Starts
      BY DEF TableFacts, OtherFacts, Entry
    <2>2. /\ handed(p) \in Entry /\ handed(p).trusted = ZeroEntry.trusted
          /\ handed(p).writes = {} /\ handed(p).renames = {}
      BY <1>5, <2>1 DEF Entry
    <2> HIDE DEF handed
    <2> QED  BY <1>5, <2>2 DEF GoodEntry, RingsFit
  <1> HIDE DEF gone, recycled, handed
  <1>7. \A p \in Pids : GoodEntry(table'[p])
    BY <1>2, <1>5, <1>6 DEF TableFacts
  <1>8. (\A p \in Pids : GoodEntry(table[p]))' /\ table' \in [Pids -> Entry]
    BY <1>2, <1>7 DEF GoodEntry, RingsFit
  <1>9. tracked' \subseteq tracked /\ tracked \subseteq Pids
    BY <1>2 DEF TableFacts
  <1>10. TrustIsVouched'
    BY <1>2, <1>5, <1>6, <1>9 DEF TableFacts, TrustIsVouched
  <1> QED  BY <1>1, <1>4, <1>8, <1>9, <1>10 DEF TableFacts

\* Every step keeps the invariant.
LEMMA NextIInv == ASSUME IInv, [Next]_vars PROVE IInv'
  <1>0. TableFacts /\ OtherFacts
    BY Split
  <1> SUFFICES TableFacts' /\ OtherFacts'
    BY Split
  <1>1. CASE Processes
    <2>1. UNCHANGED tableVars /\ vouched' = vouched
      BY <1>1 DEF Processes, Fork, Exec, Exit, Touch, listVars
    <2> QED  BY <1>0, <1>1, <2>1, TableSame, ProcessStep
  <1>2. ASSUME NEW i \in work, HashFails(i) \/ ReadTrust(i) PROVE TableFacts' /\ OtherFacts'
    <2>1. UNCHANGED tableVars /\ vouched' = vouched
      BY <1>2 DEF HashFails, ReadTrust, listVars
    <2> QED  BY <1>0, <1>2, <2>1, TableSame, ReadTrustStep
  <1>3. CASE Work
    BY <1>0, <1>2, <1>3, RecordExecStep, OpenStep, UnlinkStep, RenameStep DEF Work
  <1>4. CASE Kill
    <2>1. UNCHANGED tableVars /\ vouched' = vouched
      BY <1>4 DEF Kill, kill_with_reason, SendSig, listVars
    <2> QED  BY <1>0, <1>4, <2>1, TableSame, KillStep
  <1>5. CASE Lists
    <2>1. UNCHANGED tableVars /\ vouched \subseteq vouched'
      BY <1>5 DEF Lists, trust_proc_write, protected_proc_write, av_behavior_trust_add,
           av_behavior_trust_del, av_behavior_protect_add, av_behavior_protect_del
    <2> QED  BY <1>0, <1>5, <2>1, TableSame, ListStep
  <1>6. CASE Tick
    <2>1. UNCHANGED tableVars /\ vouched' = vouched
      BY <1>6 DEF Tick, listVars
    <2>2. OtherFacts'
      BY <1>0, <1>6, LimitAssumption DEF Tick, OtherFacts, GuardInv, Alive, procVars, listVars
    <2> QED  BY <1>0, <2>1, <2>2, TableSame
  <1>7. ASSUME NEW p \in Pids, AgeOut(p) PROVE TableFacts' /\ OtherFacts'
    BY <1>0, <1>7, AgeOutStep
  <1>8. CASE behavior_gc_fn
    BY <1>0, <1>8, GcStep
  <1>9. CASE UNCHANGED vars
    <2>1. UNCHANGED tableVars /\ vouched' = vouched
      BY <1>9 DEF vars, listVars
    <2>2. OtherFacts'
      BY <1>0, <1>9 DEF vars, OtherFacts, GuardInv, Alive, procVars, listVars
    <2> QED  BY <1>0, <2>1, <2>2, TableSame
  <1> QED
    BY <1>1, <1>3, <1>4, <1>5, <1>6, <1>7, <1>8, <1>9 DEF Next

-----------------------------------------------------------------------------
(* The theorems.                                                           *)

\* The inductive invariant holds of every process table, work queue, list and
\* detection on its way to a kill.
THEOREM InvariantHolds == Spec => []IInv
  <1>1. Init => IInv
    BY InitIInv
  <1>2. IInv /\ [Next]_vars => IInv'
    BY NextIInv
  <1> QED BY <1>1, <1>2, PTL DEF Spec

\* The heuristics are type correct, and no sliding window outgrows its array.
THEOREM TypeCorrect == Spec => []TypeOK
  <1>1. IInv => TypeOK
    BY DEF IInv
  <1> QED BY <1>1, InvariantHolds, PTL

\* behavior_table_count is the number of entries and stays within
\* MAX_BEHAVIOR_ENTRIES.
THEOREM CountExact == Spec => []CountIsExact
  <1>1. IInv => CountIsExact
    BY DEF IInv
  <1> QED BY <1>1, InvariantHolds, PTL

\* An entry is exempt only through a binary that was on the trust list.
THEOREM TrustVouched == Spec => []TrustIsVouched
  <1>1. IInv => TrustIsVouched
    BY DEF IInv, VouchInv
  <1> QED BY <1>1, InvariantHolds, PTL

\* kill_with_reason() spares init and whoever was protected all its life.
THEOREM GuardHolds == Spec => GuardedNeverKilled
  <1>1. IInv /\ [Next]_vars =>
          [\A k \in kills :
              (k \notin kills' /\ Alive(k) /\ proc'[k.pid] = 0)
                  => k.pid # InitPid /\ (k.pid \in exposed \/ k.stage = "blind")]_vars
    <2> SUFFICES ASSUME IInv, [Next]_vars, NEW k \in kills, k \notin kills', Alive(k),
                        proc'[k.pid] = 0
                 PROVE  k.pid # InitPid /\ (k.pid \in exposed \/ k.stage = "blind")
      OBVIOUS
    <2>0. OtherFacts
      BY Split
    <2>1. k \in Detections /\ k.start # 0 /\ k.pid \in Pids
      BY <2>0, ProcessAssumption DEF OtherFacts, Detections, Starts
    <2>2. Kill
      BY DEF Next, vars, Processes, Fork, Exec, Exit, Touch, Work, HashFails, ReadTrust,
           av_behavior_record_exec, av_behavior_check_openat, av_behavior_check_unlink,
           av_behavior_check_rename, Detect, Lists, trust_proc_write, protected_proc_write,
           av_behavior_trust_add, av_behavior_trust_del, av_behavior_protect_add,
           av_behavior_protect_del, Tick, AgeOut, behavior_gc_fn
    <2>3. ASSUME NEW l \in kills, kill_with_reason(l) PROVE FALSE
      BY <2>1, <2>3 DEF kill_with_reason, procVars, Alive
    <2>4. SendSig(k)
      BY <2>2, <2>3 DEF Kill, SendSig
    <2> QED  BY <2>0, <2>1, <2>4 DEF SendSig, OtherFacts, GuardInv
  <1> QED BY <1>1, InvariantHolds, PTL DEF Spec, GuardedNeverKilled

-----------------------------------------------------------------------------
(* What is said of a pid is said of tasks that had it.                     *)

\* A zeroed entry concerns nobody, and an entry of some tasks is one of more.
LEMMA ZeroConcerns == ASSUME NEW H PROVE Concerns(ZeroEntry, H)
  BY DEF Concerns, ZeroEntry

LEMMA ConcernsMore ==
  ASSUME NEW e, NEW H, NEW J, H \subseteq J, Concerns(e, H) PROVE Concerns(e, J)
  BY DEF Concerns

\* A lookup for p finds nothing of another pid.
LEMMA LookupConcerns ==
  ASSUME TableFacts, jiffies \in 0 .. MaxJiffies, NEW p \in Pids, NEW H,
         NEW L \in get_or_create_entry(p), Concerns(table[p], H)
  PROVE  Concerns(L.entry, H)
  <1>1. CASE L.entry = [table[p] EXCEPT !.touched = jiffies]
    <2>1. table[p] \in Entry
      BY DEF TableFacts
    <2>2. /\ L.entry.writes = table[p].writes /\ L.entry.renames = table[p].renames
          /\ L.entry.exec = table[p].exec /\ L.entry.setBy = table[p].setBy
      BY <1>1, <2>1 DEF Entry
    <2> QED  BY <2>2 DEF Concerns
  <1>2. CASE L.entry = [ZeroEntry EXCEPT !.touched = jiffies]
    BY <1>2 DEF Concerns, ZeroEntry
  <1> QED  BY <1>1, <1>2, Lookup

\* Storing an entry of q concerns q alone.
LEMMA StoreConcerns ==
  ASSUME NEW q \in Pids, NEW L, NEW e, Store(q, L, e), NEW p \in Pids, NEW H,
         Concerns(table[p], H), q = p => Concerns(e, H)
  PROVE  Concerns(table'[p], H)
  <1>1. table'[p] = IF p = q /\ L.ok THEN e
                    ELSE IF p \in L.others THEN table[p] ELSE ZeroEntry
    BY DEF Store
  <1>2. Concerns(ZeroEntry, H)
    BY ZeroConcerns
  <1> QED  BY <1>1, <1>2

\* A note adds the task that is noted to the ring, and nobody else.
LEMMA NoteConcerns ==
  ASSUME NEW R, NEW f, NEW s, NEW cap, NEW S \in sliding_window_note(R, f, s, cap), NEW H,
         s \in H, \A r \in R : r[2] \in H
  PROVE  \A r \in S : r[2] \in H
  BY DEF sliding_window_note

\* The work functions record what they see for a task that had the pid.
LEMMA WorkConcerns ==
  ASSUME TableFacts, OtherFacts, PidInv, NEW i \in work, NEW p \in Pids,
         \/ av_behavior_record_exec(i) \/ av_behavior_check_openat(i)
         \/ av_behavior_check_unlink(i) \/ av_behavior_check_rename(i)
  PROVE  Concerns(table'[p], held[p])
  <1> DEFINE H == held[p]
  <1>0. /\ Concerns(table[p], H) /\ (i.pid = p => i.start \in H)
        /\ i.pid \in Pids /\ jiffies \in 0 .. MaxJiffies
    BY DEF OtherFacts, Items, PidInv
  <1> HIDE DEF H
  <1>u. ASSUME UNCHANGED tableVars PROVE Concerns(table'[p], H)
    BY <1>0, <1>u DEF tableVars
  <1>s. ASSUME NEW L \in get_or_create_entry(i.pid), NEW e, Store(i.pid, L, e),
               i.pid = p => Concerns(e, H)
        PROVE  Concerns(table'[p], H)
    BY <1>0, <1>s, StoreConcerns
  <1>l. ASSUME NEW L \in get_or_create_entry(i.pid)
        PROVE  L.entry \in Entry /\ (i.pid = p => Concerns(L.entry, H))
    BY <1>0, <1>l, Lookup, LookupConcerns DEF GoodEntry
  <1>1. CASE av_behavior_record_exec(i)
    <2> DEFINE e(L) == [L.entry EXCEPT !.exec = i.file, !.setBy = i.start,
                                       !.trusted = (i.op = "execTrusted")]
               n(L) == IF e(L).start = i.start THEN e(L)
                       ELSE [e(L) EXCEPT !.start = i.start, !.writes = {}, !.renames = {}]
    <2>1. PICK L \in get_or_create_entry(i.pid) : Store(i.pid, L, n(L))
      BY <1>1 DEF av_behavior_record_exec
    <2>2. /\ e(L).setBy = i.start
          /\ e(L).writes = L.entry.writes /\ e(L).renames = L.entry.renames
      BY <1>l DEF Entry
    <2>3. /\ [e(L) EXCEPT !.start = i.start, !.writes = {}, !.renames = {}].setBy = i.start
          /\ [e(L) EXCEPT !.start = i.start, !.writes = {}, !.renames = {}].writes = {}
          /\ [e(L) EXCEPT !.start = i.start, !.writes = {}, !.renames = {}].renames = {}
      BY <1>l DEF Entry
    <2>4. i.pid = p => Concerns(n(L), H)
      <3> HIDE DEF e
      <3> QED  BY <1>0, <1>l, <2>2, <2>3 DEF Concerns
    <2> HIDE DEF n
    <2> QED  BY <1>s, <2>1, <2>4 DEF H
  <1>2. CASE av_behavior_check_openat(i)
    <2>1. ASSUME i.file \notin Pseudo PROVE Concerns(table'[p], H)
      <3>1. PICK L \in get_or_create_entry(i.pid) :
               \E S : /\ \/ S = L.entry.writes
                         \/ S \in sliding_window_note(L.entry.writes, i.file, i.start,
                                                      WriteThreshold)
                      /\ Store(i.pid, L, [L.entry EXCEPT !.writes = S])
        BY <1>2, <2>1 DEF av_behavior_check_openat
      <3>2. PICK S : /\ \/ S = L.entry.writes
                        \/ S \in sliding_window_note(L.entry.writes, i.file, i.start,
                                                     WriteThreshold)
                     /\ Store(i.pid, L, [L.entry EXCEPT !.writes = S])
        BY <3>1
      <3>3. i.pid = p => \A r \in S : r[2] \in H
        BY <1>0, <1>l, <3>2, NoteConcerns DEF Concerns
      <3>4. i.pid = p => Concerns([L.entry EXCEPT !.writes = S], H)
        BY <1>l, <3>3 DEF Concerns, Entry
      <3> QED  BY <1>s, <3>2, <3>4
    <2> QED  BY <1>2, <1>u, <2>1 DEF av_behavior_check_openat, H
  <1>3. CASE av_behavior_check_unlink(i)
    <2>1. ASSUME i.file \notin Pseudo PROVE Concerns(table'[p], H)
      <3>1. PICK L \in get_or_create_entry(i.pid) : Store(i.pid, L, L.entry)
        BY <1>3, <2>1 DEF av_behavior_check_unlink
      <3> QED  BY <1>s, <1>l, <3>1
    <2> QED  BY <1>3, <1>u, <2>1 DEF av_behavior_check_unlink, H
  <1>4. CASE av_behavior_check_rename(i)
    <2>1. ASSUME <<i.file, i.to>> \in Appends PROVE Concerns(table'[p], H)
      <3>1. PICK L \in get_or_create_entry(i.pid) :
               \E S : /\ \/ S = L.entry.renames
                         \/ S \in sliding_window_note(L.entry.renames, i.file, i.start,
                                                      RenameThreshold)
                      /\ Store(i.pid, L, [L.entry EXCEPT !.renames = S])
        BY <1>4, <2>1 DEF av_behavior_check_rename
      <3>2. PICK S : /\ \/ S = L.entry.renames
                        \/ S \in sliding_window_note(L.entry.renames, i.file, i.start,
                                                     RenameThreshold)
                     /\ Store(i.pid, L, [L.entry EXCEPT !.renames = S])
        BY <3>1
      <3>3. i.pid = p => \A r \in S : r[2] \in H
        BY <1>0, <1>l, <3>2, NoteConcerns DEF Concerns
      <3>4. i.pid = p => Concerns([L.entry EXCEPT !.renames = S], H)
        BY <1>l, <3>3 DEF Concerns, Entry
      <3> QED  BY <1>s, <3>2, <3>4
    <2> QED  BY <1>4, <1>u, <2>1 DEF av_behavior_check_rename, H
  <1> QED  BY <1>1, <1>2, <1>3, <1>4 DEF H

\* A work function judges its task by the entry of its pid.
LEMMA JudgesByPid ==
  ASSUME TableFacts, OtherFacts, PidInv, NEW i \in work,
         \/ av_behavior_check_openat(i) \/ av_behavior_check_unlink(i)
         \/ av_behavior_check_rename(i)
  PROVE  \A k \in kills' : k \in kills \/ k.basis \subseteq held[k.pid]
  <1>0. /\ i.pid \in Pids /\ jiffies \in 0 .. MaxJiffies /\ i.file # NoFile
        /\ i.file \in Files /\ Concerns(table[i.pid], held[i.pid])
    BY PathAssumption DEF OtherFacts, Items, PidInv
  <1>3. ASSUME NEW L \in get_or_create_entry(i.pid)
        PROVE  /\ Touchers(L.entry.writes) \subseteq held[i.pid]
               /\ Touchers(L.entry.renames) \subseteq held[i.pid]
               /\ L.entry.exec = i.file => L.entry.setBy \in held[i.pid]
    <2>1. Concerns(L.entry, held[i.pid])
      BY <1>0, <1>3, LookupConcerns
    <2> QED  BY <1>0, <2>1 DEF Concerns, Touchers
  <1>4. \A r, b : Detection(i, r, b).basis = b /\ Detection(i, r, b).pid = i.pid
    BY DEF Detection
  <1>5. CASE av_behavior_check_openat(i)
    <2>1. CASE i.file \in Pseudo
      BY <1>5, <2>1 DEF av_behavior_check_openat
    <2>2. CASE i.file \notin Pseudo
      <3>1. PICK L \in get_or_create_entry(i.pid) :
               kills' \subseteq kills \cup {Detection(i, "sensitive", {}),
                                            Detection(i, "rapid", Touchers(L.entry.writes))}
        BY <1>5, <2>2 DEF av_behavior_check_openat, Detect
      <3> QED  BY <1>3, <1>4, <3>1
    <2> QED  BY <2>1, <2>2
  <1>6. CASE av_behavior_check_unlink(i)
    <2>1. CASE i.file \in Pseudo
      BY <1>6, <2>1 DEF av_behavior_check_unlink
    <2>2. CASE i.file \notin Pseudo
      <3>1. PICK L \in get_or_create_entry(i.pid) :
               \A k \in kills' : \/ k \in kills \/ k = Detection(i, "sensitive", {})
                                 \/ /\ L.entry.exec = i.file
                                    /\ k = Detection(i, "selfDelete", {L.entry.setBy})
        BY <1>6, <2>2 DEF av_behavior_check_unlink, Detect
      <3> QED  BY <1>3, <1>4, <3>1
    <2> QED  BY <2>1, <2>2
  <1>7. CASE av_behavior_check_rename(i)
    <2>1. CASE <<i.file, i.to>> \notin Appends
      BY <1>4, <1>7, <2>1 DEF av_behavior_check_rename, Detect
    <2>2. CASE <<i.file, i.to>> \in Appends
      <3>1. PICK L \in get_or_create_entry(i.pid) :
               kills' \subseteq kills \cup {Detection(i, "sensitive", {}),
                                            Detection(i, "rapid", Touchers(L.entry.renames))}
        BY <1>7, <2>2 DEF av_behavior_check_rename, Detect
      <3> QED  BY <1>3, <1>4, <3>1
    <2> QED  BY <2>1, <2>2
  <1> QED  BY <1>5, <1>6, <1>7

\* Every step keeps what is said of a pid to the tasks that had it.
LEMMA NextPid == ASSUME IInv, PidInv, [Next]_vars PROVE PidInv'
  <1>0. TableFacts /\ OtherFacts
    BY Split
  <1>h. \A p \in Pids : held[p] \subseteq held'[p]
    <2>1. ASSUME NEW q \in Pids, NEW b \in Exes, Fork(q, b)
          PROVE  \A p \in Pids : held[p] \subseteq held'[p]
      BY <1>0, <2>1 DEF Fork, OtherFacts
    <2>2. ASSUME held' = held PROVE \A p \in Pids : held[p] \subseteq held'[p]
      BY <2>2
    <2> QED
      BY <2>1, <2>2
      DEF Next, vars, Processes, Exec, Exit, Touch, Work, HashFails, ReadTrust,
          av_behavior_record_exec, av_behavior_check_openat, av_behavior_check_unlink,
          av_behavior_check_rename, Kill, kill_with_reason, SendSig, Lists,
          trust_proc_write, protected_proc_write,
          av_behavior_trust_add, av_behavior_trust_del, av_behavior_protect_add,
          av_behavior_protect_del, Tick, AgeOut, behavior_gc_fn, procVars
  <1>p. \A p \in Pids : proc'[p] # 0 => proc'[p] \in held'[p]
    <2>0. \A p \in Pids : proc[p] # 0 => proc[p] \in held[p]
      BY DEF PidInv
    <2>1. ASSUME NEW q \in Pids, NEW b \in Exes, Fork(q, b)
          PROVE  \A p \in Pids : proc'[p] # 0 => proc'[p] \in held'[p]
      BY <1>0, <2>0, <2>1 DEF Fork, OtherFacts
    <2>2. ASSUME \A p \in Pids : proc'[p] = 0 \/ proc'[p] = proc[p]
          PROVE  \A p \in Pids : proc'[p] # 0 => proc'[p] \in held'[p]
      BY <1>h, <2>0, <2>2
    <2>3. ASSUME NEW q \in Pids, Exit(q) PROVE \A p \in Pids : proc'[p] = 0 \/ proc'[p] = proc[p]
      BY <1>0, <2>3 DEF Exit, OtherFacts
    <2>4. ASSUME NEW k \in kills, SendSig(k)
          PROVE  \A p \in Pids : proc'[p] = 0 \/ proc'[p] = proc[p]
      BY <1>0, <2>4 DEF SendSig, OtherFacts
    <2>5. ASSUME proc' = proc PROVE \A p \in Pids : proc'[p] = 0 \/ proc'[p] = proc[p]
      BY <2>5
    <2> QED
      BY <2>1, <2>2, <2>3, <2>4, <2>5
      DEF Next, vars, Processes, Exec, Touch, Work, HashFails, ReadTrust,
          av_behavior_record_exec, av_behavior_check_openat, av_behavior_check_unlink,
          av_behavior_check_rename, Kill, kill_with_reason, Lists,
          trust_proc_write, protected_proc_write,
          av_behavior_trust_add, av_behavior_trust_del, av_behavior_protect_add,
          av_behavior_protect_del, Tick, AgeOut, behavior_gc_fn, procVars
  <1>t. \A p \in Pids : Concerns(table'[p], held'[p])
    <2> SUFFICES ASSUME NEW p \in Pids PROVE Concerns(table'[p], held[p])
      BY <1>h, ConcernsMore
    <2>0. Concerns(table[p], held[p]) /\ table \in [Pids -> Entry]
      BY <1>0 DEF PidInv, TableFacts
    <2>1. ASSUME table' = table PROVE Concerns(table'[p], held[p])
      BY <2>0, <2>1
    <2>2. ASSUME NEW i \in work, \/ av_behavior_record_exec(i) \/ av_behavior_check_openat(i)
                                 \/ av_behavior_check_unlink(i) \/ av_behavior_check_rename(i)
          PROVE  Concerns(table'[p], held[p])
      BY <1>0, <2>2, WorkConcerns
    <2>3. ASSUME NEW q \in Pids, AgeOut(q) PROVE Concerns(table'[p], held[p])
      <3>1. /\ table'[p].writes \subseteq table[p].writes
            /\ table'[p].renames \subseteq table[p].renames
            /\ table'[p].exec = table[p].exec /\ table'[p].setBy = table[p].setBy
        BY <2>0, <2>3 DEF AgeOut, Entry
      <3> QED  BY <2>0, <3>1 DEF Concerns
    <2>4. ASSUME behavior_gc_fn PROVE Concerns(table'[p], held[p])
      <3>1. \/ table'[p] = ZeroEntry \/ table'[p] = table[p]
            \/ table'[p] = [ZeroEntry EXCEPT !.start = proc[p], !.touched = table[p].touched]
        BY <2>4 DEF behavior_gc_fn
      <3>2. Concerns([ZeroEntry EXCEPT !.start = proc[p], !.touched = table[p].touched],
                     held[p])
        BY DEF ZeroEntry, Concerns
      <3> QED  BY <2>0, <3>1, <3>2, ZeroConcerns
    <2> QED
      BY <2>1, <2>2, <2>3, <2>4
      DEF Next, vars, Processes, Fork, Exec, Exit, Touch, Work, HashFails, ReadTrust,
          Kill, kill_with_reason, SendSig, Lists, trust_proc_write, protected_proc_write,
          av_behavior_trust_add, av_behavior_trust_del, av_behavior_protect_add,
          av_behavior_protect_del, Tick, tableVars
  <1>w. \A i \in work' : i.start \in held'[i.pid]
    <2>0. \A i \in work : i.start \in held'[i.pid]
      BY <1>0, <1>h DEF PidInv, OtherFacts, Items
    <2>1. ASSUME work' \subseteq work PROVE \A i \in work' : i.start \in held'[i.pid]
      BY <2>0, <2>1
    <2>2. ASSUME NEW j, j.start \in held'[j.pid], work' \subseteq work \cup {j}
          PROVE  \A i \in work' : i.start \in held'[i.pid]
      BY <2>0, <2>2
    <2>3. ASSUME NEW op, NEW q \in Pids, NEW f, NEW g, proc[q] # 0
          PROVE  Item(op, q, f, g).start \in held'[Item(op, q, f, g).pid]
      BY <1>h, <2>3 DEF Item, PidInv
    <2>4. ASSUME NEW q \in Pids, NEW b \in Exes, Exec(q, b)
          PROVE  \A i \in work' : i.start \in held'[i.pid]
      <3>1. proc[q] # 0 /\ work' \subseteq work \cup {Item("exec", q, b, NoFile)}
        BY <2>4 DEF Exec, Enqueue
      <3> QED  BY <2>2, <2>3, <3>1
    <2>5. ASSUME NEW op, NEW q \in Pids, NEW f, NEW g, Touch(op, q, f, g)
          PROVE  \A i \in work' : i.start \in held'[i.pid]
      <3>1. proc[q] # 0 /\ work' \subseteq work \cup {Item(op, q, f, g)}
        BY <2>5 DEF Touch, Enqueue
      <3> QED  BY <2>2, <2>3, <3>1
    <2>6. ASSUME NEW i \in work, ReadTrust(i)
          PROVE  \A l \in work' : l.start \in held'[l.pid]
      <3> DEFINE j == [i EXCEPT !.op = IF i.file \in trust THEN "execTrusted"
                                       ELSE "execUntrusted"]
      <3>1. j.pid = i.pid /\ j.start = i.start
        BY <1>0 DEF OtherFacts, Items
      <3>2. work' \subseteq work \cup {j}
        BY <2>6 DEF ReadTrust
      <3> HIDE DEF j
      <3> QED  BY <2>0, <2>2, <3>1, <3>2
    <2> QED
      BY <2>1, <2>4, <2>5, <2>6
      DEF Next, vars, Processes, Fork, Exit, Work, HashFails, av_behavior_record_exec,
          av_behavior_check_openat, av_behavior_check_unlink, av_behavior_check_rename,
          Kill, kill_with_reason, SendSig, Lists, trust_proc_write, protected_proc_write,
          av_behavior_trust_add, av_behavior_trust_del, av_behavior_protect_add,
          av_behavior_protect_del, Tick, AgeOut, behavior_gc_fn
  <1>k. \A k \in kills' : k.basis \subseteq held'[k.pid]
    <2>0. \A k \in kills : k.basis \subseteq held'[k.pid]
      BY <1>0, <1>h DEF PidInv, JudgedByPid, OtherFacts, Detections
    <2>1. ASSUME kills' \subseteq kills PROVE \A k \in kills' : k.basis \subseteq held'[k.pid]
      BY <2>0, <2>1
    <2>2. ASSUME NEW i \in work, \/ av_behavior_check_openat(i) \/ av_behavior_check_unlink(i)
                                 \/ av_behavior_check_rename(i)
          PROVE  \A k \in kills' : k.basis \subseteq held'[k.pid]
      <3>1. held' = held
        BY <2>2 DEF av_behavior_check_openat, av_behavior_check_unlink,
           av_behavior_check_rename, procVars
      <3> QED  BY <1>0, <2>0, <2>2, <3>1, JudgesByPid
    <2>3. ASSUME NEW l \in kills, kill_with_reason(l)
          PROVE  \A k \in kills' : k.basis \subseteq held'[k.pid]
      <3>1. /\ [l EXCEPT !.stage = "signal"].basis = l.basis
            /\ [l EXCEPT !.stage = "signal"].pid = l.pid
            /\ [l EXCEPT !.stage = "blind"].basis = l.basis
            /\ [l EXCEPT !.stage = "blind"].pid = l.pid
        BY <1>0 DEF OtherFacts, Detections
      <3>2. kills' \subseteq kills \cup {[l EXCEPT !.stage = "signal"],
                                         [l EXCEPT !.stage = "blind"]}
        BY <2>3 DEF kill_with_reason
      <3> QED  BY <2>0, <3>1, <3>2
    <2> QED
      BY <2>1, <2>2, <2>3
      DEF Next, vars, Processes, Fork, Exec, Exit, Touch, Work, HashFails, ReadTrust,
          av_behavior_record_exec, Kill, SendSig, Lists, trust_proc_write,
          protected_proc_write, av_behavior_trust_add, av_behavior_trust_del,
          av_behavior_protect_add, av_behavior_protect_del, Tick, AgeOut, behavior_gc_fn
  <1> QED  BY <1>p, <1>t, <1>w, <1>k DEF PidInv, JudgedByPid, Concerns

\* Nothing but what tasks of the pid itself have done leads to a detection, with
\* any number of processes, any reuse of their pids and any limit of the table.
THEOREM JudgedPerPid == Spec => []JudgedByPid
  <1>1. Init => PidInv
    BY ProcessAssumption DEF Init, PidInv, Concerns, JudgedByPid, ZeroEntry
  <1>2. IInv /\ PidInv /\ [Next]_vars => PidInv'
    BY NextPid
  <1>3. PidInv => JudgedByPid
    BY DEF PidInv
  <1> QED BY <1>1, <1>2, <1>3, InvariantHolds, PTL DEF Spec

-----------------------------------------------------------------------------
(* The ring of sliding_window_note(), for any threshold and any window.    *)

USE PathsAssumption, HashAssumption, CapAssumption, WindowAssumption,
    MaxTimeAssumption
    DEF Slots, Times, Never

\* The slots that count are finitely many, at most the ring.
LEMMA LiveCardinality ==
  ASSUME RingTypeOK
  PROVE  IsFiniteSet(Live) /\ Cardinality(Live) \in 0 .. Cap
<1>1. 0 .. filled - 1 \in SUBSET Slots /\ Live \in SUBSET Slots
  BY DEF Live, RingTypeOK
<1>2. IsFiniteSet(Slots) /\ Cardinality(Slots) = Cap
  BY FS_Interval
<1>3. IsFiniteSet(Live) /\ Cardinality(Live) <= Cap
  BY <1>1, <1>2, FS_Subset
<1>4. Cardinality(Live) \in Nat
  BY <1>3, FS_CardinalityType
<1> QED  BY <1>3, <1>4

\* A filled slot is a slot.
LEMMA FilledSlot ==
  ASSUME NEW f \in 0 .. Cap, NEW i \in 0 .. f - 1
  PROVE  i \in Slots
OBVIOUS

\* The cursor advances within the ring.
LEMMA CursorStep ==
  ASSUME NEW n \in Slots
  PROVE  /\ (n + 1) % Cap \in Slots
         /\ (n + 1) % Cap = IF n + 1 = Cap THEN 0 ELSE n + 1
<1>1. CASE n + 1 = Cap
  BY <1>1
<1>2. CASE n + 1 # Cap
  <2>1. n + 1 \in 0 .. Cap - 1
    BY <1>2
  <2>2. (n + 1) % Cap = n + 1
    BY <2>1
  <2> QED  BY <1>2, <2>1, <2>2
<1> QED  BY <1>1, <1>2

\* The initial state satisfies the inductive invariant.
LEMMA InitCursor == RingInit => CursorInv
BY DEF RingInit, CursorInv, RingTypeOK, RingInv

\* Every step preserves it.
LEMMA NextCursor == ASSUME CursorInv, [RingNext]_windowVars PROVE CursorInv'
<1> USE DEF CursorInv, RingInv, Age
<1>1. ASSUME NEW p \in Paths, Repeat(p) PROVE CursorInv'
  BY <1>1 DEF Repeat, ringVars, RingTypeOK
<1>2. ASSUME NEW p \in Paths, Note(p) PROVE CursorInv'
  <2>1. /\ next' \in Slots
        /\ next' = IF next + 1 = Cap THEN 0 ELSE next + 1
    BY <1>2, CursorStep DEF Note, RingTypeOK
  <2>2. returned' \in 0 .. Cap + 1
    BY <1>2, LiveCardinality DEF Note
  <2>3. HashOf[p] \in Nat
    OBVIOUS
  <2>4. RingTypeOK'
    <3>1. now \in Nat /\ now \in 0 .. now /\ now' = now
      BY <1>2 DEF Note, RingTypeOK
    <3>2. /\ hashes' \in [Slots -> Nat]
          /\ stamps' \in [Slots -> 0 .. now]
      BY <1>2, <2>3, <3>1 DEF Note, RingTypeOK
    <3>3. wrote' \in [Paths -> Times] /\ noted' \in [Paths -> Times]
      <4>1. wrote \in [Paths -> Times] /\ noted \in [Paths -> Times]
            /\ now \in Times
        BY <3>1 DEF RingTypeOK
      <4> HIDE DEF Times
      <4> QED  BY <1>2, <4>1 DEF Note
    <3>4. filled' \in 0 .. Cap
      BY <1>2 DEF Note, RingTypeOK
    <3> QED  BY <2>1, <2>2, <3>1, <3>2, <3>3, <3>4 DEF RingTypeOK
  <2>5. (filled < Cap => next = filled)'
    BY <1>2, <2>1 DEF Note, RingTypeOK
  <2>6. ASSUME NEW i \in Int, NEW j \in Int,
               i \in 0 .. filled' - 1, j \in 0 .. filled' - 1,
               (Age(i) <= Age(j))'
        PROVE  (stamps[i] <= stamps[j])'
    <3>0. i \in 0 .. filled' - 1 /\ j \in 0 .. filled' - 1
      BY <2>6
    <3>1. i \in Slots /\ j \in Slots /\ filled' \in 0 .. Cap /\ filled \in 0 .. Cap
      <4>1. filled' \in 0 .. Cap /\ filled \in 0 .. Cap
        BY <2>4 DEF RingTypeOK
      <4> QED  BY <3>0, <4>1, FilledSlot
    <3>2. /\ stamps'[i] = IF i = next THEN now ELSE stamps[i]
          /\ stamps'[j] = IF j = next THEN now ELSE stamps[j]
          /\ stamps[i] \in 0 .. now /\ stamps[j] \in 0 .. now /\ now \in Nat
      BY <1>2, <3>1 DEF Note, RingTypeOK
    <3>3. CASE j = next
      BY <3>2, <3>3
    <3>4. CASE j # next /\ i = next
      <4>1. Age(i)' = Cap - 1
        BY <2>1, <3>1, <3>4
      <4>2. Age(j)' < Cap - 1
        BY <2>1, <3>1, <3>4
      <4> QED  BY <2>6, <4>1, <4>2, <2>1, <3>1
    <3>5. CASE j # next /\ i # next
      <4>1. i \in 0 .. filled - 1 /\ j \in 0 .. filled - 1
        BY <1>2, <2>5, <3>0, <3>1, <3>5 DEF Note, RingTypeOK
      <4>2. Age(i) = Age(i)' + 1 /\ Age(j) = Age(j)' + 1
        BY <2>1, <3>1, <3>5 DEF RingTypeOK
      <4>3. Age(i) <= Age(j)
        BY <2>6, <4>2, <2>1, <3>1
      <4> QED  BY <3>2, <3>5, <4>1, <4>3
    <3> QED  BY <3>3, <3>4, <3>5
  <2>7. (\A i, j \in 0 .. filled - 1 : Age(i) <= Age(j) => stamps[i] <= stamps[j])'
    BY <2>6
  <2> QED  BY <2>4, <2>5, <2>7
<1>3. CASE Reset
  BY <1>3 DEF Reset, RingTypeOK
<1>4. CASE RingTick
  BY <1>4 DEF RingTick, ringVars, RingTypeOK
<1>5. CASE UNCHANGED windowVars
  BY <1>5 DEF windowVars, ringVars, RingTypeOK
<1> QED  BY <1>1, <1>2, <1>3, <1>4, <1>5 DEF RingNext

\* The invariant holds in every reachable state.
THEOREM CursorHolds == RingSpec => []CursorInv
<1>1. RingInit => CursorInv
  BY InitCursor
<1>2. CursorInv /\ [RingNext]_windowVars => CursorInv'
  BY NextCursor
<1> QED  BY <1>1, <1>2, PTL DEF RingSpec

\* The ring, its indexes and the returned count stay within their bounds:
\* sliding_window_note() never writes outside its arrays.
THEOREM RingTypeCorrect == RingSpec => []RingTypeOK
<1>1. CursorInv => RingTypeOK
  BY DEF CursorInv
<1> QED  BY <1>1, CursorHolds, PTL

-----------------------------------------------------------------------------
\* The slot at the cursor is the oldest: if it still counts, the whole ring
\* does, and the call that overwrites it returns one more than the threshold.
THEOREM EvictsHarmlessly == MaxTime < MsecWrap => (RingSpec => EvictionIsHarmless)
<1> SUFFICES ASSUME MaxTime < MsecWrap PROVE RingSpec => EvictionIsHarmless
  OBVIOUS
<1>1. ASSUME CursorInv, [RingNext]_windowVars, stamps' # stamps \/ hashes' # hashes,
             next < filled, InWindow(next)
      PROVE  returned' > Cap
  <2>1. PICK p \in Paths : Note(p)
    BY <1>1 DEF RingNext, Repeat, Reset, RingTick, windowVars, ringVars
  <2>2. filled = Cap
    BY <1>1 DEF CursorInv, RingInv, RingTypeOK
  <2>3. ASSUME NEW i \in Slots PROVE InWindow(i)
    <3>1. Age(next) <= Age(i)
      BY <1>1, <2>2 DEF CursorInv, RingTypeOK, Age
    <3>2. stamps[next] <= stamps[i]
      BY <1>1, <2>2, <3>1 DEF CursorInv, RingInv, RingTypeOK
    <3>3. /\ now - stamps[i] \in 0 .. MsecWrap - 1
          /\ now - stamps[next] \in 0 .. MsecWrap - 1
      <4>1. /\ stamps[i] \in 0 .. now /\ stamps[next] \in 0 .. now
            /\ now \in 0 .. MaxTime
        BY <1>1 DEF CursorInv, RingTypeOK
      <4> QED  BY <4>1
    <3>4. /\ (now - stamps[i]) % MsecWrap = now - stamps[i]
          /\ (now - stamps[next]) % MsecWrap = now - stamps[next]
      BY <3>3
    <3>5. now \in Int /\ stamps[i] \in Int /\ stamps[next] \in Int
      BY <1>1 DEF CursorInv, RingTypeOK
    <3> QED  BY <1>1, <3>2, <3>4, <3>5 DEF InWindow
  <2>4. Live = Slots
    BY <2>2, <2>3 DEF Live
  <2>5. Cardinality(Live) = Cap
    BY <2>4, FS_Interval
  <2> QED  BY <2>1, <2>5 DEF Note
<1>2. CursorInv /\ [RingNext]_windowVars
      => [(stamps' # stamps \/ hashes' # hashes) /\ next < filled /\ InWindow(next)
             => returned' > Cap]_windowVars
  BY <1>1
<1> QED  BY <1>2, CursorHolds, PTL DEF RingSpec, EvictionIsHarmless

-----------------------------------------------------------------------------
(* The count against what was really touched.                              *)

\* Below the wrap of the clock a slot counts if it is no older than the window.
LEMMA InWindowIs ==
  ASSUME MaxTime < MsecWrap, RingTypeOK, NEW i \in Slots
  PROVE  InWindow(i) <=> now - stamps[i] <= Window
<1>1. stamps[i] \in 0 .. now /\ now \in 0 .. MaxTime
  BY DEF RingTypeOK
<1>2. now - stamps[i] \in 0 .. MsecWrap - 1
  BY <1>1
<1>3. (now - stamps[i]) % MsecWrap = now - stamps[i]
  BY <1>2
<1> QED  BY <1>3 DEF InWindow

\* The slots that count, below the wrap of the clock.
LEMMA LiveIs ==
  ASSUME MaxTime < MsecWrap, RingTypeOK
  PROVE  Live = {i \in 0 .. filled - 1 : now - stamps[i] <= Window}
<1>1. \A i \in 0 .. filled - 1 : i \in Slots
  BY DEF RingTypeOK
<1> QED  BY <1>1, InWindowIs DEF Live

\* The initial state satisfies the window invariant.
LEMMA InitWindow == RingInit => WindowInv
<1>1. ASSUME RingInit PROVE WitnessInv /\ DistinctInv /\ KeptInv
  BY <1>1 DEF RingInit, WitnessInv, DistinctInv, KeptInv, Live
<1> QED  BY <1>1, InitCursor DEF WindowInv

\* Every step preserves it.
LEMMA NextWindow ==
  ASSUME MaxTime < MsecWrap, WindowInv, [RingNext]_windowVars PROVE WindowInv'
<1>0. CursorInv' /\ CursorInv /\ RingTypeOK /\ RingTypeOK'
  BY NextCursor DEF WindowInv, CursorInv
<1>t. /\ now \in Nat /\ filled \in 0 .. Cap /\ next \in Slots /\ now' \in Nat
      /\ \A i \in Slots : stamps[i] \in 0 .. now
      /\ \A q \in Paths : wrote[q] \in Int /\ wrote[q] <= now /\ noted[q] \in Int
                          /\ noted[q] <= now
  <2>1. now \in Nat /\ filled \in 0 .. Cap /\ next \in Slots /\ now' \in Nat
    BY <1>0 DEF RingTypeOK
  <2>2. \A i \in Slots : stamps[i] \in 0 .. now
    BY <1>0 DEF RingTypeOK
  <2>3. \A q \in Paths : wrote[q] \in Times /\ noted[q] \in Times
    <3> HIDE DEF Times
    <3> QED  BY <1>0 DEF RingTypeOK
  <2>4. \A t \in Times : t \in Int /\ t <= now
    BY <2>1
  <2> QED  BY <2>1, <2>2, <2>3, <2>4
<1>s. \A i \in 0 .. filled - 1 : i \in Slots
  BY <1>t
<1>l. /\ Live = {i \in 0 .. filled - 1 : now - stamps[i] <= Window}
      /\ Live' = {i \in 0 .. filled' - 1 : now' - stamps'[i] <= Window}
  <2>1. Live = {i \in 0 .. filled - 1 : now - stamps[i] <= Window}
    BY <1>0, LiveIs
  <2>2. \A i \in 0 .. filled' - 1 : i \in Slots
    <3>1. filled' \in 0 .. Cap
      BY <1>0 DEF RingTypeOK
    <3> QED  BY <3>1, FilledSlot
  <2>3. \A i \in Slots : InWindow(i)' <=> now' - stamps'[i] <= Window
    <3> SUFFICES ASSUME NEW i \in Slots PROVE InWindow(i)' <=> now' - stamps'[i] <= Window
      OBVIOUS
    <3>1. stamps'[i] \in 0 .. now' /\ now' \in 0 .. MaxTime
      BY <1>0 DEF RingTypeOK
    <3>2. now' - stamps'[i] \in 0 .. MsecWrap - 1
      BY <3>1
    <3>3. (now' - stamps'[i]) % MsecWrap = now' - stamps'[i]
      BY <3>2
    <3> QED  BY <3>3 DEF InWindow
  <2> QED  BY <2>1, <2>2, <2>3 DEF Live
<1>1. ASSUME NEW p \in Paths, Repeat(p) PROVE WitnessInv' /\ DistinctInv' /\ KeptInv'
  <2>1. UNCHANGED <<now, hashes, stamps, next, filled, noted>>
        /\ wrote' = [wrote EXCEPT ![p] = now]
    BY <1>1 DEF Repeat, ringVars
  <2>2. \A q \in Paths : wrote[q] <= wrote'[q]
    BY <1>0, <1>t, <2>1 DEF RingTypeOK
  <2>3. \A q \in Paths : wrote'[q] \in Int
    BY <1>0 DEF RingTypeOK
  <2>4. WitnessInv'
    <3> SUFFICES ASSUME NEW i \in 0 .. filled - 1
                 PROVE  \E q \in Paths : HashOf[q] = hashes[i] /\ stamps[i] <= wrote'[q]
      BY <2>1 DEF WitnessInv
    <3>1. PICK q \in Paths : HashOf[q] = hashes[i] /\ stamps[i] <= wrote[q]
      BY DEF WindowInv, WitnessInv
    <3>2. stamps[i] \in Int
      BY <1>s, <1>t
    <3> QED  BY <1>t, <2>2, <2>3, <3>1, <3>2
  <2>5. DistinctInv'
    BY <1>l, <2>1 DEF WindowInv, DistinctInv
  <2>6. KeptInv'
    BY <2>1 DEF WindowInv, KeptInv
  <2> QED  BY <2>4, <2>5, <2>6
<1>2. ASSUME NEW p \in Paths, Note(p) PROVE WitnessInv' /\ DistinctInv' /\ KeptInv'
  <2>1. /\ now' = now /\ hashes' = [hashes EXCEPT ![next] = HashOf[p]]
        /\ stamps' = [stamps EXCEPT ![next] = now]
        /\ filled' = IF filled < Cap THEN filled + 1 ELSE filled
        /\ wrote' = [wrote EXCEPT ![p] = now] /\ noted' = [noted EXCEPT ![p] = now]
        /\ \A i \in Live : hashes[i] # HashOf[p]
    BY <1>2 DEF Note
  <2>2. /\ \A i \in Slots : /\ i # next => hashes'[i] = hashes[i] /\ stamps'[i] = stamps[i]
                            /\ i = next => hashes'[i] = HashOf[p] /\ stamps'[i] = now
        /\ \A q \in Paths : /\ q # p => wrote'[q] = wrote[q] /\ noted'[q] = noted[q]
                            /\ q = p => wrote'[q] = now /\ noted'[q] = now
    BY <1>0, <2>1 DEF RingTypeOK
  <2>3. /\ filled < Cap => next = filled
        /\ \A i \in 0 .. filled' - 1 : i \in Slots /\ (i # next => i \in 0 .. filled - 1)
        /\ next \in 0 .. filled' - 1 /\ filled' \in 0 .. Cap
        /\ \A i \in 0 .. filled - 1 : i \in 0 .. filled' - 1
    BY <1>0, <1>t, <2>1 DEF CursorInv, RingInv
  <2>4. WitnessInv'
    <3> SUFFICES ASSUME NEW i \in 0 .. filled' - 1
                 PROVE  \E q \in Paths : HashOf[q] = hashes'[i] /\ stamps'[i] <= wrote'[q]
      BY DEF WitnessInv
    <3>1. CASE i = next
      BY <1>t, <2>2, <2>3, <3>1
    <3>2. CASE i # next
      <4>1. PICK q \in Paths : HashOf[q] = hashes[i] /\ stamps[i] <= wrote[q]
        BY <2>3, <3>2 DEF WindowInv, WitnessInv
      <4>2. stamps[i] \in 0 .. now /\ i \in Slots
        BY <1>t, <2>3
      <4> QED  BY <1>t, <2>2, <3>2, <4>1, <4>2
    <3> QED  BY <3>1, <3>2
  <2>5. DistinctInv'
    <3> SUFFICES ASSUME NEW i \in Live', NEW j \in Live', hashes'[i] = hashes'[j] PROVE i = j
      BY DEF DistinctInv
    <3>1. i \in Slots /\ j \in Slots
      BY <1>l, <2>3
    <3>2. (i # next => i \in Live) /\ (j # next => j \in Live)
      BY <1>l, <2>1, <2>2, <2>3
    <3> QED  BY <2>1, <2>2, <3>1, <3>2 DEF WindowInv, DistinctInv
  <2>6. KeptInv'
    <3> SUFFICES ASSUME NEW q \in Paths, noted'[q] # Never
                 PROVE  \/ \E i \in 0 .. filled' - 1 :
                              hashes'[i] = HashOf[q] /\ noted'[q] <= stamps'[i]
                        \/ filled' = Cap /\ \A i \in Slots : noted'[q] <= stamps'[i]
      BY DEF KeptInv
    <3>1. CASE q = p
      <4>1. hashes'[next] = HashOf[q] /\ noted'[q] <= stamps'[next]
        BY <1>t, <2>2, <3>1
      <4> QED  BY <2>3, <4>1
    <3>2. CASE q # p
      <4>0. noted'[q] = noted[q] /\ noted[q] <= now /\ noted[q] \in Int
        BY <1>t, <2>2, <3>2
      <4>1. CASE \E i \in 0 .. filled - 1 : hashes[i] = HashOf[q] /\ noted[q] <= stamps[i]
        <5>1. PICK i \in 0 .. filled - 1 : hashes[i] = HashOf[q] /\ noted[q] <= stamps[i]
          BY <4>1
        <5>2. CASE i # next
          BY <1>s, <2>2, <2>3, <4>0, <5>1, <5>2
        <5>3. CASE i = next
          <6>1. filled = Cap /\ filled' = Cap
            BY <1>t, <2>1, <2>3, <5>3
          <6>2. ASSUME NEW j \in Slots PROVE noted[q] <= stamps'[j]
            <7>1. CASE j = next
              BY <2>2, <4>0, <7>1
            <7>2. CASE j # next
              <8>1. Age(i) <= Age(j) /\ i \in 0 .. filled - 1 /\ j \in 0 .. filled - 1
                BY <1>t, <5>3, <6>1 DEF Age
              <8>2. stamps[i] <= stamps[j]
                BY <1>0, <8>1 DEF CursorInv, RingInv
              <8>3. stamps[i] \in Int /\ stamps[j] \in Int /\ stamps'[j] = stamps[j]
                BY <1>s, <1>t, <2>2, <7>2
              <8> QED  BY <4>0, <5>1, <8>2, <8>3
            <7> QED  BY <7>1, <7>2
          <6> QED  BY <4>0, <6>1, <6>2
        <5> QED  BY <5>2, <5>3
      <4>2. CASE filled = Cap /\ \A i \in Slots : noted[q] <= stamps[i]
        <5>1. filled' = Cap
          BY <1>t, <2>1, <4>2
        <5>2. \A i \in Slots : noted'[q] <= stamps'[i]
          BY <2>2, <4>0, <4>2
        <5> QED  BY <5>1, <5>2
      <4> QED  BY <3>2, <4>0, <4>1, <4>2 DEF WindowInv, KeptInv
    <3> QED  BY <3>1, <3>2
  <2> QED  BY <2>4, <2>5, <2>6
<1>3. CASE Reset
  <2>1. filled' = 0 /\ \A q \in Paths : noted'[q] = Never
    BY <1>3 DEF Reset
  <2>2. Live' = {}
    BY <1>l, <2>1
  <2>3. WitnessInv' /\ DistinctInv'
    BY <2>1, <2>2 DEF WitnessInv, DistinctInv
  <2>4. KeptInv'
    BY <2>1 DEF KeptInv
  <2> QED  BY <1>0, <2>3, <2>4 DEF WindowInv
<1>4. CASE RingTick
  <2>1. now' = now + 1 /\ UNCHANGED <<hashes, stamps, next, filled, wrote, noted>>
    BY <1>4 DEF RingTick, ringVars
  <2>2. Live' \subseteq Live
    BY <1>l, <1>s, <1>t, <2>1
  <2>3. WitnessInv' /\ KeptInv'
    <3>1. WitnessInv'
      BY <2>1 DEF WindowInv, WitnessInv
    <3>2. KeptInv'
      BY <2>1 DEF WindowInv, KeptInv
    <3> QED  BY <3>1, <3>2
  <2>4. DistinctInv'
    BY <2>1, <2>2 DEF WindowInv, DistinctInv
  <2> QED  BY <1>0, <2>3, <2>4 DEF WindowInv
<1>5. CASE UNCHANGED windowVars
  <2>1. UNCHANGED <<now, hashes, stamps, next, filled, wrote, noted>>
    BY <1>5 DEF windowVars, ringVars
  <2>2. Live' = Live
    BY <1>l, <2>1
  <2>3. WitnessInv'
    BY <2>1 DEF WindowInv, WitnessInv
  <2>4. DistinctInv'
    BY <2>1, <2>2 DEF WindowInv, DistinctInv
  <2>5. KeptInv'
    BY <2>1 DEF WindowInv, KeptInv
  <2> QED  BY <1>0, <2>3, <2>4, <2>5 DEF WindowInv
<1> QED  BY <1>0, <1>1, <1>2, <1>3, <1>4, <1>5 DEF RingNext, WindowInv

\* The window invariant holds while the clock has not wrapped.
THEOREM WindowHolds == ASSUME MaxTime < MsecWrap PROVE RingSpec => []WindowInv
<1>1. WindowInv /\ [RingNext]_windowVars => WindowInv'
  BY NextWindow
<1> QED  BY <1>1, InitWindow, PTL DEF RingSpec

\* A count is never larger than the number of distinct paths touched within the
\* window: every slot that counts stands for a path of its own.
THEOREM AlarmsAreReal == ASSUME MaxTime < MsecWrap PROVE RingSpec => NoFalseAlarm
<1>1. ASSUME WindowInv, [RingNext]_windowVars, now' = now, UNCHANGED windowVars => FALSE
      PROVE  returned' <= Cardinality(Touched')
  <2>0. CursorInv /\ CursorInv' /\ RingTypeOK
    BY <1>1, NextCursor DEF WindowInv, CursorInv
  <2>1. Touched' \in SUBSET Paths
    BY DEF Touched
  <2>2. IsFiniteSet(Touched') /\ Cardinality(Touched') \in Nat
    BY <2>1, FS_Subset, FS_CardinalityType
  <2>3. CASE returned' = 0
    BY <2>2, <2>3
  <2>4. ASSUME NEW p \in Paths, Note(p) PROVE returned' <= Cardinality(Touched')
    <3>1. /\ Live = {i \in 0 .. filled - 1 : now - stamps[i] <= Window}
          /\ \A i \in Live : hashes[i] # HashOf[p]
          /\ returned' = Cardinality(Live) + 1 /\ wrote' = [wrote EXCEPT ![p] = now]
      BY <2>0, <2>4, LiveIs DEF Note
    <3>2. IsFiniteSet(Live) /\ Cardinality(Live) \in Nat
      BY <2>0, LiveCardinality
    <3>3. now \in Nat /\ wrote'[p] = now
      BY <2>0, <3>1 DEF RingTypeOK
    <3>4. p \in Touched'
      BY <1>1, <3>3 DEF Touched
    <3> DEFINE T == Touched' \ {p}
    <3>5. IsFiniteSet(T) /\ Cardinality(T) = Cardinality(Touched') - 1
      BY <2>2, <3>4, FS_RemoveElement
    <3>6. \A i \in Live : \E q \in T : HashOf[q] = hashes[i]
      <4> SUFFICES ASSUME NEW i \in Live PROVE \E q \in T : HashOf[q] = hashes[i]
        OBVIOUS
      <4>1. i \in 0 .. filled - 1 /\ now - stamps[i] <= Window /\ hashes[i] # HashOf[p]
        BY <3>1
      <4>2. PICK q \in Paths : HashOf[q] = hashes[i] /\ stamps[i] <= wrote[q]
        BY <1>1, <4>1 DEF WindowInv, WitnessInv
      <4>3. q # p /\ wrote'[q] = wrote[q]
        BY <2>0, <3>1, <4>1, <4>2 DEF RingTypeOK
      <4>4. stamps[i] \in Int /\ wrote[q] \in Int
        <5>1. i \in Slots /\ wrote[q] \in Times
          <6>1. filled \in 0 .. Cap
            BY <2>0 DEF RingTypeOK
          <6>2. wrote[q] \in Times
            BY <2>0 DEF RingTypeOK
          <6> QED  BY <4>1, <6>1, <6>2, FilledSlot
        <5>2. stamps[i] \in 0 .. now
          BY <2>0, <5>1 DEF RingTypeOK
        <5> QED  BY <3>3, <5>1, <5>2
      <4>5. now' - wrote'[q] <= Window
        BY <1>1, <3>3, <4>1, <4>2, <4>3, <4>4
      <4> QED  BY <4>2, <4>3, <4>5 DEF Touched
    <3> DEFINE f == [i \in Live |-> CHOOSE q \in T : HashOf[q] = hashes[i]]
    <3>7. f \in [Live -> T] /\ \A i \in Live : HashOf[f[i]] = hashes[i]
      BY <3>6
    <3>8. \A i, j \in Live : f[i] = f[j] => i = j
      BY <1>1, <3>7 DEF WindowInv, DistinctInv
    <3> HIDE DEF f, T
    <3>9. ~(Cardinality(T) < Cardinality(Live))
      BY <3>2, <3>5, <3>7, <3>8, FS_PigeonHole
    <3> QED  BY <2>2, <3>1, <3>2, <3>5, <3>9
  <2>5. ASSUME NEW p \in Paths, Repeat(p) PROVE returned' = 0
    BY <2>5 DEF Repeat
  <2>6. CASE Reset
    BY <2>3, <2>6 DEF Reset
  <2>7. ~RingTick
    BY <1>1, <2>0 DEF RingTick, RingTypeOK
  <2> QED  BY <1>1, <2>3, <2>4, <2>5, <2>6, <2>7 DEF RingNext
<1>2. WindowInv /\ [RingNext]_windowVars => [now' = now => returned' <= Cardinality(Touched')]_windowVars
  BY <1>1
<1> QED  BY <1>2, WindowHolds, PTL DEF RingSpec, NoFalseAlarm

\* One path more than the threshold within the window trips the heuristic: what
\* the ring has forgotten, it forgot for younger paths that fill it.
THEOREM BurstsAreSeen == ASSUME MaxTime < MsecWrap PROVE RingSpec => BurstIsSeen
<1>1. ASSUME WindowInv, [RingNext]_windowVars, NEW p \in Paths, noted'[p] # noted[p], noted'[p] = now,
             HashOf[p] \notin Entered, Cardinality(Entered) >= Cap
      PROVE  returned' > Cap
  <2>0. CursorInv /\ RingTypeOK
    BY <1>1 DEF WindowInv, CursorInv
  <2>1. now \in Nat /\ filled \in 0 .. Cap /\ noted \in [Paths -> Times]
    BY <2>0 DEF RingTypeOK
  <2>2. PICK q \in Paths : Note(q)
    BY <1>1, <2>1 DEF RingNext, Repeat, Reset, RingTick, windowVars, ringVars
  <2>3. /\ Live = {i \in 0 .. filled - 1 : now - stamps[i] <= Window}
        /\ returned' = Cardinality(Live) + 1
        /\ IsFiniteSet(Live) /\ Cardinality(Live) \in Nat
    BY <2>0, <2>2, LiveIs, LiveCardinality DEF Note
  <2>4. CASE Live = Slots
    <3>1. Cardinality(0 .. Cap - 1) = Cap
      BY FS_Interval
    <3>2. Cardinality(Live) = Cap
      BY <2>4, <3>1, Zenon
    <3> QED  BY <2>3, <3>2
  <2>5. CASE Live # Slots
    <3>1. ASSUME NEW r \in Paths, now - noted[r] <= Window
          PROVE  \E i \in Live : hashes[i] = HashOf[r]
      <4>1. noted[r] \in Int /\ noted[r] # Never
        BY <2>1, <3>1
      <4>2. CASE filled = Cap /\ \A i \in Slots : noted[r] <= stamps[i]
        <5>1. \A i \in Slots : now - stamps[i] <= Window
          <6>1. \A i \in Slots : stamps[i] \in Int
            BY <2>0 DEF RingTypeOK
          <6> QED  BY <2>1, <3>1, <4>1, <4>2, <6>1
        <5>2. Live = Slots
          BY <2>3, <4>2, <5>1
        <5> QED  BY <2>5, <5>2
      <4>3. CASE \E i \in 0 .. filled - 1 : hashes[i] = HashOf[r] /\ noted[r] <= stamps[i]
        <5>1. PICK i \in 0 .. filled - 1 : hashes[i] = HashOf[r] /\ noted[r] <= stamps[i]
          BY <4>3
        <5>2. i \in Slots
          BY <2>1, FilledSlot
        <5>3. stamps[i] \in Int
          BY <2>0, <5>2 DEF RingTypeOK
        <5>4. now - stamps[i] <= Window
          BY <2>1, <3>1, <4>1, <5>1, <5>3
        <5> QED  BY <2>3, <5>1, <5>4
      <4> QED  BY <1>1, <4>1, <4>2, <4>3 DEF WindowInv, KeptInv
    <3> DEFINE H == {hashes[i] : i \in Live}
               f == [i \in Live |-> hashes[i]]
    <3>2. Entered \in SUBSET H
      BY <3>1 DEF Entered
    <3>3. f \in Surjection(Live, H)
      BY DEF Surjection
    <3> HIDE DEF f, H
    <3>4. IsFiniteSet(H) /\ Cardinality(H) <= Cardinality(Live)
      BY <2>3, <3>3, FS_Surjection
    <3>5. Cardinality(Entered) <= Cardinality(H) /\ IsFiniteSet(Entered)
      BY <3>2, <3>4, FS_Subset
    <3>6. Cardinality(H) \in Nat /\ Cardinality(Entered) \in Nat
      BY <3>4, <3>5, FS_CardinalityType
    <3> QED  BY <1>1, <2>3, <3>4, <3>5, <3>6
  <2> QED  BY <2>4, <2>5
<1>2. WindowInv /\ [RingNext]_windowVars
      => [\A p \in Paths :
             (/\ noted'[p] # noted[p] /\ noted'[p] = now
              /\ HashOf[p] \notin Entered
              /\ Cardinality(Entered) >= Cap) => returned' > Cap]_windowVars
  BY <1>1
<1> QED  BY <1>2, WindowHolds, PTL DEF RingSpec, BurstIsSeen
=============================================================================
