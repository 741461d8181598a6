---------------------------- MODULE SlidingWindow ----------------------------
(***************************************************************************)
(* sliding_window_note() of av/behavior.c: the ring of recent path hashes  *)
(* that the rapid-write and rapid-rename heuristics count in, for one      *)
(* process and one of its two rings.  The ring has as many slots as the    *)
(* threshold it is compared with (MAX_TRACKED_PATHS, MAX_TRACKED_RENAMES). *)
(*                                                                         *)
(* wrote and noted are history variables: the behaviour of the code does   *)
(* not depend on them.  Time is counted in milliseconds.                   *)
(***************************************************************************)
EXTENDS Integers, FiniteSets

CONSTANTS
    Paths,     \* the files the process touches
    HashOf,    \* full_name_hash() of each, an integer; may collide
    Cap,       \* slots of the ring, and the threshold
    Window,    \* WRITE_OPEN_WINDOW_MS, RENAME_WINDOW_MS
    MsecWrap,  \* 2^32: jiffies_to_msecs() returns an unsigned int
    MaxTime    \* bound on the clock

ASSUME PathsAssumption == IsFiniteSet(Paths)
ASSUME HashAssumption == HashOf \in [Paths -> Nat]
ASSUME CapAssumption == Cap \in Nat \ {0}
ASSUME WindowAssumption == Window \in Nat /\ MsecWrap \in Nat /\ Window < MsecWrap
ASSUME MaxTimeAssumption == MaxTime \in Nat

VARIABLES
    now,           \* jiffies, read under behavior_lock
    hashes,        \* recent_path_hashes
    stamps,        \* recent_path_jiffies
    next, filled,  \* recent_path_next, recent_path_filled
    returned,      \* what the last call returned
    wrote,         \* history: when each path was last touched
    noted          \* history: when each path was last entered into the ring

ringVars == <<hashes, stamps, next, filled>>
windowVars == <<now, ringVars, returned, wrote, noted>>

Slots == 0 .. Cap - 1
Never == -1 - Window

\* get_or_create_entry(): a new entry is zeroed.
RingInit ==
    /\ now = 0
    /\ hashes = [i \in Slots |-> 0]
    /\ stamps = [i \in Slots |-> 0]
    /\ next = 0
    /\ filled = 0
    /\ returned = 0
    /\ wrote = [p \in Paths |-> Never]
    /\ noted = [p \in Paths |-> Never]

\* Faulty variant: the comparison excludes the end of the window.
InWindowStrict(i) == (now - stamps[i]) % MsecWrap < Window

\* jiffies_to_msecs(now - jiffies_arr[i]) <= window_ms
InWindow(i) == (now - stamps[i]) % MsecWrap <= Window

\* The slots that still count.
Live == {i \in 0 .. filled - 1 : InWindow(i)}

\* Faulty variants: no test for repeats; a cursor that stays on the last
\* slot.
NoteRepeats(p) ==
    /\ returned' = Cardinality(Live) + 1
    /\ hashes' = [hashes EXCEPT ![next] = HashOf[p]]
    /\ stamps' = [stamps EXCEPT ![next] = now]
    /\ next' = (next + 1) % Cap
    /\ filled' = IF filled < Cap THEN filled + 1 ELSE filled
    /\ wrote' = [wrote EXCEPT ![p] = now]
    /\ noted' = [noted EXCEPT ![p] = now]
    /\ UNCHANGED now

NoteShortCursor(p) ==
    /\ \A i \in Live : hashes[i] # HashOf[p]
    /\ returned' = Cardinality(Live) + 1
    /\ hashes' = [hashes EXCEPT ![next] = HashOf[p]]
    /\ stamps' = [stamps EXCEPT ![next] = now]
    /\ next' = IF next + 1 < Cap THEN next + 1 ELSE next
    /\ filled' = IF filled < Cap THEN filled + 1 ELSE filled
    /\ wrote' = [wrote EXCEPT ![p] = now]
    /\ noted' = [noted EXCEPT ![p] = now]
    /\ UNCHANGED now

\* sliding_window_note() for a path that is in the window: 0, and the ring is
\* left as it is, the old time stamp included.
Repeat(p) ==
    /\ \E i \in Live : hashes[i] = HashOf[p]
    /\ returned' = 0
    /\ wrote' = [wrote EXCEPT ![p] = now]
    /\ UNCHANGED <<now, ringVars, noted>>

\* ... and for one that is not: it takes the slot at the cursor.
Note(p) ==
    /\ \A i \in Live : hashes[i] # HashOf[p]
    /\ returned' = Cardinality(Live) + 1
    /\ hashes' = [hashes EXCEPT ![next] = HashOf[p]]
    /\ stamps' = [stamps EXCEPT ![next] = now]
    /\ next' = (next + 1) % Cap
    /\ filled' = IF filled < Cap THEN filled + 1 ELSE filled
    /\ wrote' = [wrote EXCEPT ![p] = now]
    /\ noted' = [noted EXCEPT ![p] = now]
    /\ UNCHANGED now

\* The process id belongs to another task now (behavior_gc_fn(),
\* av_behavior_record_exec()): both indexes go back to 0, the arrays stay.
Reset ==
    /\ next' = 0
    /\ filled' = 0
    /\ returned' = 0
    /\ wrote' = [p \in Paths |-> Never]
    /\ noted' = [p \in Paths |-> Never]
    /\ UNCHANGED <<now, hashes, stamps>>

RingTick ==
    /\ now < MaxTime
    /\ now' = now + 1
    /\ UNCHANGED <<ringVars, returned, wrote, noted>>

RingNext ==
    \/ \E p \in Paths : Repeat(p) \/ Note(p)
    \/ Reset
    \/ RingTick

RingSpec == RingInit /\ [][RingNext]_windowVars

-----------------------------------------------------------------------------
(* Properties.                                                             *)

Times == {Never} \cup 0 .. now

\* Every variable has its type, and the time stamps are not in the future.
RingTypeOK ==
    /\ now \in 0 .. MaxTime
    /\ hashes \in [Slots -> Nat]
    /\ stamps \in [Slots -> 0 .. now]
    /\ next \in Slots
    /\ filled \in 0 .. Cap
    /\ returned \in 0 .. Cap + 1
    /\ wrote \in [Paths -> Times]
    /\ noted \in [Paths -> Times]

\* The paths touched, and the hashes entered, within the trailing window.
Touched == {p \in Paths : now - wrote[p] <= Window}
Entered == {HashOf[p] : p \in {q \in Paths : now - noted[q] <= Window}}

\* The count never exceeds the number of distinct paths really touched in the
\* trailing window, hash collisions and the wrapped ring included: no burst,
\* no kill ("never more trigger-happy").
NoFalseAlarm == [][now' = now => returned' <= Cardinality(Touched')]_windowVars

\* One path more than the threshold, each entered within the window, trips
\* the heuristic although the ring only has room for the threshold.
BurstIsSeen ==
    [][\A p \in Paths :
          (/\ noted'[p] # noted[p] /\ noted'[p] = now
           /\ HashOf[p] \notin Entered
           /\ Cardinality(Entered) >= Cap) => returned' > Cap]_windowVars

\* An entry that still counts is overwritten only by a call that reports more
\* than the threshold ("by construction", behavior.c:333).
EvictionIsHarmless ==
    [][(stamps' # stamps \/ hashes' # hashes) /\ next < filled /\ InWindow(next)
          => returned' > Cap]_windowVars

\* The inductive invariant behind EvictionIsHarmless: the cursor walks over
\* the slots in the order of their time stamps, oldest first.
Age(i) == IF i < next THEN i + Cap - next ELSE i - next

RingInv ==
    /\ filled < Cap => next = filled
    /\ \A i, j \in 0 .. filled - 1 : Age(i) <= Age(j) => stamps[i] <= stamps[j]

CursorInv == RingTypeOK /\ RingInv

\* Behind NoFalseAlarm: a slot is the trace of a path touched no earlier than
\* its time stamp says, and no hash counts twice.
WitnessInv ==
    \A i \in 0 .. filled - 1 : \E q \in Paths : HashOf[q] = hashes[i] /\ stamps[i] <= wrote[q]
DistinctInv == \A i, j \in Live : hashes[i] = hashes[j] => i = j

\* Behind BurstIsSeen: a path that was entered is in the ring still, or the
\* ring is full of younger ones.
KeptInv ==
    \A q \in Paths : noted[q] # Never =>
        \/ \E i \in 0 .. filled - 1 : hashes[i] = HashOf[q] /\ noted[q] <= stamps[i]
        \/ filled = Cap /\ \A i \in Slots : noted[q] <= stamps[i]

WindowInv == CursorInv /\ WitnessInv /\ DistinctInv /\ KeptInv
=============================================================================
