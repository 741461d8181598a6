---------------------------- MODULE ReloadProofs ----------------------------
(***************************************************************************)
(* Proofs about Reload, for any tables, probes, saves under way at a time  *)
(* and disturbances: the tables outlive the work that reads them, the      *)
(* state file is whole or absent, a reload never holds the only copy of    *)
(* the state in memory, and one that reports success has put it back.      *)
(***************************************************************************)
EXTENDS Reload, SequenceTheorems, WellFoundedInduction, TLAPS

-----------------------------------------------------------------------------
(* The orders in which av_init and av_exit go through the stages.          *)

\* A set of numbers that is not empty has a least one.
LEMMA LeastExists ==
  ASSUME NEW T \in SUBSET Nat, T # {}
  PROVE  \E i \in T : \A j \in T : ~(j < i)
  <1>1. IsWellFoundedOn(OpToRel(<, Nat), Nat)
    BY NatLessThanWellFounded
  <1>2. PICK i \in T : \A j \in T : <<j, i>> \notin OpToRel(<, Nat)
    BY <1>1, WFMin
  <1>3. \A j \in T : j < i => <<j, i>> \in OpToRel(<, Nat)
    BY DEF OpToRel
  <1> QED  BY <1>2, <1>3

\* First() finds what it looks for.
LEMMA FirstIs ==
  ASSUME NEW order, NEW n \in Nat, DOMAIN order = 1 .. n, NEW S,
         \E i \in DOMAIN order : order[i] \in S
  PROVE  \E i \in 1 .. n : /\ First(order, S) = order[i] /\ order[i] \in S
                           /\ \A j \in 1 .. n : j < i => order[j] \notin S
  <1> DEFINE T == {i \in 1 .. n : order[i] \in S}
  <1>1. T \in SUBSET Nat /\ T # {}
    OBVIOUS
  <1>2. PICK i \in T : \A j \in T : ~(j < i)
    BY <1>1, LeastExists
  <1>3. i \in 1 .. n /\ order[i] \in S /\ \A j \in 1 .. n : j < i => order[j] \notin S
    BY <1>2
  <1> QED  BY <1>3 DEF First

\* What there is to set up.
Stages == Range(BaseOrder) \cup Range(Probes)

\* av_exit's order of what av_init sets up before the first probe, and the
\* places that av_init's order has for it.
ExitRest == <<"wq", "netlink", "gc_wq", "protect_proc", "trust_proc", "seed",
              "policy_proc", "sig_proc">>
Turned == <<7, 8, 6, 5, 4, 3, 2, 1>>

\* The parts of the orders are sequences of stages.
LEMMA Parts ==
  /\ Probes \in Seq(Stages) /\ Reverse(Probes) \in Seq(Stages)
  /\ Len(Reverse(Probes)) = Len(Probes) /\ Len(Probes) \in Nat
  /\ BaseOrder \in Seq(Stages) /\ Len(BaseOrder) = 8
  /\ ExitRest \in Seq(Stages) /\ Len(ExitRest) = 8
  /\ \A i \in 1 .. 8 : ExitRest[i] = BaseOrder[Turned[i]]
  <1>1. DOMAIN Probes = 1 .. Len(Probes) /\ Len(Probes) \in Nat
    BY ProbesAssumption
  <1>2. \A i \in 1 .. Len(Probes) : Probes[i] \in Stages
    BY <1>1 DEF Stages, Range
  <1>3. Probes \in [1 .. Len(Probes) -> Stages]
    BY <1>1, <1>2, ProbesAssumption
  <1>4. Probes \in Seq(Stages)
    BY <1>1, <1>3
  <1>5. Reverse(Probes) \in [1 .. Len(Probes) -> Stages]
    BY <1>1, <1>2 DEF Reverse
  <1>6. Reverse(Probes) \in Seq(Stages) /\ Len(Reverse(Probes)) = Len(Probes)
    <2> HIDE DEF Reverse
    <2>1. Reverse(Probes) \in Seq(Stages)
      BY <1>1, <1>5
    <2> QED  BY <1>1, <1>5, <2>1
  <1>7. /\ DOMAIN BaseOrder = 1 .. 8 /\ Len(BaseOrder) = 8
        /\ BaseOrder = [i \in 1 .. 8 |-> BaseOrder[i]]
    BY DEF BaseOrder
  <1>8. BaseOrder \in [1 .. 8 -> Stages]
    <2>1. \A i \in 1 .. 8 : BaseOrder[i] \in Stages
      BY <1>7 DEF Stages, Range
    <2> QED  BY <1>7, <2>1
  <1>9. BaseOrder \in Seq(Stages)
    BY <1>8, 8 \in Nat, SeqDef
  <1>10. /\ DOMAIN ExitRest = 1 .. 8 /\ Len(ExitRest) = 8
         /\ ExitRest = [i \in 1 .. 8 |-> ExitRest[i]]
    BY DEF ExitRest
  <1>11. \A i \in 1 .. 8 : ExitRest[i] = BaseOrder[Turned[i]] /\ Turned[i] \in 1 .. 8
    BY DEF ExitRest, Turned, BaseOrder
  <1>12. ExitRest \in [1 .. 8 -> Stages]
    BY <1>8, <1>10, <1>11
  <1>13. ExitRest \in Seq(Stages)
    BY <1>12, 8 \in Nat, SeqDef
  <1> QED  BY <1>1, <1>4, <1>6, <1>7, <1>9, <1>10, <1>11, <1>13

NProbes == Len(Probes)
NStages == 8 + NProbes

\* What comes where.
LEMMA Orders ==
  /\ NProbes \in Nat /\ NStages \in Nat
  /\ DOMAIN InitOrder = 1 .. NStages /\ DOMAIN ExitOrder = 1 .. NStages
  /\ DOMAIN UnwindOrder = 1 .. NStages
  /\ \A i \in 1 .. NStages : InitOrder[i] = IF i <= 8 THEN BaseOrder[i] ELSE Probes[i - 8]
  /\ \A i \in 1 .. NStages : ExitOrder[i] = IF i <= NProbes THEN Probes[NProbes - i + 1]
                                         ELSE ExitRest[i - NProbes]
  /\ \A i \in 1 .. NStages : UnwindOrder[i] = InitOrder[NStages - i + 1]
  <1>1. NProbes \in Nat /\ NStages \in Nat
    BY Parts DEF NProbes, NStages
  <1>2. /\ InitOrder \in Seq(Stages) /\ Len(InitOrder) = NStages
        /\ \A i \in 1 .. NStages : InitOrder[i] = IF i <= 8 THEN BaseOrder[i] ELSE Probes[i - 8]
    <2> DEFINE s1 == BaseOrder
               s2 == Probes
    <2>1. /\ s1 \in Seq(Stages) /\ s2 \in Seq(Stages) /\ Len(s1) = 8 /\ Len(s2) = NProbes
          /\ InitOrder = s1 \o s2
      BY Parts DEF InitOrder, NProbes
    <2> HIDE DEF s1, s2
    <2>2. /\ InitOrder \in Seq(Stages) /\ Len(InitOrder) = Len(s1) + Len(s2)
          /\ \A i \in 1 .. Len(s1) + Len(s2) :
                InitOrder[i] = IF i <= Len(s1) THEN s1[i] ELSE s2[i - Len(s1)]
      BY <2>1, ConcatProperties, Zenon
    <2>3. /\ InitOrder \in Seq(Stages) /\ Len(InitOrder) = NStages
          /\ \A i \in 1 .. NStages : InitOrder[i] = IF i <= 8 THEN s1[i] ELSE s2[i - 8]
      BY <1>1, <2>1, <2>2 DEF NStages
    <2> QED  BY <2>3 DEF s1, s2
  <1>3. DOMAIN InitOrder = 1 .. NStages
    BY <1>2
  <1>4. /\ DOMAIN UnwindOrder = 1 .. NStages
        /\ \A i \in 1 .. NStages : UnwindOrder[i] = InitOrder[NStages - i + 1]
    BY <1>1, <1>2 DEF UnwindOrder, Reverse
  <1>5. \A i \in 1 .. NProbes : Reverse(Probes)[i] = Probes[NProbes - i + 1]
    BY DEF Reverse, NProbes
  <1> DEFINE rev == Reverse(Probes)
  <1>6. ExitOrder = rev \o ExitRest
    BY DEF ExitOrder, ExitRest
  <1>7. rev \in Seq(Stages) /\ Len(rev) = NProbes /\ ExitRest \in Seq(Stages)
        /\ Len(ExitRest) = 8
    BY Parts DEF NProbes
  <1>8. \A i \in 1 .. NProbes : rev[i] = Probes[NProbes - i + 1]
    BY <1>5
  <1> HIDE DEF rev
  <1>9. /\ ExitOrder \in Seq(Stages) /\ Len(ExitOrder) = NProbes + 8
        /\ \A i \in 1 .. NProbes + 8 :
              ExitOrder[i] = IF i <= NProbes THEN rev[i] ELSE ExitRest[i - NProbes]
    <2>1. /\ ExitOrder \in Seq(Stages) /\ Len(ExitOrder) = Len(rev) + Len(ExitRest)
          /\ \A i \in 1 .. Len(rev) + Len(ExitRest) :
                ExitOrder[i] = IF i <= Len(rev) THEN rev[i] ELSE ExitRest[i - Len(rev)]
      BY <1>6, <1>7, ConcatProperties, Zenon
    <2> QED  BY <1>7, <2>1, Zenon
  <1>10. NProbes + 8 = NStages
    BY <1>1 DEF NStages
  <1>11. DOMAIN ExitOrder = 1 .. NStages
    BY <1>9, <1>10
  <1>12. \A i \in 1 .. NStages :
            ExitOrder[i] = IF i <= NProbes THEN Probes[NProbes - i + 1] ELSE ExitRest[i - NProbes]
    BY <1>1, <1>8, <1>9, <1>10
  <1> QED  BY <1>1, <1>2, <1>3, <1>4, <1>11, <1>12

\* No stage comes twice, and both orders have the same stages.
LEMMA Distinct ==
  /\ \A i, j \in 1 .. NStages : InitOrder[i] = InitOrder[j] => i = j
  /\ \A i, j \in 1 .. NStages : ExitOrder[i] = ExitOrder[j] => i = j
  /\ Range(InitOrder) = Range(ExitOrder)
  /\ Range(InitOrder) = {InitOrder[i] : i \in 1 .. NStages}
  /\ \A i \in 1 .. NProbes : Probes[i] = InitOrder[8 + i] /\ Probes[i] = ExitOrder[NProbes - i + 1]
  /\ Range(Probes) = {Probes[i] : i \in 1 .. NProbes}
  <1>1. DOMAIN Probes = 1 .. NProbes /\ NProbes \in Nat
    BY ProbesAssumption DEF NProbes
  <1>2. \A i \in 1 .. NProbes, j \in 1 .. 8 : Probes[i] # BaseOrder[j]
    <2>1. DOMAIN BaseOrder = 1 .. 8
      BY DEF BaseOrder
    <2> QED  BY <1>1, <2>1, ProbesAssumption DEF Range
  <1>3. \A i, j \in 1 .. 8 : BaseOrder[i] = BaseOrder[j] => i = j
    BY DEF BaseOrder
  <1>4. \A i, j \in 1 .. NStages : InitOrder[i] = InitOrder[j] => i = j
    <2> SUFFICES ASSUME NEW i \in 1 .. NStages, NEW j \in 1 .. NStages, InitOrder[i] = InitOrder[j]
                 PROVE  i = j
      OBVIOUS
    <2>0. /\ i <= 8 => InitOrder[i] = BaseOrder[i]
          /\ i > 8 => InitOrder[i] = Probes[i - 8]
          /\ j <= 8 => InitOrder[j] = BaseOrder[j]
          /\ j > 8 => InitOrder[j] = Probes[j - 8]
          /\ i > 8 => i - 8 \in 1 .. NProbes
          /\ j > 8 => j - 8 \in 1 .. NProbes
          /\ i \in Nat \ {0} /\ j \in Nat \ {0}
      BY <1>1, Orders DEF NStages
    <2>1. CASE i <= 8 /\ j <= 8
      BY <1>3, <2>0, <2>1
    <2>2. CASE i > 8 /\ j > 8
      <3>1. Probes[i - 8] = Probes[j - 8]
        BY <2>0, <2>2
      <3>2. i - 8 = j - 8
        BY <1>1, <2>0, <2>2, <3>1, ProbesAssumption
      <3> QED  BY <3>2
    <2>3. CASE i <= 8 /\ j > 8
      BY <1>2, <2>0, <2>3
    <2>4. CASE i > 8 /\ j <= 8
      BY <1>2, <2>0, <2>4
    <2> QED  BY <2>1, <2>2, <2>3, <2>4
  <1>5. \A i \in 1 .. 8 : ExitRest[i] = BaseOrder[Turned[i]] /\ Turned[i] \in 1 .. 8
    <2>1. \A i \in 1 .. 8 : Turned[i] \in 1 .. 8
      BY DEF Turned
    <2> QED  BY <2>1, Parts
  <1>6. \A i, j \in 1 .. 8 : ExitRest[i] = ExitRest[j] => i = j
    BY DEF ExitRest
  <1>7. \A j \in 1 .. 8 : \E i \in 1 .. 8 : Turned[i] = j
    <2>1. /\ Turned[8] = 1 /\ Turned[7] = 2 /\ Turned[6] = 3 /\ Turned[5] = 4
          /\ Turned[4] = 5 /\ Turned[3] = 6 /\ Turned[1] = 7 /\ Turned[2] = 8
      BY DEF Turned
    <2> QED  BY <2>1
  <1>8. \A i \in 1 .. NStages :
            ExitOrder[i] = IF i <= NProbes THEN Probes[NProbes - i + 1] ELSE ExitRest[i - NProbes]
    BY Orders
  <1>9. \A i, j \in 1 .. NStages : ExitOrder[i] = ExitOrder[j] => i = j
    <2> SUFFICES ASSUME NEW i \in 1 .. NStages, NEW j \in 1 .. NStages, ExitOrder[i] = ExitOrder[j]
                 PROVE  i = j
      OBVIOUS
    <2>1. CASE i <= NProbes /\ j <= NProbes
      BY <1>1, <1>8, <2>1, ProbesAssumption
    <2>2. CASE i > NProbes /\ j > NProbes
      <3>1. i - NProbes \in 1 .. 8 /\ j - NProbes \in 1 .. 8
        BY <1>1, <2>2 DEF NStages
      <3>2. ExitRest[i - NProbes] = ExitRest[j - NProbes]
        BY <1>1, <1>8, <2>2 DEF NStages
      <3>3. i - NProbes = j - NProbes
        BY <1>6, <3>1, <3>2
      <3> QED  BY <1>1, <3>3 DEF NStages
    <2>3. ASSUME NEW a \in 1 .. NStages, NEW b \in 1 .. NStages, a <= NProbes, b > NProbes
          PROVE  ExitOrder[a] # ExitOrder[b]
      <3>1. b - NProbes \in 1 .. 8 /\ NProbes - a + 1 \in 1 .. NProbes
        BY <1>1, <2>3 DEF NStages
      <3>2. ExitOrder[a] = Probes[NProbes - a + 1] /\ ExitOrder[b] = ExitRest[b - NProbes]
        BY <1>1, <1>8, <2>3 DEF NStages
      <3>3. PICK c \in 1 .. 8 : ExitRest[b - NProbes] = BaseOrder[c]
        BY <1>5, <3>1
      <3> QED  BY <1>2, <3>1, <3>2, <3>3
    <2> QED  BY <1>1, <2>1, <2>2, <2>3 DEF NStages
  <1>10. Range(InitOrder) = {InitOrder[i] : i \in 1 .. NStages}
         /\ Range(ExitOrder) = {ExitOrder[i] : i \in 1 .. NStages}
         /\ Range(Probes) = {Probes[i] : i \in 1 .. NProbes}
    BY <1>1, Orders DEF Range
  <1>11. \A i \in 1 .. NProbes : Probes[i] = InitOrder[8 + i]
                                 /\ Probes[i] = ExitOrder[NProbes - i + 1]
    <2> SUFFICES ASSUME NEW i \in 1 .. NProbes
                 PROVE  Probes[i] = InitOrder[8 + i] /\ Probes[i] = ExitOrder[NProbes - i + 1]
      OBVIOUS
    <2>1. 8 + i \in 1 .. NStages /\ ~(8 + i <= 8) /\ 8 + i - 8 = i
          /\ NProbes - i + 1 \in 1 .. NStages /\ NProbes - i + 1 <= NProbes
          /\ NProbes - (NProbes - i + 1) + 1 = i
      BY <1>1 DEF NStages
    <2> QED  BY <1>8, <2>1, Orders
  <1>12. \A i \in 1 .. NStages : \E j \in 1 .. NStages : InitOrder[i] = ExitOrder[j]
    <2> SUFFICES ASSUME NEW i \in 1 .. NStages PROVE \E j \in 1 .. NStages : InitOrder[i] = ExitOrder[j]
      OBVIOUS
    <2>1. CASE i <= 8
      <3>1. PICK k \in 1 .. 8 : Turned[k] = i
        BY <1>7, <2>1
      <3>2. PICK n \in 1 .. NStages : ~(n <= NProbes) /\ n - NProbes = k
        <4>1. NProbes + k \in 1 .. NStages /\ ~(NProbes + k <= NProbes) /\ NProbes + k - NProbes = k
          BY <1>1 DEF NStages
        <4> QED  BY <1>1, <4>1 DEF NStages
      <3>3. ExitOrder[n] = ExitRest[k]
        BY <1>8, <3>2
      <3>4. ExitRest[k] = BaseOrder[i]
        BY <1>5, <3>1
      <3>5. InitOrder[i] = BaseOrder[i]
        BY <2>1, Orders
      <3> QED  BY <3>3, <3>4, <3>5
    <2>2. CASE i > 8
      <3>1. i - 8 \in 1 .. NProbes /\ 8 + (i - 8) = i /\ NProbes - (i - 8) + 1 \in 1 .. NStages
        BY <1>1, <2>2 DEF NStages
      <3>2. Probes[i - 8] = ExitOrder[NProbes - (i - 8) + 1] /\ Probes[i - 8] = InitOrder[i]
        BY <1>11, <3>1
      <3> QED  BY <3>1, <3>2
    <2> QED  BY <1>1, <2>1, <2>2 DEF NStages
  <1>13. \A i \in 1 .. NStages : \E j \in 1 .. NStages : ExitOrder[i] = InitOrder[j]
    <2> SUFFICES ASSUME NEW i \in 1 .. NStages PROVE \E j \in 1 .. NStages : ExitOrder[i] = InitOrder[j]
      OBVIOUS
    <2>1. CASE i <= NProbes
      <3>1. NProbes - i + 1 \in 1 .. NProbes /\ 8 + (NProbes - i + 1) \in 1 .. NStages
        BY <1>1, <2>1 DEF NStages
      <3> QED  BY <1>8, <1>11, <2>1, <3>1
    <2>2. CASE i > NProbes
      <3>1. i - NProbes \in 1 .. 8 /\ ~(i <= NProbes)
        BY <1>1, <2>2 DEF NStages
      <3>2. Turned[i - NProbes] \in 1 .. NStages /\ Turned[i - NProbes] <= 8
        BY <1>1, <1>5, <3>1 DEF NStages
      <3>3. ExitOrder[i] = ExitRest[i - NProbes]
        BY <1>8, <3>1
      <3>4. ExitRest[i - NProbes] = BaseOrder[Turned[i - NProbes]]
        BY <1>5, <3>1
      <3>5. InitOrder[Turned[i - NProbes]] = BaseOrder[Turned[i - NProbes]]
        BY <3>2, Orders
      <3>6. ExitOrder[i] = InitOrder[Turned[i - NProbes]]
        BY <3>3, <3>4, <3>5
      <3> QED  BY <3>2, <3>6
    <2> QED  BY <1>1, <2>1, <2>2 DEF NStages
  <1> QED  BY <1>4, <1>9, <1>10, <1>11, <1>12, <1>13

-----------------------------------------------------------------------------
(* The stages come and go in order.                                        *)

UpOrdered == \A i, j \in 1 .. NStages : j < i /\ InitOrder[i] \in up => InitOrder[j] \in up
DownOrdered == \A i, j \in 1 .. NStages : i < j /\ ExitOrder[i] \in up => ExitOrder[j] \in up

\* av_init sets up the first stage that is not there.
LEMMA NextStageIs ==
  ASSUME up \subseteq Range(InitOrder), up # Range(InitOrder)
  PROVE  \E i \in 1 .. NStages : /\ NextStage = InitOrder[i] /\ InitOrder[i] \notin up
                                 /\ \A j \in 1 .. NStages : j < i => InitOrder[j] \in up
  <1>1. Range(InitOrder) = {InitOrder[i] : i \in 1 .. NStages} /\ DOMAIN InitOrder = 1 .. NStages
        /\ NStages \in Nat
    BY Distinct, Orders
  <1>2. \E i \in DOMAIN InitOrder : InitOrder[i] \in Range(InitOrder) \ up
    BY <1>1
  <1>3. PICK i \in 1 .. NStages :
           /\ First(InitOrder, Range(InitOrder) \ up) = InitOrder[i]
           /\ InitOrder[i] \in Range(InitOrder) \ up
           /\ \A j \in 1 .. NStages : j < i => InitOrder[j] \notin Range(InitOrder) \ up
    BY <1>1, <1>2, FirstIs
  <1> QED  BY <1>1, <1>3 DEF NextStage

\* Its error path takes down the last one.
LEMMA UnwindIs ==
  ASSUME up \subseteq Range(InitOrder), up # {}
  PROVE  \E i \in 1 .. NStages : /\ First(UnwindOrder, up) = InitOrder[i] /\ InitOrder[i] \in up
                                 /\ \A j \in 1 .. NStages : j > i => InitOrder[j] \notin up
  <1>1. /\ Range(InitOrder) = {InitOrder[i] : i \in 1 .. NStages} /\ NStages \in Nat
        /\ DOMAIN UnwindOrder = 1 .. NStages
        /\ \A i \in 1 .. NStages : UnwindOrder[i] = InitOrder[NStages - i + 1]
    BY Distinct, Orders
  <1>2. PICK k \in 1 .. NStages : InitOrder[k] \in up
    BY <1>1
  <1>3. /\ NStages - k + 1 \in DOMAIN UnwindOrder
        /\ NStages - (NStages - k + 1) + 1 = k
    BY <1>1
  <1>4. \E i \in DOMAIN UnwindOrder : UnwindOrder[i] \in up
    BY <1>1, <1>2, <1>3
  <1>5. PICK m \in 1 .. NStages :
           /\ First(UnwindOrder, up) = UnwindOrder[m] /\ UnwindOrder[m] \in up
           /\ \A j \in 1 .. NStages : j < m => UnwindOrder[j] \notin up
    BY <1>1, <1>4, FirstIs
  <1> DEFINE i == NStages - m + 1
  <1>6. i \in 1 .. NStages /\ UnwindOrder[m] = InitOrder[i]
    BY <1>1
  <1>7. ASSUME NEW j \in 1 .. NStages, j > i PROVE InitOrder[j] \notin up
    <2>1. NStages - j + 1 \in 1 .. NStages /\ NStages - j + 1 < m
          /\ NStages - (NStages - j + 1) + 1 = j
      BY <1>1, <1>7
    <2>2. UnwindOrder[NStages - j + 1] = InitOrder[j]
      BY <1>1, <2>1
    <2> QED  BY <1>5, <2>1, <2>2
  <1> HIDE DEF i
  <1> QED  BY <1>5, <1>6, <1>7

\* av_exit takes down the first of its own order.
LEMMA ExitIs ==
  ASSUME up \subseteq Range(InitOrder), up # {}
  PROVE  \E i \in 1 .. NStages : /\ First(ExitOrder, up) = ExitOrder[i] /\ ExitOrder[i] \in up
                                 /\ \A j \in 1 .. NStages : j < i => ExitOrder[j] \notin up
  <1>1. /\ up \subseteq Range(ExitOrder) /\ NStages \in Nat /\ DOMAIN ExitOrder = 1 .. NStages
    BY Distinct, Orders
  <1>2. \E i \in DOMAIN ExitOrder : ExitOrder[i] \in up
    BY <1>1 DEF Range
  <1> QED  BY <1>1, <1>2, FirstIs

\* Where the work queue and what its work reads are found.
LEMMA Places ==
  /\ InitOrder[7] = "wq" /\ ExitOrder[NProbes + 1] = "wq"
  /\ 7 \in 1 .. NStages /\ NProbes + 1 \in 1 .. NStages
  /\ \A t \in {"sig_proc", "trust_proc", "protect_proc", "gc_wq"} :
        /\ \E i \in 1 .. 6 : InitOrder[i] = t
        /\ \E i \in NProbes + 2 .. NStages : ExitOrder[i] = t
  /\ 6 <= NStages
  <1>1. NProbes \in Nat /\ NStages = 8 + NProbes
    BY Orders DEF NStages
  <1>2. /\ \A i \in 1 .. 8 : InitOrder[i] = BaseOrder[i]
        /\ \A i \in 1 .. 8 : ExitOrder[NProbes + i] = ExitRest[i]
    <2>1. ASSUME NEW i \in 1 .. 8 PROVE InitOrder[i] = BaseOrder[i]
      BY <1>1, Orders
    <2>2. ASSUME NEW i \in 1 .. 8 PROVE ExitOrder[NProbes + i] = ExitRest[i]
      <3>1. NProbes + i \in 1 .. NStages /\ ~(NProbes + i <= NProbes)
            /\ NProbes + i - NProbes = i
        BY <1>1
      <3> QED  BY <3>1, Orders
    <2> QED  BY <2>1, <2>2
  <1>3. /\ BaseOrder[7] = "wq" /\ BaseOrder[1] = "sig_proc" /\ BaseOrder[4] = "trust_proc"
        /\ BaseOrder[5] = "protect_proc" /\ BaseOrder[6] = "gc_wq"
    BY DEF BaseOrder
  <1>4. /\ ExitRest[1] = "wq" /\ ExitRest[8] = "sig_proc" /\ ExitRest[5] = "trust_proc"
        /\ ExitRest[4] = "protect_proc" /\ ExitRest[3] = "gc_wq"
    BY DEF ExitRest
  <1>5. /\ InitOrder[7] = "wq" /\ InitOrder[1] = "sig_proc" /\ InitOrder[4] = "trust_proc"
        /\ InitOrder[5] = "protect_proc" /\ InitOrder[6] = "gc_wq"
    BY <1>2, <1>3
  <1>6. /\ ExitOrder[NProbes + 1] = "wq" /\ ExitOrder[NProbes + 8] = "sig_proc"
        /\ ExitOrder[NProbes + 5] = "trust_proc" /\ ExitOrder[NProbes + 4] = "protect_proc"
        /\ ExitOrder[NProbes + 3] = "gc_wq"
    BY <1>2, <1>4
  <1>7. /\ 7 \in 1 .. NStages /\ NProbes + 1 \in 1 .. NStages /\ 6 <= NStages
        /\ \A i \in 2 .. 8 : NProbes + i \in NProbes + 2 .. NStages
    BY <1>1
  <1>8. \A t \in {"sig_proc", "trust_proc", "protect_proc", "gc_wq"} :
           \E i \in 1 .. 6 : InitOrder[i] = t
    BY <1>5
  <1>9. \A t \in {"sig_proc", "trust_proc", "protect_proc", "gc_wq"} :
           \E i \in NProbes + 2 .. NStages : ExitOrder[i] = t
    BY <1>6, <1>7
  <1> QED  BY <1>5, <1>6, <1>7, <1>8, <1>9

\* What StageInv says, over the places of the stages.
StageFacts ==
    /\ phase = "live" => up = Range(InitOrder)
    /\ phase = "out" => up = {}
    /\ phase = "init" => up # Range(InitOrder)
    /\ phase \in {"unwind", "exit"} => up # {}
    /\ phase \in {"init", "unwind"} => UpOrdered
    /\ phase = "exit" => DownOrdered
    /\ work => "wq" \in up

\* The two ways to say it are the same.
LEMMA StageFactsEq == (StageInv <=> StageFacts) /\ (StageInv' <=> StageFacts')
  <1>1. DOMAIN InitOrder = 1 .. NStages /\ DOMAIN ExitOrder = 1 .. NStages
    BY Orders
  <1>2. StageInv <=> StageFacts
    BY <1>1 DEF StageInv, StageFacts, UpOrdered, DownOrdered
  <1>3. StageInv' <=> StageFacts'
    BY <1>1 DEF StageInv, StageFacts, UpOrdered, DownOrdered
  <1> QED  BY <1>2, <1>3

\* The module's own steps.
LEMMA ModuleStage ==
  ASSUME TypeOK, StageFacts, ModuleNext
  PROVE  StageFacts'
  <1>0. up \subseteq Range(InitOrder) /\ phase \in {"out", "init", "live", "unwind", "exit"}
    BY DEF TypeOK
  <1>d. /\ \A i, j \in 1 .. NStages : InitOrder[i] = InitOrder[j] => i = j
        /\ \A i, j \in 1 .. NStages : ExitOrder[i] = ExitOrder[j] => i = j
        /\ NStages \in Nat
    BY Distinct, Orders
  <1>1. CASE InitStage
    <2>1. PICK i \in 1 .. NStages :
             /\ NextStage = InitOrder[i] /\ InitOrder[i] \notin up
             /\ \A j \in 1 .. NStages : j < i => InitOrder[j] \in up
      BY <1>0, <1>1, NextStageIs DEF InitStage, StageFacts
    <2>2. up' = up \cup {InitOrder[i]} /\ phase = "init" /\ work' = work
          /\ phase' \in {"init", "live"} /\ (phase' = "live" <=> up' = Range(InitOrder))
      BY <1>1, <2>1 DEF InitStage
    <2>3. UpOrdered'
      BY <1>d, <2>1, <2>2 DEF StageFacts, UpOrdered
    <2> QED  BY <2>2, <2>3 DEF StageFacts
  <1>2. CASE InitFails
    BY <1>2 DEF InitFails, StageFacts, UpOrdered
  <1>3. CASE Undo /\ phase = "unwind"
    <2>1. PICK i \in 1 .. NStages :
             /\ First(UnwindOrder, up) = InitOrder[i] /\ InitOrder[i] \in up
             /\ \A j \in 1 .. NStages : j > i => InitOrder[j] \notin up
      BY <1>0, <1>3, UnwindIs DEF StageFacts
    <2>2. up' = up \ {InitOrder[i]} /\ (InitOrder[i] = "wq" => ~work) /\ work' = work
          /\ phase' \in {"unwind", "out"} /\ (phase' = "out" <=> up' = {})
      BY <1>3, <2>1 DEF Undo
    <2>3. UpOrdered'
      <3> SUFFICES ASSUME NEW a \in 1 .. NStages, NEW b \in 1 .. NStages, b < a,
                          InitOrder[a] \in up'
                   PROVE  InitOrder[b] \in up'
        BY DEF UpOrdered
      <3>1. InitOrder[a] \in up /\ ~(a > i)
        BY <2>1, <2>2
      <3>2. InitOrder[b] \in up /\ b # i
        BY <1>3, <1>d, <3>1 DEF StageFacts, UpOrdered
      <3> QED  BY <1>d, <2>2, <3>2
    <2> QED  BY <1>3, <2>2, <2>3 DEF StageFacts
  <1>4. CASE Undo /\ phase = "exit"
    <2>1. PICK i \in 1 .. NStages :
             /\ First(ExitOrder, up) = ExitOrder[i] /\ ExitOrder[i] \in up
             /\ \A j \in 1 .. NStages : j < i => ExitOrder[j] \notin up
      BY <1>0, <1>4, ExitIs DEF StageFacts
    <2>2. up' = up \ {ExitOrder[i]} /\ (ExitOrder[i] = "wq" => ~work) /\ work' = work
          /\ phase' \in {"exit", "out"} /\ (phase' = "out" <=> up' = {})
      BY <1>4, <2>1 DEF Undo
    <2>3. DownOrdered'
      <3> SUFFICES ASSUME NEW a \in 1 .. NStages, NEW b \in 1 .. NStages, a < b,
                          ExitOrder[a] \in up'
                   PROVE  ExitOrder[b] \in up'
        BY DEF DownOrdered
      <3>1. ExitOrder[a] \in up /\ ~(a < i)
        BY <2>1, <2>2
      <3>2. ExitOrder[b] \in up /\ b # i
        BY <1>4, <1>d, <3>1 DEF StageFacts, DownOrdered
      <3> QED  BY <1>d, <2>2, <3>2
    <2> QED  BY <1>4, <2>2, <2>3 DEF StageFacts
  <1>5. CASE Event
    <2>1. UNCHANGED <<phase, up>> /\ phase \in {"init", "unwind", "exit"}
      BY <1>5 DEF Event
    <2>2. PICK i \in 1 .. NProbes : Probes[i] \in up
      BY <1>5, Distinct DEF Event
    <2>3. /\ InitOrder[8 + i] \in up /\ ExitOrder[NProbes - i + 1] \in up
          /\ 8 + i \in 1 .. NStages /\ NProbes - i + 1 \in 1 .. NStages
          /\ NProbes - i + 1 < NProbes + 1 /\ 7 < 8 + i
      BY <2>2, Distinct, Orders DEF NStages
    <2>4. "wq" \in up
      BY <2>1, <2>3, Places DEF StageFacts, UpOrdered, DownOrdered
    <2> QED  BY <2>1, <2>4 DEF StageFacts, UpOrdered, DownOrdered
  <1>6. CASE WorkDone
    BY <1>6 DEF WorkDone, StageFacts, UpOrdered, DownOrdered
  <1> QED  BY <1>1, <1>2, <1>3, <1>4, <1>5, <1>6 DEF ModuleNext, Undo

\* The steps that leave the module alone.
LEMMA KernelFrame ==
  ASSUME StageInv, PhaseInv, UNCHANGED <<phase, up, work, sh>>
  PROVE  StageInv' /\ PhaseInv'
  BY DEF StageInv, PhaseInv

\* Every step keeps the order of the stages.
LEMMA StageStep == ASSUME TypeOK, StageInv, PhaseInv, [Next]_vars PROVE StageInv' /\ PhaseInv'
  <1>1. CASE ModuleNext
    <2>1. StageInv'
      BY <1>1, ModuleStage, StageFactsEq
    <2>2. PhaseInv'
      BY <1>1 DEF ModuleNext, InitStage, InitFails, Undo, Event, WorkDone, PhaseInv, TypeOK,
           script
    <2> QED  BY <2>1, <2>2
  <1>2. ASSUME NEW s \in Savers, SaveNext(s) PROVE UNCHANGED <<phase, up, work, sh>>
    BY <1>2 DEF SaveNext, OperatorSaves, CreateFails, CreateTmp, DumpTable, save_abort, SyncTmp,
         CheckTmp, Recheck, RenameTmp, RenameFails, CleanUp, SyncDir, KillSave, kernel, script
  <1>3. CASE ScriptNext
    <2> USE DEF StageFacts, PhaseInv
    <2>0. StageFacts
      BY StageFactsEq
    <2>1. ASSUME UNCHANGED <<phase, up, work>> PROVE StageFacts'
      BY <2>0, <2>1 DEF UpOrdered, DownOrdered
    <2>2. CASE StartWithModule
      BY <2>1, <2>2, StageFactsEq DEF StartWithModule, kernel
    <2>3. CASE StartWithoutModule
      <3>1. Range(InitOrder) # {}
        BY Distinct, Places
      <3>2. up' = {} /\ work' = work /\ phase' = "init" /\ sh' = "insmod"
        BY <2>0, <2>3 DEF StartWithoutModule
      <3>3. StageFacts'
        BY <2>0, <2>3, <3>1, <3>2 DEF StartWithoutModule, UpOrdered
      <3> QED  BY <3>2, <3>3, StageFactsEq
    <2>4. CASE SaveReturns
      BY <2>1, <2>4, StageFactsEq DEF SaveReturns, kernel
    <2>5. CASE Rmmod
      <3>1. up' = up /\ up = Range(InitOrder) /\ work' = work /\ phase' = "exit" /\ sh' = "unload"
        BY <2>0, <2>5 DEF Rmmod
      <3>2. DownOrdered' /\ up # {}
        <4>1. \A j \in 1 .. NStages : ExitOrder[j] \in Range(ExitOrder)
          BY Orders DEF Range
        <4>2. Range(ExitOrder) = Range(InitOrder) /\ 7 \in 1 .. NStages
          BY Distinct, Places
        <4> QED  BY <3>1, <4>1, <4>2 DEF DownOrdered
      <3>3. StageFacts'
        BY <2>0, <3>1, <3>2
      <3> QED  BY <3>1, <3>3, StageFactsEq
    <2>6. CASE RmmodFails
      BY <2>1, <2>6, StageFactsEq DEF RmmodFails, kernel
    <2>7. CASE Insmod
      <3>1. Range(InitOrder) # {}
        BY Distinct, Places
      <3>2. up' = {} /\ work' = work /\ phase' = "init" /\ sh' = "insmod"
        BY <2>0, <2>7 DEF Insmod
      <3>3. StageFacts'
        BY <2>0, <2>7, <3>1, <3>2 DEF Insmod, UpOrdered
      <3> QED  BY <3>2, <3>3, StageFactsEq
    <2>8. CASE InsmodReturns \/ OpenStateFails
      BY <2>1, <2>8, StageFactsEq DEF InsmodReturns, OpenStateFails, kernel
    <2>9. CASE LoadEntry \/ LoadPolicy
      BY <2>9, KernelFrame DEF LoadEntry, LoadPolicy
    <2>10. CASE LoadStops \/ LoadReturns
      BY <2>1, <2>10, StageFactsEq DEF LoadStops, LoadReturns, kernel
    <2>11. CASE Finish
      BY <2>1, <2>11, StageFactsEq DEF Finish, kernel
    <2> QED
      BY <1>3, <2>2, <2>3, <2>4, <2>5, <2>6, <2>7, <2>8, <2>9, <2>10, <2>11 DEF ScriptNext
  <1>4. CASE OperatorNext
    BY <1>4, KernelFrame DEF OperatorNext, AddOrDelSignature, do_trust, do_protect, do_policy,
         RemoveTmp, Add, Del, Command, kernel, script
  <1>5. CASE Crash
    BY <1>5 DEF Crash, StageInv, PhaseInv
  <1>6. CASE UNCHANGED vars
    BY <1>6, KernelFrame DEF vars, kernel, script
  <1> QED
    BY <1>1, <1>2, <1>3, <1>4, <1>5, <1>6, KernelFrame DEF Next

-----------------------------------------------------------------------------
(* Types.                                                                  *)

Save == [pc : SavePlaces, ino : Inodes \cup {Absent}, k : 1 .. 4, werr : BOOLEAN,
         have : BOOLEAN, rm : BOOLEAN, ok : BOOLEAN]
File == [entries : SUBSET Entries, policy : Policies \cup {Unset}, full : BOOLEAN,
         synced : BOOLEAN, missed : Misses]

KernelType ==
    /\ phase \in {"out", "init", "live", "unwind", "exit"} /\ up \subseteq Range(InitOrder)
    /\ work \in BOOLEAN /\ entries \subseteq Entries /\ policy \in Policies
FsType ==
    /\ file \in [Inodes -> File] /\ dir \in Names /\ disk \subseteq Names
    /\ next \in 1 .. MaxSaves + 1
SvType == sv \in [Savers -> Save]
ScriptType ==
    /\ sh \in {"idle", "save", "rmmod", "unload", "insmod", "load", "done", "failed"}
    /\ todo \in Replays /\ errors \in BOOLEAN
GhostType ==
    /\ owed \in Dumps /\ armed \in BOOLEAN /\ raced \in BOOLEAN /\ replaced \in BOOLEAN
    /\ unsynced \in BOOLEAN /\ disturbances \in Nat

\* The types, one group of variables at a time.
LEMMA TypeSplit ==
    /\ TypeOK <=> KernelType /\ FsType /\ SvType /\ ScriptType /\ GhostType
    /\ TypeOK' <=> KernelType' /\ FsType' /\ SvType' /\ ScriptType' /\ GhostType'
  BY DEF TypeOK, KernelType, FsType, SvType, ScriptType, GhostType, Save, File

\* What a save process may become.
LEMMA SaveType ==
  ASSUME MaxSaves \in Nat
  PROVE  /\ Off \in Save /\ EmptyFile \in File /\ Nothing \in Dumps /\ NothingToDo \in Replays
         /\ \A ok \in BOOLEAN : [Off EXCEPT !.ok = ok] \in Save
         /\ \A i \in Inodes : [Off EXCEPT !.pc = "create", !.ino = i] \in Save
  <1>1. Off \in Save
    <2>1. 1 \in 1 .. 4 /\ "off" \in SavePlaces /\ Absent \in Inodes \cup {Absent}
      BY DEF SavePlaces
    <2> QED  BY <2>1 DEF Off, Save
  <1>2. EmptyFile \in File
    BY DEF EmptyFile, File, Misses
  <1>3. Nothing \in Dumps /\ NothingToDo \in Replays
    BY DEF Nothing, Dumps, NothingToDo, Replays, Misses
  <1>4. \A ok \in BOOLEAN : [Off EXCEPT !.ok = ok] \in Save
    BY <1>1 DEF Save
  <1>5. \A i \in Inodes : [Off EXCEPT !.pc = "create", !.ino = i] \in Save
    <2>1. "create" \in SavePlaces
      BY DEF SavePlaces
    <2> QED  BY <1>1, <2>1 DEF Save
  <1> QED  BY <1>1, <1>2, <1>3, <1>4, <1>5

\* The steps of the module, of the script and of the operator.
LEMMA ModuleType ==
  ASSUME KernelType, FsType, SvType, ScriptType, GhostType, StageInv, ModuleNext
  PROVE  KernelType' /\ FsType' /\ SvType' /\ ScriptType' /\ GhostType'
  <1>1. FsType' /\ SvType' /\ ScriptType'
    BY DEF ModuleNext, InitStage, InitFails, Undo, Event, WorkDone, FsType, SvType, ScriptType,
         fs, script
  <1>2. GhostType'
    BY DEF ModuleNext, InitStage, InitFails, Undo, Event, WorkDone, GhostType, ghosts, Disturbed
  <1>3. KernelType'
    <2>1. CASE InitStage
      <3>1. NextStage \in Range(InitOrder)
        <4>1. PICK i \in 1 .. NStages : NextStage = InitOrder[i]
          BY <2>1, NextStageIs DEF InitStage, KernelType, StageInv
        <4> QED  BY <4>1, Distinct
      <3>2. entries' \subseteq Entries
        BY <2>1, ReloadAssumption DEF InitStage, KernelType, Seeded, Entries
      <3> QED  BY <2>1, <3>1, <3>2 DEF InitStage, KernelType
    <2>2. CASE Undo
      <3>1. phase' \in {"out", "unwind", "exit"} /\ policy' \in Policies /\ work' = work
        BY <2>2 DEF Undo, KernelType, Policies
      <3>2. up' \subseteq up /\ entries' \subseteq entries
        BY <2>2 DEF Undo
      <3> QED  BY <3>1, <3>2 DEF KernelType
    <2>3. CASE InitFails \/ Event \/ WorkDone
      BY <2>3 DEF InitFails, Event, WorkDone, KernelType
    <2> QED  BY <2>1, <2>2, <2>3 DEF ModuleNext
  <1> QED  BY <1>1, <1>2, <1>3

\* A save that begins gets an inode that was not given out.
LEMMA BeginType ==
  ASSUME FsType, SvType, NEW s \in Savers, BeginSave(s)
  PROVE  FsType' /\ SvType'
  <1>1. next \in Inodes /\ [Off EXCEPT !.pc = "create", !.ino = next] \in Save
    BY SaveType, ReloadAssumption DEF BeginSave
  <1>2. SvType'
    BY <1>1 DEF BeginSave, SvType
  <1>3. FsType'
    BY <1>1, ReloadAssumption DEF BeginSave, FsType, Inodes
  <1> QED  BY <1>2, <1>3

\* do_load() replays one line.
LoadOne(e) ==
    /\ todo' = [todo EXCEPT !.entries = @ \ {e}]
    /\ \/ Skipped(e) /\ UNCHANGED <<entries, errors, disturbances>>
       \/ /\ ~Skipped(e) /\ ~Refused(e)
          /\ entries' = entries \cup {e} /\ UNCHANGED <<errors, disturbances>>
       \/ /\ ~Skipped(e) /\ Disturbed(~Refused(e))
          /\ errors' = TRUE /\ UNCHANGED entries

\* Whatever table is next, the step replays one line of the dump.
LEMMA LoadEntryIs ==
  ASSUME LoadEntry PROVE \E e \in todo.entries : LoadOne(e)
  <1> DEFINE k == CHOOSE i \in 1 .. 3 :
                   /\ todo.entries \cap Tables[i] # {}
                   /\ \A j \in 1 .. i - 1 : todo.entries \cap Tables[j] = {}
  <1>1. \E e \in todo.entries \cap Tables[k] : LoadOne(e)
    BY DEF LoadEntry, LoadOne
  <1> HIDE DEF k
  <1> QED  BY <1>1

\* The script's steps keep the types.
LEMMA ScriptTypeStep ==
  ASSUME KernelType, FsType, SvType, ScriptType, GhostType, ScriptNext
  PROVE  KernelType' /\ FsType' /\ SvType' /\ ScriptType' /\ GhostType'
  <1>0. Nothing \in Dumps /\ NothingToDo \in Replays
    BY SaveType, ReloadAssumption
  <1>1. FsType' /\ SvType'
    <2>1. CASE StartWithModule
      BY <2>1, BeginType, ReloadAssumption DEF StartWithModule
    <2>2. CASE ~StartWithModule
      <3>1. UNCHANGED <<fs, sv>>
        BY <2>2 DEF ScriptNext, StartWithoutModule, SaveReturns, Rmmod, RmmodFails, Insmod,
             InsmodReturns, OpenStateFails, LoadEntry, LoadPolicy, LoadStops, LoadReturns, Finish
      <3> QED  BY <3>1 DEF FsType, SvType, fs
    <2> QED  BY <2>1, <2>2
  <1>2. CASE StartWithModule
    <2>1. owed' \in Dumps
      BY <1>2 DEF StartWithModule, Dumps, KernelType
    <2> QED
      BY <1>1, <1>2, <2>1 DEF StartWithModule, KernelType, ScriptType, GhostType, kernel
  <1>3. CASE SaveReturns \/ RmmodFails \/ LoadReturns \/ Finish
    <2>1. KernelType'
      BY <1>3 DEF SaveReturns, RmmodFails, LoadReturns, Finish, KernelType, kernel
    <2>2. ScriptType'
      BY <1>0, <1>3 DEF SaveReturns, RmmodFails, LoadReturns, Finish, ScriptType
    <2>3. owed' \in Dumps
      BY <1>0, <1>3 DEF SaveReturns, RmmodFails, LoadReturns, Finish, GhostType, ghosts
    <2>4. disturbances' \in Nat
      BY <1>3 DEF SaveReturns, RmmodFails, LoadReturns, Finish, GhostType, Disturbed
    <2>5. GhostType'
      BY <1>3, <2>3, <2>4 DEF SaveReturns, RmmodFails, LoadReturns, Finish, GhostType, ghosts
    <2> QED  BY <1>1, <2>1, <2>2, <2>5
  <1>4. CASE StartWithoutModule \/ Rmmod \/ Insmod
    BY <1>1, <1>4 DEF StartWithoutModule, Rmmod, Insmod, KernelType, ScriptType, GhostType, ghosts
  <1>5. CASE InsmodReturns
    <2>1. todo' \in Replays
      <3>1. dir.base # Absent => file[dir.base] \in File
        BY DEF FsType, Names
      <3>2. CASE dir.base # Absent /\ phase = "live"
        <4>1. todo' = [entries |-> file[dir.base].entries, policy |-> file[dir.base].policy,
                      missed |-> file[dir.base].missed]
          BY <1>5, <3>2 DEF InsmodReturns
        <4> QED  BY <3>1, <3>2, <4>1 DEF File, Replays
      <3>3. CASE ~(dir.base # Absent /\ phase = "live")
        BY <1>5, <3>3 DEF InsmodReturns, ScriptType
      <3> QED  BY <3>2, <3>3
    <2>2. KernelType' /\ GhostType'
      BY <1>5 DEF InsmodReturns, KernelType, GhostType, kernel, ghosts
    <2>3. ScriptType'
      BY <1>5, <2>1 DEF InsmodReturns, ScriptType
    <2> QED  BY <1>1, <2>2, <2>3
  <1>8. CASE OpenStateFails
    <2>1. disturbances' = disturbances + 1
      BY <1>8 DEF OpenStateFails, Disturbed
    <2>2. KernelType' /\ ScriptType'
      BY <1>8 DEF OpenStateFails, KernelType, ScriptType, kernel
    <2>3. GhostType'
      BY <1>8, <2>1 DEF OpenStateFails, GhostType, ghosts
    <2> QED  BY <1>1, <2>2, <2>3
  <1>9. CASE LoadStops
    <2>1. todo' = [NothingToDo EXCEPT !.missed = todo.missed \cup todo.entries \cup {todo.policy}]
      BY <1>9 DEF LoadStops
    <2>2. (todo.missed \cup todo.entries \cup {todo.policy}) \in Misses
      BY DEF ScriptType, Replays, Misses
    <2>3. todo' \in Replays
      BY <1>0, <2>1, <2>2 DEF Replays
    <2> QED
      BY <1>1, <1>9, <2>3 DEF LoadStops, KernelType, ScriptType, GhostType, kernel, ghosts,
           Disturbed
  <1>6. CASE LoadEntry
    <2>1. PICK e \in todo.entries :
             /\ todo' = [todo EXCEPT !.entries = @ \ {e}]
             /\ entries' \subseteq entries \cup {e}
             /\ errors' \in BOOLEAN /\ disturbances' \in Nat
      <3>1. PICK e \in todo.entries : LoadOne(e)
        BY <1>6, LoadEntryIs
      <3>2. entries' \subseteq entries \cup {e}
        BY <3>1 DEF LoadOne
      <3>3. errors' = errors \/ errors' = TRUE
        BY <3>1 DEF LoadOne
      <3>4. disturbances' = disturbances \/ disturbances' = disturbances + 1
        BY <3>1 DEF LoadOne, Disturbed
      <3>5. errors' \in BOOLEAN
        BY <3>3, Zenon DEF ScriptType
      <3>6. disturbances' \in Nat
        BY <3>4 DEF GhostType
      <3> QED  BY <3>1, <3>2, <3>5, <3>6 DEF LoadOne
    <2>2. todo' \in Replays /\ entries' \subseteq Entries
      BY <2>1 DEF Replays, ScriptType, KernelType
    <2> QED
      BY <1>1, <1>6, <2>1, <2>2 DEF LoadEntry, KernelType, ScriptType, GhostType, ghosts
  <1>7. CASE LoadPolicy
    <2>1. policy' \in Policies /\ todo' \in Replays
      BY <1>7 DEF LoadPolicy, Replays, ScriptType, KernelType
    <2>2. errors' \in BOOLEAN /\ disturbances' \in Nat
      <3>1. errors' = errors \/ errors' = TRUE
        BY <1>7 DEF LoadPolicy
      <3>2. disturbances' = disturbances \/ disturbances' = disturbances + 1
        BY <1>7 DEF LoadPolicy, Disturbed
      <3>3. errors' \in BOOLEAN
        BY <3>1, Zenon DEF ScriptType
      <3>4. disturbances' \in Nat
        BY <3>2 DEF GhostType
      <3> QED  BY <3>3, <3>4
    <2> QED
      BY <1>1, <1>7, <2>1, <2>2 DEF LoadPolicy, KernelType, ScriptType, GhostType, ghosts
  <1> QED
    BY <1>2, <1>3, <1>4, <1>5, <1>6, <1>7, <1>8, <1>9 DEF ScriptNext

\* A change of the directory.
LEMMA UnlinkType ==
  ASSUME FsType, NEW others \in SUBSET Savers, UnlinkTmp(others), file' = file, next' = next
  PROVE  FsType' /\ raced' \in BOOLEAN
  BY DEF FsType, UnlinkTmp, SetDir, Names

\* The operator's commands keep the types.
LEMMA OperatorType ==
  ASSUME KernelType, FsType, SvType, ScriptType, GhostType, OperatorNext
  PROVE  KernelType' /\ FsType' /\ SvType' /\ ScriptType' /\ GhostType'
  <1> USE DEF SvType, ScriptType, GhostType, kernel, fs, script, Disturbed
  <1>1. ASSUME NEW k \in 1 .. 3, Add(k)
        PROVE  KernelType' /\ FsType' /\ SvType' /\ ScriptType' /\ GhostType'
    <2>1. Tables[k] \subseteq Entries
      BY DEF Tables, Entries
    <2> QED  BY <1>1, <2>1 DEF Add, Command, KernelType, FsType
  <1>2. ASSUME NEW k \in 1 .. 3, Del(k)
        PROVE  KernelType' /\ FsType' /\ SvType' /\ ScriptType' /\ GhostType'
    <2>1. owed' \in Dumps
      BY <1>2 DEF Del, Dumps
    <2> QED  BY <1>2, <2>1 DEF Del, Command, KernelType, FsType
  <1>3. CASE do_policy
    <2>1. owed' \in Dumps
      BY <1>3 DEF do_policy, Dumps
    <2> QED  BY <1>3, <2>1 DEF do_policy, Command, KernelType, FsType
  <1>4. CASE RemoveTmp
    <2>1. FsType' /\ raced' \in BOOLEAN
      BY <1>4, UnlinkType DEF RemoveTmp
    <2> QED  BY <1>4, <2>1 DEF RemoveTmp, KernelType
  <1> QED
    BY <1>1, <1>2, <1>3, <1>4 DEF OperatorNext, AddOrDelSignature, do_trust, do_protect

\* A power loss keeps the types.
LEMMA CrashType ==
  ASSUME KernelType, FsType, SvType, ScriptType, GhostType, Crash
  PROVE  KernelType' /\ FsType' /\ SvType' /\ ScriptType' /\ GhostType'
  <1>0. Off \in Save /\ EmptyFile \in File /\ Nothing \in Dumps /\ NothingToDo \in Replays
    BY SaveType, ReloadAssumption
  <1>1. KernelType' /\ ScriptType'
    BY <1>0 DEF Crash, KernelType, ScriptType, Policies
  <1>2. SvType'
    BY <1>0 DEF Crash, SvType
  <1>3. FsType'
    <2>1. PICK cut \in SUBSET {i \in Inodes : ~file[i].synced} :
             file' = [i \in Inodes |-> IF i \in cut THEN EmptyFile ELSE file[i]]
      BY DEF Crash
    <2>2. file' \in [Inodes -> File]
      BY <1>0, <2>1 DEF FsType
    <2> QED  BY <2>2 DEF Crash, FsType
  <1>4. GhostType'
    <2>1. owed' \in Dumps
      BY <1>0 DEF Crash, GhostType
    <2>2. (armed /\ ~unsynced) \in BOOLEAN
      BY DEF GhostType
    <2>3. armed' = (armed /\ ~unsynced) /\ unsynced' = FALSE /\ UNCHANGED <<raced, replaced>>
      BY DEF Crash
    <2>4. disturbances' \in Nat
      BY DEF Crash, GhostType, Disturbed
    <2> QED  BY <2>1, <2>2, <2>3, <2>4 DEF GhostType
  <1> QED  BY <1>1, <1>2, <1>3, <1>4

-----------------------------------------------------------------------------
(* What each step of a save does to the save processes.                    *)

\* Save s goes on: its place and its notes change, no other save does.
Became(s, pc, k, werr, have, rm) ==
    /\ SvType' /\ \A t \in Savers \ {s} : sv'[t] = sv[t]
    /\ sv'[s].pc = pc /\ sv'[s].ino = sv[s].ino /\ sv'[s].k = k /\ sv'[s].werr = werr
    /\ sv'[s].have = have /\ sv'[s].rm = rm /\ sv'[s].ok = sv[s].ok

\* Save s ends.
Ended(s, ok) ==
    /\ SvType' /\ \A t \in Savers \ {s} : sv'[t] = sv[t]
    /\ sv'[s].pc = "off" /\ sv'[s].ok = ok

\* Every way a save exits ends it.
LEMMA EndedIs ==
  ASSUME SvType, NEW s \in Savers, NEW ok \in BOOLEAN, Exit(s, ok)
  PROVE  Ended(s, ok)
  <1>1. [Off EXCEPT !.ok = ok] \in Save
    BY SaveType, ReloadAssumption
  <1>2. [Off EXCEPT !.ok = ok].pc = "off" /\ [Off EXCEPT !.ok = ok].ok = ok
    BY DEF Off
  <1> QED  BY <1>1, <1>2 DEF Exit, Ended, SvType

\* The step taken when only the place, and perhaps one or two notes, change.
LEMMA NoteIs ==
  ASSUME SvType, NEW s \in Savers, NEW pc \in SavePlaces
  PROVE  /\ Step(s, pc) => Became(s, pc, sv[s].k, sv[s].werr, sv[s].have, sv[s].rm)
         /\ \A rm \in BOOLEAN : sv' = [sv EXCEPT ![s].pc = pc, ![s].rm = rm] =>
               Became(s, pc, sv[s].k, sv[s].werr, sv[s].have, rm)
         /\ \A werr \in BOOLEAN : sv' = [sv EXCEPT ![s].pc = pc, ![s].werr = werr] =>
               Became(s, pc, sv[s].k, werr, sv[s].have, sv[s].rm)
         /\ \A werr, have \in BOOLEAN :
               sv' = [sv EXCEPT ![s].pc = pc, ![s].have = have, ![s].werr = werr] =>
                  Became(s, pc, sv[s].k, werr, have, sv[s].rm)
         /\ \A werr \in BOOLEAN, k \in 1 .. 4 :
               sv' = [sv EXCEPT ![s].werr = werr, ![s].k = k, ![s].pc = pc] =>
                  Became(s, pc, k, werr, sv[s].have, sv[s].rm)
  <1>1. sv[s] \in Save
    BY DEF SvType
  <1>2. Step(s, pc) => Became(s, pc, sv[s].k, sv[s].werr, sv[s].have, sv[s].rm)
    BY <1>1 DEF SvType, Save, Became, Step
  <1>3. ASSUME NEW rm \in BOOLEAN, sv' = [sv EXCEPT ![s].pc = pc, ![s].rm = rm]
        PROVE  Became(s, pc, sv[s].k, sv[s].werr, sv[s].have, rm)
    BY <1>1, <1>3 DEF SvType, Save, Became
  <1>4. ASSUME NEW werr \in BOOLEAN, sv' = [sv EXCEPT ![s].pc = pc, ![s].werr = werr]
        PROVE  Became(s, pc, sv[s].k, werr, sv[s].have, sv[s].rm)
    BY <1>1, <1>4 DEF SvType, Save, Became
  <1>5. ASSUME NEW werr \in BOOLEAN, NEW have \in BOOLEAN,
               sv' = [sv EXCEPT ![s].pc = pc, ![s].have = have, ![s].werr = werr]
        PROVE  Became(s, pc, sv[s].k, werr, have, sv[s].rm)
    BY <1>1, <1>5 DEF SvType, Save, Became
  <1>6. ASSUME NEW werr \in BOOLEAN, NEW k \in 1 .. 4,
               sv' = [sv EXCEPT ![s].werr = werr, ![s].k = k, ![s].pc = pc]
        PROVE  Became(s, pc, k, werr, sv[s].have, sv[s].rm)
    BY <1>1, <1>6 DEF SvType, Save, Became
  <1> QED  BY <1>2, <1>3, <1>4, <1>5, <1>6

\* What the steps of a running save have in common.
Frame(s) ==
    /\ Running(s) /\ TypeOK'
    /\ \A t \in Savers \ {s} : sv'[t] = sv[t]
    /\ sv'[s].pc # "off" => sv'[s].ino = sv[s].ino
    /\ \A i \in Inodes \ {sv[s].ino} : file'[i] = file[i]
    /\ next' = next
    /\ UNCHANGED <<kernel, script, owed>>
    /\ (raced => raced') /\ (replaced => replaced')

\* Every step of a running save is of that kind.
LEMMA FrameIs ==
  ASSUME TypeOK, InodeInv, NEW s \in Savers, SaveNext(s), ~OperatorSaves(s)
  PROVE  Frame(s)
  <1>0. KernelType /\ FsType /\ SvType /\ ScriptType /\ GhostType
    BY TypeSplit
  <1>1. sv[s] \in Save /\ Off \in Save /\ EmptyFile \in File
    BY <1>0, SaveType, ReloadAssumption DEF SvType
  <1>2. UNCHANGED <<kernel, script, owed>> /\ KernelType' /\ ScriptType' /\ owed' \in Dumps
    <2>1. UNCHANGED <<kernel, script, owed>>
      BY DEF SaveNext, CreateFails, CreateTmp, DumpTable, save_abort, SyncTmp, CheckTmp, Recheck,
           RenameTmp, RenameFails, CleanUp, SyncDir, KillSave, ghosts
    <2> QED  BY <1>0, <2>1 DEF KernelType, ScriptType, GhostType, kernel, script
  <1>3. Running(s)
    BY DEF SaveNext, CreateFails, CreateTmp, DumpTable, save_abort, SyncTmp, CheckTmp, Recheck,
           RenameTmp, RenameFails, CleanUp, SyncDir, KillSave, Running, AboutToRename
  <1>4. sv[s].ino \in Inodes
    BY <1>0, <1>3, ReloadAssumption DEF InodeInv, FsType, Inodes
  <1>5. disturbances' \in Nat
    <2>1. disturbances' = disturbances \/ disturbances' = disturbances + 1
      <3> USE DEF Disturbed
      <3>1. CASE CreateFails(s) \/ CreateTmp(s)
        BY <3>1 DEF CreateFails, CreateTmp
      <3>2. CASE DumpTable(s)
        BY <3>2 DEF DumpTable
      <3>3. CASE save_abort(s) \/ SyncTmp(s) \/ CheckTmp(s) \/ Recheck(s) \/ RenameTmp(s)
        BY <3>3 DEF save_abort, SyncTmp, CheckTmp, Recheck, RenameTmp
      <3>4. CASE RenameFails(s) \/ CleanUp(s) \/ SyncDir(s) \/ KillSave(s)
        BY <3>4 DEF RenameFails, CleanUp, SyncDir, KillSave
      <3> QED  BY <3>1, <3>2, <3>3, <3>4 DEF SaveNext
    <2> QED  BY <1>0, <2>1 DEF GhostType
  <1>6. ASSUME GhostType', SvType', FsType', next' = next,
               \A t \in Savers \ {s} : sv'[t] = sv[t],
               sv'[s].pc # "off" => sv'[s].ino = sv[s].ino,
               \A i \in Inodes \ {sv[s].ino} : file'[i] = file[i],
               raced => raced', replaced => replaced'
        PROVE  Frame(s)
    BY <1>2, <1>3, <1>6, TypeSplit DEF Frame
  <1>7. ASSUME UNCHANGED ghosts
        PROVE  GhostType' /\ (raced => raced') /\ (replaced => replaced')
    BY <1>0, <1>5, <1>7 DEF GhostType, ghosts
  <1>8. ASSUME UNCHANGED fs
        PROVE  FsType' /\ next' = next /\ \A i \in Inodes \ {sv[s].ino} : file'[i] = file[i]
    BY <1>0, <1>8 DEF FsType, fs
  <1>9. ASSUME NEW d \in Names, SetDir(d), UNCHANGED <<file, next>>
        PROVE  FsType' /\ next' = next /\ \A i \in Inodes \ {sv[s].ino} : file'[i] = file[i]
    BY <1>0, <1>9 DEF FsType, SetDir
  <1>10. ASSUME NEW f \in File, file' = [file EXCEPT ![sv[s].ino] = f], UNCHANGED next,
                dir' \in Names, disk' \subseteq Names
         PROVE  FsType' /\ next' = next /\ \A i \in Inodes \ {sv[s].ino} : file'[i] = file[i]
    BY <1>0, <1>4, <1>10 DEF FsType
  <1>11. ASSUME NEW ok \in BOOLEAN, Exit(s, ok)
         PROVE  /\ SvType' /\ sv'[s].pc = "off"
                /\ \A t \in Savers \ {s} : sv'[t] = sv[t]
    BY <1>0, <1>11, EndedIs DEF Ended
  <1>12. CASE CreateFails(s) \/ KillSave(s)
    <2>1. Exit(s, FALSE) /\ UNCHANGED <<fs, ghosts>>
      BY <1>12 DEF CreateFails, KillSave
    <2> QED  BY <1>6, <1>7, <1>8, <1>11, <2>1
  <1>13. CASE CreateTmp(s)
    <2>1. PICK stream \in BOOLEAN :
             sv' = [sv EXCEPT ![s].pc = IF stream THEN "dump" ELSE "clean", ![s].rm = ~stream]
      BY <1>13 DEF CreateTmp
    <2>2. (~stream) \in BOOLEAN /\ (IF stream THEN "dump" ELSE "clean") \in SavePlaces
      BY DEF SavePlaces
    <2>3. Became(s, IF stream THEN "dump" ELSE "clean", sv[s].k, sv[s].werr, sv[s].have, ~stream)
      BY <1>0, <2>1, <2>2, NoteIs
    <2>4. [dir EXCEPT !.tmp = sv[s].ino] \in Names
      BY <1>0, <1>4 DEF FsType, Names
    <2>5. dir' \in Names /\ disk' \subseteq Names
      BY <1>0, <1>13, <2>4 DEF CreateTmp, SetDir, FsType
    <2>6. file' = [file EXCEPT ![sv[s].ino] = EmptyFile] /\ UNCHANGED <<next, ghosts>>
      BY <1>13 DEF CreateTmp
    <2> QED  BY <1>1, <1>6, <1>7, <1>10, <2>3, <2>5, <2>6 DEF Became
  <1>14. CASE DumpTable(s)
    <2> DEFINE Dumped(read) == [EmptyFile EXCEPT
                  !.entries = file[sv[s].ino].entries
                                \cup IF read THEN entries \cap Tables[sv[s].k] ELSE {},
                  !.policy = IF sv[s].k = 4 /\ read THEN policy ELSE Unset,
                  !.full = sv[s].k = 4,
                  !.missed = file[sv[s].ino].missed \cup IF read THEN {} ELSE Held(sv[s].k)]
    <2>1. PICK bad \in BOOLEAN, read \in BOOLEAN :
             /\ file' = [file EXCEPT ![sv[s].ino] =
                            IF sv[s].werr \/ bad THEN EmptyFile ELSE Dumped(read)]
             /\ sv' = [sv EXCEPT ![s].werr = sv[s].werr \/ bad,
                                 ![s].k = IF sv[s].k = 4 THEN 1 ELSE sv[s].k + 1,
                                 ![s].pc = IF sv[s].k = 4 THEN "sync" ELSE "dump"]
      BY <1>14 DEF DumpTable
    <2>2. Dumped(read) \in File
      <3>1. file[sv[s].ino].entries \subseteq Entries /\ entries \subseteq Entries
            /\ file[sv[s].ino].missed \in Misses
        BY <1>0, <1>4 DEF FsType, File, KernelType
      <3>2. (IF sv[s].k = 4 /\ read THEN policy ELSE Unset) \in Policies \cup {Unset}
        BY <1>0 DEF KernelType
      <3>3. (sv[s].k = 4) \in BOOLEAN
        OBVIOUS
      <3>4. Held(sv[s].k) \in Misses
        BY <1>0, <3>1 DEF Held, Misses, KernelType
      <3>5. (file[sv[s].ino].missed \cup IF read THEN {} ELSE Held(sv[s].k)) \in Misses
        BY <3>1, <3>4 DEF Misses
      <3>6. (file[sv[s].ino].entries \cup IF read THEN entries \cap Tables[sv[s].k] ELSE {})
               \in SUBSET Entries
        BY <3>1
      <3> QED  BY <1>1, <3>2, <3>3, <3>5, <3>6 DEF File
    <2>3. (IF sv[s].werr \/ bad THEN EmptyFile ELSE Dumped(read)) \in File
      BY <1>1, <2>2
    <2>4. UNCHANGED <<dir, disk, next, ghosts>>
      BY <1>14 DEF DumpTable
    <2>5. dir' \in Names /\ disk' \subseteq Names
      BY <1>0, <2>4 DEF FsType
    <2>6. /\ (sv[s].werr \/ bad) \in BOOLEAN
          /\ (IF sv[s].k = 4 THEN "sync" ELSE "dump") \in SavePlaces
      BY DEF SavePlaces
    <2>7. (IF sv[s].k = 4 THEN 1 ELSE sv[s].k + 1) \in 1 .. 4
      <3>1. sv[s].k \in 1 .. 4
        BY <1>1 DEF Save
      <3> QED  BY <3>1
    <2>8. Became(s, IF sv[s].k = 4 THEN "sync" ELSE "dump",
                 IF sv[s].k = 4 THEN 1 ELSE sv[s].k + 1, sv[s].werr \/ bad, sv[s].have, sv[s].rm)
      BY <1>0, <2>1, <2>6, <2>7, NoteIs
    <2> HIDE DEF Dumped
    <2> QED  BY <1>6, <1>7, <1>10, <2>1, <2>3, <2>4, <2>5, <2>8 DEF Became
  <1>15. CASE save_abort(s)
    <2>1. /\ "clean" \in SavePlaces /\ StillOurs(s) \in BOOLEAN
          /\ UNCHANGED <<fs, ghosts>>
          /\ sv' = [sv EXCEPT ![s].pc = "clean", ![s].rm = StillOurs(s)]
      BY <1>15 DEF save_abort, SavePlaces, StillOurs
    <2>2. Became(s, "clean", sv[s].k, sv[s].werr, sv[s].have, StillOurs(s))
      BY <1>0, <2>1, NoteIs
    <2> QED  BY <1>6, <1>7, <1>8, <2>1, <2>2 DEF Became
  <1>16. CASE SyncTmp(s)
    <2>1. PICK bad \in BOOLEAN :
             /\ file' = [file EXCEPT ![sv[s].ino].synced = ~bad]
             /\ sv' = [sv EXCEPT ![s].pc = "check", ![s].werr = @ \/ bad]
      BY <1>16 DEF SyncTmp
    <2>2. [file[sv[s].ino] EXCEPT !.synced = ~bad] \in File
      <3>1. file[sv[s].ino] \in File /\ (~bad) \in BOOLEAN
        BY <1>0, <1>4 DEF FsType
      <3> QED  BY <3>1 DEF File
    <2>3. file' = [file EXCEPT ![sv[s].ino] = [file[sv[s].ino] EXCEPT !.synced = ~bad]]
      BY <1>0, <1>4, <2>1 DEF FsType
    <2>4. (sv[s].werr \/ bad) \in BOOLEAN /\ "check" \in SavePlaces
      BY DEF SavePlaces
    <2>5. sv' = [sv EXCEPT ![s].pc = "check", ![s].werr = sv[s].werr \/ bad]
      BY <1>0, <2>1 DEF SvType, Save
    <2>6. Became(s, "check", sv[s].k, sv[s].werr \/ bad, sv[s].have, sv[s].rm)
      BY <1>0, <2>4, <2>5, NoteIs
    <2>7. UNCHANGED <<dir, disk, next, ghosts>>
      BY <1>16 DEF SyncTmp
    <2>8. dir' \in Names /\ disk' \subseteq Names
      BY <1>0, <2>7 DEF FsType
    <2> QED  BY <1>6, <1>7, <1>10, <2>2, <2>3, <2>6, <2>7, <2>8 DEF Became
  <1>17. CASE CheckTmp(s)
    <2>1. PICK have \in BOOLEAN, bad \in BOOLEAN :
             sv' = [sv EXCEPT ![s].pc = "recheck", ![s].have = have,
                              ![s].werr = @ \/ ~StillOurs(s) \/ bad]
      BY <1>17 DEF CheckTmp
    <2>2. sv' = [sv EXCEPT ![s].pc = "recheck", ![s].have = have,
                           ![s].werr = sv[s].werr \/ ~StillOurs(s) \/ bad]
      BY <1>0, <2>1 DEF SvType, Save
    <2>3. (sv[s].werr \/ ~StillOurs(s) \/ bad) \in BOOLEAN /\ "recheck" \in SavePlaces
      BY DEF SavePlaces
    <2>4. Became(s, "recheck", sv[s].k, sv[s].werr \/ ~StillOurs(s) \/ bad, have, sv[s].rm)
      BY <1>0, <2>2, <2>3, NoteIs
    <2>5. UNCHANGED <<fs, ghosts>>
      BY <1>17 DEF CheckTmp
    <2> QED  BY <1>6, <1>7, <1>8, <2>4, <2>5 DEF Became
  <1>18. CASE Recheck(s)
    <2> DEFINE Ours == sv[s].have /\ StillOurs(s)
               Pc == IF Ours /\ ~sv[s].werr THEN "rename" ELSE "clean"
    <2>1. /\ sv' = [sv EXCEPT ![s].pc = Pc, ![s].rm = Ours \/ ~sv[s].have]
          /\ UNCHANGED <<fs, ghosts>>
      BY <1>18 DEF Recheck
    <2>2. Pc \in SavePlaces /\ (Ours \/ ~sv[s].have) \in BOOLEAN
      BY DEF SavePlaces
    <2> HIDE DEF Ours, Pc
    <2>3. Became(s, Pc, sv[s].k, sv[s].werr, sv[s].have, Ours \/ ~sv[s].have)
      BY <1>0, <2>1, <2>2, NoteIs
    <2> QED  BY <1>6, <1>7, <1>8, <2>1, <2>3 DEF Became
  <1>19. CASE RenameTmp(s)
    <2>1. Became(s, "dirsync", sv[s].k, sv[s].werr, sv[s].have, sv[s].rm)
      BY <1>0, <1>19, NoteIs DEF RenameTmp, SavePlaces
    <2>2. [base |-> dir.tmp, tmp |-> Absent] \in Names
      BY <1>0 DEF FsType, Names
    <2>3. SetDir([base |-> dir.tmp, tmp |-> Absent]) /\ UNCHANGED <<file, next>>
      BY <1>19 DEF RenameTmp
    <2>4. GhostType' /\ (raced => raced') /\ (replaced => replaced')
      BY <1>0, <1>5, <1>19 DEF RenameTmp, GhostType
    <2> QED  BY <1>6, <1>9, <2>1, <2>2, <2>3, <2>4 DEF Became
  <1>20. CASE RenameFails(s)
    <2>1. /\ "clean" \in SavePlaces /\ (sv[s].have /\ StillOurs(s)) \in BOOLEAN
          /\ UNCHANGED <<fs, ghosts>>
          /\ sv' = [sv EXCEPT ![s].pc = "clean", ![s].rm = sv[s].have /\ StillOurs(s)]
      BY <1>20 DEF RenameFails, SavePlaces
    <2>2. Became(s, "clean", sv[s].k, sv[s].werr, sv[s].have, sv[s].have /\ StillOurs(s))
      BY <1>0, <2>1, NoteIs
    <2> QED  BY <1>6, <1>7, <1>8, <2>1, <2>2 DEF Became
  <1>21. CASE CleanUp(s)
    <2>1. Exit(s, FALSE) /\ UNCHANGED <<file, next, armed, replaced, unsynced>>
      BY <1>21 DEF CleanUp
    <2>2. FsType' /\ raced' \in BOOLEAN /\ (raced => raced')
      <3>1. CASE UnlinkTmp(Savers \ {s})
        <4>1. FsType' /\ raced' \in BOOLEAN
          BY <1>0, <2>1, <3>1, UnlinkType
        <4> QED  BY <3>1, <4>1 DEF UnlinkTmp
      <3>2. CASE UNCHANGED <<dir, disk, raced>>
        BY <1>0, <2>1, <3>2 DEF FsType, GhostType
      <3> QED  BY <1>21, <3>1, <3>2 DEF CleanUp
    <2>3. GhostType'
      BY <1>0, <1>2, <1>5, <2>1, <2>2 DEF GhostType
    <2>4. \A i \in Inodes \ {sv[s].ino} : file'[i] = file[i]
      BY <2>1
    <2> QED  BY <1>6, <1>11, <2>1, <2>2, <2>3, <2>4
  <1>22. CASE SyncDir(s)
    <2>1. Exit(s, TRUE) /\ UNCHANGED <<file, dir, next, raced, replaced>>
      BY <1>22 DEF SyncDir
    <2>2. PICK synced \in BOOLEAN :
             /\ disk' = IF synced THEN {dir} ELSE disk
             /\ unsynced' = IF s = Script THEN ~synced ELSE unsynced
      BY <1>22 DEF SyncDir
    <2>3. armed' = (armed \/ s = Script) /\ armed' \in BOOLEAN
      BY <1>22 DEF SyncDir
    <2>4. FsType'
      BY <1>0, <2>1, <2>2 DEF FsType
    <2>5. (~synced) \in BOOLEAN
      OBVIOUS
    <2>6. unsynced' \in BOOLEAN
      BY <1>0, <2>2, <2>5 DEF GhostType
    <2>7. GhostType'
      BY <1>0, <1>2, <1>5, <2>1, <2>3, <2>6 DEF GhostType
    <2>8. \A i \in Inodes \ {sv[s].ino} : file'[i] = file[i]
      BY <2>1
    <2> QED  BY <1>6, <1>11, <2>1, <2>4, <2>7, <2>8
  <1> QED
    BY <1>12, <1>13, <1>14, <1>15, <1>16, <1>17, <1>18, <1>19, <1>20, <1>21, <1>22 DEF SaveNext

-----------------------------------------------------------------------------
(* The state file is whole or absent.                                      *)

\* What a step of a save does to the directory.
LEMMA DirMoves ==
  ASSUME TypeOK, InodeInv, NEW s \in Savers, SaveNext(s), ~OperatorSaves(s)
  PROVE  /\ dir' \in disk' /\ disk' \subseteq disk \cup {dir'}
         /\ \/ UNCHANGED dir
            \/ CreateTmp(s) /\ dir.tmp = Absent /\ dir' = [dir EXCEPT !.tmp = sv[s].ino]
            \/ RenameTmp(s) /\ dir.tmp # Absent /\ dir' = [base |-> dir.tmp, tmp |-> Absent]
            \/ CleanUp(s) /\ dir' = [dir EXCEPT !.tmp = Absent]
         /\ (raced' # raced) => CleanUp(s)
         /\ ~raced' /\ CleanUp(s) /\ dir' # dir => \A t \in Savers \ {s} : ~AboutToRename(t)
  <1>0. dir \in disk
    BY DEF InodeInv
  <1>1. CASE CreateTmp(s)
    <2>1. /\ dir.tmp = Absent /\ dir' = [dir EXCEPT !.tmp = sv[s].ino]
          /\ disk' = disk \cup {dir'} /\ raced' = raced
      BY <1>1 DEF CreateTmp, SetDir, ghosts
    <2>2. ~CleanUp(s)
      BY <1>1 DEF CreateTmp, CleanUp
    <2> QED  BY <1>1, <2>1, <2>2
  <1>2. CASE RenameTmp(s)
    <2>1. /\ dir.tmp # Absent /\ dir' = [base |-> dir.tmp, tmp |-> Absent]
          /\ disk' = disk \cup {dir'} /\ raced' = raced /\ sv[s].pc = "rename"
      BY <1>2 DEF RenameTmp, SetDir, AboutToRename
    <2>2. ~CleanUp(s)
      BY <2>1 DEF CleanUp
    <2> QED  BY <1>2, <2>1, <2>2
  <1>3. CASE CleanUp(s)
    <2>1. CASE UnlinkTmp(Savers \ {s})
      BY <1>3, <2>1 DEF UnlinkTmp, SetDir
    <2>2. CASE UNCHANGED <<dir, disk, raced>>
      BY <1>0, <1>3, <2>2
    <2> QED  BY <1>3, <2>1, <2>2 DEF CleanUp
  <1>4. CASE SyncDir(s)
    BY <1>0, <1>4 DEF SyncDir
  <1>5. CASE DumpTable(s)
    BY <1>0, <1>5 DEF DumpTable, ghosts
  <1>6. CASE CreateFails(s) \/ save_abort(s) \/ SyncTmp(s) \/ CheckTmp(s) \/ Recheck(s)
             \/ RenameFails(s) \/ KillSave(s)
    BY <1>0, <1>6 DEF CreateFails, save_abort, SyncTmp, CheckTmp, Recheck, RenameFails,
         KillSave, fs, ghosts
  <1> QED  BY <1>1, <1>2, <1>3, <1>4, <1>5, <1>6 DEF SaveNext

\* What the dump in an inode holds, or missed.
Kept(f, i) == f[i].entries \cup f[i].missed

\* What it does to the save's place, its notes and its file.
LEMMA PlaceMoves ==
  ASSUME TypeOK, InodeInv, NEW s \in Savers, SaveNext(s), ~OperatorSaves(s)
  PROVE  /\ Writing(s)' => Writing(s) /\ sv'[s].pc # "create"
         /\ AboutToRename(s)' => /\ sv[s].pc = "recheck" /\ StillOurs(s) /\ ~sv[s].werr
                                 /\ ~sv'[s].werr /\ file' = file /\ dir' = dir
         /\ sv'[s].pc = "recheck" => /\ sv[s].pc = "check" /\ file' = file /\ dir' = dir
                                     /\ (sv[s].werr => sv'[s].werr)
         /\ sv'[s].pc = "check" =>
               /\ sv[s].pc = "sync" /\ (sv[s].werr => sv'[s].werr) /\ dir' = dir
               /\ file'[sv[s].ino].full = file[sv[s].ino].full
               /\ file'[sv[s].ino].entries = file[sv[s].ino].entries
               /\ file'[sv[s].ino].policy = file[sv[s].ino].policy
               /\ file'[sv[s].ino].missed = file[sv[s].ino].missed
               /\ ~sv'[s].werr => file'[sv[s].ino].synced
         /\ sv'[s].pc \in {"dump", "sync"} /\ ~CreateTmp(s) =>
               /\ sv[s].pc = "dump" /\ Procs[sv[s].k] \in up /\ (sv[s].werr => sv'[s].werr)
               /\ dir' = dir
               /\ (sv'[s].pc = "sync") <=> (sv[s].k = 4)
               /\ sv[s].k # 4 => sv'[s].k = sv[s].k + 1
               /\ ~sv'[s].werr =>
                     /\ Kept(file, sv[s].ino) \cup (entries \cap Tables[sv[s].k])
                           \subseteq Kept(file', sv[s].ino)
                     /\ sv[s].k = 4 =>
                           /\ policy \in {file'[sv[s].ino].policy} \cup file'[sv[s].ino].missed
                           /\ file'[sv[s].ino].full
         /\ CreateTmp(s) => sv'[s].k = sv[s].k /\ sv[s].pc = "create"
                            /\ sv'[s].pc \in {"dump", "clean"}
         /\ file' # file => Writing(s)
         /\ sv'[s].pc = "dirsync" <=> RenameTmp(s)
         /\ sv'[s].ok => sv[s].ok \/ SyncDir(s)
  <1>0. sv[s] \in Save /\ sv \in [Savers -> Save] /\ file \in [Inodes -> File]
        /\ sv[s].ino \in Inodes
    <2>1. SvType /\ FsType
      BY TypeSplit
    <2>2. Running(s) /\ next \in 1 .. MaxSaves + 1
      BY <2>1, FrameIs DEF Frame, FsType
    <2> QED  BY <2>1, <2>2, ReloadAssumption DEF SvType, FsType, InodeInv, Inodes
  <1> USE DEF Writing, AboutToRename
  <1>1. CASE CreateTmp(s)
    <2>1. PICK stream \in BOOLEAN :
             sv' = [sv EXCEPT ![s].pc = IF stream THEN "dump" ELSE "clean", ![s].rm = ~stream]
      BY <1>1 DEF CreateTmp
    <2>2. /\ sv'[s].pc \in {"dump", "clean"} /\ sv'[s].k = sv[s].k /\ sv'[s].ok = sv[s].ok
          /\ sv[s].pc = "create"
      BY <1>0, <1>1, <2>1 DEF CreateTmp, Save
    <2> QED  BY <1>1, <2>2 DEF RenameTmp
  <1>2. CASE DumpTable(s)
    <2> DEFINE more(read) == file[sv[s].ino].entries
                               \cup IF read THEN entries \cap Tables[sv[s].k] ELSE {}
               less(read) == file[sv[s].ino].missed \cup IF read THEN {} ELSE Held(sv[s].k)
    <2>1. PICK bad \in BOOLEAN, read \in BOOLEAN :
             /\ file' = [file EXCEPT ![sv[s].ino] =
                  IF sv[s].werr \/ bad THEN EmptyFile
                  ELSE [EmptyFile EXCEPT
                  !.entries = more(read),
                  !.policy = IF sv[s].k = 4 /\ read THEN policy ELSE Unset,
                  !.full = sv[s].k = 4,
                  !.missed = less(read)]]
             /\ sv' = [sv EXCEPT ![s].werr = sv[s].werr \/ bad,
                                 ![s].k = IF sv[s].k = 4 THEN 1 ELSE sv[s].k + 1,
                                 ![s].pc = IF sv[s].k = 4 THEN "sync" ELSE "dump"]
      BY <1>2 DEF DumpTable
    <2>2. /\ sv'[s].pc = IF sv[s].k = 4 THEN "sync" ELSE "dump"
          /\ sv'[s].k = IF sv[s].k = 4 THEN 1 ELSE sv[s].k + 1
          /\ sv'[s].werr = (sv[s].werr \/ bad)
          /\ sv'[s].ok = sv[s].ok
      BY <1>0, <2>1 DEF Save
    <2>3. ~(sv[s].werr \/ bad) =>
             /\ Kept(file, sv[s].ino) \cup (entries \cap Tables[sv[s].k]) \subseteq Kept(file', sv[s].ino)
             /\ sv[s].k = 4 =>
                   /\ policy \in {file'[sv[s].ino].policy} \cup file'[sv[s].ino].missed
                   /\ file'[sv[s].ino].full
      <3> SUFFICES ASSUME ~(sv[s].werr \/ bad)
                   PROVE  /\ Kept(file, sv[s].ino) \cup (entries \cap Tables[sv[s].k])
                                \subseteq Kept(file', sv[s].ino)
                          /\ sv[s].k = 4 =>
                                /\ policy \in {file'[sv[s].ino].policy}
                                                 \cup file'[sv[s].ino].missed
                                /\ file'[sv[s].ino].full
        OBVIOUS
      <3> HIDE DEF more, less
      <3>1. /\ file'[sv[s].ino].entries = more(read)
            /\ file'[sv[s].ino].policy = IF sv[s].k = 4 /\ read THEN policy ELSE Unset
            /\ file'[sv[s].ino].full = (sv[s].k = 4)
            /\ file'[sv[s].ino].missed = less(read)
        BY <1>0, <2>1 DEF EmptyFile
      <3>2. /\ entries \cap Tables[sv[s].k] \subseteq more(read) \cup less(read)
            /\ file[sv[s].ino].entries \subseteq more(read)
            /\ file[sv[s].ino].missed \subseteq less(read)
            /\ sv[s].k = 4 /\ ~read => policy \in less(read)
        <4>1. sv[s].k = 4 => Tables[sv[s].k] = {}
          BY DEF Tables
        <4> QED  BY <4>1 DEF more, less, Held
      <3> QED  BY <3>1, <3>2 DEF Kept
    <2>4. sv[s].pc = "dump" /\ Procs[sv[s].k] \in up /\ dir' = dir
      BY <1>2 DEF DumpTable
    <2> QED  BY <2>2, <2>3, <2>4 DEF RenameTmp, CreateTmp
  <1>3. CASE SyncTmp(s)
    <2>1. PICK bad \in BOOLEAN :
             /\ file' = [file EXCEPT ![sv[s].ino].synced = ~bad]
             /\ sv' = [sv EXCEPT ![s].pc = "check", ![s].werr = @ \/ bad]
      BY <1>3 DEF SyncTmp
    <2>2. /\ sv'[s].pc = "check" /\ sv'[s].werr = (sv[s].werr \/ bad) /\ sv'[s].ok = sv[s].ok
          /\ sv[s].pc = "sync" /\ dir' = dir
      BY <1>0, <1>3, <2>1 DEF Save, SyncTmp
    <2>3. /\ file'[sv[s].ino].full = file[sv[s].ino].full
          /\ file'[sv[s].ino].entries = file[sv[s].ino].entries
          /\ file'[sv[s].ino].policy = file[sv[s].ino].policy
          /\ file'[sv[s].ino].missed = file[sv[s].ino].missed
          /\ file'[sv[s].ino].synced = ~bad
      BY <1>0, <2>1 DEF File
    <2> QED  BY <2>2, <2>3 DEF RenameTmp, CreateTmp
  <1>4. CASE CheckTmp(s)
    <2>1. PICK have \in BOOLEAN, bad \in BOOLEAN :
             sv' = [sv EXCEPT ![s].pc = "recheck", ![s].have = have,
                              ![s].werr = @ \/ ~StillOurs(s) \/ bad]
      BY <1>4 DEF CheckTmp
    <2>2. /\ sv'[s].pc = "recheck" /\ sv'[s].werr = (sv[s].werr \/ ~StillOurs(s) \/ bad)
          /\ sv'[s].ok = sv[s].ok /\ sv[s].pc = "check" /\ dir' = dir /\ file' = file
      BY <1>0, <1>4, <2>1 DEF Save, CheckTmp, fs
    <2> QED  BY <2>2 DEF RenameTmp, CreateTmp
  <1>5. CASE Recheck(s)
    <2>1. /\ sv'[s].pc = IF sv[s].have /\ StillOurs(s) /\ ~sv[s].werr THEN "rename" ELSE "clean"
          /\ sv'[s].werr = sv[s].werr /\ sv'[s].ok = sv[s].ok
          /\ sv[s].pc = "recheck" /\ dir' = dir /\ file' = file
      BY <1>0, <1>5 DEF Save, Recheck, fs
    <2> QED  BY <2>1 DEF RenameTmp, CreateTmp
  <1>6. CASE RenameTmp(s)
    <2>1. sv'[s].pc = "dirsync" /\ sv'[s].ok = sv[s].ok /\ file' = file
      BY <1>0, <1>6 DEF Save, RenameTmp, Step
    <2> QED  BY <1>6, <2>1 DEF RenameTmp, CreateTmp
  <1>7. CASE save_abort(s) \/ RenameFails(s)
    <2>1. /\ sv'[s].pc = "clean" /\ sv'[s].ok = sv[s].ok /\ file' = file
          /\ sv[s].pc # "create"
      BY <1>0, <1>7 DEF Save, save_abort, RenameFails, fs
    <2>2. ~RenameTmp(s)
      BY <1>0, <2>1 DEF RenameTmp, Step, Save
    <2> QED  BY <2>1, <2>2 DEF CreateTmp
  <1>8. CASE CreateFails(s) \/ CleanUp(s) \/ SyncDir(s) \/ KillSave(s)
    <2>1. /\ sv'[s].pc = "off" /\ file' = file
          /\ sv'[s].ok => SyncDir(s)
      BY <1>0, <1>8 DEF CreateFails, CleanUp, SyncDir, KillSave, Exit, Off, fs
    <2>2. ~RenameTmp(s)
      BY <1>0, <2>1 DEF RenameTmp, Step, Save
    <2>3. ~CreateTmp(s)
      <3> SUFFICES ASSUME CreateTmp(s) PROVE FALSE
        OBVIOUS
      <3>1. sv'[s].pc \in {"dump", "clean"}
        BY <1>1
      <3> QED  BY <2>1, <3>1
    <2> QED  BY <2>1, <2>2, <2>3
  <1> QED  BY <1>1, <1>2, <1>3, <1>4, <1>5, <1>6, <1>7, <1>8 DEF SaveNext

\* The invariants that only look at the directory, the files and the saves stay
\* when these do.
LEMMA FileFrame ==
  ASSUME InodeInv, SaveInv, WholeInv, UNCHANGED <<fs, sv, raced>>
  PROVE  InodeInv' /\ SaveInv' /\ WholeInv'
  <1>1. UNCHANGED <<file, dir, disk, next, sv, raced>>
    BY DEF fs
  <1>2. InodeInv'
    BY <1>1 DEF InodeInv, Running
  <1>3. SaveInv'
    BY <1>1 DEF SaveInv, AboutToRename
  <1>4. WholeInv'
    BY <1>1 DEF WholeInv, Whole, Writing, AboutToRename, StillOurs
  <1> QED  BY <1>2, <1>3, <1>4

\* A save begins.
LEMMA BeginFile ==
  ASSUME TypeOK, InodeInv, SaveInv, WholeInv, NEW s \in Savers, BeginSave(s), raced' = raced
  PROVE  InodeInv' /\ SaveInv' /\ WholeInv'
  <1>1. /\ UNCHANGED <<file, dir, disk>> /\ next' = next + 1 /\ next \in Nat \ {0}
        /\ sv[s].pc = "off"
    BY DEF BeginSave, Inodes
  <1>2. /\ \A t \in Savers \ {s} : sv'[t] = sv[t]
        /\ sv'[s].pc = "create" /\ sv'[s].ino = next /\ sv'[s].k = 1
    BY TypeSplit DEF BeginSave, Off, SvType
  <1>3. InodeInv'
    <2>1. dir' \in disk' /\ \A d \in disk' : d.base < next' /\ d.tmp < next'
      <3>1. \A d \in disk : d.base \in Nat /\ d.tmp \in Nat
        BY DEF TypeOK, Names, Inodes, Absent
      <3> QED  BY <1>1, <3>1 DEF InodeInv
    <2>2. \A t \in Savers : Running(t)' => sv'[t].ino \in 1 .. next' - 1
      BY <1>1, <1>2 DEF InodeInv, Running
    <2>3. \A t \in Savers \ {s} : Running(t)' => sv'[t].ino # next
      BY <1>1, <1>2 DEF InodeInv, Running
    <2>4. \A t, u \in Savers : t # u /\ Running(t)' /\ Running(u)' => sv'[t].ino # sv'[u].ino
      BY <1>2, <2>3 DEF InodeInv, Running
    <2> QED  BY <2>1, <2>2, <2>4 DEF InodeInv, Running
  <1>4. SaveInv'
    BY <1>1, <1>2 DEF SaveInv, AboutToRename
  <1>5. WholeInv'
    <2> SUFFICES ASSUME ~raced'
                 PROVE  /\ \A d \in disk' :
                              /\ d.base # Absent => file'[d.base].full /\ file'[d.base].synced
                              /\ \A t \in Savers : Writing(t)' => sv'[t].ino # d.base
                        /\ \A t \in Savers : AboutToRename(t)' => StillOurs(t)'
      BY DEF WholeInv, Whole, Writing, AboutToRename, StillOurs
    <2>1. ASSUME NEW d \in disk'
          PROVE  d.base # Absent => file'[d.base].full /\ file'[d.base].synced
      BY <1>1, <2>1 DEF WholeInv, Whole
    <2>2. ASSUME NEW d \in disk', NEW t \in Savers, Writing(t)' PROVE sv'[t].ino # d.base
      <3>1. d.base < next /\ d.base \in Nat
        BY <1>1, <2>2 DEF InodeInv, TypeOK, Names, Inodes, Absent
      <3> QED  BY <1>1, <1>2, <2>2, <3>1 DEF WholeInv, Writing
    <2>3. ASSUME NEW t \in Savers, AboutToRename(t)' PROVE StillOurs(t)'
      BY <1>1, <1>2, <2>3 DEF WholeInv, AboutToRename, StillOurs
    <2> QED  BY <2>1, <2>2, <2>3
  <1> QED  BY <1>3, <1>4, <1>5

\* Every other step of a save.
LEMMA SaveFile ==
  ASSUME TypeOK, InodeInv, SaveInv, WholeInv, NEW s \in Savers, SaveNext(s), ~OperatorSaves(s)
  PROVE  InodeInv' /\ SaveInv' /\ WholeInv'
  <1>1. /\ Running(s) /\ next' = next
        /\ \A t \in Savers \ {s} : sv'[t] = sv[t]
        /\ sv'[s].pc # "off" => sv'[s].ino = sv[s].ino
        /\ \A i \in Inodes \ {sv[s].ino} : file'[i] = file[i]
        /\ raced => raced'
    BY FrameIs DEF Frame
  <1>2. /\ \A d \in disk : d.base \in Nat /\ d.tmp \in Nat /\ d \in Names
        /\ next \in Nat \ {0} /\ next \in 1 .. MaxSaves + 1 /\ MaxSaves \in Nat
        /\ dir \in disk /\ dir \in Names
    BY ReloadAssumption DEF TypeOK, InodeInv, Names, Inodes, Absent
  <1>3. \A t \in Savers : Running(t) => sv[t].ino \in Inodes /\ sv[t].ino < next /\ sv[t].ino # Absent
    BY <1>2 DEF InodeInv, Inodes, Absent
  <1>4. \A t \in Savers \ {s} : Running(t) => file'[sv[t].ino] = file[sv[t].ino]
    BY <1>1, <1>3 DEF InodeInv
  <1>5. InodeInv'
    <2>1. dir' \in disk'
      BY DirMoves
    <2>2. dir'.base < next /\ dir'.tmp < next
      <3>1. dir.base < next /\ dir.tmp < next /\ sv[s].ino < next /\ Absent < next
        BY <1>1, <1>2, <1>3 DEF InodeInv, Absent
      <3>2. CASE UNCHANGED dir
        BY <3>1, <3>2
      <3>3. CASE dir' = [dir EXCEPT !.tmp = sv[s].ino]
        BY <1>2, <3>1, <3>3 DEF Names
      <3>4. CASE dir' = [base |-> dir.tmp, tmp |-> Absent]
        BY <3>1, <3>4
      <3>5. CASE dir' = [dir EXCEPT !.tmp = Absent]
        BY <1>2, <3>1, <3>5 DEF Names
      <3> QED  BY <3>2, <3>3, <3>4, <3>5, DirMoves
    <2>3. \A d \in disk' : d.base < next' /\ d.tmp < next'
      <3>1. disk' \subseteq disk \cup {dir'}
        BY DirMoves
      <3> QED  BY <1>1, <2>2, <3>1 DEF InodeInv
    <2>4. \A t \in Savers : Running(t)' => Running(t) /\ sv'[t].ino = sv[t].ino
      BY <1>1 DEF Running
    <2> QED
      <3>1. \A t \in Savers : Running(t)' => sv'[t].ino \in 1 .. next' - 1
        BY <1>1, <2>4 DEF InodeInv
      <3>2. \A t, u \in Savers : t # u /\ Running(t)' /\ Running(u)' => sv'[t].ino # sv'[u].ino
        BY <2>4 DEF InodeInv
      <3> QED  BY <2>1, <2>3, <3>1, <3>2 DEF InodeInv, Running
  <1>6. SaveInv'
    <2> SUFFICES ASSUME NEW t \in Savers
                 PROVE  /\ sv'[t].pc \in {"sync", "check", "recheck", "rename"} /\ ~sv'[t].werr =>
                              file'[sv'[t].ino].full
                        /\ sv'[t].pc \in {"check", "recheck", "rename"} /\ ~sv'[t].werr =>
                              file'[sv'[t].ino].synced
                        /\ sv'[t].pc = "create" => sv'[t].k = 1
                        /\ sv'[t].pc = "rename" => ~sv'[t].werr
      BY DEF SaveInv, AboutToRename
    <2>1. CASE t # s
      BY <1>1, <1>4, <2>1 DEF SaveInv, Running, AboutToRename
    <2>2. CASE t = s
      <3>1. CASE sv'[s].pc = "rename"
        BY <1>1, <2>2, <3>1, PlaceMoves DEF SaveInv, AboutToRename
      <3>2. CASE sv'[s].pc = "recheck"
        BY <1>1, <2>2, <3>2, PlaceMoves DEF SaveInv
      <3>3. CASE sv'[s].pc = "check"
        BY <1>1, <2>2, <3>3, PlaceMoves DEF SaveInv
      <3>4. CASE sv'[s].pc = "sync"
        BY <1>1, <2>2, <3>4, PlaceMoves DEF SaveInv
      <3>5. sv'[s].pc # "create"
        BY PlaceMoves DEF Writing
      <3> QED  BY <2>2, <3>1, <3>2, <3>3, <3>4, <3>5
    <2> QED  BY <2>1, <2>2
  <1>7. WholeInv'
    <2> SUFFICES ASSUME ~raced'
                 PROVE  /\ \A d \in disk' :
                              /\ d.base # Absent => file'[d.base].full /\ file'[d.base].synced
                              /\ \A t \in Savers : Writing(t)' => sv'[t].ino # d.base
                        /\ \A t \in Savers : AboutToRename(t)' => StillOurs(t)'
      BY DEF WholeInv, Whole, Writing, AboutToRename, StillOurs
    <2>0. ~raced
      BY <1>1
    <2>1. ASSUME NEW d \in disk PROVE (d.base # Absent => file'[d.base].full /\ file'[d.base].synced)
                                      /\ \A t \in Savers : Writing(t)' => sv'[t].ino # d.base
      <3>1. d.base # Absent => file'[d.base] = file[d.base]
        <4>1. CASE file' = file
          BY <4>1
        <4>2. CASE file' # file
          <5>1. sv[s].ino # d.base
            BY <2>0, <2>1, <4>2, PlaceMoves DEF WholeInv
          <5>2. d.base # Absent => d.base \in Inodes
            BY <1>2, <2>1 DEF Names
          <5> QED  BY <1>1, <5>1, <5>2
        <4> QED  BY <4>1, <4>2
      <3>2. \A t \in Savers : Writing(t)' => Writing(t) /\ sv'[t].ino = sv[t].ino
        BY <1>1, PlaceMoves DEF Writing
      <3> QED  BY <2>0, <2>1, <3>1, <3>2 DEF WholeInv, Whole
    <2>2. ~RenameTmp(s) => dir'.base = dir.base
      BY <1>2, DirMoves DEF Names
    <2>3. RenameTmp(s) =>
             /\ dir'.base = sv[s].ino /\ file'[sv[s].ino].full /\ file'[sv[s].ino].synced
             /\ \A t \in Savers : Writing(t)' => sv'[t].ino # sv[s].ino
      <3> SUFFICES ASSUME RenameTmp(s)
                   PROVE  /\ dir'.base = sv[s].ino /\ file'[sv[s].ino].full
                          /\ file'[sv[s].ino].synced
                          /\ \A t \in Savers : Writing(t)' => sv'[t].ino # sv[s].ino
        OBVIOUS
      <3>1. /\ AboutToRename(s) /\ StillOurs(s) /\ ~sv[s].werr /\ file' = file
            /\ dir' = [base |-> dir.tmp, tmp |-> Absent]
        BY <2>0 DEF RenameTmp, SetDir, WholeInv, SaveInv
      <3>2. dir'.base = sv[s].ino /\ file'[sv[s].ino].full /\ file'[sv[s].ino].synced
        BY <3>1 DEF StillOurs, SaveInv, AboutToRename
      <3>3. sv'[s].pc = "dirsync"
        BY PlaceMoves
      <3>4. \A t \in Savers : Writing(t)' => t # s /\ Running(t) /\ sv'[t].ino = sv[t].ino
        BY <1>1, <3>3 DEF Writing, Running
      <3> QED  BY <1>1, <3>2, <3>4 DEF InodeInv
    <2>4. (dir'.base # Absent => file'[dir'.base].full /\ file'[dir'.base].synced)
          /\ \A t \in Savers : Writing(t)' => sv'[t].ino # dir'.base
      <3>1. CASE RenameTmp(s)
        BY <2>3, <3>1
      <3>2. CASE ~RenameTmp(s)
        BY <1>2, <2>1, <2>2, <3>2
      <3> QED  BY <3>1, <3>2
    <2>5. ASSUME NEW t \in Savers, AboutToRename(t)' PROVE StillOurs(t)'
      <3>1. CASE t = s
        BY <1>1, <2>5, <3>1, PlaceMoves DEF AboutToRename, StillOurs
      <3>2. CASE t # s
        <4>1. AboutToRename(t) /\ sv'[t] = sv[t] /\ StillOurs(t) /\ Running(t)
          BY <1>1, <2>0, <2>5, <3>2 DEF WholeInv, AboutToRename, Running
        <4>2. dir.tmp = sv[t].ino /\ dir.tmp # Absent /\ dir.tmp # sv[s].ino
          BY <1>1, <1>3, <3>2, <4>1 DEF StillOurs, InodeInv
        <4>3. ~RenameTmp(s)
          BY <2>0, <4>2 DEF RenameTmp, WholeInv, StillOurs
        <4>4. dir' = dir
          BY <3>2, <4>1, <4>2, <4>3, DirMoves
        <4> QED  BY <4>1, <4>4 DEF StillOurs
      <3> QED  BY <3>1, <3>2
    <2>6. disk' \subseteq disk \cup {dir'}
      BY DirMoves
    <2> QED  BY <2>1, <2>4, <2>5, <2>6
  <1> QED  BY <1>5, <1>6, <1>7

\* The operator removes tmp.
LEMMA RemoveFile ==
  ASSUME TypeOK, InodeInv, SaveInv, WholeInv, RemoveTmp
  PROVE  InodeInv' /\ SaveInv' /\ WholeInv'
  <1>1. /\ UNCHANGED <<file, next, sv>> /\ dir' = [dir EXCEPT !.tmp = Absent]
        /\ disk' = disk \cup {dir'} /\ (raced => raced')
        /\ ~raced' => \A t \in Savers : ~AboutToRename(t)
    BY DEF RemoveTmp, UnlinkTmp, SetDir
  <1>2. dir' \in Names /\ dir'.base = dir.base /\ dir'.tmp = Absent /\ Absent < next
        /\ dir \in disk
    BY <1>1, ReloadAssumption DEF TypeOK, InodeInv, Names, Absent
  <1>3. InodeInv'
    BY <1>1, <1>2 DEF InodeInv, Running
  <1>4. SaveInv'
    BY <1>1 DEF SaveInv, AboutToRename
  <1>5. WholeInv'
    <2> SUFFICES ASSUME ~raced'
                 PROVE  /\ \A d \in disk' :
                              /\ d.base # Absent => file'[d.base].full /\ file'[d.base].synced
                              /\ \A t \in Savers : Writing(t)' => sv'[t].ino # d.base
                        /\ \A t \in Savers : ~AboutToRename(t)'
      BY DEF WholeInv, Whole, Writing, AboutToRename, StillOurs
    <2>1. \A d \in disk : /\ d.base # Absent => file[d.base].full /\ file[d.base].synced
                          /\ \A t \in Savers : Writing(t) => sv[t].ino # d.base
      BY <1>1 DEF WholeInv, Whole
    <2>2. \A d \in disk' : \E e \in disk : d.base = e.base
      BY <1>1, <1>2
    <2>3. \A t \in Savers : (Writing(t)' <=> Writing(t)) /\ ~AboutToRename(t)'
      BY <1>1 DEF Writing, AboutToRename
    <2> QED  BY <1>1, <2>1, <2>2, <2>3
  <1> QED  BY <1>3, <1>4, <1>5

\* A power loss keeps a version of the directory, and what was synced.
LEMMA CrashFile ==
  ASSUME TypeOK, InodeInv, SaveInv, WholeInv, Crash
  PROVE  /\ InodeInv' /\ SaveInv' /\ WholeInv' /\ dir' \in disk /\ disk' = {dir'}
         /\ ~raced /\ dir'.base # Absent => file'[dir'.base] = file[dir'.base]
  <1>1. /\ dir' \in disk /\ disk' = {dir'} /\ UNCHANGED <<next, raced>>
        /\ \A s \in Savers : sv'[s].pc = "off"
    BY DEF Crash, Off
  <1>2. PICK cut \in SUBSET {i \in Inodes : ~file[i].synced} :
           file' = [i \in Inodes |-> IF i \in cut THEN EmptyFile ELSE file[i]]
    BY DEF Crash
  <1>3. dir'.base # Absent => dir'.base \in Inodes
    BY <1>1 DEF TypeOK, Names
  <1>4. ~raced /\ dir'.base # Absent => file'[dir'.base] = file[dir'.base]
    BY <1>1, <1>2, <1>3 DEF WholeInv, Whole
  <1>5. InodeInv'
    BY <1>1 DEF InodeInv, Running
  <1>6. SaveInv'
    BY <1>1 DEF SaveInv, AboutToRename
  <1>7. WholeInv'
    BY <1>1, <1>4 DEF WholeInv, Whole, Writing, AboutToRename
  <1> QED  BY <1>1, <1>4, <1>5, <1>6, <1>7

\* Which steps leave the files and the saves alone.
Quiet == UNCHANGED <<fs, sv, raced>>

\* All steps but those of the saves, of RemoveTmp and of a power loss.
LEMMA QuietIs ==
  /\ ModuleNext => Quiet
  /\ ScriptNext => StartWithModule \/ Quiet
  /\ OperatorNext => RemoveTmp \/ Quiet
  /\ UNCHANGED vars => Quiet
  <1>1. ModuleNext => Quiet
    BY DEF ModuleNext, InitStage, InitFails, Undo, Event, WorkDone, Quiet, ghosts
  <1>2. ScriptNext => StartWithModule \/ Quiet
    BY DEF ScriptNext, StartWithoutModule, SaveReturns, Rmmod, RmmodFails, Insmod,
         InsmodReturns, OpenStateFails, LoadEntry, LoadPolicy, LoadStops, LoadReturns, Finish,
         Quiet, ghosts
  <1>3. OperatorNext => RemoveTmp \/ Quiet
    BY DEF OperatorNext, AddOrDelSignature, do_trust, do_protect, do_policy, Add, Del, Command,
         Quiet
  <1>4. UNCHANGED vars => Quiet
    BY DEF vars, Quiet, ghosts
  <1> QED  BY <1>1, <1>2, <1>3, <1>4

\* Every step keeps the types.
LEMMA TypeStep ==
  ASSUME TypeOK, InodeInv, StageInv, [Next]_vars PROVE TypeOK'
  <1>0. KernelType /\ FsType /\ SvType /\ ScriptType /\ GhostType
    BY TypeSplit
  <1>1. CASE ModuleNext
    BY <1>0, <1>1, ModuleType, TypeSplit
  <1>2. ASSUME NEW s \in Savers, SaveNext(s) PROVE TypeOK'
    <2>1. CASE OperatorSaves(s)
      <3>1. FsType' /\ SvType'
        BY <1>0, <2>1, BeginType DEF OperatorSaves
      <3>2. KernelType' /\ ScriptType' /\ GhostType'
        BY <1>0, <2>1 DEF OperatorSaves, KernelType, ScriptType, GhostType, kernel, script, ghosts
      <3> QED  BY <3>1, <3>2, TypeSplit
    <2>2. CASE ~OperatorSaves(s)
      BY <1>2, <2>2, FrameIs DEF Frame
    <2> QED  BY <2>1, <2>2
  <1>3. CASE ScriptNext
    BY <1>0, <1>3, ScriptTypeStep, TypeSplit
  <1>4. CASE OperatorNext
    BY <1>0, <1>4, OperatorType, TypeSplit
  <1>5. CASE Crash
    BY <1>0, <1>5, CrashType, TypeSplit
  <1>6. CASE UNCHANGED vars
    <2>1. KernelType' /\ FsType' /\ SvType' /\ ScriptType' /\ GhostType'
      BY <1>0, <1>6 DEF vars, KernelType, FsType, SvType, ScriptType, GhostType, kernel, fs,
           script, ghosts
    <2> QED  BY <2>1, TypeSplit
  <1> QED  BY <1>1, <1>2, <1>3, <1>4, <1>5, <1>6 DEF Next

\* Every step keeps the state file whole.
LEMMA FileStep ==
  ASSUME FileInv, StageInv, [Next]_vars PROVE FileInv'
  <1>0. TypeOK /\ InodeInv /\ SaveInv /\ WholeInv
    BY DEF FileInv
  <1>1. InodeInv' /\ SaveInv' /\ WholeInv'
    <2>1. CASE Quiet
      BY <1>0, <2>1, FileFrame DEF Quiet
    <2>2. ASSUME NEW s \in Savers, SaveNext(s) PROVE InodeInv' /\ SaveInv' /\ WholeInv'
      <3>1. CASE OperatorSaves(s)
        BY <1>0, <3>1, BeginFile DEF OperatorSaves, ghosts
      <3>2. CASE ~OperatorSaves(s)
        BY <1>0, <2>2, <3>2, SaveFile
      <3> QED  BY <3>1, <3>2
    <2>3. CASE StartWithModule
      BY <1>0, <2>3, BeginFile, ReloadAssumption DEF StartWithModule
    <2>4. CASE RemoveTmp
      BY <1>0, <2>4, RemoveFile
    <2>5. CASE Crash
      BY <1>0, <2>5, CrashFile
    <2> QED  BY <2>1, <2>2, <2>3, <2>4, <2>5, QuietIs DEF Next
  <1> QED  BY <1>0, <1>1, TypeStep DEF FileInv

-----------------------------------------------------------------------------
(* What the reload under way must not lose.                                *)

OwedPart == DumpInv /\ OwedInv /\ KeepInv /\ LoadInv /\ ReloadRestores

\* What is owed becomes no more.
Less == owed'.entries \subseteq owed.entries /\ owed'.policy \in {Unset, owed.policy}

\* The file side of it stays when the files and the saves do.
LEMMA OwedFrame ==
  ASSUME DumpInv, KeepInv, Quiet, Less, armed' => armed, UNCHANGED <<replaced, unsynced>>
  PROVE  DumpInv' /\ KeepInv'
  <1>1. UNCHANGED <<file, dir, disk, next, sv, raced>>
    BY DEF Quiet, fs
  <1>2. DumpInv'
    <2> SUFFICES ASSUME NEW s \in Savers, s = Script \/ sv'[Script].pc = "dirsync",
                        StillOurs(s)', ~sv'[s].werr
                 PROVE  Filled(s)'
      BY DEF DumpInv
    <2>1. Filled(s)
      BY <1>1 DEF DumpInv, StillOurs
    <2> QED  BY <1>1, <2>1 DEF Filled, Less
  <1>3. \A d : Covers(d) => Covers(d)'
    BY <1>1 DEF Covers, Less
  <1>4. KeepInv'
    <2>1. sv'[Script].pc = "dirsync" /\ ~raced' => Covers(dir)'
      BY <1>1, <1>3 DEF KeepInv, Covers
    <2>2. ASSUME armed', ~raced', ~replaced', NEW d \in IF unsynced' THEN {dir'} ELSE disk'
          PROVE  Covers(d)'
      <3>1. Covers(d)
        BY <1>1, <2>2 DEF KeepInv
      <3> QED  BY <1>3, <3>1
    <2> QED  BY <2>1, <2>2 DEF KeepInv
  <1> QED  BY <1>2, <1>4

\* The module's own steps: no reload is saving or loading meanwhile.
LEMMA ModuleOwed ==
  ASSUME PhaseInv, OwedPart, ModuleNext PROVE OwedPart'
  <1>1. UNCHANGED <<script, ghosts, sv>> /\ Quiet
    BY QuietIs DEF ModuleNext, InitStage, InitFails, Undo, Event, WorkDone
  <1>2. DumpInv' /\ KeepInv'
    BY <1>1, OwedFrame DEF OwedPart, Less, ghosts
  <1>3. sh \in {"save", "rmmod", "load", "done"} => UNCHANGED <<entries, policy>>
    BY DEF PhaseInv, ModuleNext, InitStage, InitFails, Undo, Event, WorkDone
  <1>4. OwedInv' /\ LoadInv' /\ ReloadRestores'
    BY <1>1, <1>3 DEF OwedPart, OwedInv, LoadInv, ReloadRestores, script, ghosts, Running
  <1> QED  BY <1>2, <1>4 DEF OwedPart

\* The operator's edits: what is deleted or set anew is owed no longer.
LEMMA OperatorOwed ==
  ASSUME TypeOK, InodeInv, OwedPart, OperatorNext PROVE OwedPart'
  <1>0. owed \in Dumps /\ Script \in Savers
    BY ReloadAssumption DEF TypeOK
  <1>1. ASSUME NEW k \in 1 .. 3, Add(k) PROVE OwedPart'
    <2>1. UNCHANGED <<fs, sv, script, ghosts, policy>> /\ entries \subseteq entries'
      BY <1>1 DEF Add, Command, ghosts
    <2>2. DumpInv' /\ KeepInv'
      BY <2>1, OwedFrame DEF OwedPart, Less, ghosts, Quiet
    <2>3. OwedInv' /\ LoadInv' /\ ReloadRestores'
      BY <2>1 DEF OwedPart, OwedInv, LoadInv, ReloadRestores, script, ghosts, Running
    <2> QED  BY <2>2, <2>3 DEF OwedPart
  <1>2. ASSUME NEW k \in 1 .. 3, Del(k) PROVE OwedPart'
    <2>1. PICK e : /\ entries' = entries \ {e} /\ owed' = [owed EXCEPT !.entries = @ \ {e}]
      BY <1>2 DEF Del
    <2>2. UNCHANGED <<fs, sv, script, policy, armed, raced, replaced, unsynced>>
      BY <1>2 DEF Del, Command
    <2>3. owed'.entries = owed.entries \ {e} /\ owed'.policy = owed.policy
      BY <1>0, <2>1 DEF Dumps
    <2>4. DumpInv' /\ KeepInv'
      BY <2>2, <2>3, OwedFrame DEF OwedPart, Less, Quiet
    <2>5. owed = Nothing => owed' = Nothing
      BY <2>1 DEF Nothing
    <2>6. OwedInv'
      BY <2>1, <2>2, <2>3, <2>5 DEF OwedPart, OwedInv, script, Running
    <2>7. LoadInv' /\ ReloadRestores'
      BY <2>1, <2>2, <2>3 DEF OwedPart, LoadInv, ReloadRestores, script
    <2> QED  BY <2>4, <2>6, <2>7 DEF OwedPart
  <1>3. CASE do_policy
    <2>1. owed' = [owed EXCEPT !.policy = Unset]
          /\ UNCHANGED <<fs, sv, script, entries, armed, raced, replaced, unsynced>>
      BY <1>3 DEF do_policy, Command
    <2>2. owed'.entries = owed.entries /\ owed'.policy = Unset
      BY <1>0, <2>1 DEF Dumps
    <2>3. DumpInv' /\ KeepInv'
      BY <2>1, <2>2, OwedFrame DEF OwedPart, Less, Quiet
    <2>4. owed = Nothing => owed' = Nothing
      BY <2>1 DEF Nothing
    <2>5. OwedInv' /\ LoadInv' /\ ReloadRestores'
      BY <2>1, <2>2, <2>4 DEF OwedPart, OwedInv, LoadInv, ReloadRestores, script, Running
    <2> QED  BY <2>3, <2>5 DEF OwedPart
  <1>4. CASE RemoveTmp
    <2>1. /\ UNCHANGED <<kernel, file, sv, script, owed, armed, replaced, unsynced>>
          /\ dir' = [dir EXCEPT !.tmp = Absent] /\ disk' = disk \cup {dir'} /\ (raced => raced')
      BY <1>4 DEF RemoveTmp, UnlinkTmp, SetDir
    <2>2. dir'.base = dir.base /\ dir'.tmp = Absent /\ dir \in disk
      BY <2>1 DEF TypeOK, InodeInv, Names
    <2>3. DumpInv'
      <3> SUFFICES ASSUME NEW s \in Savers, StillOurs(s)' PROVE Filled(s)'
        BY DEF DumpInv
      <3>1. ~Running(s)
        BY <2>1, <2>2 DEF StillOurs, InodeInv, Absent
      <3> QED  BY <2>1, <3>1 DEF Filled, Running
    <2>4. KeepInv'
      <3>1. \A d : Covers(d)' <=> Covers(d)
        BY <2>1 DEF Covers
      <3>2. Covers(dir) => Covers(dir')
        BY <2>2 DEF Covers
      <3>3. Covers(dir)' <=> Covers(dir')
        BY <2>1 DEF Covers
      <3>4. sv'[Script].pc = "dirsync" /\ ~raced' => Covers(dir)'
        BY <2>1, <3>2, <3>3 DEF OwedPart, KeepInv
      <3>5. ASSUME armed', ~raced', ~replaced', NEW d \in IF unsynced' THEN {dir'} ELSE disk'
            PROVE  Covers(d)'
        <4>1. Covers(dir)
          BY <2>1, <2>2, <3>5 DEF OwedPart, KeepInv
        <4>2. d \in disk /\ ~unsynced => Covers(d)
          BY <2>1, <3>5 DEF OwedPart, KeepInv
        <4> QED  BY <2>1, <3>1, <3>2, <3>5, <4>1, <4>2
      <3> QED  BY <3>4, <3>5 DEF KeepInv
    <2>5. OwedInv' /\ LoadInv' /\ ReloadRestores'
      BY <2>1 DEF OwedPart, OwedInv, LoadInv, ReloadRestores, script, kernel, Running
    <2> QED  BY <2>3, <2>4, <2>5 DEF OwedPart
  <1> QED
    BY <1>1, <1>2, <1>3, <1>4 DEF OperatorNext, AddOrDelSignature, do_trust, do_protect

\* A power loss: what is owed is in every version of the state file.
LEMMA CrashOwed ==
  ASSUME TypeOK, InodeInv, SaveInv, WholeInv, OwedPart, Crash PROVE OwedPart'
  <1>0. /\ armed' = (armed /\ ~unsynced) /\ owed' = IF armed' THEN owed ELSE Nothing
        /\ sh' = "idle" /\ UNCHANGED <<raced, replaced>> /\ unsynced' = FALSE
        /\ \A s \in Savers : sv'[s].pc = "off"
        /\ Script \in Savers
    BY ReloadAssumption DEF Crash, Off
  <1>1. DumpInv'
    BY <1>0 DEF DumpInv, Filled
  <1>2. OwedInv'
    BY <1>0 DEF OwedInv, Running
  <1>3. KeepInv'
    <2> SUFFICES ASSUME armed', ~raced', ~replaced', NEW d \in disk' PROVE Covers(d)'
      BY <1>0 DEF KeepInv
    <2>1. d = dir' /\ d \in disk
      BY CrashFile
    <2>2. Covers(d) /\ owed' = owed
      BY <1>0, <2>1 DEF OwedPart, KeepInv
    <2>3. file'[d.base] = file[d.base]
      BY <1>0, <2>1, <2>2, CrashFile DEF Covers
    <2> QED  BY <2>2, <2>3 DEF Covers
  <1>4. LoadInv' /\ ReloadRestores'
    BY <1>0 DEF LoadInv, ReloadRestores
  <1> QED  BY <1>1, <1>2, <1>3, <1>4 DEF OwedPart

\* The steps of the script.
LEMMA ScriptOwed ==
  ASSUME TypeOK, InodeInv, PhaseInv, OwedPart, ScriptNext PROVE OwedPart'
  <1>0. owed \in Dumps /\ todo \in Replays /\ Script \in Savers /\ dir \in disk
        /\ Nothing.entries = {} /\ Nothing.policy = Unset
    BY ReloadAssumption DEF TypeOK, InodeInv, Nothing
  <1>1. CASE StartWithModule
    <2>1. /\ sh' = "save" /\ owed' = [entries |-> entries, policy |-> policy] /\ armed' = FALSE
          /\ UNCHANGED <<entries, policy>>
      BY <1>1 DEF StartWithModule, kernel
    <2>2. sv'[Script].pc = "create" /\ sv'[Script].ok = FALSE
      BY <1>0, <1>1, TypeSplit DEF StartWithModule, BeginSave, Off, SvType
    <2>3. DumpInv'
      BY <2>2 DEF DumpInv, Filled
    <2>4. OwedInv'
      BY <2>1, <2>2 DEF OwedInv, Running
    <2>5. KeepInv' /\ LoadInv' /\ ReloadRestores'
      BY <2>1, <2>2 DEF KeepInv, LoadInv, ReloadRestores
    <2> QED  BY <2>3, <2>4, <2>5 DEF OwedPart
  <1>2. CASE ~StartWithModule
    <2>0. Quiet /\ UNCHANGED sv
      BY <1>2, QuietIs DEF Quiet
    <2>1. Less /\ (armed' => armed) /\ UNCHANGED <<replaced, unsynced>>
      <3>1. owed' = owed \/ owed' = Nothing
        BY <1>2 DEF ScriptNext, StartWithoutModule, SaveReturns, Rmmod, RmmodFails, Insmod,
             InsmodReturns, OpenStateFails, LoadEntry, LoadPolicy, LoadStops, LoadReturns,
             Finish, ghosts
      <3>2. (armed' => armed) /\ UNCHANGED <<replaced, unsynced>>
        <4>1. CASE Finish \/ RmmodFails
          BY <4>1 DEF Finish, RmmodFails
        <4>2. CASE ~(Finish \/ RmmodFails)
          <5>1. UNCHANGED <<armed, replaced, unsynced>>
            BY <1>2, <4>2 DEF ScriptNext, StartWithoutModule, SaveReturns, Rmmod, Insmod,
                 InsmodReturns, OpenStateFails, LoadEntry, LoadPolicy, LoadStops,
                 LoadReturns, ghosts
          <5> QED  BY <5>1
        <4> QED  BY <4>1, <4>2
      <3> QED  BY <1>0, <3>1, <3>2 DEF Less
    <2>2. DumpInv' /\ KeepInv'
      BY <2>0, <2>1, OwedFrame DEF OwedPart
    <2>3. OwedInv /\ LoadInv /\ ReloadRestores
      BY DEF OwedPart
    <2>4. raced' = raced
      BY <2>0 DEF Quiet
    <2>5. OwedInv' /\ LoadInv' /\ ReloadRestores'
      <3> USE DEF OwedInv, LoadInv, ReloadRestores, Running
      <3>1. CASE StartWithoutModule \/ Rmmod \/ Insmod
        BY <2>0, <2>3, <3>1 DEF StartWithoutModule, Rmmod, Insmod, ghosts
      <3>2. CASE SaveReturns
        <4>1. /\ sh = "save" /\ sv[Script].pc = "off" /\ UNCHANGED <<entries, policy, armed>>
              /\ sv[Script].ok => sh' = "rmmod" /\ owed' = owed
              /\ ~sv[Script].ok => sh' = "failed" /\ owed' = Nothing
          BY <3>2 DEF SaveReturns, kernel
        <4> QED  BY <2>0, <2>3, <4>1
      <3>3. CASE RmmodFails
        BY <2>0, <2>3, <3>3 DEF RmmodFails
      <3>4. CASE InsmodReturns
        <4>1. UNCHANGED <<entries, policy, owed, armed, replaced>> /\ sh = "insmod"
              /\ sh' \in {"failed", "done", "load"}
          BY <3>4 DEF InsmodReturns, kernel, ghosts
        <4>2. OwedInv'
          BY <2>0, <2>3, <4>1
        <4>3. ~raced /\ ~replaced => owed = Nothing \/ Covers(dir)
          BY <1>0, <2>3, <4>1 DEF OwedPart, KeepInv
        <4>4. ReloadRestores'
          <5> SUFFICES ASSUME sh' = "done", ~raced, ~replaced
                       PROVE  owed = Nothing
            BY <1>0, <2>4, <4>1
          <5>1. dir.base = Absent
            BY <3>4 DEF InsmodReturns
          <5> QED  BY <4>3, <5>1 DEF Covers
        <4>5. LoadInv'
          <5> SUFFICES ASSUME sh' = "load", ~raced, ~replaced
                       PROVE  /\ owed.entries \subseteq todo'.entries \cup todo'.missed
                              /\ owed.policy \in {Unset, todo'.policy} \cup todo'.missed
            BY <2>4, <4>1
          <5>1. todo' = [entries |-> file[dir.base].entries, policy |-> file[dir.base].policy,
                         missed |-> file[dir.base].missed]
            BY <3>4 DEF InsmodReturns
          <5> QED  BY <1>0, <4>3, <5>1 DEF Covers
        <4> QED  BY <4>2, <4>4, <4>5
      <3>5. CASE LoadEntry
        <4>1. PICK e \in todo.entries : LoadOne(e)
          BY <3>5, LoadEntryIs
        <4>2. /\ UNCHANGED <<policy, sh, owed, armed, replaced>> /\ sh = "load"
          BY <3>5 DEF LoadEntry, ghosts
        <4>3. /\ todo'.entries = todo.entries \ {e} /\ todo'.policy = todo.policy
              /\ todo'.missed = todo.missed
          BY <1>0, <4>1 DEF LoadOne, Replays
        <4>4. ~errors' => ~errors /\ e \in entries' /\ entries \subseteq entries'
          BY <4>1 DEF LoadOne, Skipped
        <4>5. OwedInv' /\ ReloadRestores'
          BY <2>0, <2>3, <4>2
        <4>6. LoadInv'
          BY <2>3, <2>4, <4>2, <4>3, <4>4
        <4> QED  BY <4>5, <4>6
      <3>6. CASE LoadPolicy
        <4>1. /\ UNCHANGED <<entries, sh, owed, armed, replaced>> /\ sh = "load"
              /\ todo.entries = {} /\ todo.policy # Unset
              /\ todo' = [todo EXCEPT !.policy = Unset]
          BY <3>6 DEF LoadPolicy, ghosts
        <4>5. todo'.entries = {} /\ todo'.policy = Unset /\ todo'.missed = todo.missed
          BY <1>0, <4>1 DEF Replays
        <4>2. ~errors' => ~errors /\ policy' = todo.policy
          BY <3>6 DEF LoadPolicy
        <4>3. OwedInv' /\ ReloadRestores'
          BY <2>0, <2>3, <4>1
        <4>4. LoadInv'
          BY <1>0, <2>3, <2>4, <4>1, <4>2, <4>5
        <4> QED  BY <4>3, <4>4
      <3>7. CASE LoadReturns
        <4>1. /\ UNCHANGED <<entries, policy, owed, armed, replaced, todo>> /\ sh = "load"
              /\ todo.entries = {} /\ todo.policy = Unset
              /\ sh' \in {"failed", "done"} /\ (sh' = "done" => ~errors)
          BY <3>7 DEF LoadReturns, ghosts, kernel
        <4> QED  BY <1>0, <2>0, <2>3, <2>4, <4>1
      <3>8. CASE Finish
        <4>1. /\ UNCHANGED <<entries, policy, replaced>> /\ sh \in {"done", "failed"}
              /\ sh' = "idle"
              /\ sh = "done" => owed' = Nothing
              /\ sh = "failed" => owed' = owed /\ (armed => armed')
          BY <3>8 DEF Finish, kernel
        <4> QED  BY <2>0, <2>3, <4>1
      <3>9. CASE OpenStateFails
        <4>1. /\ UNCHANGED <<owed, armed>> /\ sh = "insmod" /\ sh' = "failed"
          BY <3>9 DEF OpenStateFails, ghosts
        <4> QED  BY <2>0, <2>3, <4>1
      <3>10. CASE LoadStops
        <4>1. /\ UNCHANGED <<entries, policy, owed, armed, replaced, sh, errors>> /\ sh = "load"
              /\ todo' = [NothingToDo EXCEPT
                            !.missed = todo.missed \cup todo.entries \cup {todo.policy}]
          BY <3>10 DEF LoadStops, ghosts, kernel
        <4>2. /\ todo'.missed = todo.missed \cup todo.entries \cup {todo.policy}
              /\ todo'.policy = Unset
          BY <4>1 DEF NothingToDo
        <4>3. OwedInv' /\ ReloadRestores'
          BY <2>0, <2>3, <4>1
        <4>4. LoadInv'
          BY <2>3, <2>4, <4>1, <4>2
        <4> QED  BY <4>3, <4>4
      <3> QED
        BY <1>2, <3>1, <3>2, <3>3, <3>4, <3>5, <3>6, <3>7, <3>8, <3>9, <3>10 DEF ScriptNext
    <2> QED  BY <2>2, <2>5 DEF OwedPart
  <1> QED  BY <1>1, <1>2

\* The steps of the saves.
LEMMA BeginOwed ==
  ASSUME TypeOK, InodeInv, OwedPart, NEW s \in Savers, OperatorSaves(s) PROVE OwedPart'
  <1>1. /\ s # Script /\ UNCHANGED <<file, dir, disk, kernel, script, ghosts>>
        /\ \A t \in Savers \ {s} : sv'[t] = sv[t]
        /\ sv'[s].pc = "create" /\ Script \in Savers
    BY TypeSplit, ReloadAssumption DEF OperatorSaves, BeginSave, Off, SvType
  <1>2. DumpInv'
    <2> SUFFICES ASSUME NEW t \in Savers, t = Script \/ sv'[Script].pc = "dirsync",
                        StillOurs(t)', ~sv'[t].werr
                 PROVE  Filled(t)'
      BY DEF DumpInv
    <2>1. CASE t = s
      BY <1>1, <2>1 DEF Filled
    <2>2. CASE t # s
      <3>1. Filled(t)
        BY <1>1, <2>2 DEF OwedPart, DumpInv, StillOurs
      <3> QED  BY <1>1, <2>2, <3>1 DEF Filled, ghosts
    <2> QED  BY <2>1, <2>2
  <1>3. KeepInv'
    BY <1>1 DEF OwedPart, KeepInv, Covers, ghosts
  <1>4. OwedInv' /\ LoadInv' /\ ReloadRestores'
    BY <1>1 DEF OwedPart, OwedInv, LoadInv, ReloadRestores, Running, ghosts, script, kernel
  <1> QED  BY <1>2, <1>3, <1>4 DEF OwedPart

\* A running save: what it dumps holds what is owed, so installing it loses
\* nothing.
LEMMA SaveOwed ==
  ASSUME TypeOK, InodeInv, SaveInv, WholeInv, OwedPart, NEW s \in Savers, SaveNext(s),
         ~OperatorSaves(s)
  PROVE  OwedPart'
  <1>1. /\ Running(s) /\ UNCHANGED <<kernel, script, owed>>
        /\ \A t \in Savers \ {s} : sv'[t] = sv[t]
        /\ sv'[s].pc # "off" => sv'[s].ino = sv[s].ino
        /\ \A i \in Inodes \ {sv[s].ino} : file'[i] = file[i]
        /\ (raced => raced') /\ (replaced => replaced')
    BY FrameIs DEF Frame
  <1>2. /\ DumpInv /\ OwedInv /\ KeepInv /\ LoadInv /\ ReloadRestores /\ Script \in Savers
        /\ owed \in Dumps /\ owed.entries \subseteq Entries
    BY ReloadAssumption DEF OwedPart, TypeOK, Dumps
  <1>3. /\ \A t \in Savers : Running(t) => sv[t].ino \in Inodes /\ sv[t].ino # Absent
        /\ dir \in disk /\ \A d \in disk : d \in Names
        /\ Absent \notin Inodes
    BY ReloadAssumption DEF TypeOK, InodeInv, Inodes, Absent
  <1>4. \A t \in Savers \ {s} : Running(t) =>
           /\ sv[t].ino # sv[s].ino /\ file'[sv[t].ino] = file[sv[t].ino]
    BY <1>1, <1>3 DEF InodeInv
  <1>5. LoadInv' /\ ReloadRestores'
    BY <1>1, <1>2 DEF LoadInv, ReloadRestores, kernel, script
  <1>6. ~SyncDir(s) => armed' = armed /\ unsynced' = unsynced
    BY DEF SaveNext, CreateFails, CreateTmp, DumpTable, save_abort, SyncTmp, CheckTmp, Recheck,
         RenameTmp, RenameFails, CleanUp, KillSave, ghosts
  <1>7. OwedInv'
    <2>1. sh \in {"save", "rmmod"} => owed.entries \subseteq entries
                                      /\ owed.policy \in {Unset, policy}
      BY <1>2 DEF OwedInv
    <2>2. CASE SyncDir(s)
      <3>1. armed' = (armed \/ s = Script) /\ sv'[s].pc = "off"
        BY <1>1, <2>2, TypeSplit DEF SyncDir, Exit, Off, SvType
      <3> QED  BY <1>1, <1>2, <2>1, <3>1 DEF OwedInv, Running, kernel, script
    <2>3. CASE ~SyncDir(s)
      <3>1. sv'[Script].ok => sv[Script].ok
        BY <1>1, <1>2, <2>3, PlaceMoves
      <3>2. Running(Script)' => Running(Script)
        BY <1>1, <1>2 DEF Running
      <3> QED  BY <1>1, <1>2, <1>6, <2>1, <2>3, <3>1, <3>2 DEF OwedInv, kernel, script
    <2> QED  BY <2>2, <2>3
  <1>8. DumpInv'
    <2> SUFFICES ASSUME NEW t \in Savers, t = Script \/ sv'[Script].pc = "dirsync",
                        StillOurs(t)', ~sv'[t].werr, sv'[t].pc # "off"
                 PROVE  Filled(t)'
      BY DEF DumpInv, Filled
    <2>1. ~RenameTmp(s)
      BY <1>1, <1>3, DirMoves DEF RenameTmp, SetDir, StillOurs, Running
    <2>2. t = Script \/ sv[Script].pc = "dirsync"
      BY <1>1, <1>2, <2>1, PlaceMoves
    <2>3. Running(t) /\ sv'[t].ino = sv[t].ino
      BY <1>1 DEF Running
    <2>4. CASE t # s
      <3>1. dir'.tmp = sv[t].ino /\ dir'.tmp \in Inodes /\ dir'.tmp # sv[s].ino
        BY <1>3, <1>4, <2>3, <2>4 DEF StillOurs
      <3>2. dir' = dir
        BY <1>3, <2>1, <3>1, DirMoves DEF Names
      <3>3. Filled(t)
        BY <1>1, <1>2, <2>2, <2>4, <3>1, <3>2 DEF DumpInv, StillOurs
      <3> QED  BY <1>1, <1>4, <2>3, <2>4, <3>3 DEF Filled
    <2>5. CASE t = s /\ CreateTmp(s)
      <3>1. sv'[s].k = 1 /\ sv'[s].pc \in {"dump", "clean"}
        BY <2>5, PlaceMoves DEF SaveInv
      <3> QED  BY <2>5, <3>1 DEF Filled
    <2>6. CASE t = s /\ ~CreateTmp(s)
      <3>1. CASE sv'[s].pc \in {"check", "recheck", "rename"}
        <4>1. /\ dir' = dir /\ ~sv[s].werr /\ sv[s].pc \in {"sync", "check", "recheck"}
              /\ file'[sv[s].ino].entries = file[sv[s].ino].entries
              /\ file'[sv[s].ino].policy = file[sv[s].ino].policy
              /\ file'[sv[s].ino].missed = file[sv[s].ino].missed
          BY <2>6, <3>1, PlaceMoves DEF AboutToRename
        <4>2. Filled(s)
          BY <1>2, <2>2, <2>3, <2>6, <4>1 DEF DumpInv, StillOurs
        <4> QED  BY <1>1, <2>3, <2>6, <3>1, <4>1, <4>2 DEF Filled
      <3>2. CASE sv'[s].pc \in {"dump", "sync"}
        <4>1. /\ sv[s].pc = "dump" /\ ~sv[s].werr /\ dir' = dir
              /\ (sv'[s].pc = "sync") <=> (sv[s].k = 4)
              /\ sv[s].k # 4 => sv'[s].k = sv[s].k + 1
              /\ Kept(file, sv[s].ino) \cup (entries \cap Tables[sv[s].k])
                    \subseteq Kept(file', sv[s].ino)
              /\ sv[s].k = 4 => policy \in {file'[sv[s].ino].policy}
                                              \cup file'[sv[s].ino].missed
          BY <2>6, <3>2, PlaceMoves
        <4>2. \A i \in 1 .. sv[s].k - 1 :
                 owed.entries \cap Tables[i] \subseteq Kept(file, sv[s].ino)
          BY <1>2, <2>2, <2>3, <2>6, <4>1 DEF DumpInv, StillOurs, Filled, Kept
        <4>3. owed.entries \subseteq entries /\ owed.policy \in {Unset, policy}
          BY <1>1, <1>2, <2>2, <2>6 DEF OwedInv, Running
        <4>4. sv[s].k \in 1 .. 4
          BY TypeSplit DEF SvType, Save
        <4>5. \A i \in 1 .. sv[s].k :
                 owed.entries \cap Tables[i] \subseteq Kept(file', sv[s].ino)
          BY <4>1, <4>2, <4>3, <4>4
        <4>6. CASE sv[s].k # 4
          <5>1. sv'[s].k - 1 = sv[s].k /\ sv'[s].pc = "dump"
            BY <3>2, <4>1, <4>4, <4>6
          <5> QED  BY <1>1, <2>3, <2>6, <4>5, <5>1 DEF Filled, Kept
        <4>7. CASE sv[s].k = 4
          <5>1. /\ owed.entries \cap Tables[1] \subseteq Kept(file', sv[s].ino)
                /\ owed.entries \cap Tables[2] \subseteq Kept(file', sv[s].ino)
                /\ owed.entries \cap Tables[3] \subseteq Kept(file', sv[s].ino)
            BY <4>5, <4>7
          <5>2. Tables[1] = Sigs /\ Tables[2] = Trusts /\ Tables[3] = Protects
            BY DEF Tables
          <5>3. owed.entries \subseteq Kept(file', sv[s].ino)
            BY <1>2, <5>1, <5>2 DEF Entries
          <5>4. owed.policy \in {Unset, file'[sv[s].ino].policy} \cup file'[sv[s].ino].missed
            BY <4>1, <4>3, <4>7
          <5>5. sv'[s].pc = "sync" /\ owed' = owed /\ sv'[s].ino = sv[s].ino
            BY <1>1, <2>3, <2>6, <3>2, <4>1, <4>7
          <5> QED  BY <2>6, <5>3, <5>4, <5>5 DEF Filled, Kept
        <4> QED  BY <4>6, <4>7
      <3> QED  BY <2>6, <3>1, <3>2 DEF Filled
    <2> QED  BY <2>4, <2>5, <2>6
  <1>9. ~raced => \A d \in disk : d.base # Absent =>
           /\ file'[d.base].entries = file[d.base].entries
           /\ file'[d.base].policy = file[d.base].policy
           /\ file'[d.base].missed = file[d.base].missed
    <2> SUFFICES ASSUME ~raced, NEW d \in disk, d.base # Absent PROVE file'[d.base] = file[d.base]
      OBVIOUS
    <2>1. CASE file' # file
      BY <1>1, <1>3, <2>1, PlaceMoves DEF WholeInv, Names
    <2> QED  BY <2>1
  <1>10. ~raced => \A d \in disk : Covers(d) => Covers(d)'
    BY <1>1, <1>9 DEF Covers
  <1>11. ~RenameTmp(s) => dir'.base = dir.base
    BY <1>3, DirMoves DEF Names
  <1>12. ~raced /\ Covers(dir) /\ ~RenameTmp(s) => Covers(dir)'
    <2> SUFFICES ASSUME ~raced, Covers(dir), ~RenameTmp(s)
                 PROVE  /\ dir'.base # Absent
                        /\ owed'.entries \subseteq Kept(file', dir'.base)
                        /\ owed'.policy \in {Unset, file'[dir'.base].policy}
                                              \cup file'[dir'.base].missed
      BY DEF Covers, Kept
    <2> QED  BY <1>1, <1>3, <1>9, <1>11 DEF Covers, Kept
  <1>13. ASSUME sv'[Script].pc = "dirsync", ~raced' PROVE Covers(dir)'
    <2>1. CASE RenameTmp(s)
      <3>1. /\ AboutToRename(s) /\ StillOurs(s) /\ ~sv[s].werr /\ file' = file
            /\ dir' = [base |-> dir.tmp, tmp |-> Absent]
        BY <1>1, <1>13, <2>1 DEF RenameTmp, SetDir, WholeInv, SaveInv
      <3>2. s = Script \/ sv[Script].pc = "dirsync"
        BY <1>1, <1>2, <1>13
      <3>3. Filled(s)
        BY <1>2, <3>1, <3>2 DEF DumpInv
      <3>4. dir'.base = sv[s].ino /\ sv[s].ino # Absent
        BY <1>1, <1>3, <3>1 DEF StillOurs
      <3> QED  BY <1>1, <3>1, <3>3, <3>4 DEF Covers, Filled, AboutToRename
    <2>2. CASE ~RenameTmp(s)
      <3>1. sv[Script].pc = "dirsync"
        BY <1>1, <1>2, <1>13, <2>2, PlaceMoves
      <3>2. Covers(dir)
        BY <1>1, <1>2, <1>13, <3>1 DEF KeepInv
      <3> QED  BY <1>1, <1>12, <1>13, <2>2, <3>2
    <2> QED  BY <2>1, <2>2
  <1>14. ASSUME armed', ~raced', ~replaced', NEW d \in IF unsynced' THEN {dir'} ELSE disk'
         PROVE  Covers(d)'
    <2>0. ~raced /\ ~replaced /\ (d = dir' => (Covers(dir)' <=> Covers(d)'))
      BY <1>1, <1>14 DEF Covers
    <2>1. CASE SyncDir(s)
      <3>1. PICK synced \in BOOLEAN :
               /\ disk' = IF synced THEN {dir} ELSE disk
               /\ unsynced' = IF s = Script THEN ~synced ELSE unsynced
        BY <2>1 DEF SyncDir
      <3>2. sv[s].pc = "dirsync" /\ dir' = dir /\ armed' = (armed \/ s = Script) /\ ~RenameTmp(s)
        BY <2>1 DEF SyncDir, RenameTmp, AboutToRename
      <3>3. CASE s = Script
        <4>1. d = dir
          BY <1>14, <3>1, <3>2, <3>3
        <4>2. Covers(dir)
          BY <1>2, <2>0, <3>2, <3>3 DEF KeepInv
        <4> QED  BY <1>3, <1>10, <2>0, <4>1, <4>2
      <3>4. CASE s # Script
        <4>1. armed /\ d \in IF unsynced THEN {dir} ELSE disk
          BY <1>3, <1>14, <3>1, <3>2, <3>4
        <4>2. Covers(d) /\ d \in disk
          BY <1>2, <1>3, <2>0, <4>1 DEF KeepInv
        <4> QED  BY <1>10, <2>0, <4>2
      <3> QED  BY <3>3, <3>4
    <2>2. CASE RenameTmp(s)
      <3>1. armed /\ replaced' = (replaced \/ (armed /\ s # Script))
        BY <1>14, <2>2 DEF RenameTmp
      <3>2. s = Script /\ ~armed
        BY <1>1, <1>2, <1>14, <3>1 DEF OwedInv
      <3> QED  BY <3>1, <3>2
    <2>3. CASE ~SyncDir(s) /\ ~RenameTmp(s)
      <3>1. armed /\ unsynced' = unsynced /\ disk' \subseteq disk \cup {dir'}
        BY <1>6, <1>14, <2>3, DirMoves
      <3>2. Covers(dir)
        BY <1>2, <1>3, <2>0, <3>1 DEF KeepInv
      <3>3. CASE d = dir'
        BY <1>12, <2>0, <2>3, <3>2, <3>3
      <3>4. CASE d # dir'
        <4>1. ~unsynced /\ d \in disk
          BY <1>14, <3>1, <3>4
        <4>2. Covers(d)
          BY <1>2, <2>0, <3>1, <4>1 DEF KeepInv
        <4> QED  BY <1>10, <2>0, <4>1, <4>2
      <3> QED  BY <3>3, <3>4
    <2> QED  BY <2>1, <2>2, <2>3
  <1>15. KeepInv'
    BY <1>13, <1>14 DEF KeepInv
  <1> QED  BY <1>5, <1>7, <1>8, <1>15 DEF OwedPart

-----------------------------------------------------------------------------
(* The theorems.                                                           *)

\* The initial states satisfy the inductive invariant.
LEMMA InitHolds == ASSUME Init PROVE IInv
  <1>0. Off \in Save /\ EmptyFile \in File /\ Nothing \in Dumps /\ NothingToDo \in Replays
        /\ MaxSaves \in Nat /\ Script \in Savers
    BY SaveType, ReloadAssumption
  <1>1. TypeOK
    <2>1. KernelType
      <3>1. phase \in {"out", "live"} /\ work = FALSE /\ up \subseteq Range(InitOrder)
        BY DEF Init
      <3>2. entries \subseteq Entries /\ policy \in Policies
        BY ReloadAssumption DEF Init, Entries, Policies
      <3> QED  BY <3>1, <3>2 DEF KernelType
    <2>2. FsType
      BY <1>0 DEF Init, FsType, Names
    <2>3. SvType /\ ScriptType /\ GhostType
      BY <1>0 DEF Init, SvType, ScriptType, GhostType
    <2> QED  BY <2>1, <2>2, <2>3, TypeSplit
  <1>2. InodeInv /\ SaveInv /\ WholeInv
    BY DEF Init, InodeInv, SaveInv, WholeInv, Whole, Running, Writing, AboutToRename, Off, Absent
  <1>3. StageInv /\ PhaseInv
    BY DEF Init, StageInv, PhaseInv
  <1>4. DumpInv /\ OwedInv /\ KeepInv /\ LoadInv /\ ReloadRestores
    BY <1>0 DEF Init, DumpInv, Filled, OwedInv, KeepInv, LoadInv, ReloadRestores, Running, Off
  <1> QED  BY <1>1, <1>2, <1>3, <1>4 DEF IInv, FileInv

\* Every step preserves it.
LEMMA StepHolds == ASSUME IInv, [Next]_vars PROVE IInv'
  <1>0. /\ FileInv /\ StageInv /\ PhaseInv /\ OwedPart
        /\ TypeOK /\ InodeInv /\ SaveInv /\ WholeInv
    BY DEF IInv, FileInv, OwedPart
  <1>1. FileInv' /\ StageInv' /\ PhaseInv'
    BY <1>0, FileStep, StageStep
  <1>2. OwedPart'
    <2>1. CASE ModuleNext
      BY <1>0, <2>1, ModuleOwed
    <2>2. ASSUME NEW s \in Savers, SaveNext(s) PROVE OwedPart'
      BY <1>0, <2>2, BeginOwed, SaveOwed
    <2>3. CASE ScriptNext
      BY <1>0, <2>3, ScriptOwed
    <2>4. CASE OperatorNext
      BY <1>0, <2>4, OperatorOwed
    <2>5. CASE Crash
      BY <1>0, <2>5, CrashOwed
    <2>6. CASE UNCHANGED vars
      <3>1. DumpInv' /\ KeepInv'
        BY <1>0, <2>6, QuietIs, OwedFrame DEF OwedPart, Less, vars, ghosts
      <3>2. OwedInv' /\ LoadInv' /\ ReloadRestores'
        BY <1>0, <2>6 DEF OwedPart, OwedInv, LoadInv, ReloadRestores, Running, vars, kernel,
             script, ghosts
      <3> QED  BY <3>1, <3>2 DEF OwedPart
    <2> QED  BY <2>1, <2>2, <2>3, <2>4, <2>5, <2>6 DEF Next
  <1> QED  BY <1>1, <1>2 DEF IInv, OwedPart

\* The inductive invariant holds in every reachable state.
THEOREM InvariantHolds == Spec => []IInv
  BY InitHolds, StepHolds, PTL DEF Spec

\* Every variable has its type, in every reachable state.
THEOREM TypeCorrect == Spec => []TypeOK
  <1>1. IInv => TypeOK
    BY DEF IInv, FileInv
  <1> QED  BY <1>1, InvariantHolds, PTL

\* Work queued by a probe never outlives the tables it reads, whatever stage of
\* av_init fails and wherever av_exit is, for any list of probes (main.c).
THEOREM WorkKeepsTables == Spec => []WorkHasItsTables
  <1>1. IInv => WorkHasItsTables
    <2> SUFFICES ASSUME IInv, work,
                        NEW t \in {"sig_proc", "trust_proc", "protect_proc", "gc_wq"}
                 PROVE  t \in up /\ "wq" \in up
      BY DEF WorkHasItsTables
    <2>1. StageFacts /\ phase \in {"out", "init", "live", "unwind", "exit"} /\ "wq" \in up
      BY StageFactsEq DEF IInv, FileInv, TypeOK, StageFacts
    <2>2. NStages \in Nat /\ NProbes \in Nat /\ NStages = 8 + NProbes
      BY Orders DEF NStages
    <2>3. PICK i \in 1 .. 6 : InitOrder[i] = t
      BY Places
    <2>4. PICK j \in NProbes + 2 .. NStages : ExitOrder[j] = t
      BY Places
    <2>5. /\ i \in 1 .. NStages /\ 7 \in 1 .. NStages /\ i < 7
          /\ j \in 1 .. NStages /\ NProbes + 1 \in 1 .. NStages /\ NProbes + 1 < j
      BY <2>2
    <2>6. InitOrder[7] = "wq" /\ ExitOrder[NProbes + 1] = "wq"
      BY Places
    <2>7. CASE phase \in {"init", "unwind"}
      BY <2>1, <2>3, <2>5, <2>6, <2>7 DEF StageFacts, UpOrdered
    <2>8. CASE phase = "exit"
      BY <2>1, <2>4, <2>5, <2>6, <2>8 DEF StageFacts, DownOrdered
    <2>9. CASE phase = "live"
      BY <2>1, <2>3, <2>5, <2>9, Distinct DEF StageFacts
    <2>10. CASE phase = "out"
      BY <2>1, <2>10 DEF StageFacts
    <2> QED  BY <2>1, <2>7, <2>8, <2>9, <2>10
  <1> QED  BY <1>1, InvariantHolds, PTL

\* The state file is absent or a dump that went to its end and is on disk, in
\* every version of the directory a power loss may leave, for any number of
\* overlapping saves and whatever reads and writes fail (do_save, avctl.c).
THEOREM FileWhole == Spec => []FileIsWhole
  <1>1. IInv => FileIsWhole
    BY DEF IInv, FileInv, WholeInv, FileIsWhole
  <1> QED  BY <1>1, InvariantHolds, PTL

\* From the save's success until the reload is done the state file has what the
\* reload owes, but for the very lines whose read from /proc failed
\* (av-reload.sh, do_save).
THEOREM StateKept == Spec => []StateNeverLost
  <1>1. IInv => StateNeverLost
    BY DEF IInv, KeepInv, Covers, StateNeverLost
  <1> QED  BY <1>1, InvariantHolds, PTL

\* A reload that reports success has put everything back but for the very lines
\* that a failing read of its save or its load kept from it (av-reload.sh,
\* do_load).
THEOREM ReloadPutsBack == Spec => []ReloadRestores
  <1>1. IInv => ReloadRestores
    BY DEF IInv
  <1> QED  BY <1>1, InvariantHolds, PTL
=============================================================================
