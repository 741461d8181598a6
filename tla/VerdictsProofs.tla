--------------------------- MODULE VerdictsProofs ---------------------------
(***************************************************************************)
(* Proofs about Verdicts, for any rule set, corpora, files, users, threads *)
(* and size of the ring: a verdict follows the evidence, VERDICTS RECENT   *)
(* answers with the newest verdicts, and QUARANTINE LIST is faithful.      *)
(*                                                                         *)
(* What the loops over the corpora compute is shown by induction over the  *)
(* items they have gone through, as a set of numbers (Induction).          *)
(***************************************************************************)
EXTENDS Verdicts, SequenceTheorems, FiniteSetTheorems, WellFoundedInduction, TLAPS

-----------------------------------------------------------------------------
(* Loops.                                                                  *)

\* A set of numbers that is not empty has a least one.
LEMMA LeastExists ==
  ASSUME NEW T \in SUBSET Nat, T # {}
  PROVE  \E i \in T : \A j \in T : ~(j < i)
  <1>1. IsWellFoundedOn(OpToRel(<, Nat), Nat)
    BY NatLessThanWellFounded
  <1>2. PICK i \in T : \A j \in T : <<j, i>> \notin OpToRel(<, Nat)
    BY <1>1, WFMin
  <1>3. \A j \in T : j < i => <<j, i>> \in OpToRel(<, Nat)
    BY DEF OpToRel
  <1> QED  BY <1>2, <1>3

\* Induction, with the numbers of which a fact holds as a set.
LEMMA Induction ==
  ASSUME NEW S, 0 \in S, \A n \in Nat : n \in S => n + 1 \in S
  PROVE  Nat \subseteq S
  <1> SUFFICES ASSUME NEW m \in Nat, m \notin S PROVE FALSE
    OBVIOUS
  <1> DEFINE T == {n \in Nat : n \notin S}
  <1>1. T \in SUBSET Nat /\ T # {}
    OBVIOUS
  <1>2. PICK i \in T : \A j \in T : ~(j < i)
    BY <1>1, LeastExists
  <1>3. i \in Nat /\ i \notin S /\ i # 0
    OBVIOUS
  <1>4. i - 1 \in Nat /\ i - 1 < i /\ i - 1 + 1 = i
    BY <1>3
  <1>5. i - 1 \in S
    BY <1>2, <1>4
  <1> QED  BY <1>3, <1>4, <1>5

\* g holds the values in V that a loop of n turns goes through from v on; step
\* gives what a turn makes of the value before it.
IsLoop(g, V, v, n, step) ==
    g \in [0 .. n -> V] /\ g[0] = v /\ \A i \in 1 .. n : g[i] = step[i][g[i-1]]

\* A loop has an outcome.
LEMMA LoopExists ==
  ASSUME NEW V, NEW v \in V, NEW n \in Nat, NEW step \in [1 .. n -> [V -> V]]
  PROVE  \E g : IsLoop(g, V, v, n, step)
  <1> DEFINE P(m) == \E g \in [0 .. m -> V] : g[0] = v /\ \A i \in 1 .. m : g[i] = step[i][g[i-1]]
             S == {m \in Nat : m <= n => P(m)}
  <1>1. 0 \in S
    <2> DEFINE g == [i \in 0 .. 0 |-> v]
    <2>1. g \in [0 .. 0 -> V] /\ g[0] = v /\ \A i \in 1 .. 0 : g[i] = step[i][g[i-1]]
      OBVIOUS
    <2>2. P(0)
      BY <2>1
    <2> QED  BY <2>2
  <1>2. \A m \in Nat : m \in S => m + 1 \in S
    <2> SUFFICES ASSUME NEW m \in Nat, m \in S, m + 1 <= n PROVE P(m + 1)
      OBVIOUS
    <2>1. PICK g \in [0 .. m -> V] : g[0] = v /\ \A i \in 1 .. m : g[i] = step[i][g[i-1]]
      OBVIOUS
    <2> DEFINE h == [i \in 0 .. m + 1 |-> IF i = m + 1 THEN step[m + 1][g[m]] ELSE g[i]]
    <2>2. step[m + 1][g[m]] \in V
      <3>1. m + 1 \in 1 .. n /\ g[m] \in V
        OBVIOUS
      <3> QED  BY <3>1
    <2>3. h \in [0 .. m + 1 -> V] /\ h[0] = v
      BY <2>1, <2>2
    <2>4. \A i \in 1 .. m + 1 : h[i] = step[i][h[i-1]]
      <3> SUFFICES ASSUME NEW i \in 1 .. m + 1 PROVE h[i] = step[i][h[i-1]]
        OBVIOUS
      <3>1. i - 1 \in 0 .. m /\ h[i-1] = g[i-1]
        OBVIOUS
      <3>2. CASE i = m + 1
        BY <3>1, <3>2
      <3>3. CASE i # m + 1
        <4>1. i \in 1 .. m /\ h[i] = g[i]
          BY <3>3
        <4> QED  BY <2>1, <3>1, <4>1
      <3> QED  BY <3>2, <3>3
    <2> QED  BY <2>3, <2>4
  <1>3. n \in S
    BY <1>1, <1>2, Induction
  <1> QED  BY <1>3 DEF IsLoop

\* Keeping goes item by item.
LEMMA KeepTurns ==
  ASSUME NEW T, NEW s \in Seq(T), NEW S
  PROVE  \E k : /\ Keep(s, S) = k[Len(s)]
                /\ \A i \in 0 .. Len(s) :
                     k[i] = IF i = 0 THEN <<>>
                            ELSE IF s[i] \in S THEN Append(k[i-1], s[i]) ELSE k[i-1]
  <1> DEFINE n == Len(s)
             V == Seq(T)
             Turn(i, k) == IF s[i] \in S THEN Append(k, s[i]) ELSE k
             Body(f) == [i \in 0 .. n |-> IF i = 0 THEN <<>> ELSE Turn(i, f[i-1])]
             kept == CHOOSE f : f = Body(f)
             step == [i \in 1 .. n |-> [k \in V |-> Turn(i, k)]]
  <1>1. n \in Nat /\ DOMAIN s = 1 .. n /\ \A i \in 1 .. n : s[i] \in T
    OBVIOUS
  <1>2. Keep(s, S) = kept[n]
    BY DEF Keep
  <1>3. <<>> \in V /\ \A i \in 1 .. n, k \in V : Turn(i, k) \in V
    BY <1>1
  <1>4. kept = Body(kept)
    <2> HIDE DEF n, V, Turn
    <2>1. step \in [1 .. n -> [V -> V]]
      BY <1>3
    <2>2. \A i \in 1 .. n, k \in V : step[i][k] = Turn(i, k)
      OBVIOUS
    <2> HIDE DEF step
    <2> DEFINE empty == <<>>
    <2>3. empty \in V
      BY <1>3
    <2> HIDE DEF empty
    <2>4. PICK g : IsLoop(g, V, empty, n, step)
      BY <1>1, <2>1, <2>3, LoopExists
    <2>5. g \in [0 .. n -> V] /\ \A i \in 1 .. n : g[i-1] \in V
      BY <1>1, <2>4 DEF IsLoop
    <2>6. \A i \in 0 .. n : g[i] = IF i = 0 THEN empty ELSE Turn(i, g[i-1])
      <3> SUFFICES ASSUME NEW i \in 0 .. n
                   PROVE  g[i] = IF i = 0 THEN empty ELSE Turn(i, g[i-1])
        OBVIOUS
      <3>1. CASE i = 0
        BY <2>4, <3>1 DEF IsLoop
      <3>2. CASE i # 0
        <4>1. i \in 1 .. n
          BY <1>1, <3>2
        <4>2. g[i] = step[i][g[i-1]] /\ g[i-1] \in V
          BY <2>4, <2>5, <4>1 DEF IsLoop
        <4> QED  BY <2>2, <3>2, <4>1, <4>2
      <3> QED  BY <3>1, <3>2
    <2>7. g = Body(g)
      BY <2>5, <2>6 DEF empty
    <2> QED  BY <2>7
  <1> HIDE DEF kept
  <1>5. \A i \in 0 .. n : kept[i] = IF i = 0 THEN <<>> ELSE Turn(i, kept[i-1])
    <2> HIDE DEF Turn, n
    <2> QED  BY <1>4
  <1> QED  BY <1>2, <1>5

\* What is kept of s are its items in S.
LEMMA KeepIs ==
  ASSUME NEW T, NEW s \in Seq(T), NEW S
  PROVE  Keep(s, S) \in Seq(T) /\ Range(Keep(s, S)) = Range(s) \cap S
  <1> DEFINE n == Len(s)
             V == Seq(T)
             Turn(i, k) == IF s[i] \in S THEN Append(k, s[i]) ELSE k
  <1>1. n \in Nat /\ DOMAIN s = 1 .. n /\ \A i \in 1 .. n : s[i] \in T
    OBVIOUS
  <1>2. PICK kept : /\ Keep(s, S) = kept[n]
                    /\ \A i \in 0 .. n : kept[i] = IF i = 0 THEN <<>> ELSE Turn(i, kept[i-1])
    BY KeepTurns
  <1>3. <<>> \in V
    OBVIOUS
  <1> HIDE DEF n
  <1>5. \A i \in 0 .. n : kept[i] = IF i = 0 THEN <<>> ELSE Turn(i, kept[i-1])
    BY <1>2
  <1> DEFINE P(i) == kept[i] \in V /\ Range(kept[i]) = {s[j] : j \in 1 .. i} \cap S
             M == {i \in Nat : i <= n => P(i)}
  <1>6. P(0)
    <2>1. Range(<<>>) = {} /\ {s[j] : j \in 1 .. 0} = {}
      BY DEF Range
    <2>2. kept[0] = <<>>
      BY <1>1, <1>5
    <2> QED  BY <1>3, <2>1, <2>2
  <1>7. ASSUME NEW i \in Nat, P(i), i + 1 <= n
        PROVE  P(i + 1)
    <2>1. i + 1 \in 0 .. n /\ i + 1 # 0 /\ i + 1 - 1 = i /\ s[i + 1] \in T
      BY <1>1, <1>7
    <2>2. kept[i + 1] = Turn(i + 1, kept[i])
      <3> HIDE DEF Turn
      <3> QED  BY <1>5, <2>1
    <2>3. {s[j] : j \in 1 .. i + 1} = {s[j] : j \in 1 .. i} \cup {s[i + 1]}
      OBVIOUS
    <2>4. CASE s[i + 1] \in S
      <3> DEFINE k == kept[i]
                 x == s[i + 1]
      <3>1. k \in Seq(T) /\ x \in T
        BY <1>7, <2>1
      <3> HIDE DEF k, x
      <3>2. Append(k, x) \in Seq(T) /\ Range(Append(k, x)) = Range(k) \cup {x}
        BY <3>1 DEF Range
      <3> QED  BY <1>7, <2>2, <2>3, <2>4, <3>2 DEF k, x
    <2>5. CASE s[i + 1] \notin S
      BY <1>7, <2>2, <2>3, <2>5
    <2> QED  BY <2>4, <2>5
  <1>8. P(n)
    <2> HIDE DEF P
    <2>1. 0 \in M
      BY <1>6
    <2>2. \A i \in Nat : i \in M => i + 1 \in M
      BY <1>1, <1>7
    <2> HIDE DEF M
    <2>3. n \in M
      BY <1>1, <2>1, <2>2, Induction
    <2> QED  BY <1>1, <2>3 DEF M
  <1>9. Range(s) = {s[j] : j \in 1 .. n}
    BY <1>1 DEF Range
  <1> QED  BY <1>2, <1>8, <1>9

\* Only which items of s are in S matters.
LEMMA KeepSame ==
  ASSUME NEW T, NEW s \in Seq(T), NEW S, NEW R, Range(s) \cap S = Range(s) \cap R
  PROVE  Keep(s, S) = Keep(s, R)
  <1> DEFINE n == Len(s)
             Turn(Q, i, k) == IF s[i] \in Q THEN Append(k, s[i]) ELSE k
  <1>1. n \in Nat /\ \A i \in 1 .. n : s[i] \in S <=> s[i] \in R
    BY DEF Range
  <1>2. PICK k : /\ Keep(s, S) = k[n]
                 /\ \A i \in 0 .. n : k[i] = IF i = 0 THEN <<>> ELSE Turn(S, i, k[i-1])
    BY KeepTurns
  <1>3. PICK l : /\ Keep(s, R) = l[n]
                 /\ \A i \in 0 .. n : l[i] = IF i = 0 THEN <<>> ELSE Turn(R, i, l[i-1])
    BY KeepTurns
  <1>4. \A i \in 1 .. n : \A q : Turn(S, i, q) = Turn(R, i, q)
    BY <1>1
  <1> HIDE DEF n, Turn
  <1> DEFINE M == {i \in Nat : i <= n => k[i] = l[i]}
  <1>5. 0 \in M
    BY <1>1, <1>2, <1>3
  <1>6. ASSUME NEW i \in Nat, i \in M
        PROVE  i + 1 \in M
    <2> SUFFICES ASSUME i + 1 <= n PROVE k[i + 1] = l[i + 1]
      OBVIOUS
    <2>1. i + 1 \in 0 .. n /\ i + 1 \in 1 .. n /\ i + 1 # 0 /\ i + 1 - 1 = i /\ i <= n
      BY <1>1
    <2>2. k[i + 1] = Turn(S, i + 1, k[i]) /\ l[i + 1] = Turn(R, i + 1, l[i])
      BY <1>2, <1>3, <2>1
    <2> QED  BY <1>4, <1>6, <2>1, <2>2
  <1> HIDE DEF M
  <1>7. n \in M
    BY <1>1, <1>5, <1>6, Induction
  <1> QED  BY <1>1, <1>2, <1>3, <1>7 DEF M

-----------------------------------------------------------------------------
(* The engines.                                                            *)

\* The corpora are the lines that can be used.
LEMMA CorporaAre ==
  /\ load_fuzzy_corpus \in Seq(Range(FuzzyFile))
  /\ Range(load_fuzzy_corpus) = Range(FuzzyFile) \ Malformed
  /\ load_tlsh_corpus \in Seq(Range(TlshFile))
  /\ Range(load_tlsh_corpus) = Range(TlshFile) \ (Malformed \cup Oversized)
  <1> DEFINE F == {l \in Range(FuzzyFile) : parse_corpus_line(l)}
             G == {l \in Range(TlshFile) : parse_corpus_line(l) /\ l \notin Oversized}
  <1>1. FuzzyFile \in Seq(Range(FuzzyFile)) /\ TlshFile \in Seq(Range(TlshFile))
    BY VerdictsAssumption
  <1>2. /\ Keep(FuzzyFile, F) \in Seq(Range(FuzzyFile))
        /\ Range(Keep(FuzzyFile, F)) = Range(FuzzyFile) \cap F
        /\ Keep(TlshFile, G) \in Seq(Range(TlshFile))
        /\ Range(Keep(TlshFile, G)) = Range(TlshFile) \cap G
    <2> HIDE DEF F, G
    <2> QED  BY <1>1, KeepIs
  <1>3. F = Range(FuzzyFile) \ Malformed /\ G = Range(TlshFile) \ (Malformed \cup Oversized)
    BY DEF parse_corpus_line
  <1> QED  BY <1>2, <1>3 DEF load_fuzzy_corpus, load_tlsh_corpus

\* check_fuzzy_corpus() finds a line that is similar enough if there is one.
LEMMA BestFuzzyIs ==
  ASSUME NEW f \in Files
  PROVE  /\ BestFuzzy(f) \in [score : Int, line : Reasons]
         /\ BestFuzzy(f).score >= FuzzyThreshold <=>
              \E l \in Range(FuzzyFile) \ Malformed : Similarity[f][l] >= FuzzyThreshold
  <1> DEFINE corpus == load_fuzzy_corpus
             n == Len(corpus)
             V == [score : Int, line : Reasons]
             none == [score |-> -1, line |-> NoFile]
             sim(i) == Similarity[f][corpus[i]]
             Turn(i, b) == IF sim(i) > b.score THEN [score |-> sim(i), line |-> corpus[i]] ELSE b
             Body(g) == [i \in 0 .. n |-> IF i = 0 THEN none ELSE Turn(i, g[i-1])]
             best == CHOOSE g : g = Body(g)
             step == [i \in 1 .. n |-> [b \in V |-> Turn(i, b)]]
  <1>1. BestFuzzy(f) = best[n]
    BY DEF BestFuzzy
  <1>2. n \in Nat /\ DOMAIN corpus = 1 .. n /\ \A i \in 1 .. n : corpus[i] \in Range(FuzzyFile)
    BY CorporaAre
  <1> HIDE DEF corpus, n
  <1>3. \A i \in 1 .. n : sim(i) \in Int /\ corpus[i] \in Reasons
    BY <1>2, VerdictsAssumption DEF Reasons
  <1> HIDE DEF sim
  <1>4. none \in V /\ \A i \in 1 .. n, b \in V : Turn(i, b) \in V
    BY <1>3 DEF Reasons
  <1>5. best = Body(best)
    <2> HIDE DEF V, none, Turn
    <2>1. step \in [1 .. n -> [V -> V]] /\ \A i \in 1 .. n, b \in V : step[i][b] = Turn(i, b)
      BY <1>4
    <2> HIDE DEF step
    <2>2. PICK g : IsLoop(g, V, none, n, step)
      BY <1>2, <1>4, <2>1, LoopExists
    <2>3. g \in [0 .. n -> V] /\ \A i \in 1 .. n : g[i-1] \in V
      BY <1>2, <2>2 DEF IsLoop
    <2>4. \A i \in 0 .. n : g[i] = IF i = 0 THEN none ELSE Turn(i, g[i-1])
      BY <1>2, <2>1, <2>2, <2>3 DEF IsLoop
    <2>5. g = Body(g)
      BY <2>3, <2>4
    <2> QED  BY <2>5
  <1> HIDE DEF best
  <1>6. \A i \in 0 .. n : best[i] = IF i = 0 THEN none ELSE Turn(i, best[i-1])
    <2> HIDE DEF Turn, none
    <2> QED  BY <1>5
  <1> DEFINE P(i) == /\ best[i] \in V
                     /\ \A j \in 1 .. i : sim(j) <= best[i].score
                     /\ best[i].score = -1 \/ \E j \in 1 .. i : best[i].score = sim(j)
             M == {i \in Nat : i <= n => P(i)}
  <1>7. P(0)
    <2>1. best[0] = none
      <3> HIDE DEF none, Turn
      <3> QED  BY <1>2, <1>6
    <2> QED  BY <1>4, <2>1
  <1>8. ASSUME NEW i \in Nat, P(i), i + 1 <= n
        PROVE  P(i + 1)
    <2>1. i + 1 \in 0 .. n /\ i + 1 \in 1 .. n /\ i + 1 # 0 /\ i + 1 - 1 = i
      BY <1>2, <1>8
    <2>2. best[i + 1] = Turn(i + 1, best[i])
      <3> HIDE DEF Turn
      <3> QED  BY <1>6, <2>1
    <2>3. best[i] \in V /\ best[i + 1] \in V /\ sim(i + 1) \in Int
      BY <1>3, <1>4, <1>8, <2>1, <2>2
    <2>4. \A j \in 1 .. i + 1 : j \in 1 .. i \/ j = i + 1
      OBVIOUS
    <2>5. \A j \in 1 .. i : j \in 1 .. n
      BY <1>2, <2>1
    <2>6. CASE sim(i + 1) > best[i].score
      <3>1. best[i + 1].score = sim(i + 1)
        BY <2>2, <2>6
      <3>2. \A j \in 1 .. i + 1 : sim(j) <= best[i + 1].score
        BY <1>3, <1>8, <2>3, <2>4, <2>5, <2>6, <3>1
      <3> QED  BY <2>3, <3>1, <3>2
    <2>7. CASE ~(sim(i + 1) > best[i].score)
      <3>1. best[i + 1] = best[i]
        BY <2>2, <2>7
      <3>2. \A j \in 1 .. i + 1 : sim(j) <= best[i + 1].score
        BY <1>3, <1>8, <2>3, <2>4, <2>5, <2>7, <3>1
      <3> QED  BY <1>8, <2>3, <3>1, <3>2
    <2> QED  BY <2>6, <2>7
  <1>9. P(n)
    <2> HIDE DEF P
    <2>1. 0 \in M
      BY <1>7
    <2>2. \A i \in Nat : i \in M => i + 1 \in M
      BY <1>2, <1>8
    <2> HIDE DEF M
    <2>3. n \in M
      BY <1>2, <2>1, <2>2, Induction
    <2> QED  BY <1>2, <2>3 DEF M
  <1>10. Range(FuzzyFile) \ Malformed = {corpus[j] : j \in 1 .. n}
    BY <1>2, CorporaAre DEF Range, corpus
  <1>11. best[n].score >= FuzzyThreshold <=> \E j \in 1 .. n : sim(j) >= FuzzyThreshold
    <2>1. FuzzyThreshold \in Nat \ {0} /\ best[n].score \in Int
      BY <1>9, VerdictsAssumption
    <2> QED  BY <1>3, <1>9, <2>1
  <1> QED  BY <1>1, <1>9, <1>10, <1>11 DEF sim

\* check_tlsh_corpus() finds a line that is near enough if there is one.
LEMMA BestTlshIs ==
  ASSUME NEW f \in Files
  PROVE  /\ BestTlsh(f) \in [diff : Int, line : Reasons]
         /\ BestTlsh(f).diff >= 0 /\ BestTlsh(f).diff <= MaxDiff <=>
              \E l \in Range(TlshFile) \ (Malformed \cup Oversized) : Distance[f][l] \in 0 .. MaxDiff
  <1> DEFINE corpus == load_tlsh_corpus
             n == Len(corpus)
             V == [diff : Int, line : Reasons]
             none == [diff |-> -1, line |-> NoFile]
             dist(i) == Distance[f][corpus[i]]
             Turn(i, b) == IF dist(i) >= 0 /\ (b.diff < 0 \/ dist(i) < b.diff)
                           THEN [diff |-> dist(i), line |-> corpus[i]] ELSE b
             Body(g) == [i \in 0 .. n |-> IF i = 0 THEN none ELSE Turn(i, g[i-1])]
             best == CHOOSE g : g = Body(g)
             step == [i \in 1 .. n |-> [b \in V |-> Turn(i, b)]]
  <1>1. BestTlsh(f) = best[n]
    BY DEF BestTlsh
  <1>2. n \in Nat /\ DOMAIN corpus = 1 .. n /\ \A i \in 1 .. n : corpus[i] \in Range(TlshFile)
    BY CorporaAre
  <1> HIDE DEF corpus, n
  <1>3. \A i \in 1 .. n : dist(i) \in Int /\ corpus[i] \in Reasons
    BY <1>2, VerdictsAssumption DEF Reasons
  <1> HIDE DEF dist
  <1>4. none \in V /\ \A i \in 1 .. n, b \in V : Turn(i, b) \in V
    BY <1>3 DEF Reasons
  <1>5. best = Body(best)
    <2> HIDE DEF V, none, Turn
    <2>1. step \in [1 .. n -> [V -> V]] /\ \A i \in 1 .. n, b \in V : step[i][b] = Turn(i, b)
      BY <1>4
    <2> HIDE DEF step
    <2>2. PICK g : IsLoop(g, V, none, n, step)
      BY <1>2, <1>4, <2>1, LoopExists
    <2>3. g \in [0 .. n -> V] /\ \A i \in 1 .. n : g[i-1] \in V
      BY <1>2, <2>2 DEF IsLoop
    <2>4. \A i \in 0 .. n : g[i] = IF i = 0 THEN none ELSE Turn(i, g[i-1])
      BY <1>2, <2>1, <2>2, <2>3 DEF IsLoop
    <2>5. g = Body(g)
      BY <2>3, <2>4
    <2> QED  BY <2>5
  <1> HIDE DEF best
  <1>6. \A i \in 0 .. n : best[i] = IF i = 0 THEN none ELSE Turn(i, best[i-1])
    <2> HIDE DEF Turn, none
    <2> QED  BY <1>5
  <1> DEFINE P(i) == /\ best[i] \in V
                     /\ \A j \in 1 .. i : dist(j) >= 0 => best[i].diff >= 0 /\ best[i].diff <= dist(j)
                     /\ best[i].diff = -1 \/ \E j \in 1 .. i : best[i].diff = dist(j)
             M == {i \in Nat : i <= n => P(i)}
  <1>7. P(0)
    <2>1. best[0] = none
      <3> HIDE DEF none, Turn
      <3> QED  BY <1>2, <1>6
    <2> QED  BY <1>4, <2>1
  <1>8. ASSUME NEW i \in Nat, P(i), i + 1 <= n
        PROVE  P(i + 1)
    <2>1. i + 1 \in 0 .. n /\ i + 1 \in 1 .. n /\ i + 1 # 0 /\ i + 1 - 1 = i
      BY <1>2, <1>8
    <2>2. best[i + 1] = Turn(i + 1, best[i])
      <3> HIDE DEF Turn
      <3> QED  BY <1>6, <2>1
    <2>3. best[i] \in V /\ best[i + 1] \in V /\ dist(i + 1) \in Int
      BY <1>3, <1>4, <1>8, <2>1, <2>2
    <2>4. \A j \in 1 .. i + 1 : j \in 1 .. i \/ j = i + 1
      OBVIOUS
    <2>5. \A j \in 1 .. i : j \in 1 .. n
      BY <1>2, <2>1
    <2>6. CASE dist(i + 1) >= 0 /\ (best[i].diff < 0 \/ dist(i + 1) < best[i].diff)
      <3>1. best[i + 1].diff = dist(i + 1)
        BY <2>2, <2>6
      <3>2. \A j \in 1 .. i + 1 : dist(j) >= 0 => best[i + 1].diff >= 0 /\ best[i + 1].diff <= dist(j)
        BY <1>3, <1>8, <2>3, <2>4, <2>5, <2>6, <3>1
      <3> QED  BY <2>3, <3>1, <3>2
    <2>7. CASE ~(dist(i + 1) >= 0 /\ (best[i].diff < 0 \/ dist(i + 1) < best[i].diff))
      <3>1. best[i + 1] = best[i]
        BY <2>2, <2>7
      <3>2. \A j \in 1 .. i + 1 : dist(j) >= 0 => best[i + 1].diff >= 0 /\ best[i + 1].diff <= dist(j)
        BY <1>3, <1>8, <2>3, <2>4, <2>5, <2>7, <3>1
      <3> QED  BY <1>8, <2>3, <3>1, <3>2
    <2> QED  BY <2>6, <2>7
  <1>9. P(n)
    <2> HIDE DEF P
    <2>1. 0 \in M
      BY <1>7
    <2>2. \A i \in Nat : i \in M => i + 1 \in M
      BY <1>2, <1>8
    <2> HIDE DEF M
    <2>3. n \in M
      BY <1>2, <2>1, <2>2, Induction
    <2> QED  BY <1>2, <2>3 DEF M
  <1>10. Range(TlshFile) \ (Malformed \cup Oversized) = {corpus[j] : j \in 1 .. n}
    BY <1>2, CorporaAre DEF Range, corpus
  <1>11. best[n].diff >= 0 /\ best[n].diff <= MaxDiff <=> \E j \in 1 .. n : dist(j) \in 0 .. MaxDiff
    <2>1. MaxDiff \in Nat /\ best[n].diff \in Int
      BY <1>9, VerdictsAssumption
    <2>2. ASSUME best[n].diff >= 0, best[n].diff <= MaxDiff
          PROVE  \E j \in 1 .. n : dist(j) \in 0 .. MaxDiff
      BY <1>9, <2>1, <2>2
    <2>3. ASSUME NEW j \in 1 .. n, dist(j) \in 0 .. MaxDiff
          PROVE  best[n].diff >= 0 /\ best[n].diff <= MaxDiff
      BY <1>3, <1>9, <2>1, <2>3
    <2> QED  BY <2>2, <2>3
  <1> QED  BY <1>1, <1>9, <1>10, <1>11 DEF dist

\* Adding up the weights of some rules, from one rule on.
Pick(S) == CHOOSE r \in S : TRUE
LEMMA ScoreStart ==
  ASSUME NEW M
  PROVE  Score(M) = (CHOOSE g : g = [s \in SUBSET M |->
                        IF s = {} THEN 0 ELSE Weight[Pick(s)] + g[s \ {Pick(s)}]])[M]
  BY DEF Score, FoldSet, MapThenFoldSet, Pick

\* The sets of rules there may be.
RuleSets == SUBSET DOMAIN Weight

\* Sets of rules are finite; taking a rule away makes them smaller.
LEMMA RuleSetsFinite ==
  ASSUME NEW s \in RuleSets
  PROVE  /\ IsFiniteSet(s) /\ Cardinality(s) \in Nat
         /\ Cardinality(s) <= Cardinality(DOMAIN Weight)
         /\ Cardinality(s) = 0 <=> s = {}
         /\ \A x \in s : s \ {x} \in RuleSets /\ Cardinality(s \ {x}) = Cardinality(s) - 1
         /\ s # {} => Pick(s) \in s
  <1>1. IsFiniteSet(DOMAIN Weight)
    BY VerdictsAssumption
  <1>2. IsFiniteSet(s) /\ Cardinality(s) <= Cardinality(DOMAIN Weight)
    BY <1>1, FS_Subset DEF RuleSets
  <1>3. Cardinality(s) \in Nat /\ (Cardinality(s) = 0 <=> s = {})
    BY <1>2, FS_CardinalityType, FS_EmptySet
  <1>4. \A x \in s : Cardinality(s \ {x}) = Cardinality(s) - 1
    BY <1>2, FS_RemoveElement
  <1>5. \A x \in s : s \ {x} \in RuleSets
    BY DEF RuleSets
  <1>6. s # {} => Pick(s) \in s
    BY DEF Pick
  <1> QED  BY <1>2, <1>3, <1>4, <1>5, <1>6

\* g adds up the weights of s, one rule at a time.
Adds(g, s) == g[s] = IF s = {} THEN 0 ELSE Weight[Pick(s)] + g[s \ {Pick(s)}]

\* There is a sum of weights.
LEMMA SumExists ==
  \E g \in [RuleSets -> Nat] : \A s \in RuleSets : Adds(g, s)
  <1> DEFINE P(n) == \E g \in [RuleSets -> Nat] :
                        \A s \in RuleSets : Cardinality(s) <= n => Adds(g, s)
             S == {n \in Nat : P(n)}
  <1>1. P(0)
    <2> DEFINE g == [s \in RuleSets |-> 0]
    <2>1. g \in [RuleSets -> Nat]
      OBVIOUS
    <2>2. \A s \in RuleSets : Cardinality(s) <= 0 => s = {} /\ g[s] = 0
      BY RuleSetsFinite
    <2>3. \A s \in RuleSets : Cardinality(s) <= 0 => Adds(g, s)
      BY <2>2 DEF Adds
    <2> QED  BY <2>1, <2>3
  <1>2. ASSUME NEW n \in Nat, P(n)
        PROVE  P(n + 1)
    <2>1. PICK g \in [RuleSets -> Nat] : \A s \in RuleSets : Cardinality(s) <= n => Adds(g, s)
      BY <1>2
    <2> DEFINE h == [s \in RuleSets |-> IF Cardinality(s) = n + 1
                                        THEN Weight[Pick(s)] + g[s \ {Pick(s)}] ELSE g[s]]
    <2>2. ASSUME NEW s \in RuleSets, s # {}
          PROVE  /\ Pick(s) \in s /\ Weight[Pick(s)] \in Nat
                 /\ s \ {Pick(s)} \in RuleSets /\ Cardinality(s \ {Pick(s)}) = Cardinality(s) - 1
      BY <2>2, RuleSetsFinite, VerdictsAssumption DEF RuleSets
    <2>3. h \in [RuleSets -> Nat]
      <3> SUFFICES ASSUME NEW s \in RuleSets, Cardinality(s) = n + 1
                   PROVE  Weight[Pick(s)] + g[s \ {Pick(s)}] \in Nat
        BY <2>1
      <3>1. s # {}
        BY RuleSetsFinite
      <3> QED  BY <2>1, <2>2, <3>1
    <2>4. ASSUME NEW s \in RuleSets, Cardinality(s) <= n + 1
          PROVE  Adds(h, s)
      <3>1. Cardinality(s) \in Nat /\ (Cardinality(s) = 0 <=> s = {})
        BY RuleSetsFinite
      <3>2. s # {} => h[s \ {Pick(s)}] = g[s \ {Pick(s)}]
        <4> SUFFICES ASSUME s # {} PROVE h[s \ {Pick(s)}] = g[s \ {Pick(s)}]
          OBVIOUS
        <4> DEFINE u == s \ {Pick(s)}
        <4>1. u \in RuleSets /\ Cardinality(u) = Cardinality(s) - 1
          BY <2>2
        <4>2. Cardinality(u) # n + 1
          BY <2>4, <3>1, <4>1
        <4> HIDE DEF u
        <4>3. h[u] = g[u]
          BY <4>1, <4>2
        <4> QED  BY <4>3 DEF u
      <3>3. CASE Cardinality(s) = n + 1
        BY <3>1, <3>2, <3>3 DEF Adds
      <3>4. CASE Cardinality(s) # n + 1
        <4>1. Adds(g, s) /\ h[s] = g[s]
          BY <2>1, <2>4, <3>1, <3>4
        <4> QED  BY <3>2, <4>1 DEF Adds
      <3> QED  BY <3>3, <3>4
    <2> HIDE DEF h
    <2> QED  BY <2>3, <2>4
  <1>3. \A n \in Nat : P(n)
    <2> HIDE DEF P
    <2>1. 0 \in S /\ \A n \in Nat : n \in S => n + 1 \in S
      BY <1>1, <1>2
    <2> HIDE DEF S
    <2>2. Nat \subseteq S
      BY <2>1, Induction
    <2> QED  BY <2>2 DEF S
  <1>4. Cardinality(DOMAIN Weight) \in Nat
    BY VerdictsAssumption, FS_CardinalityType
  <1>5. PICK g \in [RuleSets -> Nat] :
            \A s \in RuleSets : Cardinality(s) <= Cardinality(DOMAIN Weight) => Adds(g, s)
    BY <1>3, <1>4
  <1> QED  BY <1>5, RuleSetsFinite

\* Such a sum, of the weights of any set of rules.
Total == CHOOSE g \in [RuleSets -> Nat] : \A s \in RuleSets : Adds(g, s)

\* It adds up one rule at a time.
LEMMA TotalAdds == Total \in [RuleSets -> Nat] /\ \A s \in RuleSets : Adds(Total, s)
  BY SumExists DEF Total

\* yara_callback() adds up the weights.
LEMMA ScoreIsTotal ==
  ASSUME NEW M \in RuleSets
  PROVE  Score(M) = Total[M]
  <1> DEFINE Add(g, s) == IF s = {} THEN 0 ELSE Weight[Pick(s)] + g[s \ {Pick(s)}]
             Body(g) == [s \in SUBSET M |-> Add(g, s)]
             sum == CHOOSE g : g = Body(g)
  <1>1. Score(M) = sum[M]
    BY ScoreStart
  <1>2. \A s \in SUBSET M : s \in RuleSets /\ (s # {} => s \ {Pick(s)} \in SUBSET M)
    BY DEF RuleSets
  <1>3. sum = Body(sum)
    <2> DEFINE g == [s \in SUBSET M |-> Total[s]]
    <2>1. \A s \in SUBSET M : g[s] = Add(g, s)
      BY <1>2, TotalAdds DEF Adds
    <2>2. g = Body(g)
      BY <2>1
    <2> HIDE DEF g
    <2> QED  BY <2>2
  <1> HIDE DEF sum
  <1>4. \A s \in SUBSET M : sum[s] = Add(sum, s)
    BY <1>3
  <1> DEFINE P(n) == \A s \in SUBSET M : Cardinality(s) <= n => sum[s] = Total[s]
             S == {n \in Nat : P(n)}
  <1>5. P(0)
    <2> SUFFICES ASSUME NEW s \in SUBSET M, Cardinality(s) <= 0 PROVE sum[s] = Total[s]
      OBVIOUS
    <2>1. s = {} /\ s \in RuleSets
      BY <1>2, RuleSetsFinite
    <2> QED  BY <1>4, <2>1, TotalAdds DEF Adds
  <1>6. ASSUME NEW n \in Nat, P(n)
        PROVE  P(n + 1)
    <2> SUFFICES ASSUME NEW s \in SUBSET M, Cardinality(s) <= n + 1 PROVE sum[s] = Total[s]
      OBVIOUS
    <2>1. CASE s = {}
      BY <1>2, <1>4, <2>1, TotalAdds DEF Adds
    <2>2. CASE s # {}
      <3> DEFINE u == s \ {Pick(s)}
      <3>1. u \in SUBSET M /\ Cardinality(s) \in Nat /\ Cardinality(u) = Cardinality(s) - 1
        BY <1>2, <2>2, RuleSetsFinite
      <3>2. Cardinality(u) <= n
        BY <3>1
      <3>3. sum[u] = Total[u]
        BY <1>6, <3>1, <3>2
      <3>4. sum[s] = Weight[Pick(s)] + sum[u] /\ Total[s] = Weight[Pick(s)] + Total[u]
        BY <1>2, <1>4, <2>2, TotalAdds DEF Adds
      <3> QED  BY <3>3, <3>4
    <2> QED  BY <2>1, <2>2
  <1>7. \A n \in Nat : P(n)
    <2> HIDE DEF P
    <2>1. 0 \in S /\ \A n \in Nat : n \in S => n + 1 \in S
      BY <1>5, <1>6
    <2> HIDE DEF S
    <2>2. Nat \subseteq S
      BY <2>1, Induction
    <2> QED  BY <2>2 DEF S
  <1>8. Cardinality(M) \in Nat /\ M \in SUBSET M
    BY RuleSetsFinite
  <1> QED  BY <1>1, <1>7, <1>8

\* The order of the rules does not matter.
LEMMA TotalTakes ==
  ASSUME NEW M \in RuleSets, NEW x \in M
  PROVE  Total[M] = Weight[x] + Total[M \ {x}]
  <1> DEFINE P(n) == \A s \in RuleSets : Cardinality(s) <= n =>
                        \A y \in s : Total[s] = Weight[y] + Total[s \ {y}]
             S == {n \in Nat : P(n)}
  <1>1. P(0)
    BY RuleSetsFinite
  <1>2. ASSUME NEW n \in Nat, P(n)
        PROVE  P(n + 1)
    <2> SUFFICES ASSUME NEW s \in RuleSets, Cardinality(s) <= n + 1, NEW y \in s
                 PROVE  Total[s] = Weight[y] + Total[s \ {y}]
      OBVIOUS
    <2> DEFINE p == Pick(s)
    <2>1. p \in s
      BY RuleSetsFinite
    <2>2. Total[s] = Weight[p] + Total[s \ {p}]
      BY <2>1, TotalAdds DEF Adds
    <2>3. CASE y = p
      BY <2>2, <2>3
    <2>4. CASE y # p
      <3> HIDE DEF p
      <3>1. /\ s \ {p} \in RuleSets /\ Cardinality(s \ {p}) <= n /\ y \in s \ {p}
            /\ s \ {y} \in RuleSets /\ Cardinality(s \ {y}) <= n /\ p \in s \ {y}
        BY <2>1, <2>4, RuleSetsFinite
      <3>2. Total[s \ {p}] = Weight[y] + Total[(s \ {p}) \ {y}]
        BY <1>2, <3>1
      <3>3. Total[s \ {y}] = Weight[p] + Total[(s \ {y}) \ {p}]
        BY <1>2, <3>1
      <3>4. (s \ {p}) \ {y} = (s \ {y}) \ {p} /\ (s \ {p}) \ {y} \in RuleSets
        BY DEF RuleSets
      <3>5. Weight[p] \in Nat /\ Weight[y] \in Nat /\ Total[(s \ {p}) \ {y}] \in Nat
        BY <2>1, <3>4, TotalAdds, VerdictsAssumption DEF RuleSets
      <3> QED  BY <2>2, <3>2, <3>3, <3>4, <3>5
    <2> QED  BY <2>3, <2>4
  <1>3. \A n \in Nat : P(n)
    <2> HIDE DEF P
    <2>1. 0 \in S /\ \A n \in Nat : n \in S => n + 1 \in S
      BY <1>1, <1>2
    <2> HIDE DEF S
    <2>2. Nat \subseteq S
      BY <2>1, Induction
    <2> QED  BY <2>2 DEF S
  <1> QED  BY <1>3, RuleSetsFinite

\* More rules that match never lower the score.
LEMMA ScoreGrows ==
  ASSUME NEW M \in RuleSets
  PROVE  Score(M) \in Nat /\ \A T \in SUBSET M : Score(T) <= Score(M)
  <1> DEFINE P(n) == \A s \in RuleSets : Cardinality(s) <= n =>
                        \A T \in SUBSET s : Total[T] <= Total[s]
             S == {n \in Nat : P(n)}
  <1>0. \A s \in RuleSets : Total[s] \in Nat /\ \A T \in SUBSET s : T \in RuleSets
    BY TotalAdds DEF RuleSets
  <1>1. P(0)
    <2> SUFFICES ASSUME NEW s \in RuleSets, Cardinality(s) <= 0, NEW T \in SUBSET s
                 PROVE  Total[T] <= Total[s]
      OBVIOUS
    <2>1. s = {}
      BY RuleSetsFinite
    <2>2. T = s
      BY <2>1
    <2> QED  BY <1>0, <2>2
  <1>2. ASSUME NEW n \in Nat, P(n)
        PROVE  P(n + 1)
    <2> SUFFICES ASSUME NEW s \in RuleSets, Cardinality(s) <= n + 1, NEW T \in SUBSET s, T # s
                 PROVE  Total[T] <= Total[s]
      BY <1>0
    <2>1. PICK x \in s : x \notin T
      OBVIOUS
    <2>2. s \ {x} \in RuleSets /\ Cardinality(s \ {x}) <= n /\ T \in SUBSET (s \ {x})
      BY <2>1, RuleSetsFinite
    <2>3. Total[T] <= Total[s \ {x}]
      BY <1>2, <2>2
    <2>4. Total[s] = Weight[x] + Total[s \ {x}]
      BY TotalTakes
    <2>5. Weight[x] \in Nat /\ Total[s \ {x}] \in Nat /\ Total[T] \in Nat
      BY <1>0, <2>2, VerdictsAssumption DEF RuleSets
    <2> QED  BY <2>3, <2>4, <2>5
  <1>3. \A n \in Nat : P(n)
    <2> HIDE DEF P
    <2>1. 0 \in S /\ \A n \in Nat : n \in S => n + 1 \in S
      BY <1>1, <1>2
    <2> HIDE DEF S
    <2>2. Nat \subseteq S
      BY <2>1, Induction
    <2> QED  BY <2>2 DEF S
  <1>4. \A T \in SUBSET M : Total[T] <= Total[M] /\ Score(T) = Total[T]
    BY <1>0, <1>3, RuleSetsFinite, ScoreIsTotal
  <1> QED  BY <1>0, <1>4, ScoreIsTotal

\* What each engine can know of a file.
YaraBad(f) == (\E r \in Matches[f] : r \in Override) \/ \E S \in SUBSET Matches[f] : Score(S) >= Threshold
FuzzyBad(f) == /\ f \notin Big
               /\ \E l \in Range(FuzzyFile) \ Malformed : Similarity[f][l] >= FuzzyThreshold
TlshBad(f) == /\ f \notin Big /\ f \notin Short
              /\ \E l \in Range(TlshFile) \ (Malformed \cup Oversized) : Distance[f][l] \in 0 .. MaxDiff

\* The evidence is that of the engines.
LEMMA BadIs ==
  ASSUME NEW f
  PROVE  KnownBad(f) <=> YaraBad(f) \/ FuzzyBad(f) \/ TlshBad(f)
  BY DEF KnownBad, YaraBad, FuzzyBad, TlshBad

\* The rules that match are enough, or no part of them is.
LEMMA YaraDecides ==
  ASSUME NEW f \in Files
  PROVE  YaraBad(f) <=> Matches[f] \cap Override # {} \/ Score(Matches[f]) >= Threshold
  <1>1. Matches[f] \in RuleSets /\ Threshold \in Nat
    BY VerdictsAssumption DEF RuleSets
  <1>2. \A T \in SUBSET Matches[f] : T \in RuleSets
    BY <1>1 DEF RuleSets
  <1>3. \A T \in SUBSET Matches[f] : Score(T) \in Nat /\ Score(T) <= Score(Matches[f])
    BY <1>1, <1>2, ScoreGrows
  <1>4. Matches[f] \in SUBSET Matches[f]
    OBVIOUS
  <1>5. (\E S \in SUBSET Matches[f] : Score(S) >= Threshold) <=> Score(Matches[f]) >= Threshold
    BY <1>1, <1>3, <1>4
  <1> QED  BY <1>5 DEF YaraBad

\* A scan while its engines run.
Running == [pc : {"scan", "quarantine", "record"}, no : Nat, file : Files, uid : Uids,
            eof : BOOLEAN, sha : BOOLEAN, verdict : {"CLEAN", "MALICIOUS"}, by : Reasons,
            faulty : BOOLEAN]

\* A scan r of f goes on only as long as it is clean, and unless an engine failed
\* those that have run, of which bad tells what they know, found nothing.
Going(r, f, n, bad) ==
    /\ r \in Running /\ r.file = f /\ r.no = n
    /\ r.pc = "scan" => r.verdict = "CLEAN" /\ (~r.faulty => ~bad)
    /\ r.pc = "record" => r.verdict = "CLEAN" /\ (~r.faulty => ~KnownBad(f))
    /\ r.pc = "quarantine" => r.verdict = "MALICIOUS" /\ KnownBad(f)

\* The digest changes nothing that the engines look at.
LEMMA HashGoes ==
  ASSUME NEW f \in Files, NEW n \in Nat, NEW b \in BOOLEAN,
         NEW r, Going(r, f, n, FALSE), r.pc = "scan", ~r.faulty
  PROVE  /\ Going(Hash(r, b), f, n, FALSE)
         /\ Hash(r, b).pc = "scan" /\ ~Hash(r, b).faulty
  <1> DEFINE h == [r EXCEPT !.eof = TRUE, !.sha = ~b]
  <1>1. r \in Running /\ r.file = f /\ r.no = n /\ r.verdict = "CLEAN"
    BY DEF Going
  <1>2. h \in Running /\ h.file = f /\ h.no = n /\ h.verdict = "CLEAN" /\ h.pc = "scan" /\ ~h.faulty
    BY <1>1 DEF Running
  <1>3. Going(h, f, n, FALSE)
    BY <1>2 DEF Going
  <1> QED  BY <1>2, <1>3 DEF Hash

\* The YARA scan finds what the rules know.
LEMMA YaraGoes ==
  ASSUME NEW f \in Files, NEW n \in Nat, NEW b \in BOOLEAN,
         NEW r, Going(r, f, n, FALSE), r.pc = "scan", ~r.faulty
  PROVE  Going(Yara(r, b), f, n, YaraBad(f))
  <1>1. r \in Running /\ r.file = f /\ r.no = n /\ r.verdict = "CLEAN"
    BY DEF Going
  <1> DEFINE out == [r EXCEPT !.pc = "record", !.faulty = TRUE]
             hit == [r EXCEPT !.pc = "quarantine", !.verdict = "MALICIOUS", !.by = "yara"]
             on == [r EXCEPT !.eof = FALSE]
  <1>2. Yara(r, b) = IF b THEN out ELSE IF YaraBad(f) THEN hit ELSE on
    BY <1>1, YaraDecides DEF Yara, Rewind
  <1>3. Going(out, f, n, YaraBad(f))
    BY <1>1 DEF Going, Running
  <1>4. YaraBad(f) => Going(hit, f, n, YaraBad(f))
    <2>1. "yara" \in Reasons
      BY DEF Reasons
    <2> QED  BY <1>1, <2>1, BadIs DEF Going, Running
  <1>5. ~YaraBad(f) => Going(on, f, n, YaraBad(f))
    BY <1>1 DEF Going, Running
  <1> QED  BY <1>2, <1>3, <1>4, <1>5

\* check_fuzzy_corpus() finds what its corpus knows.
LEMMA FuzzyGoes ==
  ASSUME NEW f \in Files, NEW n \in Nat, NEW b \in BOOLEAN,
         NEW r, Going(r, f, n, YaraBad(f))
  PROVE  Going(Fuzzy(r, b), f, n, YaraBad(f) \/ FuzzyBad(f))
  <1>1. r \in Running /\ r.file = f /\ r.no = n
    BY DEF Going
  <1> DEFINE looks == load_fuzzy_corpus # <<>> /\ f \notin Big
             best == BestFuzzy(f)
             out == [r EXCEPT !.eof = TRUE, !.faulty = TRUE]
             hit == [r EXCEPT !.pc = "quarantine", !.verdict = "MALICIOUS", !.by = best.line]
             on == [r EXCEPT !.eof = TRUE]
  <1>2. FuzzyBad(f) <=> looks /\ best.score >= FuzzyThreshold
    <2>1. load_fuzzy_corpus = <<>> => Range(load_fuzzy_corpus) = {}
      BY DEF Range
    <2>2. Range(load_fuzzy_corpus) = Range(FuzzyFile) \ Malformed
      BY CorporaAre
    <2>3. best.score >= FuzzyThreshold <=>
            \E l \in Range(FuzzyFile) \ Malformed : Similarity[f][l] >= FuzzyThreshold
      BY BestFuzzyIs
    <2> QED  BY <2>1, <2>2, <2>3 DEF FuzzyBad
  <1>3. best.line \in Reasons
    BY BestFuzzyIs
  <1> HIDE DEF best
  <1>4. Fuzzy(r, b) = IF r.pc # "scan" \/ ~looks THEN r ELSE IF b THEN out
                      ELSE IF best.score >= FuzzyThreshold THEN hit ELSE on
    BY <1>1 DEF Fuzzy, Rewind, best
  <1> HIDE DEF looks
  <1>5. CASE r.pc # "scan" \/ ~looks
    BY <1>2, <1>4, <1>5 DEF Going
  <1>6. CASE r.pc = "scan" /\ looks
    <2>1. r.verdict = "CLEAN" /\ (~r.faulty => ~YaraBad(f))
      BY <1>6 DEF Going
    <2>2. Going(out, f, n, YaraBad(f) \/ FuzzyBad(f))
      BY <1>1, <1>6, <2>1 DEF Going, Running
    <2>3. FuzzyBad(f) => Going(hit, f, n, YaraBad(f) \/ FuzzyBad(f))
      BY <1>1, <1>3, BadIs DEF Going, Running
    <2>4. ~FuzzyBad(f) => Going(on, f, n, YaraBad(f) \/ FuzzyBad(f))
      BY <1>1, <1>6, <2>1 DEF Going, Running
    <2> QED  BY <1>2, <1>4, <1>6, <2>2, <2>3, <2>4
  <1> QED  BY <1>5, <1>6

\* check_tlsh_corpus() finds what its corpus knows, and the scan is over.
LEMMA TlshGoes ==
  ASSUME NEW f \in Files, NEW n \in Nat, NEW b \in BOOLEAN,
         NEW r, Going(r, f, n, YaraBad(f) \/ FuzzyBad(f))
  PROVE  Going(Tlsh(r, b), f, n, KnownBad(f)) /\ Tlsh(r, b).pc # "scan"
  <1>1. r \in Running /\ r.file = f /\ r.no = n
    BY DEF Going
  <1> DEFINE looks == load_tlsh_corpus # <<>> /\ f \notin Big
             best == BestTlsh(f)
             near == f \notin Short /\ best.diff >= 0 /\ best.diff <= MaxDiff
             out == [r EXCEPT !.pc = "record", !.faulty = TRUE]
             hit == [r EXCEPT !.pc = "quarantine", !.verdict = "MALICIOUS", !.by = best.line]
             on == [r EXCEPT !.pc = "record"]
  <1>2. TlshBad(f) <=> looks /\ near
    <2>1. load_tlsh_corpus = <<>> => Range(load_tlsh_corpus) = {}
      BY DEF Range
    <2>2. Range(load_tlsh_corpus) = Range(TlshFile) \ (Malformed \cup Oversized)
      BY CorporaAre
    <2>3. best.diff >= 0 /\ best.diff <= MaxDiff <=>
            \E l \in Range(TlshFile) \ (Malformed \cup Oversized) : Distance[f][l] \in 0 .. MaxDiff
      BY BestTlshIs
    <2> QED  BY <2>1, <2>2, <2>3 DEF TlshBad
  <1>3. best.line \in Reasons
    BY BestTlshIs
  <1> HIDE DEF best
  <1>4. Tlsh(r, b) = IF r.pc # "scan" THEN r ELSE IF b /\ looks THEN out
                     ELSE IF looks /\ near THEN hit ELSE on
    BY <1>1 DEF Tlsh, Rewind, best
  <1> HIDE DEF looks, near
  <1>5. CASE r.pc # "scan"
    BY <1>4, <1>5 DEF Going
  <1>6. CASE r.pc = "scan"
    <2>1. r.verdict = "CLEAN" /\ (~r.faulty => ~(YaraBad(f) \/ FuzzyBad(f)))
      BY <1>6 DEF Going
    <2>2. Going(out, f, n, KnownBad(f)) /\ out.pc # "scan"
      BY <1>1, <1>6, <2>1 DEF Going, Running
    <2>3. TlshBad(f) => Going(hit, f, n, KnownBad(f)) /\ hit.pc # "scan"
      BY <1>1, <1>3, BadIs DEF Going, Running
    <2>4. ~TlshBad(f) => Going(on, f, n, KnownBad(f)) /\ on.pc # "scan"
      BY <1>1, <1>6, <2>1, BadIs DEF Going, Running
    <2> QED  BY <1>2, <1>4, <1>6, <2>2, <2>3, <2>4
  <1> QED  BY <1>5, <1>6

-----------------------------------------------------------------------------
(* The listings.                                                           *)

\* s goes through its numbers in S upwards.
Upwards(s, S) ==
    s \in [1 .. Cardinality(S) -> S] /\ \A i, j \in DOMAIN s : i < j => s[i] < s[j]

\* scandir() can sort.
LEMMA SortExists ==
  ASSUME NEW n \in Nat
  PROVE  \A S \in SUBSET (1 .. n) : IsFiniteSet(S) /\ \E s : Upwards(s, S)
  <1> DEFINE P(m) == \A S \in SUBSET (1 .. m) : IsFiniteSet(S) /\ \E s : Upwards(s, S)
             M == {m \in Nat : P(m)}
  <1>1. P(0)
    <2> DEFINE s == [i \in 1 .. 0 |-> i]
    <2>1. IsFiniteSet({}) /\ Cardinality({}) = 0
      BY FS_EmptySet
    <2>2. Upwards(s, {})
      BY <2>1 DEF Upwards
    <2>3. \A S \in SUBSET (1 .. 0) : S = {}
      OBVIOUS
    <2> HIDE DEF s
    <2> QED  BY <2>1, <2>2, <2>3
  <1>2. ASSUME NEW m \in Nat, P(m)
        PROVE  P(m + 1)
    <2> SUFFICES ASSUME NEW S \in SUBSET (1 .. m + 1)
                 PROVE  IsFiniteSet(S) /\ \E s : Upwards(s, S)
      OBVIOUS
    <2> DEFINE R == S \ {m + 1}
    <2>1. R \in SUBSET (1 .. m)
      OBVIOUS
    <2>2. IsFiniteSet(R)
      BY <1>2, <2>1
    <2>3. PICK r : Upwards(r, R)
      BY <1>2, <2>1
    <2>4. CASE m + 1 \notin S
      <3>1. R = S
        BY <2>4
      <3> QED  BY <2>2, <2>3, <3>1
    <2>5. CASE m + 1 \in S
      <3> DEFINE k == Cardinality(R)
                 s == [i \in 1 .. k + 1 |-> IF i = k + 1 THEN m + 1 ELSE r[i]]
      <3>1. S = R \cup {m + 1} /\ m + 1 \notin R
        BY <2>5
      <3>2. k \in Nat /\ IsFiniteSet(S) /\ Cardinality(S) = k + 1
        <4> HIDE DEF R
        <4> QED  BY <2>2, <3>1, FS_AddElement, FS_CardinalityType
      <3>3. r \in [1 .. k -> R] /\ \A i, j \in 1 .. k : i < j => r[i] < r[j]
        BY <2>3 DEF Upwards
      <3> HIDE DEF k
      <3>4. \A i \in 1 .. k : r[i] \in S /\ r[i] \in 1 .. m
        BY <2>1, <3>3
      <3>5. s \in [1 .. k + 1 -> S]
        BY <2>5, <3>2, <3>4
      <3>6. ASSUME NEW i \in 1 .. k + 1, NEW j \in 1 .. k + 1, i < j
            PROVE  s[i] < s[j]
        <4>1. i \in 1 .. k /\ s[i] = r[i]
          BY <3>2, <3>6
        <4>2. CASE j = k + 1
          BY <3>2, <3>4, <4>1, <4>2
        <4>3. CASE j # k + 1
          <5>1. j \in 1 .. k /\ s[j] = r[j]
            BY <3>2, <4>3
          <5> QED  BY <3>3, <3>6, <4>1, <5>1
        <4> QED  BY <4>2, <4>3
      <3> HIDE DEF s
      <3>7. Upwards(s, S)
        BY <3>2, <3>5, <3>6 DEF Upwards
      <3> QED  BY <3>2, <3>7
    <2> QED  BY <2>4, <2>5
  <1> HIDE DEF P
  <1>3. 0 \in M /\ \A m \in Nat : m \in M => m + 1 \in M
    BY <1>1, <1>2
  <1> HIDE DEF M
  <1>4. n \in M
    BY <1>3, Induction
  <1> QED  BY <1>4 DEF M, P

\* The sorted names are all the names.
LEMMA SortedIs ==
  ASSUME NEW n \in Nat, NEW S \in SUBSET (1 .. n)
  PROVE  Sorted(S) \in Seq(Nat) /\ Range(Sorted(S)) = S
  <1> DEFINE s == Sorted(S)
             k == Cardinality(S)
  <1>1. IsFiniteSet(S) /\ \E q : Upwards(q, S)
    BY SortExists
  <1>2. Upwards(s, S)
    BY <1>1 DEF Sorted, Upwards
  <1>3. k \in Nat /\ IsFiniteSet(1 .. k) /\ Cardinality(1 .. k) = k
    <2>1. k \in Nat
      BY <1>1, FS_CardinalityType
    <2> HIDE DEF k
    <2>2. IsFiniteSet(1 .. k) /\ Cardinality(1 .. k) = IF 1 > k THEN 0 ELSE k - 1 + 1
      BY <2>1, FS_Interval
    <2> QED  BY <2>1, <2>2
  <1> HIDE DEF s
  <1>4. s \in [1 .. k -> S] /\ \A i, j \in 1 .. k : i < j => s[i] < s[j]
    BY <1>2 DEF Upwards
  <1> HIDE DEF k
  <1>5. \A i, j \in 1 .. k : s[i] = s[j] => i = j
    <2> SUFFICES ASSUME NEW i \in 1 .. k, NEW j \in 1 .. k, s[i] = s[j], i # j PROVE FALSE
      OBVIOUS
    <2>1. s[i] \in S /\ s[j] \in S
      BY <1>4
    <2>2. s[i] \in Int /\ s[j] \in Int
      <3>1. S \subseteq Int
        OBVIOUS
      <3> QED  BY <2>1, <3>1, Zenon
    <2>3. i < j \/ j < i
      BY <1>3
    <2> QED  BY <1>4, <2>2, <2>3
  <1>6. s \in Injection(1 .. k, S)
    BY <1>4, <1>5 DEF Injection, IsInjective
  <1>7. s \in Surjection(1 .. k, S)
    BY <1>1, <1>3, <1>6, FS_Injection DEF k
  <1>8. Range(s) = S
    BY <1>4, <1>7 DEF Surjection, Range
  <1>9. s \in Seq(Nat)
    <2>1. \A i \in 1 .. k : s[i] \in S
      BY <1>4
    <2>2. S \subseteq Nat
      OBVIOUS
    <2>3. s \in [1 .. k -> Nat]
      BY <1>4, <2>1, <2>2
    <2> QED  BY <1>3, <2>3
  <1> QED  BY <1>8, <1>9 DEF s

\* Going i slots back from slot n of the ring.
Back(n, i) == IF n >= i THEN n - i ELSE n + HistoryMax - i

\* The index arithmetic of the ring, without the modulo.
LEMMA SlotIs ==
  ASSUME NEW n \in 0 .. HistoryMax - 1
  PROVE  /\ \A i \in 1 .. HistoryMax : /\ (n + HistoryMax - i) % HistoryMax = Back(n, i)
                                       /\ Back(n, i) \in 0 .. HistoryMax - 1
         /\ (n + 1) % HistoryMax = IF n + 1 = HistoryMax THEN 0 ELSE n + 1
  <1>1. HistoryMax \in Nat \ {0}
    BY VerdictsAssumption
  <1>2. ASSUME NEW m \in 0 .. HistoryMax - 1
        PROVE  m % HistoryMax = m /\ (m + HistoryMax) % HistoryMax = m
    BY <1>1
  <1>3. HistoryMax % HistoryMax = 0
    BY <1>1
  <1>4. ASSUME NEW i \in 1 .. HistoryMax
        PROVE  /\ (n + HistoryMax - i) % HistoryMax = Back(n, i)
               /\ Back(n, i) \in 0 .. HistoryMax - 1
    <2>1. CASE n >= i
      <3>1. n - i \in 0 .. HistoryMax - 1 /\ n + HistoryMax - i = (n - i) + HistoryMax
        BY <1>1, <2>1
      <3> QED  BY <1>2, <2>1, <3>1 DEF Back
    <2>2. CASE n < i
      <3>1. n + HistoryMax - i \in 0 .. HistoryMax - 1 /\ ~(n >= i)
        BY <1>1, <2>2
      <3> QED  BY <1>2, <3>1 DEF Back
    <2> QED  BY <1>1, <2>1, <2>2
  <1>5. n + 1 = HistoryMax \/ n + 1 \in 0 .. HistoryMax - 1
    BY <1>1
  <1> QED  BY <1>2, <1>3, <1>4, <1>5

\* The last entries of l up to the u-th, newest first.
Latest(l, u) == Reverse(Newest(SubSeq(l, 1, u), HistoryMax))

\* Entry by entry.
LEMMA LatestIs ==
  ASSUME NEW l \in Seq(Verdict), NEW u \in 0 .. Len(l)
  PROVE  /\ Latest(l, u) \in Seq(Verdict)
         /\ Len(Latest(l, u)) = IF u < HistoryMax THEN u ELSE HistoryMax
         /\ \A i \in 1 .. Len(Latest(l, u)) : Latest(l, u)[i] = l[u + 1 - i]
         /\ Range(Latest(l, u)) \subseteq Range(l)
  <1> DEFINE V == Verdict
  <1> HIDE DEF V
  <1>1. HistoryMax \in Nat \ {0} /\ u \in Nat /\ l \in Seq(V)
    BY VerdictsAssumption DEF V
  <1> DEFINE s == SubSeq(l, 1, u)
             m == IF u > HistoryMax THEN u - HistoryMax + 1 ELSE 1
             q == SubSeq(s, m, u)
             k == IF u < HistoryMax THEN u ELSE HistoryMax
  <1>2. s \in Seq(V) /\ Len(s) = u /\ \A i \in 1 .. u : s[i] = l[i]
    <2>1. \A i \in 1 .. u : l[i] \in V
      BY <1>1
    <2>2. /\ SubSeq(l, 1, u) \in Seq(V)
          /\ Len(SubSeq(l, 1, u)) = IF 1 <= u THEN u - 1 + 1 ELSE 0
          /\ \A i \in 1 .. u - 1 + 1 : SubSeq(l, 1, u)[i] = l[1 + i - 1]
      BY <1>1, <2>1, SubSeqProperties
    <2>3. u - 1 + 1 = u /\ \A i \in 1 .. u : 1 + i - 1 = i
      BY <1>1
    <2> QED  BY <1>1, <2>2, <2>3
  <1> HIDE DEF s
  <1>3. m \in Int /\ m >= 1 /\ u - m + 1 = k /\ k \in Nat /\ k <= u /\ (m <= u \/ k = 0)
    BY <1>1
  <1>4. q \in Seq(V) /\ Len(q) = k /\ \A i \in 1 .. k : q[i] = s[m + i - 1]
    <2> HIDE DEF m, k
    <2>1. \A i \in m .. u : s[i] \in V
      BY <1>1, <1>2, <1>3
    <2>2. /\ SubSeq(s, m, u) \in Seq(V)
          /\ Len(SubSeq(s, m, u)) = IF m <= u THEN u - m + 1 ELSE 0
          /\ \A i \in 1 .. u - m + 1 : SubSeq(s, m, u)[i] = s[m + i - 1]
      BY <1>1, <1>3, <2>1, SubSeqProperties
    <2> QED  BY <1>1, <1>3, <2>2
  <1>5. Latest(l, u) = [i \in 1 .. k |-> q[(k - i) + 1]]
    <2>1. Newest(s, HistoryMax) = q
      BY <1>2 DEF Newest
    <2> HIDE DEF q, k
    <2> QED  BY <1>4, <2>1 DEF Latest, Reverse, s
  <1>6. \A i \in 1 .. k : q[(k - i) + 1] = l[u + 1 - i] /\ u + 1 - i \in 1 .. Len(l)
    <2> SUFFICES ASSUME NEW i \in 1 .. k
                 PROVE  q[(k - i) + 1] = l[u + 1 - i] /\ u + 1 - i \in 1 .. Len(l)
      OBVIOUS
    <2>1. (k - i) + 1 \in 1 .. k /\ m + ((k - i) + 1) - 1 = u + 1 - i /\ u + 1 - i \in 1 .. u
      <3> HIDE DEF m, k
      <3> QED  BY <1>1, <1>3
    <2> HIDE DEF q, m, k
    <2>2. q[(k - i) + 1] = s[u + 1 - i]
      BY <1>4, <2>1
    <2> QED  BY <1>1, <1>2, <2>1, <2>2
  <1> HIDE DEF q, k
  <1>7. \A i \in 1 .. k : l[u + 1 - i] \in V
    BY <1>1, <1>6
  <1>8. Latest(l, u) = [i \in 1 .. k |-> l[u + 1 - i]]
    BY <1>5, <1>6
  <1>9. Latest(l, u) \in Seq(V) /\ Len(Latest(l, u)) = k
    BY <1>3, <1>7, <1>8
  <1>10. Range(Latest(l, u)) \subseteq Range(l)
    <2>1. DOMAIN Latest(l, u) = 1 .. k /\ DOMAIN l = 1 .. Len(l)
      BY <1>1, <1>8
    <2> QED  BY <1>6, <1>8, <2>1 DEF Range
  <1> QED  BY <1>8, <1>9, <1>10 DEF V, k

\* Under the lock the ring, walked back from its cursor, is the end of the history.
LEMMA SnapshotIs ==
  ASSUME TypeOK, RingInv
  PROVE  Snapshot = Latest(log, Len(log)) /\ Len(log) \in Nat
  <1> DEFINE u == Len(log)
             h == Latest(log, u)
  <1>1. log \in Seq(Verdict)
    BY DEF TypeOK
  <1>2. u \in Nat /\ u \in 0 .. Len(log)
    BY <1>1
  <1>3. /\ h \in Seq(Verdict) /\ Len(h) = IF u < HistoryMax THEN u ELSE HistoryMax
        /\ \A i \in 1 .. Len(h) : h[i] = log[u + 1 - i]
    BY <1>1, <1>2, LatestIs
  <1> HIDE DEF h
  <1>4. Len(h) = count /\ \A i \in 1 .. count : hist[(next + HistoryMax - i) % HistoryMax] = h[i]
    BY <1>3 DEF RingInv
  <1>5. DOMAIN h = 1 .. count /\ h = [i \in DOMAIN h |-> h[i]]
    BY <1>3, <1>4
  <1>6. h = [i \in 1 .. count |-> h[i]]
    BY <1>5
  <1>7. Snapshot = [i \in 1 .. count |-> h[i]]
    BY <1>4 DEF Snapshot
  <1> QED  BY <1>2, <1>6, <1>7 DEF h

-----------------------------------------------------------------------------
(* The inductive invariant.                                                *)

\* What RecentIsNewest says of one reply, given the history l.
Recent(r, l) ==
    LET all == Keep(Latest(l, r.upto), {v \in Range(l) : r.peer \in {Root, v.uid}})
    IN  /\ IsPrefix(r.rows, all)
        /\ Len(r.rows) <= r.limit
        /\ r.whole => /\ Len(r.rows) = r.count
                      /\ r.count = r.limit \/ r.rows = all

\* What ListIsFaithful says of one reply.
Shown(r) == {r.rows[i].id : i \in DOMAIN r.rows}
Faithful(r) ==
    /\ \A e \in Shown(r) : Own(r, e)
    /\ r.whole => Len(r.rows) = r.count /\ r.stay \subseteq Shown(r)

\* The two properties, reply by reply, in a state and in the next.
LEMMA ReplyByReply ==
  /\ RecentIsNewest <=> \A c \in Listers : ls[c].pc = "verdicts" => Recent(ls[c], log)
  /\ RecentIsNewest' <=> \A c \in Listers : ls'[c].pc = "verdicts" => Recent(ls'[c], log')
  /\ ListIsFaithful <=> \A c \in Listers : ls[c].pc = "listed" => Faithful(ls[c])
  /\ ListIsFaithful' <=> \A c \in Listers : ls'[c].pc = "listed" => Faithful(ls[c])'
  <1>1. RecentIsNewest <=> \A c \in Listers : ls[c].pc = "verdicts" => Recent(ls[c], log)
    BY DEF RecentIsNewest, Recent, Latest
  <1>2. RecentIsNewest' <=> \A c \in Listers : ls'[c].pc = "verdicts" => Recent(ls'[c], log')
    BY DEF RecentIsNewest, Recent, Latest
  <1>3. ListIsFaithful <=> \A c \in Listers : ls[c].pc = "listed" => Faithful(ls[c])
    BY DEF ListIsFaithful, Faithful, Shown, Own
  <1>4. ListIsFaithful' <=> \A c \in Listers : ls'[c].pc = "listed" => Faithful(ls[c])'
    BY DEF ListIsFaithful, Faithful, Shown, Own
  <1> QED  BY <1>1, <1>2, <1>3, <1>4

\* The initial state satisfies the inductive invariant.
LEMMA InitIInv == Init => IInv
  <1> SUFFICES ASSUME Init PROVE IInv
    OBVIOUS
  <1> USE DEF Init
  <1>1. HistoryMax \in Nat \ {0} /\ Starts \subseteq SUBSET Files
    BY VerdictsAssumption
  <1>2. NoFile \in Reasons /\ NoUser \in Uids /\ Root \in Uids
    BY DEF Reasons, Uids
  <1>3. Idle \in Scan /\ NoRecord \in Verdict
    BY <1>2 DEF Idle, Scan, NoRecord, Verdict
  <1>4. NoReply \in ListReply
    BY DEF NoReply, ListReply
  <1>5. TypeOK
    BY <1>1, <1>3, <1>4 DEF TypeOK
  <1>6. EvidenceInv
    BY DEF EvidenceInv, Idle
  <1>7. RingInv
    BY <1>1 DEF RingInv
  <1>8. RecentInv /\ RecentIsNewest /\ ListIsFaithful
    BY DEF RecentInv, RecentIsNewest, ListIsFaithful, NoReply
  <1>9. NumberInv
    BY DEF NumberInv, Idle, NoReply, Range
  <1>10. ListInv
    BY DEF ListInv, NoReply
  <1> QED  BY <1>5, <1>6, <1>7, <1>8, <1>9, <1>10 DEF IInv

\* record_verdict_history() keeps the ring the end of the history.
LEMMA RecordRing ==
  ASSUME TypeOK, RingInv, NEW t \in Scanners, Record(t)
  PROVE  /\ RingInv' /\ log' \in Seq(Verdict) /\ hist' \in [0 .. HistoryMax - 1 -> Verdict]
         /\ count' \in Nat /\ next' \in 0 .. HistoryMax - 1 /\ nextId' \in Nat
         /\ Len(log') = Len(log) + 1 /\ Len(log) \in Nat
         /\ \A i \in 1 .. Len(log) : log'[i] = log[i]
         /\ log'[Len(log) + 1] = [id |-> nextId, file |-> sc[t].file, uid |-> sc[t].uid,
                verdict |-> sc[t].verdict, by |-> sc[t].by, faulty |-> sc[t].faulty]
  <1> DEFINE rec == [id |-> nextId, file |-> sc[t].file, uid |-> sc[t].uid,
                     verdict |-> sc[t].verdict, by |-> sc[t].by, faulty |-> sc[t].faulty]
             V == Verdict
             H == HistoryMax
  <1>1. rec \in V
    BY DEF TypeOK, Scan, Verdict
  <1>2. H \in Nat \ {0}
    BY VerdictsAssumption
  <1>3. /\ hist' = [hist EXCEPT ![next] = rec] /\ log' = Append(log, rec)
        /\ nextId' = nextId + 1 /\ next' = (next + 1) % H
        /\ count' = IF count < H THEN count + 1 ELSE count
    BY DEF Record
  <1>4. /\ hist \in [0 .. H - 1 -> V] /\ log \in Seq(V)
        /\ count \in Nat /\ next \in 0 .. H - 1 /\ nextId \in Nat
    BY DEF TypeOK
  <1>5. next' \in 0 .. H - 1 /\ next' = IF next + 1 = H THEN 0 ELSE next + 1
    BY <1>2, <1>3, <1>4, SlotIs
  <1> HIDE DEF V, rec
  <1>6. /\ log' \in Seq(V) /\ Len(log') = Len(log) + 1 /\ Len(log) \in Nat
        /\ \A i \in 1 .. Len(log) : log'[i] = log[i]
        /\ log'[Len(log) + 1] = rec
    BY <1>1, <1>3, <1>4
  <1>7. /\ hist' \in [0 .. H - 1 -> V] /\ hist'[next] = rec
        /\ \A i \in 0 .. H - 1 : i # next => hist'[i] = hist[i]
    BY <1>1, <1>3, <1>4
  <1>8. count' = IF Len(log') < H THEN Len(log') ELSE H
    BY <1>2, <1>3, <1>4, <1>6 DEF RingInv
  <1>9. ASSUME NEW i \in 1 .. count'
        PROVE  hist'[(next' + H - i) % H] = log'[Len(log') + 1 - i]
    <2>1. i \in Int /\ i >= 1 /\ i <= H /\ i <= Len(log')
      BY <1>2, <1>6, <1>8
    <2>2. (next' + H - i) % H = Back(next', i)
      BY <1>5, <2>1, SlotIs
    <2>3. CASE i = 1
      <3>1. Back(next', i) = next
        BY <1>2, <1>4, <1>5, <2>3 DEF Back
      <3>2. Len(log') + 1 - i = Len(log) + 1
        BY <1>6, <2>3
      <3> QED  BY <1>6, <1>7, <2>2, <3>1, <3>2
    <2>4. CASE i # 1
      <3>1. i - 1 \in 1 .. count /\ i - 1 \in 1 .. H
        BY <1>2, <1>3, <1>4, <1>8, <2>1, <2>4
      <3>2. Back(next', i) = Back(next, i - 1) /\ Back(next, i - 1) \in 0 .. H - 1
            /\ Back(next, i - 1) # next
        <4>1. Back(next', i) = Back(next, i - 1)
          BY <1>2, <1>4, <1>5, <2>1, <2>4 DEF Back
        <4>2. Back(next, i - 1) \in 0 .. H - 1 /\ Back(next, i - 1) # next
          BY <1>2, <1>4, <2>1, <2>4 DEF Back
        <4> QED  BY <4>1, <4>2
      <3>3. (next + H - (i - 1)) % H = Back(next, i - 1)
        BY <1>4, <3>1, SlotIs
      <3>4. hist[(next + H - (i - 1)) % H] = log[Len(log) + 1 - (i - 1)]
        BY <3>1 DEF RingInv
      <3>5. Len(log) + 1 - (i - 1) = Len(log') + 1 - i /\ Len(log') + 1 - i \in 1 .. Len(log)
        <4> HIDE DEF H
        <4> QED  BY <1>6, <2>1, <2>4
      <3>6. hist'[Back(next', i)] = hist[Back(next, i - 1)]
        BY <1>7, <3>2
      <3> QED  BY <1>6, <2>2, <3>3, <3>4, <3>5, <3>6
    <2> QED  BY <2>3, <2>4
  <1>10. RingInv'
    BY <1>8, <1>9 DEF RingInv
  <1>11. count' \in Nat /\ nextId' \in Nat
    BY <1>2, <1>3, <1>4
  <1> QED  BY <1>5, <1>6, <1>7, <1>10, <1>11 DEF V, rec

\* perform_scan() ends with a verdict that the evidence justifies.
LEMMA ScanEnds ==
  ASSUME TypeOK, NEW t \in Scanners, NEW f \in Files, perform_scan(t, f)
  PROVE  \E r \in Scan : /\ sc' = [sc EXCEPT ![t] = r]
                         /\ r.pc \in {"quarantine", "record"}
                         /\ r.file = f /\ r.no = scans + 1 /\ Justified(r)
  <1>1. PICK bad \in {"none", "owner", "hash", "yara", "fuzzy", "tlsh"} :
          LET opened == OpenFile(t, f, IF bad = "owner" THEN NoUser ELSE Owner[f])
              hashed == Hash(opened, bad = "hash")
              matched == Yara(hashed, bad = "yara")
              compared == Fuzzy(matched, bad = "fuzzy")
          IN  sc' = [sc EXCEPT ![t] = [Tlsh(compared, bad = "tlsh") EXCEPT !.eof = FALSE]]
    BY DEF perform_scan
  <1> DEFINE n == scans + 1
             opened == OpenFile(t, f, IF bad = "owner" THEN NoUser ELSE Owner[f])
             hashed == Hash(opened, bad = "hash")
             matched == Yara(hashed, bad = "yara")
             compared == Fuzzy(matched, bad = "fuzzy")
             done == Tlsh(compared, bad = "tlsh")
             r == [done EXCEPT !.eof = FALSE]
  <1>2. sc' = [sc EXCEPT ![t] = r]
    BY <1>1
  <1>3. n \in Nat
    BY DEF TypeOK
  <1> HIDE DEF n
  <1>4. Going(opened, f, n, FALSE) /\ opened.pc = "scan" /\ ~opened.faulty
    <2>1. (IF bad = "owner" THEN NoUser ELSE Owner[f]) \in Uids /\ NoFile \in Reasons
      BY DEF Uids, Reasons
    <2> DEFINE owner == IF bad = "owner" THEN NoUser ELSE Owner[f]
               sha == t \in Workers
    <2>2. opened = [Idle EXCEPT !.pc = "scan", !.no = n, !.file = f, !.uid = owner, !.sha = sha]
      BY Zenon DEF OpenFile, n
    <2>3. sha \in BOOLEAN /\ owner \in Uids
      BY <2>1
    <2> HIDE DEF sha, owner, opened
    <2>4. opened = [pc |-> "scan", no |-> n, file |-> f, uid |-> owner, eof |-> FALSE,
                    sha |-> sha, verdict |-> "CLEAN", by |-> NoFile, faulty |-> FALSE]
      BY <2>2 DEF Idle
    <2>5. opened \in Running
      BY <1>3, <2>1, <2>3, <2>4 DEF Running
    <2> QED  BY <2>4, <2>5 DEF Going
  <1> HIDE DEF opened
  <1>5. Going(hashed, f, n, FALSE) /\ hashed.pc = "scan" /\ ~hashed.faulty
    BY <1>3, <1>4, HashGoes
  <1> HIDE DEF hashed
  <1>6. Going(matched, f, n, YaraBad(f))
    BY <1>3, <1>5, YaraGoes
  <1> HIDE DEF matched
  <1>7. Going(compared, f, n, YaraBad(f) \/ FuzzyBad(f))
    BY <1>3, <1>6, FuzzyGoes
  <1> HIDE DEF compared
  <1>8. Going(done, f, n, KnownBad(f)) /\ done.pc # "scan"
    BY <1>3, <1>7, TlshGoes
  <1> HIDE DEF done
  <1>9. done \in Running /\ done.file = f /\ done.no = n
    BY <1>8 DEF Going
  <1>10. /\ r \in Scan /\ r.pc \in {"quarantine", "record"} /\ r.file = f /\ r.no = n
         /\ r.pc = done.pc /\ r.verdict = done.verdict /\ r.faulty = done.faulty
    BY <1>8, <1>9 DEF Running, Scan
  <1>11. Justified(r)
    BY <1>8, <1>10 DEF Going, Justified
  <1> HIDE DEF r
  <1> QED  BY <1>2, <1>10, <1>11 DEF n

\* Frames: the conjuncts of the invariant and what they speak of.
LEMMA EvidenceFrame ==
  ASSUME EvidenceInv, UNCHANGED <<sc, told, log>>
  PROVE  EvidenceInv'
  BY DEF EvidenceInv, Logged, Justified

\* The ring changes only when a verdict is recorded.
LEMMA RingFrame ==
  ASSUME RingInv, UNCHANGED ring
  PROVE  RingInv'
  BY DEF RingInv, ring

\* A reply stays as it is while the history does.
LEMMA RecentFrame ==
  ASSUME RecentInv, RecentIsNewest, log' = log,
         \A c \in Listers : ls'[c].pc = "verdicts" =>
            /\ ls[c].pc = "verdicts" /\ ls'[c].rows = ls[c].rows /\ ls'[c].upto = ls[c].upto
            /\ ls'[c].peer = ls[c].peer /\ ls'[c].limit = ls[c].limit
            /\ ls'[c].whole = ls[c].whole /\ ls'[c].count = ls[c].count
  PROVE  RecentInv' /\ RecentIsNewest'
  <1>1. RecentInv'
    BY DEF RecentInv
  <1>2. \A c \in Listers : ls'[c].pc = "verdicts" => Recent(ls[c], log)
    BY ReplyByReply
  <1>3. \A c \in Listers : ls'[c].pc = "verdicts" => Recent(ls'[c], log')
    BY <1>2 DEF Recent
  <1> QED  BY <1>1, <1>3, ReplyByReply

\* What ListInv and NumberInv say of one reply.
ListOK(r) ==
    /\ r.pc # "idle" => r.peer \in Users
    /\ r.pc \in {"check", "rows"} => Listing(r)
    /\ r.pc = "check" => r.rows = <<>> /\ ~r.whole /\ \A j \in r.visible : j < r.i
    /\ r.pc = "rows" =>
         /\ r.rows \in Seq(Row) /\ ~r.whole
         /\ r.count = Cardinality(r.visible)
         /\ Len(r.rows) = Cardinality(Passed(r))
         /\ Shown(r) = {r.names[j] : j \in Passed(r)}
    /\ r.pc = "listed" =>
         /\ r.rows \in Seq(Row)
         /\ \A k \in DOMAIN r.rows : r.rows[k].id \in Range(r.names)
Numbered(r) ==
    /\ Range(r.names) \subseteq 1 .. scans
    /\ \A t \in Scanners : sc[t].pc = "quarantine" => sc[t].no \notin Range(r.names)

\* A listing of which these facts hold keeps the invariant, when nothing but it
\* has changed.
LEMMA ListerStep ==
  ASSUME IInv, NEW c \in Listers, NEW q \in ListReply, ls' = [ls EXCEPT ![c] = q],
         UNCHANGED <<sc, ring, quarantine, told, scans>>,
         q.pc = "verdicts" => q.rows \in Seq(Verdict) /\ q.upto <= Len(log) /\ Recent(q, log),
         q.pc = "listed" => Faithful(q),
         ListOK(q), Numbered(q)
  PROVE  IInv'
  <1> USE DEF IInv
  <1>1. /\ ls \in [Listers -> ListReply] /\ ls' \in [Listers -> ListReply] /\ ls'[c] = q
        /\ \A d \in Listers : d # c => ls'[d] = ls[d]
    BY DEF TypeOK
  <1>2. UNCHANGED <<sc, hist, count, next, nextId, log, there, box, told, scans>>
    BY DEF ring, quarantine
  <1>3. TypeOK'
    BY <1>1, <1>2 DEF TypeOK
  <1>4. EvidenceInv' /\ RingInv'
    BY <1>2, EvidenceFrame, RingFrame
  <1>5. RecentInv'
    BY <1>1, <1>2 DEF RecentInv
  <1>6. RecentIsNewest'
    BY <1>1, <1>2, ReplyByReply
  <1>7. NumberInv'
    <2>1. \A d \in Listers : Numbered(ls[d])
      BY DEF NumberInv, Numbered
    <2>2. \A d \in Listers : Numbered(ls'[d])
      BY <1>1, <2>1
    <2> QED  BY <1>2, <2>2 DEF NumberInv, Numbered
  <1>8. ListInv'
    <2>1. \A d \in Listers : ListOK(ls[d])
      BY DEF ListInv, ListOK, Shown
    <2>2. \A d \in Listers : ListOK(ls'[d])
      BY <1>1, <2>1
    <2> QED  BY <1>2, <2>2 DEF ListInv, ListOK, Listing, Own, Shown, Passed
  <1>9. ListIsFaithful'
    <2>1. \A d \in Listers : ls'[d].pc = "listed" => Faithful(ls'[d])
      BY <1>1, ReplyByReply
    <2>2. \A d \in Listers : Faithful(ls'[d]) => Faithful(ls[d])'
      BY <1>2 DEF Faithful, Shown, Own
    <2> QED  BY <2>1, <2>2, ReplyByReply
  <1> QED  BY <1>3, <1>4, <1>5, <1>6, <1>7, <1>8, <1>9

\* A reply at its start.
LEMMA NoReplyIs ==
  /\ NoReply \in ListReply
  /\ NoReply.pc = "idle" /\ NoReply.rows = <<>> /\ NoReply.names = <<>> /\ NoReply.i = 1
  /\ NoReply.visible = {} /\ NoReply.stay = {} /\ ~NoReply.whole
  <1>1. NoReply \in ListReply
    BY DEF NoReply, ListReply
  <1>2. /\ NoReply.pc = "idle" /\ NoReply.rows = <<>> /\ NoReply.names = <<>> /\ NoReply.i = 1
        /\ NoReply.visible = {} /\ NoReply.stay = {} /\ ~NoReply.whole
    BY DEF NoReply
  <1> QED  BY <1>1, <1>2

\* VERDICTS RECENT replies with the newest verdicts.
LEMMA RecentReplies ==
  ASSUME IInv, NEW c \in Listers, cmd_verdicts_recent(c)
  PROVE  IInv'
  <1> USE DEF IInv
  <1> DEFINE seen(peer) == Keep(Snapshot, {r \in Range(Snapshot) : verdict_visible_to(r, peer)})
             took(peer, n) == IF Len(seen(peer)) < n THEN Len(seen(peer)) ELSE n
             reply(peer, n, sent, whole) ==
               [NoReply EXCEPT !.pc = "verdicts", !.peer = peer,
                  !.rows = SubSeq(seen(peer), 1, sent), !.count = took(peer, n),
                  !.whole = whole, !.upto = Len(log), !.limit = n]
  <1>1. PICK n \in 1 .. HistoryMax, peer \in Users :
          LET sees == Keep(Snapshot, {r \in Range(Snapshot) : verdict_visible_to(r, peer)})
              takes == IF Len(sees) < n THEN Len(sees) ELSE n
          IN \E sent \in 0 .. takes, whole \in BOOLEAN :
               /\ whole => sent = takes
               /\ Disturbed(~whole)
               /\ ls' = [ls EXCEPT ![c] = [NoReply EXCEPT
                           !.pc = "verdicts", !.peer = peer, !.rows = SubSeq(sees, 1, sent),
                           !.count = takes, !.whole = whole, !.upto = Len(log), !.limit = n]]
    BY DEF cmd_verdicts_recent
  <1>2. PICK sent \in 0 .. took(peer, n), whole \in BOOLEAN :
            (whole => sent = took(peer, n)) /\ ls' = [ls EXCEPT ![c] = reply(peer, n, sent, whole)]
    BY <1>1
  <1> DEFINE all == seen(peer)
             take == took(peer, n)
             rows == SubSeq(all, 1, sent)
             u == Len(log)
             vis == {r \in Range(log) : peer \in {Root, r.uid}}
             q == [NoReply EXCEPT !.pc = "verdicts", !.peer = peer, !.rows = rows, !.count = take,
                                  !.whole = whole, !.upto = u, !.limit = n]
  <1>3. n \in Nat
    BY VerdictsAssumption
  <1>4. Snapshot = Latest(log, u) /\ u \in Nat /\ log \in Seq(Verdict)
    BY SnapshotIs DEF TypeOK
  <1>5. Latest(log, u) \in Seq(Verdict) /\ Range(Latest(log, u)) \subseteq Range(log)
    BY <1>4, LatestIs
  <1>6. all \in Seq(Verdict) /\ all = Keep(Latest(log, u), vis)
    <2> DEFINE S == {r \in Range(Latest(log, u)) : verdict_visible_to(r, peer)}
    <2>1. Range(Latest(log, u)) \cap S = Range(Latest(log, u)) \cap vis
      BY <1>5 DEF verdict_visible_to
    <2>2. all = Keep(Latest(log, u), S)
      BY <1>4
    <2> HIDE DEF S, vis
    <2>3. Keep(Latest(log, u), S) = Keep(Latest(log, u), vis)
      BY <1>5, <2>1, KeepSame
    <2>4. Keep(Latest(log, u), S) \in Seq(Verdict)
      BY <1>5, KeepIs
    <2> QED  BY <2>2, <2>3, <2>4
  <1> HIDE DEF seen
  <1>7. take = (IF Len(all) < n THEN Len(all) ELSE n) /\ sent \in 0 .. take
    BY <1>2
  <1>8. take \in Nat /\ take <= Len(all) /\ take <= n /\ (take = Len(all) \/ take = n)
    BY <1>3, <1>6
  <1>9. /\ rows \in Seq(Verdict) /\ Len(rows) = sent /\ sent <= n
        /\ IsPrefix(rows, all) /\ (sent = take => take = n \/ rows = all)
    <2>1. all \in Seq(Verdict) /\ sent \in 0 .. take
      BY <1>6, <1>7
    <2> HIDE DEF all, took, take
    <2>2. Len(all) \in Nat /\ sent \in Nat /\ sent <= Len(all) /\ sent <= n
      BY <1>3, <1>8, <2>1
    <2>3. rows \in Seq(Verdict) /\ Len(rows) = sent
      BY <2>1, <2>2
    <2>4. sent = Len(all) => rows = all
      BY <2>1, SubSeqFull
    <2>5. SubSeq(rows, 1, sent) = rows
      BY <2>3, SubSeqFull
    <2> QED  BY <1>8, <2>2, <2>3, <2>4, <2>5 DEF IsPrefix
  <1>10. ls' = [ls EXCEPT ![c] = q] /\ UNCHANGED <<sc, ring, quarantine, told, scans>>
    <2>1. ls' = [ls EXCEPT ![c] = q]
      BY <1>2
    <2>2. UNCHANGED <<sc, ring, quarantine, told, scans>>
      BY Zenon DEF cmd_verdicts_recent
    <2> QED  BY <2>1, <2>2
  <1>11. /\ q \in ListReply /\ q.pc = "verdicts" /\ q.peer = peer /\ q.names = <<>>
         /\ q.rows = rows /\ q.upto = u /\ q.limit = n /\ q.whole = whole /\ q.count = take
    <2>1. /\ rows \in Seq(Verdict) \cup Seq(Row) /\ u \in Nat /\ take \in Nat
      BY <1>4, <1>9, <1>8
    <2> HIDE DEF took, take, rows, u, all
    <2>2. q \in ListReply
      BY <1>3, <2>1, NoReplyIs DEF ListReply
    <2>3. NoReply \in ListReply
      BY NoReplyIs
    <2>4. /\ q.pc = "verdicts" /\ q.peer = peer /\ q.names = NoReply.names
          /\ q.rows = rows /\ q.upto = u /\ q.limit = n /\ q.whole = whole /\ q.count = take
      BY <2>3 DEF ListReply
    <2> HIDE DEF q
    <2> QED  BY <2>2, <2>4, NoReplyIs
  <1> HIDE DEF took, take, rows, q
  <1>12. Recent(q, log)
    <2> HIDE DEF all
    <2> QED  BY <1>2, <1>6, <1>9, <1>11 DEF Recent, take
  <1>13. ListOK(q) /\ Numbered(q)
    <2>1. Range(<<>>) = {}
      BY DEF Range
    <2> QED  BY <1>11, <2>1 DEF ListOK, Numbered
  <1>14. q.rows \in Seq(Verdict) /\ q.upto <= Len(log)
    BY <1>4, <1>9, <1>11
  <1> QED  BY <1>10, <1>11, <1>12, <1>13, <1>14, ListerStep

\* scandir() finds every entry there is.
LEMMA NamesListed ==
  ASSUME IInv, NEW c \in Listers, ListNames(c)
  PROVE  IInv'
  <1> USE DEF IInv
  <1>1. PICK peer \in Users :
          ls' = [ls EXCEPT ![c] = [NoReply EXCEPT
                  !.pc = "check", !.peer = peer, !.names = Sorted(DOMAIN box),
                  !.stay = {e \in DOMAIN box : Root = peer \/ box[e].uid = peer}]]
    BY DEF ListNames
  <1> DEFINE names == Sorted(DOMAIN box)
             stay == {e \in DOMAIN box : Root = peer \/ box[e].uid = peer}
             q == [NoReply EXCEPT !.pc = "check", !.peer = peer, !.names = names, !.stay = stay]
  <1>2. scans \in Nat /\ DOMAIN box \in SUBSET (1 .. scans)
    BY DEF TypeOK
  <1>3. names \in Seq(Nat) /\ Range(names) = DOMAIN box
    BY <1>2, SortedIs
  <1>4. stay \in SUBSET Nat
    BY <1>2
  <1> HIDE DEF names
  <1>5. /\ q \in ListReply /\ q.pc = "check" /\ q.peer = peer /\ q.rows = <<>> /\ q.names = names
        /\ q.i = 1 /\ q.visible = {} /\ q.stay = stay /\ ~q.whole
    <2> HIDE DEF stay
    <2>1. q \in ListReply
      BY <1>3, <1>4, NoReplyIs DEF ListReply
    <2>2. NoReply \in ListReply
      BY NoReplyIs
    <2>3. /\ q.pc = "check" /\ q.peer = peer /\ q.rows = NoReply.rows /\ q.names = names
          /\ q.i = NoReply.i /\ q.visible = NoReply.visible /\ q.stay = stay
          /\ q.whole = NoReply.whole
      BY <2>2 DEF ListReply
    <2> HIDE DEF q
    <2> QED  BY <2>1, <2>3, NoReplyIs
  <1>6. ls' = [ls EXCEPT ![c] = q] /\ UNCHANGED <<sc, ring, quarantine, told, scans>>
    BY <1>1 DEF ListNames, names
  <1> HIDE DEF q
  <1>7. ListOK(q)
    <2>1. Len(names) \in Nat
      BY <1>3
    <2> QED  BY <1>3, <1>5, <2>1 DEF ListOK, Listing, Own
  <1>8. Numbered(q)
    BY <1>2, <1>3, <1>5 DEF Numbered, NumberInv
  <1> QED  BY <1>5, <1>6, <1>7, <1>8, ListerStep

\* The first pass: what it has found stays true of the entries it has passed.
LEMMA EntryChecked ==
  ASSUME IInv, NEW c \in Listers, CheckEntry(c)
  PROVE  IInv'
  <1> USE DEF IInv
  <1>0. PICK read \in BOOLEAN :
           /\ ls[c].peer = Root => read
           /\ ls' = [ls EXCEPT
                 ![c].i = ls[c].i + 1,
                 ![c].visible = IF Visible(c, ls[c].names[ls[c].i], read)
                                THEN @ \cup {ls[c].i} ELSE @,
                 ![c].stay = IF read THEN @ ELSE @ \ {ls[c].names[ls[c].i]}]
    BY DEF CheckEntry
  <1> DEFINE r == ls[c]
             seen == IF Visible(c, r.names[r.i], read) THEN r.visible \cup {r.i} ELSE r.visible
             stay == IF read THEN r.stay ELSE r.stay \ {r.names[r.i]}
             q == [r EXCEPT !.i = r.i + 1, !.visible = seen, !.stay = stay]
  <1>1. r \in ListReply /\ ls \in [Listers -> ListReply]
    BY DEF TypeOK
  <1>2. ls' = [ls EXCEPT ![c] = q] /\ UNCHANGED <<sc, ring, quarantine, told, scans>>
    BY <1>0, <1>1 DEF CheckEntry
  <1>3. r.pc = "check" /\ r.i <= Len(r.names) /\ ListOK(r) /\ Numbered(r)
    BY DEF CheckEntry, ListInv, NumberInv, ListOK, Numbered, Shown
  <1>4. r.i \in Nat /\ r.names \in Seq(Nat) /\ Len(r.names) \in Nat /\ r.visible \in SUBSET Nat
    BY <1>1 DEF ListReply
  <1>5. Listing(r) /\ r.rows = <<>> /\ ~r.whole /\ (\A j \in r.visible : j < r.i)
        /\ r.i \in 1 .. Len(r.names)
    BY <1>3, <1>4 DEF ListOK, Listing
  <1>6. seen \in SUBSET Nat /\ seen \subseteq r.visible \cup {r.i} /\ r.visible \subseteq seen
    BY <1>4
  <1>7. r.i \in seen => Own(r, r.names[r.i])
    BY <1>4, <1>5 DEF Visible, Own
  <1>8. r.names[r.i] \in stay => r.i \in seen
    <2> SUFFICES ASSUME r.names[r.i] \in stay PROVE r.i \in seen
      OBVIOUS
    <2>1. r.names[r.i] \in DOMAIN box /\ Own(r, r.names[r.i]) /\ read
      BY <1>5 DEF Listing
    <2>2. Visible(c, r.names[r.i], read)
      BY <2>1 DEF Visible, Own
    <2> QED  BY <2>2
  <1>13. stay \in SUBSET Nat /\ stay \subseteq r.stay
    BY <1>1 DEF ListReply
  <1> HIDE DEF seen, stay
  <1>9. /\ q \in ListReply /\ q.pc = r.pc /\ q.peer = r.peer /\ q.rows = r.rows /\ q.names = r.names
        /\ q.stay = stay /\ q.i = r.i + 1 /\ q.visible = seen /\ q.whole = r.whole
    <2> HIDE DEF r
    <2>1. q \in ListReply
      <3>1. r.i + 1 \in Nat /\ seen \in SUBSET Nat /\ stay \in SUBSET Nat
        BY <1>4, <1>6, <1>13
      <3> QED  BY <1>1, <3>1 DEF ListReply
    <2>2. /\ q.pc = r.pc /\ q.peer = r.peer /\ q.rows = r.rows /\ q.names = r.names
          /\ q.stay = stay /\ q.i = r.i + 1 /\ q.visible = seen /\ q.whole = r.whole
      BY <1>1 DEF ListReply
    <2> QED  BY <2>1, <2>2
  <1> HIDE DEF q, r
  <1>10. Numbered(q)
    BY <1>3, <1>9 DEF Numbered
  <1>11. Listing(q) /\ \A j \in seen : j < q.i
    <2>1. q.i \in 1 .. Len(q.names) + 1 /\ \A j \in seen : j < q.i /\ j \in 1 .. Len(q.names)
      BY <1>4, <1>5, <1>6, <1>9 DEF Listing
    <2>2. ASSUME NEW j \in 1 .. Len(q.names), q.names[j] \in q.stay, j < q.i
          PROVE  j \in q.visible
      <3>1. j = r.i \/ j < r.i
        BY <1>4, <1>9, <2>2
      <3>2. j < r.i => j \in r.visible
        BY <1>5, <1>9, <1>13, <2>2 DEF Listing
      <3>3. CASE j < r.i
        BY <1>6, <1>9, <3>2, <3>3
      <3>4. CASE j = r.i
        BY <1>8, <1>9, <2>2, <3>4
      <3> QED  BY <3>1, <3>3, <3>4
    <2>3. \A e \in q.stay \cup {q.names[j] : j \in q.visible} : Own(q, e)
      <3>1. \A e \in q.stay \cup {q.names[j] : j \in q.visible} : Own(r, e)
        BY <1>5, <1>6, <1>7, <1>9, <1>13 DEF Listing
      <3> QED  BY <1>9, <3>1 DEF Own
    <2>4. q.stay \subseteq Range(q.names) \cap DOMAIN box
      BY <1>5, <1>9, <1>13 DEF Listing
    <2> QED  BY <1>3, <1>9, <2>1, <2>2, <2>3, <2>4 DEF Listing
  <1>12. ListOK(q)
    BY <1>3, <1>5, <1>9, <1>11 DEF ListOK
  <1> QED  BY <1>2, <1>3, <1>9, <1>10, <1>12, ListerStep

\* COUNT is the number of entries the first pass found.
LEMMA CountSent ==
  ASSUME IInv, NEW c \in Listers, SendCount(c)
  PROVE  IInv'
  <1> USE DEF IInv
  <1> DEFINE r == ls[c]
             n == Cardinality(r.visible)
             q == [r EXCEPT !.pc = "rows", !.i = 1, !.count = n]
  <1>1. r \in ListReply /\ ls \in [Listers -> ListReply]
    BY DEF TypeOK
  <1>2. ls' = [ls EXCEPT ![c] = q] /\ UNCHANGED <<sc, ring, quarantine, told, scans>>
    BY <1>1 DEF SendCount
  <1>3. r.pc = "check" /\ r.i > Len(r.names) /\ ListOK(r) /\ Numbered(r)
    BY DEF SendCount, ListInv, NumberInv, ListOK, Numbered, Shown
  <1>4. r.i \in Nat /\ Len(r.names) \in Nat /\ r.visible \in SUBSET Nat
    BY <1>1 DEF ListReply
  <1>5. Listing(r) /\ r.rows = <<>> /\ ~r.whole
    BY <1>3 DEF ListOK, Listing
  <1>6. r.visible \in SUBSET (1 .. Len(r.names)) /\ IsFiniteSet(r.visible) /\ n \in Nat
    <2>1. r.visible \in SUBSET (1 .. Len(r.names))
      BY <1>5 DEF Listing
    <2>2. IsFiniteSet(r.visible)
      BY <1>4, <2>1, SortExists
    <2> QED  BY <2>1, <2>2, FS_CardinalityType
  <1> HIDE DEF n
  <1>7. /\ q \in ListReply /\ q.pc = "rows" /\ q.peer = r.peer /\ q.rows = r.rows /\ q.names = r.names
        /\ q.stay = r.stay /\ q.i = 1 /\ q.visible = r.visible /\ q.count = n /\ q.whole = r.whole
    <2> HIDE DEF r
    <2> QED  BY <1>1, <1>6 DEF ListReply
  <1> HIDE DEF q, r
  <1>8. Numbered(q)
    BY <1>3, <1>7 DEF Numbered
  <1>9. Listing(q)
    BY <1>3, <1>4, <1>5, <1>7 DEF Listing, Own
  <1>10. Passed(q) = {}
    BY <1>4, <1>6, <1>7 DEF Passed
  <1>11. q.rows \in Seq(Row) /\ Len(q.rows) = 0 /\ Shown(q) = {}
    BY <1>5, <1>7 DEF Shown
  <1>12. ListOK(q)
    <2>1. Cardinality({}) = 0
      BY FS_EmptySet
    <2>2. q.peer \in Users
      BY <1>3, <1>7 DEF ListOK
    <2> QED  BY <1>5, <1>7, <1>9, <1>10, <1>11, <2>1, <2>2 DEF ListOK, n
  <1> QED  BY <1>2, <1>7, <1>8, <1>12, ListerStep

\* The rows sent so far are the peer's.
LEMMA RowsAreOwn ==
  ASSUME NEW r \in ListReply, ListOK(r), r.pc = "rows"
  PROVE  /\ \A e \in Shown(r) : Own(r, e)
         /\ \A k \in DOMAIN r.rows : r.rows[k].id \in Range(r.names)
  <1>1. Listing(r) /\ Shown(r) = {r.names[j] : j \in Passed(r)} /\ r.names \in Seq(Nat)
    BY DEF ListOK, ListReply
  <1>2. \A j \in Passed(r) : j \in r.visible /\ j \in 1 .. Len(r.names)
    BY <1>1 DEF Passed, Listing
  <1>3. \A e \in Shown(r) : Own(r, e)
    BY <1>1, <1>2 DEF Listing
  <1>4. Shown(r) \subseteq Range(r.names)
    BY <1>1, <1>2 DEF Range
  <1>5. \A k \in DOMAIN r.rows : r.rows[k].id \in Shown(r)
    BY DEF Shown
  <1> QED  BY <1>3, <1>4, <1>5

\* The second pass goes by what the first has found.
LEMMA RowSent ==
  ASSUME IInv, NEW c \in Listers, SendRow(c)
  PROVE  IInv'
  <1> USE DEF IInv
  <1> DEFINE r == ls[c]
             e == r.names[r.i]
             row(known) == [id |-> e, known |-> known]
  <1>1. r \in ListReply /\ ls \in [Listers -> ListReply]
    BY DEF TypeOK
  <1>2. r.pc = "rows" /\ r.i <= Len(r.names) /\ ListOK(r) /\ Numbered(r)
    BY DEF SendRow, ListInv, NumberInv, ListOK, Numbered, Shown
  <1>3. r.i \in Nat /\ r.names \in Seq(Nat) /\ Len(r.names) \in Nat /\ r.visible \in SUBSET Nat
    BY <1>1 DEF ListReply
  <1>4. /\ Listing(r) /\ r.rows \in Seq(Row) /\ ~r.whole /\ r.count = Cardinality(r.visible)
        /\ Len(r.rows) = Cardinality(Passed(r)) /\ Shown(r) = {r.names[j] : j \in Passed(r)}
        /\ r.peer \in Users
    BY <1>2 DEF ListOK
  <1>5. r.i \in 1 .. Len(r.names) /\ e \in Nat
    <2> HIDE DEF r
    <2>1. r.i \in 1 .. Len(r.names)
      BY <1>2, <1>3, <1>4 DEF Listing
    <2> QED  BY <1>3, <2>1
  <1>6. UNCHANGED <<sc, ring, quarantine, told, scans>>
    BY Zenon DEF SendRow
  <1>7. CASE r.i \notin r.visible
    <2> DEFINE q == [r EXCEPT !.i = r.i + 1]
    <2>1. ls' = [ls EXCEPT ![c] = q]
      BY <1>1, <1>7 DEF SendRow
    <2> HIDE DEF r
    <2>2. /\ q \in ListReply /\ q.pc = r.pc /\ q.peer = r.peer /\ q.rows = r.rows /\ q.names = r.names
          /\ q.stay = r.stay /\ q.i = r.i + 1 /\ q.visible = r.visible /\ q.whole = r.whole
          /\ q.count = r.count
      <3>1. r.i + 1 \in Nat
        BY <1>3
      <3>2. q \in ListReply
        BY <1>1, <3>1 DEF ListReply
      <3>3. /\ q.pc = r.pc /\ q.peer = r.peer /\ q.rows = r.rows /\ q.names = r.names
            /\ q.stay = r.stay /\ q.i = r.i + 1 /\ q.visible = r.visible /\ q.whole = r.whole
            /\ q.count = r.count
        BY <1>1 DEF ListReply
      <3> QED  BY <3>2, <3>3
    <2> HIDE DEF q
    <2>3. Numbered(q)
      BY <1>2, <2>2 DEF Numbered
    <2>4. Passed(q) = Passed(r) /\ Shown(q) = Shown(r)
      BY <1>3, <1>7, <2>2 DEF Passed, Shown
    <2>5. Listing(q)
      BY <1>2, <1>3, <1>4, <1>5, <2>2 DEF Listing, Own
    <2>6. ListOK(q)
      BY <1>2, <1>4, <2>2, <2>4, <2>5 DEF ListOK
    <2> QED  BY <1>2, <1>6, <2>1, <2>2, <2>3, <2>6, ListerStep
  <1>8. ASSUME r.i \in r.visible, NEW known \in BOOLEAN,
               ls' = [ls EXCEPT ![c].i = r.i + 1, ![c].rows = Append(@, row(known))]
        PROVE  IInv'
    <2> DEFINE rows == Append(r.rows, row(known))
               q == [r EXCEPT !.i = r.i + 1, !.rows = rows]
    <2>1. ls' = [ls EXCEPT ![c] = q]
      BY <1>1, <1>8
    <2>2. row(known) \in Row /\ row(known).id = e
      <3> HIDE DEF e
      <3> QED  BY <1>5 DEF Row
    <2> HIDE DEF row, e
    <2>3. /\ rows \in Seq(Row) /\ Len(rows) = Len(r.rows) + 1 /\ rows[Len(r.rows) + 1] = row(known)
          /\ \A k \in 1 .. Len(r.rows) : rows[k] = r.rows[k]
      BY <1>4, <2>2
    <2>4. {rows[k].id : k \in DOMAIN rows} = Shown(r) \cup {e}
      <3>1. DOMAIN rows = 1 .. Len(r.rows) + 1 /\ DOMAIN r.rows = 1 .. Len(r.rows) /\ Len(r.rows) \in Nat
        BY <1>4, <2>3
      <3> HIDE DEF rows, r
      <3>2. \A x : (\E k \in DOMAIN rows : x = rows[k].id)
                     <=> (\E k \in DOMAIN r.rows : x = r.rows[k].id) \/ x = e
        <4> SUFFICES ASSUME NEW x
                     PROVE  (\E k \in DOMAIN rows : x = rows[k].id)
                              <=> (\E k \in DOMAIN r.rows : x = r.rows[k].id) \/ x = e
          OBVIOUS
        <4>1. ASSUME NEW k \in DOMAIN rows, x = rows[k].id
              PROVE  (\E j \in DOMAIN r.rows : x = r.rows[j].id) \/ x = e
          <5>1. k \in 1 .. Len(r.rows) \/ k = Len(r.rows) + 1
            BY <3>1, <4>1
          <5> QED  BY <2>2, <2>3, <3>1, <4>1, <5>1
        <4>2. ASSUME NEW k \in DOMAIN r.rows, x = r.rows[k].id
              PROVE  \E j \in DOMAIN rows : x = rows[j].id
          <5>1. k \in 1 .. Len(r.rows) /\ k \in DOMAIN rows
            BY <3>1, <4>2
          <5> QED  BY <2>3, <4>2, <5>1
        <4>3. ASSUME x = e
              PROVE  \E j \in DOMAIN rows : x = rows[j].id
          <5>1. Len(r.rows) + 1 \in DOMAIN rows
            BY <3>1
          <5> QED  BY <2>2, <2>3, <4>3, <5>1
        <4> QED  BY <4>1, <4>2, <4>3
      <3> QED  BY <3>2 DEF Shown
    <2> HIDE DEF rows, r
    <2>5. /\ q \in ListReply /\ q.pc = r.pc /\ q.peer = r.peer /\ q.rows = rows /\ q.names = r.names
          /\ q.stay = r.stay /\ q.i = r.i + 1 /\ q.visible = r.visible /\ q.whole = r.whole
          /\ q.count = r.count
      <3>1. rows \in Seq(Verdict) \cup Seq(Row) /\ r.i + 1 \in Nat
        BY <1>3, <2>3
      <3>2. q \in ListReply
        BY <1>1, <3>1 DEF ListReply
      <3>3. /\ q.pc = r.pc /\ q.peer = r.peer /\ q.rows = rows /\ q.names = r.names
            /\ q.stay = r.stay /\ q.i = r.i + 1 /\ q.visible = r.visible /\ q.whole = r.whole
            /\ q.count = r.count
        BY <1>1 DEF ListReply
      <3> QED  BY <3>2, <3>3
    <2> HIDE DEF q
    <2>6. Numbered(q)
      BY <1>2, <2>5 DEF Numbered
    <2>7. Passed(q) = Passed(r) \cup {r.i} /\ r.i \notin Passed(r)
      BY <1>3, <1>8, <2>5 DEF Passed
    <2>8. Cardinality(Passed(q)) = Cardinality(Passed(r)) + 1
      <3>1. Passed(r) \in SUBSET (1 .. Len(r.names))
        BY <1>4 DEF Passed, Listing
      <3>2. IsFiniteSet(Passed(r))
        BY <1>3, <3>1, SortExists
      <3> QED  BY <2>7, <3>2, FS_AddElement
    <2>9. Shown(q) = {q.names[j] : j \in Passed(q)}
      <3>1. Shown(q) = Shown(r) \cup {e}
        BY <2>4, <2>5 DEF Shown
      <3> QED  BY <1>4, <2>5, <2>7, <3>1 DEF e
    <2>10. Listing(q)
      BY <1>2, <1>3, <1>4, <1>5, <2>5 DEF Listing, Own
    <2>11. ListOK(q)
      BY <1>2, <1>4, <2>3, <2>5, <2>8, <2>9, <2>10 DEF ListOK
    <2> QED  BY <1>2, <1>6, <2>1, <2>5, <2>6, <2>11, ListerStep
  <1>9. CASE ls' = [ls EXCEPT ![c].pc = "listed"]
    <2> DEFINE q == [r EXCEPT !.pc = "listed"]
    <2>1. ls' = [ls EXCEPT ![c] = q]
      BY <1>1, <1>9
    <2>2. (\A d \in Shown(r) : Own(r, d)) /\ \A k \in DOMAIN r.rows : r.rows[k].id \in Range(r.names)
      BY <1>1, <1>2, RowsAreOwn
    <2> HIDE DEF r
    <2>3. /\ q \in ListReply /\ q.pc = "listed" /\ q.peer = r.peer /\ q.rows = r.rows
          /\ q.names = r.names /\ q.whole = r.whole
      BY <1>1 DEF ListReply
    <2> HIDE DEF q
    <2>4. Numbered(q)
      BY <1>2, <2>3 DEF Numbered
    <2>5. ListOK(q)
      BY <1>4, <2>2, <2>3 DEF ListOK
    <2>6. Faithful(q)
      BY <1>4, <2>2, <2>3 DEF Faithful, Shown, Own
    <2> QED  BY <1>6, <2>1, <2>3, <2>4, <2>5, <2>6, ListerStep
  <1>10. CASE r.i \in r.visible
    <2>1. CASE ls' = [ls EXCEPT ![c].pc = "listed"]
      BY <1>9, <2>1
    <2>2. CASE \E read \in BOOLEAN :
                 ls' = [ls EXCEPT ![c].i = r.i + 1,
                    ![c].rows = Append(@, row(read /\ e \in DOMAIN box /\ box[e].uid # NoUser))]
      <3>1. PICK known \in BOOLEAN :
                 ls' = [ls EXCEPT ![c].i = r.i + 1, ![c].rows = Append(@, row(known))]
        BY <2>2, Zenon
      <3> QED  BY <1>8, <1>10, <3>1
    <2> QED  BY <1>10, <2>1, <2>2, Zenon DEF SendRow
  <1> QED  BY <1>7, <1>10

\* At the end every entry found has its row.
LEMMA EndSent ==
  ASSUME IInv, NEW c \in Listers, SendEnd(c)
  PROVE  IInv'
  <1> USE DEF IInv
  <1> DEFINE r == ls[c]
             q == [r EXCEPT !.pc = "listed", !.whole = TRUE]
  <1>1. r \in ListReply /\ ls \in [Listers -> ListReply]
    BY DEF TypeOK
  <1>2. ls' = [ls EXCEPT ![c] = q] /\ UNCHANGED <<sc, ring, quarantine, told, scans>>
    BY <1>1 DEF SendEnd
  <1>3. r.pc = "rows" /\ r.i > Len(r.names) /\ ListOK(r) /\ Numbered(r)
    BY DEF SendEnd, ListInv, NumberInv, ListOK, Numbered, Shown
  <1> HIDE DEF r
  <1>4. r.i \in Nat /\ r.names \in Seq(Nat) /\ Len(r.names) \in Nat /\ r.visible \in SUBSET Nat
    BY <1>1 DEF ListReply
  <1>5. /\ Listing(r) /\ r.rows \in Seq(Row) /\ r.count = Cardinality(r.visible)
        /\ Len(r.rows) = Cardinality(Passed(r)) /\ Shown(r) = {r.names[j] : j \in Passed(r)}
        /\ r.peer \in Users
    BY <1>3 DEF ListOK
  <1>6. (\A d \in Shown(r) : Own(r, d)) /\ \A k \in DOMAIN r.rows : r.rows[k].id \in Range(r.names)
    BY <1>1, <1>3, RowsAreOwn
  <1>7. Passed(r) = r.visible
    BY <1>3, <1>4, <1>5 DEF Passed, Listing
  <1>8. r.stay \subseteq Shown(r)
    <2> SUFFICES ASSUME NEW d \in r.stay PROVE d \in Shown(r)
      OBVIOUS
    <2>1. d \in Range(r.names)
      BY <1>5 DEF Listing
    <2>2. PICK j \in 1 .. Len(r.names) : r.names[j] = d
      BY <1>4, <2>1 DEF Range
    <2>3. j \in r.visible
      BY <1>3, <1>5, <2>2 DEF Listing
    <2> QED  BY <1>5, <1>7, <2>2, <2>3
  <1>9. /\ q \in ListReply /\ q.pc = "listed" /\ q.peer = r.peer /\ q.rows = r.rows
        /\ q.names = r.names /\ q.count = r.count /\ q.stay = r.stay
    BY <1>1 DEF ListReply
  <1> HIDE DEF q
  <1>10. Numbered(q)
    BY <1>3, <1>9 DEF Numbered
  <1>11. ListOK(q)
    BY <1>5, <1>6, <1>9 DEF ListOK
  <1>12. Faithful(q)
    BY <1>5, <1>6, <1>7, <1>8, <1>9 DEF Faithful, Shown, Own
  <1> QED  BY <1>2, <1>9, <1>10, <1>11, <1>12, ListerStep

\* The connection is over.
LEMMA HungUp ==
  ASSUME IInv, NEW c \in Listers, Hangup(c)
  PROVE  IInv'
  <1>1. ls' = [ls EXCEPT ![c] = NoReply] /\ UNCHANGED <<sc, ring, quarantine, told, scans>>
    BY DEF Hangup
  <1>2. Range(<<>>) = {}
    BY DEF Range
  <1>3. ListOK(NoReply) /\ Numbered(NoReply)
    BY <1>2, NoReplyIs DEF ListOK, Numbered
  <1> QED  BY <1>1, <1>3, NoReplyIs, ListerStep

\* The listings go on as long as the quarantine stays as it is.
LEMMA ListsFrame ==
  ASSUME ListInv, ListIsFaithful, UNCHANGED <<ls, box>>
  PROVE  ListInv' /\ ListIsFaithful'
  <1>1. ListInv'
    <2>1. \A c \in Listers : ListOK(ls[c])
      BY DEF ListInv, ListOK, Shown
    <2>2. \A c \in Listers : ListOK(ls'[c])
      BY <2>1
    <2> QED  BY <2>2 DEF ListInv, ListOK, Listing, Own, Shown, Passed
  <1>2. ListIsFaithful'
    BY DEF ListIsFaithful
  <1> QED  BY <1>1, <1>2

\* The engines run.
LEMMA ScanDone ==
  ASSUME IInv, NEW t \in Scanners, NEW f \in Files, perform_scan(t, f)
  PROVE  IInv'
  <1> USE DEF IInv
  <1>1. PICK r \in Scan : /\ sc' = [sc EXCEPT ![t] = r]
                          /\ r.pc \in {"quarantine", "record"}
                          /\ r.file = f /\ r.no = scans + 1 /\ Justified(r)
    BY ScanEnds
  <1>2. /\ scans' = scans + 1 /\ told' = [told EXCEPT ![t] = "nothing"]
        /\ UNCHANGED <<ring, hist, count, next, nextId, log, there, box, ls>>
    BY DEF perform_scan, ring, quarantine
  <1>3. /\ sc \in [Scanners -> Scan] /\ sc' \in [Scanners -> Scan] /\ sc'[t] = r
        /\ (\A u \in Scanners : u # t => sc'[u] = sc[u]) /\ scans \in Nat
    BY <1>1 DEF TypeOK
  <1>4. TypeOK'
    <2>1. told' \in [Scanners -> {"nothing", "error", "CLEAN", "MALICIOUS"}]
      BY <1>2 DEF TypeOK
    <2>2. scans' \in Nat /\ 1 .. scans \subseteq 1 .. scans'
      BY <1>2, <1>3
    <2> QED  BY <1>2, <1>3, <2>1, <2>2 DEF TypeOK
  <1>5. EvidenceInv'
    <2>1. told'[t] = "nothing" /\ \A u \in Scanners : u # t => told'[u] = told[u]
      BY <1>2 DEF TypeOK
    <2> QED  BY <1>1, <1>2, <1>3, <2>1 DEF EvidenceInv, Logged, Justified
  <1>6. RingInv'
    BY <1>2, RingFrame
  <1>7. RecentInv' /\ RecentIsNewest'
    BY <1>2, RecentFrame
  <1>8. NumberInv'
    <2>1. \A u \in Scanners : u # t /\ sc[u].pc # "idle" => sc[u].no \in 1 .. scans
      BY DEF NumberInv
    <2>2. (\A e \in 1 .. scans : e # r.no /\ e \in 1 .. scans') /\ r.no \in 1 .. scans'
          /\ r.no \notin 1 .. scans
      BY <1>1, <1>2, <1>3
    <2>3. DOMAIN box \subseteq 1 .. scans /\ \A c \in Listers : Range(ls[c].names) \subseteq 1 .. scans
      BY DEF TypeOK, NumberInv
    <2>4. \A u \in Scanners : sc'[u].pc # "idle" => sc'[u].no \in 1 .. scans'
      BY <1>3, <2>1, <2>2
    <2>5. \A u, v \in Scanners :
            u # v /\ sc'[u].pc # "idle" /\ sc'[v].pc # "idle" => sc'[u].no # sc'[v].no
      BY <1>3, <2>1, <2>2 DEF NumberInv
    <2>6. \A c \in Listers : Range(ls'[c].names) \subseteq 1 .. scans'
      BY <1>2, <2>2, <2>3
    <2>7. ASSUME NEW u \in Scanners
          PROVE  /\ sc'[u].pc = "quarantine" =>
                      sc'[u].no \notin DOMAIN box' /\ \A c \in Listers : sc'[u].no \notin Range(ls'[c].names)
                 /\ sc'[u].pc = "meta" /\ sc'[u].no \in DOMAIN box' => box'[sc'[u].no].uid = NoUser
      <3>1. CASE u = t
        BY <1>1, <1>2, <1>3, <2>2, <2>3, <3>1
      <3>2. CASE u # t
        BY <1>2, <1>3, <3>2 DEF NumberInv
      <3> QED  BY <3>1, <3>2
    <2> QED  BY <2>4, <2>5, <2>6, <2>7 DEF NumberInv
  <1>9. ListInv' /\ ListIsFaithful'
    BY <1>2, ListsFrame
  <1> QED  BY <1>4, <1>5, <1>6, <1>7, <1>8, <1>9

\* A file that cannot be opened.
LEMMA OpenFailed ==
  ASSUME IInv, NEW t \in Scanners, NEW f \in Files, OpenFails(t, f)
  PROVE  IInv'
  <1> USE DEF IInv
  <1>1. /\ scans' = scans + 1 /\ told' = [told EXCEPT ![t] = IF t \in Conns THEN "error" ELSE told[t]]
        /\ UNCHANGED <<sc, ring, hist, count, next, nextId, log, there, box, ls>>
    BY DEF OpenFails, ring, quarantine
  <1>2. scans \in Nat /\ scans' \in Nat /\ 1 .. scans \subseteq 1 .. scans'
    BY <1>1 DEF TypeOK
  <1>3. /\ told' \in [Scanners -> {"nothing", "error", "CLEAN", "MALICIOUS"}]
        /\ \A u \in Scanners : told'[u] = told[u] \/ told'[u] = "error"
    BY <1>1 DEF TypeOK
  <1>4. TypeOK'
    BY <1>1, <1>2, <1>3 DEF TypeOK
  <1>5. EvidenceInv'
    BY <1>1, <1>3 DEF EvidenceInv, Logged, Justified
  <1>6. RingInv'
    BY <1>1, RingFrame
  <1>7. RecentInv' /\ RecentIsNewest'
    BY <1>1, RecentFrame
  <1>8. NumberInv'
    BY <1>1, <1>2 DEF NumberInv
  <1>9. ListInv' /\ ListIsFaithful'
    BY <1>1, ListsFrame
  <1> QED  BY <1>4, <1>5, <1>6, <1>7, <1>8, <1>9

\* What is recorded later does not touch a reply.
LEMMA RecentGrows ==
  ASSUME NEW l \in Seq(Verdict), NEW m \in Seq(Verdict), Len(l) <= Len(m),
         \A i \in 1 .. Len(l) : m[i] = l[i],
         NEW r, r.upto \in 0 .. Len(l), Recent(r, l)
  PROVE  Recent(r, m)
  <1> DEFINE u == r.upto
             S(k) == {v \in Range(k) : r.peer \in {Root, v.uid}}
  <1>1. u \in 0 .. Len(l) /\ u \in 0 .. Len(m) /\ u \in Nat /\ Len(l) \in Nat
    OBVIOUS
  <1> HIDE DEF u
  <1>2. /\ Latest(l, u) \in Seq(Verdict)
        /\ Len(Latest(l, u)) = IF u < HistoryMax THEN u ELSE HistoryMax
        /\ \A i \in 1 .. Len(Latest(l, u)) : Latest(l, u)[i] = l[u + 1 - i]
        /\ Range(Latest(l, u)) \subseteq Range(l)
    BY <1>1, LatestIs
  <1>3. /\ Latest(m, u) \in Seq(Verdict)
        /\ Len(Latest(m, u)) = IF u < HistoryMax THEN u ELSE HistoryMax
        /\ \A i \in 1 .. Len(Latest(m, u)) : Latest(m, u)[i] = m[u + 1 - i]
        /\ Range(Latest(m, u)) \subseteq Range(m)
    BY <1>1, LatestIs
  <1>4. HistoryMax \in Nat
    BY VerdictsAssumption
  <1>5. \A i \in 1 .. Len(Latest(l, u)) : Latest(m, u)[i] = Latest(l, u)[i]
    <2> SUFFICES ASSUME NEW i \in 1 .. Len(Latest(l, u)) PROVE Latest(m, u)[i] = Latest(l, u)[i]
      OBVIOUS
    <2>1. u + 1 - i \in 1 .. Len(l)
      BY <1>1, <1>2, <1>4
    <2> QED  BY <1>2, <1>3, <2>1
  <1>6. Latest(m, u) = Latest(l, u)
    BY <1>2, <1>3, <1>5, SeqEqual
  <1>7. Range(Latest(l, u)) \cap S(l) = Range(Latest(l, u)) \cap S(m)
    BY <1>2, <1>3, <1>6
  <1> HIDE DEF S
  <1>8. Keep(Latest(m, u), S(m)) = Keep(Latest(l, u), S(l))
    BY <1>2, <1>6, <1>7, KeepSame
  <1> QED  BY <1>8 DEF Recent, u, S

\* A verdict is recorded.
LEMMA VerdictRecorded ==
  ASSUME IInv, NEW t \in Scanners, Record(t)
  PROVE  IInv'
  <1> USE DEF IInv
  <1> DEFINE n == Len(log) + 1
             rec == [id |-> nextId, file |-> sc[t].file, uid |-> sc[t].uid,
                     verdict |-> sc[t].verdict, by |-> sc[t].by, faulty |-> sc[t].faulty]
  <1>1. /\ RingInv' /\ log' \in Seq(Verdict) /\ hist' \in [0 .. HistoryMax - 1 -> Verdict]
        /\ count' \in Nat /\ next' \in 0 .. HistoryMax - 1 /\ nextId' \in Nat
        /\ Len(log') = n /\ Len(log) \in Nat
        /\ \A i \in 1 .. Len(log) : log'[i] = log[i]
        /\ log'[n] = rec
    BY RecordRing
  <1>2. /\ sc[t].pc = "record" /\ sc' = [sc EXCEPT ![t].pc = "reply"]
        /\ UNCHANGED <<there, box, ls, told, scans>>
    BY DEF Record, quarantine
  <1>3. /\ sc \in [Scanners -> Scan] /\ sc' \in [Scanners -> Scan]
        /\ sc'[t].pc = "reply" /\ sc'[t].file = sc[t].file /\ sc'[t].verdict = sc[t].verdict
        /\ sc'[t].faulty = sc[t].faulty /\ sc'[t].no = sc[t].no
        /\ \A u \in Scanners : u # t => sc'[u] = sc[u]
    BY <1>2 DEF TypeOK, Scan
  <1>4. TypeOK'
    BY <1>1, <1>2, <1>3 DEF TypeOK
  <1>5. log \in Seq(Verdict) /\ DOMAIN log = 1 .. Len(log) /\ DOMAIN log' = 1 .. n
    BY <1>1 DEF TypeOK
  <1>6. EvidenceInv'
    <2>1. rec.file = sc[t].file /\ rec.verdict = sc[t].verdict /\ rec.faulty = sc[t].faulty
      OBVIOUS
    <2>2. Justified(sc[t]) /\ sc[t].file \in Files
      BY <1>2 DEF EvidenceInv
    <2> HIDE DEF rec, n
    <2>3. \A i \in DOMAIN log' : (i \in DOMAIN log /\ log'[i] = log[i]) \/ i = n
      BY <1>1, <1>5 DEF n
    <2>4. n \in DOMAIN log' /\ \A i \in DOMAIN log : i \in DOMAIN log'
      BY <1>1, <1>5 DEF n
    <2>5. \A i \in DOMAIN log' : Justified(log'[i])
      BY <1>1, <2>1, <2>2, <2>3 DEF EvidenceInv, Justified
    <2>6. \A f, v : Logged(f, v) => Logged(f, v)'
      BY <1>1, <1>5, <2>4 DEF Logged
    <2>7. Logged(sc[t].file, sc[t].verdict)'
      BY <1>1, <1>3, <2>1, <2>4 DEF Logged
    <2>8. ASSUME NEW u \in Scanners
          PROVE  /\ sc'[u].pc # "idle" => sc'[u].file \in Files /\ Justified(sc'[u])
                 /\ sc'[u].pc = "reply" => Logged(sc[u].file, sc[u].verdict)'
                 /\ told'[u] \in {"CLEAN", "MALICIOUS"} => Logged(sc[u].file, told[u])'
      <3>1. sc'[u].file = sc[u].file
        BY <1>3
      <3>2. told'[u] \in {"CLEAN", "MALICIOUS"} => Logged(sc[u].file, told[u])
        BY <1>2 DEF EvidenceInv
      <3>3. told'[u] \in {"CLEAN", "MALICIOUS"} => Logged(sc[u].file, told[u])'
        BY <1>1, <1>2, <1>5, <2>4, <3>1, <3>2 DEF Logged
      <3>4. CASE u = t
        BY <1>3, <2>2, <2>7, <3>3, <3>4 DEF Justified
      <3>5. CASE u # t
        <4>1. sc'[u] = sc[u] /\ (sc[u].pc # "idle" => sc[u].file \in Files /\ Justified(sc[u]))
          BY <1>3, <3>5 DEF EvidenceInv
        <4>2. sc[u].pc = "reply" => Logged(sc[u].file, sc[u].verdict)
          BY DEF EvidenceInv
        <4>3. sc[u].pc = "reply" => Logged(sc[u].file, sc[u].verdict)'
          BY <1>1, <1>5, <2>4, <4>1, <4>2 DEF Logged
        <4> QED  BY <3>3, <4>1, <4>3
      <3> QED  BY <3>4, <3>5
    <2> QED  BY <2>5, <2>8 DEF EvidenceInv
  <1>7. RecentInv' /\ RecentIsNewest'
    <2>1. RecentInv'
      BY <1>1, <1>2 DEF RecentInv, TypeOK, ListReply
    <2>2. ASSUME NEW c \in Listers, ls[c].pc = "verdicts" PROVE Recent(ls[c], log')
      <3>1. ls[c].upto \in 0 .. Len(log)
        BY <1>1, <2>2 DEF RecentInv, TypeOK, ListReply
      <3>2. Recent(ls[c], log)
        BY <2>2, ReplyByReply
      <3>3. Len(log) <= Len(log')
        BY <1>1
      <3> QED  BY <1>1, <1>5, <3>1, <3>2, <3>3, RecentGrows
    <2> QED  BY <1>2, <2>1, <2>2, ReplyByReply
  <1>8. NumberInv'
    BY <1>2, <1>3 DEF NumberInv
  <1>9. ListInv' /\ ListIsFaithful'
    BY <1>2, ListsFrame
  <1> QED  BY <1>1, <1>4, <1>6, <1>7, <1>8, <1>9

\* The verdict is passed on.
LEMMA VerdictSent ==
  ASSUME IInv, NEW t \in Scanners, Reply(t)
  PROVE  IInv'
  <1> USE DEF IInv
  <1>1. /\ sc[t].pc = "reply" /\ sc' = [sc EXCEPT ![t] = [Idle EXCEPT !.file = sc[t].file]]
        /\ UNCHANGED <<ring, hist, count, next, nextId, log, there, box, ls, scans>>
    BY DEF Reply, ring, quarantine
  <1>2. PICK got : told' = [told EXCEPT ![t] =
                              IF t \in Conns THEN do_scan(got, sc[t]) ELSE told[t]]
    BY DEF Reply
  <1>3. /\ sc \in [Scanners -> Scan] /\ told \in [Scanners -> {"nothing", "error", "CLEAN", "MALICIOUS"}]
        /\ sc[t].file \in Files \cup {NoFile}
    BY DEF TypeOK, Scan
  <1> DEFINE r == [Idle EXCEPT !.file = sc[t].file]
  <1>4. r \in Scan /\ r.pc = "idle" /\ r.file = sc[t].file
    BY <1>3 DEF Idle, Scan, Uids, Reasons
  <1> HIDE DEF r
  <1>5. /\ sc' \in [Scanners -> Scan] /\ sc'[t] = r
        /\ \A u \in Scanners : u # t => sc'[u] = sc[u]
    BY <1>1, <1>3, <1>4 DEF r
  <1>6. /\ told' \in [Scanners -> {"nothing", "error", "CLEAN", "MALICIOUS"}]
        /\ told'[t] \in {sc[t].verdict, "error", told[t]}
        /\ \A u \in Scanners : u # t => told'[u] = told[u]
    <2>1. do_scan(got, sc[t]) \in {sc[t].verdict, "error"} /\ sc[t].verdict \in {"CLEAN", "MALICIOUS"}
      BY <1>3 DEF do_scan, Scan
    <2> QED  BY <1>2, <1>3, <2>1
  <1>7. TypeOK'
    BY <1>1, <1>5, <1>6 DEF TypeOK
  <1>8. EvidenceInv'
    <2>1. Logged(sc[t].file, sc[t].verdict) /\ (told[t] \in {"CLEAN", "MALICIOUS"} => Logged(sc[t].file, told[t]))
      BY <1>1 DEF EvidenceInv
    <2>2. ASSUME NEW u \in Scanners
          PROVE  /\ sc'[u].pc # "idle" => sc'[u].file \in Files /\ Justified(sc'[u])
                 /\ sc'[u].pc = "reply" => Logged(sc'[u].file, sc'[u].verdict)
                 /\ told'[u] \in {"CLEAN", "MALICIOUS"} => Logged(sc'[u].file, told'[u])
      <3>1. CASE u = t
        BY <1>4, <1>5, <1>6, <2>1, <3>1
      <3>2. CASE u # t
        BY <1>5, <1>6, <3>2 DEF EvidenceInv
      <3> QED  BY <3>1, <3>2
    <2> QED  BY <1>1, <2>2 DEF EvidenceInv, Logged, Justified
  <1>9. RingInv'
    BY <1>1, RingFrame
  <1>10. RecentInv' /\ RecentIsNewest'
    BY <1>1, RecentFrame
  <1>11. NumberInv'
    BY <1>1, <1>4, <1>5 DEF NumberInv
  <1>12. ListInv' /\ ListIsFaithful'
    BY <1>1, ListsFrame
  <1> QED  BY <1>7, <1>8, <1>9, <1>10, <1>11, <1>12

\* The listings when entries come and go: what has been found stays the peer's.
LEMMA BoxStep ==
  ASSUME TypeOK, ListInv, ListIsFaithful,
         \A c \in Listers :
           /\ ls'[c].pc = ls[c].pc /\ ls'[c].peer = ls[c].peer /\ ls'[c].rows = ls[c].rows
           /\ ls'[c].count = ls[c].count /\ ls'[c].whole = ls[c].whole
           /\ ls'[c].names = ls[c].names /\ ls'[c].i = ls[c].i /\ ls'[c].visible = ls[c].visible
           /\ ls'[c].stay \subseteq ls[c].stay,
         \A c \in Listers : ls[c].pc \in {"check", "rows"} => ls'[c].stay \subseteq DOMAIN box',
         \A c \in Listers, e \in Nat :
           /\ ls[c].pc # "idle" /\ e \in Range(ls[c].names)
           /\ ls[c].peer = Root \/ e \notin DOMAIN box \/ box[e].uid = ls[c].peer
           => ls[c].peer = Root \/ e \notin DOMAIN box' \/ box'[e].uid = ls[c].peer
  PROVE  ListInv' /\ ListIsFaithful'
  <1>1. \A c \in Listers : ListOK(ls[c]) /\ ls[c] \in ListReply
    BY DEF TypeOK, ListInv, ListOK, Shown
  <1>2. ASSUME NEW c \in Listers
        PROVE  ListOK(ls[c])' /\ (ls'[c].pc = "listed" => Faithful(ls[c])')
    <2> DEFINE r == ls[c]
               q == ls'[c]
    <2>1. /\ q.pc = r.pc /\ q.peer = r.peer /\ q.rows = r.rows /\ q.count = r.count
          /\ q.whole = r.whole /\ q.names = r.names /\ q.i = r.i /\ q.visible = r.visible
          /\ q.stay \subseteq r.stay
      OBVIOUS
    <2>2. ListOK(r) /\ r.names \in Seq(Nat)
      BY <1>1 DEF ListReply
    <2>3. ASSUME r.pc # "idle", NEW e \in Range(r.names), Own(r, e)
          PROVE  q.peer = Root \/ e \notin DOMAIN box' \/ box'[e].uid = q.peer
      <3>1. e \in Nat
        BY <2>2, <2>3 DEF Range
      <3> QED  BY <2>3, <3>1 DEF Own
    <2>4. r.pc \in {"check", "rows"} => Listing(ls[c])'
      <3> SUFFICES ASSUME r.pc \in {"check", "rows"} PROVE Listing(ls[c])'
        OBVIOUS
      <3>1. Listing(r) /\ r.pc # "idle" /\ q.stay \subseteq DOMAIN box'
        BY <2>2 DEF ListOK
      <3>2. \A e \in q.stay \cup {q.names[j] : j \in q.visible} : e \in Range(r.names) /\ Own(r, e)
        BY <2>1, <2>2, <3>1 DEF Listing, Range
      <3>3. \A e \in q.stay \cup {q.names[j] : j \in q.visible} :
              q.peer = Root \/ e \notin DOMAIN box' \/ box'[e].uid = q.peer
        BY <2>3, <3>1, <3>2
      <3>4. /\ q.i \in 1 .. Len(q.names) + 1
            /\ q.stay \subseteq Range(q.names) \cap DOMAIN box'
            /\ \A j \in q.visible : j \in 1 .. Len(q.names)
            /\ \A j \in 1 .. Len(q.names) :
                 q.names[j] \in q.stay /\ (q.pc = "check" => j < q.i) => j \in q.visible
        BY <2>1, <3>1 DEF Listing
      <3> QED  BY <3>3, <3>4 DEF Listing, Own
    <2>5. Passed(q) = Passed(r) /\ Shown(q) = Shown(r)
      BY <2>1 DEF Passed, Shown
    <2>6. ListOK(ls[c])'
      <3>1. /\ q.pc # "idle" => q.peer \in Users
            /\ q.pc = "check" => q.rows = <<>> /\ ~q.whole /\ \A j \in q.visible : j < q.i
            /\ q.pc = "rows" =>
                 /\ q.rows \in Seq(Row) /\ ~q.whole
                 /\ q.count = Cardinality(q.visible)
                 /\ Len(q.rows) = Cardinality(Passed(q))
                 /\ Shown(q) = {q.names[j] : j \in Passed(q)}
            /\ q.pc = "listed" =>
                 /\ q.rows \in Seq(Row)
                 /\ \A k \in DOMAIN q.rows : q.rows[k].id \in Range(q.names)
        BY <2>1, <2>2, <2>5 DEF ListOK
      <3> QED  BY <2>1, <2>4, <3>1 DEF ListOK
    <2>7. q.pc = "listed" => Faithful(ls[c])'
      <3> SUFFICES ASSUME q.pc = "listed" PROVE Faithful(ls[c])'
        OBVIOUS
      <3>1. Faithful(r) /\ r.pc = "listed"
        BY <2>1, ReplyByReply
      <3>2. \A e \in Shown(r) : e \in Range(r.names) /\ Own(r, e)
        BY <2>2, <3>1 DEF ListOK, Faithful, Shown
      <3>3. \A e \in Shown(q) : q.peer = Root \/ e \notin DOMAIN box' \/ box'[e].uid = q.peer
        BY <2>3, <2>5, <3>1, <3>2
      <3>4. q.whole => Len(q.rows) = q.count /\ q.stay \subseteq Shown(q)
        BY <2>1, <2>5, <3>1 DEF Faithful
      <3> QED  BY <3>3, <3>4 DEF Faithful, Own, Shown
    <2> QED  BY <2>6, <2>7
  <1>3. ListInv'
    BY <1>2 DEF ListInv, ListOK, Shown
  <1>4. ListIsFaithful'
    BY <1>2, ReplyByReply
  <1> QED  BY <1>3, <1>4

\* A scan goes on to another of its later stages: nothing is told yet.
LEMMA StageStep ==
  ASSUME IInv, NEW t \in Scanners, sc[t].pc \in {"quarantine", "meta"},
         NEW p \in {"meta", "record"}, sc' = [sc EXCEPT ![t].pc = p],
         UNCHANGED <<ring, hist, count, next, nextId, log, told, scans>>
  PROVE  /\ sc' \in [Scanners -> Scan] /\ sc'[t].pc = p /\ sc'[t].no = sc[t].no
         /\ \A u \in Scanners : u # t => sc'[u] = sc[u]
         /\ EvidenceInv' /\ RingInv'
  <1> USE DEF IInv
  <1>1. /\ sc \in [Scanners -> Scan] /\ sc' \in [Scanners -> Scan] /\ sc'[t].pc = p
        /\ sc'[t].no = sc[t].no /\ sc'[t].file = sc[t].file /\ sc'[t].verdict = sc[t].verdict
        /\ sc'[t].faulty = sc[t].faulty
        /\ \A u \in Scanners : u # t => sc'[u] = sc[u]
    <2> DEFINE r == sc[t]
               q == [r EXCEPT !.pc = p]
    <2>1. sc \in [Scanners -> Scan] /\ r \in Scan
      BY DEF TypeOK
    <2>2. sc' = [sc EXCEPT ![t] = q]
      BY <2>1
    <2> HIDE DEF r
    <2>3. /\ q \in Scan /\ q.pc = p /\ q.no = r.no /\ q.file = r.file /\ q.verdict = r.verdict
          /\ q.faulty = r.faulty
      BY <2>1 DEF Scan
    <2> HIDE DEF q
    <2> QED  BY <2>1, <2>2, <2>3 DEF r
  <1>2. ASSUME NEW u \in Scanners
        PROVE  /\ sc'[u].pc # "idle" => sc'[u].file \in Files /\ Justified(sc'[u])
               /\ sc'[u].pc = "reply" => Logged(sc'[u].file, sc'[u].verdict)
               /\ told'[u] \in {"CLEAN", "MALICIOUS"} => Logged(sc'[u].file, told'[u])
    <2>1. CASE u = t
      BY <1>1, <2>1 DEF EvidenceInv, Justified
    <2>2. CASE u # t
      BY <1>1, <2>2 DEF EvidenceInv
    <2> QED  BY <2>1, <2>2
  <1>3. EvidenceInv'
    <2>1. \A i \in DOMAIN log' : Justified(log'[i])
      BY DEF EvidenceInv
    <2>2. \A u \in Scanners : /\ sc'[u].pc = "reply" => Logged(sc[u].file, sc[u].verdict)'
                              /\ told'[u] \in {"CLEAN", "MALICIOUS"} => Logged(sc[u].file, told[u])'
      BY <1>2 DEF Logged
    <2> QED  BY <1>2, <2>1, <2>2 DEF EvidenceInv
  <1>4. RingInv'
    BY RingFrame
  <1> QED  BY <1>1, <1>3, <1>4

\* The entry appears, under a number that no listing has seen.
LEMMA EntryLinked ==
  ASSUME IInv, NEW t \in Scanners, LinkIn(t)
  PROVE  IInv'
  <1> USE DEF IInv
  <1> DEFINE e == sc[t].no
             new == [file |-> sc[t].file, uid |-> NoUser]
  <1>1. sc[t].pc = "quarantine" /\ UNCHANGED <<ring, hist, count, next, nextId, log, there, ls, told, scans>>
    BY DEF LinkIn, ring
  <1>2. e \in 1 .. scans /\ e \notin DOMAIN box /\ \A c \in Listers : e \notin Range(ls[c].names)
    BY <1>1 DEF NumberInv
  <1>3. new \in [file : Files, uid : Uids]
    BY <1>1 DEF EvidenceInv, Uids
  <1>4. RecentInv' /\ RecentIsNewest'
    BY <1>1, RecentFrame
  <1>5. CASE /\ box' = [d \in DOMAIN box \cup {e} |-> IF d = e THEN new ELSE box[d]]
             /\ sc' = [sc EXCEPT ![t].pc = "meta"]
    <2>1. /\ sc' \in [Scanners -> Scan] /\ sc'[t].pc = "meta" /\ sc'[t].no = e
          /\ \A u \in Scanners : u # t => sc'[u] = sc[u]
          /\ EvidenceInv' /\ RingInv'
      BY <1>1, <1>5, StageStep
    <2> HIDE DEF new
    <2>2. /\ DOMAIN box' = DOMAIN box \cup {e} /\ box'[e] = new
          /\ \A d \in DOMAIN box : box'[d] = box[d]
      BY <1>2, <1>5
    <2>3. TypeOK'
      BY <1>1, <1>2, <1>3, <2>1, <2>2 DEF TypeOK
    <2>4. NumberInv'
      <3>1. new.uid = NoUser
        BY DEF new
      <3>2. \A u \in Scanners : u # t /\ sc[u].pc # "idle" => sc[u].no # e
        BY <1>1 DEF NumberInv
      <3> HIDE DEF e
      <3>3. ASSUME NEW u \in Scanners
            PROVE  /\ sc'[u].pc # "idle" => sc'[u].no \in 1 .. scans'
                   /\ sc'[u].pc = "quarantine" =>
                        sc'[u].no \notin DOMAIN box' /\ \A c \in Listers : sc'[u].no \notin Range(ls'[c].names)
                   /\ sc'[u].pc = "meta" /\ sc'[u].no \in DOMAIN box' => box'[sc'[u].no].uid = NoUser
        <4>1. CASE u = t
          BY <1>1, <1>2, <2>1, <2>2, <3>1, <4>1
        <4>2. CASE u # t
          BY <1>1, <2>1, <2>2, <3>2, <4>2 DEF NumberInv
        <4> QED  BY <4>1, <4>2
      <3>4. \A u, v \in Scanners :
              u # v /\ sc'[u].pc # "idle" /\ sc'[v].pc # "idle" => sc'[u].no # sc'[v].no
        BY <1>1, <2>1, <3>2 DEF NumberInv
      <3> QED  BY <1>1, <3>3, <3>4 DEF NumberInv
    <2>5. ListInv' /\ ListIsFaithful'
      <3>1. \A c \in Listers : ls[c].pc \in {"check", "rows"} => ls'[c].stay \subseteq DOMAIN box'
        BY <1>1, <2>2 DEF ListInv, Listing
      <3>2. \A c \in Listers, d \in Nat :
              /\ ls[c].pc # "idle" /\ d \in Range(ls[c].names)
              /\ ls[c].peer = Root \/ d \notin DOMAIN box \/ box[d].uid = ls[c].peer
              => ls[c].peer = Root \/ d \notin DOMAIN box' \/ box'[d].uid = ls[c].peer
        BY <1>2, <2>2
      <3> QED  BY <1>1, <3>1, <3>2, BoxStep
    <2> QED  BY <1>4, <2>1, <2>3, <2>4, <2>5
  <1>6. CASE box' = box /\ sc' = [sc EXCEPT ![t].pc = "record"]
    <2>1. /\ sc' \in [Scanners -> Scan] /\ sc'[t].pc = "record" /\ sc'[t].no = e
          /\ \A u \in Scanners : u # t => sc'[u] = sc[u]
          /\ EvidenceInv' /\ RingInv'
      BY <1>1, <1>6, StageStep
    <2>2. TypeOK'
      BY <1>1, <1>6, <2>1 DEF TypeOK
    <2>3. NumberInv'
      BY <1>1, <1>6, <2>1 DEF NumberInv
    <2>4. ListInv' /\ ListIsFaithful'
      BY <1>1, <1>6, ListsFrame
    <2> QED  BY <1>4, <2>1, <2>2, <2>3, <2>4
  <1> QED  BY <1>5, <1>6 DEF LinkIn

\* A listing, when entries it would have to show go away.
LEMMA StayShrinks ==
  ASSUME TypeOK, EntriesLeave
  PROVE  /\ ls' \in [Listers -> ListReply]
         /\ \A c \in Listers :
              /\ ls'[c].pc = ls[c].pc /\ ls'[c].peer = ls[c].peer /\ ls'[c].rows = ls[c].rows
              /\ ls'[c].count = ls[c].count /\ ls'[c].whole = ls[c].whole
              /\ ls'[c].names = ls[c].names /\ ls'[c].i = ls[c].i /\ ls'[c].visible = ls[c].visible
              /\ ls'[c].upto = ls[c].upto /\ ls'[c].limit = ls[c].limit
              /\ ls'[c].stay = ls[c].stay \cap DOMAIN box'
  <1>1. ASSUME NEW c \in Listers
        PROVE  /\ ls'[c] \in ListReply
               /\ ls'[c].pc = ls[c].pc /\ ls'[c].peer = ls[c].peer /\ ls'[c].rows = ls[c].rows
               /\ ls'[c].count = ls[c].count /\ ls'[c].whole = ls[c].whole
               /\ ls'[c].names = ls[c].names /\ ls'[c].i = ls[c].i /\ ls'[c].visible = ls[c].visible
               /\ ls'[c].upto = ls[c].upto /\ ls'[c].limit = ls[c].limit
               /\ ls'[c].stay = ls[c].stay \cap DOMAIN box'
    <2> DEFINE r == ls[c]
               s == ls[c].stay \cap DOMAIN box'
               q == [r EXCEPT !.stay = s]
    <2>1. r \in ListReply /\ ls'[c] = q
      BY DEF TypeOK, EntriesLeave
    <2>2. s \in SUBSET Nat
      BY <2>1 DEF ListReply
    <2> HIDE DEF r, s
    <2>3. q \in ListReply
      BY <2>1, <2>2 DEF ListReply
    <2>4. /\ q.pc = r.pc /\ q.peer = r.peer /\ q.rows = r.rows /\ q.count = r.count
          /\ q.whole = r.whole /\ q.names = r.names /\ q.i = r.i /\ q.visible = r.visible
          /\ q.upto = r.upto /\ q.limit = r.limit /\ q.stay = s
      BY <2>1 DEF ListReply
    <2> HIDE DEF q
    <2> QED  BY <2>1, <2>3, <2>4 DEF r, s
  <1>2. ls' = [c \in Listers |-> ls'[c]]
    BY DEF EntriesLeave
  <1> QED  BY <1>1, <1>2

\* The entry gets its sidecar, or is taken back.
LEMMA EntrySealed ==
  ASSUME IInv, NEW t \in Scanners, SealEntry(t)
  PROVE  IInv'
  <1> USE DEF IInv
  <1> DEFINE e == sc[t].no
  <1>1. /\ sc[t].pc = "meta" /\ sc' = [sc EXCEPT ![t].pc = "record"]
        /\ UNCHANGED <<ring, hist, count, next, nextId, log, told, scans>>
    BY DEF SealEntry, ring
  <1>2. EntriesLeave
    BY DEF SealEntry
  <1>3. /\ ls' \in [Listers -> ListReply]
        /\ \A c \in Listers :
             /\ ls'[c].pc = ls[c].pc /\ ls'[c].peer = ls[c].peer /\ ls'[c].rows = ls[c].rows
             /\ ls'[c].count = ls[c].count /\ ls'[c].whole = ls[c].whole
             /\ ls'[c].names = ls[c].names /\ ls'[c].i = ls[c].i /\ ls'[c].visible = ls[c].visible
             /\ ls'[c].upto = ls[c].upto /\ ls'[c].limit = ls[c].limit
             /\ ls'[c].stay = ls[c].stay \cap DOMAIN box'
    BY <1>2, StayShrinks
  <1>4. /\ sc' \in [Scanners -> Scan] /\ sc'[t].pc = "record" /\ sc'[t].no = e
        /\ \A u \in Scanners : u # t => sc'[u] = sc[u]
        /\ EvidenceInv' /\ RingInv'
    BY <1>1, StageStep
  <1>5. RecentInv' /\ RecentIsNewest'
    BY <1>1, <1>3, RecentFrame
  <1>6. sc[t].file \in Files /\ (e \in DOMAIN box => box[e].uid = NoUser) /\ NoUser \notin Users
    BY <1>1, VerdictsAssumption DEF EvidenceInv, NumberInv
  <1>7. /\ DOMAIN box' \subseteq DOMAIN box
        /\ \A d \in DOMAIN box' : d # e => box'[d] = box[d]
        /\ e \in DOMAIN box' => box'[e] \in [file : Files, uid : Uids]
        /\ there' \subseteq Files
    <2>1. CASE /\ e \in DOMAIN box
               /\ \E uid \in {Owner[sc[t].file], Root, NoUser} : box' = [box EXCEPT ![e].uid = uid]
               /\ there' = there \ {sc[t].file}
      <3>1. PICK uid \in {Owner[sc[t].file], Root, NoUser} : box' = [box EXCEPT ![e].uid = uid]
        BY <2>1
      <3>2. uid \in Uids /\ box[e] \in [file : Files, uid : Uids]
        BY <1>6, <2>1, <3>1 DEF Uids, TypeOK
      <3> DEFINE b == box[e]
      <3>3. /\ DOMAIN box' = DOMAIN box /\ box'[e] = [b EXCEPT !.uid = uid]
            /\ \A d \in DOMAIN box : d # e => box'[d] = box[d]
        BY <2>1, <3>1
      <3>4. b \in [file : Files, uid : Uids]
        BY <3>2
      <3> HIDE DEF b
      <3>5. [b EXCEPT !.uid = uid] \in [file : Files, uid : Uids]
        BY <3>2, <3>4
      <3> QED  BY <2>1, <3>3, <3>5 DEF TypeOK
    <2>2. CASE box' = Without(e) /\ UNCHANGED there
      BY <2>2 DEF Without, TypeOK
    <2> QED  BY <2>1, <2>2 DEF SealEntry
  <1>8. TypeOK'
    BY <1>1, <1>3, <1>4, <1>7 DEF TypeOK
  <1>9. NumberInv'
    <2>1. \A u \in Scanners : u # t /\ sc[u].pc # "idle" => sc[u].no # e
      BY <1>1 DEF NumberInv
    <2> HIDE DEF e
    <2>2. ASSUME NEW u \in Scanners
          PROVE  /\ sc'[u].pc # "idle" => sc'[u].no \in 1 .. scans'
                 /\ sc'[u].pc = "quarantine" =>
                      sc'[u].no \notin DOMAIN box' /\ \A c \in Listers : sc'[u].no \notin Range(ls'[c].names)
                 /\ sc'[u].pc = "meta" /\ sc'[u].no \in DOMAIN box' => box'[sc'[u].no].uid = NoUser
      <3>1. CASE u = t
        BY <1>1, <1>4, <3>1 DEF NumberInv, e
      <3>2. CASE u # t
        BY <1>1, <1>3, <1>4, <1>7, <2>1, <3>2 DEF NumberInv
      <3> QED  BY <3>1, <3>2
    <2>3. \A u, v \in Scanners :
            u # v /\ sc'[u].pc # "idle" /\ sc'[v].pc # "idle" => sc'[u].no # sc'[v].no
      BY <1>1, <1>4, <2>1 DEF NumberInv
    <2>4. \A c \in Listers : Range(ls'[c].names) \subseteq 1 .. scans'
      BY <1>1, <1>3 DEF NumberInv
    <2> QED  BY <2>2, <2>3, <2>4 DEF NumberInv
  <1>10. ListInv' /\ ListIsFaithful'
    <2>1. ASSUME NEW c \in Listers, NEW d \in Nat, ls[c].pc # "idle",
                 ls[c].peer = Root \/ d \notin DOMAIN box \/ box[d].uid = ls[c].peer
          PROVE  ls[c].peer = Root \/ d \notin DOMAIN box' \/ box'[d].uid = ls[c].peer
      <3>1. ls[c].peer \in Users
        BY <2>1 DEF ListInv
      <3> HIDE DEF e
      <3> QED  BY <1>6, <1>7, <2>1, <3>1
    <2> QED  BY <1>3, <2>1, BoxStep
  <1> QED  BY <1>4, <1>5, <1>8, <1>9, <1>10

\* An entry is restored or deleted.
LEMMA EntryGone ==
  ASSUME IInv, NEW e \in DOMAIN box, RestoreOrDelete(e)
  PROVE  IInv'
  <1> USE DEF IInv
  <1>1. UNCHANGED <<sc, ring, hist, count, next, nextId, log, told, scans>>
    BY DEF RestoreOrDelete, ring
  <1>2. EntriesLeave
    BY DEF RestoreOrDelete
  <1>3. /\ ls' \in [Listers -> ListReply]
        /\ \A c \in Listers :
             /\ ls'[c].pc = ls[c].pc /\ ls'[c].peer = ls[c].peer /\ ls'[c].rows = ls[c].rows
             /\ ls'[c].count = ls[c].count /\ ls'[c].whole = ls[c].whole
             /\ ls'[c].names = ls[c].names /\ ls'[c].i = ls[c].i /\ ls'[c].visible = ls[c].visible
             /\ ls'[c].upto = ls[c].upto /\ ls'[c].limit = ls[c].limit
             /\ ls'[c].stay = ls[c].stay \cap DOMAIN box'
    BY <1>2, StayShrinks
  <1>4. DOMAIN box' = DOMAIN box \ {e} /\ \A d \in DOMAIN box' : box'[d] = box[d]
    BY DEF RestoreOrDelete, Without
  <1>5. there' \subseteq Files
    <2>1. there \subseteq Files /\ box[e].file \in Files
      BY DEF TypeOK
    <2> QED  BY <2>1 DEF RestoreOrDelete
  <1>6. TypeOK'
    BY <1>1, <1>3, <1>4, <1>5 DEF TypeOK
  <1>7. EvidenceInv' /\ RingInv' /\ RecentInv' /\ RecentIsNewest'
    BY <1>1, <1>3, EvidenceFrame, RingFrame, RecentFrame
  <1>8. NumberInv'
    BY <1>1, <1>3, <1>4 DEF NumberInv
  <1>9. ListInv' /\ ListIsFaithful'
    <2>1. \A c \in Listers, d \in Nat :
            ls[c].peer = Root \/ d \notin DOMAIN box \/ box[d].uid = ls[c].peer
            => ls[c].peer = Root \/ d \notin DOMAIN box' \/ box'[d].uid = ls[c].peer
      BY <1>4
    <2> QED  BY <1>3, <2>1, BoxStep
  <1> QED  BY <1>6, <1>7, <1>8, <1>9

\* Every step preserves the invariant.
LEMMA NextIInv == ASSUME IInv, [Next]_vars PROVE IInv'
  <1>1. ASSUME NEW t \in Scanners, ScanNext(t) PROVE IInv'
    BY <1>1, ScanDone, OpenFailed, EntryLinked, EntrySealed, VerdictRecorded, VerdictSent DEF ScanNext
  <1>2. ASSUME NEW c \in Listers, ListNext(c) PROVE IInv'
    BY <1>2, RecentReplies, NamesListed, EntryChecked, CountSent, RowSent, EndSent, HungUp DEF ListNext
  <1>3. ASSUME NEW e \in DOMAIN box, RestoreOrDelete(e) PROVE IInv'
    BY <1>3, EntryGone
  <1>4. ASSUME UNCHANGED vars PROVE IInv'
    <2> USE DEF IInv
    <2>1. UNCHANGED <<sc, ring, hist, count, next, nextId, log, there, box, ls, told, scans>>
      BY <1>4 DEF vars, ring, quarantine
    <2>2. EvidenceInv' /\ RingInv'
      BY <2>1, EvidenceFrame, RingFrame
    <2>3. RecentInv' /\ RecentIsNewest'
      BY <2>1, RecentFrame
    <2>4. ListInv' /\ ListIsFaithful'
      BY <2>1, ListsFrame
    <2>5. TypeOK'
      BY <2>1 DEF TypeOK
    <2>6. NumberInv'
      BY <2>1 DEF NumberInv
    <2> QED  BY <2>2, <2>3, <2>4, <2>5, <2>6
  <1> QED  BY <1>1, <1>2, <1>3, <1>4 DEF Next

\* The inductive invariant holds in every reachable state.
THEOREM InvariantHolds == Spec => []IInv
  <1>1. Init => IInv
    BY InitIInv
  <1>2. IInv /\ [Next]_vars => IInv'
    BY NextIInv
  <1> QED  BY <1>1, <1>2, PTL DEF Spec

\* Every variable keeps its type: no scan, ring slot, entry or reply is ever malformed.
THEOREM TypeCorrect == Spec => []TypeOK
  <1>1. IInv => TypeOK
    BY DEF IInv
  <1> QED  BY <1>1, InvariantHolds, PTL

\* For any rules, weights, thresholds and corpora: perform_scan() convicts a file
\* exactly on the evidence whenever no engine fails, never without, and avctl
\* prints only what was recorded.
THEOREM VerdictsFollowEvidence == Spec => []VerdictFollowsEvidence
  <1>1. IInv => VerdictFollowsEvidence
    BY DEF IInv, EvidenceInv, VerdictFollowsEvidence, Justified, Logged, Scanners
  <1> QED  BY <1>1, InvariantHolds, PTL

\* For any size of the ring and any number of threads that record: VERDICTS RECENT
\* answers with the newest verdicts the peer may see.
THEOREM RecentAreNewest == Spec => []RecentIsNewest
  <1>1. IInv => RecentIsNewest
    BY DEF IInv
  <1> QED  BY <1>1, InvariantHolds, PTL

\* For any number of listings, scans, restores, deletes and failing reads at once:
\* QUARANTINE LIST shows nobody another's entry, and all that is the peer's, stays
\* and has a sidecar that could be read (cmd_quarantine_list, avd.c).
THEOREM ListsAreFaithful == Spec => []ListIsFaithful
  <1>1. IInv => ListIsFaithful
    BY DEF IInv
  <1> QED  BY <1>1, InvariantHolds, PTL
=============================================================================
