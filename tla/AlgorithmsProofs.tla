-------------------------- MODULE AlgorithmsProofs --------------------------
(***************************************************************************)
(* The sequential algorithms for inputs of any size.                       *)
(***************************************************************************)
EXTENDS Algorithms, SequenceTheorems, FunctionTheorems, FiniteSetTheorems, WellFoundedInduction, TLAPS

-----------------------------------------------------------------------------
(* Loops.                                                                  *)

\* A set of numbers that is not empty has a least one.
LEMMA LeastExists ==
  ASSUME NEW T \in SUBSET Nat, T # {}
  PROVE  \E i \in T : \A j \in T : ~(j < i)
  <1>1. IsWellFoundedOn(OpToRel(<, Nat), Nat)
    BY NatLessThanWellFounded
  <1>2. PICK i \in T : \A j \in T : <<j, i>> \notin OpToRel(<, Nat)
    BY <1>1, WFMin
  <1>3. \A j \in T : j < i => <<j, i>> \in OpToRel(<, Nat)
    BY DEF OpToRel
  <1> QED  BY <1>2, <1>3

\* Induction, with the numbers of which a fact holds as a set.
LEMMA Induction ==
  ASSUME NEW S, 0 \in S, \A n \in Nat : n \in S => n + 1 \in S
  PROVE  Nat \subseteq S
  <1> SUFFICES ASSUME NEW m \in Nat, m \notin S PROVE FALSE
    OBVIOUS
  <1> DEFINE T == {n \in Nat : n \notin S}
  <1>1. T \in SUBSET Nat /\ T # {}
    OBVIOUS
  <1>2. PICK i \in T : \A j \in T : ~(j < i)
    BY <1>1, LeastExists
  <1>3. i \in Nat /\ i \notin S /\ i # 0
    OBVIOUS
  <1>4. i - 1 \in Nat /\ i - 1 < i /\ i - 1 + 1 = i
    BY <1>3
  <1>5. i - 1 \in S
    BY <1>2, <1>4
  <1> QED  BY <1>3, <1>4, <1>5

\* g holds the values in V that a loop of n turns goes through from v on; step
\* gives what a turn makes of the value before it.
IsLoop(g, V, v, n, step) ==
    g \in [0 .. n -> V] /\ g[0] = v /\ \A i \in 1 .. n : g[i] = step[i][g[i-1]]

\* A loop has an outcome.
LEMMA LoopExists ==
  ASSUME NEW V, NEW v \in V, NEW n \in Nat, NEW step \in [1 .. n -> [V -> V]]
  PROVE  \E g : IsLoop(g, V, v, n, step)
  <1> DEFINE P(m) == \E g \in [0 .. m -> V] : g[0] = v /\ \A i \in 1 .. m : g[i] = step[i][g[i-1]]
             S == {m \in Nat : m <= n => P(m)}
  <1>1. 0 \in S
    <2> DEFINE g == [i \in 0 .. 0 |-> v]
    <2>1. g \in [0 .. 0 -> V] /\ g[0] = v /\ \A i \in 1 .. 0 : g[i] = step[i][g[i-1]]
      OBVIOUS
    <2>2. P(0)
      BY <2>1
    <2> QED  BY <2>2
  <1>2. \A m \in Nat : m \in S => m + 1 \in S
    <2> SUFFICES ASSUME NEW m \in Nat, m \in S, m + 1 <= n PROVE P(m + 1)
      OBVIOUS
    <2>1. PICK g \in [0 .. m -> V] : g[0] = v /\ \A i \in 1 .. m : g[i] = step[i][g[i-1]]
      OBVIOUS
    <2> DEFINE h == [i \in 0 .. m + 1 |-> IF i = m + 1 THEN step[m + 1][g[m]] ELSE g[i]]
    <2>2. step[m + 1][g[m]] \in V
      <3>1. m + 1 \in 1 .. n /\ g[m] \in V
        OBVIOUS
      <3> QED  BY <3>1
    <2>3. h \in [0 .. m + 1 -> V] /\ h[0] = v
      BY <2>1, <2>2
    <2>4. \A i \in 1 .. m + 1 : h[i] = step[i][h[i-1]]
      <3> SUFFICES ASSUME NEW i \in 1 .. m + 1 PROVE h[i] = step[i][h[i-1]]
        OBVIOUS
      <3>1. i - 1 \in 0 .. m /\ h[i-1] = g[i-1]
        OBVIOUS
      <3>2. CASE i = m + 1
        BY <3>1, <3>2
      <3>3. CASE i # m + 1
        <4>1. i \in 1 .. m /\ h[i] = g[i]
          BY <3>3
        <4> QED  BY <2>1, <3>1, <4>1
      <3> QED  BY <3>2, <3>3
    <2> QED  BY <2>3, <2>4
  <1>3. n \in S
    BY <1>1, <1>2, Induction
  <1> QED  BY <1>3 DEF IsLoop

-----------------------------------------------------------------------------
(* sha256.c.                                                               *)

\* Where the blocks start.
LEMMA StartNat == Start(0) = 0 /\ \A b \in Nat : Start(b) \in Nat
BY BlockAssumption DEF Start

LEMMA StartNext ==
  ASSUME NEW b \in Nat
  PROVE  Start(b + 1) = Start(b) + BlockSize /\ Start(b + 1 - 1) = Start(b)
BY BlockAssumption DEF Start

\* A piece of a sequence.
LEMMA PieceIs ==
  ASSUME NEW T, NEW s \in Seq(T), NEW i \in Nat, NEW m \in Nat, i + m <= Len(s)
  PROVE  /\ SubSeq(s, i + 1, i + m) \in Seq(T) /\ Len(SubSeq(s, i + 1, i + m)) = m
         /\ \A k \in 1 .. m : SubSeq(s, i + 1, i + m)[k] = s[i + k]
  <1> DEFINE p == SubSeq(s, i + 1, i + m)
  <1>1. \A k \in i + 1 .. i + m : s[k] \in T
    BY LenProperties
  <1>2. /\ p \in Seq(T) /\ Len(p) = IF i + 1 <= i + m THEN i + m - (i + 1) + 1 ELSE 0
        /\ \A k \in 1 .. i + m - (i + 1) + 1 : p[k] = s[i + 1 + k - 1]
    BY <1>1, SubSeqProperties
  <1> HIDE DEF p
  <1>3. \A k \in 1 .. m : p[k] = s[i + k]
    <2> TAKE k \in 1 .. m
    <2>1. k \in 1 .. i + m - (i + 1) + 1 /\ i + 1 + k - 1 = i + k
      OBVIOUS
    <2> QED  BY <1>2, <2>1
  <1> QED  BY <1>2, <1>3 DEF p

\* Two sequences joined.
LEMMA JoinIs ==
  ASSUME NEW T, NEW s \in Seq(T), NEW p \in Seq(T), NEW a, NEW b, Len(s) = a, Len(p) = b
  PROVE  /\ s \o p \in Seq(T) /\ Len(s \o p) = a + b
         /\ \A i \in 1 .. a : (s \o p)[i] = s[i]
         /\ \A i \in 1 .. b : (s \o p)[a + i] = p[i]
  <1> DEFINE j == s \o p
  <1>1. a \in Nat /\ b \in Nat
    BY LenProperties
  <1>2. /\ j \in Seq(T) /\ Len(j) = Len(s) + Len(p)
        /\ \A i \in 1 .. Len(s) + Len(p) : j[i] = IF i <= Len(s) THEN s[i] ELSE p[i - Len(s)]
    BY ConcatProperties
  <1> HIDE DEF j
  <1>3. ASSUME NEW i \in 1 .. a PROVE j[i] = s[i]
    <2>1. i \in 1 .. Len(s) + Len(p) /\ i <= Len(s)
      BY <1>1
    <2> QED  BY <1>2, <2>1
  <1>4. ASSUME NEW i \in 1 .. b PROVE j[a + i] = p[i]
    <2> DEFINE k == a + i
    <2>1. k \in 1 .. Len(s) + Len(p) /\ ~(k <= Len(s)) /\ k - Len(s) = i
      BY <1>1
    <2> HIDE DEF k
    <2>2. j[k] = p[k - Len(s)]
      BY <1>2, <2>1
    <2> QED  BY <2>1, <2>2 DEF k
  <1> QED  BY <1>2, <1>3, <1>4 DEF j

\* What follows what follows.
LEMMA FollowsOn ==
  ASSUME NEW T, NEW g, NEW n \in Nat, NEW s \in Seq(T), NEW p \in Seq(T),
         Follows(s, g, n), Follows(p, g, n + Len(s))
  PROVE  s \o p \in Seq(T) /\ Len(s \o p) = Len(s) + Len(p) /\ Follows(s \o p, g, n)
  <1>1. Len(s) \in Nat /\ Len(p) \in Nat
    BY LenProperties
  <1>2. /\ s \o p \in Seq(T) /\ Len(s \o p) = Len(s) + Len(p)
        /\ \A i \in 1 .. Len(s) + Len(p) :
             (s \o p)[i] = IF i <= Len(s) THEN s[i] ELSE p[i - Len(s)]
    BY ConcatProperties
  <1>3. ASSUME NEW i \in 1 .. Len(s) + Len(p) PROVE (s \o p)[i] = g[n + i]
    <2>1. CASE i <= Len(s)
      BY <1>1, <1>2, <2>1 DEF Follows
    <2>2. CASE i > Len(s)
      <3>1. i - Len(s) \in 1 .. Len(p) /\ n + Len(s) + (i - Len(s)) = n + i
        BY <1>1, <2>2
      <3>2. p[i - Len(s)] = g[n + Len(s) + (i - Len(s))]
        BY <3>1 DEF Follows
      <3> QED  BY <1>1, <1>2, <2>2, <3>1, <3>2
    <2> QED  BY <1>1, <2>1, <2>2
  <1> QED  BY <1>2, <1>3 DEF Follows

\* A block more.
LEMMA BlockDone ==
  ASSUME NEW g, NEW state \in Seq(Seq(Items)), NEW s \in Seq(Items), NEW bitlen \in Nat,
         Len(s) = BlockSize, Follows(s, g, Start(Len(state))),
         \A b \in 1 .. Len(state) :
            Len(state[b]) = BlockSize /\ Follows(state[b], g, Start(b - 1))
  PROVE  Absorbed([state |-> Append(state, s), buffer |-> <<>>, bitlen |-> bitlen],
                  g, Start(Len(state)) + BlockSize)
  <1> DEFINE q == Len(state)
             st == Append(state, s)
             c == [state |-> st, buffer |-> <<>>, bitlen |-> bitlen]
  <1>1. q \in Nat /\ BlockSize \in Nat /\ 0 < BlockSize
    BY LenProperties, BlockAssumption
  <1>2. Start(q + 1) = Start(q) + BlockSize /\ Start(q + 1 - 1) = Start(q) /\ Start(q) \in Nat
    BY <1>1, StartNext, StartNat
  <1>3. /\ st \in Seq(Seq(Items)) /\ Len(st) = q + 1 /\ st[q + 1] = s
        /\ \A b \in 1 .. q : st[b] = state[b]
    BY AppendProperties
  <1> HIDE DEF st, q
  <1>4. c \in ShaCtx /\ c.state = st /\ c.buffer = <<>> /\ Len(c.buffer) = 0
    BY <1>3, EmptySeq DEF ShaCtx
  <1>5. Follows(c.buffer, g, Start(q + 1))
    BY <1>4 DEF Follows
  <1>6. ASSUME NEW b \in 1 .. q + 1
        PROVE  Len(st[b]) = BlockSize /\ Follows(st[b], g, Start(b - 1))
    <2>1. CASE b = q + 1
      BY <1>2, <1>3, <2>1 DEF q
    <2>2. CASE b # q + 1
      <3>1. b \in 1 .. q
        BY <1>1, <2>2
      <3> QED  BY <1>3, <3>1 DEF q
    <2> QED  BY <2>1, <2>2
  <1>7. Absorbed(c, g, Start(q + 1))
    <2> HIDE DEF c
    <2>1. Start(q + 1) + 0 = Start(q + 1)
      BY <1>1, <1>2
    <2> QED  BY <1>1, <1>3, <1>4, <1>5, <1>6, <2>1 DEF Absorbed
  <1> QED  BY <1>2, <1>7 DEF st, q

\* One turn of the loop of sha256_update(): it takes at least a byte, and the
\* bytes it takes are the next ones of the message.
LEMMA AbsorbIs ==
  ASSUME NEW g, NEW n \in Nat, NEW data \in Seq(Items), Follows(data, g, n),
         NEW i \in 0 .. Len(data) - 1, NEW c, Absorbed(c, g, n + i)
  PROVE  LET r == Absorb(c, data, i)
         IN  /\ r.i \in i + 1 .. Len(data)
             /\ Absorbed(r.ctx, g, n + r.i)
             /\ r.ctx.bitlen = c.bitlen + 8 * (r.i - i)
  <1> DEFINE q == Len(c.state)
             l == Len(c.buffer)
             room == BlockSize - l
             left == Len(data) - i
             take == IF room > left THEN left ELSE room
             piece == SubSeq(data, i + 1, i + take)
             buf == c.buffer \o piece
             bits == c.bitlen + 8 * take
             fed == [state |-> c.state, buffer |-> buf, bitlen |-> bits]
             full == [state |-> Append(c.state, buf), buffer |-> <<>>, bitlen |-> bits]
             r == Absorb(c, data, i)
  <1>1. c \in ShaCtx /\ l < BlockSize /\ Start(q) + l = n + i /\ Follows(c.buffer, g, Start(q))
    BY DEF Absorbed
  <1>2. c.state \in Seq(Seq(Items)) /\ c.buffer \in Seq(Items) /\ c.bitlen \in Nat
    BY <1>1 DEF ShaCtx
  <1>3. q \in Nat /\ l \in Nat /\ Len(data) \in Nat /\ BlockSize \in Nat /\ Start(q) \in Nat
    <2>1. q \in Nat /\ l \in Nat
      BY <1>2, LenProperties
    <2> HIDE DEF q, l
    <2> QED  BY <2>1, LenProperties, BlockAssumption, StartNat
  <1>4. \A b \in 1 .. q : Len(c.state[b]) = BlockSize /\ Follows(c.state[b], g, Start(b - 1))
    BY DEF Absorbed
  <1>5. r.i = i + take /\ r.ctx = IF Len(buf) = BlockSize THEN full ELSE fed
    BY DEF Absorb, sha256_transform
  <1> SUFFICES /\ r.i \in i + 1 .. Len(data)
               /\ Absorbed(r.ctx, g, n + r.i)
               /\ r.ctx.bitlen = c.bitlen + 8 * (r.i - i)
    OBVIOUS
  <1> HIDE DEF q, l, r
  <1>6. take \in Nat /\ 1 <= take /\ i + take <= Len(data) /\ l + take <= BlockSize
    BY <1>1, <1>3
  <1> HIDE DEF take
  <1>7. /\ piece \in Seq(Items) /\ Len(piece) = take
        /\ \A k \in 1 .. take : piece[k] = data[i + k]
    BY <1>6, PieceIs
  <1> HIDE DEF piece
  <1>8. Follows(piece, g, n + i)
    <2> SUFFICES ASSUME NEW k \in 1 .. take PROVE piece[k] = g[n + i + k]
      BY <1>7 DEF Follows
    <2>1. i + k \in 1 .. Len(data) /\ n + (i + k) = n + i + k
      BY <1>3, <1>6
    <2> QED  BY <1>7, <2>1 DEF Follows
  <1>9. buf \in Seq(Items) /\ Len(buf) = l + take /\ Follows(buf, g, Start(q))
    <2>1. Follows(piece, g, Start(q) + Len(c.buffer))
      BY <1>1, <1>8 DEF l
    <2>2. /\ c.buffer \o piece \in Seq(Items)
          /\ Len(c.buffer \o piece) = Len(c.buffer) + Len(piece)
          /\ Follows(c.buffer \o piece, g, Start(q))
      <3>1. c.buffer \in Seq(Items) /\ piece \in Seq(Items) /\ Start(q) \in Nat
        BY <1>2, <1>3, <1>7
      <3>2. Follows(c.buffer, g, Start(q))
        BY <1>1
      <3> QED  BY <2>1, <3>1, <3>2, FollowsOn
    <2> QED  BY <1>7, <2>2 DEF l
  <1>10. bits \in Nat /\ bits = c.bitlen + 8 * (i + take - i)
    BY <1>1, <1>2, <1>6
  <1> HIDE DEF buf, bits
  <1>11. full = [state |-> Append(c.state, buf), buffer |-> <<>>, bitlen |-> bits]
    OBVIOUS
  <1>12. /\ fed \in ShaCtx /\ fed.state = c.state /\ fed.buffer = buf /\ fed.bitlen = bits
         /\ full.bitlen = bits
    BY <1>2, <1>9, <1>10, <1>11 DEF ShaCtx
  <1> HIDE DEF full, fed
  <1>13. i + take \in i + 1 .. Len(data) /\ i + take - i = take /\ n + (i + take) = n + i + take
    BY <1>3, <1>6
  <1>16. r.i = i + take /\ r.i \in i + 1 .. Len(data) /\ bits = c.bitlen + 8 * (r.i - i)
    <2>1. r.i = i + take
      BY <1>5
    <2>2. r.i - i = i + take - i
      BY <1>3, <1>6, <2>1
    <2>3. bits = c.bitlen + 8 * (r.i - i)
      BY <1>10, <2>2, Zenon
    <2> QED  BY <1>13, <2>1, <2>3, Zenon
  <1>14. CASE l + take # BlockSize
    <2>1. r.ctx = fed
      BY <1>5, <1>9, <1>12, <1>14
    <2>2. l + take < BlockSize /\ Start(q) + (l + take) = n + (i + take)
      BY <1>1, <1>3, <1>6, <1>14, SMTT(30)
    <2>3. Absorbed(fed, g, n + (i + take))
      BY <1>4, <1>9, <1>12, <2>2 DEF Absorbed, q
    <2>4. r.ctx.bitlen = bits
      BY <1>12, <2>1
    <2> QED  BY <1>16, <2>1, <2>3, <2>4
  <1>15. CASE l + take = BlockSize
    <2>1. r.ctx = full
      BY <1>5, <1>9, <1>12, <1>15
    <2>2. Start(q) + BlockSize = n + (i + take)
      BY <1>1, <1>3, <1>6, <1>15
    <2>3. Absorbed(full, g, Start(q) + BlockSize)
      BY <1>2, <1>4, <1>9, <1>10, <1>11, <1>15, BlockDone DEF q
    <2>4. r.ctx.bitlen = bits
      BY <1>12, <2>1
    <2> QED  BY <1>16, <2>1, <2>2, <2>3, <2>4
  <1> QED  BY <1>14, <1>15

\* sha256_update() takes all of data, whatever is in the buffer before.
LEMMA UpdateIs ==
  ASSUME NEW g, NEW n \in Nat, NEW data \in Seq(Items), Follows(data, g, n),
         NEW c, Absorbed(c, g, n)
  PROVE  /\ Absorbed(sha256_update(c, data), g, n + Len(data))
         /\ sha256_update(c, data).bitlen = c.bitlen + 8 * Len(data)
  <1> DEFINE m == Len(data)
             Good(v) == Absorbed(v.ctx, g, n + v.i) /\ v.ctx.bitlen = c.bitlen + 8 * v.i
             V == {v \in [i : 0 .. m, ctx : ShaCtx] : Good(v)}
             first == [i |-> 0, ctx |-> c]
             Turn(v) == IF v.i < m THEN Absorb(v.ctx, data, v.i) ELSE v
             Body(f) == [k \in 0 .. m |-> IF k = 0 THEN first ELSE Turn(f[k-1])]
             turn == CHOOSE f : f = Body(f)
             step == [k \in 1 .. m |-> [v \in V |-> Turn(v)]]
  <1>1. m \in Nat /\ c \in ShaCtx /\ c.bitlen \in Nat
    BY LenProperties DEF Absorbed, ShaCtx
  <1>2. sha256_update(c, data) = turn[m].ctx
    BY DEF sha256_update
  <1>3. first \in V
    <2>1. first.ctx = c /\ first.i = 0 /\ n + 0 = n /\ c.bitlen + 8 * 0 = c.bitlen /\ 0 \in 0 .. m
      BY <1>1
    <2>2. Good(first)
      BY <2>1
    <2> QED  BY <1>1, <2>1, <2>2
  <1>4. ASSUME NEW v \in V
        PROVE  Turn(v) \in V /\ (v.i < m => v.i < Turn(v).i) /\ (v.i = m => Turn(v).i = m)
    <2> DEFINE w == Absorb(v.ctx, data, v.i)
    <2>1. CASE v.i < m
      <3>1. v.i \in 0 .. m - 1 /\ v.i \in Nat /\ Absorbed(v.ctx, g, n + v.i)
            /\ v.ctx.bitlen = c.bitlen + 8 * v.i
        BY <1>1, <2>1
      <3>2. /\ w.i \in v.i + 1 .. m /\ Absorbed(w.ctx, g, n + w.i)
            /\ w.ctx.bitlen = v.ctx.bitlen + 8 * (w.i - v.i)
        <4> DEFINE x == v.i
                   d == v.ctx
        <4>1. x \in 0 .. Len(data) - 1 /\ Absorbed(d, g, n + x)
          BY <3>1
        <4> HIDE DEF x, d
        <4>2. LET u == Absorb(d, data, x)
              IN  /\ u.i \in x + 1 .. Len(data) /\ Absorbed(u.ctx, g, n + u.i)
                  /\ u.ctx.bitlen = d.bitlen + 8 * (u.i - x)
          BY <4>1, AbsorbIs, SMTT(30)
        <4> QED  BY <4>2 DEF x, d
      <3>3. w.ctx.bitlen = c.bitlen + 8 * w.i
        <4> DEFINE x == v.i
                   y == w.i
                   b == c.bitlen
        <4>1. x \in Nat /\ y \in Nat /\ b \in Nat
          BY <1>1, <3>1, <3>2
        <4>2. w.ctx.bitlen = (b + 8 * x) + 8 * (y - x)
          BY <3>1, <3>2
        <4> HIDE DEF x, y, b
        <4>3. (b + 8 * x) + 8 * (y - x) = b + 8 * y
          BY <4>1
        <4> QED  BY <4>2, <4>3 DEF y, b
      <3>4. w = [i |-> w.i, ctx |-> w.ctx]
        BY DEF Absorb
      <3>5. w.ctx \in ShaCtx /\ w.i \in 0 .. m /\ v.i < w.i
        <4>1. w.ctx \in ShaCtx
          BY <3>2 DEF Absorbed
        <4> HIDE DEF w, m
        <4> QED  BY <1>1, <3>1, <3>2, <4>1, SMTT(30)
      <3> HIDE DEF w
      <3>6. w \in [i : 0 .. m, ctx : ShaCtx]
        BY <3>4, <3>5
      <3>7. Turn(v) = w
        BY <2>1 DEF w
      <3> HIDE DEF Turn
      <3> QED  BY <2>1, <3>2, <3>3, <3>5, <3>6, <3>7
    <2>2. CASE ~(v.i < m)
      BY <2>2
    <2> QED  BY <2>1, <2>2
  <1>5. turn = Body(turn)
    <2> HIDE DEF V, Turn, first, m
    <2>1. step \in [1 .. m -> [V -> V]]
      BY <1>4
    <2>2. \A k \in 1 .. m, v \in V : step[k][v] = Turn(v)
      OBVIOUS
    <2> HIDE DEF step
    <2>4. PICK f : IsLoop(f, V, first, m, step)
      BY <1>1, <1>3, <2>1, LoopExists
    <2>5. f \in [0 .. m -> V] /\ \A k \in 1 .. m : f[k-1] \in V
      BY <1>1, <2>4 DEF IsLoop
    <2>6. \A k \in 0 .. m : f[k] = IF k = 0 THEN first ELSE Turn(f[k-1])
      BY <1>1, <2>2, <2>4, <2>5 DEF IsLoop
    <2>7. f = Body(f)
      BY <2>5, <2>6
    <2> QED  BY <2>7
  <1> HIDE DEF turn
  <1>6. \A k \in 0 .. m : turn[k] = IF k = 0 THEN first ELSE Turn(turn[k-1])
    <2> HIDE DEF Turn, first, m
    <2> QED  BY <1>5
  <1>7. \A v \in V : v.i \in 0 .. m /\ Good(v)
    OBVIOUS
  <1> DEFINE M == {k \in Nat : k <= m => turn[k] \in V /\ turn[k].i >= k}
  <1>8. 0 \in M
    <2>1. turn[0] = first
      BY <1>1, <1>6
    <2>2. first.i = 0 /\ 0 >= 0
      OBVIOUS
    <2> HIDE DEF V, first, m
    <2> QED  BY <1>3, <2>1, <2>2
  <1>9. ASSUME NEW k \in Nat, k \in M PROVE k + 1 \in M
    <2> SUFFICES ASSUME k + 1 <= m PROVE turn[k + 1] \in V /\ turn[k + 1].i >= k + 1
      OBVIOUS
    <2> HIDE DEF Good, V, Turn, m
    <2>1. k + 1 \in 0 .. m /\ k + 1 # 0 /\ k + 1 - 1 = k /\ k <= m
      BY <1>1
    <2>2. turn[k + 1] = Turn(turn[k])
      BY <1>6, <2>1
    <2>3. turn[k] \in V /\ turn[k].i >= k /\ turn[k].i \in 0 .. m
      BY <1>7, <1>9, <2>1
    <2>4. Turn(turn[k]) \in V /\ Turn(turn[k]).i \in 0 .. m
      BY <1>4, <1>7, <2>3
    <2>5. Turn(turn[k]).i >= k + 1
      BY <1>1, <1>4, <2>1, <2>3, <2>4
    <2> QED  BY <2>2, <2>4, <2>5
  <1> HIDE DEF M
  <1>10. m \in M
    BY <1>1, <1>8, <1>9, Induction
  <1>11. turn[m] \in V /\ turn[m].i = m
    <2> HIDE DEF V, Good, m
    <2> QED  BY <1>1, <1>7, <1>10 DEF M
  <1> HIDE DEF V
  <1> QED  BY <1>2, <1>7, <1>11

\* Two multiples of the block size are the same or a block apart.
LEMMA StartGap ==
  ASSUME NEW p \in Nat, NEW q \in Nat,
         Start(p) < Start(q) + BlockSize, Start(q) < Start(p) + BlockSize
  PROVE  p = q
  <1> DEFINE B == BlockSize
  <1>1. B \in Nat \ {0} /\ p * B < q * B + B /\ q * B < p * B + B
    BY BlockAssumption DEF Start
  <1> HIDE DEF B
  <1>2. CASE p > q
    <2>1. PICK d \in Nat : p = q + 1 + d
      <3>1. p - q - 1 \in Nat /\ p = q + 1 + (p - q - 1)
        BY <1>2
      <3> QED  BY <3>1
    <2>2. p * B = q * B + B + d * B /\ d * B >= 0
      BY <1>1, <2>1
    <2> QED  BY <1>1, <2>2
  <1>3. CASE q > p
    <2>1. PICK d \in Nat : q = p + 1 + d
      <3>1. q - p - 1 \in Nat /\ q = p + 1 + (q - p - 1)
        BY <1>3
      <3> QED  BY <3>1
    <2>2. q * B = p * B + B + d * B /\ d * B >= 0
      BY <1>1, <2>1
    <2> QED  BY <1>1, <2>2
  <1> QED  BY <1>2, <1>3

\* The padding of FIPS 180-4 fills the last block.
LEMMA PaddingIs ==
  ASSUME NEW n \in Nat
  PROVE  \E k \in 0 .. BlockSize - 1, m \in Nat :
            /\ n + 1 + k + LenSize = Start(m)
            /\ Padding(n) = <<Pad>> \o [i \in 1 .. k |-> Zero]
                              \o [i \in 1 .. LenSize |-> LenByte(8 * n, i)]
  <1> DEFINE B == BlockSize
             L == LenSize
             P(z) == (n + 1 + z + L) % B = 0
             k == CHOOSE z \in 0 .. B - 1 : P(z)
  <1>1. B \in Nat \ {0} /\ L \in Nat
    BY BlockAssumption
  <1> HIDE DEF B, L
  <1>2. \E z \in 0 .. B - 1 : P(z)
    <2> DEFINE d == (n + L) \div B
               x == (n + L) % B
    <2>1. n + L = B * d + x /\ x \in 0 .. B - 1 /\ d \in Nat
      BY <1>1
    <2> HIDE DEF d, x
    <2>2. B - 1 - x \in 0 .. B - 1 /\ n + 1 + (B - 1 - x) + L = (d + 1) * B
      BY <1>1, <2>1
    <2>3. ((d + 1) * B) % B = 0
      BY <1>1, <2>1
    <2> QED  BY <2>2, <2>3
  <1>3. k \in 0 .. B - 1 /\ P(k)
    BY <1>2
  <1> HIDE DEF k
  <1>4. PICK m \in Nat : n + 1 + k + L = m * B
    <2> DEFINE y == n + 1 + k + L
    <2>1. y \in Nat /\ y % B = 0
      BY <1>1, <1>3
    <2> HIDE DEF y
    <2>2. y = B * (y \div B) + (y % B) /\ y \div B \in Nat
      BY <1>1, <2>1
    <2>3. y = (y \div B) * B
      BY <1>1, <2>1, <2>2
    <2> QED  BY <2>2, <2>3 DEF y
  <1>5. Padding(n) = <<Pad>> \o [i \in 1 .. k |-> Zero] \o [i \in 1 .. L |-> LenByte(8 * n, i)]
    BY DEF Padding, k, B, L
  <1> QED  BY <1>3, <1>4, <1>5 DEF Start, B, L

\* The bytes of the message.
LEMMA MessageIs ==
  ASSUME NEW n \in Nat, NEW k \in Nat
  PROVE  /\ Message(n + 1, n + k) \in Seq(Items) /\ Len(Message(n + 1, n + k)) = k
         /\ \A i \in 1 .. k : Message(n + 1, n + k)[i] = Byte(n + i)
  <1> DEFINE s == [i \in 1 .. k |-> Byte(n + i)]
  <1>1. Message(n + 1, n + k) = s
    <2>1. n + k + 1 - (n + 1) = k /\ \A i \in 1 .. k : n + 1 + i - 1 = n + i
      OBVIOUS
    <2> QED  BY <2>1 DEF Message
  <1>2. \A i \in 1 .. k : Byte(n + i) \in Items
    BY DEF Byte, Items
  <1>3. s \in Seq(Items) /\ Len(s) = k /\ \A i \in 1 .. k : s[i] = Byte(n + i)
    <2>1. s \in [1 .. k -> Items]
      BY <1>2
    <2> QED  BY <2>1
  <1> QED  BY <1>1, <1>3

\* The bytes of the padded message.
LEMMA PaddedIs ==
  ASSUME NEW n \in Nat, NEW k \in Nat,
         Padding(n) = <<Pad>> \o [i \in 1 .. k |-> Zero]
                        \o [i \in 1 .. LenSize |-> LenByte(8 * n, i)]
  PROVE  LET all == Message(1, n) \o Padding(n)
         IN  /\ all \in Seq(Items) /\ Len(all) = n + 1 + k + LenSize
             /\ Follows(Message(1, n), all, 0)
             /\ all[n + 1] = Pad
             /\ \A i \in 1 .. k : all[n + 1 + i] = Zero
             /\ \A i \in 1 .. LenSize : all[n + 1 + k + i] = LenByte(8 * n, i)
  <1> DEFINE L == LenSize
             msg == Message(1, n)
             p == <<Pad>>
             z == [i \in 1 .. k |-> Zero]
             l == [i \in 1 .. L |-> LenByte(8 * n, i)]
             pz == p \o z
             pad == pz \o l
             all == msg \o pad
  <1>0. L \in Nat
    BY BlockAssumption
  <1>1. msg \in Seq(Items) /\ Len(msg) = n
    <2>1. 0 + 1 = 1 /\ 0 + n = n
      OBVIOUS
    <2> QED  BY <2>1, MessageIs, ZenonT(30)
  <1>2. p \in Seq(Items) /\ Len(p) = 1 /\ p[1] = Pad
    BY DEF Pad, Items
  <1>3. z \in Seq(Items) /\ Len(z) = k /\ \A i \in 1 .. k : z[i] = Zero
    <2>1. z \in [1 .. k -> Items]
      BY DEF Zero, Items
    <2> QED  BY <2>1
  <1>4. l \in Seq(Items) /\ Len(l) = L /\ \A i \in 1 .. L : l[i] = LenByte(8 * n, i)
    <2>1. \A i \in 1 .. L : LenByte(8 * n, i) \in Items
      BY <1>0 DEF LenByte, Items
    <2>2. l \in [1 .. L -> Items]
      BY <2>1
    <2> QED  BY <1>0, <2>2
  <1> HIDE DEF L, msg, p, z, l
  <1>5. /\ pz \in Seq(Items) /\ Len(pz) = 1 + k /\ pz[1] = Pad
        /\ \A i \in 1 .. k : pz[1 + i] = Zero
    <2> DEFINE one == 1
    <2>1. Len(p) = one /\ one = 1
      BY <1>2
    <2>0. p \in Seq(Items) /\ z \in Seq(Items) /\ Len(z) = k /\ Len(p) = one
      BY <1>2, <1>3 DEF one
    <2> HIDE DEF one
    <2>2. /\ pz \in Seq(Items) /\ Len(pz) = one + k
          /\ \A i \in 1 .. one : pz[i] = p[i]
          /\ \A i \in 1 .. k : pz[one + i] = z[i]
      BY <2>0, JoinIs
    <2> HIDE DEF pz
    <2>3. 1 \in 1 .. one
      BY <2>1
    <2>4. \A i \in 1 .. k : pz[1 + i] = Zero
      BY <1>3, <2>1, <2>2
    <2> QED  BY <1>2, <2>1, <2>2, <2>3, <2>4
  <1> HIDE DEF pz
  <1>6. /\ pad \in Seq(Items) /\ Len(pad) = 1 + k + L /\ pad[1] = Pad
        /\ \A i \in 1 .. k : pad[1 + i] = Zero
        /\ \A i \in 1 .. L : pad[1 + k + i] = LenByte(8 * n, i)
    <2>1. /\ pad \in Seq(Items) /\ Len(pad) = 1 + k + L
          /\ \A i \in 1 .. 1 + k : pad[i] = pz[i]
          /\ \A i \in 1 .. L : pad[1 + k + i] = l[i]
      BY <1>4, <1>5, JoinIs, SMTT(30)
    <2> HIDE DEF pad
    <2>2. 1 \in 1 .. 1 + k /\ \A i \in 1 .. k : 1 + i \in 1 .. 1 + k
      OBVIOUS
    <2> QED  BY <1>4, <1>5, <2>1, <2>2
  <1> HIDE DEF pad
  <1>7. /\ all \in Seq(Items) /\ Len(all) = n + (1 + k + L)
        /\ \A i \in 1 .. n : all[i] = msg[i]
        /\ \A i \in 1 .. 1 + k + L : all[n + i] = pad[i]
    BY <1>1, <1>6, JoinIs
  <1> HIDE DEF all
  <1>8. Follows(msg, all, 0)
    <2> SUFFICES ASSUME NEW i \in 1 .. n PROVE msg[i] = all[0 + i]
      BY <1>1 DEF Follows
    <2>1. 0 + i = i
      OBVIOUS
    <2> QED  BY <1>7, <2>1
  <1>9. all[n + 1] = Pad
    <2>1. 1 \in 1 .. 1 + k + L
      BY <1>0
    <2> QED  BY <1>6, <1>7, <2>1
  <1>10. ASSUME NEW i \in 1 .. k PROVE all[n + 1 + i] = Zero
    <2>1. 1 + i \in 1 .. 1 + k + L /\ n + 1 + i = n + (1 + i)
      BY <1>0
    <2>2. all[n + (1 + i)] = pad[1 + i] /\ pad[1 + i] = Zero
      BY <1>6, <1>7, <2>1
    <2> QED  BY <2>1, <2>2
  <1>11. ASSUME NEW i \in 1 .. L PROVE all[n + 1 + k + i] = LenByte(8 * n, i)
    <2>1. 1 + k + i \in 1 .. 1 + k + L /\ n + 1 + k + i = n + (1 + k + i)
      BY <1>0
    <2>2. all[n + (1 + k + i)] = pad[1 + k + i] /\ pad[1 + k + i] = LenByte(8 * n, i)
      BY <1>6, <1>7, <2>1
    <2> QED  BY <2>1, <2>2
  <1>12. n + (1 + k + L) = n + 1 + k + L
    BY <1>0
  <1>13. all = Message(1, n) \o Padding(n)
    BY DEF all, msg, pad, pz, p, z, l, L
  <1> QED  BY <1>7, <1>8, <1>9, <1>10, <1>11, <1>12, <1>13 DEF msg, L

\* A single byte.
LEMMA ByteFed ==
  ASSUME NEW g, NEW n \in Nat, NEW x \in Items, g[n + 1] = x, NEW c, Absorbed(c, g, n)
  PROVE  /\ Absorbed(sha256_update(c, <<x>>), g, n + 1)
         /\ sha256_update(c, <<x>>) \in ShaCtx
  <1> DEFINE s == <<x>>
  <1>1. s \in Seq(Items) /\ Len(s) = 1 /\ s[1] = x
    OBVIOUS
  <1>2. Follows(s, g, n)
    BY <1>1 DEF Follows
  <1> HIDE DEF s
  <1>3. Absorbed(sha256_update(c, s), g, n + Len(s))
    BY <1>1, <1>2, UpdateIs
  <1>4. Absorbed(sha256_update(c, s), g, n + 1)
    BY <1>1, <1>3
  <1> QED  BY <1>4 DEF s, Absorbed

\* Zeros from n + 1 on.
Zeros(g, n, k) == \A i \in 1 .. k : g[n + i] = Zero

\* PadToLength() stops where FIPS 180-4 says, whatever is in the buffer.
LEMMA PadToLengthIs ==
  ASSUME NEW g, NEW n \in Nat, NEW k \in 0 .. BlockSize - 1, NEW m \in Nat,
         n + 1 + k + LenSize = Start(m), g[n + 1] = Pad, Zeros(g, n + 1, k), NEW c, Absorbed(c, g, n)
  PROVE  /\ Absorbed(PadToLength(c), g, n + 1 + k)
         /\ Len(PadToLength(c).buffer) = BlockSize - LenSize
         /\ Len(PadToLength(c).state) + 1 = m
  <1> DEFINE B == BlockSize
             L == LenSize
             At(v, j) == Absorbed(v, g, n + 1 + j)
             V == {v \in ShaCtx : \E j \in 0 .. k : At(v, j)}
             first == sha256_update(c, <<Pad>>)
             Turn(v) == IF Len(v.buffer) # B - L THEN sha256_update(v, <<Zero>>) ELSE v
             Body(f) == [i \in 0 .. B |-> IF i = 0 THEN first ELSE Turn(f[i-1])]
             turn == CHOOSE f : f = Body(f)
             step == [i \in 1 .. B |-> [v \in V |-> Turn(v)]]
  <1>1. B \in Nat /\ L \in Nat \ {0} /\ L < B /\ k \in Nat /\ k < B
    BY BlockAssumption
  <1>2. PadToLength(c) = turn[B]
    BY DEF PadToLength
  <1>3. first \in ShaCtx /\ At(first, 0) /\ first \in V
    <2>1. Pad \in Items /\ n + 1 + 0 = n + 1 /\ 0 \in 0 .. k
      BY <1>1 DEF Pad, Items
    <2>2. Absorbed(first, g, n + 1) /\ first \in ShaCtx
      BY <2>1, ByteFed
    <2> HIDE DEF first
    <2> QED  BY <2>1, <2>2
  <1>4. ASSUME NEW v, NEW j \in 0 .. k, At(v, j)
        PROVE  /\ Len(v.buffer) = B - L <=> j = k
               /\ j = k => Len(v.state) + 1 = m
    <2> DEFINE q == Len(v.state)
               l == Len(v.buffer)
    <2>1. q \in Nat /\ l \in Nat
      BY <1>4, LenProperties DEF Absorbed, ShaCtx
    <2>2. l < B /\ Start(q) + l = n + 1 + j
      BY <1>4 DEF Absorbed
    <2> HIDE DEF q, l, B, L
    <2>3. Start(q + 1) = Start(q) + B /\ Start(q) \in Nat /\ Start(m) \in Nat /\ q + 1 \in Nat
      BY <2>1, StartNext, StartNat DEF B
    <2>4. n + 1 + k + L = Start(m)
      BY DEF L
    <2>5. ASSUME l = B - L PROVE j = k
      <3>1. Start(q + 1) < Start(m) + B /\ Start(m) < Start(q + 1) + B
        BY <1>1, <2>1, <2>2, <2>3, <2>4, <2>5
      <3>2. q + 1 = m
        BY <2>3, <3>1, StartGap DEF B
      <3>3. Start(m) = Start(q) + B
        BY <2>3, <3>2
      <3> QED  BY <1>1, <2>1, <2>2, <2>3, <2>4, <2>5, <3>3
    <2>6. ASSUME j = k PROVE l = B - L /\ q + 1 = m
      <3>1. Start(q + 1) < Start(m) + B /\ Start(m) < Start(q + 1) + B
        BY <1>1, <2>1, <2>2, <2>3, <2>4, <2>6
      <3>2. q + 1 = m
        BY <2>3, <3>1, StartGap DEF B
      <3>3. Start(m) = Start(q) + B
        BY <2>3, <3>2
      <3> QED  BY <1>1, <2>1, <2>2, <2>3, <2>4, <2>6, <3>2, <3>3
    <2> QED  BY <2>5, <2>6 DEF q, l
  <1>5. ASSUME NEW v \in ShaCtx, NEW j \in 0 .. k, At(v, j)
        PROVE  IF j = k THEN Turn(v) = v ELSE At(Turn(v), j + 1) /\ Turn(v) \in ShaCtx
    <2>1. CASE j = k
      BY <1>4, <1>5, <2>1
    <2>2. CASE j # k
      <3>1. Turn(v) = sha256_update(v, <<Zero>>)
        BY <1>4, <1>5, <2>2
      <3>2. n + 1 + j \in Nat /\ n + 1 + (j + 1) = n + 1 + j + 1 /\ j + 1 \in 1 .. k
        BY <1>1, <2>2
      <3>3. g[n + 1 + (j + 1)] = Zero /\ Zero \in Items
        BY <3>2 DEF Zeros, Zero, Items
      <3>4. g[n + 1 + j + 1] = Zero
        BY <3>2, <3>3
      <3> DEFINE x == n + 1 + j
      <3> HIDE DEF x
      <3>5. x \in Nat /\ g[x + 1] = Zero /\ Absorbed(v, g, x)
        BY <1>5, <3>2, <3>4 DEF x
      <3>6. Absorbed(sha256_update(v, <<Zero>>), g, x + 1) /\ sha256_update(v, <<Zero>>) \in ShaCtx
        BY <3>3, <3>5, ByteFed
      <3> QED  BY <2>2, <3>1, <3>2, <3>6 DEF x
    <2> QED  BY <2>1, <2>2
  <1> HIDE DEF Turn, first, B, At
  <1>6. ASSUME NEW v \in V PROVE Turn(v) \in V
    <2>1. PICK j \in 0 .. k : At(v, j)
      OBVIOUS
    <2>2. CASE j = k
      BY <1>5, <2>1, <2>2
    <2>3. CASE j # k
      <3>1. j + 1 \in 0 .. k
        BY <1>1, <2>3
      <3> QED  BY <1>5, <2>1, <2>3, <3>1
    <2> QED  BY <2>2, <2>3
  <1>7. turn = Body(turn)
    <2> HIDE DEF V
    <2>1. step \in [1 .. B -> [V -> V]]
      BY <1>6
    <2>2. \A i \in 1 .. B, v \in V : step[i][v] = Turn(v)
      OBVIOUS
    <2> HIDE DEF step
    <2>4. PICK f : IsLoop(f, V, first, B, step)
      BY <1>1, <1>3, <2>1, LoopExists
    <2>5. f \in [0 .. B -> V] /\ \A i \in 1 .. B : f[i-1] \in V
      BY <1>1, <2>4 DEF IsLoop
    <2>6. \A i \in 0 .. B : f[i] = IF i = 0 THEN first ELSE Turn(f[i-1])
      BY <1>1, <2>2, <2>4, <2>5 DEF IsLoop
    <2>7. f = Body(f)
      BY <2>5, <2>6
    <2> QED  BY <2>7
  <1> HIDE DEF turn
  <1>8. \A i \in 0 .. B : turn[i] = IF i = 0 THEN first ELSE Turn(turn[i-1])
    BY <1>7
  <1> DEFINE Turns(i) == IF i < k THEN i ELSE k
             M == {i \in Nat : i <= B => turn[i] \in ShaCtx /\ At(turn[i], Turns(i))}
  <1>9. 0 \in M
    <2>1. turn[0] = first /\ Turns(0) = 0
      BY <1>1, <1>8
    <2> QED  BY <1>3, <2>1
  <1>10. ASSUME NEW i \in Nat, i \in M PROVE i + 1 \in M
    <2> SUFFICES ASSUME i + 1 <= B PROVE turn[i + 1] \in ShaCtx /\ At(turn[i + 1], Turns(i + 1))
      OBVIOUS
    <2>1. i + 1 \in 0 .. B /\ i + 1 # 0 /\ i + 1 - 1 = i /\ i <= B
      BY <1>1
    <2>2. turn[i + 1] = Turn(turn[i])
      BY <1>8, <2>1
    <2>3. turn[i] \in ShaCtx /\ At(turn[i], Turns(i)) /\ Turns(i) \in 0 .. k
      BY <1>1, <1>10, <2>1
    <2>4. CASE i < k
      <3>1. Turns(i) = i /\ Turns(i + 1) = i + 1 /\ i # k
        BY <1>1, <2>4
      <3> HIDE DEF Turns
      <3> QED  BY <1>5, <2>2, <2>3, <3>1
    <2>5. CASE ~(i < k)
      <3>1. Turns(i) = k /\ Turns(i + 1) = k
        BY <1>1, <2>5
      <3> HIDE DEF Turns
      <3> QED  BY <1>5, <2>2, <2>3, <3>1
    <2> QED  BY <2>4, <2>5
  <1> HIDE DEF M
  <1>11. B \in M
    BY <1>1, <1>9, <1>10, Induction
  <1>12. Turns(B) = k /\ B <= B
    BY <1>1 DEF B
  <1> HIDE DEF Turns
  <1>13. At(turn[B], k)
    BY <1>1, <1>11, <1>12 DEF M
  <1>14. Len(turn[B].buffer) = B - L /\ Len(turn[B].state) + 1 = m
    BY <1>1, <1>4, <1>13
  <1> QED  BY <1>2, <1>13, <1>14 DEF At, B

\* It only matters what the first n bytes are.
LEMMA AbsorbedToo ==
  ASSUME NEW n \in Nat, NEW c, NEW g, NEW h, Absorbed(c, g, n), Len(g) = n, Follows(g, h, 0)
  PROVE  Absorbed(c, h, n)
  <1> DEFINE q == Len(c.state)
             l == Len(c.buffer)
             B == BlockSize
  <1>1. B \in Nat \ {0}
    BY BlockAssumption
  <1>2. q \in Nat /\ l \in Nat
    BY LenProperties DEF Absorbed, ShaCtx
  <1>3. /\ l < B /\ Start(q) + l = n /\ c \in ShaCtx /\ Follows(c.buffer, g, Start(q))
        /\ \A b \in 1 .. q : Len(c.state[b]) = B /\ Follows(c.state[b], g, Start(b - 1))
    BY DEF Absorbed
  <1>4. \A i \in 1 .. n : h[i] = g[i]
    <2> TAKE i \in 1 .. n
    <2>1. 0 + i = i
      OBVIOUS
    <2> QED  BY <2>1 DEF Follows
  <1> HIDE DEF q, l, B
  <1>5. l < B /\ Start(q) + l = n /\ Start(q) \in Nat
    BY <1>2, <1>3, StartNat
  <1>6. Follows(c.buffer, h, Start(q))
    <2> SUFFICES ASSUME NEW i \in 1 .. l PROVE c.buffer[i] = h[Start(q) + i]
      BY DEF Follows, l
    <2>1. Start(q) + i \in 1 .. n
      BY <1>2, <1>5
    <2> QED  BY <1>3, <1>4, <2>1 DEF Follows, l
  <1>7. ASSUME NEW b \in 1 .. q PROVE Len(c.state[b]) = B /\ Follows(c.state[b], h, Start(b - 1))
    <2> DEFINE s == c.state[b]
    <2>1. Len(s) = B /\ Follows(s, g, Start(b - 1))
      BY <1>3
    <2> HIDE DEF s
    <2>2. b - 1 \in Nat /\ b \in Nat /\ b - 1 + 1 = b
      BY <1>2
    <2>3. Start(b) = Start(b - 1) + B /\ Start(b - 1) \in Nat
      BY <2>2, StartNext, StartNat DEF B
    <2>4. Start(b) <= Start(q)
      <3>1. b * BlockSize <= q * BlockSize
        <4>1. q - b \in Nat /\ q = b + (q - b)
          BY <1>2
        <4> DEFINE d == q - b
        <4>2. d \in Nat /\ q = b + d
          BY <4>1
        <4> HIDE DEF d
        <4>3. (b + d) * BlockSize = b * BlockSize + d * BlockSize /\ d * BlockSize >= 0
          BY <4>2, <2>2, BlockAssumption
        <4> QED  BY <1>2, <2>2, <4>2, <4>3, BlockAssumption
      <3> QED  BY <3>1 DEF Start
    <2> SUFFICES ASSUME NEW i \in 1 .. B PROVE s[i] = h[Start(b - 1) + i]
      BY <2>1 DEF Follows, s
    <2>5. Start(b - 1) + i \in 1 .. n
      BY <1>1, <1>2, <1>5, <2>3, <2>4
    <2> QED  BY <1>4, <2>1, <2>5 DEF Follows
  <1> QED  BY <1>3, <1>6, <1>7 DEF Absorbed, q, l, B

\* sha256_final() makes the blocks of the padded message.
LEMMA FinalIs ==
  ASSUME NEW n \in Nat, NEW c, Absorbed(c, Message(1, n), n), c.bitlen = 8 * n
  PROVE  sha256_final(c) = Blocks(n)
  <1> DEFINE B == BlockSize
             L == LenSize
             msg == Message(1, n)
             all == msg \o Padding(n)
  <1>1. B \in Nat \ {0} /\ L \in Nat
    BY BlockAssumption
  <1>2. PICK k \in 0 .. B - 1, m \in Nat :
           /\ n + 1 + k + L = Start(m)
           /\ Padding(n) = <<Pad>> \o [i \in 1 .. k |-> Zero]
                             \o [i \in 1 .. L |-> LenByte(8 * n, i)]
    BY PaddingIs
  <1>3. /\ all \in Seq(Items) /\ Len(all) = n + 1 + k + L
        /\ Follows(msg, all, 0)
        /\ all[n + 1] = Pad
        /\ \A i \in 1 .. k : all[n + 1 + i] = Zero
        /\ \A i \in 1 .. L : all[n + 1 + k + i] = LenByte(8 * n, i)
    <2>1. k \in Nat
      BY <1>1
    <2>2. Padding(n) = <<Pad>> \o [i \in 1 .. k |-> Zero]
                         \o [i \in 1 .. LenSize |-> LenByte(8 * n, i)]
      BY <1>2
    <2> QED  BY <2>1, <2>2, PaddedIs
  <1>4. msg \in Seq(Items) /\ Len(msg) = n
    <2>1. 0 + 1 = 1 /\ 0 + n = n
      OBVIOUS
    <2> QED  BY <2>1, MessageIs
  <1> HIDE DEF all, msg
  <1>5. Absorbed(c, all, n)
    <2>1. Absorbed(c, msg, n)
      BY DEF msg
    <2> QED  BY <1>3, <1>4, <2>1, AbsorbedToo
  <1>6. /\ Absorbed(PadToLength(c), all, n + 1 + k)
        /\ Len(PadToLength(c).buffer) = B - L
        /\ Len(PadToLength(c).state) + 1 = m
    <2>1. k \in 0 .. BlockSize - 1 /\ n + 1 + k + LenSize = Start(m)
      BY <1>2
    <2>2. all[n + 1] = Pad /\ Zeros(all, n + 1, k)
      BY <1>3 DEF Zeros
    <2> QED  BY <1>5, <2>1, <2>2, PadToLengthIs
  <1> DEFINE padded == PadToLength(c)
             length == [i \in 1 .. L |-> LenByte(c.bitlen, i)]
             q == Len(padded.state)
             last == padded.buffer \o length
             st == Append(padded.state, last)
  <1>7. sha256_final(c) = st
    BY DEF sha256_final, sha256_transform
  <1> HIDE DEF padded
  <1>8. /\ padded \in ShaCtx /\ Start(q) + Len(padded.buffer) = n + 1 + k
        /\ Follows(padded.buffer, all, Start(q))
        /\ \A b \in 1 .. q : Len(padded.state[b]) = B /\ Follows(padded.state[b], all, Start(b - 1))
    BY <1>6 DEF Absorbed, padded
  <1>9. /\ padded.buffer \in Seq(Items) /\ padded.state \in Seq(Seq(Items)) /\ q \in Nat
        /\ Len(padded.buffer) = B - L /\ q + 1 = m
    <2>1. padded.buffer \in Seq(Items) /\ padded.state \in Seq(Seq(Items))
      BY <1>8 DEF ShaCtx
    <2> QED  BY <1>6, <2>1, LenProperties DEF padded
  <1>10. length \in Seq(Items) /\ Len(length) = L /\ \A i \in 1 .. L : length[i] = LenByte(8 * n, i)
    <2>1. \A i \in 1 .. L : LenByte(8 * n, i) \in Items
      BY <1>1 DEF LenByte, Items
    <2>2. length \in [1 .. L -> Items] /\ \A i \in 1 .. L : length[i] = LenByte(8 * n, i)
      BY <2>1
    <2> QED  BY <1>1, <2>2
  <1> HIDE DEF length, q
  <1>11. last \in Seq(Items) /\ Len(last) = B /\ Follows(last, all, Start(q))
    <2>1. Follows(length, all, n + 1 + k)
      BY <1>3, <1>10 DEF Follows
    <2>2. Follows(length, all, Start(q) + Len(padded.buffer)) /\ Start(q) \in Nat
      BY <1>8, <1>9, <2>1, StartNat
    <2>3. last \in Seq(Items) /\ Len(last) = Len(padded.buffer) + Len(length) /\ Follows(last, all, Start(q))
      <3>1. padded.buffer \in Seq(Items) /\ length \in Seq(Items) /\ Follows(padded.buffer, all, Start(q))
        BY <1>8, <1>9, <1>10
      <3> QED  BY <2>2, <3>1, FollowsOn
    <2> HIDE DEF last
    <2>4. B - L + L = B
      BY <1>1
    <2> QED  BY <1>9, <1>10, <2>3, <2>4
  <1> HIDE DEF last
  <1> DEFINE cc == [state |-> st, buffer |-> <<>>, bitlen |-> 0]
  <1>12. Absorbed(cc, all, Start(q) + B)
    BY <1>8, <1>9, <1>11, BlockDone DEF q
  <1>13. st \in Seq(Seq(Items)) /\ Len(st) = m
    BY <1>9, <1>11, AppendProperties DEF q
  <1>14. \A b \in 1 .. m : Len(st[b]) = B /\ Follows(st[b], all, Start(b - 1))
    <2>1. cc.state = st
      OBVIOUS
    <2> HIDE DEF cc, st
    <2> QED  BY <1>12, <1>13, <2>1 DEF Absorbed
  <1> HIDE DEF st
  <1>15. ASSUME NEW b \in 1 .. m
         PROVE  st[b] = SubSeq(all, (b - 1) * B + 1, b * B)
    <2> DEFINE s == st[b]
               i == Start(b - 1)
               t == SubSeq(all, i + 1, i + B)
    <2>1. s \in Seq(Items) /\ Len(s) = B /\ Follows(s, all, i)
      BY <1>13, <1>14
    <2>2. b - 1 \in Nat /\ b \in Nat /\ m - b \in Nat
      OBVIOUS
    <2>3. i \in Nat /\ i = (b - 1) * B /\ i + B = b * B /\ i + B <= Len(all)
      <3>1. i \in Nat /\ i = (b - 1) * B
        BY <2>2, StartNat DEF Start
      <3>2. (b - 1) * B + B = b * B
        BY <1>1, <2>2
      <3>3. m * B = b * B + (m - b) * B /\ (m - b) * B >= 0
        BY <1>1, <2>2
      <3>4. Len(all) = m * B
        BY <1>2, <1>3 DEF Start
      <3> QED  BY <1>1, <2>2, <3>1, <3>2, <3>3, <3>4
    <2> HIDE DEF s, i, B
    <2>4. t \in Seq(Items) /\ Len(t) = B /\ \A j \in 1 .. B : t[j] = all[i + j]
      BY <1>1, <1>3, <2>3, PieceIs
    <2> HIDE DEF t
    <2>5. \A j \in 1 .. B : s[j] = t[j]
      BY <2>1, <2>4 DEF Follows
    <2>6. s = t
      BY <2>1, <2>4, <2>5, SeqEqual
    <2> QED  BY <2>3, <2>6 DEF s, t
  <1>16. Len(all) \div B = m
    <2>1. Len(all) = m * B
      BY <1>2, <1>3 DEF Start
    <2>2. (m * B) \div B = m
      BY <1>1
    <2> QED  BY <2>1, <2>2
  <1>17. Blocks(n) = [b \in 1 .. m |-> SubSeq(all, (b - 1) * B + 1, b * B)]
    BY <1>16 DEF Blocks, all, msg
  <1>18. st = [b \in 1 .. m |-> st[b]]
    BY <1>13
  <1> QED  BY <1>7, <1>15, <1>17, <1>18

-----------------------------------------------------------------------------
(* The stream of tlsh_core.c.                                              *)

\* The rows of the table of triplets, and the q-th hit of a stream in which
\* the n-th byte is n.
Row(p) == <<<<49, 0, 1, 2>>, <<12, 0, 1, 3>>, <<178, 0, 2, 3>>, <<166, 0, 2, 4>>,
            <<84, 0, 1, 4>>, <<230, 0, 3, 4>>>>[p]
Hit(q) ==
    LET end == WndSize + (q - 1) \div 6
        h == Row(1 + ((q - 1) % 6))
    IN  <<h[1], end, end - h[3], end - h[4]>>

\* The rows reach four bytes back.
LEMMA RowIs ==
  ASSUME NEW p \in 1 .. 6
  PROVE  Row(p)[1] \in Nat /\ Row(p)[3] \in 0 .. 4 /\ Row(p)[4] \in 0 .. 4
  <1>1. p = 1 \/ p = 2 \/ p = 3 \/ p = 4 \/ p = 5 \/ p = 6
    OBVIOUS
  <1> QED  BY <1>1 DEF Row

\* The reference, hit by hit.
LEMMA HitsIs ==
  ASSUME NEW n \in Nat
  PROVE  /\ Hits(Bytes(1, n), n) = [q \in 1 .. 6 * Windows(n) |-> Hit(q)]
         /\ \A q \in 1 .. 6 * Windows(n) : Hit(q) \in Nat \X Nat \X Nat \X Nat
         /\ Windows(n) \in Nat
  <1> DEFINE m == 6 * Windows(n)
             file == Bytes(1, n)
             end(q) == WndSize + (q - 1) \div 6
             h(q) == Row(1 + ((q - 1) % 6))
  <1>1. \A x \in 1 .. n : file[x] = x
    BY DEF Bytes
  <1>2. ASSUME NEW q \in 1 .. m
        PROVE  /\ end(q) \in 5 .. n /\ end(q) \in Nat /\ 1 + ((q - 1) % 6) \in 1 .. 6
    BY DEF Windows, WndSize
  <1>3. ASSUME NEW q \in 1 .. m
        PROVE  /\ h(q)[1] \in Nat /\ h(q)[3] \in 0 .. 4 /\ h(q)[4] \in 0 .. 4
    BY <1>2, RowIs
  <1> HIDE DEF file, h, end
  <1>4. ASSUME NEW q \in 1 .. m
        PROVE  /\ file[end(q)] = end(q)
               /\ file[end(q) - h(q)[3]] = end(q) - h(q)[3]
               /\ file[end(q) - h(q)[4]] = end(q) - h(q)[4]
               /\ end(q) - h(q)[3] \in Nat /\ end(q) - h(q)[4] \in Nat
    <2> DEFINE e == end(q)
               a == h(q)[3]
               b == h(q)[4]
    <2>1. e \in 5 .. n /\ a \in 0 .. 4 /\ b \in 0 .. 4
      BY <1>2, <1>3
    <2> HIDE DEF e, a, b
    <2>2. e \in 1 .. n /\ e - a \in 1 .. n /\ e - b \in 1 .. n
      BY <2>1
    <2> QED  BY <1>1, <2>2 DEF e, a, b
  <1>5. \A q \in 1 .. m : <<h(q)[1], file[end(q)], file[end(q) - h(q)[3]], file[end(q) - h(q)[4]]>>
                            = Hit(q)
    BY <1>4 DEF Hit, h, end
  <1>6. Hits(Bytes(1, n), n)
          = [q \in 1 .. m |-> <<h(q)[1], file[end(q)], file[end(q) - h(q)[3]], file[end(q) - h(q)[4]]>>]
    BY DEF Hits, Windows, file, h, end, Row
  <1>7. \A q \in 1 .. m : Hit(q) \in Nat \X Nat \X Nat \X Nat
    BY <1>2, <1>3, <1>4 DEF Hit, h, end
  <1>8. Windows(n) \in Nat
    BY DEF Windows, WndSize
  <1> HIDE DEF m
  <1> QED  BY <1>5, <1>6, <1>7, <1>8 DEF m

\* The reference of the checksum, pair by pair.
Pair(m) == <<m + 4, m + 3>>

LEMMA PairsAre ==
  ASSUME NEW n \in Nat
  PROVE  /\ Pairs(Bytes(1, n), n) = [m \in 1 .. Windows(n) |-> Pair(m)]
         /\ [m \in 1 .. Windows(n) |-> Pair(m)] \in Seq(Nat \X Nat)
         /\ Len([m \in 1 .. Windows(n) |-> Pair(m)]) = Windows(n)
  <1> DEFINE w == Windows(n)
             file == Bytes(1, n)
  <1>1. \A x \in 1 .. n : file[x] = x
    BY DEF Bytes
  <1>2. w \in Nat /\ \A m \in 1 .. w : m + 4 \in 1 .. n /\ m + 3 \in 1 .. n
    BY DEF Windows, WndSize
  <1>3. Pairs(file, n) = [m \in 1 .. w |-> <<file[m + WndSize - 1], file[m + WndSize - 2]>>]
    BY DEF Pairs, Windows
  <1>4. \A m \in 1 .. w : m + WndSize - 1 = m + 4 /\ m + WndSize - 2 = m + 3
    BY DEF WndSize
  <1> HIDE DEF file, w
  <1>5. \A m \in 1 .. w : <<file[m + WndSize - 1], file[m + WndSize - 2]>> = Pair(m)
    BY <1>1, <1>2, <1>4 DEF Pair
  <1>6. Pairs(file, n) = [m \in 1 .. w |-> Pair(m)]
    BY <1>3, <1>5
  <1>7. \A m \in 1 .. w : Pair(m) \in Nat \X Nat
    BY <1>2 DEF Pair
  <1>8. /\ [m \in 1 .. w |-> Pair(m)] \in Seq(Nat \X Nat)
        /\ Len([m \in 1 .. w |-> Pair(m)]) = w
    BY <1>2, <1>7, IsASeq
  <1> QED  BY <1>6, <1>8 DEF file, w

\* The pair of a window is the next of the reference.
LEMMA NextPair ==
  ASSUME NEW n \in Nat, n >= WndSize - 1, NEW cs, cs = Pairs(Bytes(1, n), n)
  PROVE  Append(cs, <<n + 1, n>>) = Pairs(Bytes(1, n + 1), n + 1)
  <1> DEFINE w == Windows(n)
             x == n + 1
             e == <<n + 1, n>>
             ref == [m \in 1 .. w + 1 |-> Pair(m)]
  <1>1. w \in Nat /\ Windows(x) = w + 1 /\ e = Pair(w + 1) /\ e \in Nat \X Nat
    BY DEF Windows, WndSize, Pair
  <1>2. cs \in Seq(Nat \X Nat) /\ Len(cs) = w /\ \A i \in 1 .. w : cs[i] = Pair(i)
    BY PairsAre
  <1>3. /\ Pairs(Bytes(1, x), x) = [m \in 1 .. Windows(x) |-> Pair(m)]
        /\ [m \in 1 .. Windows(x) |-> Pair(m)] \in Seq(Nat \X Nat)
        /\ Len([m \in 1 .. Windows(x) |-> Pair(m)]) = Windows(x)
    <2>1. x \in Nat
      OBVIOUS
    <2> HIDE DEF x
    <2> QED  BY <2>1, PairsAre
  <1> HIDE DEF w, e, x
  <1>4. Pairs(Bytes(1, x), x) = ref /\ ref \in Seq(Nat \X Nat) /\ Len(ref) = w + 1
    BY <1>1, <1>3
  <1> DEFINE a == Append(cs, e)
  <1>5. /\ a \in Seq(Nat \X Nat) /\ Len(a) = w + 1
        /\ \A i \in 1 .. w : a[i] = cs[i]
        /\ a[w + 1] = e
    BY <1>1, <1>2, AppendProperties
  <1> HIDE DEF a
  <1>6. ASSUME NEW i \in 1 .. w + 1 PROVE a[i] = ref[i]
    <2>1. ref[i] = Pair(i)
      OBVIOUS
    <2> HIDE DEF ref
    <2>2. i \in 1 .. w \/ i = w + 1
      BY <1>1
    <2>3. CASE i \in 1 .. w
      BY <1>2, <1>5, <2>1, <2>3
    <2>4. CASE i = w + 1
      BY <1>1, <1>5, <2>1, <2>4
    <2> QED  BY <2>2, <2>3, <2>4
  <1> HIDE DEF ref
  <1>7. a = ref
    <2> DEFINE S == Nat \X Nat
               l == w + 1
    <2>1. /\ a \in Seq(S) /\ ref \in Seq(S) /\ Len(a) = l /\ Len(ref) = l
          /\ \A i \in 1 .. l : a[i] = ref[i]
      BY <1>4, <1>5, <1>6
    <2> HIDE DEF S, l
    <2>2. a \in [1 .. l -> S] /\ ref \in [1 .. l -> S]
      BY <2>1, LenProperties
    <2> QED  BY <2>1, <2>2
  <1> QED  BY <1>4, <1>7 DEF a, e, x

\* The six hits of a window are the next six of the reference.
LEMMA TripletsAre ==
  ASSUME NEW n \in Nat, n >= WndSize - 1
  PROVE  LET six == Triplets(n + 1, n, n - 1, n - 2, n - 3)
         IN  /\ six \in Seq(Nat \X Nat \X Nat \X Nat) /\ Len(six) = 6
             /\ \A p \in 1 .. 6 : six[p] = Hit(6 * Windows(n) + p)
  <1> DEFINE six == Triplets(n + 1, n, n - 1, n - 2, n - 3)
             w == Windows(n)
  <1>1. w \in Nat /\ WndSize + w = n + 1 /\ n - 1 \in Nat /\ n - 2 \in Nat /\ n - 3 \in Nat
    BY DEF Windows, WndSize
  <1>2. six \in Seq(Nat \X Nat \X Nat \X Nat) /\ Len(six) = 6
    <2> DEFINE T == Nat \X Nat \X Nat \X Nat
               a == <<49, n + 1, n, n - 1>>
               b == <<12, n + 1, n, n - 2>>
               c == <<178, n + 1, n - 1, n - 2>>
               d == <<166, n + 1, n - 1, n - 3>>
               e == <<84, n + 1, n, n - 3>>
               f == <<230, n + 1, n - 2, n - 3>>
    <2>1. a \in T /\ b \in T /\ c \in T /\ d \in T /\ e \in T /\ f \in T
      BY <1>1
    <2>2. six = <<a, b, c, d, e, f>>
      BY DEF Triplets, fast_b_mapping
    <2> HIDE DEF six, T, a, b, c, d, e, f
    <2>3. six \in Seq(T) /\ Len(six) = 6
      BY <2>1, <2>2
    <2> QED  BY <2>3 DEF T
  <1>3. ASSUME NEW p \in 1 .. 6
        PROVE  (6 * w + p - 1) \div 6 = w /\ (6 * w + p - 1) % 6 = p - 1 /\ 1 + (p - 1) = p
    <2> HIDE DEF w
    <2> QED  BY <1>1
  <1>4. ASSUME NEW p \in 1 .. 6
        PROVE  Hit(6 * w + p) = <<Row(p)[1], n + 1, (n + 1) - Row(p)[3], (n + 1) - Row(p)[4]>>
    <2> DEFINE y == 6 * w + p
               end == WndSize + (y - 1) \div 6
               row == 1 + ((y - 1) % 6)
    <2>1. end = n + 1 /\ row = p
      BY <1>1, <1>3
    <2>2. Hit(y) = <<Row(row)[1], end, end - Row(row)[3], end - Row(row)[4]>>
      BY DEF Hit
    <2> HIDE DEF w, y, end, row
    <2>3. Hit(y) = <<Row(p)[1], n + 1, (n + 1) - Row(p)[3], (n + 1) - Row(p)[4]>>
      BY <2>1, <2>2, Zenon
    <2> QED  BY <2>3 DEF y
  <1>5. ASSUME NEW p \in 1 .. 6
        PROVE  six[p] = <<Row(p)[1], n + 1, (n + 1) - Row(p)[3], (n + 1) - Row(p)[4]>>
    <2>1. p = 1 \/ p = 2 \/ p = 3 \/ p = 4 \/ p = 5 \/ p = 6
      OBVIOUS
    <2>2. n + 1 - 1 = n /\ n + 1 - 2 = n - 1 /\ n + 1 - 3 = n - 2 /\ n + 1 - 4 = n - 3
      OBVIOUS
    <2> QED  BY <2>1, <2>2 DEF Triplets, fast_b_mapping, Row
  <1> HIDE DEF six, w
  <1> QED  BY <1>2, <1>4, <1>5 DEF six, w

\* The byte n + 1 in the window over the last five.
LEMMA WindowIs ==
  ASSUME NEW n \in Nat, NEW old \in [0 .. WndSize - 1 -> Nat],
         \A d \in 0 .. WndSize - 1 : d < n => old[(n - 1 - d) % WndSize] = n - d
  PROVE  LET sw == [old EXCEPT ![n % WndSize] = n + 1]
         IN  /\ sw \in [0 .. WndSize - 1 -> Nat]
             /\ \A d \in 0 .. WndSize - 1 : d < n + 1 => sw[(n + 1 - 1 - d) % WndSize] = n + 1 - d
             /\ n >= WndSize - 1 =>
                  \A d \in 1 .. WndSize - 1 : sw[((n % WndSize) + WndSize - d) % WndSize] = n + 1 - d
  <1> DEFINE sw == [old EXCEPT ![n % WndSize] = n + 1]
  <1>1. n % WndSize \in 0 .. WndSize - 1
    BY DEF WndSize
  <1>2. sw \in [0 .. WndSize - 1 -> Nat] /\ sw[n % WndSize] = n + 1
    BY <1>1
  <1>3. ASSUME NEW d \in 1 .. WndSize - 1, d < n + 1
        PROVE  sw[(n - d) % WndSize] = n + 1 - d
    <2>1. (n - d) % WndSize \in 0 .. WndSize - 1 /\ (n - d) % WndSize # n % WndSize
      BY <1>3 DEF WndSize
    <2>2. d - 1 \in 0 .. WndSize - 1 /\ d - 1 < n /\ n - 1 - (d - 1) = n - d /\ n - (d - 1) = n + 1 - d
      BY <1>3 DEF WndSize
    <2>3. old[(n - d) % WndSize] = n + 1 - d
      BY <2>2
    <2> QED  BY <2>1, <2>3
  <1> HIDE DEF sw
  <1>4. ASSUME NEW d \in 0 .. WndSize - 1, d < n + 1
        PROVE  sw[(n + 1 - 1 - d) % WndSize] = n + 1 - d
    <2>1. CASE d = 0
      <3>1. n + 1 - 1 - d = n /\ n + 1 - d = n + 1
        BY <2>1
      <3> QED  BY <1>2, <3>1
    <2>2. CASE d # 0
      <3>1. d \in 1 .. WndSize - 1 /\ n + 1 - 1 - d = n - d
        BY <2>2 DEF WndSize
      <3> QED  BY <1>3, <1>4, <3>1
    <2> QED  BY <2>1, <2>2
  <1>5. ASSUME n >= WndSize - 1, NEW d \in 1 .. WndSize - 1
        PROVE  sw[((n % WndSize) + WndSize - d) % WndSize] = n + 1 - d
    <2>1. ((n % WndSize) + WndSize - d) % WndSize = (n - d) % WndSize /\ d < n + 1
      BY <1>5 DEF WndSize
    <2> QED  BY <1>3, <2>1
  <1> QED  BY <1>2, <1>4, <1>5 DEF sw

\* A turn of the loop of tlsh_update() takes the byte n + 1 into the window, and
\* the window into the buckets once it is full.
LEMMA SlideIs ==
  ASSUME NEW n \in Nat, NEW c \in TlshCtx, Slid(c, n)
  PROVE  LET s == SlideOver(c, n + 1, n, n % WndSize)
         IN  /\ s \in TlshCtx /\ Slid(s, n + 1)
             /\ s.allocated = c.allocated /\ s.alloc_failed = c.alloc_failed
             /\ s.data_len = c.data_len
  <1> DEFINE T == Nat \X Nat \X Nat \X Nat
             b == n + 1
             j == n % WndSize
             sw == [c.slide_window EXCEPT ![j] = b]
             back(k) == sw[(j + WndSize - k) % WndSize]
             w == Windows(n)
             w1 == Windows(n + 1)
  <1>1. /\ c.slide_window \in [0 .. WndSize - 1 -> Nat]
        /\ c.checksum \in Seq(Nat \X Nat) /\ c.hits \in Seq(T)
    BY DEF TlshCtx
  <1>2. /\ \A d \in 0 .. WndSize - 1 : d < n => c.slide_window[(n - 1 - d) % WndSize] = n - d
        /\ c.checksum = Pairs(Bytes(1, n), n) /\ c.hits = [q \in 1 .. 6 * w |-> Hit(q)] /\ w \in Nat
    BY HitsIs DEF Slid
  <1>3. /\ sw \in [0 .. WndSize - 1 -> Nat]
        /\ \A d \in 0 .. WndSize - 1 : d < n + 1 => sw[(n + 1 - 1 - d) % WndSize] = n + 1 - d
        /\ n >= WndSize - 1 => \A d \in 1 .. WndSize - 1 : back(d) = n + 1 - d
    <2> DEFINE old == c.slide_window
               new == [old EXCEPT ![n % WndSize] = n + 1]
    <2>1. /\ old \in [0 .. WndSize - 1 -> Nat]
          /\ \A d \in 0 .. WndSize - 1 : d < n => old[(n - 1 - d) % WndSize] = n - d
      BY <1>1, <1>2
    <2> HIDE DEF old
    <2>2. /\ new \in [0 .. WndSize - 1 -> Nat]
          /\ \A d \in 0 .. WndSize - 1 : d < n + 1 => new[(n + 1 - 1 - d) % WndSize] = n + 1 - d
          /\ n >= WndSize - 1 =>
               \A d \in 1 .. WndSize - 1 : new[((n % WndSize) + WndSize - d) % WndSize] = n + 1 - d
      BY <2>1, WindowIs
    <2> QED  BY <2>2 DEF old
  <1>4. /\ Hits(Bytes(1, n + 1), n + 1) = [q \in 1 .. 6 * w1 |-> Hit(q)] /\ w1 \in Nat
        /\ \A q \in 1 .. 6 * w1 : Hit(q) \in T
    <2>1. n + 1 \in Nat
      OBVIOUS
    <2> DEFINE m == n + 1
    <2> HIDE DEF m
    <2>2. /\ Hits(Bytes(1, m), m) = [q \in 1 .. 6 * Windows(m) |-> Hit(q)] /\ Windows(m) \in Nat
          /\ \A q \in 1 .. 6 * Windows(m) : Hit(q) \in T
      BY <2>1, HitsIs DEF m
    <2> QED  BY <2>2 DEF m
  <1>5. CASE n < WndSize - 1
    <2> DEFINE s == [c EXCEPT !.slide_window = sw]
    <2>1. SlideOver(c, b, n, j) = s
      BY <1>5 DEF SlideOver
    <2>2. w1 = w
      BY <1>5 DEF Windows, WndSize
    <2> HIDE DEF sw
    <2>3. /\ s \in TlshCtx /\ s.slide_window = sw /\ s.checksum = c.checksum /\ s.hits = c.hits
          /\ s.allocated = c.allocated /\ s.alloc_failed = c.alloc_failed
          /\ s.data_len = c.data_len
      BY <1>3 DEF TlshCtx
    <2> HIDE DEF s, w, w1
    <2>4. s.hits = [q \in 1 .. 6 * w1 |-> Hit(q)]
      BY <1>2, <2>2, <2>3
    <2>5. s.checksum = Pairs(Bytes(1, n + 1), n + 1)
      <3> DEFINE x == n + 1
      <3>1. /\ Pairs(Bytes(1, n), n) = [m \in 1 .. w |-> Pair(m)]
        BY PairsAre DEF w
      <3>2. Pairs(Bytes(1, x), x) = [m \in 1 .. w1 |-> Pair(m)]
        <4>1. x \in Nat
          OBVIOUS
        <4> HIDE DEF x
        <4>2. Pairs(Bytes(1, x), x) = [m \in 1 .. Windows(x) |-> Pair(m)]
          BY <4>1, PairsAre
        <4> QED  BY <4>2 DEF w1, x
      <3> HIDE DEF x
      <3>3. c.checksum = Pairs(Bytes(1, x), x)
        BY <1>2, <2>2, <3>1, <3>2
      <3> QED  BY <2>3, <3>3 DEF x
    <2>6. Slid(s, n + 1)
      BY <1>3, <1>4, <2>3, <2>4, <2>5 DEF Slid, w1
    <2> QED  BY <2>1, <2>3, <2>6 DEF s
  <1>6. CASE n >= WndSize - 1
    <2> DEFINE cs == Append(c.checksum, <<b, back(1)>>)
               six == Triplets(b, back(1), back(2), back(3), back(4))
               hs == c.hits \o six
               s == [c EXCEPT !.slide_window = sw, !.checksum = cs, !.hits = hs]
    <2>1. SlideOver(c, b, n, j) = s
      BY <1>6 DEF SlideOver, WndSize
    <2>2. w1 = w + 1
      BY <1>6 DEF Windows, WndSize
    <2>3. back(1) = n /\ back(2) = n - 1 /\ back(3) = n - 2 /\ back(4) = n - 3
      <3>1. /\ 1 \in 1 .. WndSize - 1 /\ 2 \in 1 .. WndSize - 1 /\ 3 \in 1 .. WndSize - 1
            /\ 4 \in 1 .. WndSize - 1
        BY DEF WndSize
      <3> HIDE DEF back
      <3>2. back(1) = n + 1 - 1 /\ back(2) = n + 1 - 2 /\ back(3) = n + 1 - 3 /\ back(4) = n + 1 - 4
        BY <1>3, <1>6, <3>1
      <3> QED  BY <3>2
    <2> HIDE DEF back
    <2>4. six = Triplets(n + 1, n, n - 1, n - 2, n - 3)
      BY <2>3
    <2>5. six \in Seq(T) /\ Len(six) = 6 /\ \A p \in 1 .. 6 : six[p] = Hit(6 * w + p)
      BY <1>6, <2>4, TripletsAre
    <2>6. cs \in Seq(Nat \X Nat) /\ cs = Pairs(Bytes(1, n + 1), n + 1)
      <3>1. <<b, back(1)>> \in Nat \X Nat /\ <<b, back(1)>> = <<n + 1, n>>
        BY <2>3
      <3>2. cs \in Seq(Nat \X Nat)
        BY <1>1, <3>1, AppendProperties
      <3> DEFINE old == c.checksum
      <3>3. old = Pairs(Bytes(1, n), n) /\ cs = Append(old, <<n + 1, n>>)
        BY <1>2, <3>1
      <3> HIDE DEF old, cs
      <3>4. cs = Pairs(Bytes(1, n + 1), n + 1)
        BY <1>6, <3>3, NextPair
      <3> QED  BY <3>2, <3>4
    <2> HIDE DEF six, cs, sw, w, w1, T
    <2>7. hs \in Seq(T) /\ hs = [q \in 1 .. 6 * w1 |-> Hit(q)]
      <3>1. Len(c.hits) = 6 * w /\ \A q \in 1 .. 6 * w : c.hits[q] = Hit(q)
        BY <1>2
      <3>2. /\ hs \in Seq(T) /\ Len(hs) = 6 * w + 6
            /\ \A i \in 1 .. 6 * w : hs[i] = c.hits[i]
            /\ \A i \in 1 .. 6 : hs[6 * w + i] = six[i]
        <4> DEFINE l == 6 * w
                   h == c.hits
                   six0 == 6
        <4>1. h \in Seq(T) /\ six \in Seq(T) /\ Len(h) = l /\ Len(six) = six0
          BY <1>1, <2>5, <3>1
        <4> HIDE DEF l, h, six0
        <4>2. /\ h \o six \in Seq(T) /\ Len(h \o six) = l + six0
              /\ \A i \in 1 .. l : (h \o six)[i] = h[i]
              /\ \A i \in 1 .. six0 : (h \o six)[l + i] = six[i]
          BY <4>1, JoinIs
        <4> QED  BY <4>2 DEF l, h, six0
      <3> HIDE DEF hs
      <3>3. 6 * w + 6 = 6 * w1
        BY <1>2, <2>2
      <3>4. ASSUME NEW q \in 1 .. 6 * w1 PROVE hs[q] = Hit(q)
        <4>1. CASE q <= 6 * w
          <5>1. q \in 1 .. 6 * w
            BY <1>2, <4>1
          <5> QED  BY <3>1, <3>2, <5>1
        <4>2. CASE q > 6 * w
          <5> DEFINE p == q - 6 * w
          <5>1. p \in 1 .. 6 /\ 6 * w + p = q
            BY <1>2, <3>3, <4>2
          <5> HIDE DEF p
          <5>2. hs[6 * w + p] = Hit(6 * w + p)
            BY <2>5, <3>2, <5>1
          <5> QED  BY <5>1, <5>2
        <4> QED  BY <1>2, <4>1, <4>2
      <3>5. DOMAIN hs = 1 .. 6 * w1 /\ hs = [q \in DOMAIN hs |-> hs[q]]
        BY <3>2, <3>3
      <3> QED  BY <3>2, <3>4, <3>5
    <2> HIDE DEF hs
    <2>8. /\ s \in TlshCtx /\ s.slide_window = sw /\ s.checksum = cs /\ s.hits = hs
          /\ s.allocated = c.allocated /\ s.alloc_failed = c.alloc_failed
          /\ s.data_len = c.data_len
      BY <1>3, <2>6, <2>7 DEF TlshCtx, T
    <2> HIDE DEF s
    <2>9. Slid(s, n + 1)
      BY <1>3, <1>4, <2>6, <2>7, <2>8 DEF Slid, w1
    <2> QED  BY <2>1, <2>8, <2>9 DEF s
  <1>7. n < WndSize - 1 \/ n >= WndSize - 1
    BY DEF WndSize
  <1> QED  BY <1>5, <1>6, <1>7

\* tlsh_update() takes the next k bytes, unless memory is short.
LEMMA TlshUpdateIs ==
  ASSUME NEW n \in Nat, NEW k \in Nat, NEW c \in TlshCtx, NEW mem \in BOOLEAN,
         ~c.alloc_failed => Slid(c, n) /\ c.data_len = n
  PROVE  LET u == tlsh_update(c, Bytes(n + 1, n + k), mem)
         IN  u \in TlshCtx /\ (~u.alloc_failed => Slid(u, n + k) /\ u.data_len = n + k)
  <1> DEFINE data == Bytes(n + 1, n + k)
             u == tlsh_update(c, data, mem)
             V == {v \in TlshCtx : v.alloc_failed = FALSE /\ v.data_len = n}
             first == [c EXCEPT !.allocated = TRUE]
             Turn(v, i) == SlideOver(v, n + i, n + i - 1, (n + i - 1) % WndSize)
             step == [i \in 1 .. k |-> [v \in V |-> IF Slid(v, n + i - 1) THEN Turn(v, i) ELSE v]]
  <1>1. Len(data) = k /\ \A i \in 1 .. k : data[i] = n + i
    <2>1. n + k + 1 - (n + 1) = k /\ \A i \in 1 .. k : n + 1 + i - 1 = n + i
      OBVIOUS
    <2> DEFINE s == [i \in 1 .. k |-> n + i]
    <2>2. data = s
      BY <2>1 DEF Bytes
    <2>3. s \in [1 .. k -> Nat]
      OBVIOUS
    <2>4. Len(s) = k /\ \A i \in 1 .. k : s[i] = n + i
      BY <2>3
    <2> QED  BY <2>2, <2>4
  <1>2. CASE c.alloc_failed
    <2>1. u = c
      BY <1>2 DEF tlsh_update
    <2> HIDE DEF u
    <2> QED  BY <1>2, <2>1 DEF u, data
  <1>3. CASE ~c.alloc_failed /\ ~c.allocated /\ ~mem
    <2>1. u = [c EXCEPT !.alloc_failed = TRUE]
      BY <1>3 DEF tlsh_update
    <2>2. [c EXCEPT !.alloc_failed = TRUE] \in TlshCtx /\ [c EXCEPT !.alloc_failed = TRUE].alloc_failed
      BY DEF TlshCtx
    <2> HIDE DEF u
    <2> QED  BY <2>1, <2>2 DEF u, data
  <1>4. CASE ~c.alloc_failed /\ ~(~c.allocated /\ ~mem)
    <2> DEFINE Body(f) == [i \in 0 .. k |-> IF i = 0 THEN first ELSE Turn(f[i - 1], i)]
               after == CHOOSE f : f = Body(f)
    <2>1. u = [after[k] EXCEPT !.data_len = after[k].data_len + k]
      <3> DEFINE Raw(f) == [i \in 0 .. Len(data) |->
                              IF i = 0 THEN first
                              ELSE SlideOver(f[i - 1], data[i], c.data_len + i - 1,
                                             (c.data_len + i - 1) % WndSize)]
                 raw == CHOOSE f : f = Raw(f)
      <3>1. u = [raw[Len(data)] EXCEPT !.data_len = raw[Len(data)].data_len + Len(data)]
        BY <1>4 DEF tlsh_update
      <3>2. \A f : Raw(f) = Body(f)
        <4>1. c.data_len = n
          BY <1>4
        <4> HIDE DEF data, first
        <4> QED  BY <1>1, <4>1
      <3> HIDE DEF Raw, Body
      <3>3. raw = after
        BY <3>2
      <3> QED  BY <1>1, <3>1, <3>3
    <2>2. first \in V /\ Slid(first, n)
      <3>1. first \in TlshCtx
        BY DEF TlshCtx
      <3>2. /\ first.alloc_failed = c.alloc_failed /\ first.data_len = c.data_len
            /\ first.slide_window = c.slide_window /\ first.checksum = c.checksum
            /\ first.hits = c.hits
        BY DEF TlshCtx
      <3>3. c.alloc_failed = FALSE /\ c.data_len = n /\ Slid(c, n)
        BY <1>4 DEF TlshCtx
      <3> HIDE DEF first
      <3> QED  BY <3>1, <3>2, <3>3 DEF Slid
    <2>3. ASSUME NEW v \in V, NEW i \in 1 .. k, Slid(v, n + i - 1)
          PROVE  Turn(v, i) \in V /\ Slid(Turn(v, i), n + i)
      <3> DEFINE x == n + i - 1
      <3>1. x \in Nat /\ n + i = x + 1 /\ v \in TlshCtx /\ Slid(v, x)
        BY <2>3
      <3> HIDE DEF x
      <3> DEFINE s == SlideOver(v, x + 1, x, x % WndSize)
      <3>2. /\ s \in TlshCtx /\ Slid(s, x + 1) /\ s.alloc_failed = v.alloc_failed
            /\ s.data_len = v.data_len
        BY <3>1, SlideIs
      <3>3. Turn(v, i) = s
        BY <3>1 DEF x
      <3> HIDE DEF s, Turn
      <3> QED  BY <3>1, <3>2, <3>3
    <2> HIDE DEF V, Turn, first, data, u
    <2>4. step \in [1 .. k -> [V -> V]]
      BY <2>3
    <2>5. \A i \in 1 .. k, v \in V : step[i][v] = IF Slid(v, n + i - 1) THEN Turn(v, i) ELSE v
      OBVIOUS
    <2> HIDE DEF step
    <2>6. PICK f : IsLoop(f, V, first, k, step)
      BY <2>2, <2>4, LoopExists
    <2>7. f \in [0 .. k -> V] /\ f[0] = first /\ \A i \in 1 .. k : f[i - 1] \in V /\ f[i] = step[i][f[i - 1]]
      BY <2>6 DEF IsLoop
    <2> DEFINE M == {i \in Nat : i <= k => Slid(f[i], n + i)}
    <2>8. 0 \in M
      BY <2>2, <2>7
    <2>9. ASSUME NEW i \in Nat, i \in M PROVE i + 1 \in M
      <3> SUFFICES ASSUME i + 1 <= k PROVE Slid(f[i + 1], n + (i + 1))
        OBVIOUS
      <3> DEFINE j == i + 1
      <3>1. j \in 1 .. k /\ j - 1 = i /\ n + j - 1 = n + i /\ Slid(f[i], n + i)
        BY <2>9
      <3> HIDE DEF j
      <3>2. f[i] \in V /\ f[j] = step[j][f[i]]
        BY <2>7, <3>1
      <3>3. f[j] = Turn(f[i], j) /\ Slid(Turn(f[i], j), n + j)
        BY <2>3, <2>5, <3>1, <3>2
      <3> QED  BY <3>3 DEF j
    <2>10. Nat \subseteq M
      <3> HIDE DEF M
      <3> QED  BY <2>8, <2>9, Induction
    <2>11. \A i \in 0 .. k : Slid(f[i], n + i)
      BY <2>10
    <2>12. ASSUME NEW i \in 1 .. k PROVE f[i] = Turn(f[i - 1], i) 
      <3>1. i - 1 \in 0 .. k /\ n + (i - 1) = n + i - 1
        OBVIOUS
      <3> QED  BY <2>5, <2>7, <2>11, <3>1
    <2>13. f = Body(f)
      BY <2>7, <2>12
    <2>14. after = Body(after)
      BY <2>13
    <2> DEFINE N == {i \in Nat : i <= k => after[i] = f[i]}
    <2> HIDE DEF after
    <2>15. after[0] = first /\ \A i \in 1 .. k : after[i] = Turn(after[i - 1], i)
      BY <2>14
    <2>16. 0 \in N /\ \A i \in Nat : i \in N => i + 1 \in N
      <3>1. 0 \in N
        BY <2>7, <2>15
      <3>2. ASSUME NEW i \in Nat, i \in N PROVE i + 1 \in N
        <4> SUFFICES ASSUME i + 1 <= k PROVE after[i + 1] = f[i + 1]
          OBVIOUS
        <4> DEFINE j == i + 1
        <4>1. j \in 1 .. k /\ j - 1 = i /\ after[i] = f[i]
          BY <3>2
        <4> HIDE DEF j
        <4>2. after[j] = f[j]
          BY <2>12, <2>15, <4>1
        <4> QED  BY <4>2 DEF j
      <3> QED  BY <3>1, <3>2
    <2>17. after[k] = f[k]
      <3>1. Nat \subseteq N
        <4> HIDE DEF N
        <4> QED  BY <2>16, Induction
      <3> QED  BY <3>1
    <2> DEFINE z == f[k]
    <2>18. z \in V /\ Slid(z, n + k) /\ u = [z EXCEPT !.data_len = z.data_len + k]
      BY <2>1, <2>7, <2>11, <2>17
    <2> HIDE DEF z
    <2>19. z \in TlshCtx /\ z.data_len = n
      BY <2>18 DEF V
    <2>20. /\ u \in TlshCtx /\ u.data_len = n + k
           /\ u.slide_window = z.slide_window /\ u.checksum = z.checksum /\ u.hits = z.hits
      <3> DEFINE d == z.data_len + k
      <3>1. d \in Nat /\ d = n + k /\ u = [z EXCEPT !.data_len = d]
        BY <2>18, <2>19
      <3> HIDE DEF d
      <3>2. u \in TlshCtx
        BY <2>19, <3>1 DEF TlshCtx
      <3>3. /\ u.data_len = d /\ u.slide_window = z.slide_window /\ u.checksum = z.checksum
            /\ u.hits = z.hits
        BY <2>19, <3>1 DEF TlshCtx
      <3> QED  BY <3>1, <3>2, <3>3
    <2>21. Slid(u, n + k)
      BY <2>18, <2>20 DEF Slid
    <2> QED  BY <2>20, <2>21 DEF u, data
  <1> QED  BY <1>2, <1>3, <1>4

-----------------------------------------------------------------------------
(* The calls that read a file.                                             *)

LEMMA InitStream == Init => StreamInv
  <1> SUFFICES ASSUME Init PROVE ShaInv /\ TlshInv
    BY DEF StreamInv
  <1>1. ShaInv
    <2> SUFFICES ASSUME job.kind = "sha" PROVE ShaInv
      BY DEF ShaInv
    <2> SUFFICES Absorbed(sha256_init, Message(1, 0), 0) /\ sha256_init.bitlen = 8 * 0
      <3>1. ctx = sha256_init
        BY DEF Init
      <3>2. total = 0 /\ ~done
        BY DEF Init
      <3> QED  BY <3>1, <3>2 DEF ShaInv
    <2>1. sha256_init \in ShaCtx /\ sha256_init.state = <<>> /\ sha256_init.buffer = <<>>
      BY DEF sha256_init, ShaCtx
    <2>2. sha256_init.bitlen = 8 * 0
      BY DEF sha256_init
    <2> DEFINE c == sha256_init
    <2> HIDE DEF c
    <2>3. Len(c.state) = 0 /\ Len(c.buffer) = 0
      BY <2>1 DEF c
    <2>4. /\ \A b \in 1 .. Len(c.state) :
               Len(c.state[b]) = BlockSize /\ Follows(c.state[b], Message(1, 0), Start(b - 1))
          /\ \A g, n : Follows(c.buffer, g, n)
      BY <2>3 DEF Follows
    <2>5. Len(c.buffer) < BlockSize /\ Start(Len(c.state)) + Len(c.buffer) = 0
      BY <2>3, StartNat, BlockAssumption
    <2> QED  BY <2>1, <2>2, <2>4, <2>5 DEF Absorbed, c
  <1>2. TlshInv
    <2> SUFFICES ASSUME job.kind = "tlsh" PROVE TlshInv
      BY DEF TlshInv
    <2> SUFFICES tlsh_init \in TlshCtx /\ Slid(tlsh_init, 0) /\ tlsh_init.data_len = 0
      <3>1. ctx = tlsh_init
        BY DEF Init
      <3>2. total = 0 /\ ~done
        BY DEF Init
      <3>3. 0 \in 0 .. MaxHashed
        BY StreamAssumption
      <3> QED  BY <3>1, <3>2, <3>3 DEF TlshInv
    <2>1. tlsh_init \in TlshCtx
      BY DEF tlsh_init, TlshCtx, WndSize
    <2>2. tlsh_init.data_len = 0 /\ tlsh_init.checksum = <<>> /\ tlsh_init.hits = <<>>
      BY DEF tlsh_init
    <2>3. Windows(0) = 0
      BY DEF Windows, WndSize
    <2>4. Hits(Bytes(1, 0), 0) = <<>>
      <3>1. Hits(Bytes(1, 0), 0) = [q \in 1 .. 6 * Windows(0) |-> Hit(q)]
        BY HitsIs
      <3> QED  BY <2>3, <3>1
    <2>5. \A d \in 0 .. WndSize - 1 : ~(d < 0)
      BY DEF WndSize
    <2>6. Pairs(Bytes(1, 0), 0) = <<>>
      <3>1. Pairs(Bytes(1, 0), 0) = [m \in 1 .. Windows(0) |-> Pair(m)]
        BY PairsAre
      <3> QED  BY <2>3, <3>1
    <2> QED  BY <2>1, <2>2, <2>4, <2>5, <2>6 DEF Slid
  <1> QED  BY <1>1, <1>2

LEMMA ReadForShaKeeps == ShaInv /\ ReadForSha => ShaInv'
  <1> SUFFICES ASSUME ShaInv, ReadForSha, job.kind = "sha" PROVE ShaInv'
    BY DEF ShaInv, ReadForSha
  <1>1. total \in Nat /\ Absorbed(ctx, Message(1, total), total) /\ ctx.bitlen = 8 * total /\ ~done
    BY DEF ShaInv, ReadForSha
  <1>2. PICK k \in 1 .. BufSize : ctx' = sha256_update(ctx, Message(total + 1, total + k)) /\ total' = total + k
    BY DEF ReadForSha
  <1> DEFINE n == total
             c == ctx
             old == Message(1, n)
             new == Message(1, n + k)
             data == Message(n + 1, n + k)
  <1>3. k \in Nat /\ n \in Nat /\ n + k \in Nat
    BY <1>1, StreamAssumption
  <1> HIDE DEF n, c
  <1>4. old \in Seq(Items) /\ Len(old) = n /\ \A i \in 1 .. n : old[i] = Byte(i)
    <2>1. 0 + 1 = 1 /\ 0 + n = n /\ \A i \in 1 .. n : 0 + i = i
      BY <1>3
    <2> QED  BY <1>3, <2>1, MessageIs
  <1>5. \A i \in 1 .. n + k : new[i] = Byte(i)
    <2> DEFINE m == n + k
    <2> HIDE DEF m
    <2>1. m \in Nat /\ 0 + 1 = 1 /\ 0 + m = m /\ \A i \in 1 .. m : 0 + i = i
      BY <1>3 DEF m
    <2>2. \A i \in 1 .. m : Message(1, m)[i] = Byte(i)
      BY <2>1, MessageIs
    <2> QED  BY <2>2 DEF m, new
  <1>6. data \in Seq(Items) /\ Len(data) = k /\ \A i \in 1 .. k : data[i] = Byte(n + i)
    BY <1>3, MessageIs
  <1> HIDE DEF old, new, data
  <1>7. Follows(old, new, 0)
    <2>1. \A i \in 1 .. n : i \in 1 .. n + k /\ 0 + i = i
      BY <1>3
    <2> QED  BY <1>4, <1>5, <2>1 DEF Follows
  <1>8. Follows(data, new, n)
    <2>1. \A i \in 1 .. k : n + i \in 1 .. n + k
      BY <1>3
    <2> QED  BY <1>5, <1>6, <2>1 DEF Follows
  <1>9. Absorbed(c, old, n) /\ c.bitlen = 8 * n
    BY <1>1 DEF c, n, old
  <1>10. Absorbed(c, new, n)
    BY <1>3, <1>4, <1>7, <1>9, AbsorbedToo
  <1>11. /\ Absorbed(sha256_update(c, data), new, n + k)
         /\ sha256_update(c, data).bitlen = 8 * (n + k)
    <2>1. /\ Absorbed(sha256_update(c, data), new, n + Len(data))
          /\ sha256_update(c, data).bitlen = c.bitlen + 8 * Len(data)
      <3>1. n \in Nat /\ data \in Seq(Items)
        BY <1>3, <1>6
      <3> QED  BY <1>8, <1>10, <3>1, UpdateIs
    <2> QED  BY <1>3, <1>6, <1>9, <2>1
  <1>12. /\ total' \in Nat /\ Absorbed(ctx', Message(1, total'), total')
         /\ ctx'.bitlen = 8 * total'
    BY <1>2, <1>3, <1>11 DEF n, c, new, data
  <1>13. done' = FALSE
    BY <1>1 DEF ReadForSha
  <1> QED  BY <1>12, <1>13 DEF ShaInv

LEMMA EndShaKeeps == ShaInv /\ EndSha => ShaInv'
  <1> SUFFICES ASSUME ShaInv, EndSha, job.kind = "sha" PROVE ShaInv'
    BY DEF ShaInv, EndSha
  <1>1. total \in Nat /\ Absorbed(ctx, Message(1, total), total) /\ ctx.bitlen = 8 * total
    BY DEF ShaInv
  <1>2. job' = job /\ ctx' = ctx /\ total' = total
    BY DEF EndSha
  <1>3. sha256_final(ctx) = Blocks(total)
    BY <1>1, FinalIs
  <1>4. out'.ret = 0 => out'.digest = Blocks(total)
    <2>1. out' = [ret |-> 0, digest |-> sha256_final(ctx)] \/ out' = [ret |-> -1]
      BY DEF EndSha, Return
    <2> QED  BY <1>3, <2>1
  <1> QED  BY <1>1, <1>2, <1>4 DEF ShaInv

LEMMA ReadForTlshKeeps == TlshInv /\ ReadForTlsh => TlshInv'
  <1> SUFFICES ASSUME TlshInv, ReadForTlsh, job.kind = "tlsh" PROVE TlshInv'
    BY DEF TlshInv, ReadForTlsh
  <1>1. /\ total \in 0 .. MaxHashed /\ ctx \in TlshCtx
        /\ ~ctx.alloc_failed => Slid(ctx, total) /\ ctx.data_len = total
    BY DEF TlshInv
  <1>2. PICK k \in 1 .. Least(BufSize, MaxHashed - total), mem \in BOOLEAN :
          ctx' = tlsh_update(ctx, Bytes(total + 1, total + k), mem) /\ total' = total + k
    BY DEF ReadForTlsh
  <1>3. k \in Nat /\ total \in Nat /\ total + k \in 0 .. MaxHashed
    BY <1>1, StreamAssumption DEF Least
  <1> DEFINE u == tlsh_update(ctx, Bytes(total + 1, total + k), mem)
  <1>4. u \in TlshCtx /\ (~u.alloc_failed => Slid(u, total + k) /\ u.data_len = total + k)
    BY <1>1, <1>3, TlshUpdateIs
  <1>5. ctx' = u /\ total' = total + k
    BY <1>2
  <1> HIDE DEF u
  <1>6. job' = job /\ ~done'
    BY DEF ReadForTlsh
  <1> QED  BY <1>3, <1>4, <1>5, <1>6 DEF TlshInv

LEMMA NextStream == StreamInv /\ [Next]_vars => StreamInv'
  <1> SUFFICES ASSUME ShaInv, TlshInv, [Next]_vars PROVE ShaInv' /\ TlshInv'
    BY DEF StreamInv
  <1>1. CASE ReadForSha
    <2>1. TlshInv'
      BY <1>1 DEF ReadForSha, TlshInv
    <2> QED  BY <1>1, <2>1, ReadForShaKeeps
  <1>2. CASE EndSha
    <2>1. TlshInv'
      BY <1>2 DEF EndSha, TlshInv
    <2> QED  BY <1>2, <2>1, EndShaKeeps
  <1>3. CASE ReadForTlsh
    <2>1. ShaInv'
      BY <1>3 DEF ReadForTlsh, ShaInv
    <2> QED  BY <1>3, <2>1, ReadForTlshKeeps
  <1>4. CASE ReadFails \/ EndTlsh
    <2>1. job.kind = "tlsh" /\ job' = job /\ ctx' = ctx /\ total' = total
      BY <1>4 DEF ReadFails, EndTlsh
    <2>2. out'.ret = 0 => Ready(ctx)
      <3>1. out' = [ret |-> -1] \/ out' = [ret |-> -2] \/ (Ready(ctx) /\ out' = [ret |-> 0])
        BY <1>4 DEF ReadFails, EndTlsh, Return
      <3> QED  BY <3>1
    <2>3. ShaInv'
      BY <2>1 DEF ShaInv
    <2>4. TlshInv'
      BY <2>1, <2>2 DEF TlshInv, Ready
    <2> QED  BY <2>3, <2>4
  <1>5. CASE SearchQuartile \/ Quartiles \/ Length \/ Distance \/ Resolve
    <2>1. job.kind \in {"quartiles", "length", "diff", "path"} /\ job' = job
      BY <1>5 DEF SearchQuartile, Quartiles, Length, Distance, Resolve
    <2> QED  BY <2>1 DEF ShaInv, TlshInv
  <1>6. CASE UNCHANGED vars
    BY <1>6 DEF vars, ShaInv, TlshInv, Ready
  <1> QED  BY <1>1, <1>2, <1>3, <1>4, <1>5, <1>6 DEF Next

\* The contexts of sha256_fd() and av_tlsh_hash_fd() hold at all times what the
\* bytes read so far make of them, whatever pieces they came in.
THEOREM StreamInvariant == Spec => []StreamInv
BY InitStream, NextStream, PTL DEF Spec

\* The digests of sha256_fd() and av_tlsh_hash_fd() do not depend on the pieces
\* in which read() returns the file, for any block and buffer size, any budget
\* and any number of bytes.
THEOREM DigestsChunkFree == Spec => []DigestsAreChunkFree
  <1>1. StreamInv => DigestsAreChunkFree
    <2> SUFFICES ASSUME ShaInv, TlshInv PROVE DigestsAreChunkFree
      BY DEF StreamInv
    <2>1. done /\ job.kind = "sha" /\ out.ret = 0 => out.digest = Blocks(total)
      BY DEF ShaInv
    <2>2. ASSUME done, job.kind = "tlsh", out.ret = 0
          PROVE  /\ total \in MinDataLength .. MaxHashed
                 /\ ctx.hits = Hits(Bytes(1, total), total)
                 /\ ctx.checksum = Pairs(Bytes(1, total), total)
      <3>1. /\ total \in 0 .. MaxHashed /\ Slid(ctx, total) /\ ctx.data_len = total
            /\ total >= MinDataLength
        BY <2>2 DEF TlshInv, Ready
      <3>2. total \in Nat /\ total \in MinDataLength .. MaxHashed
        BY <3>1, StreamAssumption, TlshAssumption
      <3> QED  BY <3>1, <3>2 DEF Slid
    <2> QED  BY <2>1, <2>2 DEF DigestsAreChunkFree
  <1> QED  BY <1>1, StreamInvariant, PTL

-----------------------------------------------------------------------------
(* The distance of two digests.                                            *)

\* A pair of quartile codes.
LEMMA PairDiffIs ==
  ASSUME NEW m \in 0 .. 3, NEW n \in 0 .. 3
  PROVE  /\ PairDiff(m, n) \in Nat /\ PairDiff(m, n) = PairDiff(n, m)
         /\ PairDiff(m, n) = 0 <=> m = n
  <1>1. /\ m = 0 \/ m = 1 \/ m = 2 \/ m = 3
        /\ n = 0 \/ n = 1 \/ n = 2 \/ n = 3
    OBVIOUS
  <1>2. /\ Gap(m, n) = Gap(n, m) /\ Gap(m, n) \in 0 .. 3 /\ (Gap(m, n) = 0 <=> m = n)
    BY DEF Gap
  <1> DEFINE g == Gap(m, n)
  <1> HIDE DEF g
  <1>3. g = 0 \/ g = 1 \/ g = 2 \/ g = 3
    BY <1>2 DEF g
  <1>4. <<0, 1, 2, 6>>[g + 1] \in Nat /\ (<<0, 1, 2, 6>>[g + 1] = 0 <=> g = 0)
    BY <1>3
  <1> QED  BY <1>2, <1>4 DEF PairDiff, g

\* A byte of the code.
LEMMA BytePairsIs ==
  ASSUME NEW x \in Nibble \X Nibble, NEW y \in Nibble \X Nibble
  PROVE  /\ bit_pairs_diff_table(x, y) \in Nat
         /\ bit_pairs_diff_table(x, y) = bit_pairs_diff_table(y, x)
         /\ bit_pairs_diff_table(x, y) = 0 <=> x = y
  <1> DEFINE nibble(m, n) == PairDiff(m \div 4, n \div 4) + PairDiff(m % 4, n % 4)
  <1>1. ASSUME NEW m \in 0 .. 15, NEW n \in 0 .. 15
        PROVE  nibble(m, n) \in Nat /\ nibble(m, n) = nibble(n, m) /\ (nibble(m, n) = 0 <=> m = n)
    <2> DEFINE a == m \div 4
               b == n \div 4
               c == m % 4
               d == n % 4
    <2>1. a \in 0 .. 3 /\ b \in 0 .. 3 /\ c \in 0 .. 3 /\ d \in 0 .. 3
      OBVIOUS
    <2>2. m = 4 * a + c /\ n = 4 * b + d
      OBVIOUS
    <2> HIDE DEF a, b, c, d
    <2>3. a = b /\ c = d <=> m = n
      BY <2>1, <2>2
    <2>4. /\ PairDiff(a, b) \in Nat /\ PairDiff(a, b) = PairDiff(b, a) /\ (PairDiff(a, b) = 0 <=> a = b)
          /\ PairDiff(c, d) \in Nat /\ PairDiff(c, d) = PairDiff(d, c) /\ (PairDiff(c, d) = 0 <=> c = d)
      BY <2>1, PairDiffIs
    <2>5. /\ PairDiff(a, b) + PairDiff(c, d) \in Nat
          /\ PairDiff(a, b) + PairDiff(c, d) = PairDiff(b, a) + PairDiff(d, c)
          /\ PairDiff(a, b) + PairDiff(c, d) = 0 <=> a = b /\ c = d
      BY <2>4
    <2> QED  BY <2>3, <2>5 DEF a, b, c, d
  <1>2. /\ x[1] \in 0 .. 15 /\ x[2] \in 0 .. 15 /\ y[1] \in 0 .. 15 /\ y[2] \in 0 .. 15
        /\ x = y <=> x[1] = y[1] /\ x[2] = y[2]
    BY DEF Nibble
  <1>3. /\ bit_pairs_diff_table(x, y) = nibble(x[1], y[1]) + nibble(x[2], y[2])
        /\ bit_pairs_diff_table(y, x) = nibble(y[1], x[1]) + nibble(y[2], x[2])
    BY DEF bit_pairs_diff_table
  <1> HIDE DEF nibble
  <1>4. /\ nibble(x[1], y[1]) \in Nat /\ nibble(x[1], y[1]) = nibble(y[1], x[1])
        /\ nibble(x[1], y[1]) = 0 <=> x[1] = y[1]
        /\ nibble(x[2], y[2]) \in Nat /\ nibble(x[2], y[2]) = nibble(y[2], x[2])
        /\ nibble(x[2], y[2]) = 0 <=> x[2] = y[2]
    BY <1>1, <1>2
  <1> QED  BY <1>2, <1>3, <1>4

\* The sum over the code.
Sums(g, x, y) ==
    /\ g \in [0 .. Len(x) -> Nat] /\ g[0] = 0
    /\ \A i \in 1 .. Len(x) : g[i] = g[i - 1] + bit_pairs_diff_table(x[i], y[i])

LEMMA SumExists ==
  ASSUME NEW x \in Seq(Nibble \X Nibble), NEW y \in Seq(Nibble \X Nibble), Len(x) = Len(y)
  PROVE  \E g : Sums(g, x, y) /\ h_distance(x, y) = g[Len(x)]
  <1> DEFINE n == Len(x)
             d(i) == bit_pairs_diff_table(x[i], y[i])
             Body(f) == [i \in 0 .. n |-> IF i = 0 THEN 0 ELSE f[i - 1] + d(i)]
             sum == CHOOSE f : f = Body(f)
             step == [i \in 1 .. n |-> [v \in Nat |-> v + d(i)]]
  <1>1. n \in Nat /\ \A i \in 1 .. n : d(i) \in Nat
    <2>1. n \in Nat /\ \A i \in 1 .. n : x[i] \in Nibble \X Nibble /\ y[i] \in Nibble \X Nibble
      BY LenProperties
    <2> QED  BY <2>1, BytePairsIs
  <1>2. h_distance(x, y) = sum[n]
    BY DEF h_distance
  <1> HIDE DEF n, d
  <1>3. step \in [1 .. n -> [Nat -> Nat]] /\ \A i \in 1 .. n, v \in Nat : step[i][v] = v + d(i)
    BY <1>1
  <1> HIDE DEF step
  <1>4. PICK f : IsLoop(f, Nat, 0, n, step)
    BY <1>1, <1>3, LoopExists
  <1>5. f \in [0 .. n -> Nat] /\ f[0] = 0 /\ \A i \in 1 .. n : f[i - 1] \in Nat /\ f[i] = f[i - 1] + d(i)
    <2>1. f \in [0 .. n -> Nat] /\ f[0] = 0 /\ \A i \in 1 .. n : f[i] = step[i][f[i - 1]]
      BY <1>4 DEF IsLoop
    <2>2. \A i \in 1 .. n : f[i - 1] \in Nat
      BY <1>1, <2>1
    <2> QED  BY <1>3, <2>1, <2>2
  <1>6. f = Body(f)
    BY <1>5
  <1>7. sum = Body(sum)
    BY <1>6
  <1> HIDE DEF sum
  <1>8. sum[0] = 0 /\ \A i \in 1 .. n : sum[i] = sum[i - 1] + d(i)
    BY <1>1, <1>7
  <1> DEFINE M == {i \in Nat : i <= n => sum[i] \in Nat}
  <1>9. 0 \in M
    BY <1>8
  <1>10. ASSUME NEW i \in Nat, i \in M PROVE i + 1 \in M
    <2> SUFFICES ASSUME i + 1 <= n PROVE sum[i + 1] \in Nat
      OBVIOUS
    <2> DEFINE j == i + 1
    <2>1. j \in 1 .. n /\ j - 1 = i /\ sum[i] \in Nat
      BY <1>1, <1>10
    <2> HIDE DEF j
    <2> QED  BY <1>1, <1>8, <2>1 DEF j
  <1>11. Nat \subseteq M
    <2> HIDE DEF M
    <2> QED  BY <1>9, <1>10, Induction
  <1>12. sum \in [0 .. n -> Nat]
    <2>1. \A i \in 0 .. n : sum[i] \in Nat
      BY <1>1, <1>11
    <2>2. DOMAIN sum = 0 .. n /\ sum = [i \in 0 .. n |-> sum[i]]
      BY <1>7
    <2> QED  BY <2>1, <2>2
  <1> QED  BY <1>2, <1>8, <1>12 DEF Sums, n, d

LEMMA CodeDistanceIs ==
  ASSUME NEW x \in Seq(Nibble \X Nibble), NEW y \in Seq(Nibble \X Nibble), Len(x) = Len(y)
  PROVE  /\ h_distance(x, y) \in Nat /\ h_distance(x, y) = h_distance(y, x)
         /\ h_distance(x, y) = 0 <=> x = y
  <1> DEFINE n == Len(x)
             d(i) == bit_pairs_diff_table(x[i], y[i])
             e(i) == bit_pairs_diff_table(y[i], x[i])
  <1>1. n \in Nat /\ Len(y) = n
    BY LenProperties
  <1>2. \A i \in 1 .. n : d(i) \in Nat /\ d(i) = e(i) /\ (d(i) = 0 <=> x[i] = y[i])
    <2>1. \A i \in 1 .. n : x[i] \in Nibble \X Nibble /\ y[i] \in Nibble \X Nibble
      BY LenProperties
    <2> QED  BY <2>1, BytePairsIs
  <1>3. PICK f : Sums(f, x, y) /\ h_distance(x, y) = f[n]
    BY SumExists
  <1>4. PICK g : Sums(g, y, x) /\ h_distance(y, x) = g[n]
    BY <1>1, SumExists
  <1>5. f \in [0 .. n -> Nat] /\ f[0] = 0 /\ \A i \in 1 .. n : f[i] = f[i - 1] + d(i)
    BY <1>3 DEF Sums
  <1>6. g \in [0 .. n -> Nat] /\ g[0] = 0 /\ \A i \in 1 .. n : g[i] = g[i - 1] + e(i)
    BY <1>1, <1>4 DEF Sums
  <1> HIDE DEF n, d, e
  <1> DEFINE M == {k \in Nat : k <= n => f[k] = g[k] /\ (f[k] = 0 <=> \A i \in 1 .. k : d(i) = 0)}
  <1>7. 0 \in M
    BY <1>5, <1>6
  <1>8. ASSUME NEW k \in Nat, k \in M PROVE k + 1 \in M
    <2> DEFINE j == k + 1
    <2> SUFFICES ASSUME j <= n PROVE f[j] = g[j] /\ (f[j] = 0 <=> \A i \in 1 .. j : d(i) = 0)
      OBVIOUS
    <2>1. /\ j \in 1 .. n /\ j - 1 = k /\ k \in 0 .. n /\ f[k] = g[k]
          /\ f[k] = 0 <=> \A i \in 1 .. k : d(i) = 0
      BY <1>1, <1>8
    <2>2. 1 .. j = 1 .. k \cup {j}
      OBVIOUS
    <2> HIDE DEF j
    <2>3. f[j] = f[k] + d(j) /\ g[j] = g[k] + d(j) /\ f[k] \in Nat /\ d(j) \in Nat
      BY <1>2, <1>5, <1>6, <2>1
    <2>4. f[j] = 0 <=> f[k] = 0 /\ d(j) = 0
      BY <2>3
    <2> QED  BY <2>1, <2>2, <2>3, <2>4
  <1>9. Nat \subseteq M
    <2> HIDE DEF M
    <2> QED  BY <1>7, <1>8, Induction
  <1>10. f[n] = g[n] /\ (f[n] = 0 <=> \A i \in 1 .. n : d(i) = 0)
    <2>1. n \in M /\ n <= n
      BY <1>1, <1>9
    <2> QED  BY <2>1
  <1>11. (\A i \in 1 .. n : d(i) = 0) <=> x = y
    <2>1. (\A i \in 1 .. n : d(i) = 0) <=> \A i \in 1 .. n : x[i] = y[i]
      BY <1>2
    <2>2. (\A i \in 1 .. n : x[i] = y[i]) => x = y
      BY SeqEqual DEF n
    <2> QED  BY <2>1, <2>2
  <1>12. f[n] \in Nat
    BY <1>1, <1>5
  <1> QED  BY <1>3, <1>4, <1>10, <1>11, <1>12

\* The rings there are: of the ratios and of the length.
RingSize(r) == r = 16 \/ r = 256

LEMMA RingIs ==
  ASSUME NEW r \in Nat, RingSize(r), NEW x \in Nat, NEW y \in Nat, x < r, y < r
  PROVE  /\ mod_diff(x, y, r) \in Nat /\ mod_diff(x, y, r) = mod_diff(y, x, r)
         /\ mod_diff(x, y, r) = 0 <=> x = y
         /\ mod_diff(x, y, r) = RingDistance(x, y, r)
  <1> DEFINE m == mod_diff(x, y, r)
             Is(d) == /\ (x + d) % r = y \/ (y + d) % r = x
                      /\ \A e \in 0 .. d - 1 : (x + e) % r # y /\ (y + e) % r # x
  <1>1. r = 16 \/ r = 256
    BY DEF RingSize
  <1>2. m \in 0 .. r /\ m = mod_diff(y, x, r) /\ (m = 0 <=> x = y)
    BY <1>1 DEF mod_diff, Least
  <1>3. (x + m) % r = y \/ (y + m) % r = x
    <2>1. \/ x + m = y \/ y + m = x \/ x + m = y + r \/ y + m = x + r
      BY <1>1 DEF mod_diff, Least
    <2> HIDE DEF m
    <2> QED  BY <1>1, <1>2, <2>1
  <1>4. ASSUME NEW e \in 0 .. r, (x + e) % r = y \/ (y + e) % r = x
        PROVE  m <= e
    <2>1. \/ x + e = y \/ y + e = x \/ x + e = y + r \/ y + e = x + r
      BY <1>1, <1>4
    <2> QED  BY <1>1, <2>1 DEF mod_diff, Least
  <1> HIDE DEF m
  <1>5. Is(m)
    <2>1. ASSUME NEW e \in 0 .. m - 1 PROVE (x + e) % r # y /\ (y + e) % r # x
      <3>1. e \in 0 .. r /\ ~(m <= e)
        BY <1>1, <1>2
      <3> QED  BY <1>4, <3>1
    <2> QED  BY <1>3, <2>1
  <1>6. ASSUME NEW d \in 0 .. r, Is(d) PROVE d = m
    <2>1. m <= d
      BY <1>4, <1>6
    <2>2. ~(m < d)
      <3> SUFFICES ASSUME m < d PROVE FALSE
        OBVIOUS
      <3>1. m \in 0 .. d - 1
        BY <1>1, <1>2
      <3> QED  BY <1>3, <1>6, <3>1
    <2> QED  BY <1>1, <1>2, <2>1, <2>2
  <1>7. RingDistance(x, y, r) = CHOOSE d \in 0 .. r : Is(d)
    BY DEF RingDistance
  <1> HIDE DEF Is
  <1>8. RingDistance(x, y, r) = m
    BY <1>2, <1>5, <1>6, <1>7
  <1>9. m \in Nat
    BY <1>1, <1>2
  <1> QED  BY <1>2, <1>8, <1>9 DEF m

\* The text of a digest has two digits for each of its bytes.
LEMMA HexIs ==
  ASSUME NEW d \in Digest
  PROVE  LET n == Len(d.code)
             s == tlsh_to_hex(d)
         IN  /\ s \in Seq(Nibble) /\ Len(s) = 2 * (3 + n)
             /\ tlsh_from_hex(s, n) = [ok |-> TRUE, checksum |-> d.checksum, Lvalue |-> d.Lvalue,
                                       Q1ratio |-> d.Q1ratio, Q2ratio |-> d.Q2ratio,
                                       code |-> d.code]
  <1> DEFINE n == Len(d.code)
             s == tlsh_to_hex(d)
             B == Nibble \X Nibble
             c1 == swap_byte(d.checksum)
             c2 == swap_byte(d.Lvalue)
             c3 == swap_byte(<<d.Q2ratio, d.Q1ratio>>)
             head == <<c1, c2, c3>>
             tail == [i \in 1 .. n |-> d.code[n + 1 - i]]
             raw == head \o tail
             m == 3 + n
             side(i) == IF i % 2 = 1 THEN 1 ELSE 2
             text == [i \in 1 .. 2 * m |-> raw[(i + 1) \div 2][side(i)]]
  <1>1. /\ d.checksum \in B /\ d.Lvalue \in B /\ d.Q1ratio \in Nibble /\ d.Q2ratio \in Nibble
        /\ d.code \in Seq(B) /\ n \in Nat /\ \A i \in 1 .. n : d.code[i] \in B
    BY LenProperties DEF Digest
  <1>2. /\ c1 \in B /\ c2 \in B /\ c3 \in B
        /\ swap_byte(c1) = d.checksum /\ swap_byte(c2) = d.Lvalue
        /\ swap_byte(c3) = <<d.Q2ratio, d.Q1ratio>>
    BY <1>1 DEF swap_byte
  <1>3. s = [i \in 1 .. 2 * Len(raw) |-> raw[(i + 1) \div 2][side(i)]]
    BY DEF tlsh_to_hex
  <1> HIDE DEF c1, c2, c3, B
  <1>4. head \in Seq(B) /\ Len(head) = 3 /\ head[1] = c1 /\ head[2] = c2 /\ head[3] = c3
    BY <1>2
  <1>5. tail \in Seq(B) /\ Len(tail) = n /\ \A i \in 1 .. n : tail[i] = d.code[n + 1 - i]
    <2>1. \A i \in 1 .. n : n + 1 - i \in 1 .. n
      BY <1>1
    <2>2. tail \in [1 .. n -> B]
      BY <1>1, <2>1
    <2> QED  BY <1>1, <2>2
  <1> HIDE DEF head, tail, n
  <1>6. /\ raw \in Seq(B) /\ Len(raw) = m /\ \A i \in 1 .. 3 : raw[i] = head[i]
        /\ \A i \in 1 .. n : raw[3 + i] = tail[i]
    <2> DEFINE three == 3
    <2> HIDE DEF three
    <2>1. Len(head) = three
      BY <1>4 DEF three
    <2>2. /\ raw \in Seq(B) /\ Len(raw) = three + n /\ \A i \in 1 .. three : raw[i] = head[i]
          /\ \A i \in 1 .. n : raw[three + i] = tail[i]
      BY <1>4, <1>5, <2>1, JoinIs
    <2> QED  BY <2>2 DEF three
  <1>7. m \in Nat /\ m >= 3
    BY <1>1
  <1> HIDE DEF raw, m
  <1>8. \A i \in 1 .. m : raw[i] \in B /\ raw[i][1] \in Nibble /\ raw[i][2] \in Nibble
                          /\ raw[i] = <<raw[i][1], raw[i][2]>>
    BY <1>6, <1>7, LenProperties DEF B
  <1>9. s = text
    BY <1>3, <1>6
  <1>10. text \in Seq(Nibble) /\ Len(text) = 2 * m
    <2>1. \A i \in 1 .. 2 * m : (i + 1) \div 2 \in 1 .. m /\ (side(i) = 1 \/ side(i) = 2)
      BY <1>7
    <2> HIDE DEF side
    <2>2. text \in [1 .. 2 * m -> Nibble]
      BY <1>8, <2>1
    <2> HIDE DEF text
    <2> QED  BY <1>7, <2>2
  <1>11. ASSUME NEW i \in 1 .. m
         PROVE  text[2 * i - 1] = raw[i][1] /\ text[2 * i] = raw[i][2]
    <2> DEFINE a == 2 * i - 1
               b == 2 * i
    <2>1. /\ a \in 1 .. 2 * m /\ (a + 1) \div 2 = i /\ a % 2 = 1
          /\ b \in 1 .. 2 * m /\ (b + 1) \div 2 = i /\ b % 2 = 0
      BY <1>7
    <2> HIDE DEF a, b
    <2>2. text[a] = raw[i][1] /\ text[b] = raw[i][2]
      BY <2>1
    <2> QED  BY <2>2 DEF a, b
  <1> HIDE DEF text, s
  <1> DEFINE again == [i \in 1 .. 3 + n |-> <<s[2 * i - 1], s[2 * i]>>]
             q == swap_byte(again[3])
             code == [i \in 1 .. n |-> again[3 + n + 1 - i]]
  <1>12. \A i \in 1 .. m : again[i] = raw[i]
    BY <1>8, <1>9, <1>11 DEF m
  <1>13. s \in Seq(Nibble) /\ Len(s) = 2 * (3 + n) /\ \A i \in DOMAIN s : s[i] \in 0 .. 15
    <2>1. s \in Seq(Nibble) /\ Len(s) = 2 * (3 + n)
      BY <1>9, <1>10 DEF m
    <2>2. DOMAIN s = 1 .. Len(s) /\ \A i \in 1 .. Len(s) : s[i] \in Nibble
      BY <2>1, LenProperties
    <2> QED  BY <2>1, <2>2 DEF Nibble
  <1> HIDE DEF again
  <1>14. tlsh_from_hex(s, n) = [ok |-> TRUE, checksum |-> swap_byte(again[1]),
                                Lvalue |-> swap_byte(again[2]), Q1ratio |-> q[2],
                                Q2ratio |-> q[1], code |-> code]
    BY <1>13 DEF tlsh_from_hex, again
  <1>15. swap_byte(again[1]) = d.checksum /\ swap_byte(again[2]) = d.Lvalue
         /\ q = <<d.Q2ratio, d.Q1ratio>>
    <2>1. 1 \in 1 .. m /\ 2 \in 1 .. m /\ 3 \in 1 .. m
      BY <1>7
    <2>2. again[1] = c1 /\ again[2] = c2 /\ again[3] = c3
      BY <1>4, <1>6, <1>12, <2>1
    <2> QED  BY <1>2, <2>2
  <1>16. code = d.code
    <2>1. ASSUME NEW i \in 1 .. n PROVE again[3 + n + 1 - i] = d.code[i]
      <3> DEFINE j == n + 1 - i
      <3>1. j \in 1 .. n /\ 3 + j \in 1 .. m /\ 3 + n + 1 - i = 3 + j /\ n + 1 - j = i
        BY <1>1 DEF m
      <3> HIDE DEF j
      <3>2. again[3 + j] = tail[j]
        BY <1>6, <1>12, <3>1
      <3>3. tail[j] = d.code[n + 1 - j]
        BY <1>5, <3>1
      <3> QED  BY <3>1, <3>2, <3>3
    <2>2. d.code = [i \in 1 .. n |-> d.code[i]]
      BY <1>1 DEF n
    <2> QED  BY <2>1, <2>2
  <1>17. q[2] = d.Q1ratio /\ q[1] = d.Q2ratio
    BY <1>15
  <1> HIDE DEF q, code
  <1> QED  BY <1>13, <1>14, <1>15, <1>16, <1>17 DEF s, n

\* The parts of the distance.
LEMMA TotalDiffIs ==
  ASSUME NEW a \in Digest, NEW b \in Digest, Len(a.code) = Len(b.code)
  PROVE  LET d == tlsh_total_diff(a, b)
             l == RingDistance(Number(a.Lvalue), Number(b.Lvalue), 256)
         IN  /\ d \in Nat /\ d = tlsh_total_diff(b, a)
             /\ d = 0 <=> a = b
             /\ d >= l
             /\ /\ l <= 1
                /\ RingDistance(a.Q1ratio, b.Q1ratio, 16) <= 1
                /\ RingDistance(a.Q2ratio, b.Q2ratio, 16) <= 1
                /\ a.code = b.code
                => d <= 4
  <1> DEFINE la == Number(a.Lvalue)
             lb == Number(b.Lvalue)
             d == tlsh_total_diff(a, b)
             e == tlsh_total_diff(b, a)
             l == mod_diff(la, lb, 256)
             l2 == mod_diff(lb, la, 256)
             p == mod_diff(a.Q1ratio, b.Q1ratio, 16)
             p2 == mod_diff(b.Q1ratio, a.Q1ratio, 16)
             q == mod_diff(a.Q2ratio, b.Q2ratio, 16)
             q2 == mod_diff(b.Q2ratio, a.Q2ratio, 16)
             k == IF a.checksum # b.checksum THEN 1 ELSE 0
             k2 == IF b.checksum # a.checksum THEN 1 ELSE 0
             h == h_distance(a.code, b.code)
             h2 == h_distance(b.code, a.code)
             far(x) == IF x <= 1 THEN x ELSE x * 12
             ratio(x) == IF x <= 1 THEN x ELSE (x - 1) * 12
  <1>1. /\ a.Lvalue \in Nibble \X Nibble /\ b.Lvalue \in Nibble \X Nibble
        /\ a.checksum \in Nibble \X Nibble /\ b.checksum \in Nibble \X Nibble
        /\ a.Q1ratio \in 0 .. 15 /\ b.Q1ratio \in 0 .. 15
        /\ a.Q2ratio \in 0 .. 15 /\ b.Q2ratio \in 0 .. 15
        /\ a.code \in Seq(Nibble \X Nibble) /\ b.code \in Seq(Nibble \X Nibble)
    BY DEF Digest, Nibble
  <1>2. la \in 0 .. 255 /\ lb \in 0 .. 255 /\ (la = lb <=> a.Lvalue = b.Lvalue)
    <2>1. ASSUME NEW x \in Nibble \X Nibble
          PROVE  Number(x) \in 0 .. 255 /\ x = <<Number(x) \div 16, Number(x) % 16>>
      <3>1. x[1] \in 0 .. 15 /\ x[2] \in 0 .. 15 /\ x = <<x[1], x[2]>>
        BY DEF Nibble
      <3> DEFINE u == x[1]
                 v == x[2]
      <3> HIDE DEF u, v
      <3>2. u \in 0 .. 15 /\ v \in 0 .. 15
        BY <3>1 DEF u, v
      <3>3. /\ 16 * u + v \in 0 .. 255 /\ (16 * u + v) \div 16 = u
            /\ (16 * u + v) % 16 = v
        BY <3>2
      <3>4. Number(x) = 16 * u + v /\ x = <<u, v>>
        BY <3>1 DEF Number, u, v
      <3> QED  BY <3>3, <3>4
    <2>2. a.Lvalue = <<la \div 16, la % 16>> /\ b.Lvalue = <<lb \div 16, lb % 16>>
      BY <1>1, <2>1
    <2>3. la \in 0 .. 255 /\ lb \in 0 .. 255
      BY <1>1, <2>1
    <2>4. la = lb => a.Lvalue = b.Lvalue
      <3> HIDE DEF la, lb
      <3> QED  BY <2>2
    <2> QED  BY <2>3, <2>4
  <1>3. l \in Nat /\ l = l2 /\ (l = 0 <=> la = lb) /\ l = RingDistance(la, lb, 256)
    <2> DEFINE r == 256
    <2> HIDE DEF la, lb
    <2>1. r \in Nat /\ RingSize(r) /\ la \in Nat /\ lb \in Nat /\ la < r /\ lb < r
      BY <1>2 DEF RingSize
    <2> HIDE DEF r
    <2>2. /\ mod_diff(la, lb, r) \in Nat /\ mod_diff(la, lb, r) = mod_diff(lb, la, r)
          /\ mod_diff(la, lb, r) = 0 <=> la = lb
          /\ mod_diff(la, lb, r) = RingDistance(la, lb, r)
      BY <2>1, RingIs
    <2> QED  BY <2>2 DEF r
  <1>4. /\ p \in Nat /\ p = p2 /\ (p = 0 <=> a.Q1ratio = b.Q1ratio)
        /\ p = RingDistance(a.Q1ratio, b.Q1ratio, 16)
        /\ q \in Nat /\ q = q2 /\ (q = 0 <=> a.Q2ratio = b.Q2ratio)
        /\ q = RingDistance(a.Q2ratio, b.Q2ratio, 16)
    <2> DEFINE r == 16
    <2>1. ASSUME NEW x \in 0 .. 15, NEW y \in 0 .. 15
          PROVE  /\ mod_diff(x, y, r) \in Nat /\ mod_diff(x, y, r) = mod_diff(y, x, r)
                 /\ mod_diff(x, y, r) = 0 <=> x = y
                 /\ mod_diff(x, y, r) = RingDistance(x, y, r)
      <3>1. r \in Nat /\ RingSize(r) /\ x \in Nat /\ y \in Nat /\ x < r /\ y < r
        BY DEF RingSize
      <3> HIDE DEF r
      <3> QED  BY <3>1, RingIs
    <2> QED  BY <1>1, <2>1
  <1>5. h \in Nat /\ h = h2 /\ (h = 0 <=> a.code = b.code)
    BY <1>1, CodeDistanceIs
  <1>6. k \in 0 .. 1 /\ k = k2 /\ (k = 0 <=> a.checksum = b.checksum)
    OBVIOUS
  <1>7. d = far(l) + ratio(p) + ratio(q) + k + h /\ e = far(l2) + ratio(p2) + ratio(q2) + k2 + h2
    BY DEF tlsh_total_diff
  <1>8. a = b <=> /\ a.checksum = b.checksum /\ a.Lvalue = b.Lvalue /\ a.Q1ratio = b.Q1ratio
                  /\ a.Q2ratio = b.Q2ratio /\ a.code = b.code
    <2>1. \A x \in Digest : x = [checksum |-> x.checksum, Lvalue |-> x.Lvalue, Q1ratio |-> x.Q1ratio,
                                 Q2ratio |-> x.Q2ratio, code |-> x.code]
      BY DEF Digest
    <2> QED  BY <2>1, Zenon
  <1>9. /\ \A x \in Nat : far(x) \in Nat /\ far(x) >= x /\ (x <= 1 => far(x) <= 1)
        /\ \A x \in Nat : far(x) = 0 <=> x = 0
        /\ \A x \in Nat : ratio(x) \in Nat /\ ratio(x) >= 0 /\ (ratio(x) = 0 <=> x = 0)
                            /\ (x <= 1 => ratio(x) <= 1)
    OBVIOUS
  <1> HIDE DEF la, lb, d, e, l, l2, p, p2, q, q2, k, k2, h, h2, far, ratio
  <1>10. d = e
    BY <1>3, <1>4, <1>5, <1>6, <1>7
  <1> DEFINE fl == far(l)
             rp == ratio(p)
             rq == ratio(q)
  <1>11. /\ fl \in Nat /\ fl >= l /\ (l <= 1 => fl <= 1) /\ (fl = 0 <=> l = 0)
         /\ rp \in Nat /\ (rp = 0 <=> p = 0) /\ (p <= 1 => rp <= 1)
         /\ rq \in Nat /\ (rq = 0 <=> q = 0) /\ (q <= 1 => rq <= 1)
    BY <1>3, <1>4, <1>9
  <1>12. d = fl + rp + rq + k + h
    BY <1>7
  <1> HIDE DEF fl, rp, rq
  <1>13. /\ d \in Nat /\ d >= l
         /\ d = 0 <=> l = 0 /\ p = 0 /\ q = 0 /\ k = 0 /\ h = 0
         /\ l <= 1 /\ p <= 1 /\ q <= 1 /\ h = 0 => d <= 4
    BY <1>3, <1>4, <1>5, <1>6, <1>11, <1>12
  <1>14. d = 0 <=> a = b
    BY <1>2, <1>3, <1>4, <1>5, <1>6, <1>8, <1>13
  <1>15. /\ l <= 1 /\ RingDistance(a.Q1ratio, b.Q1ratio, 16) <= 1
         /\ RingDistance(a.Q2ratio, b.Q2ratio, 16) <= 1 /\ a.code = b.code
         => d <= 4
    BY <1>4, <1>5, <1>13
  <1>16. l = RingDistance(Number(a.Lvalue), Number(b.Lvalue), 256)
    BY <1>3 DEF la, lb
  <1> QED  BY <1>10, <1>13, <1>14, <1>15, <1>16 DEF d, e

\* av_tlsh_diff() on the text of two digests is their distance; on a text with a
\* digit more or less, or with something else for a digit, it is -1.
LEMMA TextDiffIs ==
  ASSUME NEW a \in Digest, NEW b \in Digest, Len(a.code) = Len(b.code)
  PROVE  LET n == Len(a.code)
             s == tlsh_to_hex(a)
             t == tlsh_to_hex(b)
         IN  /\ av_tlsh_diff(s, t, n) = tlsh_total_diff(a, b)
             /\ av_tlsh_diff(t, s, n) = tlsh_total_diff(b, a)
             /\ \A u \in {Append(t, 0), Tail(t), [t EXCEPT ![1] = 16]} : av_tlsh_diff(s, u, n) = -1
  <1> DEFINE n == Len(a.code)
             s == tlsh_to_hex(a)
             t == tlsh_to_hex(b)
             ra == tlsh_from_hex(s, n)
             rb == tlsh_from_hex(t, n)
             ta == [ok |-> TRUE, checksum |-> a.checksum, Lvalue |-> a.Lvalue,
                    Q1ratio |-> a.Q1ratio, Q2ratio |-> a.Q2ratio, code |-> a.code]
             tb == [ok |-> TRUE, checksum |-> b.checksum, Lvalue |-> b.Lvalue,
                    Q1ratio |-> b.Q1ratio, Q2ratio |-> b.Q2ratio, code |-> b.code]
  <1>1. ra = ta /\ rb = tb
    <2>1. ra = ta
      BY HexIs
    <2>2. tlsh_from_hex(t, Len(b.code)) = tb
      BY HexIs
    <2> QED  BY <2>1, <2>2
  <1>2. t \in Seq(Nibble) /\ Len(t) = 2 * (3 + n) /\ n \in Nat
    <2>1. t \in Seq(Nibble) /\ Len(t) = 2 * (3 + Len(b.code))
      BY HexIs
    <2>2. n \in Nat
      BY LenProperties DEF Digest
    <2> QED  BY <2>1, <2>2
  <1> HIDE DEF ra, rb
  <1>3. /\ av_tlsh_diff(s, t, n) = IF ra.ok /\ rb.ok THEN tlsh_total_diff(ra, rb) ELSE -1
        /\ av_tlsh_diff(t, s, n) = IF rb.ok /\ ra.ok THEN tlsh_total_diff(rb, ra) ELSE -1
    BY DEF av_tlsh_diff, ra, rb
  <1>4. tlsh_total_diff(ta, tb) = tlsh_total_diff(a, b) /\ tlsh_total_diff(tb, ta) = tlsh_total_diff(b, a)
    BY DEF tlsh_total_diff
  <1>5. ta.ok /\ tb.ok
    OBVIOUS
  <1> HIDE DEF ta, tb, s, t
  <1>6. /\ av_tlsh_diff(s, t, n) = tlsh_total_diff(a, b)
        /\ av_tlsh_diff(t, s, n) = tlsh_total_diff(b, a)
    BY <1>1, <1>3, <1>4, <1>5
  <1>7. ASSUME NEW u, Len(u) # 2 * (3 + n) \/ \E i \in DOMAIN u : u[i] \notin 0 .. 15
        PROVE  av_tlsh_diff(s, u, n) = -1
    <2>1. tlsh_from_hex(u, n) = Malformed
      BY <1>7 DEF tlsh_from_hex
    <2>2. ~Malformed.ok
      BY DEF Malformed
    <2> QED  BY <2>1, <2>2 DEF av_tlsh_diff
  <1>8. Len(Append(t, 0)) # 2 * (3 + n)
    <2>1. Len(Append(t, 0)) = Len(t) + 1
      BY <1>2, AppendProperties DEF Nibble
    <2> QED  BY <1>2, <2>1
  <1>9. Len(Tail(t)) # 2 * (3 + n)
    <2>1. t # <<>> /\ Len(t) \in Nat
      BY <1>2
    <2>2. Len(Tail(t)) = Len(t) - 1
      BY <1>2, <2>1, HeadTailProperties
    <2> QED  BY <1>2, <2>2
  <1>10. \E i \in DOMAIN [t EXCEPT ![1] = 16] : [t EXCEPT ![1] = 16][i] \notin 0 .. 15
    <2>1. 1 \in DOMAIN t
      BY <1>2
    <2>2. DOMAIN [t EXCEPT ![1] = 16] = DOMAIN t /\ [t EXCEPT ![1] = 16][1] = 16
      BY <2>1
    <2> QED  BY <2>1, <2>2
  <1>11. \A u \in {Append(t, 0), Tail(t), [t EXCEPT ![1] = 16]} : av_tlsh_diff(s, u, n) = -1
    BY <1>7, <1>8, <1>9, <1>10
  <1> QED  BY <1>6, <1>11 DEF s, t

\* av_tlsh_diff() is a distance, for digests of any size: symmetric, 0 exactly
\* for equal ones and never less than the difference of the lengths; a text that
\* is no digest is refused.
THEOREM DiffDistance == Spec => []DiffIsDistance
  <1> DEFINE DiffInv == job \in Jobs /\ DiffIsDistance
  <1>1. Init => DiffInv
    BY DEF Init, DiffIsDistance
  <1>2. DiffInv /\ [Next]_vars => DiffInv'
    <2> SUFFICES ASSUME job \in Jobs, DiffIsDistance, [Next]_vars
                 PROVE  job' \in Jobs /\ DiffIsDistance'
      OBVIOUS
    <2>1. CASE Distance
      <3> DEFINE a == job.a
                 b == job.b
                 n == Len(a.code)
                 s == tlsh_to_hex(a)
                 t == tlsh_to_hex(b)
                 U == {Append(t, 0), Tail(t), [t EXCEPT ![1] = 16]}
                 d == tlsh_total_diff(a, b)
                 l == RingDistance(Number(a.Lvalue), Number(b.Lvalue), 256)
                 Near == /\ l <= 1
                         /\ RingDistance(a.Q1ratio, b.Q1ratio, 16) <= 1
                         /\ RingDistance(a.Q2ratio, b.Q2ratio, 16) <= 1
                         /\ a.code = b.code
      <3>1. job.kind = "diff" /\ job' = job
        BY <2>1 DEF Distance
      <3>2. a \in Digest /\ b \in Digest /\ Len(a.code) = Len(b.code)
        BY <3>1, JobsAssumption
      <3>3. \/ out' = [ret |-> av_tlsh_diff(s, t, n), back |-> av_tlsh_diff(t, s, n), good |-> TRUE]
            \/ \E u \in U : out' = [ret |-> av_tlsh_diff(s, u, n), good |-> FALSE]
        BY <2>1 DEF Distance, Return
      <3> HIDE DEF a, b
      <3>4. /\ av_tlsh_diff(s, t, n) = d /\ av_tlsh_diff(t, s, n) = tlsh_total_diff(b, a)
            /\ \A u \in U : av_tlsh_diff(s, u, n) = -1
        BY <3>2, TextDiffIs
      <3>5. /\ d = tlsh_total_diff(b, a) /\ (d = 0 <=> a = b) /\ d >= l /\ (Near => d <= 4)
        BY <3>2, TotalDiffIs
      <3> HIDE DEF n, s, t, U, d, l, Near
      <3>6. \/ out'.good /\ out'.ret = d /\ out'.back = d
            \/ ~out'.good /\ out'.ret = -1
        BY <3>3, <3>4, <3>5
      <3>7. IF ~out'.good THEN out'.ret = -1
            ELSE /\ out'.ret = out'.back /\ (out'.ret = 0 <=> a = b) /\ out'.ret >= l
                 /\ Near => out'.ret <= 4
        BY <3>5, <3>6
      <3>8. job' \in Jobs /\ job'.a = a /\ job'.b = b
        BY <3>1 DEF a, b
      <3> QED  BY <3>7, <3>8 DEF DiffIsDistance, Near, l
    <2>2. CASE ~Distance /\ Next
      <3>1. job' = job /\ (job.kind = "diff" => FALSE)
        BY <2>2 DEF Next, ReadForSha, EndSha, ReadForTlsh, ReadFails, EndTlsh, SearchQuartile,
                    Quartiles, Length, Resolve
      <3> QED  BY <3>1 DEF DiffIsDistance
    <2>3. CASE UNCHANGED vars
      <3>1. job' = job /\ done' = done /\ out' = out
        BY <2>3 DEF vars
      <3> QED  BY <3>1 DEF DiffIsDistance
    <2> QED  BY <2>1, <2>2, <2>3
  <1>3. DiffInv => DiffIsDistance
    OBVIOUS
  <1> QED  BY <1>1, <1>2, <1>3, PTL DEF Spec

-----------------------------------------------------------------------------
(* Paths.                                                                  *)

\* The counts of ".." and of names, piece by piece.
LEMMA CountIs ==
  ASSUME NEW p, NEW i \in Nat, NEW j \in Nat, i <= j + 1
  PROVE  /\ Ups(p, i, j) \in Nat /\ Names(p, i, j) \in Nat
         /\ Ups(p, i, j + 1) = Ups(p, i, j) + (IF p[j + 1] = ".." THEN 1 ELSE 0)
         /\ Names(p, i, j + 1) = Names(p, i, j) + (IF IsName(p[j + 1]) THEN 1 ELSE 0)
         /\ i = j + 1 => Ups(p, i, j) = 0 /\ Names(p, i, j) = 0
  <1> DEFINE U == {k \in i .. j : p[k] = ".."}
             N == {k \in i .. j : IsName(p[k])}
             U1 == {k \in i .. j + 1 : p[k] = ".."}
             N1 == {k \in i .. j + 1 : IsName(p[k])}
  <1>1. IsFiniteSet(i .. j)
    BY FS_Interval
  <1>2. U \in SUBSET (i .. j) /\ N \in SUBSET (i .. j)
    OBVIOUS
  <1>3. /\ IsFiniteSet(U) /\ IsFiniteSet(N)
        /\ Cardinality(U) \in Nat /\ Cardinality(N) \in Nat
    <2>1. IsFiniteSet(U) /\ IsFiniteSet(N)
      BY <1>1, <1>2, FS_Subset
    <2> QED  BY <2>1, FS_CardinalityType
  <1>4. i .. j + 1 = (i .. j) \cup {j + 1} /\ j + 1 \notin i .. j
    OBVIOUS
  <1>5. /\ U1 = IF p[j + 1] = ".." THEN U \cup {j + 1} ELSE U
        /\ N1 = IF IsName(p[j + 1]) THEN N \cup {j + 1} ELSE N
        /\ j + 1 \notin U /\ j + 1 \notin N
    BY <1>4
  <1>6. i = j + 1 => U = {} /\ N = {}
    OBVIOUS
  <1>7. /\ Ups(p, i, j) = Cardinality(U) /\ Names(p, i, j) = Cardinality(N)
        /\ Ups(p, i, j + 1) = Cardinality(U1) /\ Names(p, i, j + 1) = Cardinality(N1)
    BY DEF Ups, Names
  <1> HIDE DEF U, N, U1, N1
  <1>8. Cardinality(U \cup {j + 1}) = Cardinality(U) + 1 /\ Cardinality(N \cup {j + 1}) = Cardinality(N) + 1
    BY <1>3, <1>5, FS_AddElement
  <1> QED  BY <1>3, <1>5, <1>6, <1>7, <1>8, FS_EmptySet

\* The names among the first k pieces that none of the first k takes back, and
\* how many more names than ".." follow one.
Kept(p, k) ==
    {i \in 1 .. k : IsName(p[i]) /\ \A j \in i + 1 .. k : Ups(p, i + 1, j) <= Names(p, i + 1, j)}
Surplus(p, i, k) == Names(p, i + 1, k) - Ups(p, i + 1, k)

LEMMA SurplusIs ==
  ASSUME NEW p, NEW k \in Nat, NEW i \in 1 .. k
  PROVE  /\ Surplus(p, i, k) \in Int
         /\ Surplus(p, i, k + 1) = IF IsName(p[k + 1]) THEN Surplus(p, i, k) + 1
                                   ELSE IF p[k + 1] = ".." THEN Surplus(p, i, k) - 1
                                   ELSE Surplus(p, i, k)
         /\ Ups(p, i + 1, k + 1) <= Names(p, i + 1, k + 1) <=> Surplus(p, i, k + 1) >= 0
  <1> DEFINE a == i + 1
             u == Ups(p, a, k)
             n == Names(p, a, k)
             u1 == Ups(p, a, k + 1)
             n1 == Names(p, a, k + 1)
  <1>1. a \in Nat /\ a <= k + 1
    OBVIOUS
  <1> HIDE DEF a
  <1>2. /\ u \in Nat /\ n \in Nat
        /\ u1 = u + (IF p[k + 1] = ".." THEN 1 ELSE 0)
        /\ n1 = n + (IF IsName(p[k + 1]) THEN 1 ELSE 0)
    BY <1>1, CountIs
  <1>3. IsName(p[k + 1]) => p[k + 1] # ".."
    BY DEF IsName
  <1>4. Surplus(p, i, k) = n - u /\ Surplus(p, i, k + 1) = n1 - u1
    BY DEF Surplus, a
  <1> HIDE DEF u, n, u1, n1
  <1>5. u1 <= n1 <=> n1 - u1 >= 0
    BY <1>2
  <1>6. n1 - u1 = IF IsName(p[k + 1]) THEN n - u + 1
                  ELSE IF p[k + 1] = ".." THEN n - u - 1 ELSE n - u
    BY <1>2, <1>3
  <1>7. n - u \in Int
    BY <1>2
  <1> QED  BY <1>4, <1>5, <1>6, <1>7 DEF u1, n1, a

LEMMA SurplusLast ==
  ASSUME NEW p, NEW k \in Nat
  PROVE  Surplus(p, k, k) = 0
  <1> DEFINE a == k + 1
  <1>1. a \in Nat /\ a <= k + 1 /\ a = k + 1
    OBVIOUS
  <1> HIDE DEF a
  <1>2. Ups(p, a, k) = 0 /\ Names(p, a, k) = 0
    BY <1>1, CountIs
  <1> QED  BY <1>2 DEF Surplus, a

LEMMA KeptNext ==
  ASSUME NEW p, NEW k \in Nat
  PROVE  Kept(p, k + 1) = {i \in Kept(p, k) : Surplus(p, i, k + 1) >= 0}
                            \cup (IF IsName(p[k + 1]) THEN {k + 1} ELSE {})
  <1>1. \A i \in 1 .. k : i + 1 .. k + 1 = (i + 1 .. k) \cup {k + 1}
    OBVIOUS
  <1>2. \A i \in 1 .. k : Ups(p, i + 1, k + 1) <= Names(p, i + 1, k + 1) <=> Surplus(p, i, k + 1) >= 0
    BY SurplusIs
  <1>3. 1 .. k + 1 = (1 .. k) \cup {k + 1} /\ k + 1 + 1 .. k + 1 = {}
    OBVIOUS
  <1>4. ASSUME NEW i \in 1 .. k
        PROVE  i \in Kept(p, k + 1) <=> i \in Kept(p, k) /\ Surplus(p, i, k + 1) >= 0
    BY <1>1, <1>2, <1>3 DEF Kept
  <1>5. k + 1 \in Kept(p, k + 1) <=> IsName(p[k + 1])
    BY <1>3 DEF Kept
  <1>6. Kept(p, k + 1) \subseteq (1 .. k) \cup {k + 1} /\ Kept(p, k) \subseteq 1 .. k
    BY <1>3 DEF Kept
  <1>7. k + 1 \notin 1 .. k
    OBVIOUS
  <1> QED  BY <1>4, <1>5, <1>6, <1>7

\* e lists the d names that count among the first k pieces, in order, s holds
\* them, and the number of names after one of them is its surplus.
Lists(e, d, p, k, s) ==
    /\ e \in [1 .. d -> 1 .. k]
    /\ \A m, n \in 1 .. d : m < n => e[m] < e[n]
    /\ Kept(p, k) = {e[m] : m \in 1 .. d}
    /\ \A m \in 1 .. d : Surplus(p, e[m], k) = d - m
    /\ \A m \in 1 .. d : s[m] = p[e[m]]
Denotes(p, k, s) == \E e : Lists(e, Len(s), p, k, s)

LEMMA DenotesStart == \A p : Denotes(p, 0, <<>>)
  <1> TAKE p
  <1> DEFINE e == [m \in 1 .. 0 |-> 0]
  <1>1. Lists(e, 0, p, 0, <<>>)
    BY DEF Lists, Kept
  <1>2. Len(<<>>) = 0
    OBVIOUS
  <1> QED  BY <1>1, <1>2 DEF Denotes

\* A piece more: ".." takes the last name back, "." and "" change nothing.
LEMMA DenotesName ==
  ASSUME NEW T, NEW p, NEW k \in Nat, NEW s \in Seq(T), Denotes(p, k, s),
         IsName(p[k + 1]), p[k + 1] \in T
  PROVE  Denotes(p, k + 1, Append(s, p[k + 1]))
  <1> DEFINE d == Len(s)
             x == p[k + 1]
             t == Append(s, x)
             j == k + 1
  <1>1. PICK e : Lists(e, d, p, k, s)
    BY DEF Denotes
  <1>2. d \in Nat
    BY LenProperties
  <1>3. t \in Seq(T) /\ Len(t) = d + 1 /\ (\A i \in 1 .. d : t[i] = s[i]) /\ t[d + 1] = x
    BY AppendProperties
  <1> HIDE DEF d, t, x
  <1> DEFINE f == [m \in 1 .. d + 1 |-> IF m = d + 1 THEN j ELSE e[m]]
  <1>4. /\ e \in [1 .. d -> 1 .. k] /\ \A m, n \in 1 .. d : m < n => e[m] < e[n]
        /\ Kept(p, k) = {e[m] : m \in 1 .. d}
        /\ \A m \in 1 .. d : Surplus(p, e[m], k) = d - m
        /\ \A m \in 1 .. d : s[m] = p[e[m]]
    BY <1>1 DEF Lists
  <1>5. /\ \A m \in 1 .. d : f[m] = e[m] /\ f[d + 1] = j
        /\ 1 .. d + 1 = (1 .. d) \cup {d + 1} /\ f \in [1 .. d + 1 -> 1 .. j]
    BY <1>2, <1>4
  <1> HIDE DEF f
  <1>6. f[d + 1] = j
    <2>1. d = 0 \/ 1 \in 1 .. d
      BY <1>2
    <2> QED  BY <1>2, <1>5, <2>1 DEF f
  <1>7. \A m, n \in 1 .. d + 1 : m < n => f[m] < f[n]
    <2> SUFFICES ASSUME NEW m \in 1 .. d + 1, NEW n \in 1 .. d + 1, m < n PROVE f[m] < f[n]
      OBVIOUS
    <2>1. m \in 1 .. d /\ f[m] = e[m] /\ e[m] \in 1 .. k
      BY <1>2, <1>4, <1>5
    <2>2. CASE n = d + 1
      BY <1>6, <2>1, <2>2
    <2>3. CASE n # d + 1
      <3>1. n \in 1 .. d /\ f[n] = e[n]
        BY <1>2, <1>5, <2>3
      <3> QED  BY <1>4, <2>1, <3>1
    <2> QED  BY <2>2, <2>3
  <1>8. \A m \in 1 .. d : Surplus(p, e[m], j) = d + 1 - m
    <2> TAKE m \in 1 .. d
    <2>1. e[m] \in 1 .. k /\ Surplus(p, e[m], k) = d - m
      BY <1>4
    <2>2. Surplus(p, e[m], k + 1) = Surplus(p, e[m], k) + 1
      BY <2>1, SurplusIs
    <2> QED  BY <1>2, <2>1, <2>2
  <1>9. Surplus(p, j, j) = 0
    BY SurplusLast
  <1>10. Kept(p, j) = {e[m] : m \in 1 .. d} \cup {j}
    <2>1. ASSUME NEW i \in Kept(p, k) PROVE Surplus(p, i, k + 1) >= 0
      <3>1. PICK m \in 1 .. d : i = e[m]
        BY <1>4
      <3>2. Surplus(p, i, j) = d + 1 - m /\ d + 1 - m >= 0
        BY <1>2, <1>8, <3>1
      <3> QED  BY <3>2
    <2>2. Kept(p, k + 1) = {i \in Kept(p, k) : Surplus(p, i, k + 1) >= 0} \cup {k + 1}
      BY KeptNext
    <2> QED  BY <1>4, <2>1, <2>2
  <1> HIDE DEF j
  <1>11. Kept(p, j) = {f[m] : m \in 1 .. d + 1}
    BY <1>5, <1>6, <1>10
  <1>12. \A m \in 1 .. d + 1 : Surplus(p, f[m], j) = (d + 1) - m
    <2> TAKE m \in 1 .. d + 1
    <2>1. CASE m = d + 1
      BY <1>2, <1>6, <1>9, <2>1
    <2>2. CASE m # d + 1
      <3>1. m \in 1 .. d
        BY <1>2, <2>2
      <3>2. d + 1 - m = (d + 1) - m
        BY <1>2
      <3> QED  BY <1>5, <1>8, <3>1, <3>2
    <2> QED  BY <2>1, <2>2
  <1>13. \A m \in 1 .. d + 1 : t[m] = p[f[m]]
    <2> TAKE m \in 1 .. d + 1
    <2>1. CASE m = d + 1
      BY <1>3, <1>6, <2>1 DEF x, j
    <2>2. CASE m # d + 1
      <3>1. m \in 1 .. d
        BY <1>2, <2>2
      <3> QED  BY <1>3, <1>4, <1>5, <3>1
    <2> QED  BY <2>1, <2>2
  <1>14. Lists(f, d + 1, p, j, t)
    BY <1>5, <1>7, <1>11, <1>12, <1>13 DEF Lists
  <1>15. Denotes(p, j, t)
    BY <1>3, <1>14 DEF Denotes
  <1> QED  BY <1>15 DEF j, t, x

LEMMA DenotesUp ==
  ASSUME NEW T, NEW p, NEW k \in Nat, NEW s \in Seq(T), Denotes(p, k, s), p[k + 1] = ".."
  PROVE  Denotes(p, k + 1, IF s = <<>> THEN s ELSE SubSeq(s, 1, Len(s) - 1))
  <1> DEFINE d == Len(s)
             j == k + 1
  <1>1. PICK e : Lists(e, d, p, k, s)
    BY DEF Denotes
  <1>2. d \in Nat
    BY LenProperties
  <1>3. /\ e \in [1 .. d -> 1 .. k] /\ \A m, n \in 1 .. d : m < n => e[m] < e[n]
        /\ Kept(p, k) = {e[m] : m \in 1 .. d}
        /\ \A m \in 1 .. d : Surplus(p, e[m], k) = d - m
        /\ \A m \in 1 .. d : s[m] = p[e[m]]
    BY <1>1 DEF Lists
  <1>4. ~IsName(p[j])
    BY DEF IsName
  <1>5. \A m \in 1 .. d : Surplus(p, e[m], j) = d - 1 - m
    <2> TAKE m \in 1 .. d
    <2>1. e[m] \in 1 .. k /\ Surplus(p, e[m], k) = d - m
      BY <1>3
    <2>2. Surplus(p, e[m], k + 1) = Surplus(p, e[m], k) - 1
      BY <1>4, <2>1, SurplusIs
    <2> QED  BY <1>2, <2>1, <2>2
  <1>6. Kept(p, j) = {i \in Kept(p, k) : Surplus(p, i, j) >= 0}
    BY <1>4, KeptNext
  <1>7. CASE s = <<>>
    <2>1. d = 0 /\ 1 .. d = {}
      BY <1>7
    <2> HIDE DEF d
    <2>2. Kept(p, j) = {e[m] : m \in 1 .. d}
      BY <1>3, <1>6, <2>1
    <2>3. e \in [1 .. d -> 1 .. j]
      BY <1>3, <2>1
    <2>4. Lists(e, d, p, j, s)
      BY <2>1, <2>2, <2>3 DEF Lists
    <2>5. Denotes(p, j, s)
      BY <2>4 DEF Denotes, d
    <2> QED  BY <1>7, <2>5
  <1>8. CASE s # <<>>
    <2> DEFINE t == SubSeq(s, 1, d - 1)
               c == d - 1
               f == [m \in 1 .. c |-> e[m]]
    <2>1. c \in Nat /\ c < d /\ d - 1 = c /\ \A m \in 1 .. c : m \in 1 .. d
      <3>1. d # 0
        BY <1>8, EmptySeq
      <3> QED  BY <1>2, <3>1
    <2>2. t \in Seq(T) /\ Len(t) = c /\ \A m \in 1 .. c : t[m] = s[m]
      <3> DEFINE z == 0
      <3>1. z + c <= Len(s) /\ z \in Nat /\ z + 1 = 1 /\ z + c = d - 1 /\ \A m \in 1 .. c : z + m = m
        BY <1>2, <2>1
      <3> HIDE DEF z, c, d
      <3>2. /\ SubSeq(s, z + 1, z + c) \in Seq(T) /\ Len(SubSeq(s, z + 1, z + c)) = c
            /\ \A m \in 1 .. c : SubSeq(s, z + 1, z + c)[m] = s[z + m]
        BY <2>1, <3>1, PieceIs
      <3> QED  BY <3>1, <3>2
    <2> HIDE DEF t, d, c
    <2>3. f \in [1 .. c -> 1 .. j] /\ \A m \in 1 .. c : f[m] = e[m]
      BY <1>3, <2>1
    <2> HIDE DEF f
    <2>4. \A m \in 1 .. d : Surplus(p, e[m], j) >= 0 <=> m \in 1 .. c
      BY <1>2, <1>5, <2>1
    <2>5. Kept(p, j) = {f[m] : m \in 1 .. c}
      BY <1>3, <1>6, <2>1, <2>3, <2>4
    <2>6. \A m \in 1 .. c : Surplus(p, f[m], j) = c - m
      BY <1>5, <2>1, <2>3
    <2>7. \A m, n \in 1 .. c : m < n => f[m] < f[n]
      BY <1>3, <2>1, <2>3
    <2>8. \A m \in 1 .. c : t[m] = p[f[m]]
      BY <1>3, <2>1, <2>2, <2>3
    <2>9. Denotes(p, j, t)
      BY <2>2, <2>3, <2>5, <2>6, <2>7, <2>8 DEF Denotes, Lists
    <2> QED  BY <1>8, <2>9 DEF t, d
  <1> QED  BY <1>7, <1>8

LEMMA DenotesSame ==
  ASSUME NEW T, NEW p, NEW k \in Nat, NEW s \in Seq(T), Denotes(p, k, s),
         ~IsName(p[k + 1]), p[k + 1] # ".."
  PROVE  Denotes(p, k + 1, s)
  <1> DEFINE d == Len(s)
             j == k + 1
  <1>1. PICK e : Lists(e, d, p, k, s)
    BY DEF Denotes
  <1>2. d \in Nat
    BY LenProperties
  <1>3. /\ e \in [1 .. d -> 1 .. k] /\ \A m, n \in 1 .. d : m < n => e[m] < e[n]
        /\ Kept(p, k) = {e[m] : m \in 1 .. d}
        /\ \A m \in 1 .. d : Surplus(p, e[m], k) = d - m
        /\ \A m \in 1 .. d : s[m] = p[e[m]]
    BY <1>1 DEF Lists
  <1> HIDE DEF d
  <1>4. \A m \in 1 .. d : Surplus(p, e[m], j) = d - m
    BY <1>3, SurplusIs
  <1>5. Kept(p, j) = {i \in Kept(p, k) : Surplus(p, i, j) >= 0}
    BY KeptNext
  <1>6. Kept(p, j) = Kept(p, k)
    <2>1. ASSUME NEW i \in Kept(p, k) PROVE Surplus(p, i, j) >= 0
      <3>1. PICK m \in 1 .. d : i = e[m]
        BY <1>3
      <3>2. Surplus(p, i, j) = d - m /\ d - m >= 0
        BY <1>2, <1>4, <3>1
      <3> QED  BY <3>2
    <2> QED  BY <1>5, <2>1
  <1>7. e \in [1 .. d -> 1 .. j]
    BY <1>3
  <1>8. Lists(e, d, p, j, s)
    BY <1>3, <1>4, <1>6, <1>7 DEF Lists
  <1> QED  BY <1>8 DEF Denotes, d

\* The places of the members of a set that is listed in order.
LEMMA RanksAre ==
  ASSUME NEW d \in Nat, NEW e \in [1 .. d -> Nat],
         \A m, n \in 1 .. d : m < n => e[m] < e[n]
  PROVE  LET S == {e[m] : m \in 1 .. d}
         IN  /\ Cardinality(S) = d
             /\ \A m \in 1 .. d : Cardinality({j \in S : j <= e[m]}) = m
  <1> DEFINE Img(c) == {e[m] : m \in 1 .. c}
             S == {e[m] : m \in 1 .. d}
  <1>1. ASSUME NEW c \in 0 .. d PROVE Cardinality(Img(c)) = c
    <2> DEFINE f == [m \in 1 .. c |-> e[m]]
    <2>1. \A m \in 1 .. c : m \in 1 .. d /\ f[m] = e[m]
      OBVIOUS
    <2>2. f \in [1 .. c -> Img(c)] /\ \A x \in Img(c) : \E m \in 1 .. c : f[m] = x
      BY <2>1
    <2> HIDE DEF f
    <2>3. \A m, n \in 1 .. c : f[m] = f[n] => m = n
      <3> SUFFICES ASSUME NEW m \in 1 .. c, NEW n \in 1 .. c, m < n PROVE f[m] # f[n]
        <4>1. \A m, n \in 1 .. c : m < n \/ n < m \/ m = n
          OBVIOUS
        <4> QED  BY <4>1
      <3>1. e[m] < e[n] /\ e[m] \in Nat /\ e[n] \in Nat
        BY <2>1
      <3> QED  BY <2>1, <3>1
    <2>4. f \in Bijection(1 .. c, Img(c))
      <3> HIDE DEF Img
      <3> QED  BY <2>2, <2>3, Fun_IsBij
    <2>5. IsFiniteSet(1 .. c) /\ Cardinality(1 .. c) = c
      <3>1. 1 \in Int /\ c \in Int
        OBVIOUS
      <3>2. Cardinality(1 .. c) = IF 1 > c THEN 0 ELSE c - 1 + 1
        BY <3>1, FS_Interval
      <3> QED  BY <3>1, <3>2, FS_Interval
    <2> HIDE DEF Img
    <2> QED  BY <2>4, <2>5, FS_Bijection DEF ExistsBijection
  <1>2. Cardinality(S) = d
    BY <1>1
  <1>3. ASSUME NEW m \in 1 .. d PROVE Cardinality({j \in S : j <= e[m]}) = m
    <2>1. {j \in S : j <= e[m]} = Img(m)
      <3>1. ASSUME NEW i \in 1 .. d PROVE e[i] <= e[m] <=> i <= m
        <4>1. e[i] \in Nat /\ e[m] \in Nat /\ i \in Int /\ m \in Int
          OBVIOUS
        <4>2. i < m \/ i = m \/ m < i
          OBVIOUS
        <4> QED  BY <4>1, <4>2
      <3>2. \A i \in 1 .. d : i \in 1 .. m <=> i <= m
        OBVIOUS
      <3>3. 1 .. m \subseteq 1 .. d
        OBVIOUS
      <3>4. ASSUME NEW j \in S, j <= e[m] PROVE j \in Img(m)
        <4>1. PICK i \in 1 .. d : j = e[i]
          OBVIOUS
        <4> QED  BY <3>1, <3>2, <3>4, <4>1
      <3>5. ASSUME NEW i \in 1 .. m PROVE e[i] \in S /\ e[i] <= e[m]
        BY <3>1, <3>2, <3>3
      <3> QED  BY <3>4, <3>5
    <2>2. m \in 0 .. d
      OBVIOUS
    <2> HIDE DEF Img
    <2> QED  BY <1>1, <2>1, <2>2
  <1> QED  BY <1>2, <1>3

\* What is listed is what the path means.
LEMMA DenotesMeaning ==
  ASSUME NEW T, NEW p \in Seq(T), NEW k \in 0 .. Len(p), NEW s \in Seq(T), Denotes(p, k, s)
  PROVE  Meaning(SubSeq(p, 1, k)) = s
  <1> DEFINE q == SubSeq(p, 1, k)
             d == Len(s)
             S == {i \in 1 .. Len(q) : Stays(q, i)}
             nth(n) == CHOOSE i \in S : Cardinality({j \in S : j <= i}) = n
  <1>1. d \in Nat /\ Len(p) \in Nat /\ k \in Nat
    BY LenProperties
  <1>2. Len(q) = k /\ \A i \in 1 .. k : q[i] = p[i]
    <2> DEFINE z == 0
    <2>1. z + k <= Len(p) /\ z \in Nat /\ z + 1 = 1 /\ z + k = k /\ \A m \in 1 .. k : z + m = m
      BY <1>1
    <2> HIDE DEF z
    <2>2. /\ Len(SubSeq(p, z + 1, z + k)) = k
          /\ \A m \in 1 .. k : SubSeq(p, z + 1, z + k)[m] = p[z + m]
      BY <1>1, <2>1, PieceIs
    <2> QED  BY <2>1, <2>2
  <1> HIDE DEF q
  <1>3. S = Kept(p, k)
    <2>1. ASSUME NEW i \in 1 .. k, NEW j \in i + 1 .. k
          PROVE  Ups(q, i + 1, j) = Ups(p, i + 1, j) /\ Names(q, i + 1, j) = Names(p, i + 1, j)
      <3>1. \A m \in i + 1 .. j : q[m] = p[m]
        BY <1>2
      <3>2. /\ {m \in i + 1 .. j : q[m] = ".."} = {m \in i + 1 .. j : p[m] = ".."}
            /\ {m \in i + 1 .. j : IsName(q[m])} = {m \in i + 1 .. j : IsName(p[m])}
        BY <3>1
      <3> QED  BY <3>2 DEF Ups, Names
    <2> QED  BY <1>2, <2>1 DEF Kept, Stays
  <1>4. PICK e : Lists(e, d, p, k, s)
    BY DEF Denotes
  <1>5. /\ e \in [1 .. d -> 1 .. k] /\ \A m, n \in 1 .. d : m < n => e[m] < e[n]
        /\ Kept(p, k) = {e[m] : m \in 1 .. d}
        /\ \A m \in 1 .. d : s[m] = p[e[m]]
    BY <1>4 DEF Lists
  <1> HIDE DEF S, d
  <1>6. e \in [1 .. d -> Nat]
    BY <1>1, <1>5
  <1>7. Cardinality(S) = d /\ \A m \in 1 .. d : Cardinality({j \in S : j <= e[m]}) = m
    <2>1. S = {e[m] : m \in 1 .. d}
      BY <1>3, <1>5
    <2> QED  BY <1>1, <1>5, <1>6, <2>1, RanksAre
  <1>8. ASSUME NEW n \in 1 .. d PROVE nth(n) = e[n]
    <2>1. e[n] \in S /\ Cardinality({j \in S : j <= e[n]}) = n
      BY <1>3, <1>5, <1>7
    <2>2. ASSUME NEW i \in S, Cardinality({j \in S : j <= i}) = n PROVE i = e[n]
      <3>1. PICK m \in 1 .. d : i = e[m]
        BY <1>3, <1>5
      <3> QED  BY <1>7, <2>2, <3>1
    <2> QED  BY <2>1, <2>2
  <1>9. Meaning(q) = [n \in 1 .. Cardinality(S) |-> q[nth(n)]]
    BY DEF Meaning, S
  <1> HIDE DEF nth
  <1>10. \A n \in 1 .. d : q[nth(n)] = s[n]
    BY <1>2, <1>5, <1>8
  <1>11. s = [n \in 1 .. d |-> s[n]]
    BY LenProperties DEF d
  <1>12. Meaning(q) = s
    BY <1>7, <1>9, <1>10, <1>11
  <1> QED  BY <1>12 DEF q

\* The stack of normalize_abs_path().
Stacks(T) == [stack : Seq(T), overflowed : BOOLEAN]

LEMMA PushIs ==
  ASSUME NEW T, NEW v \in Stacks(T), NEW x \in T
  PROVE  /\ Push(v, x) \in Stacks(T)
         /\ v.overflowed => Push(v, x) = v
         /\ ~v.overflowed =>
              /\ x = ".." => /\ Push(v, x).stack = IF v.stack = <<>> THEN v.stack
                                                  ELSE SubSeq(v.stack, 1, Len(v.stack) - 1)
                             /\ ~Push(v, x).overflowed
              /\ x # ".." /\ ~IsName(x) => Push(v, x) = v
              /\ IsName(x) /\ Len(v.stack) < StackMax =>
                   Push(v, x).stack = Append(v.stack, x) /\ ~Push(v, x).overflowed
              /\ IsName(x) /\ ~(Len(v.stack) < StackMax) => Push(v, x).overflowed
  <1> DEFINE s == v.stack
             up == IF s = <<>> THEN s ELSE SubSeq(s, 1, Len(s) - 1)
             r == Push(v, x)
  <1>1. s \in Seq(T) /\ v.overflowed \in BOOLEAN /\ Len(s) \in Nat
    <2>1. s \in Seq(T) /\ v.overflowed \in BOOLEAN
      BY DEF Stacks
    <2> QED  BY <2>1, LenProperties
  <1>2. up \in Seq(T)
    <2>1. CASE s = <<>>
      BY <1>1, <2>1
    <2>2. CASE s # <<>>
      <3>1. \A i \in 1 .. Len(s) - 1 : s[i] \in T
        BY <1>1, LenProperties
      <3>2. 1 \in Int /\ Len(s) - 1 \in Int
        BY <1>1
      <3> QED  BY <2>2, <3>1, <3>2, SubSeqProperties
    <2> QED  BY <2>1, <2>2
  <1>3. Append(s, x) \in Seq(T)
    BY <1>1, AppendProperties
  <1>4. ASSUME NEW t \in Seq(T)
        PROVE  /\ [v EXCEPT !.stack = t] \in Stacks(T) /\ [v EXCEPT !.stack = t].stack = t
               /\ [v EXCEPT !.stack = t].overflowed = v.overflowed
    BY DEF Stacks
  <1>5. /\ [v EXCEPT !.overflowed = TRUE] \in Stacks(T)
        /\ [v EXCEPT !.overflowed = TRUE].overflowed
    BY DEF Stacks
  <1>6. IsName(x) => x # ".."
    BY DEF IsName
  <1>7. r = IF v.overflowed THEN v
            ELSE IF x = ".." THEN [v EXCEPT !.stack = up]
            ELSE IF ~IsName(x) THEN v
            ELSE IF Len(s) < StackMax THEN [v EXCEPT !.stack = Append(s, x)]
            ELSE [v EXCEPT !.overflowed = TRUE]
    BY DEF Push
  <1> DEFINE a == [v EXCEPT !.stack = up]
             b == [v EXCEPT !.stack = Append(s, x)]
             c == [v EXCEPT !.overflowed = TRUE]
  <1>8. /\ a \in Stacks(T) /\ a.stack = up /\ a.overflowed = v.overflowed
        /\ b \in Stacks(T) /\ b.stack = Append(s, x) /\ b.overflowed = v.overflowed
        /\ c \in Stacks(T) /\ c.overflowed
    <2> HIDE DEF up
    <2>1. a \in Stacks(T) /\ a.stack = up /\ a.overflowed = v.overflowed
      BY <1>2, <1>4, Zenon
    <2>2. b \in Stacks(T) /\ b.stack = Append(s, x) /\ b.overflowed = v.overflowed
      BY <1>3, <1>4, Zenon
    <2> QED  BY <1>5, <2>1, <2>2, Zenon
  <1> HIDE DEF a, b, c
  <1>9. r = IF v.overflowed THEN v
            ELSE IF x = ".." THEN a
            ELSE IF ~IsName(x) THEN v
            ELSE IF Len(s) < StackMax THEN b ELSE c
    BY <1>7 DEF a, b, c
  <1> HIDE DEF r
  <1>10. r \in Stacks(T)
    <2>1. r = v \/ r = a \/ r = b \/ r = c
      BY <1>9, Zenon
    <2> QED  BY <1>8, <2>1
  <1>11. v.overflowed => r = v
    BY <1>9
  <1>12. ~v.overflowed =>
              /\ x = ".." => r.stack = up /\ ~r.overflowed
              /\ x # ".." /\ ~IsName(x) => r = v
              /\ IsName(x) /\ Len(s) < StackMax => r.stack = Append(s, x) /\ ~r.overflowed
              /\ IsName(x) /\ ~(Len(s) < StackMax) => r.overflowed
    BY <1>6, <1>8, <1>9
  <1> QED  BY <1>10, <1>11, <1>12 DEF r

\* The stack holds what the pieces so far mean, and is not too small for a path
\* that is never deeper.
LEMMA StackIs ==
  ASSUME NEW T, NEW p \in Seq(T)
  PROVE  LET after == CHOOSE f : f = [k \in 0 .. Len(p) |->
                        IF k = 0 THEN [stack |-> <<>>, overflowed |-> FALSE]
                        ELSE Push(f[k - 1], p[k])]
             end == after[Len(p)]
         IN  /\ end.overflowed \in BOOLEAN
             /\ ~end.overflowed => end.stack \in Seq(T) /\ Denotes(p, Len(p), end.stack)
             /\ (\A d \in Deepest(p) : d <= StackMax) => ~end.overflowed
  <1> DEFINE n == Len(p)
             V == Stacks(T)
             first == [stack |-> <<>>, overflowed |-> FALSE]
             Body(f) == [k \in 0 .. n |-> IF k = 0 THEN first ELSE Push(f[k - 1], p[k])]
             after == CHOOSE f : f = Body(f)
             step == [k \in 1 .. n |-> [v \in V |-> Push(v, p[k])]]
             Flat == \A d \in Deepest(p) : d <= StackMax
  <1>1. n \in Nat /\ \A k \in 1 .. n : p[k] \in T
    BY LenProperties
  <1>2. first \in V /\ first.stack = <<>> /\ ~first.overflowed
    BY DEF Stacks
  <1> HIDE DEF V, first, n
  <1>3. \A v \in V, k \in 1 .. n : Push(v, p[k]) \in V
    BY <1>1, PushIs DEF V
  <1>4. after = Body(after)
    <2>1. step \in [1 .. n -> [V -> V]] /\ \A k \in 1 .. n, v \in V : step[k][v] = Push(v, p[k])
      BY <1>3
    <2> HIDE DEF step
    <2>2. PICK f : IsLoop(f, V, first, n, step)
      BY <1>1, <1>2, <2>1, LoopExists
    <2>3. f \in [0 .. n -> V] /\ f[0] = first /\ \A k \in 1 .. n : f[k - 1] \in V /\ f[k] = step[k][f[k - 1]]
      BY <1>1, <2>2 DEF IsLoop
    <2>4. \A k \in 1 .. n : f[k] = Push(f[k - 1], p[k])
      BY <2>1, <2>3
    <2>5. f = Body(f)
      BY <2>3, <2>4
    <2> QED  BY <2>5
  <1> HIDE DEF after
  <1>5. after[0] = first /\ \A k \in 1 .. n : after[k] = Push(after[k - 1], p[k])
    BY <1>1, <1>4
  <1> DEFINE Good(k) == /\ after[k] \in V
                        /\ ~after[k].overflowed => Denotes(p, k, after[k].stack)
                        /\ Flat => ~after[k].overflowed
             M == {k \in Nat : k <= n => Good(k)}
  <1>6. 0 \in M
    BY <1>2, <1>5, DenotesStart
  <1>7. ASSUME NEW k \in Nat, k \in M PROVE k + 1 \in M
    <2> DEFINE j == k + 1
               v == after[k]
               w == after[j]
               x == p[j]
    <2> SUFFICES ASSUME j <= n PROVE Good(j)
      OBVIOUS
    <2>1. j \in 1 .. n /\ j - 1 = k /\ v \in V /\ Good(k) /\ x \in T /\ j \in 0 .. Len(p)
      BY <1>1, <1>7 DEF n
    <2>2. w = Push(v, x)
      BY <1>5, <2>1
    <2> HIDE DEF Flat, w, v, j
    <2>3. v \in Stacks(T) /\ w \in V
      BY <1>3, <2>1, <2>2 DEF V
    <2> DEFINE s == v.stack
    <2>4. s \in Seq(T) /\ Len(s) \in Nat
      <3>1. s \in Seq(T)
        BY <2>3 DEF Stacks
      <3> QED  BY <3>1, LenProperties
    <2>5. CASE v.overflowed
      <3>1. w = v /\ ~Flat
        BY <2>1, <2>2, <2>3, <2>5, PushIs DEF v
      <3> QED  BY <2>3, <2>5, <3>1 DEF w
    <2>6. CASE ~v.overflowed
      <3>0. Denotes(p, k, s)
        BY <2>1, <2>6 DEF v
      <3> HIDE DEF x
      <3>1. CASE x = ".."
        <4> DEFINE up == IF s = <<>> THEN s ELSE SubSeq(s, 1, Len(s) - 1)
        <4>1. w.stack = up /\ ~w.overflowed
          BY <2>1, <2>2, <2>3, <2>6, <3>1, PushIs
        <4>2. Denotes(p, j, up)
          BY <2>4, <3>0, <3>1, DenotesUp DEF x, j
        <4> HIDE DEF up
        <4> QED  BY <2>3, <4>1, <4>2 DEF w
      <3>2. CASE x # ".." /\ ~IsName(x)
        <4>1. w = v
          BY <2>1, <2>2, <2>3, <2>6, <3>2, PushIs
        <4>2. Denotes(p, j, s)
          BY <2>4, <3>0, <3>2, DenotesSame DEF x, j
        <4> QED  BY <2>3, <2>6, <4>1, <4>2 DEF w
      <3>3. CASE IsName(x)
        <4> DEFINE t == Append(s, x)
        <4>1. Denotes(p, j, t)
          BY <2>1, <2>4, <3>0, <3>3, DenotesName DEF x, j
        <4>2. t \in Seq(T) /\ Len(t) = Len(s) + 1
          BY <2>1, <2>4, AppendProperties
        <4>3. CASE Len(s) < StackMax
          <5>1. w.stack = t /\ ~w.overflowed
            BY <2>1, <2>2, <2>3, <2>6, <3>3, <4>3, PushIs
          <5> QED  BY <2>3, <4>1, <5>1 DEF w
        <4>4. CASE ~(Len(s) < StackMax)
          <5>1. w.overflowed
            BY <2>1, <2>2, <2>3, <2>6, <3>3, <4>4, PushIs
          <5> HIDE DEF t
          <5>2. Meaning(SubSeq(p, 1, j)) = t
            BY <2>1, <4>1, <4>2, DenotesMeaning
          <5>3. Len(t) \in Deepest(p)
            BY <2>1, <5>2 DEF Deepest
          <5>4. ~(Len(t) <= StackMax)
            BY <2>4, <4>2, <4>4, PathNormAssumption
          <5>5. ~Flat
            BY <5>3, <5>4 DEF Flat
          <5> QED  BY <2>3, <5>1, <5>5 DEF w
        <4> QED  BY <4>3, <4>4
      <3> QED  BY <3>1, <3>2, <3>3
    <2> QED  BY <2>5, <2>6
  <1>8. n \in M
    <2> HIDE DEF M
    <2> QED  BY <1>1, <1>6, <1>7, Induction
  <1>9. Good(n)
    BY <1>1, <1>8
  <1>10. after[n].overflowed \in BOOLEAN /\ after[n].stack \in Seq(T)
    BY <1>9 DEF V, Stacks
  <1> QED  BY <1>9, <1>10 DEF after, n, first

\* How normalize_abs_path() writes what it found.
Blank == ""
Spelled(s) == <<Blank>> \o (IF s = <<>> THEN <<Blank>> ELSE s)

LEMMA DenotesNames ==
  ASSUME NEW T, NEW p, NEW k \in Nat, NEW s \in Seq(T), Denotes(p, k, s)
  PROVE  \A m \in 1 .. Len(s) : IsName(s[m])
  <1>1. PICK e : Lists(e, Len(s), p, k, s)
    BY DEF Denotes
  <1>2. \A m \in 1 .. Len(s) : e[m] \in Kept(p, k) /\ s[m] = p[e[m]]
    BY <1>1 DEF Lists
  <1> QED  BY <1>2 DEF Kept

\* What is written means the same.
LEMMA SpelledMeans ==
  ASSUME NEW T, Blank \in T, NEW s \in Seq(T), \A m \in 1 .. Len(s) : IsName(s[m])
  PROVE  Meaning(Spelled(s)) = s
  <1> DEFINE q == Spelled(s)
             d == Len(s)
  <1>1. d \in Nat /\ \A m \in 1 .. d : s[m] \in T
    BY LenProperties
  <1>2. ~IsName(Blank) /\ Blank # ".."
    BY DEF IsName, Blank
  <1>3. CASE s = <<>>
    <2> DEFINE h == <<Blank>>
    <2>1. q = h \o h
      BY <1>3 DEF Spelled
    <2> HIDE DEF q
    <2>2. q \in Seq(T) /\ Len(q) = 2 /\ q[1] = Blank /\ q[2] = Blank
      <3>1. h \in Seq(T) /\ Len(h) = 1 /\ h[1] = Blank
        OBVIOUS
      <3> HIDE DEF h
      <3>2. /\ h \o h \in Seq(T) /\ Len(h \o h) = Len(h) + Len(h)
            /\ \A i \in 1 .. Len(h) + Len(h) :
                 (h \o h)[i] = IF i <= Len(h) THEN h[i] ELSE h[i - Len(h)]
        BY <3>1, ConcatProperties
      <3> QED  BY <2>1, <3>1, <3>2
    <2> DEFINE zero == 0
               one == zero + 1
               two == one + 1
               none == <<>>
    <2>3. zero \in Nat /\ one \in Nat /\ two \in Nat /\ one = 1 /\ two = 2 /\ none \in Seq(T)
      OBVIOUS
    <2>4. Denotes(q, zero, none)
      BY DenotesStart
    <2> HIDE DEF zero, none
    <2>5. Denotes(q, one, none)
      <3>1. q[zero + 1] = Blank
        BY <2>2, <2>3
      <3> QED  BY <1>2, <2>3, <2>4, <3>1, DenotesSame
    <2> HIDE DEF one
    <2>6. Denotes(q, two, none)
      <3>1. q[one + 1] = Blank
        BY <2>2, <2>3
      <3> QED  BY <1>2, <2>3, <2>5, <3>1, DenotesSame
    <2> HIDE DEF two
    <2>7. two \in 0 .. Len(q) /\ SubSeq(q, 1, two) = q
      BY <2>2, <2>3, SubSeqFull
    <2>8. Meaning(SubSeq(q, 1, two)) = none
      BY <2>2, <2>3, <2>6, <2>7, DenotesMeaning
    <2> QED  BY <1>3, <2>7, <2>8 DEF q, none
  <1>4. CASE s # <<>>
    <2> DEFINE h == <<Blank>>
               one == 1
    <2>1. q = h \o s
      BY <1>4 DEF Spelled
    <2>2. h \in Seq(T) /\ Len(h) = 1 /\ h[1] = Blank
      OBVIOUS
    <2> HIDE DEF h, one
    <2>3. /\ q \in Seq(T) /\ Len(q) = one + d /\ \A i \in 1 .. one : q[i] = h[i]
          /\ \A i \in 1 .. d : q[one + i] = s[i]
      <3>1. Len(h) = one
        BY <2>2 DEF one
      <3>2. /\ h \o s \in Seq(T) /\ Len(h \o s) = one + d
            /\ \A i \in 1 .. one : (h \o s)[i] = h[i]
            /\ \A i \in 1 .. d : (h \o s)[one + i] = s[i]
        BY <2>2, <3>1, JoinIs
      <3> QED  BY <2>1, <3>2
    <2> HIDE DEF q
    <2>4. q[1] = Blank /\ one = 1
      <3>1. one = 1
        BY DEF one
      <3> QED  BY <2>2, <2>3, <3>1
    <2>5. Denotes(q, 1, <<>>)
      <3> DEFINE zero == 0
                 none == <<>>
      <3>1. zero \in Nat /\ zero + 1 = 1 /\ none \in Seq(T)
        OBVIOUS
      <3>2. Denotes(q, zero, none)
        BY DenotesStart
      <3> HIDE DEF zero, none
      <3>3. q[zero + 1] = Blank
        BY <2>4, <3>1
      <3>4. Denotes(q, zero + 1, none)
        BY <1>2, <3>1, <3>2, <3>3, DenotesSame
      <3> QED  BY <3>1, <3>4 DEF none
    <2> DEFINE part(k) == SubSeq(s, 1, k)
               M == {k \in Nat : k <= d => Denotes(q, one + k, part(k))}
    <2>6. 0 \in M
      <3>1. part(0) = <<>>
        BY SubSeqEmpty
      <3>2. one + 0 = 1
        BY <2>4
      <3> HIDE DEF part
      <3> QED  BY <2>5, <3>1, <3>2
    <2>7. ASSUME NEW k \in Nat, k \in M PROVE k + 1 \in M
      <3> DEFINE j == k + 1
                 c == one + k
                 x == s[j]
      <3> SUFFICES ASSUME j <= d PROVE Denotes(q, one + j, part(j))
        OBVIOUS
      <3>1. j \in 1 .. d /\ k <= d /\ c \in Nat /\ c + 1 = one + j /\ j - 1 = k
        BY <1>1, <2>4
      <3>2. Denotes(q, c, part(k))
        BY <2>7, <3>1
      <3>3. part(k) \in Seq(T) /\ part(j) = Append(part(k), x)
        <4>1. part(k) \in Seq(T)
          <5>1. \A i \in 1 .. k : s[i] \in T
            BY <1>1, <3>1
          <5> QED  BY <5>1, SubSeqProperties
        <4>2. part(j) = part(k) \o <<x>>
          <5>1. 1 \in 1 .. Len(s) /\ j \in 1 .. Len(s)
            BY <1>1, <3>1
          <5>2. SubSeq(s, 1, j) = SubSeq(s, 1, j - 1) \o <<s[j]>>
            BY <5>1, SubSeqRecursiveSecond
          <5> QED  BY <3>1, <5>2
        <4> HIDE DEF part
        <4>3. Append(part(k), x) = part(k) \o <<x>>
          BY <1>1, <3>1, <4>1, AppendIsConcat
        <4> QED  BY <4>1, <4>2, <4>3
      <3> HIDE DEF part, j, c
      <3>4. q[c + 1] = x /\ IsName(x) /\ x \in T
        BY <1>1, <2>3, <3>1
      <3> DEFINE y == part(k)
      <3> HIDE DEF y
      <3>5. Denotes(q, c + 1, Append(y, q[c + 1]))
        BY <3>1, <3>2, <3>3, <3>4, DenotesName DEF y
      <3> QED  BY <3>1, <3>3, <3>4, <3>5 DEF y
    <2>8. d \in M
      <3> HIDE DEF M
      <3> QED  BY <1>1, <2>6, <2>7, Induction
    <2>9. Denotes(q, one + d, s)
      <3>1. part(d) = s
        BY SubSeqFull
      <3> HIDE DEF part
      <3> QED  BY <1>1, <2>8, <3>1
    <2> DEFINE l == Len(q)
    <2>10. l \in 0 .. Len(q) /\ Denotes(q, l, s)
      BY <1>1, <2>3, <2>4, <2>9
    <2> HIDE DEF l
    <2>11. Meaning(SubSeq(q, 1, l)) = s
      BY <2>3, <2>10, DenotesMeaning
    <2>12. SubSeq(q, 1, l) = q
      BY <2>3, SubSeqFull DEF l
    <2> QED  BY <2>11, <2>12 DEF q
  <1> QED  BY <1>3, <1>4

\* normalize_abs_path() leaves the path as it is or writes what it means, the
\* latter when there is memory and the path is never too deep.
LEMMA NormalizeIs ==
  ASSUME NEW T, Blank \in T, NEW p \in Seq(T), NEW mem \in BOOLEAN
  PROVE  LET r == normalize_abs_path(p, mem)
         IN  /\ Meaning(r) = Meaning(p)
             /\ mem /\ (\A d \in Deepest(p) : d <= StackMax) => r = Spelled(Meaning(p))
  <1> DEFINE r == normalize_abs_path(p, mem)
             n == Len(p)
             after == CHOOSE f : f = [k \in 0 .. Len(p) |->
                        IF k = 0 THEN [stack |-> <<>>, overflowed |-> FALSE]
                        ELSE Push(f[k - 1], p[k])]
             end == after[n]
             s == end.stack
             Flat == \A d \in Deepest(p) : d <= StackMax
  <1>1. r = IF ~mem \/ end.overflowed THEN p ELSE Spelled(s)
    BY DEF normalize_abs_path, Spelled, Blank
  <1>2. /\ end.overflowed \in BOOLEAN
        /\ ~end.overflowed => s \in Seq(T) /\ Denotes(p, n, s)
        /\ Flat => ~end.overflowed
    BY StackIs
  <1>3. n \in 0 .. Len(p) /\ n \in Nat /\ SubSeq(p, 1, n) = p
    BY LenProperties, SubSeqFull
  <1> HIDE DEF end, r, Flat, n
  <1>4. ASSUME ~end.overflowed PROVE Meaning(p) = s /\ Meaning(Spelled(s)) = s
    <2> DEFINE t == s
    <2>1. t \in Seq(T) /\ Denotes(p, n, t)
      BY <1>2, <1>4
    <2> HIDE DEF t
    <2>2. Meaning(SubSeq(p, 1, n)) = t
      BY <1>3, <2>1, DenotesMeaning
    <2>3. \A m \in 1 .. Len(t) : IsName(t[m])
      BY <1>3, <2>1, DenotesNames
    <2>4. Meaning(Spelled(t)) = t
      BY <2>1, <2>3, SpelledMeans
    <2> QED  BY <1>3, <2>2, <2>4 DEF t
  <1>5. Meaning(r) = Meaning(p)
    <2>1. CASE ~mem \/ end.overflowed
      BY <1>1, <2>1
    <2>2. CASE ~(~mem \/ end.overflowed)
      BY <1>1, <1>4, <2>2
    <2> QED  BY <2>1, <2>2
  <1>6. mem /\ Flat => r = Spelled(Meaning(p))
    <2> SUFFICES ASSUME mem, Flat PROVE r = Spelled(Meaning(p))
      OBVIOUS
    <2>1. ~end.overflowed
      BY <1>2
    <2> QED  BY <1>1, <1>4, <2>1
  <1> QED  BY <1>5, <1>6 DEF r, Flat

\* What d_path() says is spelled like that.
LEMMA BaseIs ==
  ASSUME NEW T, Blank \in T, NEW b \in Seq(T), Absolute(b),
         b = Root \/ \A i \in 2 .. Len(b) : IsName(b[i])
  PROVE  b = Spelled(Meaning(b))
  <1> SUFFICES ASSUME NEW s \in Seq(T), b = Spelled(s), \A m \in 1 .. Len(s) : IsName(s[m])
               PROVE  b = Spelled(Meaning(b))
    <2>1. CASE b = Root
      <3> DEFINE none == <<>>
      <3>1. none \in Seq(T) /\ Len(none) = 0
        OBVIOUS
      <3>2. \A m \in 1 .. Len(none) : IsName(none[m])
        BY <3>1
      <3>3. Root = Spelled(none)
        <4>1. Root = <<Blank, Blank>> /\ Spelled(none) = <<Blank>> \o <<Blank>>
          BY DEF Root, Spelled, Blank
        <4> DEFINE h == <<Blank>>
        <4>2. h \in Seq(T) /\ Len(h) = 1 /\ h[1] = Blank
          OBVIOUS
        <4>3. /\ h \o h \in Seq(T) /\ Len(h \o h) = Len(h) + Len(h)
              /\ \A i \in 1 .. Len(h) + Len(h) :
                   (h \o h)[i] = IF i <= Len(h) THEN h[i] ELSE h[i - Len(h)]
          BY <4>2, ConcatProperties
        <4> DEFINE q == h \o h
                   w == <<Blank, Blank>>
        <4>4. w \in Seq(T) /\ Len(w) = 2 /\ w[1] = Blank /\ w[2] = Blank
          OBVIOUS
        <4> HIDE DEF h
        <4>5. q \in Seq(T) /\ Len(q) = 2 /\ q[1] = Blank /\ q[2] = Blank
          BY <4>2, <4>3
        <4> HIDE DEF q, w
        <4>6. \A i \in 1 .. 2 : i = 1 \/ i = 2
          OBVIOUS
        <4>7. q = w
          BY <4>4, <4>5, <4>6, SeqEqual
        <4> QED  BY <4>1, <4>7 DEF q, w, h
      <3> HIDE DEF none
      <3> QED  BY <2>1, <3>1, <3>2, <3>3
    <2>2. CASE \A i \in 2 .. Len(b) : IsName(b[i])
      <3> DEFINE s == Tail(b)
                 h == <<Blank>>
      <3>1. Len(b) > 1 /\ b[1] = Blank /\ Len(b) \in Nat
        <4>1. Len(b) > 1
          BY DEF Absolute
        <4>2. b[1] = Blank
          BY DEF Absolute, Blank
        <4> QED  BY <4>1, <4>2, LenProperties
      <3>2. b # <<>>
        BY <3>1
      <3>3. s \in Seq(T) /\ Len(s) = Len(b) - 1 /\ \A i \in 1 .. Len(s) : s[i] = b[i + 1]
        BY <3>2, HeadTailProperties
      <3>4. h \in Seq(T) /\ Len(h) = 1 /\ h[1] = Blank
        OBVIOUS
      <3> HIDE DEF s, h
      <3>5. \A m \in 1 .. Len(s) : IsName(s[m])
        <4> TAKE m \in 1 .. Len(s)
        <4>1. m + 1 \in 2 .. Len(b)
          BY <3>1, <3>3
        <4> QED  BY <2>2, <3>3, <4>1
      <3>6. s # <<>>
        <4>1. Len(s) # 0
          BY <3>1, <3>3
        <4> QED  BY <4>1
      <3>7. /\ h \o s \in Seq(T) /\ Len(h \o s) = Len(b)
            /\ \A i \in 1 .. Len(b) : (h \o s)[i] = b[i]
        <4>1. /\ h \o s \in Seq(T) /\ Len(h \o s) = Len(h) + Len(s)
              /\ \A i \in 1 .. Len(h) + Len(s) :
                   (h \o s)[i] = IF i <= Len(h) THEN h[i] ELSE s[i - Len(h)]
          <5>1. h \in Seq(T) /\ s \in Seq(T)
            BY <3>3, <3>4
          <5> QED  BY <5>1, ConcatProperties
        <4> DEFINE q == h \o s
        <4> HIDE DEF q
        <4>2. Len(h) + Len(s) = Len(b)
          BY <3>1, <3>3, <3>4
        <4>3. ASSUME NEW i \in 1 .. Len(b) PROVE q[i] = b[i]
          <5>1. CASE i = 1
            BY <3>1, <3>4, <4>1, <4>2, <5>1 DEF q
          <5>2. CASE i # 1
            <6>1. ~(i <= Len(h)) /\ i - Len(h) \in 1 .. Len(s) /\ i - Len(h) + 1 = i
              BY <3>1, <3>3, <3>4, <5>2
            <6>2. q[i] = s[i - Len(h)]
              BY <4>1, <4>2, <6>1 DEF q
            <6> QED  BY <3>3, <6>1, <6>2
          <5> QED  BY <5>1, <5>2
        <4> QED  BY <4>1, <4>2, <4>3 DEF q
      <3>8. b = h \o s
        <4> DEFINE q == h \o s
        <4> HIDE DEF q
        <4>1. q \in Seq(T) /\ Len(b) = Len(q) /\ \A i \in 1 .. Len(b) : b[i] = q[i]
          <5>1. q \in Seq(T) /\ Len(q) = Len(b)
            BY <3>7 DEF q
          <5>2. \A i \in 1 .. Len(b) : q[i] = b[i]
            BY <3>7 DEF q
          <5> QED  BY <5>1, <5>2
        <4>2. b = q
          BY <4>1, SeqEqual
        <4> QED  BY <4>2 DEF q
      <3>9. Spelled(s) = h \o s
        BY <3>6 DEF Spelled, h
      <3> QED  BY <3>3, <3>5, <3>8, <3>9
    <2> QED  BY <2>1, <2>2
  <1>1. Meaning(Spelled(s)) = s
    BY SpelledMeans
  <1> QED  BY <1>1

\* The path that is meant, and whether none of the limits is met on the way.
Given(path, base) ==
    IF path = Empty THEN base ELSE IF Absolute(path) THEN path ELSE base \o path
Shallow(p) == \A d \in Deepest(p) : d <= StackMax

LEMMA ResolveIs ==
  ASSUME NEW T, Blank \in T, NEW path \in Seq(T), NEW base \in Seq(T), Absolute(base),
         base = Root \/ \A i \in 2 .. Len(base) : IsName(base[i]),
         NEW ok \in BOOLEAN, NEW mem \in BOOLEAN
  PROVE  LET r == resolve_absolute_path(path, base, ok, mem)
             g == Given(path, base)
         IN  /\ Absolute(r) => Meaning(r) = Meaning(g)
             /\ ok /\ mem /\ Len(g) <= OutMax /\ Shallow(g) => r = Spelled(Meaning(g))
  <1> DEFINE r == resolve_absolute_path(path, base, ok, mem)
             g == Given(path, base)
  <1>1. CASE path = Empty
    <2>1. r = (IF ok THEN base ELSE Empty) /\ g = base
      BY <1>1 DEF resolve_absolute_path, Given
    <2>2. ~Absolute(Empty)
      <3>1. Empty = <<Blank>>
        BY DEF Empty, Blank
      <3>2. Len(<<Blank>>) = 1
        OBVIOUS
      <3>3. ~(Len(Empty) > 1)
        BY <3>1, <3>2
      <3> QED  BY <3>3, Zenon DEF Absolute
    <2>3. base = Spelled(Meaning(base))
      BY BaseIs
    <2> HIDE DEF r, g
    <2>4. Absolute(r) => Meaning(r) = Meaning(g)
      BY <2>1, <2>2
    <2>5. ok => r = Spelled(Meaning(g))
      BY <2>1, <2>3
    <2> QED  BY <2>4, <2>5 DEF r, g
  <1>2. CASE path # Empty /\ Absolute(path)
    <2> DEFINE z == normalize_abs_path(path, mem)
    <2>1. r = z /\ g = path
      BY <1>2 DEF resolve_absolute_path, Given
    <2>2. Meaning(z) = Meaning(path) /\ (mem /\ Shallow(path) => z = Spelled(Meaning(path)))
      BY NormalizeIs DEF Shallow
    <2> HIDE DEF r, g, z
    <2> QED  BY <2>1, <2>2 DEF r, g
  <1>3. CASE path # Empty /\ ~Absolute(path)
    <2> DEFINE p == base \o path
               z == normalize_abs_path(p, mem)
    <2>1. r = (IF ~ok \/ Len(p) > OutMax THEN path ELSE z) /\ g = p
      BY <1>3 DEF resolve_absolute_path, Given
    <2>2. p \in Seq(T) /\ Len(p) \in Nat
      <3>1. p \in Seq(T)
        BY ConcatProperties
      <3> QED  BY <3>1, LenProperties
    <2> HIDE DEF p
    <2>3. Meaning(z) = Meaning(p) /\ (mem /\ Shallow(p) => z = Spelled(Meaning(p)))
      BY <2>2, NormalizeIs DEF Shallow
    <2>4. Len(p) <= OutMax => ~(Len(p) > OutMax)
      BY <2>2, PathNormAssumption
    <2> HIDE DEF r, g, z
    <2> QED  BY <1>3, <2>1, <2>3, <2>4 DEF r, g
  <1> QED  BY <1>1, <1>2, <1>3

\* resolve_absolute_path() never makes two files look the same, symbolic links
\* aside, whatever the path, the limits and the memory there is.
THEOREM PathsKeepMeaning == Spec => []PathsDenote
  <1> DEFINE PathInv == job \in Jobs /\ PathsDenote
  <1>1. Init => PathInv
    BY DEF Init, PathsDenote
  <1>2. PathInv /\ [Next]_vars => PathInv'
    <2> SUFFICES ASSUME job \in Jobs, PathsDenote, [Next]_vars
                 PROVE  job' \in Jobs /\ PathsDenote'
      OBVIOUS
    <2>1. CASE Resolve
      <3> DEFINE path == job.path
                 base == job.base
                 g == Given(path, base)
      <3>1. job.kind = "path" /\ job' = job
        BY <2>1 DEF Resolve
      <3>2. /\ path \in Seq(STRING) /\ base \in Seq(STRING) /\ Absolute(base)
            /\ base = Root \/ \A i \in 2 .. Len(base) : IsName(base[i])
        BY <3>1, JobsAssumption
      <3>3. PICK ok \in BOOLEAN, mem \in BOOLEAN :
              out' = [ret |-> 0, ok |-> ok /\ mem,
                      path |-> resolve_absolute_path(path, base, ok, mem)]
        BY <2>1 DEF Resolve, Return
      <3> DEFINE r == resolve_absolute_path(path, base, ok, mem)
                 both == ok /\ mem
      <3> HIDE DEF both, r
      <3>4. out' = [ret |-> 0, ok |-> both, path |-> r]
        BY <3>3 DEF both, r
      <3>5. out'.ok = both /\ out'.path = r
        BY <3>4, Zenon
      <3>6. (out'.ok => ok /\ mem) /\ out'.path = r
        BY <3>5, Zenon DEF both
      <3> HIDE DEF path, base
      <3>7. Blank \in STRING
        <4>1. Len(base) > 1 /\ base[1] = Blank
          BY <3>2, Zenon DEF Absolute, Blank
        <4> QED  BY <3>2, <4>1
      <3>8. /\ Absolute(r) => Meaning(r) = Meaning(g)
            /\ ok /\ mem /\ Len(g) <= OutMax /\ Shallow(g) => r = Spelled(Meaning(g))
        BY <3>2, <3>7, ResolveIs DEF r
      <3>9. /\ Absolute(out'.path) => Meaning(out'.path) = Meaning(g)
            /\ out'.ok /\ Len(g) <= OutMax /\ Shallow(g) => out'.path = Spelled(Meaning(g))
        BY <3>6, <3>8
      <3>10. job' \in Jobs /\ job'.path = path /\ job'.base = base
        BY <3>1 DEF path, base
      <3> QED  BY <3>9, <3>10 DEF PathsDenote, Given, Shallow, Spelled, Blank
    <2>2. CASE ~Resolve /\ Next
      <3>1. job' = job /\ (job.kind = "path" => FALSE)
        BY <2>2 DEF Next, ReadForSha, EndSha, ReadForTlsh, ReadFails, EndTlsh, SearchQuartile,
                    Quartiles, Length, Distance
      <3> QED  BY <3>1 DEF PathsDenote
    <2>3. CASE UNCHANGED vars
      <3>1. job' = job /\ done' = done /\ out' = out
        BY <2>3 DEF vars
      <3> QED  BY <3>1 DEF PathsDenote
    <2> QED  BY <2>1, <2>2, <2>3
  <1>3. PathInv => PathsDenote
    OBVIOUS
  <1> QED  BY <1>1, <1>2, <1>3, PTL DEF Spec

-----------------------------------------------------------------------------
(* The quartiles: what a rearrangement of the buckets keeps.               *)

Cells == 0 .. EffBuckets - 1
Buckets == [Cells -> Nat]

\* f takes places to places, and moves none outside of l .. r.
Moves(f, l, r) ==
    /\ f \in Bijection(Cells, Cells)
    /\ \A i \in Cells : IF i \in l .. r THEN f[i] \in l .. r ELSE f[i] = i

\* b is c with the part l .. r rearranged.
Shuffled(b, c, l, r) == \E f : Moves(f, l, r) /\ \A i \in Cells : b[i] = c[f[i]]

\* What stands before place k is no larger than what stands from there on.
Cut(b, k) == \A i, j \in Cells : i < k /\ k <= j => b[i] <= b[j]

\* The places are numbers.
LEMMA CellsAre == EffBuckets \in Nat /\ \A i \in Cells : i \in Nat
  <1>1. EffBuckets \in Nat
    BY TlshAssumption
  <1> QED  BY <1>1 DEF Cells

\* A bijection of the places, spelled out for the provers.
LEMMA BijectionIs ==
  ASSUME NEW f
  PROVE  f \in Bijection(Cells, Cells) <=>
           /\ f \in [Cells -> Cells]
           /\ \A i, j \in Cells : f[i] = f[j] => i = j
           /\ \A j \in Cells : \E i \in Cells : f[i] = j
  <1> USE DEF Bijection, Injection, Surjection, IsInjective
  <1>1. ASSUME f \in Bijection(Cells, Cells)
        PROVE  /\ f \in [Cells -> Cells]
               /\ \A i, j \in Cells : f[i] = f[j] => i = j
               /\ \A j \in Cells : \E i \in Cells : f[i] = j
    BY <1>1, Zenon
  <1>2. ASSUME f \in [Cells -> Cells], \A i, j \in Cells : f[i] = f[j] => i = j,
               \A j \in Cells : \E i \in Cells : f[i] = j
        PROVE  f \in Bijection(Cells, Cells)
    BY <1>2, Zenon
  <1> QED  BY <1>1, <1>2, Zenon

\* Nothing is a rearrangement.
LEMMA ShuffledSelf ==
  ASSUME NEW b, NEW l, NEW r
  PROVE  Shuffled(b, b, l, r)
  <1> DEFINE f == [i \in Cells |-> i]
  <1>1. f \in [Cells -> Cells] /\ \A i \in Cells : f[i] = i
    OBVIOUS
  <1> HIDE DEF f
  <1>2. f \in Bijection(Cells, Cells)
    BY <1>1, BijectionIs
  <1> QED  BY <1>1, <1>2 DEF Shuffled, Moves

\* Two places of the part may be swapped.
LEMMA ShuffledOn ==
  ASSUME NEW b \in Buckets, NEW c, NEW l, NEW r, Shuffled(b, c, l, r),
         NEW x \in Cells, NEW y \in Cells, x \in l .. r, y \in l .. r
  PROVE  /\ Swap(b, x, y) \in Buckets
         /\ Shuffled(Swap(b, x, y), c, l, r)
         /\ \A i \in Cells : Swap(b, x, y)[i] = IF i = x THEN b[y] ELSE IF i = y THEN b[x] ELSE b[i]
  <1>1. PICK f : Moves(f, l, r) /\ \A i \in Cells : b[i] = c[f[i]]
    BY DEF Shuffled
  <1> DEFINE g == [i \in Cells |-> IF i = x THEN f[y] ELSE IF i = y THEN f[x] ELSE f[i]]
             s == Swap(b, x, y)
  <1>2. /\ s \in Buckets
        /\ \A i \in Cells : s[i] = IF i = x THEN b[y] ELSE IF i = y THEN b[x] ELSE b[i]
    BY DEF Swap, Buckets
  <1>3. /\ f \in [Cells -> Cells]
        /\ \A i, j \in Cells : f[i] = f[j] => i = j
        /\ \A j \in Cells : \E i \in Cells : f[i] = j
    BY <1>1, BijectionIs DEF Moves
  <1>4. /\ g \in [Cells -> Cells]
        /\ \A i \in Cells : g[i] = IF i = x THEN f[y] ELSE IF i = y THEN f[x] ELSE f[i]
    BY <1>3
  <1> HIDE DEF g, s
  <1>5. \A i, j \in Cells : g[i] = g[j] => i = j
    BY <1>3, <1>4
  <1>6. \A j \in Cells : \E i \in Cells : g[i] = j
    <2> SUFFICES ASSUME NEW j \in Cells PROVE \E i \in Cells : g[i] = j
      OBVIOUS
    <2>1. PICK i \in Cells : f[i] = j
      BY <1>3
    <2>2. CASE i = x
      BY <1>4, <2>1, <2>2
    <2>3. CASE i = y
      BY <1>4, <2>1, <2>3
    <2>4. CASE i # x /\ i # y
      BY <1>4, <2>1, <2>4
    <2> QED  BY <2>2, <2>3, <2>4
  <1>7. g \in Bijection(Cells, Cells)
    BY <1>4, <1>5, <1>6, BijectionIs
  <1>8. Moves(g, l, r)
    BY <1>1, <1>4, <1>7 DEF Moves
  <1>9. \A i \in Cells : s[i] = c[g[i]]
    BY <1>1, <1>2, <1>4
  <1>10. Shuffled(s, c, l, r)
    BY <1>8, <1>9 DEF Shuffled
  <1> QED  BY <1>2, <1>10 DEF s

\* A rearrangement of a rearrangement.
LEMMA ShuffledTwice ==
  ASSUME NEW b, NEW c, NEW d, NEW l, NEW r, Shuffled(b, c, l, r),
         Shuffled(c, d, 0, EffBuckets - 1)
  PROVE  Shuffled(b, d, 0, EffBuckets - 1)
  <1>1. PICK f : Moves(f, l, r) /\ \A i \in Cells : b[i] = c[f[i]]
    BY DEF Shuffled
  <1>2. PICK g : Moves(g, 0, EffBuckets - 1) /\ \A i \in Cells : c[i] = d[g[i]]
    BY DEF Shuffled
  <1> DEFINE h == [i \in Cells |-> g[f[i]]]
  <1>3. /\ f \in [Cells -> Cells] /\ g \in [Cells -> Cells]
        /\ \A i, j \in Cells : f[i] = f[j] => i = j
        /\ \A j \in Cells : \E i \in Cells : f[i] = j
        /\ \A i, j \in Cells : g[i] = g[j] => i = j
        /\ \A j \in Cells : \E i \in Cells : g[i] = j
    BY <1>1, <1>2, BijectionIs DEF Moves
  <1>4. h \in [Cells -> Cells] /\ \A i \in Cells : h[i] = g[f[i]]
    BY <1>3
  <1> HIDE DEF h
  <1>5. \A i, j \in Cells : h[i] = h[j] => i = j
    BY <1>3, <1>4
  <1>6. \A j \in Cells : \E i \in Cells : h[i] = j
    BY <1>3, <1>4
  <1>7. h \in Bijection(Cells, Cells)
    BY <1>4, <1>5, <1>6, BijectionIs
  <1>8. Moves(h, 0, EffBuckets - 1)
    <2>1. \A i \in Cells : i \in 0 .. EffBuckets - 1 /\ h[i] \in 0 .. EffBuckets - 1
      BY <1>4 DEF Cells
    <2> QED  BY <1>7, <2>1 DEF Moves
  <1>9. \A i \in Cells : b[i] = d[h[i]]
    <2> SUFFICES ASSUME NEW i \in Cells PROVE b[i] = d[h[i]]
      OBVIOUS
    <2>1. f[i] \in Cells /\ b[i] = c[f[i]] /\ h[i] = g[f[i]]
      BY <1>1, <1>3, <1>4
    <2>2. c[f[i]] = d[g[f[i]]]
      BY <1>2, <2>1
    <2> QED  BY <2>1, <2>2
  <1> QED  BY <1>8, <1>9 DEF Shuffled

\* What is moved does not cross a cut outside of the part.
LEMMA ShuffledCut ==
  ASSUME NEW b, NEW c, NEW l \in Int, NEW r \in Int, Shuffled(b, c, l, r),
         NEW k \in Int, k <= l \/ r < k, Cut(c, k)
  PROVE  Cut(b, k)
  <1>1. PICK f : Moves(f, l, r) /\ \A i \in Cells : b[i] = c[f[i]]
    BY DEF Shuffled
  <1>2. f \in [Cells -> Cells]
    BY <1>1, BijectionIs DEF Moves
  <1>3. \A i \in Cells : (i < k => f[i] < k) /\ (k <= i => k <= f[i])
    <2> SUFFICES ASSUME NEW i \in Cells PROVE (i < k => f[i] < k) /\ (k <= i => k <= f[i])
      OBVIOUS
    <2>1. i \in Nat /\ f[i] \in Nat
      BY <1>2, CellsAre
    <2>2. IF i \in l .. r THEN f[i] \in l .. r ELSE f[i] = i
      BY <1>1 DEF Moves
    <2> QED  BY <2>1, <2>2
  <1> QED  BY <1>1, <1>2, <1>3 DEF Cut

-----------------------------------------------------------------------------
(* Loops whose invariant says more with each turn.                         *)

\* h[i] is in I[i], the i-th of a family of sets, if the first is and each turn
\* leads from one set to the next.
LEMMA LoopKeeps ==
  ASSUME NEW n \in Nat, NEW I, NEW h, h[0] \in I[0],
         \A i \in 1 .. n : h[i-1] \in I[i-1] => h[i] \in I[i]
  PROVE  \A i \in 0 .. n : h[i] \in I[i]
  <1> DEFINE S == {i \in Nat : i <= n => h[i] \in I[i]}
  <1>1. 0 \in S
    OBVIOUS
  <1>2. \A i \in Nat : i \in S => i + 1 \in S
    <2> SUFFICES ASSUME NEW i \in Nat, i \in S, i + 1 <= n PROVE h[i + 1] \in I[i + 1]
      OBVIOUS
    <2>1. i + 1 \in 1 .. n /\ i + 1 - 1 = i /\ h[i] \in I[i]
      OBVIOUS
    <2> QED  BY <2>1
  <1>3. Nat \subseteq S
    BY <1>1, <1>2, Induction
  <1> QED  BY <1>3

\* Such a loop has an outcome.
Leads(turn, I, n) == \A i \in 1 .. n : \A s \in I[i-1] : turn[i][s] \in I[i]
Runs(g, V, I, v, n, turn) ==
    /\ g \in [0 .. n -> V] /\ g[0] = v
    /\ \A i \in 1 .. n : g[i-1] \in I[i-1] /\ g[i] = turn[i][g[i-1]]

\* A loop whose turns lead from one set to the next runs to its end.
LEMMA LoopHas ==
  ASSUME NEW V, NEW n \in Nat, NEW I \in [0 .. n -> SUBSET V], NEW v \in I[0], NEW turn,
         Leads(turn, I, n)
  PROVE  \E g : Runs(g, V, I, v, n, turn)
  <1> USE DEF Leads, Runs
  <1> DEFINE step == [i \in 1 .. n |-> [s \in V |-> IF s \in I[i-1] THEN turn[i][s] ELSE s]]
  <1>1. step \in [1 .. n -> [V -> V]]
    <2> SUFFICES ASSUME NEW i \in 1 .. n, NEW s \in V, s \in I[i-1] PROVE turn[i][s] \in V
      OBVIOUS
    <2>1. turn[i][s] \in I[i] /\ I[i] \in SUBSET V
      OBVIOUS
    <2> QED  BY <2>1
  <1>2. v \in V
    <2>1. I[0] \in SUBSET V
      OBVIOUS
    <2> QED  BY <2>1
  <1>3. \A i \in 1 .. n : \A s \in V : step[i][s] = IF s \in I[i-1] THEN turn[i][s] ELSE s
    OBVIOUS
  <1> HIDE DEF step
  <1>4. PICK g : IsLoop(g, V, v, n, step)
    BY <1>1, <1>2, LoopExists
  <1>5. g \in [0 .. n -> V] /\ g[0] = v /\ \A i \in 1 .. n : g[i] = step[i][g[i-1]]
    BY <1>4 DEF IsLoop
  <1>6. \A i \in 1 .. n : g[i-1] \in I[i-1] => g[i] = turn[i][g[i-1]] /\ g[i] \in I[i]
    <2> SUFFICES ASSUME NEW i \in 1 .. n, g[i-1] \in I[i-1]
                 PROVE  g[i] = turn[i][g[i-1]] /\ g[i] \in I[i]
      OBVIOUS
    <2>1. i - 1 \in 0 .. n /\ g[i-1] \in V
      BY <1>5
    <2>2. g[i] = turn[i][g[i-1]]
      BY <1>3, <1>5, <2>1
    <2> QED  BY <2>2
  <1>7. \A i \in 0 .. n : g[i] \in I[i]
    BY <1>5, <1>6, LoopKeeps
  <1>8. \A i \in 1 .. n : g[i-1] \in I[i-1] /\ g[i] = turn[i][g[i-1]]
    BY <1>6, <1>7
  <1> QED  BY <1>5, <1>8

-----------------------------------------------------------------------------
(* partition().                                                            *)

\* After k turns of its loop: what was met is split into smaller values, in front
\* of s.ret, and the others; the pivot waits at r.
Parted(s, b, l, r, val, k) ==
    /\ s.buf \in Buckets /\ s.ret \in l .. l + k
    /\ Shuffled(s.buf, b, l, r) /\ s.buf[r] = val
    /\ \A j \in l .. s.ret - 1 : s.buf[j] < val
    /\ \A j \in s.ret .. (l + k) - 1 : val <= s.buf[j]

PartTurn(s, i, val) ==
    IF s.buf[i] < val THEN [buf |-> Swap(s.buf, s.ret, i), ret |-> s.ret + 1] ELSE s

\* A turn of the loop keeps the split.
LEMMA PartTurnIs ==
  ASSUME NEW b \in Buckets, NEW l \in Cells, NEW r \in Cells, NEW val \in Nat, NEW k \in Nat,
         l + k < r, NEW s, Parted(s, b, l, r, val, k)
  PROVE  Parted(PartTurn(s, l + k, val), b, l, r, val, k + 1)
  <1> DEFINE i == l + k
             t == PartTurn(s, i, val)
             buf == s.buf
             ret == s.ret
             w == Swap(buf, ret, i)
  <1>1. /\ buf \in Buckets /\ ret \in l .. i
        /\ Shuffled(buf, b, l, r) /\ buf[r] = val
        /\ \A j \in l .. ret - 1 : buf[j] < val
        /\ \A j \in ret .. i - 1 : val <= buf[j]
    BY DEF Parted
  <1>2. /\ l \in Nat /\ r \in Nat /\ \A j \in l .. r : j \in Cells
    BY CellsAre DEF Cells
  <1>3. i \in l .. r /\ i \in Cells /\ ret \in l .. r /\ ret \in Cells /\ ret \in Nat /\ i \in Nat
        /\ i # r /\ ret # r
    BY <1>1, <1>2
  <1> HIDE DEF buf, ret
  <1>4. CASE buf[i] < val
    <2>1. /\ w \in Buckets /\ Shuffled(w, b, l, r)
          /\ \A j \in Cells : w[j] = IF j = ret THEN buf[i] ELSE IF j = i THEN buf[ret] ELSE buf[j]
      BY <1>1, <1>3, ShuffledOn
    <2>2. t.buf = w /\ t.ret = ret + 1
      BY <1>4 DEF PartTurn, buf, ret
    <2> HIDE DEF w, t
    <2>3. w[r] = val
      BY <1>1, <1>3, <2>1
    <2>4. \A j \in l .. ret : w[j] < val
      <3> SUFFICES ASSUME NEW j \in l .. ret PROVE w[j] < val
        OBVIOUS
      <3>1. j \in Cells /\ (j = ret \/ j \in l .. ret - 1) /\ (j = i => j = ret)
        BY <1>1, <1>2, <1>3
      <3> QED  BY <1>1, <1>4, <2>1, <3>1
    <2>5. \A j \in ret + 1 .. i : val <= w[j]
      <3> SUFFICES ASSUME NEW j \in ret + 1 .. i PROVE val <= w[j]
        OBVIOUS
      <3>1. j \in Cells /\ j # ret /\ (j # i => j \in ret .. i - 1) /\ (j = i => ret \in ret .. i - 1)
        BY <1>1, <1>2, <1>3
      <3> QED  BY <1>1, <2>1, <3>1
    <2>6. ret + 1 \in l .. l + (k + 1) /\ (ret + 1) - 1 = ret /\ (l + (k + 1)) - 1 = i
      BY <1>2, <1>3, <1>1
    <2> QED  BY <2>1, <2>2, <2>3, <2>4, <2>5, <2>6 DEF Parted, t
  <1>5. CASE ~(buf[i] < val)
    <2>1. t = s
      BY <1>5 DEF PartTurn, buf
    <2>2. val <= buf[i]
      <3>1. buf[i] \in Nat
        BY <1>1, <1>3 DEF Buckets
      <3> QED  BY <1>5, <3>1
    <2>3. \A j \in ret .. i : val <= buf[j]
      BY <1>1, <1>3, <2>2
    <2>4. ret \in l .. l + (k + 1) /\ (l + (k + 1)) - 1 = i
      BY <1>1, <1>2, <1>3
    <2> QED  BY <1>1, <2>1, <2>3, <2>4 DEF Parted, buf, ret
  <1> QED  BY <1>4, <1>5

\* p is what partition() may make of the part l .. r of b: the value at p.ret is
\* where it belongs.
Placed(p, b, l, r) ==
    /\ p.buf \in Buckets /\ p.ret \in l .. r
    /\ Shuffled(p.buf, b, l, r)
    /\ \A i \in l .. r : /\ i < p.ret => p.buf[i] <= p.buf[p.ret]
                         /\ p.ret < i => p.buf[p.ret] <= p.buf[i]

\* partition() puts the value at the place it returns where it belongs in the part.
LEMMA PartitionIs ==
  ASSUME NEW b \in Buckets, NEW l \in Cells, NEW r \in Cells, l <= r
  PROVE  Placed(partition(b, l, r), b, l, r)
  <1> DEFINE part == partition(b, l, r)
  <1>1. l \in Nat /\ r \in Nat /\ (\A j \in l .. r : j \in Cells) /\ l \in l .. r /\ r \in l .. r
    BY CellsAre DEF Cells
  <1>2. Shuffled(b, b, l, r) /\ \A j \in Cells : b[j] \in Nat
    BY ShuffledSelf DEF Buckets
  <1>3. CASE l = r
    <2>1. part.buf = b /\ part.ret = l
      BY <1>3 DEF partition
    <2> HIDE DEF part
    <2>2. \A i \in l .. r : ~(i < l) /\ ~(l < i)
      BY <1>1, <1>3
    <2> QED  BY <1>1, <1>2, <2>1, <2>2 DEF Placed, part
  <1>4. CASE l + 1 = r
    <2> DEFINE w == Swap(b, l, r)
    <2>1. part.buf = (IF b[l] > b[r] THEN w ELSE b) /\ part.ret = l
      BY <1>1, <1>4 DEF partition
    <2>2. /\ w \in Buckets /\ Shuffled(w, b, l, r)
          /\ \A j \in Cells : w[j] = IF j = l THEN b[r] ELSE IF j = r THEN b[l] ELSE b[j]
      BY <1>1, <1>2, ShuffledOn
    <2> HIDE DEF part, w
    <2>3. \A i \in l .. r : ~(i < l) /\ (l < i => i = r)
      BY <1>1, <1>4
    <2>4. b[l] \in Nat /\ b[r] \in Nat
      BY <1>2
    <2>5. part.buf \in Buckets /\ Shuffled(part.buf, b, l, r) /\ part.buf[l] <= part.buf[r]
      BY <1>1, <1>2, <1>4, <2>1, <2>2, <2>4
    <2> QED  BY <1>1, <2>1, <2>3, <2>5 DEF Placed, part
  <1>5. CASE l # r /\ l + 1 # r
    <2> DEFINE n == r - l
               pivot == (l + r) \div 2
               val == b[pivot]
               w == Swap(b, pivot, r)
               first == [buf |-> w, ret |-> l]
               Body(f) == [k \in 0 .. n |-> IF k = 0 THEN first ELSE PartTurn(f[k-1], l + (k - 1), val)]
               scan == CHOOSE f : f = Body(f)
               end == scan[n]
               last == Swap(end.buf, end.ret, r)
               V == [buf : Buckets, ret : Nat]
               I == [k \in 0 .. n |-> {s \in V : Parted(s, b, l, r, val, k)}]
               turn == [k \in 1 .. n |-> [s \in V |-> PartTurn(s, l + (k - 1), val)]]
    <2>1. part.buf = last /\ part.ret = end.ret
      BY <1>5 DEF partition, PartTurn
    <2>2. n \in Nat /\ pivot \in l .. r /\ pivot \in Cells /\ l < r
      BY <1>1, <1>5
    <2> HIDE DEF part, n, pivot
    <2>3. /\ w \in Buckets /\ Shuffled(w, b, l, r)
          /\ \A j \in Cells : w[j] = IF j = pivot THEN b[r] ELSE IF j = r THEN b[pivot] ELSE b[j]
      BY <1>1, <1>2, <2>2, ShuffledOn
    <2>4. val \in Nat /\ w[r] = val
      BY <1>2, <2>2, <2>3
    <2> HIDE DEF w, val
    <2>5. first \in V /\ first.buf = w /\ first.ret = l
      BY <1>1, <2>3
    <2> HIDE DEF first
    <2>6. Parted(first, b, l, r, val, 0)
      <3>1. (\A j \in l .. l - 1 : FALSE) /\ (\A j \in l .. (l + 0) - 1 : FALSE) /\ l \in l .. l + 0
        BY <1>1
      <3> QED  BY <2>3, <2>4, <2>5, <3>1 DEF Parted
    <2>7. \A k \in 0 .. n : I[k] = {s \in V : Parted(s, b, l, r, val, k)}
      OBVIOUS
    <2>8. ASSUME NEW k \in 1 .. n, NEW s \in I[k-1]
          PROVE  PartTurn(s, l + (k - 1), val) \in I[k]
      <3> DEFINE t == PartTurn(s, l + (k - 1), val)
      <3>1. k - 1 \in Nat /\ k - 1 \in 0 .. n /\ l + (k - 1) < r /\ (k - 1) + 1 = k /\ k \in 0 .. n
        BY <1>1, <2>2 DEF n
      <3>2. s \in V /\ Parted(s, b, l, r, val, k - 1)
        BY <3>1
      <3>3. Parted(t, b, l, r, val, (k - 1) + 1)
        BY <2>4, <3>1, <3>2, PartTurnIs
      <3>4. Parted(t, b, l, r, val, k)
        BY <3>1, <3>3
      <3>5. t \in V
        <4>1. t.buf \in Buckets /\ t.ret \in Nat
          BY <1>1, <3>1, <3>4 DEF Parted
        <4>2. s \in [buf : Buckets, ret : Nat]
          BY <3>2
        <4>3. t = s \/ t = [buf |-> Swap(s.buf, s.ret, l + (k - 1)), ret |-> s.ret + 1]
          BY DEF PartTurn
        <4>4. t = s \/ t = [buf |-> t.buf, ret |-> t.ret]
          BY <4>3
        <4> HIDE DEF t
        <4> QED  BY <4>1, <4>2, <4>4
      <3> HIDE DEF t
      <3>6. t \in I[k]
        BY <2>7, <3>1, <3>4, <3>5
      <3> QED  BY <3>6 DEF t
    <2>9. I \in [0 .. n -> SUBSET V] /\ first \in I[0]
      <3> HIDE DEF V
      <3>1. I \in [0 .. n -> SUBSET V]
        OBVIOUS
      <3>2. 0 \in 0 .. n
        BY <2>2
      <3> HIDE DEF I
      <3>3. I[0] = {s \in V : Parted(s, b, l, r, val, 0)}
        BY <2>7, <3>2
      <3> QED  BY <2>5, <2>6, <3>1, <3>3
    <2>10. \A k \in 1 .. n : \A s \in V : turn[k][s] = PartTurn(s, l + (k - 1), val)
      OBVIOUS
    <2>11. \A k \in 1 .. n : \A s \in I[k-1] : turn[k][s] \in I[k]
      <3> SUFFICES ASSUME NEW k \in 1 .. n, NEW s \in I[k-1] PROVE turn[k][s] \in I[k]
        OBVIOUS
      <3>1. k - 1 \in 0 .. n /\ I[k-1] \in SUBSET V
        BY <2>2, <2>9
      <3>2. s \in V
        BY <3>1
      <3>3. PartTurn(s, l + (k - 1), val) \in I[k]
        BY <2>8
      <3> HIDE DEF turn, V, I
      <3> QED  BY <2>10, <3>2, <3>3
    <2> HIDE DEF I, turn, V
    <2>12. PICK g : Runs(g, V, I, first, n, turn)
      <3>1. Leads(turn, I, n)
        BY <2>11 DEF Leads
      <3> QED  BY <2>2, <2>9, <3>1, LoopHas
    <2>13. /\ g \in [0 .. n -> V] /\ g[0] = first
           /\ \A k \in 1 .. n : g[k-1] \in I[k-1] /\ g[k] = turn[k][g[k-1]]
      BY <2>12 DEF Runs
    <2>14. g = Body(g)
      <3>1. \A k \in 0 .. n : g[k] = IF k = 0 THEN first ELSE PartTurn(g[k-1], l + (k - 1), val)
        <4> SUFFICES ASSUME NEW k \in 0 .. n, k # 0 PROVE g[k] = PartTurn(g[k-1], l + (k - 1), val)
          BY <2>13
        <4>1. k \in 1 .. n /\ k - 1 \in 0 .. n
          BY <2>2
        <4>2. g[k-1] \in V /\ g[k] = turn[k][g[k-1]]
          BY <2>13, <4>1
        <4> QED  BY <2>10, <4>1, <4>2
      <3> QED  BY <2>13, <3>1
    <2>15. scan = Body(scan)
      <3> HIDE DEF Body
      <3> QED  BY <2>14
    <2>16. \A k \in 0 .. n : scan[k] = IF k = 0 THEN first ELSE PartTurn(scan[k-1], l + (k - 1), val)
      <3> HIDE DEF scan
      <3>1. \A k \in 0 .. n : Body(scan)[k] = IF k = 0 THEN first ELSE PartTurn(scan[k-1], l + (k - 1), val)
        OBVIOUS
      <3> HIDE DEF Body
      <3> QED  BY <2>15, <3>1
    <2> HIDE DEF scan
    <2>17. \A k \in 0 .. n : scan[k] \in I[k]
      <3>1. scan[0] \in I[0]
        BY <2>2, <2>9, <2>16
      <3>2. \A k \in 1 .. n : scan[k-1] \in I[k-1] => scan[k] \in I[k]
        <4> SUFFICES ASSUME NEW k \in 1 .. n, scan[k-1] \in I[k-1] PROVE scan[k] \in I[k]
          OBVIOUS
        <4>1. scan[k] = PartTurn(scan[k-1], l + (k - 1), val)
          BY <2>2, <2>16
        <4> QED  BY <2>8, <4>1
      <3> QED  BY <2>2, <3>1, <3>2, LoopKeeps
    <2>18. Parted(end, b, l, r, val, n)
      BY <2>2, <2>7, <2>17
    <2> HIDE DEF end
    <2> DEFINE buf == end.buf
               ret == end.ret
    <2>19. /\ buf \in Buckets /\ ret \in l .. l + n
           /\ Shuffled(buf, b, l, r) /\ buf[r] = val
           /\ \A j \in l .. ret - 1 : buf[j] < val
           /\ \A j \in ret .. (l + n) - 1 : val <= buf[j]
      BY <2>18 DEF Parted
    <2>20. l + n = r
      BY <1>1 DEF n
    <2> HIDE DEF buf, ret
    <2>21. ret \in l .. r /\ ret \in Cells /\ ret \in Nat
      BY <1>1, <2>19, <2>20
    <2>22. /\ last \in Buckets /\ Shuffled(last, b, l, r)
           /\ \A j \in Cells : last[j] = IF j = ret THEN buf[r] ELSE IF j = r THEN buf[ret] ELSE buf[j]
      BY <1>1, <2>19, <2>21, ShuffledOn DEF buf, ret
    <2> HIDE DEF last
    <2>23. last[ret] = val /\ \A j \in Cells : last[j] \in Nat
      BY <2>19, <2>21, <2>22 DEF Buckets
    <2>24. ASSUME NEW i \in l .. r
           PROVE  (i < ret => last[i] <= last[ret]) /\ (ret < i => last[ret] <= last[i])
      <3>1. i \in Cells /\ i \in Nat
        BY <1>1
      <3>2. CASE i < ret
        <4>1. i \in l .. ret - 1 /\ i # ret /\ i # r
          BY <1>1, <2>21, <3>1, <3>2
        <4>2. buf[i] < val /\ last[i] = buf[i] /\ buf[i] \in Nat
          BY <2>19, <2>22, <3>1, <4>1 DEF Buckets
        <4> QED  BY <2>4, <2>23, <3>1, <3>2, <2>21, <4>2
      <3>3. CASE ret < i
        <4>1. i # ret /\ (i # r => i \in ret .. (l + n) - 1) /\ (i = r => ret \in ret .. (l + n) - 1)
          BY <1>1, <2>20, <2>21, <3>1, <3>3
        <4>2. val <= last[i]
          BY <2>19, <2>22, <3>1, <4>1
        <4> QED  BY <2>23, <2>21, <3>1, <3>3, <4>2
      <3>4. CASE i = ret
        BY <2>21, <3>4
      <3> QED  BY <2>21, <3>1, <3>2, <3>3, <3>4
    <2> QED  BY <2>1, <2>21, <2>22, <2>24 DEF Placed, part, ret
  <1> QED  BY <1>3, <1>4, <1>5

\* A pivot cuts all buckets if the part was cut off from the others.
LEMMA PlacedCuts ==
  ASSUME NEW b \in Buckets, NEW l \in Cells, NEW r \in Cells, Cut(b, l), Cut(b, r + 1),
         NEW p, Placed(p, b, l, r)
  PROVE  Cut(p.buf, p.ret) /\ Cut(p.buf, p.ret + 1)
  <1> DEFINE buf == p.buf
             ret == p.ret
  <1>1. /\ buf \in Buckets /\ ret \in l .. r
        /\ Shuffled(buf, b, l, r)
        /\ \A i \in l .. r : /\ i < ret => buf[i] <= buf[ret]
                             /\ ret < i => buf[ret] <= buf[i]
    BY DEF Placed
  <1>2. l \in Nat /\ r \in Nat /\ ret \in Nat /\ ret \in Cells /\ l <= ret /\ ret <= r
    <2>1. l \in Nat /\ r \in Nat
      BY CellsAre
    <2> HIDE DEF ret
    <2> QED  BY <1>1, <2>1, CellsAre DEF Cells
  <1> HIDE DEF buf, ret
  <1>3. Cut(buf, l) /\ Cut(buf, r + 1)
    BY <1>1, <1>2, ShuffledCut
  <1>4. \A i \in Cells : buf[i] \in Nat /\ i \in Nat
    BY <1>1, CellsAre DEF Buckets
  <1>5. ASSUME NEW i \in Cells, NEW j \in Cells, i <= ret, ret <= j
        PROVE  buf[i] <= buf[j]
    <2>1. CASE i < l
      BY <1>2, <1>3, <1>4, <1>5, <2>1 DEF Cut
    <2>2. CASE r < j /\ l <= i
      <3>1. i < r + 1 /\ r + 1 <= j
        BY <1>2, <1>4, <1>5, <2>2
      <3> QED  BY <1>3, <3>1 DEF Cut
    <2>3. CASE l <= i /\ j <= r
      <3>1. i \in l .. r /\ j \in l .. r
        BY <1>2, <1>4, <1>5, <2>3
      <3>2. buf[i] <= buf[ret] /\ buf[ret] <= buf[j]
        <4>1. i = ret \/ i < ret
          BY <1>2, <1>4, <1>5
        <4>2. j = ret \/ ret < j
          BY <1>2, <1>4, <1>5
        <4> QED  BY <1>1, <1>2, <1>4, <3>1, <4>1, <4>2
      <3> QED  BY <1>2, <1>4, <3>2
    <2> QED  BY <1>2, <1>4, <2>1, <2>2, <2>3
  <1>6. Cut(buf, ret)
    <2> SUFFICES ASSUME NEW i \in Cells, NEW j \in Cells, i < ret, ret <= j PROVE buf[i] <= buf[j]
      BY DEF Cut
    <2>1. i <= ret
      BY <1>2, <1>4
    <2> QED  BY <1>5, <2>1
  <1>7. Cut(buf, ret + 1)
    <2> SUFFICES ASSUME NEW i \in Cells, NEW j \in Cells, i < ret + 1, ret + 1 <= j
                 PROVE  buf[i] <= buf[j]
      BY DEF Cut
    <2>1. i <= ret /\ ret <= j
      BY <1>2, <1>4
    <2> QED  BY <1>5, <2>1
  <1> QED  BY <1>6, <1>7 DEF buf, ret

\* A place with a cut on either side holds what stands there in sorted order.
LEMMA AtPlace ==
  ASSUME NEW b \in Buckets, NEW c \in Buckets, Shuffled(b, c, 0, EffBuckets - 1),
         NEW k \in Cells, Cut(b, k), Cut(b, k + 1)
  PROVE  IsAtPlace(c, b[k], k)
  <1>1. PICK f : Moves(f, 0, EffBuckets - 1) /\ \A i \in Cells : b[i] = c[f[i]]
    BY DEF Shuffled
  <1>2. /\ f \in [Cells -> Cells]
        /\ \A i, j \in Cells : f[i] = f[j] => i = j
        /\ \A j \in Cells : \E i \in Cells : f[i] = j
    BY <1>1, BijectionIs DEF Moves
  <1>3. EffBuckets \in Nat /\ k \in Nat /\ \A i \in Cells : i \in Nat /\ b[i] \in Nat /\ c[i] \in Nat
    BY CellsAre DEF Buckets
  <1>4. /\ \A i \in 0 .. k - 1 : i \in Cells
        /\ \A i \in 0 .. k : i \in Cells
        /\ DOMAIN c = Cells
    BY <1>3 DEF Cells, Buckets
  <1> DEFINE v == b[k]
             Less == {i \in Cells : c[i] < v}
             Most == {i \in Cells : c[i] <= v}
             Front == {f[i] : i \in 0 .. k - 1}
             Upto == {f[i] : i \in 0 .. k}
  <1>5. IsFiniteSet(Cells)
    BY <1>3, FS_Interval DEF Cells
  <1>6. IsFiniteSet(0 .. k - 1) /\ Cardinality(0 .. k - 1) = k
    <2>1. /\ IsFiniteSet(0 .. k - 1)
          /\ Cardinality(0 .. k - 1) = IF 0 > k - 1 THEN 0 ELSE (k - 1) - 0 + 1
      <3>1. 0 \in Int /\ k - 1 \in Int
        BY <1>3
      <3> QED  BY <3>1, FS_Interval, SMTT(30)
    <2>2. (IF 0 > k - 1 THEN 0 ELSE (k - 1) - 0 + 1) = k
      BY <1>3
    <2> QED  BY <2>1, <2>2
  <1>7. IsFiniteSet(0 .. k) /\ Cardinality(0 .. k) = k + 1
    <2>1. /\ IsFiniteSet(0 .. k)
          /\ Cardinality(0 .. k) = IF 0 > k THEN 0 ELSE k - 0 + 1
      BY <1>3, FS_Interval
    <2>2. (IF 0 > k THEN 0 ELSE k - 0 + 1) = k + 1
      BY <1>3
    <2> QED  BY <2>1, <2>2
  <1>8. Cardinality(Less) <= k /\ Cardinality(Less) \in Nat
    <2>1. Less \in SUBSET Front
      <3> SUFFICES ASSUME NEW x \in Less PROVE x \in Front
        OBVIOUS
      <3>1. PICK i \in Cells : f[i] = x
        BY <1>2
      <3>2. b[i] < v
        BY <1>1, <3>1
      <3>3. ~(k < i) /\ i # k
        <4>1. ASSUME k < i PROVE FALSE
          <5>1. k < k + 1 /\ k + 1 <= i
            BY <1>3, <4>1
          <5>2. b[k] <= b[i]
            BY <5>1 DEF Cut
          <5> QED  BY <1>3, <3>2, <5>2
        <4>2. i # k
          BY <1>3, <3>2
        <4> QED  BY <4>1, <4>2
      <3>4. i \in 0 .. k - 1
        BY <1>3, <3>3
      <3> QED  BY <3>1, <3>4
    <2>2. IsFiniteSet(Front) /\ Cardinality(Front) <= k
      <3> DEFINE e == [i \in 0 .. k - 1 |-> f[i]]
      <3>1. e \in Surjection(0 .. k - 1, Front)
        BY DEF Surjection
      <3> HIDE DEF e, Front
      <3> QED  BY <1>6, <3>1, FS_Surjection
    <2> HIDE DEF Front, Less
    <2>3. IsFiniteSet(Less) /\ Cardinality(Less) <= Cardinality(Front)
      BY <2>1, <2>2, FS_Subset
    <2>4. Cardinality(Less) \in Nat /\ Cardinality(Front) \in Nat
      BY <2>2, <2>3, FS_CardinalityType
    <2> QED  BY <1>3, <2>2, <2>3, <2>4
  <1>9. Cardinality(Most) > k
    <2>1. Upto \in SUBSET Most
      <3> SUFFICES ASSUME NEW i \in 0 .. k PROVE f[i] \in Most
        OBVIOUS
      <3>1. i \in Cells /\ f[i] \in Cells /\ c[f[i]] = b[i]
        BY <1>1, <1>2, <1>4
      <3>2. b[i] <= b[k]
        <4>1. CASE i = k
          BY <1>3, <4>1
        <4>2. CASE i # k
          <5>1. i < k /\ k <= k
            BY <1>3, <4>2
          <5> QED  BY <3>1, <5>1 DEF Cut
        <4> QED  BY <4>1, <4>2
      <3> QED  BY <3>1, <3>2
    <2>2. IsFiniteSet(Most)
      <3>1. Most \in SUBSET Cells
        OBVIOUS
      <3> HIDE DEF Most
      <3> QED  BY <1>5, <3>1, FS_Subset
    <2>3. Cardinality(Upto) = k + 1
      <3> DEFINE e == [i \in 0 .. k |-> f[i]]
      <3>1. /\ e \in [0 .. k -> Upto]
            /\ \A i, j \in 0 .. k : e[i] = e[j] => i = j
            /\ \A x \in Upto : \E i \in 0 .. k : e[i] = x
        BY <1>2, <1>4
      <3>2. e \in Bijection(0 .. k, Upto)
        <4> HIDE DEF e, Upto
        <4> QED  BY <3>1, Zenon DEF Bijection, Injection, Surjection, IsInjective
      <3> HIDE DEF e, Upto
      <3>3. ExistsBijection(0 .. k, Upto)
        BY <3>2, Zenon DEF ExistsBijection
      <3> QED  BY <1>7, <3>3, FS_Bijection
    <2> HIDE DEF Upto, Most
    <2>4. Cardinality(Upto) <= Cardinality(Most) /\ Cardinality(Most) \in Nat
      BY <2>1, <2>2, FS_Subset, FS_CardinalityType
    <2> QED  BY <1>3, <2>3, <2>4
  <1> QED  BY <1>4, <1>8, <1>9 DEF IsAtPlace

\* Of two places the later holds no smaller value.
LEMMA PlacesAscend ==
  ASSUME NEW c \in Buckets, NEW u \in Nat, NEW v \in Nat, NEW j \in Nat, NEW k \in Nat, j <= k,
         IsAtPlace(c, u, j), IsAtPlace(c, v, k)
  PROVE  u <= v
  <1> SUFFICES ASSUME v < u PROVE FALSE
    OBVIOUS
  <1> DEFINE Less == {i \in DOMAIN c : c[i] < u}
             Most == {i \in DOMAIN c : c[i] <= v}
  <1>1. Cardinality(Less) <= j /\ Cardinality(Most) > k
    BY DEF IsAtPlace
  <1>2. Most \in SUBSET Less /\ Less \in SUBSET Cells
    BY DEF Buckets
  <1>3. IsFiniteSet(Cells)
    BY CellsAre, FS_Interval DEF Cells
  <1> HIDE DEF Less, Most
  <1>4. IsFiniteSet(Less) /\ Cardinality(Most) <= Cardinality(Less) /\ IsFiniteSet(Most)
    BY <1>2, <1>3, FS_Subset
  <1>5. Cardinality(Less) \in Nat /\ Cardinality(Most) \in Nat
    BY <1>4, FS_CardinalityType
  <1> QED  BY <1>1, <1>4, <1>5

-----------------------------------------------------------------------------
(* The searches of find_quartile().                                        *)

Place(n) == <<P1, P2, P3>>[n]

\* The value at place k is where it belongs.
Settled(b, k) == Cut(b, k) /\ Cut(b, k + 1)

Seeks == 0 .. 3
Quartets == [1 .. 3 -> Nat]
Traces == Seq(Cells)
Searches == [buf : Buckets, l : Cells, r : Cells, seek : Seeks, short_cut_left : Traces,
             short_cut_right : Traces, q : Quartets]

\* The part that is searched for quartile n has its place and is cut off.
Within(c, n) ==
    c.l <= Place(n) /\ Place(n) <= c.r /\ Cut(c.buf, c.l) /\ Cut(c.buf, c.r + 1)

\* The places met are settled, on their side of k.
MetLeft(c, k) ==
    \A i \in 1 .. Len(c.short_cut_left) :
      c.short_cut_left[i] < k /\ Settled(c.buf, c.short_cut_left[i])
MetRight(c, k) ==
    \A i \in 1 .. Len(c.short_cut_right) :
      k < c.short_cut_right[i] /\ Settled(c.buf, c.short_cut_right[i])

Known(c, b, n) == IsAtPlace(b, c.q[n], Place(n))

\* The state c of the searches in the buckets b.
Sought(c, b) ==
    /\ c \in Searches /\ Shuffled(c.buf, b, 0, EffBuckets - 1)
    /\ c.seek # 0 => Within(c, c.seek)
    /\ c.seek = 2 => MetLeft(c, c.l) /\ MetRight(c, c.r)
    /\ c.seek = 1 => c.r < P2 /\ Settled(c.buf, P2) /\ MetRight(c, P2)
    /\ c.seek # 2 => Known(c, b, 2)
    /\ c.seek \in {0, 3} => Known(c, b, 1)
    /\ c.seek = 0 => Known(c, b, 3)

\* The quartiles stand apart.
LEMMA PlacesAre ==
  /\ P1 \in Cells /\ P2 \in Cells /\ P3 \in Cells
  /\ P1 + 1 < P2 /\ P2 + 1 < P3 /\ P3 + 1 < EffBuckets
  /\ EffBuckets \in Nat /\ P1 \in Nat /\ P2 \in Nat /\ P3 \in Nat
  /\ P2 - 1 \in Cells /\ P2 + 1 \in Cells /\ EffBuckets - 1 \in Cells /\ 0 \in Cells
  <1>1. PICK m \in 2 .. EffBuckets : EffBuckets = 4 * m
    BY TlshAssumption
  <1>2. EffBuckets \in Nat
    BY CellsAre
  <1>3. P1 = m - 1 /\ P2 = 2 * m - 1 /\ P3 = 3 * m - 1
    BY <1>1, <1>2 DEF P1, P2, P3
  <1> QED  BY <1>1, <1>2, <1>3 DEF Cells

\* The place of each quartile.
LEMMA PlaceIs == Place(1) = P1 /\ Place(2) = P2 /\ Place(3) = P3
  BY DEF Place

\* First() picks the least.
LEMMA FirstIs ==
  ASSUME NEW I \in SUBSET Nat, I # {}
  PROVE  First(I) \in I /\ \A k \in I : First(I) <= k
  <1>1. PICK i \in I : \A k \in I : ~(k < i)
    BY LeastExists
  <1>2. \A k \in I : i <= k
    BY <1>1
  <1> QED  BY <1>2 DEF First

\* The ends of the buckets are cuts.
LEMMA EndsCut ==
  ASSUME NEW b
  PROVE  Cut(b, 0) /\ Cut(b, EffBuckets)
  <1>1. EffBuckets \in Nat /\ \A i \in Cells : i \in Nat /\ ~(i < 0) /\ ~(EffBuckets <= i)
    BY CellsAre DEF Cells
  <1> QED  BY <1>1 DEF Cut

\* A settled place gives its quartile.
LEMMA SettledIsKnown ==
  ASSUME NEW c \in Searches, NEW b \in Buckets, Shuffled(c.buf, b, 0, EffBuckets - 1),
         NEW k \in Cells, Settled(c.buf, k)
  PROVE  IsAtPlace(b, c.buf[k], k) /\ c.buf[k] \in Nat
  <1>1. c.buf \in Buckets
    BY DEF Searches
  <1> QED  BY <1>1, AtPlace DEF Settled, Buckets

\* The search for the third quartile starts with a part that holds it.
LEMMA SeekThirdIs ==
  ASSUME NEW c \in Searches, NEW b \in Buckets, Shuffled(c.buf, b, 0, EffBuckets - 1),
         Settled(c.buf, P2), MetRight(c, P2), Known(c, b, 1), Known(c, b, 2)
  PROVE  Sought(SeekThird(c), b)
  <1> DEFINE right == c.short_cut_right
             bounds == Append(right, P2 + 1)
             I == {k \in DOMAIN bounds : bounds[k] <= P3}
             i == First(I)
             at == [c EXCEPT !.seek = 0, !.q[3] = c.buf[P3]]
             high == IF i = 1 THEN EffBuckets - 1 ELSE bounds[i - 1]
             on == [c EXCEPT !.seek = 3, !.l = bounds[i], !.r = high]
             n == Len(right)
  <1>1. right \in Seq(Cells) /\ n \in Nat
    BY DEF Searches, Traces
  <1>2. DOMAIN bounds = 1 .. n + 1 /\ bounds[n + 1] = P2 + 1 /\ \A k \in 1 .. n : bounds[k] = right[k]
    <2> HIDE DEF right
    <2> QED  BY <1>1, PlacesAre
  <1>3. \A k \in 1 .. n : right[k] \in Cells /\ right[k] \in Nat /\ P2 < right[k] /\ Settled(c.buf, right[k])
    <2>1. \A k \in 1 .. n : right[k] \in Cells
      <3> HIDE DEF right
      <3> QED  BY <1>1
    <2> QED  BY <2>1, CellsAre DEF MetRight
  <1>4. SeekThird(c) = IF bounds[i] = P3 THEN at ELSE on
    BY DEF SeekThird
  <1> HIDE DEF bounds
  <1>5. i \in 1 .. n + 1 /\ bounds[i] <= P3 /\ \A k \in 1 .. n + 1 : k < i => ~(bounds[k] <= P3)
    <2>1. n + 1 \in I
      BY <1>1, <1>2, PlacesAre
    <2>2. I \in SUBSET Nat
      BY <1>1, <1>2
    <2>3. i \in I /\ \A k \in I : i <= k
      <3> HIDE DEF I
      <3> QED  BY <2>1, <2>2, FirstIs
    <2> HIDE DEF i
    <2>4. i \in Nat
      BY <2>2, <2>3
    <2> QED  BY <1>1, <1>2, <2>3, <2>4
  <1> HIDE DEF i, I, n, right
  <1>6. CASE bounds[i] = P3
    <2>1. i \in 1 .. n /\ right[i] = P3
      BY <1>1, <1>2, <1>5, <1>6, PlacesAre
    <2>2. Settled(c.buf, P3)
      BY <1>3, <2>1
    <2>3. IsAtPlace(b, c.buf[P3], P3) /\ c.buf[P3] \in Nat
      BY <2>2, SettledIsKnown, PlacesAre
    <2>4. /\ at \in Searches /\ at.buf = c.buf /\ at.seek = 0
          /\ at.q[3] = c.buf[P3] /\ at.q[1] = c.q[1] /\ at.q[2] = c.q[2]
      <3>1. c.q \in [1 .. 3 -> Nat]
        BY DEF Searches, Quartets
      <3>2. [c.q EXCEPT ![3] = c.buf[P3]] \in Quartets /\ 0 \in Seeks
        BY <2>3, <3>1 DEF Quartets, Seeks
      <3>3. at.buf = c.buf /\ at.seek = 0 /\ at.q = [c.q EXCEPT ![3] = c.buf[P3]]
        BY DEF Searches
      <3>4. at \in Searches
        BY <3>2 DEF Searches
      <3>5. at.q[3] = c.buf[P3] /\ at.q[1] = c.q[1] /\ at.q[2] = c.q[2]
        BY <3>1, <3>3
      <3> QED  BY <3>3, <3>4, <3>5
    <2> HIDE DEF at
    <2> QED  BY <1>4, <1>6, <2>3, <2>4, PlaceIs DEF Sought, Known
  <1>7. CASE bounds[i] # P3
    <2>1. /\ bounds[i] \in Cells /\ bounds[i] <= P3 /\ Cut(c.buf, bounds[i])
      <3>1. CASE i = n + 1
        BY <1>2, <1>5, <3>1, PlacesAre DEF Settled
      <3>2. CASE i # n + 1
        <4>1. i \in 1 .. n /\ bounds[i] = right[i]
          BY <1>1, <1>2, <1>5, <3>2
        <4> QED  BY <1>3, <1>5, <4>1 DEF Settled
      <3> QED  BY <3>1, <3>2
    <2>2. high \in Cells /\ P3 <= high /\ Cut(c.buf, high + 1)
      <3>1. CASE i = 1
        <4>1. high = EffBuckets - 1 /\ high + 1 = EffBuckets
          BY <3>1, PlacesAre
        <4> QED  BY <4>1, EndsCut, PlacesAre
      <3>2. CASE i # 1
        <4>1. i - 1 \in 1 .. n /\ i - 1 \in 1 .. n + 1 /\ i - 1 < i
          BY <1>1, <1>5, <3>2
        <4>2. high = right[i - 1] /\ ~(right[i - 1] <= P3)
          BY <1>2, <1>5, <3>2, <4>1
        <4> HIDE DEF high
        <4>3. P3 <= right[i - 1]
          BY <1>3, <4>1, <4>2, PlacesAre
        <4> QED  BY <1>3, <4>1, <4>2, <4>3 DEF Settled
      <3> QED  BY <3>1, <3>2
    <2> HIDE DEF high
    <2>3. /\ on \in Searches /\ on.buf = c.buf /\ on.seek = 3 /\ on.l = bounds[i] /\ on.r = high
          /\ on.q = c.q
      <3>1. 3 \in Seeks
        BY DEF Seeks
      <3>2. on \in Searches
        BY <2>1, <2>2, <3>1 DEF Searches
      <3>3. on.buf = c.buf /\ on.seek = 3 /\ on.l = bounds[i] /\ on.r = high /\ on.q = c.q
        BY DEF Searches
      <3> QED  BY <3>2, <3>3
    <2> HIDE DEF on
    <2>4. Within(on, 3)
      BY <2>1, <2>2, <2>3, PlaceIs DEF Within
    <2> QED  BY <1>4, <1>7, <2>3, <2>4 DEF Sought, Known
  <1> QED  BY <1>6, <1>7

\* The search for the first quartile starts with a part that holds it, in front of
\* the second.
LEMMA SeekFirstIs ==
  ASSUME NEW c \in Searches, NEW b \in Buckets, Shuffled(c.buf, b, 0, EffBuckets - 1),
         Settled(c.buf, P2), MetLeft(c, P2), MetRight(c, P2), Known(c, b, 2)
  PROVE  Sought(SeekFirst(c), b)
  <1> DEFINE left == c.short_cut_left
             bounds == Append(left, P2 - 1)
             I == {k \in DOMAIN bounds : bounds[k] >= P1}
             i == First(I)
             at == [c EXCEPT !.q[1] = c.buf[P1]]
             low == IF i = 1 THEN 0 ELSE bounds[i - 1]
             on == [c EXCEPT !.seek = 1, !.l = low, !.r = bounds[i]]
             n == Len(left)
  <1>1. left \in Seq(Cells) /\ n \in Nat
    BY DEF Searches, Traces
  <1>2. DOMAIN bounds = 1 .. n + 1 /\ bounds[n + 1] = P2 - 1 /\ \A k \in 1 .. n : bounds[k] = left[k]
    <2> HIDE DEF left
    <2> QED  BY <1>1, PlacesAre
  <1>3. \A k \in 1 .. n : left[k] \in Cells /\ left[k] \in Nat /\ left[k] < P2 /\ Settled(c.buf, left[k])
    <2>1. \A k \in 1 .. n : left[k] \in Cells
      <3> HIDE DEF left
      <3> QED  BY <1>1
    <2> QED  BY <2>1, CellsAre DEF MetLeft
  <1>4. SeekFirst(c) = IF bounds[i] = P1 THEN SeekThird(at) ELSE on
    BY DEF SeekFirst
  <1> HIDE DEF bounds
  <1>5. i \in 1 .. n + 1 /\ bounds[i] >= P1 /\ \A k \in 1 .. n + 1 : k < i => ~(bounds[k] >= P1)
    <2>1. n + 1 \in I
      BY <1>1, <1>2, PlacesAre
    <2>2. I \in SUBSET Nat
      BY <1>1, <1>2
    <2>3. i \in I /\ \A k \in I : i <= k
      <3> HIDE DEF I
      <3> QED  BY <2>1, <2>2, FirstIs
    <2> HIDE DEF i
    <2>4. i \in Nat
      BY <2>2, <2>3
    <2> QED  BY <1>1, <1>2, <2>3, <2>4
  <1> HIDE DEF i, I, n, left
  <1>6. CASE bounds[i] = P1
    <2>1. i \in 1 .. n /\ left[i] = P1
      BY <1>1, <1>2, <1>5, <1>6, PlacesAre
    <2>2. Settled(c.buf, P1)
      BY <1>3, <2>1
    <2>3. IsAtPlace(b, c.buf[P1], P1) /\ c.buf[P1] \in Nat
      BY <2>2, SettledIsKnown, PlacesAre
    <2>4. c.q \in [1 .. 3 -> Nat]
      BY DEF Searches, Quartets
    <2>5. [c.q EXCEPT ![1] = c.buf[P1]] \in Quartets
      BY <2>3, <2>4 DEF Quartets
    <2>6. /\ at.buf = c.buf /\ at.short_cut_right = c.short_cut_right
          /\ at.q = [c.q EXCEPT ![1] = c.buf[P1]]
      BY DEF Searches
    <2>7. at \in Searches
      BY <2>5 DEF Searches
    <2>8. at.q[1] = c.buf[P1] /\ at.q[2] = c.q[2]
      BY <2>4, <2>6
    <2> HIDE DEF at
    <2>9. Known(at, b, 1) /\ Known(at, b, 2) /\ MetRight(at, P2)
      BY <2>3, <2>6, <2>8, PlaceIs DEF Known, MetRight
    <2>10. Sought(SeekThird(at), b)
      BY <2>6, <2>7, <2>9, SeekThirdIs
    <2> QED  BY <1>4, <1>6, <2>10
  <1>7. CASE bounds[i] # P1
    <2>1. bounds[i] \in Cells /\ P1 <= bounds[i] /\ bounds[i] < P2 /\ Cut(c.buf, bounds[i] + 1)
      <3>1. CASE i = n + 1
        <4>1. bounds[i] = P2 - 1 /\ (P2 - 1) + 1 = P2
          BY <1>2, <3>1, PlacesAre
        <4> QED  BY <4>1, PlacesAre DEF Settled
      <3>2. CASE i # n + 1
        <4>1. i \in 1 .. n /\ bounds[i] = left[i]
          BY <1>1, <1>2, <1>5, <3>2
        <4> QED  BY <1>3, <1>5, <4>1, PlacesAre DEF Settled
      <3> QED  BY <3>1, <3>2
    <2>2. low \in Cells /\ low <= P1 /\ Cut(c.buf, low)
      <3>1. CASE i = 1
        <4>1. low = 0
          BY <3>1
        <4> QED  BY <4>1, EndsCut, PlacesAre
      <3>2. CASE i # 1
        <4>1. i - 1 \in 1 .. n /\ i - 1 \in 1 .. n + 1 /\ i - 1 < i
          BY <1>1, <1>5, <3>2
        <4>2. low = left[i - 1] /\ ~(left[i - 1] >= P1)
          BY <1>2, <1>5, <3>2, <4>1
        <4> HIDE DEF low
        <4>3. left[i - 1] <= P1
          BY <1>3, <4>1, <4>2, PlacesAre
        <4> QED  BY <1>3, <4>1, <4>2, <4>3 DEF Settled
      <3> QED  BY <3>1, <3>2
    <2> HIDE DEF low
    <2>3. 1 \in Seeks
      BY DEF Seeks
    <2>4. on \in Searches
      BY <2>1, <2>2, <2>3 DEF Searches
    <2>5. /\ on.buf = c.buf /\ on.seek = 1 /\ on.l = low /\ on.r = bounds[i]
          /\ on.q = c.q /\ on.short_cut_right = c.short_cut_right
      BY DEF Searches
    <2> HIDE DEF on
    <2>6. Within(on, 1)
      BY <2>1, <2>2, <2>5, PlaceIs DEF Within
    <2>7. Known(on, b, 2) /\ MetRight(on, P2)
      BY <2>5 DEF Known, MetRight
    <2> QED  BY <1>4, <1>7, <2>1, <2>4, <2>5, <2>6, <2>7 DEF Sought
  <1> QED  BY <1>6, <1>7

\* Before the first turn nothing is known.
LEMMA SearchStarts ==
  ASSUME NEW b \in Buckets
  PROVE  Sought(find_quartile(b), b)
  <1> DEFINE c == find_quartile(b)
  <1>1. /\ c.buf = b /\ c.l = 0 /\ c.r = EffBuckets - 1 /\ c.seek = 2
        /\ c.short_cut_left = << >> /\ c.short_cut_right = << >>
    BY DEF find_quartile
  <1>2. c \in Searches
    <2>1. 2 \in Seeks /\ << >> \in Traces /\ [n \in 1 .. 3 |-> 0] \in Quartets
      BY DEF Seeks, Traces, Quartets
    <2> QED  BY <2>1, PlacesAre DEF find_quartile, Searches
  <1> HIDE DEF c
  <1>3. Shuffled(b, b, 0, EffBuckets - 1)
    BY ShuffledSelf
  <1>4. (EffBuckets - 1) + 1 = EffBuckets /\ 0 <= P2 /\ P2 <= EffBuckets - 1
    BY PlacesAre
  <1>5. Within(c, 2)
    BY <1>1, <1>4, EndsCut, PlaceIs DEF Within
  <1>6. Len(<< >>) = 0
    OBVIOUS
  <1>7. MetLeft(c, c.l) /\ MetRight(c, c.r)
    BY <1>1, <1>6 DEF MetLeft, MetRight
  <1> QED  BY <1>1, <1>2, <1>3, <1>5, <1>7 DEF Sought, c

\* A turn keeps what is known, and finds a quartile only at its place.
LEMMA NarrowIs ==
  ASSUME NEW b \in Buckets, NEW c, Sought(c, b), c.seek # 0
  PROVE  Sought(Narrow(c), b)
  <1> DEFINE p == <<P1, P2, P3>>[c.seek]
             part == partition(c.buf, c.l, c.r)
             ret == part.ret
             buf == part.buf
             metRight == IF c.seek = 2 THEN Append(c.short_cut_right, ret) ELSE c.short_cut_right
             metLeft == IF c.seek = 2 THEN Append(c.short_cut_left, ret) ELSE c.short_cut_left
             down == [c EXCEPT !.buf = buf, !.r = ret - 1, !.short_cut_right = metRight]
             up == [c EXCEPT !.buf = buf, !.l = ret + 1, !.short_cut_left = metLeft]
             found == [c EXCEPT !.buf = buf, !.q[c.seek] = buf[p]]
             last == [found EXCEPT !.seek = 0]
  <1>1. Narrow(c) = IF ret > p THEN down
                    ELSE IF ret < p THEN up
                    ELSE IF c.seek = 2 THEN SeekFirst(found)
                    ELSE IF c.seek = 1 THEN SeekThird(found) ELSE last
    BY DEF Narrow
  <1>2. /\ c \in Searches /\ Shuffled(c.buf, b, 0, EffBuckets - 1) /\ Within(c, c.seek)
        /\ c.seek = 2 => MetLeft(c, c.l) /\ MetRight(c, c.r)
        /\ c.seek = 1 => c.r < P2 /\ Settled(c.buf, P2) /\ MetRight(c, P2)
        /\ c.seek # 2 => Known(c, b, 2)
        /\ c.seek = 3 => Known(c, b, 1)
    BY DEF Sought
  <1>3. c.seek \in 1 .. 3 /\ c.seek \in Seeks
    BY <1>2 DEF Searches, Seeks
  <1>4. p = Place(c.seek) /\ p \in Cells /\ p \in Nat
    <2>1. p = Place(c.seek)
      BY DEF Place
    <2> HIDE DEF p
    <2> QED  BY <1>3, <2>1, PlaceIs, PlacesAre
  <1>5. c.buf \in Buckets /\ c.l \in Cells /\ c.r \in Cells /\ c.q \in [1 .. 3 -> Nat]
    BY <1>2 DEF Searches, Quartets
  <1>6. c.l \in Nat /\ c.r \in Nat /\ c.l <= p /\ p <= c.r /\ Cut(c.buf, c.l) /\ Cut(c.buf, c.r + 1)
    BY <1>2, <1>4, <1>5, CellsAre DEF Within
  <1> HIDE DEF p
  <1>7. Placed(part, c.buf, c.l, c.r)
    <2>1. c.l <= c.r
      BY <1>4, <1>6
    <2> QED  BY <1>5, <2>1, PartitionIs
  <1> HIDE DEF part
  <1>8. buf \in Buckets /\ ret \in c.l .. c.r /\ Shuffled(buf, c.buf, c.l, c.r) /\ Settled(buf, ret)
    BY <1>5, <1>6, <1>7, PlacedCuts DEF Placed, Settled
  <1> HIDE DEF buf, ret
  <1>9. ret \in Nat /\ ret \in Cells /\ c.l <= ret /\ ret <= c.r
    <2>1. ret \in Nat /\ c.l <= ret /\ ret <= c.r
      BY <1>6, <1>8
    <2> QED  BY <1>5, <1>6, <2>1, CellsAre DEF Cells
  <1>10. Shuffled(buf, b, 0, EffBuckets - 1)
    BY <1>2, <1>8, ShuffledTwice
  <1>11. ASSUME NEW k \in Nat, k <= c.l \/ c.r < k, Cut(c.buf, k)
         PROVE  Cut(buf, k)
    BY <1>6, <1>8, <1>11, ShuffledCut
  <1>12. Cut(buf, c.l) /\ Cut(buf, c.r + 1)
    BY <1>6, <1>11
  <1>13. ASSUME NEW k \in Nat, k < c.l \/ c.r < k, Settled(c.buf, k)
         PROVE  Settled(buf, k)
    <2>1. k + 1 \in Nat /\ (k <= c.l \/ c.r < k) /\ (k + 1 <= c.l \/ c.r < k + 1)
      BY <1>6, <1>13
    <2> QED  BY <1>11, <1>13, <2>1 DEF Settled
  <1> DEFINE left == c.short_cut_left
             right == c.short_cut_right
  <1>14. left \in Seq(Cells) /\ right \in Seq(Cells)
    BY <1>2 DEF Searches, Traces
  <1>15. /\ \A i \in 1 .. Len(left) : left[i] \in Cells /\ left[i] \in Nat
         /\ \A i \in 1 .. Len(right) : right[i] \in Cells /\ right[i] \in Nat
    <2> HIDE DEF left, right
    <2> QED  BY <1>14, CellsAre
  <1>16. /\ c.seek = 2 => \A i \in 1 .. Len(left) : left[i] < c.l /\ Settled(buf, left[i])
         /\ c.seek = 2 => \A i \in 1 .. Len(right) : c.r < right[i] /\ Settled(buf, right[i])
         /\ c.seek = 1 => \A i \in 1 .. Len(right) : P2 < right[i] /\ Settled(buf, right[i])
    <2>1. ASSUME c.seek = 2, NEW i \in 1 .. Len(left) PROVE left[i] < c.l /\ Settled(buf, left[i])
      BY <1>2, <1>13, <1>15, <2>1 DEF MetLeft
    <2>2. ASSUME c.seek = 2, NEW i \in 1 .. Len(right)
          PROVE  c.r < right[i] /\ Settled(buf, right[i])
      BY <1>2, <1>13, <1>15, <2>2 DEF MetRight
    <2>3. ASSUME c.seek = 1, NEW i \in 1 .. Len(right)
          PROVE  P2 < right[i] /\ Settled(buf, right[i])
      <3>1. P2 < right[i] /\ Settled(c.buf, right[i]) /\ c.r < P2
        BY <1>2, <2>3 DEF MetRight
      <3>2. c.r < right[i]
        BY <1>6, <1>15, <3>1, PlacesAre
      <3> QED  BY <1>13, <1>15, <3>1, <3>2
    <2> QED  BY <2>1, <2>2, <2>3
  <1>17. c.seek = 1 => c.r < P2 /\ Settled(buf, P2)
    BY <1>2, <1>13, PlacesAre
  <1>18. CASE ret > p
    <2>1. metRight = IF c.seek = 2 THEN Append(right, ret) ELSE right
      OBVIOUS
    <2> HIDE DEF left, right, metRight
    <2>2. metRight \in Traces
      BY <1>9, <1>14, <2>1 DEF Traces
    <2>3. ret - 1 \in Cells /\ p <= ret - 1 /\ ret - 1 < c.r /\ (ret - 1) + 1 = ret /\ ret - 1 \in Nat
      BY <1>4, <1>6, <1>9, <1>18, CellsAre DEF Cells
    <2>4. down \in Searches
      BY <1>2, <1>8, <2>2, <2>3 DEF Searches
    <2>5. /\ down.buf = buf /\ down.l = c.l /\ down.r = ret - 1 /\ down.seek = c.seek
          /\ down.short_cut_left = left /\ down.short_cut_right = metRight /\ down.q = c.q
      BY <1>2 DEF Searches, left
    <2> HIDE DEF down
    <2>6. Within(down, c.seek)
      BY <1>4, <1>6, <1>8, <1>12, <2>3, <2>5 DEF Within, Settled
    <2>7. c.seek = 2 => MetLeft(down, c.l)
      BY <1>16, <2>5 DEF MetLeft
    <2>8. c.seek = 2 => MetRight(down, ret - 1)
      <3> SUFFICES ASSUME c.seek = 2, NEW i \in 1 .. Len(metRight)
                   PROVE  ret - 1 < metRight[i] /\ Settled(buf, metRight[i])
        BY <2>5 DEF MetRight
      <3>1. metRight = Append(right, ret) /\ Len(right) \in Nat
        BY <1>14, <2>1
      <3>2. CASE i = Len(right) + 1
        <4>1. metRight[i] = ret
          BY <1>14, <3>1, <3>2
        <4> QED  BY <1>8, <1>9, <4>1
      <3>3. CASE i # Len(right) + 1
        <4>1. i \in 1 .. Len(right) /\ metRight[i] = right[i]
          BY <1>14, <3>1, <3>3
        <4>2. c.r < right[i] /\ Settled(buf, right[i]) /\ right[i] \in Nat
          BY <1>15, <1>16, <4>1
        <4> QED  BY <1>6, <2>3, <4>1, <4>2
      <3> QED  BY <3>2, <3>3
    <2>9. c.seek = 1 => ret - 1 < P2 /\ Settled(buf, P2) /\ MetRight(down, P2)
      <3>1. c.seek = 1 => MetRight(down, P2)
        BY <1>16, <2>1, <2>5 DEF MetRight
      <3> QED  BY <1>6, <1>17, <2>3, <3>1, PlacesAre
    <2>10. (c.seek # 2 => Known(down, b, 2)) /\ (c.seek = 3 => Known(down, b, 1))
      BY <1>2, <2>5 DEF Known
    <2>11. Sought(down, b)
      BY <1>3, <1>10, <2>4, <2>5, <2>6, <2>7, <2>8, <2>9, <2>10 DEF Sought
    <2> QED  BY <1>1, <1>18, <2>11
  <1>19. CASE ret < p
    <2>1. metLeft = IF c.seek = 2 THEN Append(left, ret) ELSE left
      OBVIOUS
    <2> HIDE DEF left, right, metLeft
    <2>2. metLeft \in Traces
      BY <1>9, <1>14, <2>1 DEF Traces
    <2>3. ret + 1 \in Cells /\ ret + 1 <= p /\ c.l < ret + 1
      BY <1>4, <1>6, <1>9, <1>19, CellsAre DEF Cells
    <2>4. up \in Searches
      BY <1>2, <1>8, <2>2, <2>3 DEF Searches
    <2>5. /\ up.buf = buf /\ up.l = ret + 1 /\ up.r = c.r /\ up.seek = c.seek
          /\ up.short_cut_left = metLeft /\ up.short_cut_right = right /\ up.q = c.q
      BY <1>2 DEF Searches, right
    <2> HIDE DEF up
    <2>6. Within(up, c.seek)
      BY <1>4, <1>6, <1>8, <1>12, <2>3, <2>5 DEF Within, Settled
    <2>7. c.seek = 2 => MetRight(up, c.r)
      BY <1>16, <2>5 DEF MetRight
    <2>8. c.seek = 2 => MetLeft(up, ret + 1)
      <3> SUFFICES ASSUME c.seek = 2, NEW i \in 1 .. Len(metLeft)
                   PROVE  metLeft[i] < ret + 1 /\ Settled(buf, metLeft[i])
        BY <2>5 DEF MetLeft
      <3>1. metLeft = Append(left, ret) /\ Len(left) \in Nat
        BY <1>14, <2>1
      <3>2. CASE i = Len(left) + 1
        <4>1. metLeft[i] = ret
          BY <1>14, <3>1, <3>2
        <4> QED  BY <1>8, <1>9, <4>1
      <3>3. CASE i # Len(left) + 1
        <4>1. i \in 1 .. Len(left) /\ metLeft[i] = left[i]
          BY <1>14, <3>1, <3>3
        <4>2. left[i] < c.l /\ Settled(buf, left[i]) /\ left[i] \in Nat
          BY <1>15, <1>16, <4>1
        <4> QED  BY <1>6, <1>9, <2>3, <4>1, <4>2
      <3> QED  BY <3>2, <3>3
    <2>9. c.seek = 1 => c.r < P2 /\ Settled(buf, P2) /\ MetRight(up, P2)
      BY <1>16, <1>17, <2>5 DEF MetRight
    <2>10. (c.seek # 2 => Known(up, b, 2)) /\ (c.seek = 3 => Known(up, b, 1))
      BY <1>2, <2>5 DEF Known
    <2>11. Sought(up, b)
      BY <1>3, <1>10, <2>4, <2>5, <2>6, <2>7, <2>8, <2>9, <2>10 DEF Sought
    <2>12. ~(ret > p)
      BY <1>4, <1>9, <1>19
    <2> QED  BY <1>1, <1>19, <2>11, <2>12
  <1>20. CASE ret = p
    <2>1. Settled(buf, p) /\ ~(ret > p) /\ ~(ret < p) /\ buf[p] \in Nat
      BY <1>4, <1>8, <1>9, <1>20 DEF Buckets
    <2>2. IsAtPlace(b, buf[p], p)
      BY <1>4, <1>8, <1>10, <2>1, AtPlace DEF Settled
    <2>3. [c.q EXCEPT ![c.seek] = buf[p]] \in Quartets
      BY <1>3, <1>5, <2>1 DEF Quartets
    <2>4. found \in Searches
      BY <1>2, <1>8, <2>3 DEF Searches
    <2>5. /\ found.buf = buf /\ found.short_cut_left = left /\ found.short_cut_right = right
          /\ found.q = [c.q EXCEPT ![c.seek] = buf[p]]
      BY <1>2 DEF Searches, left, right
    <2>6. found.q[c.seek] = buf[p] /\ \A n \in 1 .. 3 : n # c.seek => found.q[n] = c.q[n]
      BY <1>3, <1>5, <2>5
    <2>7. 0 \in Seeks
      BY DEF Seeks
    <2>8. last \in Searches
      <3> HIDE DEF found
      <3> QED  BY <2>4, <2>7 DEF Searches
    <2>9. last.buf = buf /\ last.seek = 0 /\ last.q = found.q
      <3> HIDE DEF found
      <3> QED  BY <2>4, <2>5 DEF Searches
    <2> HIDE DEF found, last, left, right
    <2>10. Known(found, b, c.seek)
      BY <1>4, <2>2, <2>6 DEF Known
    <2>11. \A n \in 1 .. 3 : n # c.seek /\ Known(c, b, n) => Known(found, b, n)
      BY <2>6 DEF Known
    <2>12. CASE c.seek = 2
      <3>1. Settled(found.buf, P2) /\ p = P2
        BY <1>4, <2>1, <2>5, <2>12, PlaceIs
      <3>2. MetLeft(found, P2) /\ MetRight(found, P2)
        <4>1. \A i \in 1 .. Len(left) : left[i] < P2 /\ Settled(buf, left[i])
          BY <1>6, <1>15, <1>16, <2>12, <3>1, PlacesAre
        <4>2. \A i \in 1 .. Len(right) : P2 < right[i] /\ Settled(buf, right[i])
          BY <1>6, <1>15, <1>16, <2>12, <3>1, PlacesAre
        <4> QED  BY <2>5, <4>1, <4>2 DEF MetLeft, MetRight
      <3>3. Sought(SeekFirst(found), b)
        BY <1>10, <2>4, <2>5, <2>10, <2>12, <3>1, <3>2, SeekFirstIs
      <3> QED  BY <1>1, <2>1, <2>12, <3>3
    <2>13. CASE c.seek = 1
      <3>1. Settled(found.buf, P2) /\ MetRight(found, P2)
        BY <1>16, <1>17, <2>5, <2>13 DEF MetRight
      <3>2. Known(found, b, 1) /\ Known(found, b, 2)
        BY <1>2, <2>10, <2>11, <2>13
      <3>3. Sought(SeekThird(found), b)
        BY <1>10, <2>4, <2>5, <3>1, <3>2, SeekThirdIs
      <3> QED  BY <1>1, <2>1, <2>13, <3>3
    <2>14. CASE c.seek = 3
      <3>1. Known(found, b, 1) /\ Known(found, b, 2) /\ Known(found, b, 3)
        BY <1>2, <2>10, <2>11, <2>14
      <3>2. Known(last, b, 1) /\ Known(last, b, 2) /\ Known(last, b, 3)
        BY <2>9, <3>1 DEF Known
      <3>3. Sought(last, b)
        BY <1>10, <2>8, <2>9, <3>2 DEF Sought
      <3> QED  BY <1>1, <2>1, <2>14, <3>3
    <2> QED  BY <1>3, <2>12, <2>13, <2>14
  <1> QED  BY <1>4, <1>9, <1>18, <1>19, <1>20

-----------------------------------------------------------------------------
(* The rest of tlsh_final().                                               *)

\* The number of ascending values below x.
LEMMA CountBelow ==
  ASSUME NEW q \in [1 .. 3 -> Nat], q[1] <= q[2], q[2] <= q[3], NEW x \in Nat
  PROVE  Cardinality({n \in 1 .. 3 : q[n] < x})
           = IF q[3] < x THEN 3 ELSE IF q[2] < x THEN 2 ELSE IF q[1] < x THEN 1 ELSE 0
  <1> DEFINE S == {n \in 1 .. 3 : q[n] < x}
  <1>1. IsFiniteSet({}) /\ Cardinality({}) = 0
    BY FS_EmptySet
  <1>2. IsFiniteSet({1}) /\ Cardinality({1}) = 1
    BY FS_Singleton
  <1>3. IsFiniteSet({1, 2}) /\ Cardinality({1, 2}) = 2
    <2>1. {1, 2} = {1} \cup {2} /\ 2 \notin {1}
      OBVIOUS
    <2> QED  BY <1>2, <2>1, FS_AddElement
  <1>4. IsFiniteSet({1, 2, 3}) /\ Cardinality({1, 2, 3}) = 3
    <2>1. {1, 2, 3} = {1, 2} \cup {3} /\ 3 \notin {1, 2}
      OBVIOUS
    <2> QED  BY <1>3, <2>1, FS_AddElement
  <1>5. q[1] \in Nat /\ q[2] \in Nat /\ q[3] \in Nat
    OBVIOUS
  <1>6. CASE q[3] < x
    <2>1. S = {1, 2, 3}
      BY <1>5, <1>6
    <2> QED  BY <1>4, <1>6, <2>1
  <1>7. CASE ~(q[3] < x) /\ q[2] < x
    <2>1. S = {1, 2}
      BY <1>5, <1>7
    <2> QED  BY <1>3, <1>7, <2>1
  <1>8. CASE ~(q[3] < x) /\ ~(q[2] < x) /\ q[1] < x
    <2>1. S = {1}
      BY <1>5, <1>8
    <2> QED  BY <1>2, <1>8, <2>1
  <1>9. CASE ~(q[3] < x) /\ ~(q[2] < x) /\ ~(q[1] < x)
    <2>1. S = {}
      BY <1>5, <1>9
    <2> QED  BY <1>1, <1>9, <2>1
  <1> QED  BY <1>6, <1>7, <1>8, <1>9

\* What tlsh_final() makes of the quartiles.
Coded(o, b) ==
    /\ \A n \in 1 .. 3 : IsAtPlace(b, o.q[n], <<P1, P2, P3>>[n])
    /\ o.valid <=> /\ o.q[3] > 0
                   /\ 2 * Cardinality({i \in DOMAIN b : b[i] > 0}) > EffBuckets
    /\ o.valid => \A i \in DOMAIN b : o.code[i] = Cardinality({n \in 1 .. 3 : o.q[n] < b[i]})

\* What tlsh_final() returns once the searches are over is exact.
LEMMA CodesAre ==
  ASSUME NEW b \in Buckets, NEW c, Sought(c, b), c.seek = 0, NEW o, o = tlsh_final(b, c.q)
  PROVE  Coded(o, b)
  <1> DEFINE q == c.q
             full == {i \in DOMAIN b : b[i] > 0}
             few == q[3] = 0 \/ Cardinality(full) <= EffBuckets \div 2
             code == [i \in DOMAIN b |-> IF q[3] < b[i] THEN 3
                                         ELSE IF q[2] < b[i] THEN 2
                                         ELSE IF q[1] < b[i] THEN 1 ELSE 0]
             off == [valid |-> FALSE, q |-> q]
             on == [valid |-> TRUE, q |-> q, Q1ratio |-> ((q[1] * 100) \div q[3]) % 16,
                    Q2ratio |-> ((q[2] * 100) \div q[3]) % 16, code |-> code]
  <1>1. q \in [1 .. 3 -> Nat] /\ IsAtPlace(b, q[1], P1) /\ IsAtPlace(b, q[2], P2) /\ IsAtPlace(b, q[3], P3)
    BY PlaceIs DEF Sought, Searches, Quartets, Known
  <1>2. o = IF few THEN off ELSE on
    BY DEF tlsh_final
  <1>3. off.q = q /\ on.q = q /\ on.code = code
    OBVIOUS
  <1>4. ~off.valid /\ on.valid
    BY Zenon
  <1> HIDE DEF off, on, q
  <1>5. o.q = q
    BY <1>2, <1>3
  <1>6. o.valid <=> ~few
    <2> HIDE DEF few
    <2>1. CASE few
      <3>1. o = off
        BY <1>2, <2>1
      <3> QED  BY <1>4, <2>1, <3>1, Zenon
    <2>2. CASE ~few
      <3>1. o = on
        BY <1>2, <2>2
      <3> QED  BY <1>4, <2>2, <3>1, Zenon
    <2> QED  BY <2>1, <2>2, Zenon
  <1>7. ~few <=> q[3] > 0 /\ 2 * Cardinality(full) > EffBuckets
    <2>1. q[3] \in Nat
      BY <1>1
    <2>2. Cardinality(full) \in Nat
      <3>1. full \in SUBSET Cells
        BY DEF Buckets
      <3>2. IsFiniteSet(Cells)
        BY CellsAre, FS_Interval DEF Cells
      <3> HIDE DEF full
      <3> QED  BY <3>1, <3>2, FS_Subset, FS_CardinalityType
    <2>3. PICK m \in 2 .. EffBuckets : EffBuckets = 4 * m
      BY TlshAssumption
    <2>4. m \in Nat /\ EffBuckets \div 2 = 2 * m
      BY <2>3, CellsAre
    <2> HIDE DEF full
    <2> QED  BY <2>1, <2>2, <2>3, <2>4
  <1>8. q[1] <= q[2] /\ q[2] <= q[3]
    <2>1. q[1] \in Nat /\ q[2] \in Nat /\ q[3] \in Nat /\ P1 <= P2 /\ P2 <= P3
      BY <1>1, PlacesAre
    <2> QED  BY <1>1, <2>1, PlacesAscend, PlacesAre
  <1>9. \A i \in DOMAIN b : code[i] = Cardinality({n \in 1 .. 3 : q[n] < b[i]})
    <2> SUFFICES ASSUME NEW i \in DOMAIN b PROVE code[i] = Cardinality({n \in 1 .. 3 : q[n] < b[i]})
      OBVIOUS
    <2>1. b[i] \in Nat
      BY DEF Buckets
    <2>2. Cardinality({n \in 1 .. 3 : q[n] < b[i]})
            = IF q[3] < b[i] THEN 3 ELSE IF q[2] < b[i] THEN 2 ELSE IF q[1] < b[i] THEN 1 ELSE 0
      BY <1>1, <1>8, <2>1, CountBelow
    <2> QED  BY <2>2
  <1>10. ~few => o.code = code
    BY <1>2, <1>3
  <1>11. \A n \in 1 .. 3 : IsAtPlace(b, o.q[n], <<P1, P2, P3>>[n])
    BY <1>1, <1>5
  <1>12. o.valid <=> o.q[3] > 0 /\ 2 * Cardinality(full) > EffBuckets
    <2> HIDE DEF few, full
    <2> QED  BY <1>5, <1>6, <1>7, Zenon
  <1>13. o.valid => \A i \in DOMAIN b : o.code[i] = Cardinality({n \in 1 .. 3 : o.q[n] < b[i]})
    <2> HIDE DEF few, code
    <2> QED  BY <1>5, <1>6, <1>9, <1>10, Zenon
  <1> HIDE DEF few, code
  <1> QED  BY <1>11, <1>12, <1>13, Zenon DEF Coded

-----------------------------------------------------------------------------
(* l_capturing().                                                          *)

\* topval[] ascends, not only from one entry to the next.
LEMMA TopsAscend ==
  /\ Len(TopVal) \in Nat /\ Len(TopVal) > 1
  /\ \A i \in 0 .. Len(TopVal) - 1 : Top(i) \in Nat
  /\ \A i, j \in 0 .. Len(TopVal) - 1 : i < j => Top(i) < Top(j)
  <1> DEFINE n == Len(TopVal)
  <1>1. TopVal \in Seq(Nat) /\ n \in Nat /\ n > 1
    BY TlshAssumption
  <1>2. \A i \in 0 .. n - 1 : Top(i) \in Nat
    BY <1>1 DEF Top
  <1>3. \A i \in 0 .. n - 1 : i + 1 <= n - 1 => Top(i) < Top(i + 1)
    <2> SUFFICES ASSUME NEW i \in 0 .. n - 1, i + 1 <= n - 1 PROVE Top(i) < Top(i + 1)
      OBVIOUS
    <2>1. i + 1 \in 1 .. n - 1
      BY <1>1
    <2>2. TopVal[i + 1] < TopVal[(i + 1) + 1]
      BY <2>1, TlshAssumption
    <2> QED  BY <2>2 DEF Top
  <1> HIDE DEF n
  <1> DEFINE S == {d \in Nat : \A i \in 0 .. n - 1 : i + (d + 1) <= n - 1 => Top(i) < Top(i + (d + 1))}
  <1>4. 0 \in S
    BY <1>1, <1>3
  <1>5. \A d \in Nat : d \in S => d + 1 \in S
    <2> SUFFICES ASSUME NEW d \in Nat, d \in S PROVE d + 1 \in S
      OBVIOUS
    <2> SUFFICES ASSUME NEW i \in 0 .. n - 1, i + ((d + 1) + 1) <= n - 1
                 PROVE  Top(i) < Top(i + ((d + 1) + 1))
      OBVIOUS
    <2> DEFINE e == i + (d + 1)
    <2>1. /\ e \in 0 .. n - 1 /\ e + 1 <= n - 1 /\ e + 1 = i + ((d + 1) + 1) /\ e + 1 \in 0 .. n - 1
          /\ i + (d + 1) <= n - 1
      BY <1>1
    <2>2. Top(i) < Top(e)
      BY <2>1
    <2> HIDE DEF e
    <2>3. Top(e) < Top(e + 1)
      BY <1>3, <2>1
    <2> QED  BY <1>2, <2>1, <2>2, <2>3
  <1>6. Nat \subseteq S
    <2> HIDE DEF S
    <2> QED  BY <1>4, <1>5, Induction
  <1>7. \A i, j \in 0 .. n - 1 : i < j => Top(i) < Top(j)
    <2> SUFFICES ASSUME NEW i \in 0 .. n - 1, NEW j \in 0 .. n - 1, i < j PROVE Top(i) < Top(j)
      OBVIOUS
    <2> DEFINE d == (j - i) - 1
    <2>1. d \in Nat /\ i + (d + 1) = j
      BY <1>1
    <2> HIDE DEF d
    <2>2. d \in S
      BY <1>6, <2>1
    <2> QED  BY <1>1, <2>1, <2>2
  <1> QED  BY <1>1, <1>2, <1>7 DEF n

\* The part of topval[] that is left after k turns: it holds the answer a, and the
\* next look is at it or the part is small; a part from the start has a length of H.
Middle(s) == (s.bottom + s.top) \div 2
Bucketed(len, i) == i = 0 \/ (len <= Top(i) /\ len > Top(i - 1))
Halve(s, len) ==
    IF Bucketed(len, Middle(s)) THEN s
    ELSE IF len < Top(Middle(s)) THEN [bottom |-> s.bottom, top |-> Middle(s) - 1]
    ELSE [bottom |-> Middle(s) + 1, top |-> s.top]

IsHalves(H) == Len(TopVal) \in H /\ 1 \notin H /\ \A t \in H : t > 1 => t \div 2 - 1 \in H

\* a is the first entry of topval[] that is not below len.
IsAnswer(a, len) ==
    a \in 0 .. Len(TopVal) - 1 /\ len <= Top(a) /\ \A i \in 0 .. a - 1 : Top(i) < len

Bisected(s, a, H, len, k) ==
    /\ s.bottom \in Nat /\ s.top \in Nat /\ s.top <= Len(TopVal)
    /\ s.bottom <= a /\ a <= s.top
    /\ s.bottom = 0 => s.top \in H
    /\ Bucketed(len, Middle(s)) \/ s.top - s.bottom <= Len(TopVal) - k

\* A look at the answer ends the search, and only that.
LEMMA BucketedIs ==
  ASSUME NEW len \in Nat, NEW a, IsAnswer(a, len), NEW H, IsHalves(H), NEW k \in Nat,
         NEW s, Bisected(s, a, H, len, k)
  PROVE  /\ Middle(s) \in 0 .. Len(TopVal) - 1 /\ s.bottom <= Middle(s) /\ Middle(s) <= s.top
         /\ Bucketed(len, Middle(s)) <=> Middle(s) = a
  <1> DEFINE n == Len(TopVal)
             low == s.bottom
             high == s.top
             m == Middle(s)
  <1>1. n \in Nat /\ n > 1 /\ (\A i \in 0 .. n - 1 : Top(i) \in Nat)
        /\ \A i, j \in 0 .. n - 1 : i < j => Top(i) < Top(j)
    BY TopsAscend
  <1>2. /\ low \in Nat /\ high \in Nat /\ high <= n /\ low <= a /\ a <= high
        /\ low = 0 => high \in H
    BY DEF Bisected
  <1>3. a \in 0 .. n - 1 /\ len <= Top(a) /\ \A i \in 0 .. a - 1 : Top(i) < len
    BY DEF IsAnswer
  <1>4. m = (low + high) \div 2
    BY DEF Middle
  <1>5. 1 \notin H
    BY DEF IsHalves
  <1> HIDE DEF n, low, high, m
  <1>6. m \in 0 .. n - 1 /\ low <= m /\ m <= high
    BY <1>1, <1>2, <1>3, <1>4
  <1>7. ASSUME m = a PROVE Bucketed(len, m)
    <2>1. CASE a # 0
      <3>1. a - 1 \in 0 .. a - 1
        BY <1>3, <2>1
      <3> QED  BY <1>3, <1>7, <1>1, <3>1 DEF Bucketed
    <2> QED  BY <1>7, <2>1 DEF Bucketed
  <1>8. ASSUME Bucketed(len, m) PROVE m = a
    <2>1. CASE m = 0
      <3>1. low = 0 /\ high # 1 /\ high < 2
        BY <1>2, <1>4, <1>5, <1>6, <2>1
      <3> QED  BY <1>2, <1>3, <2>1, <3>1
    <2>2. CASE m # 0
      <3>1. len <= Top(m) /\ len > Top(m - 1) /\ m - 1 \in 0 .. n - 1
        BY <1>1, <1>6, <1>8, <2>2 DEF Bucketed
      <3>2. ~(m < a)
        <4>1. ASSUME m < a PROVE FALSE
          <5>1. m \in 0 .. a - 1
            BY <1>3, <1>6, <4>1
          <5>2. Top(m) < len /\ Top(m) \in Nat
            BY <1>1, <1>3, <1>6, <5>1
          <5> QED  BY <3>1, <5>2
        <4> QED  BY <4>1
      <3>3. ~(a < m)
        <4>1. ASSUME a < m PROVE FALSE
          <5>1. Top(a) \in Nat /\ Top(m - 1) \in Nat
            BY <1>1, <1>3, <3>1
          <5>2. Top(a) <= Top(m - 1)
            <6>1. CASE a = m - 1
              BY <5>1, <6>1
            <6>2. CASE a # m - 1
              <7>1. a < m - 1
                BY <1>3, <1>6, <4>1, <6>2
              <7>2. Top(a) < Top(m - 1)
                BY <1>1, <1>3, <3>1, <7>1
              <7> QED  BY <5>1, <7>2
            <6> QED  BY <6>1, <6>2
          <5> QED  BY <1>3, <3>1, <5>1, <5>2
        <4> QED  BY <4>1
      <3> QED  BY <1>1, <1>3, <1>6, <3>2, <3>3
    <2> QED  BY <2>1, <2>2
  <1> QED  BY <1>6, <1>7, <1>8 DEF n, low, high, m

\* A turn that has not met the answer leaves it in the smaller part.
LEMMA HalveIs ==
  ASSUME NEW len \in Nat, NEW a, IsAnswer(a, len), NEW H, IsHalves(H), NEW k \in Nat,
         NEW s, Bisected(s, a, H, len, k)
  PROVE  Bisected(Halve(s, len), a, H, len, k + 1)
  <1> DEFINE n == Len(TopVal)
             low == s.bottom
             high == s.top
             m == Middle(s)
             t == Halve(s, len)
  <1>1. n \in Nat /\ n > 1 /\ (\A i \in 0 .. n - 1 : Top(i) \in Nat)
        /\ \A i, j \in 0 .. n - 1 : i < j => Top(i) < Top(j)
    BY TopsAscend
  <1>2. /\ low \in Nat /\ high \in Nat /\ high <= n /\ low <= a /\ a <= high
        /\ low = 0 => high \in H
        /\ Bucketed(len, m) \/ high - low <= n - k
    BY DEF Bisected
  <1>3. a \in 0 .. n - 1 /\ len <= Top(a) /\ \A i \in 0 .. a - 1 : Top(i) < len
    BY DEF IsAnswer
  <1>4. m = (low + high) \div 2
    BY DEF Middle
  <1>5. m \in 0 .. n - 1 /\ low <= m /\ m <= high /\ (Bucketed(len, m) <=> m = a)
    BY BucketedIs
  <1>6. CASE Bucketed(len, m)
    <2>1. t = s
      BY <1>6 DEF Halve
    <2> QED  BY <1>2, <1>6, <2>1 DEF Bisected
  <1>7. CASE ~Bucketed(len, m) /\ len < Top(m)
    <2>1. t.bottom = low /\ t.top = m - 1
      BY <1>7 DEF Halve
    <2> HIDE DEF n, low, high, m, t
    <2>2. m # 0 /\ a # m
      BY <1>5, <1>7 DEF Bucketed
    <2>3. ~(m < a)
      <3>1. ASSUME m < a PROVE FALSE
        <4>1. m \in 0 .. a - 1
          BY <1>3, <1>5, <3>1
        <4> QED  BY <1>1, <1>3, <1>5, <1>7, <4>1
      <3> QED  BY <3>1
    <2>4. m - 1 \in Nat /\ m - 1 <= n /\ a <= m - 1
      BY <1>1, <1>3, <1>5, <2>2, <2>3
    <2>5. low = 0 => m - 1 \in H
      <3> SUFFICES ASSUME low = 0 PROVE m - 1 \in H
        OBVIOUS
      <3>1. m = high \div 2
        BY <1>2, <1>4
      <3>2. high > 1
        BY <1>2, <1>5, <2>2, <3>1
      <3> QED  BY <1>2, <3>1, <3>2 DEF IsHalves
    <2>6. (m - 1) - low <= n - (k + 1)
      BY <1>1, <1>2, <1>5, <1>7
    <2> QED  BY <1>2, <2>1, <2>4, <2>5, <2>6 DEF Bisected, n, t
  <1>8. CASE ~Bucketed(len, m) /\ ~(len < Top(m))
    <2>1. t.bottom = m + 1 /\ t.top = high
      BY <1>8 DEF Halve
    <2> HIDE DEF n, low, high, m, t
    <2>2. m # 0 /\ a # m
      BY <1>5, <1>8 DEF Bucketed
    <2>3. ~(a < m)
      <3>1. ASSUME a < m PROVE FALSE
        <4>1. Top(a) < Top(m) /\ Top(a) \in Nat /\ Top(m) \in Nat
          BY <1>1, <1>3, <1>5, <3>1
        <4> QED  BY <1>3, <1>8, <4>1
      <3> QED  BY <3>1
    <2>4. m + 1 \in Nat /\ m + 1 <= a /\ m + 1 # 0
      BY <1>1, <1>3, <1>5, <2>2, <2>3
    <2>5. high - (m + 1) <= n - (k + 1)
      BY <1>1, <1>2, <1>5, <1>8
    <2> QED  BY <1>2, <2>1, <2>4, <2>5 DEF Bisected, n, t
  <1> QED  BY <1>6, <1>7, <1>8

\* The loop of l_capturing().
LEMMA CapturingIs ==
  ASSUME NEW len \in Nat
  PROVE  /\ l_capturing(len) \in 0 .. Len(TopVal) - 1
         /\ \A i \in 0 .. l_capturing(len) - 1 : Top(i) < len
         /\ len <= Top(l_capturing(len)) \/ l_capturing(len) = Len(TopVal) - 1
  <1> DEFINE n == Len(TopVal)
             first == [bottom |-> 0, top |-> n]
             Body(f) == [k \in 0 .. n |-> IF k = 0 THEN first ELSE Halve(f[k-1], len)]
             scan == CHOOSE f : f = Body(f)
             end == scan[n]
             ret == l_capturing(len)
  <1>1. n \in Nat /\ n > 1 /\ (\A i \in 0 .. n - 1 : Top(i) \in Nat)
        /\ \A i, j \in 0 .. n - 1 : i < j => Top(i) < Top(j)
    BY TopsAscend
  <1>2. ret = IF len > Top(n - 1) THEN n - 1 ELSE Middle(end)
    BY DEF l_capturing, Halve, Middle, Bucketed
  <1> HIDE DEF n, ret
  <1>3. CASE len > Top(n - 1)
    <2>1. ret = n - 1 /\ n - 1 \in 0 .. n - 1 /\ Top(n - 1) \in Nat
      BY <1>1, <1>2, <1>3
    <2>2. \A i \in 0 .. ret - 1 : Top(i) < len
      <3> SUFFICES ASSUME NEW i \in 0 .. ret - 1 PROVE Top(i) < len
        OBVIOUS
      <3>1. i \in 0 .. n - 1 /\ i < n - 1
        BY <1>1, <2>1
      <3>2. Top(i) < Top(n - 1) /\ Top(i) \in Nat
        BY <1>1, <2>1, <3>1
      <3> QED  BY <1>3, <2>1, <3>2
    <2> QED  BY <2>1, <2>2 DEF n, ret
  <1> DEFINE Above == {i \in 0 .. n - 1 : len <= Top(i)}
  <1>4. CASE ~(len > Top(n - 1))
    <2>1. n - 1 \in Above
      BY <1>1, <1>4
    <2>2. PICK a \in Above : \A j \in Above : ~(j < a)
      <3>1. Above \in SUBSET Nat
        BY <1>1
      <3> HIDE DEF Above
      <3> QED  BY <2>1, <3>1, LeastExists
    <2>3. IsAnswer(a, len)
      <3>1. a \in 0 .. n - 1 /\ len <= Top(a)
        OBVIOUS
      <3>2. \A i \in 0 .. a - 1 : Top(i) < len
        <4> SUFFICES ASSUME NEW i \in 0 .. a - 1 PROVE Top(i) < len
          OBVIOUS
        <4>1. i \in 0 .. n - 1 /\ i < a
          BY <1>1, <3>1
        <4>2. ~(len <= Top(i)) /\ Top(i) \in Nat
          BY <1>1, <2>2, <4>1
        <4> QED  BY <4>2
      <3> QED  BY <3>1, <3>2 DEF IsAnswer, n
    <2> HIDE DEF Above
    <2>4. PICK H : IsHalves(H)
      BY HalvesAssumption DEF IsHalves
    <2> DEFINE V == [bottom : Nat, top : Nat]
               I == [k \in 0 .. n |-> {s \in V : Bisected(s, a, H, len, k)}]
               turn == [k \in 1 .. n |-> [s \in V |-> Halve(s, len)]]
    <2>5. first \in V /\ first.bottom = 0 /\ first.top = n
      BY <1>1
    <2> HIDE DEF first
    <2>6. Bisected(first, a, H, len, 0)
      <3>1. n \in H /\ a \in 0 .. n - 1
        BY <2>3, <2>4 DEF IsHalves, IsAnswer, n
      <3>2. n <= n /\ 0 <= a /\ a <= n /\ n - 0 <= n - 0
        BY <1>1, <3>1
      <3> QED  BY <1>1, <2>5, <3>1, <3>2 DEF Bisected, n
    <2>7. \A k \in 0 .. n : I[k] = {s \in V : Bisected(s, a, H, len, k)}
      OBVIOUS
    <2>8. ASSUME NEW k \in 1 .. n, NEW s \in I[k-1]
          PROVE  Halve(s, len) \in I[k] /\ s \in V
      <3> DEFINE t == Halve(s, len)
      <3>1. k - 1 \in Nat /\ k - 1 \in 0 .. n /\ (k - 1) + 1 = k /\ k \in 0 .. n
        BY <1>1
      <3>2. s \in V /\ Bisected(s, a, H, len, k - 1)
        BY <3>1
      <3>3. Bisected(t, a, H, len, (k - 1) + 1)
        BY <2>3, <2>4, <3>1, <3>2, HalveIs
      <3>4. Bisected(t, a, H, len, k)
        BY <3>1, <3>3
      <3>5. t \in V
        <4>1. t.bottom \in Nat /\ t.top \in Nat
          BY <3>4 DEF Bisected
        <4>2. \/ t = s \/ t = [bottom |-> s.bottom, top |-> Middle(s) - 1]
              \/ t = [bottom |-> Middle(s) + 1, top |-> s.top]
          BY DEF Halve
        <4>3. t = s \/ t = [bottom |-> t.bottom, top |-> t.top]
          BY <4>2
        <4> HIDE DEF t
        <4> QED  BY <3>2, <4>1, <4>3
      <3> HIDE DEF t
      <3>6. t \in I[k]
        BY <2>7, <3>1, <3>4, <3>5
      <3> QED  BY <3>2, <3>6 DEF t
    <2>9. I \in [0 .. n -> SUBSET V] /\ first \in I[0]
      <3> HIDE DEF V
      <3>1. I \in [0 .. n -> SUBSET V]
        OBVIOUS
      <3>2. 0 \in 0 .. n
        BY <1>1
      <3> HIDE DEF I
      <3>3. I[0] = {s \in V : Bisected(s, a, H, len, 0)}
        BY <2>7, <3>2
      <3> QED  BY <2>5, <2>6, <3>1, <3>3
    <2>10. \A k \in 1 .. n : \A s \in V : turn[k][s] = Halve(s, len)
      OBVIOUS
    <2> HIDE DEF I, turn, V
    <2>11. PICK g : Runs(g, V, I, first, n, turn)
      <3>1. Leads(turn, I, n)
        BY <2>8, <2>10 DEF Leads
      <3> QED  BY <1>1, <2>9, <3>1, LoopHas
    <2>12. /\ g \in [0 .. n -> V] /\ g[0] = first
           /\ \A k \in 1 .. n : g[k-1] \in I[k-1] /\ g[k] = turn[k][g[k-1]]
      BY <2>11 DEF Runs
    <2>13. g = Body(g)
      <3>1. \A k \in 0 .. n : g[k] = IF k = 0 THEN first ELSE Halve(g[k-1], len)
        <4> SUFFICES ASSUME NEW k \in 0 .. n, k # 0 PROVE g[k] = Halve(g[k-1], len)
          BY <2>12
        <4>1. k \in 1 .. n /\ k - 1 \in 0 .. n
          BY <1>1
        <4>2. g[k-1] \in V /\ g[k] = turn[k][g[k-1]]
          BY <2>12, <4>1
        <4> QED  BY <2>10, <4>1, <4>2
      <3> QED  BY <2>12, <3>1
    <2>14. scan = Body(scan)
      <3> HIDE DEF Body
      <3> QED  BY <2>13
    <2>15. \A k \in 0 .. n : scan[k] = IF k = 0 THEN first ELSE Halve(scan[k-1], len)
      <3> HIDE DEF scan
      <3>1. \A k \in 0 .. n : Body(scan)[k] = IF k = 0 THEN first ELSE Halve(scan[k-1], len)
        OBVIOUS
      <3> HIDE DEF Body
      <3> QED  BY <2>14, <3>1
    <2> HIDE DEF scan
    <2>16. \A k \in 0 .. n : scan[k] \in I[k]
      <3>1. scan[0] \in I[0]
        BY <1>1, <2>9, <2>15
      <3>2. \A k \in 1 .. n : scan[k-1] \in I[k-1] => scan[k] \in I[k]
        <4> SUFFICES ASSUME NEW k \in 1 .. n, scan[k-1] \in I[k-1] PROVE scan[k] \in I[k]
          OBVIOUS
        <4>1. scan[k] = Halve(scan[k-1], len)
          BY <1>1, <2>15
        <4> QED  BY <2>8, <4>1
      <3> QED  BY <1>1, <3>1, <3>2, LoopKeeps
    <2>17. Bisected(end, a, H, len, n)
      BY <1>1, <2>7, <2>16
    <2> HIDE DEF end
    <2>18. Bucketed(len, Middle(end)) <=> Middle(end) = a
      BY <1>1, <2>3, <2>4, <2>17, BucketedIs
    <2>19. Middle(end) = a
      <3>1. CASE Bucketed(len, Middle(end))
        BY <2>18, <3>1
      <3>2. CASE ~Bucketed(len, Middle(end))
        <4>1. /\ end.bottom \in Nat /\ end.top \in Nat /\ end.top - end.bottom <= n - n
              /\ end.bottom <= a /\ a <= end.top
          BY <2>17, <3>2 DEF Bisected, n
        <4>2. a \in Nat
          BY <1>1, <2>3 DEF IsAnswer
        <4>3. end.bottom = a /\ end.top = a
          BY <1>1, <4>1, <4>2
        <4> QED  BY <4>2, <4>3 DEF Middle
      <3> QED  BY <3>1, <3>2
    <2>20. ret = a
      BY <1>2, <1>4, <2>19
    <2> QED  BY <2>3, <2>20 DEF IsAnswer, ret
  <1> QED  BY <1>3, <1>4

-----------------------------------------------------------------------------
(* tlsh_final().                                                           *)

\* The searches know what they have found, and a call returns what is computed from
\* that.
SearchInv ==
    /\ job \in Jobs
    /\ job.kind = "quartiles" =>
         /\ Sought(ctx, job.bucket)
         /\ done => ctx.seek = 0 /\ out = tlsh_final(job.bucket, ctx.q)
    /\ job.kind = "length" /\ done => out = [ret |-> l_capturing(job.len)]

\* A call of tlsh_final() has numbers in its buckets.
LEMMA JobBuckets ==
  ASSUME job \in Jobs, job.kind = "quartiles"
  PROVE  job.bucket \in Buckets
  BY JobsAssumption DEF Buckets, Cells

\* SearchInv holds at the start,
LEMMA InitSearch == Init => SearchInv
  <1> SUFFICES ASSUME Init PROVE SearchInv
    OBVIOUS
  <1>1. job \in Jobs /\ ~done
    BY DEF Init
  <1>2. ASSUME job.kind = "quartiles" PROVE Sought(ctx, job.bucket)
    <2>1. ctx = find_quartile(job.bucket)
      BY <1>2 DEF Init
    <2> QED  BY <1>1, <1>2, <2>1, JobBuckets, SearchStarts
  <1> QED  BY <1>1, <1>2 DEF SearchInv

\* and every step keeps it.
LEMMA NextSearch == SearchInv /\ [Next]_vars => SearchInv'
  <1> SUFFICES ASSUME SearchInv, [Next]_vars PROVE SearchInv'
    OBVIOUS
  <1>1. job \in Jobs
    BY DEF SearchInv
  <1>2. CASE SearchQuartile
    <2>1. job' = job /\ done' = done /\ job.kind = "quartiles" /\ ctx.seek # 0 /\ ctx' = Narrow(ctx)
      BY <1>2 DEF SearchQuartile
    <2>2. Sought(ctx, job.bucket) /\ ~done
      BY <2>1 DEF SearchInv
    <2>3. Sought(ctx', job.bucket)
      BY <1>1, <2>1, <2>2, JobBuckets, NarrowIs
    <2> QED  BY <1>1, <2>1, <2>2, <2>3 DEF SearchInv
  <1>3. CASE Quartiles
    <2>1. /\ job' = job /\ job.kind = "quartiles" /\ ctx.seek = 0 /\ ctx' = ctx
          /\ out' = tlsh_final(job.bucket, ctx.q)
      BY <1>3 DEF Quartiles, Return
    <2> QED  BY <2>1 DEF SearchInv
  <1>4. CASE Length
    <2>1. job' = job /\ job.kind = "length" /\ out' = [ret |-> l_capturing(job.len)]
      BY <1>4 DEF Length, Return
    <2> QED  BY <2>1 DEF SearchInv
  <1>5. CASE ReadForSha \/ EndSha \/ ReadForTlsh \/ ReadFails \/ EndTlsh \/ Distance \/ Resolve
    <2>1. job' = job /\ job.kind # "quartiles" /\ job.kind # "length"
      BY <1>5 DEF ReadForSha, EndSha, ReadForTlsh, ReadFails, EndTlsh, Distance, Resolve
    <2> QED  BY <1>1, <2>1 DEF SearchInv
  <1>6. CASE UNCHANGED vars
    <2>1. job' = job /\ done' = done /\ out' = out /\ ctx' = ctx
      BY <1>6 DEF vars
    <2> QED  BY <2>1 DEF SearchInv
  <1> QED  BY <1>2, <1>3, <1>4, <1>5, <1>6 DEF Next

\* find_quartile() selects exactly the quartiles of any buckets, a bucket's code
\* counts those below it, and l_capturing() finds the bucket of any length.
THEOREM FinalExact == Spec => []FinalIsExact
  <1>1. SearchInv => FinalIsExact
    <2> SUFFICES ASSUME SearchInv, done PROVE FinalIsExact
      BY DEF FinalIsExact
    <2>1. ASSUME job.kind = "quartiles"
          PROVE  /\ \A n \in 1 .. 3 : IsAtPlace(job.bucket, out.q[n], <<P1, P2, P3>>[n])
                 /\ out.valid <=> /\ out.q[3] > 0
                                  /\ 2 * Cardinality({i \in DOMAIN job.bucket : job.bucket[i] > 0})
                                       > EffBuckets
                 /\ out.valid => \A i \in DOMAIN job.bucket :
                      out.code[i] = Cardinality({n \in 1 .. 3 : out.q[n] < job.bucket[i]})
      <3>1. Sought(ctx, job.bucket) /\ ctx.seek = 0 /\ out = tlsh_final(job.bucket, ctx.q)
        BY <2>1 DEF SearchInv
      <3>2. job.bucket \in Buckets
        BY <2>1, JobBuckets DEF SearchInv
      <3>3. Coded(out, job.bucket)
        BY <3>1, <3>2, CodesAre
      <3> QED  BY <3>3, Zenon DEF Coded
    <2>2. ASSUME job.kind = "length"
          PROVE  /\ out.ret \in 0 .. Len(TopVal) - 1
                 /\ \A i \in 0 .. out.ret - 1 : Top(i) < job.len
                 /\ job.len <= Top(out.ret) \/ out.ret = Len(TopVal) - 1
      <3>1. out.ret = l_capturing(job.len)
        BY <2>2 DEF SearchInv
      <3>2. job.len \in Nat
        BY <2>2, JobsAssumption DEF SearchInv
      <3> QED  BY <3>1, <3>2, CapturingIs
    <2> QED  BY <2>1, <2>2, Zenon DEF FinalIsExact
  <1> QED  BY <1>1, InitSearch, NextSearch, PTL DEF Spec
=============================================================================
