------------------------------ MODULE TlshCore ------------------------------
(***************************************************************************)
(* The TLSH digest of src/userspace/avd/tlsh_core.c: the sliding window    *)
(* over a file that arrives in pieces, the quartiles of the buckets, the   *)
(* bucket of a length, the text of a digest and the distance of two.       *)
(*                                                                         *)
(* The Pearson table is left abstract: a bucket is named by what is hashed *)
(* to it, and a checksum by the pairs that went into it.  A byte of a      *)
(* digest is a pair of nibbles.                                            *)
(***************************************************************************)
EXTENDS Integers, Sequences, FiniteSets

CONSTANTS
    EffBuckets,      \* EFF_BUCKETS
    MinDataLength,   \* MIN_DATA_LENGTH
    TopVal           \* topval[], a sequence

WndSize == 5          \* SLIDING_WND_SIZE

ASSUME TlshAssumption ==
    /\ EffBuckets \in {4 * n : n \in 2 .. EffBuckets}
    /\ MinDataLength \in Nat
    /\ TopVal \in Seq(Nat) /\ Len(TopVal) > 1
    /\ \A i \in 1 .. Len(TopVal) - 1 : TopVal[i] < TopVal[i + 1]

\* The bisection over topval[] must not come down to its first two entries, of
\* which it would only look at the first.  It halves 170, 84, 41, 19, 8, 3, 0.
ASSUME HalvesAssumption ==
    \E H \in SUBSET (0 .. Len(TopVal)) :
      Len(TopVal) \in H /\ 1 \notin H /\ \A t \in H : t > 1 => t \div 2 - 1 \in H

----------------------------------------------------------------------------
(* The stream.                                                             *)

fast_b_mapping(ms, i, j, k) == <<ms, i, j, k>>

tlsh_init == [allocated |-> FALSE, alloc_failed |-> FALSE, data_len |-> 0,
              slide_window |-> [j \in 0 .. WndSize - 1 |-> 0], hits |-> <<>>,
              checksum |-> <<>>]

\* The six buckets that byte b hits together with the four before it.
Triplets(b, b1, b2, b3, b4) ==
    <<fast_b_mapping(49, b, b1, b2), fast_b_mapping(12, b, b1, b3),
      fast_b_mapping(178, b, b2, b3), fast_b_mapping(166, b, b2, b4),
      fast_b_mapping(84, b, b1, b4), fast_b_mapping(230, b, b3, b4)>>

\* The body of the loop: byte b is the fed-th since the start (from 0), j its
\* place in the window.
SlideOver(ctx, b, fed, j) ==
    LET sw == [ctx.slide_window EXCEPT ![j] = b]
        back(n) == sw[(j + WndSize - n) % WndSize]
    IN  IF fed < WndSize - 1 THEN [ctx EXCEPT !.slide_window = sw]
        ELSE [ctx EXCEPT
               !.slide_window = sw,
               !.checksum = Append(ctx.checksum, <<b, back(1)>>),
               !.hits = ctx.hits \o Triplets(b, back(1), back(2), back(3), back(4))]

\* The buckets are allocated by the first call; once that has failed every
\* later call does nothing.
tlsh_update(ctx, data, mem) ==
    LET after[k \in 0 .. Len(data)] ==
          IF k = 0 THEN [ctx EXCEPT !.allocated = TRUE]
          ELSE LET fed == ctx.data_len + k - 1
               IN  SlideOver(after[k - 1], data[k], fed, fed % WndSize)
    IN  IF ctx.alloc_failed THEN ctx
        ELSE IF ~ctx.allocated /\ ~mem THEN [ctx EXCEPT !.alloc_failed = TRUE]
        ELSE [after[Len(data)] EXCEPT !.data_len = @ + Len(data)]

\* The first test of tlsh_final().
Ready(ctx) == ~ctx.alloc_failed /\ ctx.data_len >= MinDataLength /\ ctx.allocated

----------------------------------------------------------------------------
(* find_quartile(): quickselect on a copy of the buckets 0 .. EffBuckets-1.*)

Swap(buf, i, j) == [buf EXCEPT ![i] = buf[j], ![j] = buf[i]]

partition(buf, left, right) ==
    IF left = right THEN [buf |-> buf, ret |-> left]
    ELSE IF left + 1 = right
    THEN [buf |-> IF buf[left] > buf[right] THEN Swap(buf, left, right) ELSE buf,
          ret |-> left]
    ELSE LET pivot == (left + right) \div 2
             val == buf[pivot]
             scan[n \in 0 .. right - left] ==
               IF n = 0 THEN [buf |-> Swap(buf, pivot, right), ret |-> left]
               ELSE LET s == scan[n - 1]
                        i == left + n - 1
                    IN  IF s.buf[i] < val
                        THEN [buf |-> Swap(s.buf, s.ret, i), ret |-> s.ret + 1]
                        ELSE s
             end == scan[right - left]
         IN  [buf |-> Swap(end.buf, end.ret, right), ret |-> end.ret]

\* The places of the quartiles.
P1 == EffBuckets \div 4 - 1
P2 == EffBuckets \div 2 - 1
P3 == EffBuckets - EffBuckets \div 4 - 1

\* The copy of the buckets, the part l .. r that is being searched for quartile
\* `seek' (the second first; 0 when all are known), the places met on the way to
\* the second, and the quartiles.
find_quartile(bucket) ==
    [buf |-> bucket, l |-> 0, r |-> EffBuckets - 1, seek |-> 2,
     short_cut_left |-> <<>>, short_cut_right |-> <<>>, q |-> [n \in 1 .. 3 |-> 0]]

First(I) == CHOOSE i \in I : \A k \in I : i <= k

\* The places met bound the searches for the others, which may be among them.
SeekThird(c) ==
    LET bounds == Append(c.short_cut_right, P2 + 1)
        i == First({k \in DOMAIN bounds : bounds[k] <= P3})
    IN  IF bounds[i] = P3 THEN [c EXCEPT !.seek = 0, !.q[3] = c.buf[P3]]
        ELSE [c EXCEPT !.seek = 3, !.l = bounds[i],
                       !.r = IF i = 1 THEN EffBuckets - 1 ELSE bounds[i - 1]]

\* Faulty variant: the upper bound is taken to be past the end.
SeekFirstShort(c) ==
    LET bounds == Append(c.short_cut_left, P2 - 1)
        i == First({k \in DOMAIN bounds : bounds[k] >= P1})
    IN  IF bounds[i] = P1 THEN SeekThird([c EXCEPT !.q[1] = c.buf[P1]])
        ELSE [c EXCEPT !.seek = 1, !.l = IF i = 1 THEN 0 ELSE bounds[i - 1],
                       !.r = bounds[i] - 1]

SeekFirst(c) ==
    LET bounds == Append(c.short_cut_left, P2 - 1)
        i == First({k \in DOMAIN bounds : bounds[k] >= P1})
    IN  IF bounds[i] = P1 THEN SeekThird([c EXCEPT !.q[1] = c.buf[P1]])
        ELSE [c EXCEPT !.seek = 1, !.l = IF i = 1 THEN 0 ELSE bounds[i - 1],
                       !.r = bounds[i]]

\* One turn of a search loop.
Narrow(c) ==
    LET p == <<P1, P2, P3>>[c.seek]
        part == partition(c.buf, c.l, c.r)
        met(seq) == IF c.seek = 2 THEN Append(seq, part.ret) ELSE seq
        found == [c EXCEPT !.buf = part.buf, !.q[c.seek] = part.buf[p]]
    IN  IF part.ret > p THEN [c EXCEPT !.buf = part.buf, !.r = part.ret - 1,
                                       !.short_cut_right = met(c.short_cut_right)]
        ELSE IF part.ret < p THEN [c EXCEPT !.buf = part.buf, !.l = part.ret + 1,
                                            !.short_cut_left = met(c.short_cut_left)]
        ELSE IF c.seek = 2 THEN SeekFirst(found)
        ELSE IF c.seek = 1 THEN SeekThird(found) ELSE [found EXCEPT !.seek = 0]

\* The rest of tlsh_final(): the code of each bucket, two bits, and what the
\* quartiles are of the third, unless there are too few different buckets.
tlsh_final(bucket, q) ==
    LET full == {i \in DOMAIN bucket : bucket[i] > 0}
    IN  IF q[3] = 0 \/ Cardinality(full) <= EffBuckets \div 2
        THEN [valid |-> FALSE, q |-> q]
        ELSE [valid |-> TRUE, q |-> q,
              Q1ratio |-> ((q[1] * 100) \div q[3]) % 16,
              Q2ratio |-> ((q[2] * 100) \div q[3]) % 16,
              code |-> [i \in DOMAIN bucket |->
                          IF q[3] < bucket[i] THEN 3
                          ELSE IF q[2] < bucket[i] THEN 2
                          ELSE IF q[1] < bucket[i] THEN 1 ELSE 0]]

\* topval[i] of the C array.
Top(i) == TopVal[i + 1]

\* The bisection over topval[0 .. last], from its middle.
l_capturing(len) ==
    LET last == Len(TopVal) - 1
        hit(i) == i = 0 \/ (len <= Top(i) /\ len > Top(i - 1))
        turn[k \in 0 .. Len(TopVal)] ==
          IF k = 0 THEN [bottom |-> 0, top |-> Len(TopVal)]
          ELSE LET s == turn[k - 1]
                   idx == (s.bottom + s.top) \div 2
               IN  IF hit(idx) THEN s
                   ELSE IF len < Top(idx) THEN [bottom |-> s.bottom, top |-> idx - 1]
                   ELSE [bottom |-> idx + 1, top |-> s.top]
        end == turn[Len(TopVal)]
    IN  IF len > Top(last) THEN last ELSE (end.bottom + end.top) \div 2

----------------------------------------------------------------------------
(* The text of a digest and the distance.  d.code is a sequence of bytes.  *)

swap_byte(b) == <<b[2], b[1]>>

tlsh_to_hex(d) ==
    LET n == Len(d.code)
        raw == <<swap_byte(d.checksum), swap_byte(d.Lvalue), swap_byte(<<d.Q2ratio, d.Q1ratio>>)>>
                 \o [i \in 1 .. n |-> d.code[n + 1 - i]]
    IN  [i \in 1 .. 2 * Len(raw) |-> raw[(i + 1) \div 2][IF i % 2 = 1 THEN 1 ELSE 2]]

\* A character is the value of a hex digit, of either case, or something else.
Malformed == [ok |-> FALSE]
tlsh_from_hex(str, n) ==
    LET raw == [i \in 1 .. 3 + n |-> <<str[2 * i - 1], str[2 * i]>>]
        q == swap_byte(raw[3])
    IN  IF Len(str) # 2 * (3 + n) \/ \E i \in DOMAIN str : str[i] \notin 0 .. 15 THEN Malformed
        ELSE [ok |-> TRUE, checksum |-> swap_byte(raw[1]), Lvalue |-> swap_byte(raw[2]),
              Q1ratio |-> q[2], Q2ratio |-> q[1],
              code |-> [i \in 1 .. n |-> raw[3 + n + 1 - i]]]

Number(b) == 16 * b[1] + b[2]
Least(x, y) == IF x > y THEN y ELSE x
Gap(x, y) == IF x > y THEN x - y ELSE y - x

\* Faulty variant: no way around the end of the range.
PlainDiff(x, y, r) == Gap(x, y)

mod_diff(x, y, r) == IF y > x THEN Least(y - x, x + r - y) ELSE Least(x - y, y + r - x)

\* bit_pairs_diff_table[x][y]: the two nibbles hold two quartile codes each.
PairDiff(x, y) == <<0, 1, 2, 6>>[Gap(x, y) + 1]
bit_pairs_diff_table(x, y) ==
    LET nibble(m, n) == PairDiff(m \div 4, n \div 4) + PairDiff(m % 4, n % 4)
    IN  nibble(x[1], y[1]) + nibble(x[2], y[2])

h_distance(x, y) ==
    LET sum[i \in 0 .. Len(x)] ==
          IF i = 0 THEN 0 ELSE sum[i - 1] + bit_pairs_diff_table(x[i], y[i])
    IN  sum[Len(x)]

tlsh_total_diff(a, b) ==
    LET l == mod_diff(Number(a.Lvalue), Number(b.Lvalue), 256)
        ratio(d) == IF d <= 1 THEN d ELSE (d - 1) * 12
    IN  (IF l <= 1 THEN l ELSE l * 12)
          + ratio(mod_diff(a.Q1ratio, b.Q1ratio, 16))
          + ratio(mod_diff(a.Q2ratio, b.Q2ratio, 16))
          + (IF a.checksum # b.checksum THEN 1 ELSE 0)
          + h_distance(a.code, b.code)

\* n is TLSH_CODE_SIZE.
av_tlsh_diff(s, t, n) ==
    LET a == tlsh_from_hex(s, n)
        b == tlsh_from_hex(t, n)
    IN  IF a.ok /\ b.ok THEN tlsh_total_diff(a, b) ELSE -1

----------------------------------------------------------------------------
(* References.                                                             *)

\* What hashing the bytes file[1 .. n] must hit, window by window.
Hits(file, n) ==
    LET hit(p) == <<<<49, 0, 1, 2>>, <<12, 0, 1, 3>>, <<178, 0, 2, 3>>, <<166, 0, 2, 4>>,
                    <<84, 0, 1, 4>>, <<230, 0, 3, 4>>>>[p]
    IN  [q \in 1 .. 6 * (IF n < WndSize THEN 0 ELSE n - WndSize + 1) |->
           LET end == WndSize + (q - 1) \div 6
               h == hit(1 + ((q - 1) % 6))
           IN  <<h[1], file[end], file[end - h[3]], file[end - h[4]]>>]

\* The two bytes of every window that its checksum takes.
Pairs(file, n) ==
    [m \in 1 .. (IF n < WndSize THEN 0 ELSE n - WndSize + 1) |->
       <<file[m + WndSize - 1], file[m + WndSize - 2]>>]

\* v is what stands at place k (from 0) when the buckets are sorted.
IsAtPlace(bucket, v, k) ==
    /\ Cardinality({i \in DOMAIN bucket : bucket[i] < v}) <= k
    /\ Cardinality({i \in DOMAIN bucket : bucket[i] <= v}) > k

\* The least number of steps from x to y on a ring of r.
RingDistance(x, y, r) ==
    CHOOSE d \in 0 .. r : /\ (x + d) % r = y \/ (y + d) % r = x
                          /\ \A e \in 0 .. d - 1 : (x + e) % r # y /\ (y + e) % r # x
=============================================================================
