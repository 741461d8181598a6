------------------------------ MODULE PathNorm ------------------------------
(***************************************************************************)
(* resolve_absolute_path() and normalize_abs_path() of src/av/main.c.  A   *)
(* path is the sequence of the pieces strsep() finds between its slashes:  *)
(* "/a/../b" is <<"", "a", "..", "b">>, "/" is <<"", "">> and the empty    *)
(* path is <<"">>.  Lengths are counted in pieces.                         *)
(***************************************************************************)
EXTENDS Naturals, Sequences, FiniteSets

CONSTANTS
    StackMax,    \* ARRAY_SIZE(stack) of normalize_abs_path()
    OutMax       \* out_len

ASSUME PathNormAssumption == StackMax \in Nat \ {0} /\ OutMax \in Nat

Empty == <<"">>
Root == <<"", "">>
Absolute(p) == Len(p) > 1 /\ p[1] = ""
IsName(piece) == piece \notin {"", ".", ".."}

\* One piece: the stack after it, or an overflow, at which the loop ends.
Push(s, piece) ==
    IF s.overflowed THEN s
    ELSE IF piece = ".."
    THEN [s EXCEPT !.stack = IF @ = <<>> THEN @ ELSE SubSeq(@, 1, Len(@) - 1)]
    ELSE IF ~IsName(piece) THEN s
    ELSE IF Len(s.stack) < StackMax THEN [s EXCEPT !.stack = Append(@, piece)]
    ELSE [s EXCEPT !.overflowed = TRUE]

\* Faulty variant: pieces that do not fit are dropped.
NormalizeLossy(p, mem) ==
    LET after[k \in 0 .. Len(p)] ==
          IF k = 0 THEN [stack |-> <<>>, overflowed |-> FALSE]
          ELSE [Push(after[k - 1], p[k]) EXCEPT !.overflowed = FALSE]
        stack == after[Len(p)].stack
    IN  <<"">> \o (IF stack = <<>> THEN <<"">> ELSE stack)

\* Without memory, or with too many pieces, the path stays as it is.
normalize_abs_path(p, mem) ==
    LET after[k \in 0 .. Len(p)] ==
          IF k = 0 THEN [stack |-> <<>>, overflowed |-> FALSE]
          ELSE Push(after[k - 1], p[k])
        end == after[Len(p)]
    IN  IF ~mem \/ end.overflowed THEN p
        ELSE <<"">> \o (IF end.stack = <<>> THEN <<"">> ELSE end.stack)

\* base is what d_path() says; ok that it says so and that its buffer could be
\* allocated, mem that normalize_abs_path() gets its own.  The empty path is
\* AT_EMPTY_PATH: base itself.
resolve_absolute_path(path, base, ok, mem) ==
    IF path = Empty THEN IF ok THEN base ELSE Empty
    ELSE IF Absolute(path) THEN normalize_abs_path(path, mem)
    ELSE IF ~ok \/ Len(base \o path) > OutMax THEN path
    ELSE normalize_abs_path(base \o path, mem)

----------------------------------------------------------------------------
(* What a path means, without a stack: a name counts unless a later ".."   *)
(* takes it back.                                                          *)

Ups(p, i, j) == Cardinality({k \in i .. j : p[k] = ".."})
Names(p, i, j) == Cardinality({k \in i .. j : IsName(p[k])})
Stays(p, i) == IsName(p[i]) /\ \A j \in i + 1 .. Len(p) : Ups(p, i + 1, j) <= Names(p, i + 1, j)

\* The names that count, in order.
Meaning(p) ==
    LET counting == {i \in 1 .. Len(p) : Stays(p, i)}
        nth(n) == CHOOSE i \in counting : Cardinality({j \in counting : j <= i}) = n
    IN  [n \in 1 .. Cardinality(counting) |-> p[nth(n)]]

Deepest(p) == {Len(Meaning(SubSeq(p, 1, k))) : k \in 0 .. Len(p)}
=============================================================================
