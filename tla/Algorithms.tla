----------------------------- MODULE Algorithms -----------------------------
(***************************************************************************)
(* The sequential algorithms of the project on all inputs of a bounded     *)
(* size: sha256_fd() (src/userspace/avd/sha256.c), av_tlsh_hash_fd() and   *)
(* av_tlsh_diff() (src/userspace/avd/tlsh_shim.c) with what they call, and *)
(* resolve_absolute_path() (src/av/main.c).                                *)
(*                                                                         *)
(* A behaviour is one call.  The two functions that read a file take it in *)
(* the pieces read() happens to return; the file may end after any of them *)
(* (its size may change while it is read).  The n-th byte read is n.       *)
(***************************************************************************)
EXTENDS Sha256, TlshCore, PathNorm

CONSTANTS
    Jobs,          \* the calls, each a record with a field kind
    BufSize,       \* sizeof(buf) of the two loops
    MaxHashed,     \* max_len, MAX_FUZZY_TLSH_FILE_SIZE
    MaxBytes       \* bound: bytes that are ever read

ASSUME StreamAssumption == BufSize \in Nat \ {0} /\ MaxHashed \in Nat /\ MaxBytes \in Nat

\* A digest is a struct of bytes and nibbles, and its code has TLSH_CODE_SIZE.
\* d_path() gives a path from the root that has nothing to normalise.
Nibble == 0 .. 15
Digest == [checksum : Nibble \X Nibble, Lvalue : Nibble \X Nibble, Q1ratio : Nibble,
           Q2ratio : Nibble, code : Seq(Nibble \X Nibble)]

ASSUME JobsAssumption ==
    \A j \in Jobs :
      /\ j.kind = "quartiles" => j.bucket \in [0 .. EffBuckets - 1 -> Nat]
      /\ j.kind = "length" => j.len \in Nat
      /\ j.kind = "diff" => j.a \in Digest /\ j.b \in Digest /\ Len(j.a.code) = Len(j.b.code)
      /\ j.kind = "path" => /\ j.path \in Seq(STRING) /\ j.base \in Seq(STRING) /\ Absolute(j.base)
                            /\ \/ j.base = Root
                               \/ \A i \in 2 .. Len(j.base) : IsName(j.base[i])

VARIABLES
    job, done, out,   \* the call, whether it has returned, and what
    ctx, total        \* its context and the number of bytes read

vars == <<job, done, out, ctx, total>>

Nothing == [ret |-> 0]

Init ==
    /\ job \in Jobs
    /\ done = FALSE /\ out = Nothing /\ total = 0
    /\ \/ job.kind = "sha" /\ ctx = sha256_init
       \/ job.kind = "tlsh" /\ ctx = tlsh_init
       \/ job.kind = "quartiles" /\ ctx = find_quartile(job.bucket)
       \/ job.kind \in {"length", "diff", "path"} /\ ctx = Nothing

Return(result) == done' = TRUE /\ out' = result

Bytes(from, to) == [i \in 1 .. to + 1 - from |-> from + i - 1]

----------------------------------------------------------------------------
(* sha256_fd().                                                            *)

ReadForSha ==
    /\ job.kind = "sha" /\ ~done
    /\ \E n \in 1 .. BufSize :
         /\ total + n <= MaxBytes
         /\ ctx' = sha256_update(ctx, Message(total + 1, total + n))
         /\ total' = total + n
    /\ UNCHANGED <<job, done, out>>

\* The end of the file, or a read error.
EndSha ==
    /\ job.kind = "sha" /\ ~done
    /\ Return([ret |-> 0, digest |-> sha256_final(ctx)]) \/ Return([ret |-> -1])
    /\ UNCHANGED <<job, ctx, total>>

----------------------------------------------------------------------------
(* av_tlsh_hash_fd(); an EINTR changes nothing.                            *)

ReadForTlsh ==
    /\ job.kind = "tlsh" /\ ~done
    /\ \E n \in 1 .. Least(BufSize, MaxHashed - total), mem \in BOOLEAN :
         /\ total + n <= MaxBytes
         /\ ctx' = tlsh_update(ctx, Bytes(total + 1, total + n), mem)
         /\ total' = total + n
    /\ UNCHANGED <<job, done, out>>

ReadFails ==
    /\ job.kind = "tlsh" /\ ~done /\ total < MaxHashed
    /\ Return([ret |-> -1])
    /\ UNCHANGED <<job, ctx, total>>

\* The end of the file or of the budget.  Whether the buckets are different
\* enough is the matter of tlsh_final(), below.
EndTlsh ==
    /\ job.kind = "tlsh" /\ ~done
    /\ \/ total > 0 /\ Ready(ctx) /\ Return([ret |-> 0])
       \/ Return([ret |-> -2])
    /\ UNCHANGED <<job, ctx, total>>

----------------------------------------------------------------------------
(* tlsh_final() on full buckets, with the loops of find_quartile().        *)

SearchQuartile ==
    /\ job.kind = "quartiles" /\ ctx.seek # 0
    /\ ctx' = Narrow(ctx)
    /\ UNCHANGED <<job, done, out, total>>

Quartiles ==
    /\ job.kind = "quartiles" /\ ~done /\ ctx.seek = 0
    /\ Return(tlsh_final(job.bucket, ctx.q))
    /\ UNCHANGED <<job, ctx, total>>

----------------------------------------------------------------------------
(* The others compute at once.                                             *)

Length ==
    /\ job.kind = "length" /\ ~done
    /\ Return([ret |-> l_capturing(job.len)])
    /\ UNCHANGED <<job, ctx, total>>

\* Two digests in text form, of which the second may have been cut or changed.
Distance ==
    /\ job.kind = "diff" /\ ~done
    /\ LET n == Len(job.a.code)
           s == tlsh_to_hex(job.a)
           t == tlsh_to_hex(job.b)
       IN \/ Return([ret |-> av_tlsh_diff(s, t, n), back |-> av_tlsh_diff(t, s, n), good |-> TRUE])
          \/ \E u \in {Append(t, 0), Tail(t), [t EXCEPT ![1] = 16]} :
               Return([ret |-> av_tlsh_diff(s, u, n), good |-> FALSE])
    /\ UNCHANGED <<job, ctx, total>>

Resolve ==
    /\ job.kind = "path" /\ ~done
    /\ \E ok, mem \in BOOLEAN :
         Return([ret |-> 0, ok |-> ok /\ mem,
                 path |-> resolve_absolute_path(job.path, job.base, ok, mem)])
    /\ UNCHANGED <<job, ctx, total>>

Next ==
    \/ ReadForSha \/ EndSha \/ ReadForTlsh \/ ReadFails \/ EndTlsh
    \/ SearchQuartile \/ Quartiles \/ Length \/ Distance \/ Resolve

Spec == Init /\ [][Next]_vars

----------------------------------------------------------------------------
(* Properties.                                                             *)

\* The digests depend on what was read, not on the pieces it came in: a SHA-256
\* is that of the padded message, a TLSH digest takes every window of the whole
\* stream once and in order, into the buckets and into the checksum, never
\* starts in the middle of it because memory was short at first, and stays
\* within its budget.
DigestsAreChunkFree ==
    /\ done /\ job.kind = "sha" /\ out.ret = 0 => out.digest = Blocks(total)
    /\ done /\ job.kind = "tlsh" /\ out.ret = 0 =>
         /\ total \in MinDataLength .. MaxHashed
         /\ ctx.hits = Hits(Bytes(1, total), total)
         /\ ctx.checksum = Pairs(Bytes(1, total), total)

\* The quartiles that tlsh_final() uses are the ones of the sorted buckets,
\* though quickselect leaves them partly sorted and cuts its second and third
\* search short; a bucket's code counts the quartiles below it; and the bucket
\* of a length is the first whose limit it does not exceed, or the last.
FinalIsExact ==
    /\ done /\ job.kind = "quartiles" =>
         /\ \A n \in 1 .. 3 : IsAtPlace(job.bucket, out.q[n], <<P1, P2, P3>>[n])
         /\ out.valid <=> /\ out.q[3] > 0
                          /\ 2 * Cardinality({i \in DOMAIN job.bucket : job.bucket[i] > 0})
                               > EffBuckets
         /\ out.valid => \A i \in DOMAIN job.bucket :
              out.code[i] = Cardinality({n \in 1 .. 3 : out.q[n] < job.bucket[i]})
    /\ done /\ job.kind = "length" =>
         /\ out.ret \in 0 .. Len(TopVal) - 1
         /\ \A i \in 0 .. out.ret - 1 : Top(i) < job.len
         /\ job.len <= Top(out.ret) \/ out.ret = Len(TopVal) - 1

\* av_tlsh_diff() on two digests as tlsh_to_hex() writes them is symmetric, 0
\* exactly for equal ones, and counts the shorter way around where a length or
\* a ratio wraps; a text that is no digest gives -1, never a distance.
DiffIsDistance ==
    done /\ job.kind = "diff" =>
      IF ~out.good THEN out.ret = -1
      ELSE /\ out.ret = out.back
           /\ out.ret = 0 <=> job.a = job.b
           /\ out.ret >= RingDistance(Number(job.a.Lvalue), Number(job.b.Lvalue), 256)
           /\ /\ RingDistance(Number(job.a.Lvalue), Number(job.b.Lvalue), 256) <= 1
              /\ RingDistance(job.a.Q1ratio, job.b.Q1ratio, 16) <= 1
              /\ RingDistance(job.a.Q2ratio, job.b.Q2ratio, 16) <= 1
              /\ job.a.code = job.b.code
              => out.ret <= 4

\* An absolute path that resolve_absolute_path() returns means the same file as
\* the path it was given: neither a lack of memory nor the limits of the stack
\* and of the buffer make two files look the same (behavior.c compares such
\* paths with strcmp).  When none of them is met, the result has one spelling.
\* The same file is meant lexically, as main.c:362-376 says: a symbolic link
\* before a ".." is not followed.
PathsDenote ==
    done /\ job.kind = "path" =>
      LET given == IF job.path = Empty THEN job.base
                   ELSE IF Absolute(job.path) THEN job.path ELSE job.base \o job.path
      IN  /\ Absolute(out.path) => Meaning(out.path) = Meaning(given)
          /\ out.ok /\ Len(given) <= OutMax /\ (\A d \in Deepest(given) : d <= StackMax) =>
               out.path = <<"">> \o (IF Meaning(given) = <<>> THEN <<"">> ELSE Meaning(given))

----------------------------------------------------------------------------
(* Inductive invariants.                                                   *)

\* c is what sha256_update() makes of the first n bytes of g: the blocks are
\* compressed, and the buffer holds the rest.
Items == {"data", "pad", "zero", "len"} \X Nat \X Nat
ShaCtx == [state : Seq(Seq(Items)), buffer : Seq(Items), bitlen : Nat]

Start(b) == b * BlockSize

Follows(s, g, n) == \A i \in 1 .. Len(s) : s[i] = g[n + i]

Absorbed(c, g, n) ==
    /\ c \in ShaCtx /\ Len(c.buffer) < BlockSize
    /\ Start(Len(c.state)) + Len(c.buffer) = n
    /\ Follows(c.buffer, g, Start(Len(c.state)))
    /\ \A b \in 1 .. Len(c.state) :
         Len(c.state[b]) = BlockSize /\ Follows(c.state[b], g, Start(b - 1))

ShaInv ==
    job.kind = "sha" =>
      /\ total \in Nat /\ Absorbed(ctx, Message(1, total), total) /\ ctx.bitlen = 8 * total
      /\ done /\ out.ret = 0 => out.digest = Blocks(total)

\* c is what tlsh_update() makes of n bytes: the window holds the last ones, and
\* every full window has hit its six buckets.
TlshCtx == [allocated : BOOLEAN, alloc_failed : BOOLEAN, data_len : Nat,
            slide_window : [0 .. WndSize - 1 -> Nat],
            hits : Seq(Nat \X Nat \X Nat \X Nat), checksum : Seq(Nat \X Nat)]
Windows(n) == IF n < WndSize THEN 0 ELSE n - WndSize + 1

Slid(c, n) ==
    /\ \A d \in 0 .. WndSize - 1 : d < n => c.slide_window[(n - 1 - d) % WndSize] = n - d
    /\ c.checksum = Pairs(Bytes(1, n), n)
    /\ c.hits = Hits(Bytes(1, n), n)

TlshInv ==
    job.kind = "tlsh" =>
      /\ total \in 0 .. MaxHashed /\ ctx \in TlshCtx
      /\ ~ctx.alloc_failed => Slid(ctx, total) /\ ctx.data_len = total
      /\ done /\ out.ret = 0 => Ready(ctx)

StreamInv == ShaInv /\ TlshInv
=============================================================================
