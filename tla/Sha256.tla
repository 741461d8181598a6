------------------------------- MODULE Sha256 -------------------------------
(***************************************************************************)
(* The buffering and padding of src/userspace/avd/sha256.c, in which a     *)
(* message arrives in pieces of any size.  The compression of a block is   *)
(* left abstract: the state is the sequence of the blocks compressed so    *)
(* far, which determines it.  A byte is a triple: the n-th byte of the     *)
(* message, the 0x80 or 0x00 of the padding, or the n-th byte of a length. *)
(***************************************************************************)
EXTENDS Naturals, Sequences

CONSTANTS BlockSize, LenSize    \* 64 and 8 bytes

ASSUME BlockAssumption == LenSize \in Nat \ {0} /\ BlockSize \in Nat /\ LenSize < BlockSize

Byte(n) == <<"data", n, 0>>
Pad == <<"pad", 0, 0>>
Zero == <<"zero", 0, 0>>
LenByte(bits, n) == <<"len", bits, n>>

\* The bytes from .. to of the message.
Message(from, to) == [i \in 1 .. to + 1 - from |-> Byte(from + i - 1)]

sha256_init == [state |-> <<>>, buffer |-> <<>>, bitlen |-> 0]

sha256_transform(state, block) == Append(state, block)

\* One turn of the loop of sha256_update(), from position i of data.
Absorb(ctx, data, i) ==
    LET room == BlockSize - Len(ctx.buffer)
        left == Len(data) - i
        take == IF room > left THEN left ELSE room
        buffer == ctx.buffer \o SubSeq(data, i + 1, i + take)
        bitlen == ctx.bitlen + 8 * take
    IN  [i |-> i + take,
         ctx |-> IF Len(buffer) = BlockSize
                 THEN [state |-> sha256_transform(ctx.state, buffer), buffer |-> <<>>,
                       bitlen |-> bitlen]
                 ELSE [state |-> ctx.state, buffer |-> buffer, bitlen |-> bitlen]]

sha256_update(ctx, data) ==
    LET turn[k \in 0 .. Len(data)] ==
          IF k = 0 THEN [i |-> 0, ctx |-> ctx]
          ELSE LET prev == turn[k - 1]
               IN  IF prev.i < Len(data) THEN Absorb(prev.ctx, data, prev.i) ELSE prev
    IN  turn[Len(data)].ctx

\* Faulty variant: the room for the length is not kept free.
PadToTheEnd(ctx) ==
    LET turn[k \in 0 .. BlockSize] ==
          IF k = 0 THEN sha256_update(ctx, <<Pad>>)
          ELSE LET prev == turn[k - 1]
               IN  IF Len(prev.buffer) < BlockSize - LenSize
                   THEN sha256_update(prev, <<Zero>>) ELSE prev
    IN  turn[BlockSize]

\* 0x80, then zeros until just the length fits into the block.
PadToLength(ctx) ==
    LET turn[k \in 0 .. BlockSize] ==
          IF k = 0 THEN sha256_update(ctx, <<Pad>>)
          ELSE LET prev == turn[k - 1]
               IN  IF Len(prev.buffer) # BlockSize - LenSize
                   THEN sha256_update(prev, <<Zero>>) ELSE prev
    IN  turn[BlockSize]

\* The length is the one before the padding; it bypasses sha256_update().
sha256_final(ctx) ==
    LET padded == PadToLength(ctx)
        length == [n \in 1 .. LenSize |-> LenByte(ctx.bitlen, n)]
    IN  sha256_transform(padded.state, padded.buffer \o length)

----------------------------------------------------------------------------
\* FIPS 180-4, 5.1.1 and 5.2.1: the blocks of the padded message of n bytes.
Padding(n) ==
    LET k == CHOOSE z \in 0 .. BlockSize - 1 : (n + 1 + z + LenSize) % BlockSize = 0
    IN  <<Pad>> \o [i \in 1 .. k |-> Zero] \o [i \in 1 .. LenSize |-> LenByte(8 * n, i)]

Blocks(n) ==
    LET all == Message(1, n) \o Padding(n)
    IN  [b \in 1 .. Len(all) \div BlockSize |->
           SubSeq(all, (b - 1) * BlockSize + 1, b * BlockSize)]
=============================================================================
