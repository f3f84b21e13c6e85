-------------------------------- MODULE Delta --------------------------------
(***************************************************************************)
(* git's binary deltas as git-core makes and applies them (packfile.rs).   *)
(*                                                                         *)
(* A byte is a natural number.  The radices are constants, so that a short *)
(* sequence crosses every boundary that in the code takes thousands of     *)
(* bytes: more than one digit of a size, of an offset and of a length,     *)
(* runs longer than the longest copy and the longest insert.               *)
(***************************************************************************)
EXTENDS Integers, SequencesExt

CONSTANTS
    High,       \* 0x80: marks a size byte that is not the last, and a copy
    Digit,      \* 0x100: the radix of the arguments of a copy
    Block       \* BLOCK_SIZE

ASSUME DeltaConstants ==
    /\ High \in Nat /\ Digit \in Nat /\ Block \in Nat
    /\ High > 1 /\ Digit > 1 /\ Block > 0

\* 0x10000, the longest copy and what a size of 0 means.
MaxCopy == Digit * Digit

\* 2^32: the offset of a copy has four digits.
MaxSource == Digit * Digit * Digit * Digit

\* Mutant: an insert one byte longer, which reads as a copy.
InsertTooLong == High

\* 127, the longest insert.
MaxInsert == High - 1

\* What a decoder returns: a value and the place behind it, or an error.
Ok(v, next) == [status |-> "ok", value |-> v, next |-> next]
Fail(e) == [status |-> e, value |-> <<>>, next |-> 0]

\* What follows a step that may fail: the code's ? operator.
AndThen(r, Op(_)) == IF r.status = "ok" THEN Op(r) ELSE r

-----------------------------------------------------------------------------
(* Sizes *)

\* encode_size: the low digit first.
EncodeSize[v \in Nat] ==
    IF v < High THEN <<v>> ELSE <<(v % High) + High>> \o EncodeSize[v \div High]

\* read_delta_size: up to the first byte without the mark.
ReadSize(s, pos) ==
    LET from[p \in 0..Len(s)] ==
            IF p = Len(s) THEN Fail("error")
            ELSE IF s[p + 1] < High THEN Ok(s[p + 1], p + 1)
            ELSE AndThen(from[p + 1], LAMBDA high :
                    Ok((s[p + 1] % High) + High * high.value, high.next))
    IN  from[pos]

-----------------------------------------------------------------------------
(* compute_delta *)

\* Four digits of a copy's argument, from the lowest, and the number they give.
Digits(v) ==
    LET w == v \div Digit
        x == w \div Digit
        y == x \div Digit
    IN  <<v % Digit, w % Digit, x % Digit, y % Digit>>

FromDigits(a, b, c, d) == a + Digit * (b + Digit * (c + Digit * d))

\* The bytes of the arguments from the i-th on: zeros are not written, and a bit
\* of the command says so.
Present(args) ==
    LET from[i \in 1..8] ==
            IF i = 8 THEN [bits |-> 0, bytes |-> <<>>]
            ELSE LET rest == from[i + 1]
                 IN  IF args[i] = 0 THEN [rest EXCEPT !.bits = 2 * @]
                     ELSE [bits |-> 2 * rest.bits + 1, bytes |-> <<args[i]>> \o rest.bytes]
    IN  from

\* emit_copy: four digits of the offset, three of the size.
EmitCopy(offset, size) ==
    LET encoded == IF size = MaxCopy THEN 0 ELSE size
        present == Present(Digits(offset) \o SubSeq(Digits(encoded), 1, 3))[1]
    IN  <<High + present.bits>> \o present.bytes

Least2(m, n) == IF m < n THEN m ELSE n

\* The copies of the size bytes at offset.
EmitCopies(offset, size) ==
    LET from[copied \in 0..size] ==
            IF copied = size THEN <<>>
            ELSE EmitCopy(offset + copied, Least2(size - copied, MaxCopy))
                    \o from[copied + Least2(size - copied, MaxCopy)]
    IN  from[0]

\* flush_inserts.
FlushInserts(bytes) ==
    LET from[done \in 0..Len(bytes)] ==
            IF done = Len(bytes) THEN <<>>
            ELSE LET count == Least2(Len(bytes) - done, MaxInsert)
                 IN  <<count>> \o SubSeq(bytes, done + 1, done + count) \o from[done + count]
    IN  from[0]

\* The length of the common prefix of what is behind off and behind pos.
MatchLength(base, off, target, pos) ==
    LET limit == Min({Len(base) - off, Len(target) - pos})
    IN  Max({n \in 0..limit : \A k \in 1..n : base[off + k] = target[pos + k]})

\* The blocks of base in the index that match at pos.  (A collision of the hash
\* adds offsets with a shorter match, which are not used.)
Candidates(base, target, pos) ==
    {off \in 0..(Len(base) - Block) :
        off % Block = 0 /\ MatchLength(base, off, target, pos) >= Block}

\* The first of the offsets with the longest match.
BestOffset(base, target, pos) ==
    LET offs == Candidates(base, target, pos)
        longest == Max({MatchLength(base, off, target, pos) : off \in offs})
    IN  Min({off \in offs : MatchLength(base, off, target, pos) = longest})

\* The loop of compute_delta from pos on: the bytes to insert before the next
\* copy, and the instructions from that copy on.
Instructions(base, target) ==
    LET from[pos \in 0..Len(target)] ==
            IF pos = Len(target) THEN [inserts |-> <<>>, code |-> <<>>]
            ELSE IF Candidates(base, target, pos) = {}
            THEN LET rest == from[pos + 1]
                 IN  [rest EXCEPT !.inserts = <<target[pos + 1]>> \o @]
            ELSE LET off == BestOffset(base, target, pos)
                     len == MatchLength(base, off, target, pos)
                     rest == from[pos + len]
                 IN  [inserts |-> <<>>,
                      code |-> EmitCopies(off, len) \o FlushInserts(rest.inserts) \o rest.code]
    IN  from

ComputeDelta(base, target) ==
    LET all == Instructions(base, target)[0]
    IN  EncodeSize[Len(base)] \o EncodeSize[Len(target)] \o FlushInserts(all.inserts) \o all.code

-----------------------------------------------------------------------------
(* apply_delta *)

\* A length of zero stands for the longest copy.
CopySize(size) == IF size = 0 THEN MaxCopy ELSE size

\* The first n arguments of the copy at pos: the bits left, the place behind the
\* bytes read, and the arguments.
Arguments(s, pos) ==
    LET read[n \in 0..7] ==
            IF n = 0 THEN [bits |-> s[pos + 1] - High, next |-> pos + 1, args |-> <<>>]
            ELSE LET r == read[n - 1]
                     set == r.bits % 2 = 1 /\ r.next < Len(s)
                 IN  [bits |-> r.bits \div 2, next |-> r.next + (r.bits % 2),
                      args |-> Append(r.args, IF set THEN s[r.next + 1] ELSE 0)]
    IN  read

\* A copy: its command and the argument bytes.  An argument beyond the end of
\* the delta is an index out of range, a panic.
ReadCopy(s, pos) ==
    LET r == Arguments(s, pos)[7]
    IN  IF r.next > Len(s) THEN Fail("panic")
        ELSE Ok([offset |-> FromDigits(r.args[1], r.args[2], r.args[3], r.args[4]),
                 size |-> CopySize(FromDigits(r.args[5], r.args[6], r.args[7], 0))], r.next)

Prepend(bytes, r) == IF r.status = "ok" THEN Ok(bytes \o r.value, r.next) ELSE r

\* The loop of apply_delta: what the instructions from pos on give.
Execute(source, delta) ==
    LET from[pos \in 0..Len(delta)] ==
            IF pos = Len(delta) THEN Ok(<<>>, pos)
            ELSE IF delta[pos + 1] >= High
            THEN LET copy == ReadCopy(delta, pos)
                 IN  IF copy.status # "ok" THEN copy
                     ELSE IF copy.value.offset + copy.value.size > Len(source) THEN Fail("error")
                     ELSE Prepend(SubSeq(source, copy.value.offset + 1, copy.value.offset + copy.value.size),
                                  from[copy.next])
            ELSE LET end == pos + 1 + delta[pos + 1]
                 IN  IF delta[pos + 1] = 0 \/ end > Len(delta) THEN Fail("error")
                     ELSE Prepend(SubSeq(delta, pos + 2, end), from[end])
    IN  from

\* The size of the source is read and not compared.
ApplyDelta(source, delta) ==
    LET src == ReadSize(delta, 0)
        tgt == ReadSize(delta, src.next)
        target == Execute(source, delta)[tgt.next]
    IN  IF src.status # "ok" THEN src
        ELSE IF tgt.status # "ok" THEN tgt
        ELSE IF target.status # "ok" THEN target
        ELSE IF Len(target.value) # tgt.value THEN Fail("error") ELSE target
=============================================================================
