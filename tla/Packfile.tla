------------------------------- MODULE Packfile -------------------------------
(***************************************************************************)
(* Packs as git-core writes and parses them (packfile.rs).                 *)
(*                                                                         *)
(* A pack is a sequence of bytes in which three things are one element     *)
(* each: the header with the number of objects, a base's SHA-1, which is   *)
(* the object itself, and what zlib makes of some data, which is the data. *)
(***************************************************************************)
EXTENDS Delta

CONSTANT Nibble     \* 0x10: the radix of the first digit of an object's size

ASSUME PackConstants == Nibble \in Nat /\ Nibble > 1

\* Object types with their bits, and in the order of their names.
TypeBits == [blob |-> 3, commit |-> 1, tag |-> 4, tree |-> 2]
TypeRank == [blob |-> 1, commit |-> 2, tag |-> 3, tree |-> 4]
OfsDelta == 6
RefDelta == 7

-----------------------------------------------------------------------------
(* Numbers in a pack *)

\* Mutant: the high digits of the size start where those of a delta's do.
HeaderShiftedByHigh(type, size) ==
    IF size < Nibble THEN <<type * Nibble + size>>
    ELSE <<8 * Nibble + type * Nibble + (size % Nibble)>> \o EncodeSize[size \div High]

\* encode_pack_header: type and the low digit of the size, then the others.
EncodePackHeader(type, size) ==
    IF size < Nibble THEN <<type * Nibble + size>>
    ELSE <<8 * Nibble + type * Nibble + (size % Nibble)>> \o EncodeSize[size \div Nibble]

\* The start of an entry in parse, which uses the size as a capacity only.
ReadPackHeader(s, pos) ==
    LET type == (s[pos + 1] \div Nibble) % 8
        low == s[pos + 1] % Nibble
    IN  IF s[pos + 1] < 8 * Nibble THEN Ok([type |-> type, size |-> low], pos + 1)
        ELSE AndThen(ReadSize(s, pos + 1), LAMBDA high :
                Ok([type |-> type, size |-> low + Nibble * high.value], high.next))

\* The high digits of an offset, each less one.
OfsDigits[off \in Nat] ==
    IF off = 0 THEN <<>>
    ELSE OfsDigits[(off - 1) \div High] \o <<((off - 1) % High) + High>>

\* Mutant: the low digit alone is written.
OnlyLowDigit(off) == <<off % High>>

\* encode_ofs_offset.
EncodeOfsOffset(off) == OfsDigits[off \div High] \o <<off % High>>

\* The offset of an OFS_DELTA in parse.  No last digit is an index out of range.
ReadOfsOffset(s, pos) ==
    LET ends == {k \in (pos + 1)..Len(s) : (\A j \in (pos + 1)..(k - 1) : s[j] >= High) /\ s[k] < High}
        last == CHOOSE k \in ends : TRUE
        upto[k \in (pos + 1)..last] ==
            IF k = pos + 1 THEN s[k] % High ELSE (upto[k - 1] + 1) * High + (s[k] % High)
    IN  IF ends = {} THEN Fail("panic") ELSE Ok(upto[last], last)

-----------------------------------------------------------------------------
(* build_with_bases *)

\* Objects are sorted by type, then the largest first; the sort is stable.
Before(objects, i, j) ==
    LET a == objects[i]
        b == objects[j]
    IN  \/ TypeRank[a.obj_type] < TypeRank[b.obj_type]
        \/ a.obj_type = b.obj_type /\ Len(a.data) > Len(b.data)
        \/ a.obj_type = b.obj_type /\ Len(a.data) = Len(b.data) /\ i < j

\* The objects in the order of their entries.
Sorted(objects) ==
    LET order == CHOOSE p \in [1..Len(objects) -> 1..Len(objects)] :
                    \A i, j \in 1..Len(objects) : i < j => Before(objects, p[i], p[j])
    IN  [i \in 1..Len(objects) |-> objects[order[i]]]

Whole == [kind |-> "whole", of |-> 0]

\* What entry i may be: the object itself, a delta against a base of its type,
\* or one against the last entry of its type.  Which is the shortest, and short
\* enough, is left open.
Forms(sorted, bases, i) ==
    LET same == {j \in 1..(i - 1) : sorted[j].obj_type = sorted[i].obj_type}
    IN  {Whole}
        \cup {[kind |-> "ref", of |-> b] : b \in {k \in 1..Len(bases) : bases[k].obj_type = sorted[i].obj_type}}
        \cup (IF same = {} THEN {} ELSE {[kind |-> "ofs", of |-> Max(same)]})

\* The bytes of an entry that starts at pos; starts are those of the earlier ones.
Entry(object, form, sorted, bases, starts, pos) ==
    CASE form.kind = "whole" ->
            EncodePackHeader(TypeBits[object.obj_type], Len(object.data)) \o << <<"zlib", object.data>> >>
      [] form.kind = "ref" ->
            LET delta == ComputeDelta(bases[form.of].data, object.data)
            IN  EncodePackHeader(RefDelta, Len(delta))
                \o << <<"sha1", bases[form.of]>>, <<"zlib", delta>> >>
      [] form.kind = "ofs" ->
            LET delta == ComputeDelta(sorted[form.of].data, object.data)
            IN  EncodePackHeader(OfsDelta, Len(delta))
                \o EncodeOfsOffset(pos - starts[form.of]) \o << <<"zlib", delta>> >>

\* The second pass: the entries one after the other, then the checksum.
BuildWithBases(objects, bases, forms) ==
    LET sorted == Sorted(objects)
        written[i \in 0..Len(objects)] ==
            IF i = 0 THEN [bytes |-> << <<"PACK", Len(objects)>> >>, starts |-> <<>>]
            ELSE LET out == written[i - 1]
                     pos == Len(out.bytes)
                 IN  [bytes |-> out.bytes \o Entry(sorted[i], forms[i], sorted, bases, out.starts, pos),
                      starts |-> Append(out.starts, pos)]
    IN  Append(written[Len(objects)].bytes, <<"checksum", 0>>)

-----------------------------------------------------------------------------
(* parse *)

\* The rest of an entry that starts at start, behind its type and size.
ReadBody(s, head, start) ==
    LET entry(kind, type, base, basePos, n) ==
            Ok([kind |-> kind, obj_type |-> type, base |-> base, base_pos |-> basePos,
                start |-> start, size |-> head.value.size, data |-> s[n][2]], n)
        named == {t \in DOMAIN TypeBits : TypeBits[t] = head.value.type}
    IN  CASE head.value.type = RefDelta -> entry("ref", "", s[head.next + 1][2], 0, head.next + 2)
          [] head.value.type = OfsDelta ->
                AndThen(ReadOfsOffset(s, head.next), LAMBDA ofs :
                    IF ofs.value > start THEN Fail("error")
                    ELSE entry("ofs", "", <<>>, start - ofs.value, ofs.next + 1))
          [] OTHER ->
                IF named = {} THEN Fail("error")
                ELSE entry("object", CHOOSE t \in named : TRUE, <<>>, 0, head.next + 1)

\* One entry.
ReadEntry(s, pos) ==
    IF pos = Len(s) THEN Fail("error")
    ELSE AndThen(ReadPackHeader(s, pos), LAMBDA head : ReadBody(s, head, pos))

\* The first pass: the header says how many entries there are.
Entries(pack) ==
    LET read[n \in 0..pack[1][2]] ==
            IF n = 0 THEN Ok(<<>>, 1)
            ELSE AndThen(read[n - 1], LAMBDA r :
                    AndThen(ReadEntry(pack, r.next), LAMBDA e : Ok(Append(r.value, e.value), e.next)))
    IN  read[pack[1][2]]

Object(type, data) == [kind |-> "object", obj_type |-> type, data |-> data, base |-> <<>>, deltas |-> <<>>]
External(base, deltas) == [kind |-> "external", obj_type |-> "", data |-> <<>>, base |-> base, deltas |-> deltas]

\* Mutant: a delta on an unresolved one is put before it.
StackBelow(below, delta) == External(below.base, <<delta>> \o below.deltas)

\* A delta stacked on one whose base is not in this pack is applied after it.
StackOn(below, delta) == External(below.base, Append(below.deltas, delta))

\* An entry that rests on no other one of the pack.
Alone(e) == IF e.kind = "object" THEN Object(e.obj_type, e.data) ELSE External(e.base, <<e.data>>)

\* resolve: an object, or the base elsewhere and the deltas to apply to it.  (An
\* offset of 0, which no program writes, is a recursion without end.)
Resolve(entries) ==
    LET resolved[i \in 1..Len(entries)] ==
            LET e == entries[i]
                below == SelectInSeq(entries, LAMBDA d : d.start = e.base_pos)
            IN  IF e.kind # "ofs" THEN Ok(Alone(e), i)
                ELSE IF below = 0 THEN Fail("error")
                ELSE IF below >= i THEN Fail("panic")
                ELSE AndThen(resolved[below], LAMBDA r :
                        IF r.value.kind = "external" THEN Ok(StackOn(r.value, e.data), i)
                        ELSE AndThen(ApplyDelta(r.value.data, e.data), LAMBDA d :
                                Ok(Object(r.value.obj_type, d.value), i)))
    IN  resolved

\* All of the results, or the first error.
AllOf(results) ==
    LET bad == SelectInSeq(results, LAMBDA r : r.status # "ok")
    IN  IF bad = 0 THEN Ok([i \in 1..Len(results) |-> results[i].value], 0) ELSE results[bad]

\* parse: the resolutions of all entries.
Parse(pack) ==
    IF pack = <<>> THEN Fail("error")
    ELSE AndThen(Entries(pack), LAMBDA read :
            AllOf([i \in 1..Len(read.value) |-> Resolve(read.value)[i]]))

\* What a caller of parse makes of a delta whose base it has.
ApplyChain(base, deltas) ==
    LET after[n \in 0..Len(deltas)] ==
            IF n = 0 THEN Ok(base, 0)
            ELSE AndThen(after[n - 1], LAMBDA r : ApplyDelta(r.value, deltas[n]))
    IN  after[Len(deltas)]
=============================================================================
