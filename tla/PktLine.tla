------------------------------- MODULE PktLine -------------------------------
(***************************************************************************)
(* pkt-lines (git-core/src/pktline.rs): a payload behind its length, which *)
(* is written in four hexadecimal digits and counts them.                  *)
(*                                                                         *)
(* A byte is a pair: a digit of a length and its value, or something else. *)
(* The radix is a constant, so that a short line is as long as one can be. *)
(***************************************************************************)
EXTENDS Integers, Sequences

CONSTANT Hex    \* 16

ASSUME PktLineConstants == Hex \in Nat /\ Hex > 1

\* {:04x}: the last four digits of n.
Digits4(n) ==
    LET w == n \div Hex
        x == w \div Hex
        y == x \div Hex
    IN  << <<"digit", y % Hex>>, <<"digit", x % Hex>>, <<"digit", w % Hex>>, <<"digit", n % Hex>> >>

\* Mutant: the length counts the payload alone.
PayloadLength(payload) == Len(payload)

LineLength(payload) == Len(payload) + 4

\* encode.  (The length of a longer line would get a fifth digit.)
Encode(payload) == Digits4(LineLength(payload)) \o payload

Longest == Hex * Hex * Hex * Hex - 5

\* A byte that is a digit has a value below the radix.
IsByte(b) == b[1] = "digit" => b[2] \in 0..(Hex - 1)

Flush == [i \in 1..4 |-> <<"digit", 0>>]

\* The length at pos, or 0 if what is there is no number.
LengthAt(data, pos) ==
    LET digit(i) == data[pos + i][2]
    IN  IF \A i \in 1..4 : data[pos + i][1] = "digit"
        THEN ((digit(1) * Hex + digit(2)) * Hex + digit(3)) * Hex + digit(4)
        ELSE 0

Complete(data, pos, len) == pos + len <= Len(data)

\* The loop of read_until_flush from pos on: the lines, and where it stops.
Lines(data) ==
    LET from[pos \in 0..Len(data)] ==
            LET len == LengthAt(data, pos)
            IN  IF pos + 4 > Len(data) THEN [lines |-> <<>>, next |-> pos]
                ELSE IF len = 0 THEN [lines |-> <<>>, next |-> pos + 4]
                ELSE IF len < 4 \/ ~Complete(data, pos, len) THEN [lines |-> <<>>, next |-> pos]
                ELSE LET r == from[pos + len]
                     IN  [r EXCEPT !.lines = <<SubSeq(data, pos + 5, pos + len)>> \o @]
    IN  from

\* The lines, and what is left behind them.
ReadUntilFlush(data) ==
    LET r == Lines(data)[0]
    IN  [lines |-> r.lines, rest |-> SubSeq(data, r.next + 1, Len(data))]
=============================================================================
