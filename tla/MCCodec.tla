------------------------------- MODULE MCCodec -------------------------------
(* Contents that differ by what a delta can say: runs of zeros and ones. *)
EXTENDS Codec

CONSTANTS MaxShort, MaxLong

Strings(n) == UNION {[1..k -> {0, 1}] : k \in 0..n}

Blob(data) == [obj_type |-> "blob", data |-> data]
Tree(data) == [obj_type |-> "tree", data |-> data]

\* A run of zeros, longer than the longest copies and inserts, a part of
\* it that is moved, and two that share only a block with it.
Zeros(n) == [i \in 1..n |-> 0]
Mixed(n) == [i \in 1..n |-> (i \div 3) % 2]
Long == {Zeros(MaxLong), Mixed(MaxLong), SubSeq(Mixed(MaxLong), 5, MaxLong), Mixed(7) \o Zeros(6)}

Line(n) == [i \in 1..n |-> <<"text", i>>]

Commands == {<<Line(1)>>, <<Line(Longest), Line(7)>>}

\* Every two contents as base and object, then three objects and a base.
MCPushes ==
    {[objects |-> <<Blob(t)>>, bases |-> <<Blob(b)>>, commands |-> <<Line(1)>>] :
        b \in Strings(MaxShort), t \in Strings(MaxShort)}
    \cup {[objects |-> <<Blob(s), x, Blob(t)>>, bases |-> <<Blob(b)>>, commands |-> c] :
            s \in Long, x \in {Blob(Zeros(1)), Tree(Zeros(9))} \cup {Blob(l) : l \in Long},
            t \in Long, b \in Long, c \in Commands}
    \cup {[objects |-> <<>>, bases |-> <<>>, commands |-> c] : c \in Commands}
=============================================================================
