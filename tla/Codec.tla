-------------------------------- MODULE Codec --------------------------------
(***************************************************************************)
(* What is pushed on its way through git-core: the request of git, its     *)
(* lines and its pack (pktline.rs), packs written by git or by git-core    *)
(* (packfile.rs, build_with_bases), and the objects that a reader who has  *)
(* the bases gets out of them (parse, apply_delta).                        *)
(***************************************************************************)
EXTENDS Packfile, PktLine

CONSTANTS
    Programs,   \* who writes the pack: "git", "git-core"
    Pushes      \* [objects, bases, commands]: what there is to write, what the
                \* receiver has, and the lines in front of the pack

\* A line is no longer than one can be.  (git's are shorter, LARGE_PACKET_MAX.)
ASSUME CommandsAreLines ==
    \A p \in Pushes :
        /\ p.commands \in Seq(Range(p.commands))
        /\ \A line \in Range(p.commands) :
              line \in Seq(Range(line)) /\ Len(line) <= Longest /\ \A b \in Range(line) : IsByte(b)

\* Objects have a type and bytes, which copies can address.
ASSUME ObjectsAreAddressed ==
    \A p \in Pushes : \A objs \in {p.objects, p.bases} :
        /\ objs \in Seq([obj_type : DOMAIN TypeBits, data : Seq(Nat)])
        /\ \A i \in 1..Len(objs) : Len(objs[i].data) <= MaxSource

VARIABLES
    pc,         \* "write", "sent", "stored", "read"
    writer,
    push,
    body,       \* the request
    commands,   \* the lines received
    pack,       \* what is stored: a pack, or nothing
    objects     \* what is read back, or an error

vars == <<pc, writer, push, body, commands, pack, objects>>

\* The last entry of its type before each, as build_with_bases has it, or any
\* entry of its type, as git does.
FormsOf(program, sorted, bases, i) ==
    LET same == {j \in 1..(i - 1) : sorted[j].obj_type = sorted[i].obj_type}
    IN  Forms(sorted, bases, i)
        \cup (IF program = "git" THEN {[kind |-> "ofs", of |-> j] : j \in same} ELSE {})

PackForms(program) ==
    LET sorted == Sorted(push.objects)
        all == UNION {FormsOf(program, sorted, push.bases, i) : i \in 1..Len(sorted)}
    IN  {f \in [1..Len(sorted) -> all] :
            \A i \in 1..Len(sorted) : f[i] \in FormsOf(program, sorted, push.bases, i)}

\* A pack, one element of a request.
PackOf(forms) == << <<"pack", BuildWithBases(push.objects, push.bases, forms)>> >>

\* git sends its commands, a flush, and a pack unless it only deletes.
Send ==
    /\ pc = "write" /\ writer = "git"
    /\ \E forms \in PackForms("git") :
          body' = FlattenSeq([i \in 1..Len(push.commands) |-> Encode(push.commands[i])]) \o Flush
                  \o (IF push.objects = <<>> THEN <<>> ELSE PackOf(forms))
    /\ pc' = "sent"
    /\ UNCHANGED <<writer, push, commands, pack, objects>>

\* The server separates the two and stores the pack as it is.
Receive ==
    /\ pc = "sent"
    /\ LET r == ReadUntilFlush(body)
       IN  /\ commands' = r.lines
           /\ pack' = r.rest
    /\ pc' = "stored"
    /\ UNCHANGED <<writer, push, body, objects>>

\* The service worker and the server write packs of their own.
Build ==
    /\ pc = "write" /\ writer = "git-core"
    /\ \E forms \in PackForms("git-core") :
          pack' = PackOf(forms)
    /\ pc' = "stored"
    /\ UNCHANGED <<writer, push, body, commands, objects>>

\* What a delta gives once its base is known.
Completed(r) ==
    IF r.kind = "object" THEN Ok([obj_type |-> r.obj_type, data |-> r.data], 0)
    ELSE AndThen(ApplyChain(r.base.data, r.deltas), LAMBDA d :
            Ok([obj_type |-> r.base.obj_type, data |-> d.value], 0))

\* The objects of a pack, or why there are none.
ReadBack(r) == IF r.status = "ok" THEN [i \in 1..Len(r.value) |-> Completed(r.value[i])] ELSE <<r>>

\* A reader parses the pack and applies the deltas to the bases it has.
Read ==
    /\ pc = "stored"
    /\ objects' = IF pack = <<>> THEN <<>>
                  ELSE ReadBack(Parse(pack[1][2]))
    /\ pc' = "read"
    /\ UNCHANGED <<writer, push, body, commands, pack>>

Init ==
    /\ pc = "write"
    /\ writer \in Programs
    /\ push \in Pushes
    /\ body = <<>> /\ commands = <<>> /\ pack = <<>> /\ objects = <<>>

Next == Send \/ Receive \/ Build \/ Read

Spec == Init /\ [][Next]_vars

-----------------------------------------------------------------------------
(* Properties *)

\* The state is well-typed; reading a pack never panics: no delta or number ends
\* too early, no delta is its own base (parse, apply_delta).
TypeOK ==
    /\ pc \in {"write", "sent", "stored", "read"}
    /\ Len(commands) <= Len(push.commands)
    /\ \A i \in 1..Len(objects) : objects[i].status \in {"ok", "error"}

\* The lines of a request, as long as a line can be, are received as they were
\* sent, and what follows the flush is the pack (read_until_flush).
CommandsIntact ==
    pc \in {"stored", "read"} /\ writer = "git" =>
        commands = push.commands /\ (pack = <<>> <=> push.objects = <<>>)

\* However a pack is compressed, a reader who has its bases gets exactly the
\* objects that were put into it: offsets, sizes, copies and inserts at their
\* boundaries, and deltas stacked on deltas, are read as they are written
\* (build_with_bases, parse, compute_delta, apply_delta).
ObjectsIntact ==
    pc = "read" =>
        /\ \A i \in 1..Len(objects) : objects[i].status = "ok"
        /\ [i \in 1..Len(objects) |-> objects[i].value] = Sorted(push.objects)

\* The size in front of each entry is that of the data in it, the object or the
\* delta: parse does not compare the two, git does (encode_pack_header).
SizesRight ==
    pc = "stored" /\ pack # <<>> =>
        LET entries == Entries(pack[1][2]).value
        IN  \A i \in 1..Len(entries) : entries[i].size = Len(entries[i].data)
=============================================================================
