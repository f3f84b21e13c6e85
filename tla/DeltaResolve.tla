----------------------------- MODULE DeltaResolve -----------------------------
(***************************************************************************)
(* The loops that turn the packs of the contract back into objects before  *)
(* they are served.  The service worker gathers every pack and then makes  *)
(* passes over all pending deltas (near-git-sw.js, handleUploadPack and    *)
(* handleReceivePack); the HTTP server makes the passes after each pack,   *)
(* over that pack's deltas only (git-server/src/main.rs,                   *)
(* handle_upload_pack).                                                    *)
(*                                                                         *)
(* A delta is the object it needs and the object it gives; one whose       *)
(* chain of further deltas is stacked on it gives the object at the top.   *)
(* The order within a pass is left open.                                   *)
(***************************************************************************)
EXTENDS Integers, Sequences

CONSTANTS
    Objects,    \* objects by sha
    Corrupt,    \* what a delta gives that cannot be applied to its base
    Inputs      \* the lists of packs get_packs(0) may answer with

Delta == [base: Objects, result: Objects \cup {Corrupt}]

PackType == [parses: BOOLEAN, objects: SUBSET Objects, deltas: SUBSET Delta]

ASSUME ResolveConstants ==
    /\ Corrupt \notin Objects
    /\ Inputs \subseteq Seq(PackType)

VARIABLES
    reader,     \* the program: "server" or "worker"
    packs,      \* the input
    k,          \* packs gathered so far
    local,      \* localMap: the objects resolved so far
    pending,    \* deltas not yet applied
    todo,       \* of those, the ones this pass has still to look at
    progress,   \* the pass applied a delta
    pc          \* "gather", "pass", "done", or "failed": an exception

vars == <<reader, packs, k, local, pending, todo, progress, pc>>

\* The server makes its passes after each pack.
PerPack == reader = "server"

\* All packs gathered: the server is done, the service worker begins.
Finish ==
    /\ pc = "gather"
    /\ k = Len(packs)
    /\ pc' = IF PerPack THEN "done" ELSE "pass"
    /\ todo' = pending
    /\ progress' = FALSE
    /\ UNCHANGED <<reader, packs, k, local, pending>>

\* The next pack's objects and deltas; one that does not parse is skipped by
\* the server and throws in the service worker.
Gather ==
    /\ pc = "gather"
    /\ k < Len(packs)
    /\ LET pack == packs[k + 1]
       IN  IF pack.parses
           THEN /\ local' = local \cup pack.objects
                /\ pending' = pending \cup pack.deltas
                /\ pc' = IF PerPack THEN "pass" ELSE "gather"
           ELSE /\ pc' = IF PerPack THEN "gather" ELSE "failed"
                /\ UNCHANGED <<local, pending>>
    /\ k' = k + 1
    /\ todo' = pending'
    /\ progress' = FALSE
    /\ UNCHANGED <<reader, packs>>

\* A base that is not there keeps the delta for the next pass.
Keep(d) ==
    /\ pc = "pass"
    /\ d.base \notin local
    /\ todo' = todo \ {d}
    /\ UNCHANGED <<reader, packs, k, local, pending, progress, pc>>

\* Mutants: the base is not looked up; the result is not checked; the pass
\* forgets that it made progress; the delta stays pending.
ApplyBlind(d) ==
    /\ pc = "pass"
    /\ d.result # Corrupt
    /\ local' = local \cup {d.result}
    /\ pending' = pending \ {d}
    /\ todo' = todo \ {d}
    /\ progress' = TRUE
    /\ UNCHANGED <<reader, packs, k, pc>>

ApplyAny(d) ==
    /\ pc = "pass"
    /\ d.base \in local
    /\ local' = local \cup {d.result}
    /\ pending' = pending \ {d}
    /\ todo' = todo \ {d}
    /\ progress' = TRUE
    /\ UNCHANGED <<reader, packs, k, pc>>

ApplyQuietly(d) ==
    /\ pc = "pass"
    /\ d.base \in local
    /\ d.result # Corrupt
    /\ local' = local \cup {d.result}
    /\ pending' = pending \ {d}
    /\ todo' = todo \ {d}
    /\ UNCHANGED <<reader, packs, k, progress, pc>>

ApplyAgain(d) ==
    /\ pc = "pass"
    /\ d.base \in local
    /\ d.result # Corrupt
    /\ local' = local \cup {d.result}
    /\ todo' = todo \ {d}
    /\ progress' = TRUE
    /\ UNCHANGED <<reader, packs, k, pending, pc>>

Apply(d) ==
    /\ pc = "pass"
    /\ d.base \in local
    /\ d.result # Corrupt
    /\ local' = local \cup {d.result}
    /\ pending' = pending \ {d}
    /\ todo' = todo \ {d}
    /\ progress' = TRUE
    /\ UNCHANGED <<reader, packs, k, pc>>

\* apply_delta fails: the server gives up on this one, the service worker
\* lets the exception end the request.
GiveUp(d) ==
    /\ pc = "pass"
    /\ d.base \in local
    /\ d.result = Corrupt
    /\ pending' = pending \ {d}
    /\ todo' = todo \ {d}
    /\ pc' = IF PerPack THEN "pass" ELSE "failed"
    /\ UNCHANGED <<reader, packs, k, local, progress>>

\* while progress && pending is not empty.
NextPass ==
    /\ pc = "pass"
    /\ todo = {}
    /\ progress
    /\ todo' = pending
    /\ progress' = FALSE
    /\ UNCHANGED <<reader, packs, k, local, pending, pc>>

\* The server's pending list is a local of the loop over the packs: what is
\* left of it is dropped.
LastPass ==
    /\ pc = "pass"
    /\ todo = {}
    /\ ~progress
    /\ IF PerPack
       THEN pc' = "gather" /\ pending' = {}
       ELSE pc' = "done" /\ UNCHANGED pending
    /\ UNCHANGED <<reader, packs, k, local, todo, progress>>

Init ==
    /\ reader \in {"server", "worker"}
    /\ packs \in Inputs
    /\ k = 0
    /\ local = {}
    /\ pending = {}
    /\ todo = {}
    /\ progress = FALSE
    /\ pc = "gather"

Next ==
    \/ Gather \/ Finish
    \/ \E d \in todo : Keep(d) \/ Apply(d) \/ GiveUp(d)
    \/ NextPass \/ LastPass

Spec == Init /\ [][Next]_vars

\* A loop of synchronous code: it runs.
FairSpec == Spec /\ WF_vars(Next)

-----------------------------------------------------------------------------
(* Properties *)

\* Type invariant.
TypeOK ==
    /\ reader \in {"server", "worker"}
    /\ packs \in Seq(PackType)
    /\ k \in 0..Len(packs)
    /\ local \subseteq Objects
    /\ pending \subseteq Delta
    /\ todo \subseteq pending
    /\ progress \in BOOLEAN
    /\ pc \in {"gather", "pass", "done", "failed"}

\* The packs a reader parses among the first n.
Parsed(n) == {j \in 1..n : packs[j].parses}

Deltas(n) == UNION {packs[j].deltas : j \in Parsed(n)}

Given(n) == UNION {packs[j].objects : j \in Parsed(n)}

\* S has every object of the first n packs and whatever their deltas give.
Closed(S, n) ==
    /\ Given(n) \subseteq S
    /\ \A d \in Deltas(n) : d.base \in S /\ d.result # Corrupt => d.result \in S

\* What is served was stored: every object is in each closed set, so none is
\* made up from another request's base (handleUploadPack, handle_upload_pack).
NothingInvented ==
    \A S \in SUBSET Objects : Closed(S, k) => local \subseteq S

\* The service worker serves every object that can be had from the packs,
\* whichever pack holds a base and in whatever order the passes meet the
\* deltas: with NothingInvented, exactly the least closed set.
ServesEverything == ~PerPack /\ pc = "done" => Closed(local, k)

\* No delta of a pack needs an object only a later pack gives.
BasesEarlier ==
    \A n \in 1..Len(packs) : \A d \in packs[n].deltas :
        \A S \in SUBSET Objects : Closed(S, n) => d.base \in S

\* The server serves every object too, as long as no base comes in a later
\* pack than a delta on it.
ServesIfBasesEarlier == BasesEarlier /\ pc = "done" => Closed(local, k)

\* "a delta's base may live in a later-iterated pack" (both programs): it is
\* served all the same.
LaterBaseServed == pc = "done" => Closed(local, k)

\* The passes end.
Ends == <>(pc \in {"done", "failed"})
=============================================================================
