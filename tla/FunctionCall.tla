----------------------------- MODULE FunctionCall -----------------------------
(***************************************************************************)
(* The transactions of the service worker (near-git-sw.js,                 *)
(* nearFunctionCall): each takes its nonce from a view of the access key   *)
(* that may be stale and from the nonces this instance has handed out,     *)
(* and is signed again, at most twice, when its nonce is refused.          *)
(*                                                                         *)
(* The calls of concurrent requests interleave at their awaits.  A node    *)
(* of the network answers from any state the key has been in; a            *)
(* transaction it forwards may be executed long after the call gave up.    *)
(***************************************************************************)
EXTENDS Integers, FiniteSets

CONSTANTS
    Calls,          \* invocations of nearFunctionCall, all with one key
    MaxForeign,     \* transactions signed with the key elsewhere
    MaxRestarts     \* times the browser stops the service worker

ASSUME CallConstants == MaxForeign \in Nat /\ MaxRestarts \in Nat

\* attempt < 2.  Mutant: one retry less.
FewerRetries == 1

MaxRetries == 2

VARIABLES
    pc,         \* [Calls -> where the call is or how it ended]
    txNonce,    \* [Calls -> nonce of the transaction last signed]
    attempt,    \* [Calls -> times it was signed again]
    lastUsed,   \* lastUsedNonces[nonceKey]
    ak,         \* the nonce of the access key
    seen,       \* the nonces it has had
    pool,       \* transactions forwarded and not yet executed or dropped
    runs,       \* [Calls -> times the call was executed]
    result,     \* [Calls -> the outcome of its execution]
    clean,      \* TRUE: the key was used by this instance alone, one call at a time
    foreign,    \* transactions signed elsewhere so far
    restarts    \* restarts so far

worker == <<pc, txNonce, attempt, lastUsed>>
chain == <<ak, seen, pool, runs, result>>
vars == <<worker, chain, clean, foreign, restarts>>

Larger(m, n) == IF m >= n THEN m ELSE n

Live == {"query", "sent", "waiting"}

Ended == {"success", "panicked", "failed", "refused", "lost"}

-----------------------------------------------------------------------------
(* The service worker *)

\* The call asks for the access key.
Start(c) ==
    /\ pc[c] = "idle"
    /\ pc' = [pc EXCEPT ![c] = "query"]
    /\ clean' = (clean /\ \A d \in Calls : pc[d] \notin Live)
    /\ UNCHANGED <<txNonce, attempt, lastUsed, chain, foreign, restarts>>

\* Mutant: lastUsedNonces is not consulted.
SignFromView(c) ==
    /\ pc[c] = "query"
    /\ \E v \in seen :
          /\ txNonce' = [txNonce EXCEPT ![c] = v + 1]
          /\ lastUsed' = v + 1
    /\ pc' = [pc EXCEPT ![c] = "sent"]
    /\ UNCHANGED <<attempt, chain, clean, foreign, restarts>>

\* The answer, of any age: the nonce is chosen, noted, signed and sent before
\* the next await.
Sign(c) ==
    /\ pc[c] = "query"
    /\ \E v \in seen :
          LET nonce == Larger(v, lastUsed) + 1
          IN  /\ txNonce' = [txNonce EXCEPT ![c] = nonce]
              /\ lastUsed' = nonce
    /\ pc' = [pc EXCEPT ![c] = "sent"]
    /\ UNCHANGED <<attempt, chain, clean, foreign, restarts>>

\* Mutant: no bound on the retries.
ResignForever(c, v) ==
    /\ txNonce' = [txNonce EXCEPT ![c] = v + 1]
    /\ lastUsed' = v + 1
    /\ attempt' = [attempt EXCEPT ![c] = @ + 1]
    /\ UNCHANGED pc

\* The call signs again from the nonce in the error, or passes the error on.
Resign(c, v) ==
    /\ attempt[c] < MaxRetries
    /\ txNonce' = [txNonce EXCEPT ![c] = v + 1]
    /\ lastUsed' = v + 1
    /\ attempt' = [attempt EXCEPT ![c] = @ + 1]
    /\ UNCHANGED pc

PassOn(c) ==
    /\ attempt[c] >= MaxRetries
    /\ pc' = [pc EXCEPT ![c] = "refused"]
    /\ UNCHANGED <<txNonce, lastUsed, attempt>>

\* A node finds the nonce used: the transaction goes no further.
InvalidNonce(c) ==
    /\ pc[c] = "sent"
    /\ \E v \in seen :
          /\ txNonce[c] <= v
          /\ Resign(c, v) \/ PassOn(c)
    /\ UNCHANGED <<chain, clean, foreign, restarts>>

\* Mutant: a result is a success, whatever its status.
AnswerAnyStatus(c) ==
    /\ pc[c] = "waiting"
    /\ runs[c] > 0
    /\ pc' = [pc EXCEPT ![c] = "success"]
    /\ UNCHANGED <<txNonce, attempt, lastUsed, chain, clean, foreign, restarts>>

\* broadcast_tx_commit answers with the outcome of the execution.
Answer(c) ==
    /\ pc[c] = "waiting"
    /\ runs[c] > 0
    /\ pc' = [pc EXCEPT ![c] = IF result[c] = "value" THEN "success" ELSE "panicked"]
    /\ UNCHANGED <<txNonce, attempt, lastUsed, chain, clean, foreign, restarts>>

\* Mutant: any error is retried.
RetryAnyError(c) ==
    /\ pc[c] \in Live
    /\ IF pc[c] = "waiting" /\ attempt[c] < MaxRetries
       THEN /\ pc' = [pc EXCEPT ![c] = "sent"]
            /\ txNonce' = [txNonce EXCEPT ![c] = @ + 1]
            /\ attempt' = [attempt EXCEPT ![c] = @ + 1]
       ELSE /\ pc' = [pc EXCEPT ![c] = "failed"]
            /\ UNCHANGED <<txNonce, attempt>>
    /\ UNCHANGED <<lastUsed, chain, clean, foreign, restarts>>

\* Any other error: the query or the broadcast fails, or the node stops
\* waiting for the outcome.
OtherError(c) ==
    /\ pc[c] \in Live
    /\ pc' = [pc EXCEPT ![c] = "failed"]
    /\ UNCHANGED <<txNonce, attempt, lastUsed, chain, clean, foreign, restarts>>

\* The browser stops the service worker and starts it again: its calls are
\* gone, its transactions are not.
Restart ==
    /\ restarts < MaxRestarts
    /\ restarts' = restarts + 1
    /\ lastUsed' = 0
    /\ pc' = [c \in Calls |-> IF pc[c] \in Live THEN "lost" ELSE pc[c]]
    /\ clean' = FALSE
    /\ UNCHANGED <<txNonce, attempt, chain, foreign>>

-----------------------------------------------------------------------------
(* The network *)

\* A node that finds the nonce unused forwards the transaction.
Forward(c) ==
    /\ pc[c] = "sent"
    /\ \E v \in seen : txNonce[c] > v
    /\ pool' = pool \cup {[call |-> c, nonce |-> txNonce[c]]}
    /\ pc' = [pc EXCEPT ![c] = "waiting"]
    /\ UNCHANGED <<txNonce, attempt, lastUsed, ak, seen, runs, result, clean, foreign, restarts>>

\* It is executed if its nonce is larger than the key's by then.
Execute(t) ==
    /\ t.nonce > ak
    /\ ak' = t.nonce
    /\ seen' = seen \cup {t.nonce}
    /\ pool' = pool \ {t}
    /\ runs' = [runs EXCEPT ![t.call] = @ + 1]
    /\ \E r \in {"value", "panic"} : result' = [result EXCEPT ![t.call] = r]
    /\ UNCHANGED <<worker, clean, foreign, restarts>>

\* It expires, or its nonce has been used in the meantime.
Drop(t) ==
    /\ pool' = pool \ {t}
    /\ UNCHANGED <<worker, ak, seen, runs, result, clean, foreign, restarts>>

\* Somebody else signs with the key: another page, or a command line.
Foreign ==
    /\ foreign < MaxForeign
    /\ foreign' = foreign + 1
    /\ ak' = ak + 1
    /\ seen' = seen \cup {ak + 1}
    /\ clean' = FALSE
    /\ UNCHANGED <<worker, pool, runs, result, restarts>>

-----------------------------------------------------------------------------
Init ==
    /\ pc = [c \in Calls |-> "idle"]
    /\ txNonce = [c \in Calls |-> 0]
    /\ attempt = [c \in Calls |-> 0]
    /\ lastUsed = 0
    /\ ak = 0
    /\ seen = {0}
    /\ pool = {}
    /\ runs = [c \in Calls |-> 0]
    /\ result = [c \in Calls |-> "none"]
    /\ clean = TRUE
    /\ foreign = 0
    /\ restarts = 0

Next ==
    \/ \E c \in Calls :
          \/ Start(c) \/ Sign(c) \/ InvalidNonce(c) \/ Answer(c)
          \/ OtherError(c) \/ Forward(c)
    \/ \E t \in pool : Execute(t) \/ Drop(t)
    \/ Restart \/ Foreign

Spec == Init /\ [][Next]_vars

-----------------------------------------------------------------------------
(* Properties *)

\* Type invariant.
TypeOK ==
    /\ pc \in [Calls -> {"idle"} \cup Live \cup Ended]
    /\ txNonce \in [Calls -> Nat]
    /\ attempt \in [Calls -> 0..MaxRetries]
    /\ lastUsed \in Nat
    /\ ak \in Nat
    /\ seen \subseteq 0..ak
    /\ pool \subseteq [call: Calls, nonce: Nat]
    /\ runs \in [Calls -> Nat]
    /\ result \in [Calls -> {"none", "value", "panic"}]
    /\ clean \in BOOLEAN
    /\ foreign \in 0..MaxForeign
    /\ restarts \in 0..MaxRestarts

\* However often it is signed again, and whatever of it is still under way, a
\* call is executed at most once: a push is never applied twice.
ExecutedAtMostOnce == \A c \in Calls : runs[c] <= 1

\* What the caller is told is so: success means executed, and a call refused
\* for its nonce is not executed and never will be.
AnswersAreTrue ==
    \A c \in Calls :
        /\ pc[c] = "success" => runs[c] = 1 /\ result[c] = "value"
        /\ pc[c] = "panicked" => runs[c] = 1 /\ result[c] = "panic"
        /\ pc[c] = "refused" => runs[c] = 0 /\ \A t \in pool : t.call # c

\* A call is refused for good only if three other transactions with the key
\* were executed: two concurrent calls never make a third fail.
RefusedOnlyIfOvertaken ==
    \A c \in Calls : pc[c] = "refused" => Cardinality(seen \ {0}) >= 3

\* What lastUsedNonces is for: a worker alone with its key that makes one call
\* at a time never has a nonce refused, however stale its views, and even if
\* earlier calls timed out and their transactions are still under way.
SequentialCallsNeverCollide ==
    clean => \A c \in Calls : attempt[c] = 0 /\ pc[c] # "refused"
=============================================================================
