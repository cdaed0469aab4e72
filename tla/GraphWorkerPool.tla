-------------------------- MODULE GraphWorkerPool --------------------------
(***************************************************************************)
(* The pool of workers that digitise reference graphs                      *)
(* (characterization/reference-graph-worker-pool.ts).  A worker runs from  *)
(* the settling of one graph to the start of the next without a break; the *)
(* first failure aborts the others, and the caller may cancel at any time. *)
(***************************************************************************)
EXTENDS Integers, FiniteSets, FiniteSetsExt

CONSTANT Concurrency
ASSUME PoolConcurrency == Concurrency \in Nat \ {0}

VARIABLES slots,     \* per graph: waiting, running, completed, failed or dropped
          crew,      \* per worker: the graph it is at, or AtRest
          cancelled, \* the caller's signal is aborted
          poolAborted,   \* the pool's own signal is aborted
          primary,   \* the graph whose failure stopped the pool, or AtRest
          outcome    \* what the pool returned
poolVars == <<slots, crew, cancelled, poolAborted, primary, outcome>>

AtRest == 0
Answered == {"idle", "results", "cancelled", "failed"}
Waiting(s) == {g \in DOMAIN s : s[g] = "waiting"}

PoolInit ==
    /\ slots = [g \in {} |-> "waiting"] /\ crew = [w \in {} |-> AtRest]
    /\ cancelled = FALSE /\ poolAborted = FALSE /\ primary = AtRest
    /\ outcome = [is |-> "idle", graph |-> AtRest]

(* The workers take the first graphs before anything else happens *)
StartPool(n) ==
    LET size == Min({Concurrency, n})
    IN  /\ outcome.is = "idle"
        /\ IF n = 0 THEN /\ outcome' = [is |-> "results", graph |-> AtRest]
                         /\ UNCHANGED <<slots, crew>>
           ELSE /\ slots' = [g \in 1..n |-> IF g <= size THEN "running" ELSE "waiting"]
                /\ crew' = [w \in 1..size |-> w]
                /\ outcome' = [is |-> "running", graph |-> AtRest]
        /\ UNCHANGED <<cancelled, poolAborted, primary>>

(* Mutant: whatever fails later takes the blame *)
StopsPoolAgain(how) == how # "completed"

(* A graph ends: completed, failed by itself, or dropped because of the    *)
(* abort.  The first failure of a pool that is not aborted stops it.       *)
StopsPool(how) == how # "completed" /\ ~poolAborted

SettleGraph(w, how) ==
    LET g == crew[w]
        ended == [slots EXCEPT ![g] = how]
        more == ~(poolAborted \/ StopsPool(how)) /\ Waiting(ended) # {}
    IN  /\ outcome.is = "running" /\ g # AtRest
        /\ how = "dropped" => poolAborted
        /\ slots' = IF more THEN [ended EXCEPT ![Min(Waiting(ended))] = "running"] ELSE ended
        /\ crew' = [crew EXCEPT ![w] = IF more THEN Min(Waiting(ended)) ELSE AtRest]
        /\ primary' = IF StopsPool(how) THEN g ELSE primary
        /\ poolAborted' = (poolAborted \/ StopsPool(how))
        /\ UNCHANGED <<cancelled, outcome>>

CancelPool ==
    /\ outcome.is = "running" /\ ~cancelled
    /\ cancelled' = TRUE /\ poolAborted' = TRUE
    /\ UNCHANGED <<slots, crew, primary, outcome>>

(* The pool answers when every worker is at rest *)
ReturnPool ==
    LET lost == {g \in DOMAIN slots : slots[g] \in {"failed", "dropped"}}
    IN  /\ outcome.is = "running" /\ \A w \in DOMAIN crew : crew[w] = AtRest
        /\ outcome' = CASE cancelled -> [is |-> "cancelled", graph |-> AtRest]
                        [] ~cancelled /\ primary # AtRest -> [is |-> "failed", graph |-> primary]
                        [] ~cancelled /\ primary = AtRest /\ lost # {} -> [is |-> "failed", graph |-> Min(lost)]
                        [] OTHER -> [is |-> "results", graph |-> AtRest]
        /\ UNCHANGED <<slots, crew, cancelled, poolAborted, primary>>

PoolNext ==
    \/ \E w \in DOMAIN crew, how \in {"completed", "failed", "dropped"} : SettleGraph(w, how)
    \/ CancelPool
    \/ ReturnPool

(* A pool for any number of graphs *)
PoolSpec == PoolInit /\ [][PoolNext \/ \E n \in Nat : StartPool(n)]_poolVars

-----------------------------------------------------------------------------
(* runReferenceGraphWorkerPool: graphs are taken in order, each by one     *)
(* worker; nothing is left running behind the answer; the results are of   *)
(* all graphs; and the failure told is one that a graph had by itself, of  *)
(* the first that failed, never the echo of the abort it caused.           *)
PoolAnswersForAll ==
    /\ \A g \in DOMAIN slots : slots[g] = "running" => Cardinality({w \in DOMAIN crew : crew[w] = g}) = 1
    /\ \A g, h \in DOMAIN slots : slots[g] = "waiting" /\ g < h => slots[h] = "waiting"
    /\ outcome.is \in Answered => \A g \in DOMAIN slots : slots[g] # "running"
    /\ outcome.is = "results" => \A g \in DOMAIN slots : slots[g] = "completed"
    /\ outcome.is = "failed" => slots[outcome.graph] = "failed" /\ ~cancelled
    /\ primary # AtRest => slots[primary] = "failed" /\ poolAborted
=============================================================================
