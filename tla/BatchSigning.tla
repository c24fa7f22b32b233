----------------------------- MODULE BatchSigning -----------------------------
(***************************************************************************)
(* What a batch signing command promises about its items, whatever the      *)
(* concurrency: an item is settled once, a failure is never hidden by the   *)
(* exit status, a run that reports success settled every item, and (for the *)
(* commands that stop early) nothing is begun after a failure unless the    *)
(* caller asked to continue.                                                *)
(***************************************************************************)
EXTENDS Naturals

CONSTANT
    StopsEarly  \* the command begins no item after one that failed

VARIABLES
    items,      \* what the command was asked to sign
    continue,   \* --continue-on-error
    status,     \* "pending" | "busy" | "ok" | "failed" for every item
    result      \* "running" | "success" | "partial" | "error"

batch == <<items, continue, status, result>>

BatchInit ==
    /\ continue \in BOOLEAN
    /\ status = [i \in items |-> "pending"]
    /\ result = "running"

Failed == {i \in items : status[i] = "failed"}
Settled == {i \in items : status[i] \in {"ok", "failed"}}

Begin(S) ==
    /\ result = "running"
    /\ S \subseteq {i \in items : status[i] = "pending"}
    /\ StopsEarly /\ ~continue => Failed = {}
    /\ status' = [i \in items |-> IF i \in S THEN "busy" ELSE status[i]]
    /\ UNCHANGED <<items, continue, result>>

Settle(i) ==
    /\ result = "running"
    /\ status[i] = "busy"
    /\ \E r \in {"ok", "failed"} : status' = [status EXCEPT ![i] = r]
    /\ UNCHANGED <<items, continue, result>>

(* The command refuses to start; no item was touched.                       *)
Reject ==
    /\ result = "running"
    /\ \A i \in items : status[i] = "pending"
    /\ result' = "error"
    /\ UNCHANGED <<items, continue, status>>

Return ==
    /\ result = "running"
    /\ Settled = items
    /\ continue \/ Failed = {}
    /\ result' = IF Failed = {} THEN "success" ELSE "partial"
    /\ UNCHANGED <<items, continue, status>>

GiveUp ==
    /\ result = "running"
    /\ ~continue
    /\ Failed # {}
    /\ \A i \in items : status[i] # "busy"
    /\ result' = "error"
    /\ UNCHANGED <<items, continue, status>>

BatchNext ==
    \/ \E S \in SUBSET items : Begin(S)
    \/ \E i \in items : Settle(i)
    \/ Reject \/ Return \/ GiveUp

BatchSpec == BatchInit /\ [][BatchNext]_batch
=============================================================================
