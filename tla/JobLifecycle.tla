----------------------------- MODULE JobLifecycle -----------------------------
(***************************************************************************)
(* What the ingestion queue promises about a document, seen from the       *)
(* outside: its status (DocumentStatus in backend/app/db/models.py) and    *)
(* the attempts charged to it.  No workers, no clock, no processes.        *)
(***************************************************************************)
EXTENDS Naturals

CONSTANTS Docs, MaxAttempts

VARIABLES status, attempts

lifecycle == <<status, attempts>>

Init ==
    /\ status = [d \in Docs |-> "none"]
    /\ attempts = [d \in Docs |-> 0]

Move(d, from, to, n) ==
    /\ status[d] = from
    /\ status' = [status EXCEPT ![d] = to]
    /\ attempts' = [attempts EXCEPT ![d] = n]

Submit(d) == Move(d, "none", "queued", 0)

\* One document is ingested at a time, and never more often than allowed.
Begin(d) ==
    /\ \A e \in Docs : status[e] # "processing"
    /\ attempts[d] < MaxAttempts
    /\ Move(d, "queued", "processing", attempts[d] + 1)

Complete(d) == Move(d, "processing", "ready", attempts[d])

\* An attempt that failed counts, one that a shutdown interrupted does not.
Retry(d) ==
    /\ attempts[d] < MaxAttempts
    /\ Move(d, "processing", "queued", attempts[d])
Interrupt(d) == Move(d, "processing", "queued", attempts[d] - 1)
GiveUp(d) == Move(d, "processing", "failed", attempts[d])

\* Only its owner brings a failed document back, with all its attempts.
Resubmit(d) == Move(d, "failed", "queued", 0)

Remove(d) ==
    /\ status[d] \notin {"none", "deleted"}
    /\ Move(d, status[d], "deleted", 0)

Next == \E d \in Docs :
    \/ Submit(d) \/ Begin(d) \/ Complete(d) \/ Retry(d) \/ Interrupt(d)
    \/ GiveUp(d) \/ Resubmit(d) \/ Remove(d)

Spec == Init /\ [][Next]_lifecycle
=============================================================================
