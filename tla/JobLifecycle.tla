---------------------------- MODULE JobLifecycle ----------------------------
(***************************************************************************)
(* What a job promises to its operator and to its chain, without the loop  *)
(* that keeps the promise: the life of a job between "open" (somebody works*)
(* on it, or could be asked to) and its closed states, the budget of extra *)
(* steps, and what the chain is told.                                      *)
(***************************************************************************)
EXTENDS Naturals

CONSTANT MaxExtra   \* extra steps all resumes together may grant

VARIABLES
  phase,   \* "open", "approval", "blocked", "failed" or "done"
  proven,  \* the work on record passes the engine rule
  extra,   \* extra steps granted so far
  heard    \* what the chain has heard: "running", "failed" or "done"

vars == <<phase, proven, extra, heard>>

Hears(news) == heard' = IF heard = "running" THEN news ELSE heard

Init == phase = "open" /\ proven = FALSE /\ extra = 0 /\ heard = "running"

\* Work on an open job makes or breaks the proof.  A phase that closes the job
\* for a moment may already have told the chain.
Work ==
  /\ phase = "open"
  /\ proven' \in BOOLEAN
  /\ heard' = heard \/ Hears("failed")
  /\ UNCHANGED <<phase, extra>>

Finish ==
  /\ phase = "open" /\ proven
  /\ phase' = "done"
  /\ Hears("done")
  /\ UNCHANGED <<proven, extra>>

Close ==
  /\ phase = "open"
  /\ phase' \in {"blocked", "failed"}
  /\ proven' \in BOOLEAN
  /\ heard' = heard \/ Hears("failed")
  /\ UNCHANGED extra

\* Asking for approval blocks the job, and the chain hears of it.
AskApproval ==
  /\ phase = "open"
  /\ phase' = "approval"
  /\ Hears("failed")
  /\ UNCHANGED <<proven, extra>>

Approve ==
  /\ phase = "approval"
  /\ phase' = "open"
  /\ UNCHANGED <<proven, extra, heard>>

\* Resume, with or without extra steps.  A failed job is not resumed.
Resume ==
  /\ phase = "blocked"
  /\ phase' = "open"
  /\ extra' \in extra .. MaxExtra
  /\ UNCHANGED <<proven, heard>>

Retry ==
  /\ phase \in {"approval", "blocked", "failed"}
  /\ phase' = "open"
  /\ UNCHANGED <<proven, extra, heard>>

\* Cancel and Reject.
Withdraw ==
  /\ phase # "done"
  /\ phase' = "blocked"
  /\ Hears("failed")
  /\ UNCHANGED <<proven, extra>>

Next ==
  \/ Work \/ Finish \/ Close \/ AskApproval
  \/ Approve \/ Resume \/ Retry \/ Withdraw

Spec == Init /\ [][Next]_vars
=============================================================================
