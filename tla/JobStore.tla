------------------------------ MODULE JobStore ------------------------------
(***************************************************************************)
(* One job as it is stored: the file, the copy each service process has in *)
(* its cache, the private copies that runs and operators work on, the claim*)
(* on the run and the lease.  (service.go, job_runtime.go, state_store.go) *)
(*                                                                         *)
(* Several processes (a server, a command line) share the directory.  A    *)
(* caller is a goroutine of one of them: it loads the file into a copy of  *)
(* its own, changes the copy and saves all of it.  A load and a save are   *)
(* steps of their own; in between the copy may be out of date.  A process  *)
(* may crash between any two steps, and a save may fail.                   *)
(*                                                                         *)
(* Abstractions.  The job is reduced to what decides who may do what; the  *)
(* recoverable statuses are one (Steer refuses a job that is only starting *)
(* as well, which is not modelled).  A run is reduced to progress, leader  *)
(* turns and its end; JobLoop has the rest.  Time is reduced to whether    *)
(* the 45 seconds of a heartbeat are over.  Removing the lease and the     *)
(* save behind it are one step.                                            *)
(***************************************************************************)
EXTENDS Integers, FiniteSets

CONSTANTS
  Procs,     \* service processes on one directory
  Callers    \* goroutines that are in a call on the job

ASSUME JobStoreAssumption == {"none", "gone"} \cap Procs = {}

VARIABLES
  phase,     \* of a process: down, starting (before it serves), up
  disk,      \* the job's file
  lease,     \* the lease file: none, fresh, or old (its heartbeat has expired)
  cache,     \* status of the job in jobCache of each process, "none" if it is not there
  claimed,   \* the job is in runningJobs of the process
  at,        \* where a caller is
  proc,      \* the process it belongs to
  copy,      \* the job it has loaded and works on
  current,   \* history: nobody else has saved since the caller loaded
  orderly,   \* history: no save has met a copy in another's hands, none has failed
  deserted   \* history: the last save was by a run that left the job busy

vars == <<phase, disk, lease, cache, claimed, at, proc, copy,
          current, orderly, deserted>>

Statuses == {"busy", "blocked", "failed", "done"}
NoOwner  == "none"
Gone     == "gone"       \* the instance id of a process that is no more
NoJob    == [status |-> "none", owner |-> NoOwner, beat |-> "none",
             pending |-> FALSE, steer |-> FALSE]

Job == [ status  : Statuses,
         owner   : Procs \cup {NoOwner, Gone},
         beat    : {"none", "fresh", "old"},   \* RunHeartbeatAt
         pending : BOOLEAN,                    \* PendingApproval
         steer   : BOOLEAN ]                   \* SupervisorDirective

Operations == {"cancel", "steer", "resume", "retry", "approve", "reject"}
InRun      == {"run", "turn", "ending", "release"}
Places     == {"idle", "recache", "claim", "command", "sweep", "judged", "owned"}
                \cup Operations \cup InRun

TypeOK ==
  /\ phase \in [Procs -> {"down", "starting", "up"}]
  /\ disk \in Job \cup {NoJob}
  /\ lease \in {"none", "fresh", "old"}
  /\ cache \in [Procs -> Statuses \cup {"none"}]
  /\ claimed \in [Procs -> BOOLEAN]
  /\ at \in [Callers -> Places]
  /\ proc \in [Callers -> Procs]
  /\ copy \in [Callers -> Job \cup {NoJob}]
  /\ \A c \in Callers : at[c] = "idle" <=> copy[c] = NoJob
  /\ current \in [Callers -> BOOLEAN]
  /\ orderly \in BOOLEAN /\ deserted \in BOOLEAN

Init ==
  /\ phase \in [Procs -> {"down", "up"}]
  /\ disk = NoJob
  /\ lease = "none"
  /\ cache = [p \in Procs |-> "none"]
  /\ claimed = [p \in Procs |-> FALSE]
  /\ at = [c \in Callers |-> "idle"]
  /\ proc \in {[c \in Callers |-> p] : p \in Procs}
  /\ copy = [c \in Callers |-> NoJob]
  /\ current = [c \in Callers |-> FALSE]
  /\ orderly = TRUE /\ deserted = FALSE

----------------------------------------------------------------------------
(* Pieces of the operations. *)

\* A busy job is owned by the process that touches it, any other by nobody.
Touch(j, p) ==
  IF j.status = "busy" THEN [j EXCEPT !.owner = p, !.beat = "fresh"]
                       ELSE [j EXCEPT !.owner = NoOwner, !.beat = "none"]

Disown(j) == [j EXCEPT !.owner = NoOwner, !.beat = "none"]

Interrupted(j) == [Disown(j) EXCEPT !.status = "blocked", !.pending = FALSE]

\* The caller goes on to a place with a copy; a caller that returns keeps none.
Goes(c, place, j) ==
  /\ at' = [at EXCEPT ![c] = place]
  /\ copy' = [copy EXCEPT ![c] = IF place = "idle" THEN NoJob ELSE j]

Returns(c) ==
  /\ Goes(c, "idle", NoJob)
  /\ current' = [current EXCEPT ![c] = FALSE]

\* A save writes the whole job over whatever is there ...
SaveWorks(c, j) ==
  /\ disk' = j
  /\ current' = [d \in Callers |-> d = c /\ current[c] /\ at'[c] # "idle"]
  /\ orderly' = /\ orderly
                /\ \A d \in Callers \ {c} : at[d] = "idle"
                /\ \A p \in Procs \ {proc[c]} : cache[p] = "none"
  /\ deserted' = (at[c] = "ending" /\ j.status = "busy")

\* ... or fails and leaves the old file.
SaveFails ==
  /\ orderly' = FALSE
  /\ UNCHANGED <<disk, current, deserted>>

\* addEvent and touch put the copy into the cache before the save.
CacheUpdate(c, j) == cache' = [cache EXCEPT ![proc[c]] = j.status]

\* Slip of Accepts: Cancel does not refuse a done job.
AcceptsSlip(op, j, p) ==
  \/ op = "cancel"
  \/ op = "steer" /\ j.status = "busy"
  \/ op = "resume" /\ j.status \notin {"done", "failed"} /\ ~j.pending
  \/ op = "retry" /\ j.status \in {"blocked", "failed"}
  \/ op \in {"approve", "reject"} /\ j.pending
  \/ op = "sweep" /\ j.status = "busy"
  \/ op = "owned" /\ j.status = "busy" /\ j.owner = p

\* What each operation asks of the job it has loaded.
Accepts(op, j, p) ==
  \/ op = "cancel" /\ j.status # "done"
  \/ op = "steer" /\ j.status = "busy"
  \/ op = "resume" /\ j.status \notin {"done", "failed"} /\ ~j.pending
  \/ op = "retry" /\ j.status \in {"blocked", "failed"}
  \/ op \in {"approve", "reject"} /\ j.pending
  \/ op = "sweep" /\ j.status = "busy"
  \/ op = "owned" /\ j.status = "busy" /\ j.owner = p

----------------------------------------------------------------------------
(* Operators. *)

\* Owner and heartbeat of a loaded job are dropped: only the sweep reads them, and
\* every save overwrites them.
Load(c, p, op) ==
  /\ at[c] = "idle" /\ phase[p] = "up"
  /\ disk # NoJob /\ Accepts(op, disk, p)
  /\ proc' = [proc EXCEPT ![c] = p]
  /\ Goes(c, op, Disown(disk))
  /\ current' = [current EXCEPT ![c] = TRUE]
  /\ UNCHANGED <<phase, disk, lease, cache, claimed, orderly, deserted>>

\* Start creates the job; its caller is the run to be.
Start(c, p) ==
  LET j == Touch([NoJob EXCEPT !.status = "busy"], p) IN
  /\ disk = NoJob /\ at[c] = "idle" /\ phase[p] = "up"
  /\ proc' = [proc EXCEPT ![c] = p]
  /\ cache' = [cache EXCEPT ![p] = j.status]
  /\ Goes(c, "claim", j)
  /\ disk' = j /\ current' = [current EXCEPT ![c] = TRUE]
  /\ UNCHANGED <<phase, lease, claimed, orderly, deserted>>

\* The common shape: change the copy, show it in the cache, save it, go on.
ChangesAndSaves(c, j, next) ==
  /\ CacheUpdate(c, j)
  /\ \/ Goes(c, next, j) /\ SaveWorks(c, j)
     \/ SaveFails /\ Goes(c, "idle", j)
  /\ UNCHANGED <<phase, claimed, proc>>

\* Cancel does not ask whether a run works on the job.
Cancel(c) ==
  /\ at[c] = "cancel"
  /\ ChangesAndSaves(c, Interrupted(copy[c]), "recache")
  /\ lease' = "none"

\* Cancel updates the cache a second time when the file is written.
CancelRecaches(c) ==
  /\ at[c] = "recache"
  /\ CacheUpdate(c, copy[c])
  /\ Returns(c)
  /\ UNCHANGED <<phase, disk, lease, claimed, proc, orderly, deserted>>

Steer(c) ==
  /\ at[c] = "steer"
  /\ ChangesAndSaves(c, Touch([copy[c] EXCEPT !.steer = TRUE], proc[c]), "idle")
  /\ UNCHANGED lease

\* Slip of Retry: the job is saved before it is touched.
RetrySlip(c) ==
  /\ at[c] = "retry"
  /\ ChangesAndSaves(c, [copy[c] EXCEPT !.status = "busy", !.pending = FALSE], "claim")
  /\ UNCHANGED lease

Retry(c) ==
  /\ at[c] = "retry"
  /\ ChangesAndSaves(c, Touch([copy[c] EXCEPT !.status = "busy", !.pending = FALSE], proc[c]),
                     "claim")
  /\ UNCHANGED lease

\* Extra steps are saved before the run is claimed; without them nothing is.
Resume(c) ==
  /\ at[c] = "resume"
  /\ \/ copy[c].status = "blocked" /\ ChangesAndSaves(c, Disown(copy[c]), "claim")
     \/ /\ CacheUpdate(c, copy[c])
        /\ Goes(c, "claim", copy[c])
        /\ UNCHANGED <<phase, disk, claimed, proc, current, orderly, deserted>>
  /\ UNCHANGED lease

\* Slip of Approve: the approval stays in the file while its command runs.
ApproveSlip(c) ==
  /\ at[c] = "approve"
  /\ ChangesAndSaves(c, Touch([copy[c] EXCEPT !.status = "busy"], proc[c]), "command")
  /\ UNCHANGED lease

\* The approved command runs before the run is claimed.
Approve(c) ==
  /\ at[c] = "approve"
  /\ ChangesAndSaves(c, Touch([copy[c] EXCEPT !.status = "busy", !.pending = FALSE], proc[c]),
                     "command")
  /\ UNCHANGED lease

CommandReturns(c) ==
  /\ at[c] = "command"
  /\ \E s \in {"busy", "blocked", "failed"} :
       ChangesAndSaves(c, Touch([copy[c] EXCEPT !.status = s], proc[c]),
                       IF s = "busy" THEN "claim" ELSE "idle")
  /\ UNCHANGED lease

Reject(c) ==
  /\ at[c] = "reject"
  /\ ChangesAndSaves(c, Disown([copy[c] EXCEPT !.status = "blocked", !.pending = FALSE]), "idle")
  /\ UNCHANGED lease

----------------------------------------------------------------------------
(* A run, from the claim to its release. *)

\* A second run of the process is suppressed.
Suppressed(c) ==
  /\ at[c] = "claim" /\ claimed[proc[c]]
  /\ Returns(c)
  /\ UNCHANGED <<phase, disk, lease, cache, claimed, proc, orderly, deserted>>

\* Slip of Claim: whether the job is running is looked up, but not acted upon.
ClaimSlip(c) ==
  LET j == [copy[c] EXCEPT !.owner = proc[c], !.beat = "fresh"] IN
  /\ at[c] = "claim"
  /\ claimed' = [claimed EXCEPT ![proc[c]] = TRUE]
  /\ Goes(c, "run", j)
  /\ SaveWorks(c, j) \/ SaveFails
  /\ lease' = "fresh"
  /\ UNCHANGED <<phase, cache, proc>>

\* The run takes the lease before it does anything; a failing save is only logged.
Claim(c) ==
  LET j == [copy[c] EXCEPT !.owner = proc[c], !.beat = "fresh"] IN
  /\ at[c] = "claim" /\ ~claimed[proc[c]]
  /\ claimed' = [claimed EXCEPT ![proc[c]] = TRUE]
  /\ Goes(c, "run", j)
  /\ SaveWorks(c, j) \/ SaveFails
  /\ lease' = "fresh"
  /\ UNCHANGED <<phase, cache, proc>>

\* The run saves the busy job, before a leader's turn or any other call.
\* A failing save ends the run.
Progress(c, next) ==
  LET j == Touch([copy[c] EXCEPT !.status = "busy"], proc[c]) IN
  /\ at[c] = "run"
  /\ CacheUpdate(c, j)
  /\ \/ Goes(c, next, j) /\ SaveWorks(c, j)
     \/ Goes(c, "ending", j) /\ SaveFails
  /\ UNCHANGED <<phase, lease, claimed, proc>>

\* A leader turn has seen the directive of the run's copy, which is cleared there.
LeaderTurn(c) ==
  /\ at[c] = "turn"
  /\ Goes(c, "run", [copy[c] EXCEPT !.steer = FALSE])
  /\ UNCHANGED <<phase, disk, lease, cache, claimed, proc, current, orderly, deserted>>

\* The run closes the job, or waits for an approval.
Close(c) ==
  /\ at[c] = "run"
  /\ \E s \in {"blocked", "failed", "done"}, w \in BOOLEAN :
       LET j == Touch([copy[c] EXCEPT !.status = s, !.pending = w], proc[c]) IN
       /\ w => s = "blocked"
       /\ CacheUpdate(c, j)
       /\ Goes(c, "ending", j)
       /\ SaveWorks(c, j) \/ SaveFails
  /\ UNCHANGED <<phase, lease, claimed, proc>>

\* The run returns without closing the job: an error, a report nobody acts on.
Desert(c) ==
  /\ at[c] = "run"
  /\ Goes(c, "ending", copy[c])
  /\ UNCHANGED <<phase, disk, lease, cache, claimed, proc, current, orderly, deserted>>

\* The context of the run is cancelled: the deferred function closes the job.
Interrupt(c) ==
  /\ at[c] = "run" /\ copy[c].status = "busy"
  /\ CacheUpdate(c, Interrupted(copy[c]))
  /\ Goes(c, "ending", Interrupted(copy[c]))
  /\ SaveWorks(c, Interrupted(copy[c])) \/ SaveFails
  /\ lease' = "none"
  /\ UNCHANGED <<phase, claimed, proc>>

\* The deferred function gives the lease back and empties the cache.
Finish(c) ==
  LET j == Disown(copy[c]) IN
  /\ at[c] = "ending"
  /\ lease' = "none"
  /\ Goes(c, "release", j)
  /\ SaveWorks(c, j) \/ SaveFails
  /\ cache' = IF j.status = "busy" THEN cache ELSE [cache EXCEPT ![proc[c]] = "none"]
  /\ UNCHANGED <<phase, claimed, proc>>

Release(c) ==
  /\ at[c] = "release"
  /\ claimed' = [claimed EXCEPT ![proc[c]] = FALSE]
  /\ Returns(c)
  /\ UNCHANGED <<phase, disk, lease, cache, proc, orderly, deserted>>

\* The heartbeat; one that was under way when the run ended comes late.
Beat(c) ==
  /\ at[c] \in {"run", "turn", "release"}
  /\ lease' = "fresh"
  /\ UNCHANGED <<phase, disk, cache, claimed, at, proc, copy, current, orderly, deserted>>

----------------------------------------------------------------------------
(* Time, processes, sweeps. *)

LiveRun == \E c \in Callers : at[c] \in {"run", "turn"}

\* Heartbeats are timely: 45 seconds do not pass without one while a run lives.
LeaseExpires ==
  /\ lease = "fresh" /\ ~LiveRun
  /\ lease' = "old"
  /\ UNCHANGED <<phase, disk, cache, claimed, at, proc, copy, current, orderly, deserted>>

HeartbeatExpires ==
  /\ disk.beat = "fresh" /\ (LiveRun => lease = "fresh")
  /\ disk' = [disk EXCEPT !.beat = "old"]
  /\ UNCHANGED <<phase, lease, cache, claimed, at, proc, copy, current, orderly, deserted>>

\* A server starts: it sweeps the jobs it finds busy, or recovers them.
Boot(c, p) ==
  /\ phase[p] = "down" /\ at[c] = "idle"
  /\ proc' = [proc EXCEPT ![c] = p]
  /\ \/ /\ ~Accepts("sweep", disk, p)
        /\ phase' = [phase EXCEPT ![p] = "up"]
        /\ UNCHANGED <<at, copy, current>>
     \/ /\ Accepts("sweep", disk, p)
        /\ \E place \in {"sweep", "claim"} :
             /\ Goes(c, place, disk)
             /\ phase' = [phase EXCEPT ![p] = IF place = "sweep" THEN "starting" ELSE "up"]
        /\ current' = [current EXCEPT ![c] = TRUE]
  /\ UNCHANGED <<disk, lease, cache, claimed, orderly, deserted>>

\* Slip of Stale: the heartbeat in the file decides, not the lease.
StaleSlip(j) == j.owner # NoOwner /\ j.beat = "old"

Stale(j) ==
  IF lease # "none" THEN lease = "old"
                    ELSE j.owner # NoOwner /\ j.beat = "old"

\* The sweep judges the job it has listed by the lease it reads now.
Judge(c) ==
  /\ at[c] = "sweep"
  /\ IF Stale(copy[c])
       THEN Goes(c, "judged", copy[c]) /\ UNCHANGED <<phase, current>>
       ELSE Returns(c) /\ phase' = [phase EXCEPT ![proc[c]] = "up"]
  /\ UNCHANGED <<disk, lease, cache, claimed, proc, orderly, deserted>>

\* Slip of InterruptListed: the event is added before the job is changed.
InterruptListedSlip(c) ==
  /\ at[c] \in {"judged", "owned"}
  /\ CacheUpdate(c, copy[c])
  /\ Goes(c, "idle", NoJob)
  /\ SaveWorks(c, Interrupted(copy[c])) \/ SaveFails
  /\ lease' = "none"
  /\ phase' = [phase EXCEPT ![proc[c]] = "up"]
  /\ UNCHANGED <<claimed, proc>>

\* interruptJob on a listed job: a stale one at startup, an own one at shutdown.
InterruptListed(c) ==
  LET j == Interrupted(copy[c]) IN
  /\ at[c] \in {"judged", "owned"}
  /\ CacheUpdate(c, j)
  /\ Goes(c, "idle", NoJob)
  /\ SaveWorks(c, j) \/ SaveFails
  /\ lease' = "none"
  /\ phase' = [phase EXCEPT ![proc[c]] = "up"]
  /\ UNCHANGED <<claimed, proc>>

\* The process is gone, and its instance id with it.
Forget(j, p) == IF j.owner = p THEN [j EXCEPT !.owner = Gone] ELSE j

Crash(p) ==
  LET ours == {c \in Callers : proc[c] = p} IN
  /\ phase[p] # "down"
  /\ phase' = [phase EXCEPT ![p] = "down"]
  /\ cache' = [cache EXCEPT ![p] = "none"]
  /\ claimed' = [claimed EXCEPT ![p] = FALSE]
  /\ at' = [c \in Callers |-> IF c \in ours THEN "idle" ELSE at[c]]
  /\ copy' = [c \in Callers |-> IF c \in ours THEN NoJob ELSE Forget(copy[c], p)]
  /\ current' = [c \in Callers |-> c \notin ours /\ current[c]]
  /\ disk' = Forget(disk, p)
  /\ UNCHANGED <<lease, proc, orderly, deserted>>

Next ==
  \/ \E c \in Callers, p \in Procs :
       \/ Start(c, p) \/ Boot(c, p)
       \/ \E op \in Operations \cup {"owned"} : Load(c, p, op)
  \/ \E c \in Callers :
       \/ Cancel(c) \/ CancelRecaches(c) \/ Steer(c) \/ Retry(c) \/ Resume(c)
       \/ Approve(c) \/ CommandReturns(c) \/ Reject(c)
       \/ \E next \in {"run", "turn"} : Progress(c, next)
       \/ Suppressed(c) \/ Claim(c) \/ LeaderTurn(c) \/ Close(c)
       \/ Desert(c) \/ Interrupt(c) \/ Finish(c) \/ Release(c) \/ Beat(c)
       \/ Judge(c) \/ InterruptListed(c)
  \/ LeaseExpires \/ HeartbeatExpires
  \/ \E p \in Procs : Crash(p)

Spec == Init /\ [][Next]_vars

----------------------------------------------------------------------------

\* A process runs a job at most once at a time, whichever of start, resume, retry,
\* approve and recovery asked for it, until the last save of the run is done.
OneRun ==
  \A p \in Procs :
    /\ \A c, d \in Callers :
         at[c] \in InRun /\ at[d] \in InRun /\ proc[c] = p /\ proc[d] = p => c = d
    /\ claimed[p] <=> \E c \in Callers : at[c] \in InRun /\ proc[c] = p

\* A busy job that no sweep can find, for want of a lease and an owner, was left by
\* a run that returned without closing it: crashes, steering, cancellations and
\* late heartbeats leave a trace.
OnlyDesertionHides ==
  disk.status = "busy" /\ lease = "none" /\ disk.owner = NoOwner => deserted

\* A done job is reopened only from a copy that is out of date: no operation on
\* what the file says now does it (whoever saved it is not current even afterwards).
DoneIsNotReopened ==
  [][disk.status = "done" /\ disk'.status # "done" => \A c \in Callers : ~current'[c]]_vars

\* An approval is answered once: a caller goes on to the command of an approval that
\* the file no longer holds (it was approved, rejected or withdrawn), or whose command
\* is under way, only if its copy is out of date.  Nothing else keeps two approvals
\* apart, since the command runs before the run is claimed.
AnsweredOnce ==
  [][\A c \in Callers : at[c] = "approve" /\ at'[c] = "command" =>
       \/ ~current[c]
       \/ disk.pending /\ \A d \in Callers : at[d] = "command" => ~current[d]]_vars

\* With timely heartbeats the sweep takes a job for stale while a run lives only if
\* another call has removed the lease beside the run, or its save has failed.
VerdictIsRight ==
  [][\A c \in Callers : at[c] = "sweep" /\ at'[c] = "judged" =>
       ~LiveRun \/ (lease = "none" /\ ~orderly)]_vars

\* When every call is over, the cache shows what the file says.
CacheIsCurrent ==
  orderly /\ (\A c \in Callers : at[c] = "idle") =>
    \A p \in Procs : cache[p] = "none" \/ cache[p] = disk.status

\* service.go, Steer: "The next leader call will see this directive with highest
\* priority."
SteerIsHeard ==
  [][\A c \in Callers : at'[c] = "turn" /\ at[c] # "turn" /\ disk.steer => copy[c].steer]_vars
=============================================================================
