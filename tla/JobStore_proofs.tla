-------------------------- MODULE JobStore_proofs --------------------------
(***************************************************************************)
(* Proofs about JobStore, for any number of processes and of callers.      *)
(***************************************************************************)
EXTENDS JobStore, TLAPS

----------------------------------------------------------------------------
(* The inductive invariant. *)

\* A busy job without an owner was deserted, whether it has a lease or not.
OwnedOrDeserted == disk.status = "busy" /\ disk.owner = NoOwner => deserted

\* Only a blocked job waits for an approval, and nobody who may run it holds one.
Waiting(j) == j.pending => j.status = "blocked"

ApprovalsWait ==
  /\ Waiting(disk)
  /\ \A c \in Callers :
       /\ Waiting(copy[c])
       /\ at[c] \in {"resume", "claim", "command", "run", "turn"} => ~copy[c].pending

\* Nobody works on a done job but the run that has just ended it.
OpenPlaces ==
  \A c \in Callers : at[c] \notin {"idle", "ending", "release"} => copy[c].status # "done"

CurrentKnows ==
  \A c \in Callers : current[c] /\ at[c] # "idle" /\ disk.status = "done" =>
    at[c] \in {"ending", "release"} /\ copy[c].status = "done"

\* Who is about to answer an approval finds it in the file, and who runs its command does
\* not, unless the copy is out of date.
AnswerKnows ==
  \A c \in Callers : current[c] =>
    (at[c] = "approve" => disk.pending) /\ (at[c] = "command" => ~disk.pending)

\* A live run's lease does not expire, and is only removed out of order.
LeaseHolds == LiveRun => lease # "old" /\ (lease = "none" => ~orderly)

\* As long as nobody saves beside another, every copy and cache shows the file.
Agreement ==
  /\ disk = NoJob => /\ \A c \in Callers : at[c] = "idle"
                     /\ \A p \in Procs : cache[p] = "none"
  /\ orderly => /\ \A c \in Callers : at[c] # "idle" => copy[c].status = disk.status
                /\ \A p \in Procs : cache[p] \in {"none", disk.status}

IInv == /\ TypeOK /\ OneRun /\ OwnedOrDeserted /\ ApprovalsWait /\ OpenPlaces
        /\ CurrentKnows /\ AnswerKnows /\ LeaseHolds /\ Agreement

----------------------------------------------------------------------------
(* Types. *)

LEMMA Names ==
  /\ NoOwner \notin Procs /\ Gone \notin Procs /\ NoOwner # Gone
  /\ NoJob \notin Job /\ NoJob.status = "none" /\ NoJob.beat = "none"
  /\ Statuses = {"busy", "blocked", "failed", "done"}
  /\ InRun = {"run", "turn", "ending", "release"}
  /\ Operations = {"cancel", "steer", "resume", "retry", "approve", "reject"}
  BY JobStoreAssumption DEF NoOwner, Gone, NoJob, Job, Statuses, InRun, Operations

LEMMA TouchType ==
  ASSUME NEW j \in Job, NEW p \in Procs, NEW s \in Statuses, NEW b \in BOOLEAN
  PROVE  /\ Touch(j, p) \in Job /\ Disown(j) \in Job /\ Interrupted(j) \in Job
         /\ Forget(j, p) \in Job
         /\ [j EXCEPT !.owner = p, !.beat = "fresh"] \in Job
         /\ [j EXCEPT !.status = s] \in Job
         /\ [j EXCEPT !.pending = b] \in Job
         /\ [j EXCEPT !.steer = b] \in Job
         /\ [j EXCEPT !.status = s, !.pending = b] \in Job
         /\ [j EXCEPT !.beat = "old"] \in Job
<1>1. Disown(j) \in Job
  BY DEF Job, Disown, NoOwner
<1>2. Interrupted(j) \in Job
  BY <1>1 DEF Job, Interrupted, Statuses
<1>3. /\ [j EXCEPT !.owner = p, !.beat = "fresh"] \in Job
      /\ [j EXCEPT !.owner = NoOwner, !.beat = "none"] \in Job
      /\ [j EXCEPT !.owner = Gone] \in Job
      /\ [j EXCEPT !.beat = "old"] \in Job
  BY DEF Job
<1>4. /\ [j EXCEPT !.status = s] \in Job
      /\ [j EXCEPT !.pending = b] \in Job
      /\ [j EXCEPT !.steer = b] \in Job
      /\ [j EXCEPT !.status = s, !.pending = b] \in Job
  BY DEF Job
<1> QED BY <1>1, <1>2, <1>3, <1>4 DEF Touch, Forget

LEMMA StartedType ==
  ASSUME NEW p \in Procs
  PROVE  Touch([NoJob EXCEPT !.status = "busy"], p) \in Job
  BY DEF Job, Touch, NoJob, Statuses, NoOwner

\* The part of the type that a caller's step changes.
CallerOK ==
  /\ at \in [Callers -> Places]
  /\ copy \in [Callers -> Job \cup {NoJob}]
  /\ \A c \in Callers : at[c] = "idle" <=> copy[c] = NoJob

LEMMA GoesType ==
  ASSUME TypeOK, NEW c \in Callers, NEW place \in Places, NEW j \in Job, Goes(c, place, j)
  PROVE  CallerOK'
  BY Names DEF TypeOK, CallerOK, Goes

LEMMA ReturnsType ==
  ASSUME TypeOK, NEW c \in Callers, Returns(c)
  PROVE  CallerOK' /\ current' \in [Callers -> BOOLEAN]
  BY Names DEF TypeOK, CallerOK, Goes, Returns, Places

LEMMA SaveType ==
  ASSUME TypeOK, NEW c \in Callers, NEW j \in Job, SaveWorks(c, j) \/ SaveFails
  PROVE  /\ disk' \in Job \cup {NoJob}
         /\ current' \in [Callers -> BOOLEAN]
         /\ orderly' \in BOOLEAN /\ deserted' \in BOOLEAN
  BY DEF TypeOK, SaveWorks, SaveFails

LEMMA CacheType ==
  ASSUME TypeOK, NEW c \in Callers, NEW j \in Job, CacheUpdate(c, j)
  PROVE  cache' \in [Procs -> Statuses \cup {"none"}]
  BY DEF TypeOK, CacheUpdate, Job

\* Whoever is in a call has a job.
LEMMA CopyType ==
  ASSUME TypeOK, NEW c \in Callers, at[c] # "idle"
  PROVE  copy[c] \in Job /\ proc[c] \in Procs /\ copy[c].status \in Statuses
  BY DEF TypeOK, Job

LEMMA ChangesType ==
  ASSUME TypeOK, NEW c \in Callers, NEW j \in Job, NEW next \in Places,
         ChangesAndSaves(c, j, next), lease' \in {"none", "fresh", "old"}
  PROVE  TypeOK'
<1>1. cache' \in [Procs -> Statuses \cup {"none"}]
  BY CacheType DEF ChangesAndSaves
<1>2. CallerOK'
  BY GoesType DEF ChangesAndSaves, Places
<1>3. /\ disk' \in Job \cup {NoJob} /\ current' \in [Callers -> BOOLEAN]
      /\ orderly' \in BOOLEAN /\ deserted' \in BOOLEAN
  BY SaveType DEF ChangesAndSaves
<1>4. UNCHANGED <<phase, claimed, proc>>
  BY DEF ChangesAndSaves
<1> QED BY <1>1, <1>2, <1>3, <1>4 DEF TypeOK, CallerOK

LEMMA OperatorType ==
  ASSUME TypeOK, NEW c \in Callers,
         \/ Cancel(c) \/ CancelRecaches(c) \/ Steer(c) \/ Retry(c) \/ Resume(c)
         \/ Approve(c) \/ CommandReturns(c) \/ Reject(c)
  PROVE  TypeOK'
<1>0. at[c] # "idle"
  BY DEF Cancel, CancelRecaches, Steer, Retry, Resume, Approve, CommandReturns, Reject
<1>1. copy[c] \in Job /\ proc[c] \in Procs /\ lease \in {"none", "fresh", "old"}
  BY <1>0, CopyType DEF TypeOK
<1>2. {"recache", "idle", "claim", "command"} \subseteq Places
  BY DEF Places
<1>3. CASE Cancel(c)
  <2>1. Interrupted(copy[c]) \in Job
    BY <1>1, TouchType DEF Statuses
  <2> QED BY <1>2, <1>3, <2>1, ChangesType DEF Cancel
<1>4. CASE CancelRecaches(c)
  BY <1>1, <1>4, CacheType, ReturnsType DEF CancelRecaches, TypeOK, CallerOK
<1>5. CASE Steer(c)
  <2>1. Touch([copy[c] EXCEPT !.steer = TRUE], proc[c]) \in Job
    BY <1>1, TouchType DEF Statuses
  <2> QED BY <1>1, <1>2, <1>5, <2>1, ChangesType DEF Steer
<1>6. CASE Retry(c) \/ Approve(c)
  <2>1. Touch([copy[c] EXCEPT !.status = "busy", !.pending = FALSE], proc[c]) \in Job
    BY <1>1, TouchType DEF Statuses
  <2> QED BY <1>1, <1>2, <1>6, <2>1, ChangesType DEF Retry, Approve
<1>7. CASE Resume(c)
  <2>1. Disown(copy[c]) \in Job
    BY <1>1, TouchType DEF Statuses
  <2>2. CASE ChangesAndSaves(c, Disown(copy[c]), "claim")
    BY <1>1, <1>2, <1>7, <2>1, <2>2, ChangesType DEF Resume
  <2>3. CASE /\ CacheUpdate(c, copy[c]) /\ Goes(c, "claim", copy[c])
             /\ UNCHANGED <<phase, disk, claimed, proc, current, orderly, deserted>>
    <3>1. CallerOK' /\ cache' \in [Procs -> Statuses \cup {"none"}]
      BY <1>1, <1>2, <2>3, GoesType, CacheType
    <3> QED BY <1>7, <2>3, <3>1 DEF Resume, TypeOK, CallerOK
  <2> QED BY <1>7, <2>2, <2>3 DEF Resume
<1>8. CASE CommandReturns(c)
  <2>1. PICK s \in {"busy", "blocked", "failed"} :
          ChangesAndSaves(c, Touch([copy[c] EXCEPT !.status = s], proc[c]),
                          IF s = "busy" THEN "claim" ELSE "idle")
    BY <1>8 DEF CommandReturns
  <2>2. Touch([copy[c] EXCEPT !.status = s], proc[c]) \in Job
    BY <1>1, TouchType DEF Statuses
  <2> QED BY <1>1, <1>2, <1>8, <2>1, <2>2, ChangesType DEF CommandReturns
<1>9. CASE Reject(c)
  <2>1. Disown([copy[c] EXCEPT !.status = "blocked", !.pending = FALSE]) \in Job
    BY <1>1, TouchType DEF Statuses
  <2> QED BY <1>1, <1>2, <1>9, <2>1, ChangesType DEF Reject
<1> QED BY <1>3, <1>4, <1>5, <1>6, <1>7, <1>8, <1>9

LEMMA RunType ==
  ASSUME TypeOK, NEW c \in Callers,
         \/ Suppressed(c) \/ Claim(c) \/ LeaderTurn(c) \/ Close(c) \/ Desert(c)
         \/ Interrupt(c) \/ Finish(c) \/ Release(c)
         \/ \E next \in {"run", "turn"} : Progress(c, next)
  PROVE  TypeOK'
<1>0. at[c] # "idle"
  BY DEF Suppressed, Claim, LeaderTurn, Close, Desert, Interrupt, Finish, Release, Progress
<1>1. /\ copy[c] \in Job /\ proc[c] \in Procs /\ copy[c].status \in Statuses
      /\ lease \in {"none", "fresh", "old"}
  BY <1>0, CopyType DEF TypeOK
<1>2. {"run", "turn", "ending", "release"} \subseteq Places
  BY DEF Places, InRun
<1>3. CASE Suppressed(c) \/ Release(c)
  BY <1>1, <1>3, ReturnsType DEF Suppressed, Release, TypeOK, CallerOK
<1>4. CASE Claim(c)
  <2> DEFINE j == [copy[c] EXCEPT !.owner = proc[c], !.beat = "fresh"]
  <2>1. j \in Job
    BY <1>1, TouchType DEF Statuses
  <2>2. Goes(c, "run", j) /\ (SaveWorks(c, j) \/ SaveFails)
    BY <1>4 DEF Claim
  <2> HIDE DEF j
  <2>3. /\ CallerOK' /\ disk' \in Job \cup {NoJob} /\ current' \in [Callers -> BOOLEAN]
        /\ orderly' \in BOOLEAN /\ deserted' \in BOOLEAN
    BY <1>2, <2>1, <2>2, GoesType, SaveType
  <2> QED BY <1>1, <1>4, <2>3 DEF Claim, TypeOK, CallerOK
<1>5. CASE \E next \in {"run", "turn"} : Progress(c, next)
  <2> DEFINE j == Touch([copy[c] EXCEPT !.status = "busy"], proc[c])
  <2>1. j \in Job
    BY <1>1, TouchType DEF Statuses
  <2>2. PICK next \in {"run", "turn"} : Progress(c, next)
    BY <1>5
  <2>3. /\ CacheUpdate(c, j) /\ UNCHANGED <<phase, lease, claimed, proc>>
        /\ \/ Goes(c, next, j) /\ SaveWorks(c, j)
           \/ Goes(c, "ending", j) /\ SaveFails
    BY <2>2 DEF Progress
  <2> HIDE DEF j
  <2>4. /\ CallerOK' /\ disk' \in Job \cup {NoJob} /\ current' \in [Callers -> BOOLEAN]
        /\ orderly' \in BOOLEAN /\ deserted' \in BOOLEAN
    BY <1>2, <2>1, <2>3, GoesType, SaveType
  <2>5. cache' \in [Procs -> Statuses \cup {"none"}]
    BY <2>1, <2>3, CacheType
  <2> QED BY <2>3, <2>4, <2>5 DEF TypeOK, CallerOK
<1>6. CASE LeaderTurn(c)
  <2>1. [copy[c] EXCEPT !.steer = FALSE] \in Job
    BY <1>1, TouchType DEF Statuses
  <2>2. CallerOK'
    BY <1>2, <1>6, <2>1, GoesType DEF LeaderTurn
  <2> QED BY <1>6, <2>2 DEF LeaderTurn, TypeOK, CallerOK
<1>7. CASE Close(c)
  <2>1. PICK s \in {"blocked", "failed", "done"}, w \in BOOLEAN :
          LET j == Touch([copy[c] EXCEPT !.status = s, !.pending = w], proc[c]) IN
          /\ CacheUpdate(c, j) /\ Goes(c, "ending", j) /\ (SaveWorks(c, j) \/ SaveFails)
    BY <1>7 DEF Close
  <2> DEFINE j == Touch([copy[c] EXCEPT !.status = s, !.pending = w], proc[c])
  <2>2. j \in Job
    BY <1>1, TouchType DEF Statuses
  <2>3. CacheUpdate(c, j) /\ Goes(c, "ending", j) /\ (SaveWorks(c, j) \/ SaveFails)
    BY <2>1
  <2> HIDE DEF j
  <2>4. /\ CallerOK' /\ disk' \in Job \cup {NoJob} /\ current' \in [Callers -> BOOLEAN]
        /\ orderly' \in BOOLEAN /\ deserted' \in BOOLEAN
        /\ cache' \in [Procs -> Statuses \cup {"none"}]
    BY <1>2, <2>2, <2>3, GoesType, SaveType, CacheType
  <2> QED BY <1>7, <2>4 DEF Close, TypeOK, CallerOK
<1>8. CASE Desert(c)
  <2>1. CallerOK'
    BY <1>1, <1>2, <1>8, GoesType DEF Desert
  <2> QED BY <1>8, <2>1 DEF Desert, TypeOK, CallerOK
<1>9. CASE Interrupt(c)
  <2>1. Interrupted(copy[c]) \in Job
    BY <1>1, TouchType DEF Statuses
  <2>2. /\ CallerOK' /\ disk' \in Job \cup {NoJob} /\ current' \in [Callers -> BOOLEAN]
        /\ orderly' \in BOOLEAN /\ deserted' \in BOOLEAN
        /\ cache' \in [Procs -> Statuses \cup {"none"}]
    BY <1>2, <1>9, <2>1, GoesType, SaveType, CacheType DEF Interrupt
  <2> QED BY <1>9, <2>2 DEF Interrupt, TypeOK, CallerOK
<1>10. CASE Finish(c)
  <2> DEFINE j == Disown(copy[c])
  <2>1. j \in Job
    BY <1>1, TouchType DEF Statuses
  <2>2. Goes(c, "release", j) /\ (SaveWorks(c, j) \/ SaveFails)
    BY <1>10 DEF Finish
  <2>3. cache' \in [Procs -> Statuses \cup {"none"}]
    BY <1>1, <1>10 DEF Finish, TypeOK
  <2> HIDE DEF j
  <2>4. /\ CallerOK' /\ disk' \in Job \cup {NoJob} /\ current' \in [Callers -> BOOLEAN]
        /\ orderly' \in BOOLEAN /\ deserted' \in BOOLEAN
    BY <1>2, <2>1, <2>2, GoesType, SaveType
  <2> QED BY <1>10, <2>3, <2>4 DEF Finish, TypeOK, CallerOK
<1> QED BY <1>3, <1>4, <1>5, <1>6, <1>7, <1>8, <1>9, <1>10

LEMMA StepType ==
  ASSUME TypeOK, [Next]_vars
  PROVE  TypeOK'
<1>1. ASSUME NEW c \in Callers, NEW p \in Procs, Start(c, p) PROVE TypeOK'
  <2> DEFINE j == Touch([NoJob EXCEPT !.status = "busy"], p)
  <2>1. j \in Job /\ j.status \in Statuses
    BY StartedType DEF Job
  <2>2. /\ Goes(c, "claim", j) /\ disk' = j /\ cache' = [cache EXCEPT ![p] = j.status]
        /\ current' = [current EXCEPT ![c] = TRUE] /\ proc' = [proc EXCEPT ![c] = p]
        /\ UNCHANGED <<phase, lease, claimed, orderly, deserted>>
    BY <1>1 DEF Start
  <2> HIDE DEF j
  <2>3. CallerOK'
    BY <2>1, <2>2, GoesType DEF Places
  <2> QED BY <2>1, <2>2, <2>3 DEF TypeOK, CallerOK
<1>2. ASSUME NEW c \in Callers, NEW p \in Procs, Boot(c, p) PROVE TypeOK'
  <2>1. CallerOK'
    <3>1. CASE Accepts("sweep", disk, p) /\ \E place \in {"sweep", "claim"} : Goes(c, place, disk)
      <4>1. disk \in Job
        BY <3>1, Names DEF Accepts, TypeOK
      <4> QED BY <3>1, <4>1, GoesType DEF Places
    <3>2. CASE UNCHANGED <<at, copy>>
      BY <3>2 DEF TypeOK, CallerOK
    <3> QED BY <1>2, <3>1, <3>2 DEF Boot
  <2> QED BY <1>2, <2>1 DEF Boot, TypeOK, CallerOK
<1>3. ASSUME NEW c \in Callers, NEW p \in Procs, NEW o \in Operations \cup {"owned"},
             Load(c, p, o)
      PROVE  TypeOK'
  <2>1. Disown(disk) \in Job
    BY <1>3, TouchType DEF Load, TypeOK, Statuses
  <2>2. CallerOK'
    BY <1>3, <2>1, GoesType DEF Load, Places
  <2> QED BY <1>3, <2>2 DEF Load, TypeOK, CallerOK
<1>4. ASSUME NEW c \in Callers, Judge(c) PROVE TypeOK'
  <2>1. copy[c] \in Job /\ proc[c] \in Procs
    BY <1>4, CopyType DEF Judge
  <2>2. CASE Goes(c, "judged", copy[c]) /\ UNCHANGED <<phase, current>>
    <3>1. CallerOK'
      BY <2>1, <2>2, GoesType DEF Places
    <3> QED BY <1>4, <2>2, <3>1 DEF Judge, TypeOK, CallerOK
  <2>3. CASE Returns(c) /\ phase' = [phase EXCEPT ![proc[c]] = "up"]
    <3>1. CallerOK' /\ current' \in [Callers -> BOOLEAN]
      BY <2>3, ReturnsType
    <3> QED BY <1>4, <2>1, <2>3, <3>1 DEF Judge, TypeOK, CallerOK
  <2> QED BY <1>4, <2>2, <2>3 DEF Judge
<1>5. ASSUME NEW c \in Callers, InterruptListed(c) PROVE TypeOK'
  <2> DEFINE j == Interrupted(copy[c])
  <2>1. copy[c] \in Job /\ proc[c] \in Procs
    BY <1>5, CopyType DEF InterruptListed
  <2>2. j \in Job
    BY <2>1, TouchType DEF Statuses
  <2>3. CacheUpdate(c, j) /\ Goes(c, "idle", NoJob) /\ (SaveWorks(c, j) \/ SaveFails)
    BY <1>5 DEF InterruptListed
  <2> HIDE DEF j
  <2>4. CallerOK'
    BY <2>3, Names DEF Goes, TypeOK, CallerOK, Places
  <2>5. /\ disk' \in Job \cup {NoJob} /\ current' \in [Callers -> BOOLEAN]
        /\ orderly' \in BOOLEAN /\ deserted' \in BOOLEAN
        /\ cache' \in [Procs -> Statuses \cup {"none"}]
    BY <2>2, <2>3, SaveType, CacheType
  <2> QED BY <1>5, <2>1, <2>4, <2>5 DEF InterruptListed, TypeOK, CallerOK
<1>6. CASE LeaseExpires \/ HeartbeatExpires \/ \E c \in Callers : Beat(c)
  <2>1. CASE HeartbeatExpires
    <3>1. disk \in Job
      BY <2>1, Names DEF HeartbeatExpires, TypeOK
    <3>2. [disk EXCEPT !.beat = "old"] \in Job
      BY <3>1 DEF Job
    <3> QED BY <2>1, <3>2 DEF HeartbeatExpires, TypeOK
  <2> QED BY <1>6, <2>1 DEF LeaseExpires, Beat, TypeOK
<1>7. ASSUME NEW p \in Procs, Crash(p) PROVE TypeOK'
  <2>1. \A j \in Job \cup {NoJob} : Forget(j, p) \in Job \cup {NoJob}
                                   /\ (Forget(j, p) = NoJob <=> j = NoJob)
    <3> SUFFICES ASSUME NEW j \in Job \cup {NoJob}
                 PROVE  Forget(j, p) \in Job \cup {NoJob} /\ (Forget(j, p) = NoJob <=> j = NoJob)
      OBVIOUS
    <3>1. CASE j \in Job
      BY <3>1, TouchType, Names DEF Statuses
    <3>2. CASE j = NoJob
      BY <3>2, Names DEF Forget, NoJob
    <3> QED BY <3>1, <3>2
  <2>2. CallerOK'
    <3>1. at' \in [Callers -> Places]
      BY <1>7 DEF Crash, TypeOK, Places
    <3>2. \A c \in Callers : copy'[c] = IF proc[c] = p THEN NoJob ELSE Forget(copy[c], p)
      BY <1>7 DEF Crash
    <3>3. copy' \in [Callers -> Job \cup {NoJob}]
      BY <1>7, <2>1, <3>2 DEF Crash, TypeOK
    <3>4. \A c \in Callers : at'[c] = IF proc[c] = p THEN "idle" ELSE at[c]
      BY <1>7 DEF Crash
    <3> QED BY <2>1, <3>1, <3>2, <3>3, <3>4 DEF CallerOK, TypeOK
  <2>3. disk' \in Job \cup {NoJob}
    BY <1>7, <2>1 DEF Crash, TypeOK
  <2> QED BY <1>7, <2>2, <2>3 DEF Crash, TypeOK, CallerOK
<1>8. CASE UNCHANGED vars
  BY <1>8 DEF vars, TypeOK
<1> QED BY <1>1, <1>2, <1>3, <1>4, <1>5, <1>6, <1>7, <1>8, OperatorType, RunType DEF Next

----------------------------------------------------------------------------
(* One run at a time.  Only a claim, a release and a crash touch it. *)

LEMMA RunnersStay ==
  ASSUME TypeOK, OneRun, UNCHANGED claimed,
         \A c \in Callers : /\ at'[c] \in InRun <=> at[c] \in InRun
                            /\ at[c] \in InRun => proc'[c] = proc[c]
  PROVE  OneRun'
  BY DEF OneRun

LEMMA StepOneRun ==
  ASSUME TypeOK, OneRun, [Next]_vars
  PROVE  OneRun'
<1>1. ASSUME NEW c \in Callers, NEW p \in Procs,
             \/ Start(c, p) \/ Boot(c, p) \/ \E o \in Operations \cup {"owned"} : Load(c, p, o)
      PROVE  OneRun'
  <2>1. ASSUME NEW d \in Callers
        PROVE  /\ at'[d] \in InRun <=> at[d] \in InRun
               /\ at[d] \in InRun => proc'[d] = proc[d]
    BY <1>1 DEF Start, Boot, Load, Goes, TypeOK, InRun, Operations
  <2> QED BY <1>1, <2>1, RunnersStay DEF Start, Boot, Load
<1>2. ASSUME NEW c \in Callers,
             \/ Cancel(c) \/ CancelRecaches(c) \/ Steer(c) \/ Retry(c) \/ Resume(c)
             \/ Approve(c) \/ CommandReturns(c) \/ Reject(c)
             \/ Suppressed(c) \/ LeaderTurn(c) \/ Close(c) \/ Desert(c)
             \/ Interrupt(c) \/ Finish(c) \/ Judge(c) \/ InterruptListed(c) \/ Beat(c)
             \/ \E next \in {"run", "turn"} : Progress(c, next)
      PROVE  OneRun'
  <2>1. UNCHANGED <<claimed, proc>>
    BY <1>2 DEF Cancel, CancelRecaches, Steer, Retry, Resume, Approve, CommandReturns, Reject,
       Suppressed, LeaderTurn, Close, Desert, Interrupt, Finish, Judge, InterruptListed, Beat,
       Progress, ChangesAndSaves
  <2>2. ASSUME NEW d \in Callers PROVE at'[d] \in InRun <=> at[d] \in InRun
    <3>1. CASE \/ Cancel(c) \/ CancelRecaches(c) \/ Steer(c) \/ Retry(c) \/ Resume(c)
               \/ Approve(c) \/ CommandReturns(c) \/ Reject(c)
      BY <3>1 DEF Cancel, CancelRecaches, Steer, Retry, Resume, Approve, CommandReturns,
         Reject, ChangesAndSaves, Goes, Returns, InRun, TypeOK
    <3>2. CASE \/ Suppressed(c) \/ LeaderTurn(c) \/ Close(c) \/ Desert(c)
               \/ Interrupt(c) \/ Finish(c) \/ Judge(c) \/ InterruptListed(c) \/ Beat(c)
               \/ \E next \in {"run", "turn"} : Progress(c, next)
      BY <3>2 DEF Suppressed, LeaderTurn, Close, Desert, Interrupt, Finish, Judge,
         InterruptListed, Beat, Progress, Goes, Returns, InRun, TypeOK
    <3> QED BY <1>2, <3>1, <3>2
  <2> QED BY <2>1, <2>2, RunnersStay
<1>3. ASSUME NEW c \in Callers, Claim(c) PROVE OneRun'
  <2>1. /\ claimed' = [claimed EXCEPT ![proc[c]] = TRUE] /\ ~claimed[proc[c]]
        /\ proc' = proc /\ at[c] = "claim" /\ at' = [at EXCEPT ![c] = "run"]
    BY <1>3 DEF Claim, Goes
  <2>2. \A d \in Callers : at'[d] \in InRun <=> d = c \/ at[d] \in InRun
    BY <2>1 DEF InRun, TypeOK
  <2>3. \A d \in Callers : at[d] \in InRun => proc[d] # proc[c]
    BY <2>1 DEF OneRun, TypeOK
  <2> QED BY <2>1, <2>2, <2>3 DEF OneRun, TypeOK
<1>4. ASSUME NEW c \in Callers, Release(c) PROVE OneRun'
  <2>1. /\ claimed' = [claimed EXCEPT ![proc[c]] = FALSE]
        /\ proc' = proc /\ at[c] = "release" /\ at' = [at EXCEPT ![c] = "idle"]
    BY <1>4 DEF Release, Returns, Goes
  <2>2. \A d \in Callers : at'[d] \in InRun <=> d # c /\ at[d] \in InRun
    BY <2>1 DEF InRun, TypeOK
  <2>3. at[c] \in InRun
    BY <2>1 DEF InRun
  <2>4. \A d \in Callers : d # c /\ at[d] \in InRun => proc[d] # proc[c]
    BY <2>3 DEF OneRun, TypeOK
  <2> QED BY <2>1, <2>2, <2>3, <2>4 DEF OneRun, TypeOK
<1>5. ASSUME NEW p \in Procs, Crash(p) PROVE OneRun'
  <2>1. /\ claimed' = [claimed EXCEPT ![p] = FALSE] /\ proc' = proc
        /\ \A d \in Callers : at'[d] = IF proc[d] = p THEN "idle" ELSE at[d]
    BY <1>5 DEF Crash
  <2>2. \A d \in Callers : at'[d] \in InRun <=> proc[d] # p /\ at[d] \in InRun
    BY <2>1 DEF InRun
  <2> QED BY <2>1, <2>2 DEF OneRun, TypeOK
<1>6. CASE LeaseExpires \/ HeartbeatExpires \/ UNCHANGED vars
  BY <1>6, RunnersStay DEF LeaseExpires, HeartbeatExpires, vars
<1> QED BY <1>1, <1>2, <1>3, <1>4, <1>5, <1>6 DEF Next

----------------------------------------------------------------------------
(* Two shapes of a caller's step: with a save, and without one. *)

\* The caller saves j, or fails to, and goes on with it.
Saving(c, place, j) ==
  /\ at[c] # "idle" /\ Goes(c, place, j) /\ proc' = proc
  /\ SaveWorks(c, j) \/ SaveFails
  /\ \/ cache' = [cache EXCEPT ![proc[c]] = j.status]
     \/ cache' = [cache EXCEPT ![proc[c]] = "none"]
     \/ cache' = cache /\ j.status = copy[c].status
  /\ j.status = "busy" /\ j.owner = NoOwner => at[c] = "ending"
  /\ Waiting(j) /\ (place \in {"resume", "claim", "command", "run", "turn"} => ~j.pending)
  /\ j.status = "done" => place \in {"idle", "ending", "release"}
  /\ at[c] \in {"ending", "release"} => place = "release" /\ j.status = copy[c].status
  /\ place # "approve" /\ (place = "command" => SaveWorks(c, j))
  /\ lease' = "fresh" \/ (lease' = lease /\ (place \in {"run", "turn"} => at[c] = "run"))
       \/ (lease' = "none" /\ place \notin {"run", "turn"})

\* The caller goes on with its copy, or with what it has just loaded.
Moving(c, place, j) ==
  /\ Goes(c, place, j) /\ UNCHANGED <<disk, lease, orderly, deserted>>
  /\ Waiting(j) /\ (place \in {"resume", "claim", "command", "run", "turn"} => ~j.pending)
  /\ j.status = "done" => place \in {"idle", "ending", "release"}
  /\ place \in {"run", "turn"} => at[c] = "turn"
  /\ place # "command" /\ (place = "approve" => at[c] = "idle" /\ disk.pending)
  /\ \/ at[c] # "idle" /\ j.status = copy[c].status
        /\ (at[c] \in {"ending", "release"} => place = "idle")
        /\ current' \in {current, [current EXCEPT ![c] = FALSE]}
        /\ cache' \in {cache, [cache EXCEPT ![proc[c]] = copy[c].status]}
     \/ disk # NoJob /\ j.status = disk.status /\ cache' = cache
        /\ current' = [current EXCEPT ![c] = TRUE]

LEMMA Parts ==
  ASSUME NEW j \in Job, NEW p \in Procs, NEW s \in Statuses, NEW b \in BOOLEAN
  PROVE  /\ Touch(j, p).status = j.status /\ Touch(j, p).pending = j.pending
         /\ j.status = "busy" => Touch(j, p).owner # NoOwner
         /\ Disown(j).status = j.status /\ Disown(j).pending = j.pending
         /\ Interrupted(j).status = "blocked" /\ Interrupted(j).pending = FALSE
         /\ [j EXCEPT !.owner = p, !.beat = "fresh"].status = j.status
         /\ [j EXCEPT !.owner = p, !.beat = "fresh"].pending = j.pending
         /\ [j EXCEPT !.owner = p, !.beat = "fresh"].owner # NoOwner
         /\ [j EXCEPT !.status = s].status = s /\ [j EXCEPT !.status = s].pending = j.pending
         /\ [j EXCEPT !.steer = b].status = j.status /\ [j EXCEPT !.steer = b].pending = j.pending
         /\ [j EXCEPT !.status = s, !.pending = b].status = s
         /\ [j EXCEPT !.status = s, !.pending = b].pending = b
  BY Names DEF Touch, Disown, Interrupted, Job

LEMMA Touched ==
  ASSUME NEW j \in Job, NEW p \in Procs
  PROVE  /\ Touch(j, p) \in Job /\ Touch(j, p).status = j.status
         /\ Touch(j, p).pending = j.pending
         /\ j.status = "busy" => Touch(j, p).owner # NoOwner
<1>1. TRUE \in BOOLEAN /\ "busy" \in Statuses
  BY DEF Statuses
<1>2. Touch(j, p) \in Job
  BY <1>1, TouchType
<1>3. /\ Touch(j, p).status = j.status /\ Touch(j, p).pending = j.pending
      /\ (j.status = "busy" => Touch(j, p).owner # NoOwner)
  BY Names DEF Touch, Job
<1> QED BY <1>2, <1>3

LEMMA ChangesSaving ==
  ASSUME TypeOK, NEW c \in Callers, NEW j \in Job, NEW next,
         ChangesAndSaves(c, j, next), at[c] \notin {"idle", "ending", "release"},
         next \in {"idle", "recache", "claim", "command"},
         lease' \in {lease, "none"}, j.status # "done",
         j.status = "busy" => j.owner # NoOwner,
         Waiting(j), next \in {"claim", "command"} => ~j.pending
  PROVE  \E place \in Places : Saving(c, place, j)
<1>1. "idle" \in Places /\ next \in Places
  BY DEF Places
<1>2. CASE Goes(c, next, j) /\ SaveWorks(c, j)
  <2>1. Saving(c, next, j)
    BY <1>2 DEF Saving, ChangesAndSaves, CacheUpdate
  <2> QED BY <1>1, <2>1
<1>3. CASE SaveFails /\ Goes(c, "idle", j)
  <2>1. Saving(c, "idle", j)
    BY <1>3 DEF Saving, ChangesAndSaves, CacheUpdate
  <2> QED BY <1>1, <2>1
<1> QED BY <1>2, <1>3 DEF ChangesAndSaves

LEMMA OperatorSaving ==
  ASSUME TypeOK, ApprovalsWait, OpenPlaces, NEW c \in Callers,
         Cancel(c) \/ Steer(c) \/ Retry(c) \/ Approve(c) \/ CommandReturns(c) \/ Reject(c)
  PROVE  \E place \in Places, j \in Job : Saving(c, place, j)
<1>0. at[c] \in {"cancel", "steer", "retry", "approve", "command", "reject"}
  BY DEF Cancel, Steer, Retry, Approve, CommandReturns, Reject
<1>1. /\ copy[c] \in Job /\ proc[c] \in Procs /\ copy[c].status # "done"
      /\ Waiting(copy[c]) /\ (at[c] = "command" => ~copy[c].pending)
  BY <1>0, CopyType DEF ApprovalsWait, OpenPlaces
<1>2. CASE Cancel(c)
  <2>1. Interrupted(copy[c]) \in Job /\ Waiting(Interrupted(copy[c]))
    BY <1>1, TouchType, Parts DEF Statuses, Waiting
  <2>2. Interrupted(copy[c]).status = "blocked"
    BY <1>1, Parts DEF Statuses
  <2> QED BY <1>0, <1>2, <2>1, <2>2, ChangesSaving DEF Cancel
<1>3. CASE Steer(c)
  <2> DEFINE i == [copy[c] EXCEPT !.steer = TRUE]
             j == Touch(i, proc[c])
  <2>1. i \in Job /\ i.status = copy[c].status /\ i.pending = copy[c].pending
    BY <1>1, TouchType, Parts DEF Statuses
  <2>2. /\ j \in Job /\ j.status = i.status /\ j.pending = i.pending
        /\ (j.status = "busy" => j.owner # NoOwner)
    BY <1>1, <2>1, Touched
  <2>3. Waiting(j)
    BY <1>1, <2>1, <2>2 DEF Waiting
  <2>4. ChangesAndSaves(c, j, "idle") /\ lease' = lease
    BY <1>3 DEF Steer
  <2> HIDE DEF i, j
  <2> QED BY <1>0, <1>1, <2>1, <2>2, <2>3, <2>4, ChangesSaving
<1>4. CASE Retry(c) \/ Approve(c)
  <2> DEFINE i == [copy[c] EXCEPT !.status = "busy", !.pending = FALSE]
             j == Touch(i, proc[c])
  <2>1. i \in Job /\ i.status = "busy" /\ i.pending = FALSE
    BY <1>1, TouchType, Parts DEF Statuses
  <2>2. /\ j \in Job /\ j.status = i.status /\ j.pending = i.pending
        /\ (j.status = "busy" => j.owner # NoOwner)
    BY <1>1, <2>1, Touched
  <2>3. Waiting(j)
    BY <2>1, <2>2 DEF Waiting
  <2>4. lease' = lease /\ \E next \in {"claim", "command"} : ChangesAndSaves(c, j, next)
    BY <1>4 DEF Retry, Approve
  <2> HIDE DEF i, j
  <2> QED BY <1>0, <2>1, <2>2, <2>3, <2>4, ChangesSaving
<1>5. CASE CommandReturns(c)
  <2>1. PICK s \in {"busy", "blocked", "failed"} :
          ChangesAndSaves(c, Touch([copy[c] EXCEPT !.status = s], proc[c]),
                          IF s = "busy" THEN "claim" ELSE "idle")
    BY <1>5 DEF CommandReturns
  <2> DEFINE i == [copy[c] EXCEPT !.status = s]
             j == Touch(i, proc[c])
             next == IF s = "busy" THEN "claim" ELSE "idle"
  <2>2. i \in Job /\ i.status = s /\ i.pending = FALSE
    <3>1. copy[c].pending = FALSE
      BY <1>1, <1>5 DEF CommandReturns, Job
    <3>2. s \in Statuses /\ TRUE \in BOOLEAN
      BY DEF Statuses
    <3>3. i \in Job
      BY <1>1, <3>2, TouchType
    <3>4. i.pending = copy[c].pending /\ i.status = s
      BY <1>1, <3>2, Parts
    <3> QED BY <3>1, <3>3, <3>4
  <2>3. /\ j \in Job /\ j.status = i.status /\ j.pending = i.pending
        /\ (j.status = "busy" => j.owner # NoOwner)
    BY <1>1, <2>2, Touched
  <2>4. Waiting(j) /\ next \in {"claim", "idle"}
    BY <2>2, <2>3 DEF Waiting
  <2>5. ChangesAndSaves(c, j, next) /\ lease' = lease
    BY <1>5, <2>1 DEF CommandReturns
  <2> HIDE DEF i, j, next
  <2> QED BY <1>0, <2>2, <2>3, <2>4, <2>5, ChangesSaving
<1>6. CASE Reject(c)
  <2> DEFINE i == [copy[c] EXCEPT !.status = "blocked", !.pending = FALSE]
             j == Disown(i)
  <2>1. i \in Job /\ i.status = "blocked" /\ i.pending = FALSE
    BY <1>1, TouchType, Parts DEF Statuses
  <2>2. j \in Job /\ j.status = i.status /\ j.pending = i.pending
    <3> HIDE DEF i
    <3> QED BY <1>1, <2>1, TouchType, Parts DEF Statuses
  <2>3. Waiting(j)
    BY <2>1, <2>2 DEF Waiting
  <2>4. ChangesAndSaves(c, j, "idle") /\ lease' = lease
    BY <1>6 DEF Reject
  <2> HIDE DEF i, j
  <2> QED BY <1>0, <2>1, <2>2, <2>3, <2>4, ChangesSaving
<1> QED BY <1>2, <1>3, <1>4, <1>5, <1>6

LEMMA RunSaving ==
  ASSUME TypeOK, ApprovalsWait, OpenPlaces, NEW c \in Callers,
         \/ Claim(c) \/ Close(c) \/ Interrupt(c) \/ Finish(c) \/ InterruptListed(c)
         \/ \E next \in {"run", "turn"} : Progress(c, next)
  PROVE  \E place \in Places, j \in Job : Saving(c, place, j)
<1>0. at[c] \in {"claim", "run", "ending", "judged", "owned"}
  BY DEF Claim, Close, Interrupt, Finish, InterruptListed, Progress
<1>1. /\ copy[c] \in Job /\ proc[c] \in Procs /\ Waiting(copy[c])
      /\ at[c] # "ending" => copy[c].status # "done"
      /\ at[c] \in {"claim", "run"} => ~copy[c].pending
  BY <1>0, CopyType DEF ApprovalsWait, OpenPlaces
<1>2. TRUE \in BOOLEAN /\ "busy" \in Statuses /\ {"run", "turn", "ending", "release", "idle"} \subseteq Places
  BY DEF Statuses, Places, InRun
<1>3. CASE Claim(c)
  <2> DEFINE j == [copy[c] EXCEPT !.owner = proc[c], !.beat = "fresh"]
  <2>1. j \in Job
    BY <1>1, <1>2, TouchType
  <2>2. j.status = copy[c].status /\ j.pending = copy[c].pending /\ j.owner # NoOwner
    BY <1>1, Names DEF Job
  <2>3. /\ Goes(c, "run", j) /\ proc' = proc /\ (SaveWorks(c, j) \/ SaveFails)
        /\ cache' = cache /\ lease' = "fresh" /\ at[c] = "claim"
    BY <1>3 DEF Claim
  <2> HIDE DEF j
  <2>4. Saving(c, "run", j)
    BY <1>1, <2>2, <2>3 DEF Saving, Waiting
  <2> QED BY <1>2, <2>1, <2>4
<1>4. CASE \E next \in {"run", "turn"} : Progress(c, next)
  <2>0. PICK next \in {"run", "turn"} : Progress(c, next)
    BY <1>4
  <2> DEFINE i == [copy[c] EXCEPT !.status = "busy"]
             j == Touch(i, proc[c])
  <2>1. i \in Job /\ i.status = "busy" /\ i.pending = copy[c].pending
    <3>1. i \in Job
      BY <1>1, <1>2, TouchType
    <3> QED BY <1>1, <1>2, <3>1, Parts
  <2>2. /\ j \in Job /\ j.status = i.status /\ j.pending = i.pending
        /\ (j.status = "busy" => j.owner # NoOwner)
    BY <1>1, <2>1, Touched
  <2>3. /\ cache' = [cache EXCEPT ![proc[c]] = j.status] /\ proc' = proc /\ lease' = lease
        /\ at[c] = "run"
        /\ \/ Goes(c, next, j) /\ SaveWorks(c, j)
           \/ Goes(c, "ending", j) /\ SaveFails
    BY <2>0 DEF Progress, CacheUpdate
  <2> HIDE DEF i, j
  <2>4. Saving(c, next, j) \/ Saving(c, "ending", j)
    BY <1>1, <2>1, <2>2, <2>3 DEF Saving, Waiting
  <2> QED BY <1>2, <2>2, <2>4
<1>5. CASE Close(c)
  <2>0. PICK s \in {"blocked", "failed", "done"}, w \in BOOLEAN :
          LET j == Touch([copy[c] EXCEPT !.status = s, !.pending = w], proc[c]) IN
          /\ w => s = "blocked"
          /\ CacheUpdate(c, j) /\ Goes(c, "ending", j) /\ (SaveWorks(c, j) \/ SaveFails)
    BY <1>5 DEF Close
  <2> DEFINE i == [copy[c] EXCEPT !.status = s, !.pending = w]
             j == Touch(i, proc[c])
  <2>1. i \in Job /\ i.status = s /\ i.pending = w
    <3>0. s \in Statuses
      BY DEF Statuses
    <3>1. i \in Job
      BY <1>1, <3>0, TouchType
    <3> QED BY <1>1, <3>0, <3>1, Parts
  <2>2. /\ j \in Job /\ j.status = i.status /\ j.pending = i.pending
        /\ (j.status = "busy" => j.owner # NoOwner)
    BY <1>1, <2>1, Touched
  <2>3. /\ cache' = [cache EXCEPT ![proc[c]] = j.status] /\ proc' = proc /\ lease' = lease
        /\ at[c] = "run" /\ (w => s = "blocked")
        /\ Goes(c, "ending", j) /\ (SaveWorks(c, j) \/ SaveFails)
    BY <1>5, <2>0 DEF Close, CacheUpdate
  <2> HIDE DEF i, j
  <2>4. Saving(c, "ending", j)
    BY <2>1, <2>2, <2>3 DEF Saving, Waiting
  <2> QED BY <1>2, <2>2, <2>4
<1>6. CASE Interrupt(c) \/ InterruptListed(c)
  <2> DEFINE j == Interrupted(copy[c])
  <2>1. j \in Job
    BY <1>1, <1>2, TouchType
  <2>2. j.status = "blocked" /\ j.pending = FALSE
    BY <1>1, <1>2, Parts
  <2>3. /\ cache' = [cache EXCEPT ![proc[c]] = j.status] /\ proc' = proc /\ lease' = "none"
        /\ at[c] \in {"run", "judged", "owned"} /\ (SaveWorks(c, j) \/ SaveFails)
        /\ Goes(c, "ending", j) \/ Goes(c, "idle", j)
    <3>1. Goes(c, "idle", NoJob) => Goes(c, "idle", j)
      BY DEF Goes
    <3> QED BY <1>6, <3>1 DEF Interrupt, InterruptListed, CacheUpdate
  <2> HIDE DEF j
  <2>4. Saving(c, "ending", j) \/ Saving(c, "idle", j)
    BY <2>2, <2>3 DEF Saving, Waiting
  <2> QED BY <1>2, <2>1, <2>4
<1>7. CASE Finish(c)
  <2> DEFINE j == Disown(copy[c])
  <2>1. j \in Job
    BY <1>1, <1>2, TouchType
  <2>2. j.status = copy[c].status /\ j.pending = copy[c].pending
    BY <1>1, <1>2, Parts
  <2>3. /\ cache' = cache \/ cache' = [cache EXCEPT ![proc[c]] = "none"]
        /\ proc' = proc /\ lease' = "none" /\ at[c] = "ending"
        /\ Goes(c, "release", j) /\ (SaveWorks(c, j) \/ SaveFails)
    BY <1>7 DEF Finish
  <2> HIDE DEF j
  <2>4. Saving(c, "release", j)
    BY <1>1, <2>2, <2>3 DEF Saving, Waiting
  <2> QED BY <1>2, <2>1, <2>4
<1> QED BY <1>3, <1>4, <1>5, <1>6, <1>7

LEMMA ResumeShape ==
  ASSUME TypeOK, ApprovalsWait, OpenPlaces, NEW c \in Callers, Resume(c)
  PROVE  \E place \in Places, j \in Job : Saving(c, place, j) \/ Moving(c, place, j)
<1>1. /\ copy[c] \in Job /\ proc[c] \in Procs /\ Waiting(copy[c])
      /\ at[c] = "resume" /\ copy[c].status # "done" /\ ~copy[c].pending
  BY CopyType DEF Resume, ApprovalsWait, OpenPlaces
<1>2. TRUE \in BOOLEAN /\ "busy" \in Statuses /\ "claim" \in Places
  BY DEF Statuses, Places
<1>3. CASE copy[c].status = "blocked" /\ ChangesAndSaves(c, Disown(copy[c]), "claim")
  <2> DEFINE j == Disown(copy[c])
  <2>1. j \in Job
    BY <1>1, <1>2, TouchType
  <2>2. j.status = copy[c].status /\ j.pending = copy[c].pending
    BY <1>1, <1>2, Parts
  <2>3. Waiting(j)
    BY <1>1, <2>2 DEF Waiting
  <2>4. ChangesAndSaves(c, j, "claim") /\ lease' = lease
    BY <1>3 DEF Resume
  <2> HIDE DEF j
  <2> QED BY <1>1, <1>3, <2>1, <2>2, <2>3, <2>4, ChangesSaving
<1>4. CASE /\ CacheUpdate(c, copy[c]) /\ Goes(c, "claim", copy[c])
           /\ UNCHANGED <<phase, disk, claimed, proc, current, orderly, deserted>>
  <2>1. Moving(c, "claim", copy[c])
    BY <1>1, <1>4 DEF Moving, CacheUpdate, Resume
  <2> QED BY <1>1, <1>2, <2>1
<1> QED BY <1>3, <1>4 DEF Resume

LEMMA LoadMoving ==
  ASSUME TypeOK, ApprovalsWait, NEW c \in Callers, NEW p \in Procs,
         NEW o \in Operations \cup {"owned"}, Load(c, p, o)
  PROVE  \E place \in Places, j \in Job : Moving(c, place, j)
<1>1. disk \in Job /\ Accepts(o, disk, p) /\ Waiting(disk) /\ o \in Places
      /\ TRUE \in BOOLEAN /\ "busy" \in Statuses
  BY DEF Load, TypeOK, Places, ApprovalsWait, Statuses
<1> DEFINE j == Disown(disk)
<1>2. j \in Job
  BY <1>1, TouchType
<1>3. j.status = disk.status /\ j.pending = disk.pending
  BY <1>1, Parts
<1>4. /\ Goes(c, o, j) /\ disk # NoJob /\ current' = [current EXCEPT ![c] = TRUE]
      /\ UNCHANGED <<disk, lease, cache, orderly, deserted>>
  BY DEF Load
<1> HIDE DEF j
<1>5. j.status # "done" /\ (o \in {"resume", "claim", "command", "run", "turn"} => ~j.pending)
      /\ o \notin {"run", "turn", "command"} /\ (o = "approve" => disk.pending)
  BY <1>1, <1>3 DEF Accepts, Waiting, Operations
<1>6. Moving(c, o, j)
  BY <1>1, <1>3, <1>4, <1>5 DEF Moving, Waiting, Load
<1> QED BY <1>1, <1>2, <1>6

LEMMA BootMoving ==
  ASSUME TypeOK, ApprovalsWait, NEW c \in Callers, NEW p \in Procs, Boot(c, p)
  PROVE  \/ \E place \in Places, j \in Job : Moving(c, place, j)
         \/ UNCHANGED <<disk, lease, cache, at, copy, current, orderly, deserted>>
<1>1. CASE UNCHANGED <<at, copy, current>>
  BY <1>1 DEF Boot
<1>2. CASE /\ Accepts("sweep", disk, p) /\ current' = [current EXCEPT ![c] = TRUE]
           /\ \E place \in {"sweep", "claim"} : Goes(c, place, disk)
  <2>1. PICK place \in {"sweep", "claim"} : Goes(c, place, disk)
    BY <1>2
  <2>2. disk.status = "busy" /\ Waiting(disk)
    BY <1>2 DEF Accepts, ApprovalsWait
  <2>3. disk # NoJob /\ disk \in Job /\ ~disk.pending
    BY <2>2, Names DEF TypeOK, Waiting, Job
  <2>4. Moving(c, place, disk)
    BY <1>2, <2>1, <2>2, <2>3 DEF Moving, Boot
  <2>5. place \in Places
    BY DEF Places
  <2> QED BY <2>3, <2>4, <2>5
<1> QED BY <1>1, <1>2 DEF Boot

LEMMA RunMoving ==
  ASSUME TypeOK, ApprovalsWait, OpenPlaces, NEW c \in Callers,
         CancelRecaches(c) \/ Suppressed(c) \/ LeaderTurn(c) \/ Desert(c) \/ Release(c) \/ Judge(c)
  PROVE  \E place \in Places, j \in Job : Moving(c, place, j)
<1>0. at[c] \in {"recache", "claim", "turn", "run", "release", "sweep"}
  BY DEF CancelRecaches, Suppressed, LeaderTurn, Desert, Release, Judge
<1>1. /\ copy[c] \in Job /\ proc[c] \in Procs /\ Waiting(copy[c])
      /\ at[c] # "release" => copy[c].status # "done"
      /\ at[c] = "turn" => ~copy[c].pending
  BY <1>0, CopyType DEF ApprovalsWait, OpenPlaces
<1>2. {"idle", "run", "ending", "judged"} \subseteq Places
  BY DEF Places, InRun
<1>3. CASE LeaderTurn(c)
  <2> DEFINE j == [copy[c] EXCEPT !.steer = FALSE]
  <2>1. j \in Job /\ j.status = copy[c].status /\ j.pending = copy[c].pending
    BY <1>1 DEF Job
  <2>2. Goes(c, "run", j) /\ UNCHANGED <<disk, lease, orderly, deserted, cache, current>>
        /\ at[c] = "turn"
    BY <1>3 DEF LeaderTurn
  <2> HIDE DEF j
  <2>3. Moving(c, "run", j)
    BY <1>1, <2>1, <2>2 DEF Moving, Waiting
  <2> QED BY <1>2, <2>1, <2>3
<1>4. CASE Desert(c)
  <2>1. Moving(c, "ending", copy[c])
    BY <1>0, <1>1, <1>4 DEF Moving, Desert
  <2> QED BY <1>1, <1>2, <2>1
<1>5. CASE Judge(c) /\ Goes(c, "judged", copy[c]) /\ UNCHANGED current
  <2>1. Moving(c, "judged", copy[c])
    BY <1>0, <1>1, <1>5 DEF Moving, Judge
  <2> QED BY <1>1, <1>2, <2>1
<1>6. CASE Returns(c) /\ (CancelRecaches(c) \/ Suppressed(c) \/ Release(c) \/ Judge(c))
  <2>1. Goes(c, "idle", copy[c]) /\ current' = [current EXCEPT ![c] = FALSE]
    BY <1>6 DEF Returns, Goes
  <2>2. UNCHANGED <<disk, lease, orderly, deserted>>
        /\ cache' \in {cache, [cache EXCEPT ![proc[c]] = copy[c].status]}
    BY <1>6 DEF CancelRecaches, Suppressed, Release, Judge, CacheUpdate
  <2>3. Moving(c, "idle", copy[c])
    BY <1>0, <1>1, <2>1, <2>2 DEF Moving
  <2> QED BY <1>1, <1>2, <2>3
<1> QED BY <1>3, <1>4, <1>5, <1>6 DEF CancelRecaches, Suppressed, Release, Judge

\* What is left: the creation, the clocks, the crash.
LEMMA StepShapes ==
  ASSUME TypeOK, ApprovalsWait, OpenPlaces, [Next]_vars
  PROVE  \/ \E c \in Callers, place \in Places, j \in Job :
              Saving(c, place, j) \/ Moving(c, place, j)
         \/ UNCHANGED <<disk, lease, cache, at, copy, current, orderly, deserted>>
         \/ \E c \in Callers, p \in Procs : Start(c, p)
         \/ \E c \in Callers : Beat(c)
         \/ LeaseExpires \/ HeartbeatExpires
         \/ \E p \in Procs : Crash(p)
<1>1. CASE UNCHANGED vars
  BY <1>1 DEF vars
<1>2. CASE Next
  BY <1>2, OperatorSaving, RunSaving, ResumeShape, LoadMoving, BootMoving, RunMoving DEF Next
<1> QED BY <1>1, <1>2

----------------------------------------------------------------------------
(* What the shapes preserve. *)

Promises == /\ OwnedOrDeserted /\ ApprovalsWait /\ OpenPlaces
            /\ CurrentKnows /\ AnswerKnows /\ LeaseHolds /\ Agreement

LEMMA SavingKeeps ==
  ASSUME IInv, NEW c \in Callers, NEW place \in Places, NEW j \in Job, Saving(c, place, j)
  PROVE  Promises'
<1> USE DEF IInv
<1>1. /\ proc[c] \in Procs /\ proc' = proc /\ at[c] # "idle"
      /\ at' = [at EXCEPT ![c] = place]
      /\ copy' = [copy EXCEPT ![c] = IF place = "idle" THEN NoJob ELSE j]
      /\ at \in [Callers -> Places] /\ cache \in [Procs -> Statuses \cup {"none"}]
      /\ DOMAIN copy = Callers /\ DOMAIN current = Callers
  BY DEF Saving, Goes, TypeOK
<1>2. \A d \in Callers : d # c => at'[d] = at[d] /\ copy'[d] = copy[d]
  BY <1>1
<1>3. at'[c] = place /\ copy'[c] = IF place = "idle" THEN NoJob ELSE j
  BY <1>1 DEF TypeOK
<1>4. \/ disk' = j /\ deserted' = (at[c] = "ending" /\ j.status = "busy")
         /\ (\A d \in Callers : current'[d] => d = c /\ current[c])
         /\ (orderly' => /\ orderly
                         /\ \A d \in Callers \ {c} : at[d] = "idle"
                         /\ \A p \in Procs \ {proc[c]} : cache[p] = "none")
      \/ disk' = disk /\ current' = current /\ deserted' = deserted /\ ~orderly'
  <2>1. CASE SaveWorks(c, j)
    <3>1. disk' = j /\ deserted' = (at[c] = "ending" /\ j.status = "busy")
      BY <2>1 DEF SaveWorks
    <3>2. \A d \in Callers : current'[d] => d = c /\ current[c]
      BY <2>1 DEF SaveWorks
    <3>3. orderly' => /\ orderly
                      /\ \A d \in Callers \ {c} : at[d] = "idle"
                      /\ \A p \in Procs \ {proc[c]} : cache[p] = "none"
      BY <2>1 DEF SaveWorks
    <3> QED BY <3>1, <3>2, <3>3
  <2>2. CASE SaveFails
    BY <2>2 DEF SaveFails
  <2> QED BY <2>1, <2>2 DEF Saving
<1>5. OwnedOrDeserted'
  BY <1>4 DEF OwnedOrDeserted, Saving
<1>6. ApprovalsWait'
  <2>1. Waiting(j) /\ (place \in {"resume", "claim", "command", "run", "turn"} => ~j.pending)
    BY DEF Saving
  <2>2. Waiting(NoJob)
    BY DEF Waiting, NoJob
  <2> QED BY <1>2, <1>3, <1>4, <2>1, <2>2 DEF ApprovalsWait, Waiting
<1>7. OpenPlaces'
  BY <1>2, <1>3 DEF OpenPlaces, Saving
<1>8. CurrentKnows'
  <2>1. ASSUME NEW d \in Callers, current'[d], at'[d] # "idle", disk'.status = "done"
        PROVE  at'[d] \in {"ending", "release"} /\ copy'[d].status = "done"
    <3>1. CASE disk' = j /\ d = c
      BY <1>3, <2>1, <3>1 DEF Saving
    <3>2. CASE disk' = disk /\ current' = current
      <4>1. CASE d # c
        BY <1>2, <2>1, <3>2, <4>1 DEF CurrentKnows
      <4>2. CASE d = c
        BY <1>1, <1>3, <2>1, <3>2, <4>2 DEF CurrentKnows, Saving
      <4> QED BY <4>1, <4>2
    <3> QED BY <1>4, <2>1, <3>1, <3>2
  <2> QED BY <2>1 DEF CurrentKnows
<1>9. LeaseHolds'
  <2>1. SUFFICES ASSUME NEW d \in Callers, at'[d] \in {"run", "turn"}
                 PROVE  lease' # "old" /\ (lease' = "none" => ~orderly')
    BY DEF LeaseHolds, LiveRun
  <2>2. orderly' => orderly
    BY DEF Saving, SaveWorks, SaveFails
  <2>3. CASE d = c
    <3>1. lease' = "fresh" \/ (lease' = lease /\ at[c] = "run")
      BY <1>3, <2>1, <2>3 DEF Saving
    <3> QED BY <2>2, <3>1 DEF LeaseHolds, LiveRun
  <2>4. CASE d # c
    <3>1. at[d] \in {"run", "turn"}
      BY <1>2, <2>1, <2>4
    <3>2. ~orderly'
      BY <1>4, <2>4, <3>1
    <3>3. lease' \in {"fresh", lease, "none"} /\ lease # "old"
      BY <3>1 DEF Saving, LeaseHolds, LiveRun
    <3> QED BY <3>2, <3>3
  <2> QED BY <2>3, <2>4
<1>10. AnswerKnows'
  <2>1. SUFFICES ASSUME NEW d \in Callers, current'[d]
                 PROVE  /\ at'[d] = "approve" => disk'.pending
                        /\ at'[d] = "command" => ~disk'.pending
    BY DEF AnswerKnows
  <2>2. place # "approve" /\ (place = "command" => ~j.pending /\ disk' = j)
    BY DEF Saving, SaveWorks
  <2>3. CASE d = c
    BY <1>3, <2>2, <2>3
  <2>4. CASE d # c
    <3>1. disk' = disk /\ current' = current
      BY <1>4, <2>1, <2>4
    <3> QED BY <1>2, <2>1, <2>4, <3>1 DEF AnswerKnows
  <2> QED BY <2>3, <2>4
<1>11. Agreement'
  <2>1. disk' # NoJob
    BY <1>1, <1>4, Names DEF Agreement
  <2>2. ASSUME orderly'
        PROVE  /\ \A d \in Callers : at'[d] # "idle" => copy'[d].status = disk'.status
               /\ \A p \in Procs : cache'[p] \in {"none", disk'.status}
    <3>1. /\ disk' = j /\ orderly
          /\ \A d \in Callers \ {c} : at[d] = "idle"
          /\ \A p \in Procs \ {proc[c]} : cache[p] = "none"
      BY <1>4, <2>2
    <3>2. copy[c].status = disk.status /\ cache[proc[c]] \in {"none", disk.status}
      BY <1>1, <3>1 DEF Agreement
    <3>3. cache'[proc[c]] \in {"none", j.status}
      BY <1>1, <3>2 DEF Saving
    <3>4. \A p \in Procs : p # proc[c] => cache'[p] = cache[p]
      BY <1>1 DEF Saving
    <3> QED BY <1>2, <1>3, <3>1, <3>3, <3>4
  <2> QED BY <2>1, <2>2 DEF Agreement
<1> QED BY <1>5, <1>6, <1>7, <1>8, <1>9, <1>10, <1>11 DEF Promises

LEMMA MovingKeeps ==
  ASSUME IInv, NEW c \in Callers, NEW place \in Places, NEW j \in Job, Moving(c, place, j)
  PROVE  Promises'
<1> USE DEF IInv
<1>1. /\ at' = [at EXCEPT ![c] = place]
      /\ copy' = [copy EXCEPT ![c] = IF place = "idle" THEN NoJob ELSE j]
      /\ at \in [Callers -> Places] /\ cache \in [Procs -> Statuses \cup {"none"}]
      /\ DOMAIN copy = Callers /\ DOMAIN current = Callers
      /\ UNCHANGED <<disk, lease, orderly, deserted>>
  BY DEF Moving, Goes, TypeOK
<1>2. \A d \in Callers : d # c => at'[d] = at[d] /\ copy'[d] = copy[d] /\ current'[d] = current[d]
  BY <1>1 DEF Moving
<1>3. at'[c] = place /\ copy'[c] = IF place = "idle" THEN NoJob ELSE j
  BY <1>1 DEF TypeOK
<1>4. OwnedOrDeserted'
  BY <1>1 DEF OwnedOrDeserted
<1>5. ApprovalsWait'
  <2>1. Waiting(j) /\ (place \in {"resume", "claim", "command", "run", "turn"} => ~j.pending)
    BY DEF Moving
  <2>2. Waiting(NoJob)
    BY DEF Waiting, NoJob
  <2> QED BY <1>1, <1>2, <1>3, <2>1, <2>2 DEF ApprovalsWait, Waiting
<1>6. OpenPlaces'
  BY <1>2, <1>3 DEF OpenPlaces, Moving
<1>7. CurrentKnows'
  <2>1. ASSUME NEW d \in Callers, current'[d], at'[d] # "idle", disk'.status = "done"
        PROVE  at'[d] \in {"ending", "release"} /\ copy'[d].status = "done"
    <3>1. CASE d # c
      BY <1>1, <1>2, <2>1, <3>1 DEF CurrentKnows
    <3>2. CASE d = c /\ disk # NoJob /\ j.status = disk.status
      BY <1>1, <1>3, <2>1, <3>2 DEF Moving
    <3>3. CASE /\ d = c /\ at[c] # "idle" /\ (at[c] \in {"ending", "release"} => place = "idle")
               /\ current' \in {current, [current EXCEPT ![c] = FALSE]}
      BY <1>1, <1>3, <2>1, <3>3 DEF CurrentKnows
    <3> QED BY <3>1, <3>2, <3>3 DEF Moving
  <2> QED BY <2>1 DEF CurrentKnows
<1>8. LeaseHolds'
  <2>1. LiveRun' => LiveRun
    BY <1>2, <1>3 DEF LiveRun, Moving
  <2> QED BY <1>1, <2>1 DEF LeaseHolds
<1>9. Agreement'
  <2>1. disk # NoJob
    BY DEF Moving, Agreement
  <2>2. ASSUME orderly
        PROVE  /\ \A d \in Callers : at'[d] # "idle" => copy'[d].status = disk.status
               /\ \A p \in Procs : cache'[p] \in {"none", disk.status}
    <3>1. j.status = disk.status
      BY <2>2 DEF Moving, Agreement
    <3>2. \/ cache' = cache
          \/ at[c] # "idle" /\ cache' = [cache EXCEPT ![proc[c]] = copy[c].status]
      BY DEF Moving
    <3>3. \A p \in Procs : cache'[p] \in {"none", disk.status}
      BY <1>1, <2>2, <3>2 DEF Agreement
    <3> QED BY <1>2, <1>3, <2>2, <3>1, <3>3 DEF Agreement
  <2> QED BY <1>1, <2>1, <2>2 DEF Agreement
<1>10. AnswerKnows'
  <2>1. SUFFICES ASSUME NEW d \in Callers, current'[d]
                 PROVE  /\ at'[d] = "approve" => disk.pending
                        /\ at'[d] = "command" => ~disk.pending
    BY <1>1 DEF AnswerKnows
  <2>2. CASE d = c
    BY <1>3, <2>2 DEF Moving
  <2>3. CASE d # c
    BY <1>2, <2>1, <2>3 DEF AnswerKnows
  <2> QED BY <2>2, <2>3
<1> QED BY <1>4, <1>5, <1>6, <1>7, <1>8, <1>9, <1>10 DEF Promises

LEMMA StartKeeps ==
  ASSUME IInv, NEW c \in Callers, NEW p \in Procs, Start(c, p)
  PROVE  Promises'
<1> USE DEF IInv
<1> DEFINE j == Touch([NoJob EXCEPT !.status = "busy"], p)
<1>1. j \in Job /\ j.status = "busy" /\ j.pending = FALSE /\ j.owner = p
  BY StartedType DEF Touch, NoJob
<1>2. /\ disk = NoJob /\ disk' = j /\ Goes(c, "claim", j) /\ at[c] = "idle"
      /\ cache' = [cache EXCEPT ![p] = j.status]
      /\ UNCHANGED <<lease, orderly, deserted>>
  BY DEF Start
<1> HIDE DEF j
<1>3. /\ \A d \in Callers : at[d] = "idle" /\ copy[d] = NoJob
      /\ \A q \in Procs : cache[q] = "none"
  BY <1>2 DEF Agreement, TypeOK
<1>4. \A d \in Callers : /\ at'[d] = IF d = c THEN "claim" ELSE "idle"
                         /\ copy'[d] = IF d = c THEN j ELSE NoJob
  BY <1>2, <1>3 DEF Goes, TypeOK
<1>5. \A q \in Procs : cache'[q] \in {"none", "busy"}
  BY <1>1, <1>2, <1>3 DEF TypeOK
<1>6. OwnedOrDeserted'
  BY <1>1, <1>2, Names DEF OwnedOrDeserted
<1>7. ApprovalsWait' /\ OpenPlaces' /\ CurrentKnows' /\ AnswerKnows'
  BY <1>1, <1>2, <1>4, Names DEF ApprovalsWait, OpenPlaces, CurrentKnows, AnswerKnows,
     Waiting, NoJob
<1>8. LeaseHolds'
  BY <1>4 DEF LeaseHolds, LiveRun
<1>9. Agreement'
  BY <1>1, <1>2, <1>4, <1>5, Names DEF Agreement
<1> QED BY <1>6, <1>7, <1>8, <1>9 DEF Promises

LEMMA ClocksKeep ==
  ASSUME IInv, (\E c \in Callers : Beat(c)) \/ LeaseExpires \/ HeartbeatExpires
  PROVE  Promises'
<1> USE DEF IInv
<1>1. UNCHANGED <<cache, at, copy, current, orderly, deserted>>
  BY DEF Beat, LeaseExpires, HeartbeatExpires
<1>2. /\ disk'.status = disk.status /\ disk'.owner = disk.owner /\ disk'.pending = disk.pending
      /\ (disk' = NoJob => disk = NoJob)
  <2>1. CASE HeartbeatExpires
    <3>1. disk \in Job
      BY <2>1, Names DEF HeartbeatExpires, TypeOK
    <3> QED BY <2>1, <3>1, Names DEF HeartbeatExpires, Job
  <2> QED BY <2>1 DEF Beat, LeaseExpires
<1>3. LeaseHolds'
  BY <1>1 DEF Beat, LeaseExpires, HeartbeatExpires, LeaseHolds, LiveRun
<1>4. OwnedOrDeserted' /\ ApprovalsWait' /\ OpenPlaces' /\ CurrentKnows' /\ AnswerKnows'
  BY <1>1, <1>2 DEF OwnedOrDeserted, ApprovalsWait, OpenPlaces, CurrentKnows, AnswerKnows,
     Waiting
<1>5. Agreement'
  BY <1>1, <1>2 DEF Agreement
<1> QED BY <1>3, <1>4, <1>5 DEF Promises

LEMMA CrashKeeps ==
  ASSUME IInv, NEW p \in Procs, Crash(p)
  PROVE  Promises'
<1> USE DEF IInv
<1>1. /\ disk' = Forget(disk, p) /\ UNCHANGED <<lease, orderly, deserted>>
      /\ cache' = [cache EXCEPT ![p] = "none"]
      /\ \A d \in Callers : /\ at'[d] = IF proc[d] = p THEN "idle" ELSE at[d]
                            /\ copy'[d] = IF proc[d] = p THEN NoJob ELSE Forget(copy[d], p)
                            /\ current'[d] => proc[d] # p /\ current[d]
  BY DEF Crash
<1>2. \A j \in Job \cup {NoJob} :
        /\ Forget(j, p).status = j.status /\ Forget(j, p).pending = j.pending
        /\ Forget(j, p).owner = NoOwner => j.owner = NoOwner
        /\ Forget(j, p) = NoJob => j = NoJob
  BY Names DEF Forget, Job, NoJob
<1>3. disk \in Job \cup {NoJob} /\ \A d \in Callers : copy[d] \in Job \cup {NoJob}
  BY DEF TypeOK
<1>4. /\ Forget(disk, p).status = disk.status /\ Forget(disk, p).pending = disk.pending
      /\ Forget(disk, p).owner = NoOwner => disk.owner = NoOwner
      /\ Forget(disk, p) = NoJob => disk = NoJob
  BY <1>2, <1>3
<1>5. \A d \in Callers : /\ at'[d] # "idle" => at'[d] = at[d]
                         /\ copy'[d].status = "none" \/ copy'[d].status = copy[d].status
                         /\ at'[d] # "idle" => copy'[d].status = copy[d].status
                         /\ copy'[d].pending => copy[d].pending /\ proc[d] # p
                         /\ copy'[d].status = copy[d].status \/ ~copy'[d].pending
  BY <1>1, <1>2, <1>3, Names DEF NoJob
<1>6. OwnedOrDeserted' /\ LeaseHolds'
  BY <1>1, <1>4, <1>5 DEF OwnedOrDeserted, LeaseHolds, LiveRun
<1>7. ApprovalsWait'
  BY <1>1, <1>4, <1>5 DEF ApprovalsWait, Waiting
<1>8. OpenPlaces' /\ CurrentKnows' /\ AnswerKnows'
  BY <1>1, <1>4, <1>5 DEF OpenPlaces, CurrentKnows, AnswerKnows
<1>9. \A q \in Procs : cache'[q] \in {"none", cache[q]}
  BY <1>1 DEF TypeOK
<1>10. Agreement'
  BY <1>1, <1>4, <1>5, <1>9 DEF Agreement
<1> QED BY <1>6, <1>7, <1>8, <1>10 DEF Promises

LEMMA StepPromises ==
  ASSUME IInv, [Next]_vars
  PROVE  Promises'
<1>1. CASE \E c \in Callers, place \in Places, j \in Job :
             Saving(c, place, j) \/ Moving(c, place, j)
  BY <1>1, SavingKeeps, MovingKeeps
<1>2. CASE UNCHANGED <<disk, lease, cache, at, copy, current, orderly, deserted>>
  BY <1>2 DEF IInv, Promises, OwnedOrDeserted, ApprovalsWait, OpenPlaces, CurrentKnows,
     AnswerKnows, LeaseHolds, Agreement, Waiting, LiveRun
<1>3. CASE \E c \in Callers, p \in Procs : Start(c, p)
  BY <1>3, StartKeeps
<1>4. CASE (\E c \in Callers : Beat(c)) \/ LeaseExpires \/ HeartbeatExpires
  BY <1>4, ClocksKeep
<1>5. CASE \E p \in Procs : Crash(p)
  BY <1>5, CrashKeeps
<1> QED BY <1>1, <1>2, <1>3, <1>4, <1>5, StepShapes DEF IInv

----------------------------------------------------------------------------
(* The theorems. *)

LEMMA InitHolds ==
  ASSUME Init
  PROVE  IInv
<1>1. TypeOK
  BY DEF Init, TypeOK, Places
<1>2. OneRun
  BY DEF Init, OneRun, InRun
<1>3. /\ OwnedOrDeserted /\ ApprovalsWait /\ OpenPlaces /\ CurrentKnows /\ AnswerKnows
      /\ LeaseHolds /\ Agreement
  BY DEF Init, OwnedOrDeserted, ApprovalsWait, OpenPlaces, CurrentKnows, AnswerKnows,
     LeaseHolds, Agreement, Waiting, LiveRun, NoJob
<1> QED BY <1>1, <1>2, <1>3 DEF IInv

\* The inductive invariant of the stored job holds for any number of processes and of
\* callers.
THEOREM StoreInvariant == Spec => []IInv
<1>1. Init => IInv
  BY InitHolds
<1>2. IInv /\ [Next]_vars => IInv'
  <2> SUFFICES ASSUME IInv, [Next]_vars PROVE IInv'
    OBVIOUS
  <2>1. TypeOK'
    BY StepType DEF IInv
  <2>2. OneRun'
    BY StepOneRun DEF IInv
  <2>3. Promises'
    BY StepPromises
  <2> QED BY <2>1, <2>2, <2>3 DEF IInv, Promises
<1> QED BY <1>1, <1>2, PTL DEF Spec

\* The file, the copies and the caches hold jobs, and a caller has one while it works.
THEOREM StoreTypeCorrect == Spec => []TypeOK
<1>1. IInv => TypeOK
  BY DEF IInv
<1> QED BY <1>1, StoreInvariant, PTL

\* A process runs the job at most once at a time (claimRun, releaseRun).
THEOREM RunsOnce == Spec => []OneRun
<1>1. IInv => OneRun
  BY DEF IInv
<1> QED BY <1>1, StoreInvariant, PTL

\* A busy job without lease and owner was left so by the deferred save of a run.
THEOREM HiddenWasDeserted == Spec => []OnlyDesertionHides
<1>1. IInv => OnlyDesertionHides
  BY DEF IInv, OwnedOrDeserted, OnlyDesertionHides
<1> QED BY <1>1, StoreInvariant, PTL

\* As long as no save met another's copy, the caches show the file when all is quiet.
THEOREM CachesAreCurrent == Spec => []CacheIsCurrent
<1>1. IInv => CacheIsCurrent
  BY DEF IInv, Agreement, CacheIsCurrent
<1> QED BY <1>1, StoreInvariant, PTL

\* Only a copy that is out of date reopens a done job.
THEOREM StaleCopiesReopen == Spec => DoneIsNotReopened
<1>1. IInv /\ [Next]_vars =>
        [disk.status = "done" /\ disk'.status # "done" => \A c \in Callers : ~current'[c]]_vars
  <2> SUFFICES ASSUME IInv, [Next]_vars, disk.status = "done", disk'.status # "done",
                      NEW d \in Callers, current'[d]
               PROVE  FALSE
    BY DEF vars
  <2>1. CASE \E c \in Callers, place \in Places, j \in Job : Saving(c, place, j)
    <3>1. PICK c \in Callers, place \in Places, j \in Job : Saving(c, place, j)
      BY <2>1
    <3>2. SaveWorks(c, j)
      BY <3>1 DEF Saving, SaveFails
    <3>3. d = c /\ current[c] /\ at'[c] # "idle" /\ j.status # "done"
      BY <3>2 DEF SaveWorks
    <3>4. at[c] \in {"ending", "release"} /\ copy[c].status = "done"
      BY <3>1, <3>3 DEF Saving, IInv, CurrentKnows
    <3> QED BY <3>1, <3>3, <3>4 DEF Saving
  <2>2. CASE \E c \in Callers, place \in Places, j \in Job : Moving(c, place, j)
    BY <2>2 DEF Moving
  <2>3. CASE \E c \in Callers, p \in Procs : Start(c, p)
    BY <2>3, Names DEF Start
  <2>4. CASE HeartbeatExpires
    BY <2>4, Names DEF HeartbeatExpires, IInv, TypeOK, Job
  <2>5. CASE \E p \in Procs : Crash(p)
    BY <2>5, Names DEF Crash, Forget, IInv, TypeOK, Job
  <2> QED BY <2>1, <2>2, <2>3, <2>4, <2>5, StepShapes DEF IInv, Beat, LeaseExpires
<1> QED BY <1>1, StoreInvariant, PTL DEF Spec, DoneIsNotReopened

\* The sweep does not take a job for stale while a run lives and its lease was not
\* removed beside it.
THEOREM SweepSparesTheLiving == Spec => VerdictIsRight
<1>1. IInv /\ [Next]_vars =>
        [\A c \in Callers : at[c] = "sweep" /\ at'[c] = "judged" =>
           ~LiveRun \/ (lease = "none" /\ ~orderly)]_vars
  <2> SUFFICES ASSUME IInv, [Next]_vars, NEW c \in Callers, at[c] = "sweep", at'[c] = "judged",
                      LiveRun
               PROVE  lease = "none" /\ ~orderly
    BY DEF vars
  <2>1. Judge(c)
    <3>1. ASSUME NEW d \in Callers, NEW p \in Procs,
                 \/ Start(d, p) \/ Boot(d, p)
                 \/ \E o \in Operations \cup {"owned"} : Load(d, p, o)
          PROVE  FALSE
      BY <3>1 DEF Start, Boot, Load, Goes, IInv, TypeOK, Operations
    <3>2. ASSUME NEW d \in Callers,
                 \/ Cancel(d) \/ CancelRecaches(d) \/ Steer(d) \/ Retry(d) \/ Resume(d)
                 \/ Approve(d) \/ CommandReturns(d) \/ Reject(d)
          PROVE  FALSE
      BY <3>2 DEF Cancel, CancelRecaches, Steer, Retry, Resume, Approve, CommandReturns,
         Reject, ChangesAndSaves, Goes, Returns, IInv, TypeOK
    <3>3. ASSUME NEW d \in Callers,
                 \/ Suppressed(d) \/ Claim(d) \/ LeaderTurn(d) \/ Close(d) \/ Desert(d)
                 \/ Interrupt(d) \/ Finish(d) \/ Release(d) \/ InterruptListed(d) \/ Beat(d)
                 \/ \E next \in {"run", "turn"} : Progress(d, next)
          PROVE  FALSE
      BY <3>3 DEF Suppressed, Claim, LeaderTurn, Close, Desert, Interrupt, Finish, Release,
         InterruptListed, Beat, Progress, Goes, Returns, IInv, TypeOK
    <3>4. ASSUME NEW d \in Callers, Judge(d) PROVE d = c
      BY <3>4 DEF Judge, Goes, Returns, IInv, TypeOK
    <3>5. ASSUME NEW p \in Procs, Crash(p) PROVE FALSE
      BY <3>5 DEF Crash
    <3> QED BY <3>1, <3>2, <3>3, <3>4, <3>5 DEF Next, vars, LeaseExpires, HeartbeatExpires
  <2>2. Stale(copy[c])
    BY <2>1 DEF Judge, Returns, Goes, IInv, TypeOK
  <2> QED BY <2>2 DEF Stale, IInv, LeaseHolds
<1> QED BY <1>1, StoreInvariant, PTL DEF Spec, VerdictIsRight

\* An approval that is answered already, or whose command is under way, is answered again
\* only from a copy that is out of date (Approve).
THEOREM ApprovalsAnsweredOnce == Spec => AnsweredOnce
<1>1. IInv /\ [Next]_vars =>
        [\A c \in Callers : at[c] = "approve" /\ at'[c] = "command" =>
           \/ ~current[c]
           \/ disk.pending /\ \A d \in Callers : at[d] = "command" => ~current[d]]_vars
  BY DEF IInv, AnswerKnows
<1> QED BY <1>1, StoreInvariant, PTL DEF Spec, AnsweredOnce
=============================================================================
