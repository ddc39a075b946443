------------------------------ MODULE Watchers ------------------------------
(***************************************************************************)
(* Those who follow one job: the MCP server, which relays the events of    *)
(* the service and sends a job_terminal notice for the ends it hears of,   *)
(* and the HTTP stream of the job's events.  They read the job through     *)
(* Get, which answers from the cache before the disk, and hear of its      *)
(* events through one bounded channel that drops what it cannot hold.  The *)
(* run and the operator are modelled as far as a watcher can tell them     *)
(* apart (JobStore and JobLoop have the rest): what they save, what they   *)
(* cache, and the events they add, in the order the code does it.          *)
(***************************************************************************)
EXTENDS Naturals, Sequences, FiniteSets

CONSTANTS
  Statuses,   \* the statuses a run may close its job with
  Notes,      \* what is told of an end: the job's summary, or the reason
              \* when there is none (terminalSummary)
  Cap,        \* how many events the channel holds (100 in the code)
  Tellers     \* the most goroutines that wait to send a notice at once: a
              \* bound of the model, the code starts one per ending event

ASSUME StatusesAssumption == Statuses \subseteq {"done", "failed", "blocked"}
ASSUME CapAssumption == Cap \in Nat \ {0}
ASSUME TellersAssumption == IsFiniteSet(Tellers) /\ Tellers # {}

VARIABLES
  disk,       \* the saved job: [status, why]
  cache,      \* the copy Get prefers, or None
  run,        \* where the run of the job is (RunStates), or idle
  copy,       \* the run's own copy
  op,         \* the operator's call that has sent its event, and its copy
  chan,       \* the kinds of the events in the channel
  tellers,    \* the goroutines of the MCP server: [at, notice]
  told,       \* lastTerminal: the status and summary last announced, or None
  reader,     \* whether an HTTP stream of the events is open
  fresh,      \* history: the notices written since the last restart was relayed
  lossy,      \* history: an event was dropped, or an operator crossed a run
  silent      \* history: no ending event goes with the end readers see
              \* (fresh and silent are kept while nothing was lost)

vars == <<disk, cache, run, copy, op, chan, tellers, told, reader, fresh, lossy, silent>>
jobVars == <<disk, cache, run, copy, op>>
mcpVars == <<tellers, told>>
history == <<fresh, lossy, silent>>

(* command: a command the operator approved, before the loop is entered.   *)
(* refused, ending, leaving: the job is closed in memory and about to be   *)
(* saved; the loop then goes on, or ends, or was never entered.            *)
RunStates == {"idle", "command", "work", "refused", "ending", "leaving", "ended"}

None == [status |-> "none", why |-> ""]
Running == [status |-> "running", why |-> ""]
RunEnds == [status : Statuses, why : Notes]
Refusals == {job \in RunEnds : job.status # "done"}
ClosedByOperator == [status : {"blocked"}, why : Notes]
Ended == RunEnds \cup ClosedByOperator
Copies == Ended \cup {Running}

NoCall == [call |-> "idle", job |-> None]

(* The kinds of events that mean something to the MCP server: job_blocked, *)
(* job_failed, job_completed, job_cancelled and job_interrupted (end);     *)
(* job_resumed, job_retry_requested and job_approved (restart).  Those of  *)
(* the other kinds are relayed and change nothing; they only take places   *)
(* in the channel, so an event that counts may find it full at any time.   *)
Kinds == {"end", "restart"}

(* What every reader gets: the cached copy while there is one.             *)
Get == IF cache # None THEN cache ELSE disk

Terminal(job) == job.status \in {"done", "failed", "blocked"}

-----------------------------------------------------------------------------
AddEventSlip(job, kind, crossed, hushed) ==
  /\ cache' = job
  /\ \/ /\ chan' = Append(chan, kind)
        /\ lossy' = (lossy \/ crossed)
     \/ /\ UNCHANGED chan
        /\ lossy' = TRUE
  /\ silent' = (hushed /\ ~lossy')
  /\ fresh' = IF lossy' THEN {} ELSE fresh

(* addEvent: the copy that was just changed is cached, and the event is    *)
(* offered to the channel; a full channel drops it.  For the history:      *)
(* `crossed' says that an operator's call runs beside a run, and `hushed'  *)
(* that readers see an end though the event is not an ending one.          *)
AddEvent(job, kind, crossed, hushed) ==
  /\ cache' = job
  /\ \/ /\ Len(chan) < Cap
        /\ chan' = Append(chan, kind)
        /\ lossy' = (lossy \/ crossed)
     \/ /\ UNCHANGED chan
        /\ lossy' = TRUE
  /\ silent' = (hushed /\ ~lossy')
  /\ fresh' = IF lossy' THEN {} ELSE fresh

-----------------------------------------------------------------------------
(* The run.                                                                *)

(* A turn, or the approved command that lets the loop begin: the events of *)
(* the leader and the workers cache the run's copy, which reads as busy    *)
(* and is saved after most of them.                                        *)
RunWorks ==
  /\ run \in {"command", "work"}
  /\ run' = "work"
  /\ copy' = Running /\ cache' = Running
  /\ disk' \in {disk, Running}
  /\ silent' = FALSE
  /\ UNCHANGED <<op, chan, mcpVars, reader, fresh, lossy>>

(* Where the run goes from a job it has closed: out of the command, out of *)
(* the loop, or back to the leader after the evaluator failed.             *)
Closing(job) ==
  IF run = "command" THEN {"leaving"}
  ELSE IF job.status = "done" THEN {"ending"} ELSE {"ending", "refused"}

(* failJob, blockJob, interruptJob and the completion: the status and its  *)
(* reason, the ending event, and only then the save.                       *)
RunCloses ==
  /\ run \in {"command", "work"}
  /\ \E job \in RunEnds :
       /\ run = "command" => job \in Refusals
       /\ run' \in Closing(job)
       /\ copy' = job
       /\ AddEvent(job, "end", FALSE, FALSE)
  /\ UNCHANGED <<disk, op, mcpVars, reader>>

(* The job is closed without an ending event.  An approval that waits and  *)
(* a runner that refuses send system_blocked, the evaluator sends          *)
(* evaluation_blocked or evaluation_failed, and all of them cache the      *)
(* closed job.  A second completion sends nothing, the merge of a fan-out  *)
(* sends its event before it sets the status, and the last attempt without *)
(* a leader changes its reason after the event: these end the run, and the *)
(* cache has the job as it was before.                                     *)
RunRefuses ==
  /\ run \in {"command", "work"}
  /\ \E job \in Refusals :
       /\ copy' = job
       /\ \/ cache' = job /\ run' \in Closing(job)
          \/ UNCHANGED cache /\ run = "work" /\ run' = "ending"
  /\ silent' = ~lossy
  /\ UNCHANGED <<disk, op, chan, mcpVars, reader, fresh, lossy>>

(* The save of a closed job.  It may fail, which ends the run in any case. *)
RunSaves ==
  /\ \/ /\ run = "ending" /\ run' = "ended"
        /\ disk' \in {disk, copy}
     \/ /\ run = "leaving" /\ run' = "idle"
        /\ disk' \in {disk, copy}
     \/ /\ run = "refused" /\ run' = "work"
        /\ disk' = copy
     \/ /\ run = "refused" /\ run' = "ended"
        /\ UNCHANGED disk
  /\ copy' = IF run' = "idle" THEN Running ELSE copy
  /\ UNCHANGED <<cache, op, chan, mcpVars, reader, history>>

(* The run returns an error and nobody closes the job: it is stranded in a *)
(* busy status, or the context is cancelled while the copy still reads as  *)
(* closed, after a refusal or a resume.  The step of an approved command   *)
(* that cannot be saved keeps the loop from being entered.                 *)
RunReturns ==
  /\ run \in {"command", "work"}
  /\ run' = IF run = "command" THEN "idle" ELSE "ended"
  /\ UNCHANGED <<disk, cache, copy, op, chan, mcpVars, reader, history>>

(* runLoop's deferred function: the last save, and the eviction of a job   *)
(* that does not read as busy.                                             *)
RunReleases ==
  /\ run = "ended"
  /\ run' = "idle"
  /\ disk' \in {disk, copy}
  /\ cache' = IF Terminal(copy) THEN None ELSE cache
  /\ silent' = (silent \/ (Terminal(copy) /\ disk' # copy /\ ~lossy))
  /\ copy' = Running
  /\ UNCHANGED <<op, chan, mcpVars, reader, fresh, lossy>>

-----------------------------------------------------------------------------
(* The operator, one call at a time.  What the call loads and the event it *)
(* adds are one step here (JobStore has them apart); its save is another.  *)

Calls(call, job, kind) ==
  /\ op = NoCall
  /\ op' = [call |-> call, job |-> job]
  /\ AddEvent(job, kind, run # "idle", kind # "end" /\ Terminal(job))
  /\ UNCHANGED <<disk, run, copy, mcpVars, reader>>

(* Retry, and Approve of a job that waits for an approval: the copy that   *)
(* is cached with the event reads as running.                              *)
Retry ==
  \/ disk.status \in {"blocked", "failed"} /\ Calls("retry", Running, "restart")
  \/ disk.status = "blocked" /\ Calls("approve", Running, "restart")

(* ResumeWithOptions leaves the status alone: a job that was blocked reads *)
(* as blocked after job_resumed, until the run has its first event.        *)
Resume ==
  /\ disk.status \notin {"done", "failed"}
  /\ Calls("resume", disk, "restart")

CancelSlip == \E job \in ClosedByOperator : Calls("cancel", job, "end")

Cancel ==
  /\ disk.status # "done"
  /\ \E job \in ClosedByOperator : Calls("cancel", job, "end")

(* job_rejected is not an ending event: the notice of a job that waited    *)
(* for its approval is not followed by one of its rejection.  It counts as *)
(* an event of no kind, so that the channel is left alone.                 *)
Reject ==
  /\ disk.status = "blocked"
  /\ op = NoCall
  /\ \E job \in ClosedByOperator :
       /\ op' = [call |-> "reject", job |-> job]
       /\ cache' = job
  /\ lossy' = (lossy \/ run # "idle")
  /\ silent' = ~lossy'
  /\ fresh' = IF lossy' THEN {} ELSE fresh
  /\ UNCHANGED <<disk, run, copy, chan, mcpVars, reader>>

(* The run that a call starts.  Retry and Approve save their copy first;   *)
(* Resume leaves that to the lease, which only logs a save that fails.     *)
(* The loop of a job that has a live run is suppressed.                    *)
OperatorStarts ==
  /\ op.call \in {"retry", "approve", "resume"}
  /\ disk' \in IF op.call = "resume" THEN {disk, op.job} ELSE {op.job}
  /\ IF run = "idle"
       THEN /\ run' = IF op.call = "approve" THEN "command" ELSE "work"
            /\ copy' = op.job
       ELSE UNCHANGED <<run, copy>>
  /\ op' = NoCall
  /\ UNCHANGED <<cache, chan, mcpVars, reader, history>>

(* The job is closed by Cancel, which caches it once more, or by Reject.   *)
OperatorCloses ==
  /\ op.call \in {"cancel", "reject"}
  /\ disk' = op.job
  /\ cache' = IF op.call = "cancel" THEN op.job ELSE cache
  /\ op' = NoCall
  /\ UNCHANGED <<run, copy, chan, mcpVars, reader, history>>

(* The save of the call fails: what its event cached stays there.          *)
OperatorFails ==
  /\ op.call \notin {"idle", "resume"}
  /\ op' = NoCall
  /\ UNCHANGED <<disk, cache, run, copy, chan, mcpVars, reader, history>>

-----------------------------------------------------------------------------
(* The MCP server.                                                         *)

ListenSlip ==
  /\ chan # <<>>
  /\ chan' = Tail(chan)
  /\ \/ /\ Head(chan) = "restart"
        /\ UNCHANGED told
        /\ fresh' = {}
        /\ UNCHANGED tellers
     \/ /\ Head(chan) = "end"
        /\ \E t \in Tellers :
             /\ tellers[t].at = "off"
             /\ tellers' = [tellers EXCEPT ![t].at = "poll"]
        /\ UNCHANGED <<told, fresh>>
  /\ UNCHANGED <<jobVars, reader, lossy, silent>>

(* listenEvents and handleEventNotification: the event is relayed, a       *)
(* restart forgets what was announced, and an ending event starts a        *)
(* goroutine that waits for the end.                                       *)
Listen ==
  /\ chan # <<>>
  /\ chan' = Tail(chan)
  /\ \/ /\ Head(chan) = "restart"
        /\ told' = None
        /\ fresh' = {}
        /\ UNCHANGED tellers
     \/ /\ Head(chan) = "end"
        /\ \E t \in Tellers :
             /\ tellers[t].at = "off"
             /\ tellers' = [tellers EXCEPT ![t].at = "poll"]
        /\ UNCHANGED <<told, fresh>>
  /\ UNCHANGED <<jobVars, reader, lossy, silent>>

TellerPollsSlip(t) ==
  /\ tellers[t].at = "poll"
  /\ tellers' = [tellers EXCEPT ![t] =
       IF Terminal(disk) THEN [at |-> "claim", notice |-> disk]
                         ELSE [at |-> "off", notice |-> None]]
  /\ UNCHANGED <<jobVars, chan, told, reader, history>>

(* awaitAndSendTerminalNotification: the goroutine asks Get until it is    *)
(* told of an end, or until its deadline has passed.  While the job reads  *)
(* as busy it asks again, or gives up at the deadline.                     *)
TellerPolls(t) ==
  /\ tellers[t].at = "poll"
  /\ tellers' = [tellers EXCEPT ![t] =
       IF Terminal(Get) THEN [at |-> "claim", notice |-> Get]
                        ELSE [at |-> "off", notice |-> None]]
  /\ UNCHANGED <<jobVars, chan, told, reader, history>>

(* sendJobTerminalNotification under its lock: what was announced last is  *)
(* not announced again.                                                    *)
TellerClaims(t) ==
  /\ tellers[t].at = "claim"
  /\ IF told = tellers[t].notice
       THEN /\ tellers' = [tellers EXCEPT ![t] = [at |-> "off", notice |-> None]]
            /\ UNCHANGED told
       ELSE /\ told' = tellers[t].notice
            /\ tellers' = [tellers EXCEPT ![t].at = "write"]
  /\ UNCHANGED <<jobVars, chan, reader, history>>

(* The notice is written after the lock is gone.                           *)
TellerWrites(t) ==
  /\ tellers[t].at = "write"
  /\ tellers' = [tellers EXCEPT ![t] = [at |-> "off", notice |-> None]]
  /\ fresh' = IF lossy THEN {} ELSE fresh \cup {tellers[t].notice}
  /\ UNCHANGED <<jobVars, chan, told, reader, lossy, silent>>

-----------------------------------------------------------------------------
(* The stream.                                                             *)
StreamOpens ==
  /\ reader = "none"
  /\ reader' = "stream"
  /\ UNCHANGED <<jobVars, chan, mcpVars, history>>

StreamPollsSlip ==
  /\ reader = "stream"
  /\ Get.status \in {"done", "failed"}
  /\ reader' = "none"
  /\ UNCHANGED <<jobVars, chan, mcpVars, history>>

(* streamEvents: the stream ends with the job; a blocked job has ended     *)
(* for a stream, as nothing moves it without an operator.                  *)
StreamPolls ==
  /\ reader = "stream"
  /\ Get.status \in {"done", "failed", "blocked"}
  /\ reader' = "none"
  /\ UNCHANGED <<jobVars, chan, mcpVars, history>>

(* The client goes away. *)
StreamLeaves ==
  /\ reader = "stream"
  /\ reader' = "none"
  /\ UNCHANGED <<jobVars, chan, mcpVars, history>>

-----------------------------------------------------------------------------
Init ==
  /\ disk = Running
  /\ cache = Running
  /\ run = "work"
  /\ copy = Running
  /\ op = NoCall
  /\ chan = <<>>
  /\ tellers = [t \in Tellers |-> [at |-> "off", notice |-> None]]
  /\ told = None
  /\ reader = "none"
  /\ fresh = {}
  /\ lossy = FALSE
  /\ silent = FALSE

Job == RunWorks \/ RunCloses \/ RunRefuses \/ RunSaves \/ RunReturns \/ RunReleases
Operator ==
  \/ Retry \/ Resume \/ Cancel \/ Reject
  \/ OperatorStarts \/ OperatorCloses \/ OperatorFails
Teller(t) == TellerPolls(t) \/ TellerClaims(t) \/ TellerWrites(t)
Reader == StreamOpens \/ StreamPolls \/ StreamLeaves

Next ==
  \/ Job
  \/ Operator
  \/ Listen
  \/ \E t \in Tellers : Teller(t)
  \/ Reader

Spec == Init /\ [][Next]_vars

(* The goroutines of the watchers are scheduled; nothing is asked of the   *)
(* run or of the operator.                                                 *)
Fairness ==
  /\ WF_vars(Listen)
  /\ \A t \in Tellers : WF_vars(Teller(t))
  /\ WF_vars(StreamPolls)

FairSpec == Spec /\ Fairness

-----------------------------------------------------------------------------
(* TypeOK types the state; the channel is never over its capacity, however *)
(* many events a job adds while nobody listens.                            *)
TypeOK ==
  /\ disk \in Copies
  /\ cache \in Copies \cup {None}
  /\ run \in RunStates
  /\ copy \in Copies
  /\ op \in [call : {"idle", "retry", "approve", "resume", "cancel", "reject"},
            job : Copies \cup {None}]
  /\ op.call # "idle" => op.job \in Copies
  /\ chan \in Seq(Kinds) /\ Len(chan) <= Cap
  /\ tellers \in [Tellers -> [at : {"off", "poll", "claim", "write"},
                              notice : Ended \cup {None}]]
  /\ told \in Ended \cup {None}
  /\ reader \in {"none", "stream"}
  /\ fresh \subseteq Ended
  /\ lossy \in BOOLEAN /\ silent \in BOOLEAN

(* EndIsUnderway: a job that reads as ended, by an end that came with an   *)
(* ending event, has that event last in the channel or, once the channel   *)
(* is drained, its notice is written, being written, or about to be asked  *)
(* for: no goroutine gives up on an end that no other one brings, and none *)
(* suppresses a notice nobody writes.  Dropped events and operators that   *)
(* act beside a run are excepted.                                          *)
EndIsUnderway ==
  ~lossy /\ ~silent /\ Terminal(Get) =>
    IF chan # <<>> THEN chan[Len(chan)] = "end"
    ELSE \/ Get \in fresh
         \/ \E t \in Tellers :
              \/ tellers[t].at = "poll"
              \/ tellers[t].at \in {"claim", "write"} /\ tellers[t].notice = Get

(* DoneIsSeenForGood: a job that one reader has seen done reads as done to *)
(* every later one, from the cache, from the file, and while the one gives *)
(* way to the other; save where an operator acted beside the run, or both  *)
(* of the run's last saves failed.                                         *)
DoneIsSeenForGood ==
  [][Get.status = "done" /\ ~lossy' /\ ~silent' => Get'.status = "done"]_vars

(* EndsAreTold: when a job has ended for good with an ending event, a      *)
(* notice with its status and its reason is written after the last restart *)
(* was relayed, whatever the goroutines of earlier ends do meanwhile;      *)
(* unless an event was dropped or an operator acted beside a run.          *)
EndsAreTold ==
  \A job \in Ended :
    <>[](Get = job /\ run = "idle" /\ ~lossy /\ ~silent) => <>[](job \in fresh)

(* StreamCloses: a stream of a job that has ended for good is closed: it   *)
(* does not hold its connection for ever.                                  *)
StreamCloses == <>[]Terminal(Get) => []<>(reader # "stream")
=============================================================================
