-------------------------- MODULE Watchers_proofs --------------------------
(***************************************************************************)
(* Proofs about Watchers, for every size of the channel, every number of   *)
(* goroutines that wait, and every way a run may end.                      *)
(***************************************************************************)
EXTENDS Watchers, TLAPS

----------------------------------------------------------------------------
(* The inductive invariant. *)

\* Who claims or writes a notice has seen the end it tells of.
NoticesAreEnds ==
  \A t \in Tellers : tellers[t].at \in {"claim", "write"} => tellers[t].notice \in Ended

Typed == TypeOK /\ NoticesAreEnds

\* Somebody is about to write this notice.
Writing(notice) == \E t \in Tellers : tellers[t].at = "write" /\ tellers[t].notice = notice

\* What a goroutine suppresses has been written since the last restart, or will be.
ToldIsWritten == ~lossy /\ told # None => told \in fresh \/ Writing(told)

\* While no operator crosses a run, readers see what the last one to act has made of the
\* job: the operator's copy until the call is done, then the run's, unless the run has
\* closed the job in silence; and "done" is in the cache only while the run that has
\* completed the job ends.
OneHand ==
  ~lossy =>
    /\ op.call # "idle" => run = "idle" /\ cache = op.job /\ op.job.status # "done"
    /\ run # "idle" => cache # None /\ (silent \/ cache = copy)
    /\ cache.status = "done" => run \in {"ending", "ended"} /\ copy.status = "done"
    /\ run \in {"refused", "leaving", "work", "command"} => copy.status # "done"

IInv == Typed /\ ToldIsWritten /\ OneHand /\ EndIsUnderway

----------------------------------------------------------------------------
(* What the helpers return. *)

LEMMA JobTypes ==
  /\ Running \in Copies /\ Running # None /\ ClosedByOperator \subseteq Ended
  /\ RunEnds \subseteq Ended /\ Refusals \subseteq RunEnds /\ Ended \subseteq Copies
  /\ ~Terminal(Running) /\ None \notin Ended /\ None \notin Copies /\ ~Terminal(None)
  /\ Running.status = "running" /\ None.status = "none"
  /\ \A job \in Ended : Terminal(job)
  /\ \A job \in Copies : ~Terminal(job) => job.status # "done"
  /\ \A job \in ClosedByOperator \cup Refusals : job.status # "done"
  BY StatusesAssumption
  DEF Running, Copies, ClosedByOperator, Ended, RunEnds, Refusals, Terminal, None

LEMMA GetType ==
  ASSUME TypeOK
  PROVE  /\ Get \in Copies
         /\ Terminal(Get) => Get \in Ended
  BY JobTypes DEF TypeOK, Get, Copies, Terminal, Running

LEMMA AddedEvent ==
  ASSUME TypeOK, NEW job \in Copies, NEW kind \in Kinds, NEW crossed \in BOOLEAN,
         NEW hushed \in BOOLEAN, AddEvent(job, kind, crossed, hushed)
  PROVE  /\ chan' \in Seq(Kinds) /\ Len(chan') <= Cap
         /\ lossy' \in BOOLEAN /\ cache' \in Copies /\ cache' = job
         /\ silent' \in BOOLEAN /\ fresh' \subseteq Ended
         /\ ~lossy' => /\ ~lossy /\ ~crossed /\ chan' # <<>> /\ chan'[Len(chan')] = kind
                       /\ silent' = hushed /\ UNCHANGED fresh
<1>1. /\ chan \in Seq(Kinds) /\ Len(chan) <= Cap /\ Cap \in Nat
      /\ lossy \in BOOLEAN /\ fresh \subseteq Ended
  BY CapAssumption DEF TypeOK
<1>2. CASE /\ Len(chan) < Cap
           /\ chan' = Append(chan, kind)
           /\ lossy' = (lossy \/ crossed)
  <2>1. /\ chan' \in Seq(Kinds) /\ Len(chan') = Len(chan) + 1
        /\ chan'[Len(chan')] = kind /\ chan' # <<>>
    BY <1>1, <1>2
  <2> QED BY <1>1, <1>2, <2>1 DEF AddEvent
<1>3. CASE UNCHANGED chan /\ lossy' = TRUE
  BY <1>1, <1>3 DEF AddEvent
<1> QED
  BY <1>2, <1>3 DEF AddEvent

LEMMA DrainedChannel ==
  ASSUME chan \in Seq(Kinds), chan # <<>>
  PROVE  /\ Head(chan) \in Kinds /\ Tail(chan) \in Seq(Kinds) /\ Len(Tail(chan)) <= Len(chan)
         /\ Tail(chan) # <<>> => Tail(chan)[Len(Tail(chan))] = chan[Len(chan)]
         /\ Tail(chan) = <<>> => Head(chan) = chan[Len(chan)]
<1>1. /\ Head(chan) \in Kinds /\ Tail(chan) \in Seq(Kinds) /\ Len(chan) \in Nat \ {0}
      /\ Len(Tail(chan)) = Len(chan) - 1
      /\ \A i \in 1 .. Len(chan) - 1 : Tail(chan)[i] = chan[i + 1]
  OBVIOUS
<1>2. CASE Tail(chan) = <<>>
  <2>1. Len(chan) = 1
    BY <1>1, <1>2
  <2> QED BY <1>1, <1>2, <2>1
<1>3. CASE Tail(chan) # <<>>
  <2>1. Len(chan) - 1 \in 1 .. Len(chan) - 1
    BY <1>1, <1>3
  <2>2. Tail(chan)[Len(chan) - 1] = chan[(Len(chan) - 1) + 1]
    BY <1>1, <2>1
  <2> QED BY <1>1, <1>3, <2>2
<1> QED BY <1>2, <1>3

----------------------------------------------------------------------------
(* Type correctness. *)

LEMMA InitType == Init => Typed
<1> SUFFICES ASSUME Init PROVE Typed
  OBVIOUS
<1>1. chan \in Seq(Kinds) /\ Len(chan) <= Cap
  BY CapAssumption DEF Init
<1>2. tellers \in [Tellers -> [at : {"off", "poll", "claim", "write"},
                             notice : Ended \cup {None}]]
  BY DEF Init
<1> QED
  BY <1>1, <1>2, JobTypes DEF Init, TypeOK, NoticesAreEnds, Typed, RunStates, NoCall

LEMMA JobType ==
  ASSUME TypeOK, Job
  PROVE  TypeOK'
<1> USE DEF TypeOK, RunStates
<1>1. CASE RunWorks
  BY <1>1, JobTypes DEF RunWorks, mcpVars
<1>2. CASE RunCloses
  <2>1. PICK job \in RunEnds : /\ copy' = job /\ AddEvent(job, "end", FALSE, FALSE)
                               /\ run' \in Closing(job)
    BY <1>2 DEF RunCloses
  <2>2. job \in Copies /\ "end" \in Kinds
    BY JobTypes DEF Kinds
  <2>3. /\ chan' \in Seq(Kinds) /\ Len(chan') <= Cap /\ fresh' \subseteq Ended
        /\ lossy' \in BOOLEAN /\ silent' \in BOOLEAN /\ cache' \in Copies
    BY <2>1, <2>2, AddedEvent
  <2>4. run' \in RunStates
    BY <2>1 DEF Closing
  <2> QED
    BY <1>2, <2>1, <2>2, <2>3, <2>4 DEF RunCloses, mcpVars
<1>3. CASE RunRefuses
  BY <1>3, JobTypes DEF RunRefuses, Closing, mcpVars
<1>4. CASE RunSaves
  BY <1>4, JobTypes DEF RunSaves, mcpVars, history
<1>5. CASE RunReturns
  BY <1>5 DEF RunReturns, mcpVars, history
<1>6. CASE RunReleases
  BY <1>6, JobTypes DEF RunReleases, mcpVars
<1> QED
  BY <1>1, <1>2, <1>3, <1>4, <1>5, <1>6 DEF Job

Called == {"retry", "approve", "resume", "cancel"}

\* Every call of the operator that adds an event that counts is one of these.
LEMMA CallsMade ==
  ASSUME TypeOK, Retry \/ Resume \/ Cancel
  PROVE  \E call \in Called, job \in Copies, kind \in Kinds :
           /\ Calls(call, job, kind)
           /\ job.status # "done" /\ disk.status # "done"
           /\ kind = "end" \/ ~Terminal(job) \/ job = disk
<1>1. CASE Retry
  BY <1>1, JobTypes DEF Retry, Called, Kinds
<1>2. CASE Resume
  BY <1>2, JobTypes DEF Resume, Called, Kinds, TypeOK
<1>3. CASE Cancel
  <2>1. PICK job \in ClosedByOperator : Calls("cancel", job, "end")
    BY <1>3 DEF Cancel
  <2> QED BY <1>3, <2>1, JobTypes DEF Cancel, Called, Kinds
<1> QED
  BY <1>1, <1>2, <1>3

\* What such a call leaves behind.
LEMMA CallEffect ==
  ASSUME TypeOK, NEW call \in Called, NEW job \in Copies, NEW kind \in Kinds,
         Calls(call, job, kind)
  PROVE  /\ op' = [call |-> call, job |-> job] /\ cache' = job
         /\ UNCHANGED <<disk, run, copy, mcpVars, reader>>
         /\ chan' \in Seq(Kinds) /\ Len(chan') <= Cap /\ fresh' \subseteq Ended
         /\ lossy' \in BOOLEAN /\ silent' \in BOOLEAN
         /\ ~lossy' => /\ ~lossy /\ run = "idle" /\ chan' # <<>> /\ chan'[Len(chan')] = kind
                       /\ silent' = (kind # "end" /\ Terminal(job)) /\ UNCHANGED fresh
<1> DEFINE hushed == kind # "end" /\ Terminal(job)
<1>1. AddEvent(job, kind, run # "idle", hushed) /\ hushed \in BOOLEAN
  BY DEF Calls
<1> HIDE DEF hushed
<1>2. /\ chan' \in Seq(Kinds) /\ Len(chan') <= Cap /\ fresh' \subseteq Ended
      /\ lossy' \in BOOLEAN /\ silent' \in BOOLEAN /\ cache' = job
      /\ ~lossy' => /\ ~lossy /\ ~(run # "idle") /\ chan' # <<>> /\ chan'[Len(chan')] = kind
                    /\ silent' = hushed /\ UNCHANGED fresh
  BY <1>1, AddedEvent
<1> QED
  BY <1>2 DEF Calls, hushed

LEMMA OperatorType ==
  ASSUME TypeOK, Operator
  PROVE  TypeOK'
<1> USE DEF TypeOK, RunStates
<1>1. CASE Retry \/ Resume \/ Cancel
  <2>1. PICK call \in Called, job \in Copies, kind \in Kinds : Calls(call, job, kind)
    BY <1>1, CallsMade
  <2>2. /\ op' = [call |-> call, job |-> job] /\ cache' = job
        /\ UNCHANGED <<disk, run, copy, mcpVars, reader>>
        /\ chan' \in Seq(Kinds) /\ Len(chan') <= Cap /\ fresh' \subseteq Ended
        /\ lossy' \in BOOLEAN /\ silent' \in BOOLEAN
    BY <2>1, CallEffect
  <2> QED BY <2>2 DEF Called, mcpVars
<1>2. CASE Reject
  <2>1. PICK job \in ClosedByOperator : op' = [call |-> "reject", job |-> job] /\ cache' = job
    BY <1>2 DEF Reject
  <2>2. job \in Copies
    BY JobTypes
  <2> QED BY <1>2, <2>1, <2>2 DEF Reject, mcpVars
<1>3. CASE OperatorStarts
  BY <1>3 DEF OperatorStarts, NoCall, mcpVars, history
<1>4. CASE OperatorCloses
  BY <1>4 DEF OperatorCloses, NoCall, mcpVars, history
<1>5. CASE OperatorFails
  BY <1>5 DEF OperatorFails, NoCall, mcpVars, history
<1> QED
  BY <1>1, <1>2, <1>3, <1>4, <1>5 DEF Operator

LEMMA ListenType ==
  ASSUME TypeOK, Listen
  PROVE  TypeOK'
<1>1. chan' \in Seq(Kinds) /\ Len(chan') <= Cap
  BY CapAssumption, DrainedChannel DEF Listen, TypeOK
<1>2. /\ told' \in Ended \cup {None} /\ fresh' \subseteq Ended
      /\ tellers' \in [Tellers -> [at : {"off", "poll", "claim", "write"},
                                   notice : Ended \cup {None}]]
  BY DEF Listen, TypeOK
<1> QED
  BY <1>1, <1>2 DEF Listen, TypeOK, jobVars

\* What one goroutine does leaves the others alone.
LEMMA TellerFrame ==
  ASSUME TypeOK, NEW t \in Tellers, NEW teller, tellers' = [tellers EXCEPT ![t] = teller]
  PROVE  tellers'[t] = teller /\ \A u \in Tellers \ {t} : tellers'[u] = tellers[u]
  BY DEF TypeOK

LEMMA TellerType ==
  ASSUME Typed, NEW t \in Tellers, Teller(t)
  PROVE  Typed'
<1> USE DEF Typed
<1>1. CASE TellerPolls(t)
  BY <1>1, GetType DEF TellerPolls, TypeOK, NoticesAreEnds, jobVars, history
<1>2. CASE TellerClaims(t)
  <2>1. told' \in Ended \cup {None}
    BY <1>2 DEF TellerClaims, TypeOK
  <2>2. NoticesAreEnds'
    BY <1>2 DEF TellerClaims, NoticesAreEnds, TypeOK
  <2> QED BY <1>2, <2>1, <2>2 DEF TellerClaims, TypeOK, jobVars, history
<1>3. CASE TellerWrites(t)
  <2>1. tellers[t].notice \in Ended
    BY <1>3 DEF TellerWrites, NoticesAreEnds
  <2>2. NoticesAreEnds'
    BY <1>3 DEF TellerWrites, NoticesAreEnds, TypeOK
  <2> QED BY <1>3, <2>1, <2>2 DEF TellerWrites, TypeOK, jobVars, history
<1> QED
  BY <1>1, <1>2, <1>3 DEF Teller

LEMMA StepType == Typed /\ [Next]_vars => Typed'
<1> SUFFICES ASSUME Typed, [Next]_vars PROVE Typed'
  OBVIOUS
<1>0. TypeOK
  BY DEF Typed
<1>1. CASE Job
  <2>1. UNCHANGED tellers
    BY <1>1 DEF Job, RunWorks, RunCloses, RunRefuses, RunSaves, RunReturns, RunReleases, mcpVars
  <2> QED BY <1>0, <1>1, <2>1, JobType DEF Typed, NoticesAreEnds
<1>2. CASE Operator
  <2>1. UNCHANGED tellers
    BY <1>2 DEF Operator, Retry, Resume, Cancel, Reject, OperatorStarts, OperatorCloses,
       OperatorFails, Calls, mcpVars
  <2> QED BY <1>0, <1>2, <2>1, OperatorType DEF Typed, NoticesAreEnds
<1>3. CASE Listen
  <2>1. \A t \in Tellers : tellers'[t].at \in {"claim", "write"} => tellers'[t] = tellers[t]
    BY <1>0, <1>3 DEF Listen, TypeOK
  <2> QED BY <1>0, <1>3, <2>1, ListenType DEF Typed, NoticesAreEnds
<1>4. CASE \E t \in Tellers : Teller(t)
  BY <1>4, TellerType
<1>5. CASE Reader
  BY <1>0, <1>5 DEF Reader, StreamOpens, StreamPolls, StreamLeaves, Typed,
     TypeOK, NoticesAreEnds, jobVars, mcpVars, history
<1>6. CASE UNCHANGED vars
  BY <1>6 DEF vars, Typed, TypeOK, NoticesAreEnds
<1> QED
  BY <1>1, <1>2, <1>3, <1>4, <1>5, <1>6 DEF Next

\* Job, channel, goroutines and notices keep their types, and the channel never holds
\* more than its capacity, for every capacity and any number of goroutines.
THEOREM WatchersTypeCorrect == Spec => []TypeOK
<1>1. Init => Typed
  BY InitType
<1>2. Typed /\ [Next]_vars => Typed'
  BY StepType
<1>3. Typed => TypeOK
  BY DEF Typed
<1> QED
  BY <1>1, <1>2, <1>3, PTL DEF Spec

----------------------------------------------------------------------------
(* One hand at a time: nobody's copy surprises a reader.                      *)

LEMMA JobOneHand ==
  ASSUME TypeOK, OneHand, Job
  PROVE  OneHand'
<1> USE DEF OneHand
<1>1. CASE RunWorks
  BY <1>1, JobTypes DEF RunWorks, mcpVars
<1>2. CASE RunCloses
  <2>1. PICK job \in RunEnds : /\ copy' = job /\ AddEvent(job, "end", FALSE, FALSE)
                               /\ run' \in Closing(job)
                               /\ run = "command" => job \in Refusals
    BY <1>2 DEF RunCloses
  <2>2. job \in Copies /\ "end" \in Kinds
    BY JobTypes DEF Kinds
  <2>3. cache' = job /\ (~lossy' => ~lossy /\ silent' = FALSE)
    BY <2>1, <2>2, AddedEvent
  <2>4. run' \in {"ending", "refused", "leaving"} /\ (job.status = "done" => run' = "ending")
    <3>1. CASE run = "command"
      <4>1. run' = "leaving" /\ job \in Refusals
        BY <2>1, <3>1 DEF Closing
      <4> QED BY <4>1, JobTypes
    <3>2. CASE run # "command"
      BY <2>1, <3>2 DEF Closing
    <3> QED BY <3>1, <3>2
  <2> QED BY <1>2, <2>1, <2>2, <2>3, <2>4, JobTypes DEF RunCloses
<1>3. CASE RunRefuses
  <2>1. PICK job \in Refusals : /\ copy' = job
                                /\ cache' \in {cache, job}
                                /\ run' \in {"ending", "refused", "leaving"}
    BY <1>3 DEF RunRefuses, Closing
  <2>2. job \in Copies /\ job.status # "done"
    BY JobTypes
  <2> QED BY <1>3, <2>1, <2>2, JobTypes DEF RunRefuses
<1>4. CASE RunSaves
  BY <1>4, JobTypes DEF RunSaves, history
<1>5. CASE RunReturns
  BY <1>5 DEF RunReturns, history
<1>6. CASE RunReleases
  BY <1>6, JobTypes DEF RunReleases, TypeOK, Terminal
<1> QED
  BY <1>1, <1>2, <1>3, <1>4, <1>5, <1>6 DEF Job

LEMMA OperatorOneHand ==
  ASSUME TypeOK, OneHand, Operator
  PROVE  OneHand'
<1> USE DEF OneHand
<1>1. CASE Retry \/ Resume \/ Cancel
  <2>1. PICK call \in Called, job \in Copies, kind \in Kinds :
          Calls(call, job, kind) /\ job.status # "done"
    BY <1>1, CallsMade
  <2>2. /\ op' = [call |-> call, job |-> job] /\ cache' = job
        /\ UNCHANGED <<run, copy>>
        /\ ~lossy' => ~lossy /\ run = "idle"
    BY <2>1, CallEffect
  <2> QED BY <2>1, <2>2
<1>2. CASE Reject
  <2>1. PICK job \in ClosedByOperator : op' = [call |-> "reject", job |-> job] /\ cache' = job
    BY <1>2 DEF Reject
  <2>2. job.status # "done" /\ (~lossy' => ~lossy /\ run = "idle") /\ UNCHANGED <<run, copy>>
    BY <1>2, JobTypes DEF Reject, TypeOK
  <2> QED BY <2>1, <2>2
<1>3. CASE OperatorStarts
  <2>1. ASSUME ~lossy'
        PROVE  /\ ~lossy /\ run = "idle" /\ cache = op.job /\ op.job.status # "done"
               /\ op.job \in Copies
    BY <1>3, <2>1 DEF OperatorStarts, history, TypeOK
  <2>2. ASSUME ~lossy'
        PROVE  run' \in {"work", "command"} /\ copy' = op.job /\ cache' = cache /\ op' = NoCall
    BY <1>3, <2>1, <2>2 DEF OperatorStarts
  <2> QED BY <2>1, <2>2, JobTypes DEF NoCall
<1>4. CASE OperatorCloses
  BY <1>4 DEF OperatorCloses, NoCall, history
<1>5. CASE OperatorFails
  BY <1>5 DEF OperatorFails, NoCall, history
<1> QED
  BY <1>1, <1>2, <1>3, <1>4, <1>5 DEF Operator

LEMMA StepOneHand ==
  ASSUME TypeOK, OneHand, [Next]_vars
  PROVE  OneHand'
<1>1. CASE Job
  BY <1>1, JobOneHand
<1>2. CASE Operator
  BY <1>2, OperatorOneHand
<1>3. CASE UNCHANGED <<jobVars, lossy, silent>>
  BY <1>3 DEF jobVars, OneHand
<1> QED
  BY <1>1, <1>2, <1>3 DEF Next, Listen, Teller, TellerPolls, TellerClaims, TellerWrites, Reader,
     StreamOpens, StreamPolls, StreamLeaves, vars, jobVars, history

----------------------------------------------------------------------------
(* What has been announced is written.                                        *)

LEMMA SameMcp ==
  ASSUME ToldIsWritten, UNCHANGED mcpVars, ~lossy' => ~lossy /\ UNCHANGED fresh
  PROVE  ToldIsWritten'
  BY DEF ToldIsWritten, Writing, mcpVars

\* Losing an event is not undone, and the job's steps write no notice.
LEMMA LossyStays ==
  ASSUME TypeOK, Job \/ Operator
  PROVE  UNCHANGED mcpVars /\ (~lossy' => ~lossy /\ UNCHANGED fresh)
<1>1. CASE RunCloses
  <2>1. PICK job \in RunEnds : AddEvent(job, "end", FALSE, FALSE)
    BY <1>1 DEF RunCloses
  <2> QED BY <1>1, <2>1, JobTypes, AddedEvent DEF RunCloses, Kinds
<1>2. CASE Retry \/ Resume \/ Cancel
  BY <1>2, CallsMade, CallEffect
<1>3. CASE Reject
  BY <1>3 DEF Reject, TypeOK
<1>4. CASE RunWorks \/ RunRefuses \/ RunSaves \/ RunReturns \/ RunReleases
  BY <1>4 DEF RunWorks, RunRefuses, RunSaves, RunReturns, RunReleases, history
<1>5. CASE OperatorStarts \/ OperatorCloses \/ OperatorFails
  BY <1>5 DEF OperatorStarts, OperatorCloses, OperatorFails, history
<1> QED
  BY <1>1, <1>2, <1>3, <1>4, <1>5 DEF Job, Operator

LEMMA TellerToldWritten ==
  ASSUME TypeOK, ToldIsWritten, NEW t \in Tellers, Teller(t)
  PROVE  ToldIsWritten'
<1>1. CASE TellerPolls(t)
  BY <1>1 DEF TellerPolls, ToldIsWritten, Writing, TypeOK, history
<1>2. CASE TellerClaims(t)
  <2>1. CASE told = tellers[t].notice
    BY <1>2, <2>1 DEF TellerClaims, ToldIsWritten, Writing, TypeOK, history
  <2>2. CASE told # tellers[t].notice
    <3>1. tellers'[t].at = "write" /\ tellers'[t].notice = told'
      BY <1>2, <2>2 DEF TellerClaims, TypeOK
    <3> QED BY <3>1 DEF ToldIsWritten, Writing
  <2> QED BY <2>1, <2>2
<1>3. CASE TellerWrites(t)
  BY <1>3 DEF TellerWrites, ToldIsWritten, Writing, TypeOK
<1> QED
  BY <1>1, <1>2, <1>3 DEF Teller

LEMMA StepToldWritten ==
  ASSUME TypeOK, ToldIsWritten, [Next]_vars
  PROVE  ToldIsWritten'
<1>1. CASE Job \/ Operator
  BY <1>1, LossyStays, SameMcp
<1>2. CASE Listen
  BY <1>2 DEF Listen, ToldIsWritten, Writing, TypeOK
<1>3. CASE \E t \in Tellers : Teller(t)
  BY <1>3, TellerToldWritten
<1>4. CASE Reader
  BY <1>4, SameMcp DEF Reader, StreamOpens, StreamPolls, StreamLeaves, history
<1>5. CASE UNCHANGED vars
  BY <1>5, SameMcp DEF vars, mcpVars
<1> QED
  BY <1>1, <1>2, <1>3, <1>4, <1>5 DEF Next

----------------------------------------------------------------------------
(* An end is under way until its notice is written.                           *)

\* The end that readers see stays what it was, or readers see no end.
LEMMA SameEnd ==
  ASSUME EndIsUnderway, UNCHANGED <<mcpVars, chan, fresh>>, ~lossy' => ~lossy,
         ~lossy' /\ ~silent' /\ Terminal(Get)' => ~silent /\ Get' = Get
  PROVE  EndIsUnderway'
  BY DEF EndIsUnderway, mcpVars

\* What a run or an operator does to what readers see, other than by an event.
LEMMA QuietJob ==
  ASSUME TypeOK, OneHand, ~lossy,
         \/ RunSaves \/ RunReturns \/ OperatorStarts \/ OperatorCloses \/ OperatorFails
  PROVE  Get' = Get /\ UNCHANGED <<silent, lossy, fresh, mcpVars, chan>>
<1>1. cache # None /\ cache' = cache
  <2>1. CASE RunSaves \/ RunReturns
    BY <2>1 DEF RunSaves, RunReturns, OneHand
  <2>2. CASE OperatorStarts \/ OperatorCloses \/ OperatorFails
    <3>1. op.call # "idle" /\ cache = op.job /\ op.job \in Copies
      BY <2>2 DEF OperatorStarts, OperatorCloses, OperatorFails, OneHand, TypeOK
    <3> QED BY <2>2, <3>1, JobTypes DEF OperatorStarts, OperatorCloses, OperatorFails
  <2> QED BY <2>1, <2>2
<1> QED
  BY <1>1 DEF Get, RunSaves, RunReturns, OperatorStarts, OperatorCloses, OperatorFails, history

\* The eviction of a job shows readers the end they have seen, unless both saves failed.
LEMMA Eviction ==
  ASSUME TypeOK, OneHand, RunReleases, ~lossy
  PROVE  /\ UNCHANGED <<lossy, fresh, mcpVars, chan>>
         /\ ~silent' => ~silent /\ Get' = Get
<1>1. cache # None /\ (silent \/ cache = copy) /\ UNCHANGED <<lossy, fresh, mcpVars, chan>>
  BY DEF RunReleases, OneHand
<1>2. ASSUME ~silent' PROVE ~silent /\ Get' = Get
  <2>1. ~silent /\ cache = copy /\ (Terminal(copy) => disk' = copy)
    BY <1>1, <1>2 DEF RunReleases
  <2>2. Get' = copy
    BY <1>1, <2>1 DEF RunReleases, Get
  <2> QED BY <1>1, <2>1, <2>2 DEF Get
<1> QED
  BY <1>1, <1>2

LEMMA JobUnderway ==
  ASSUME TypeOK, OneHand, EndIsUnderway, Job
  PROVE  EndIsUnderway'
<1>0. UNCHANGED mcpVars /\ (~lossy' => ~lossy /\ UNCHANGED fresh)
  BY LossyStays
<1>1. CASE RunWorks
  BY <1>1, JobTypes DEF RunWorks, EndIsUnderway, Get
<1>2. CASE RunCloses
  <2>1. PICK job \in RunEnds : AddEvent(job, "end", FALSE, FALSE)
    BY <1>2 DEF RunCloses
  <2>2. ~lossy' => chan' # <<>> /\ chan'[Len(chan')] = "end"
    BY <2>1, JobTypes, AddedEvent DEF Kinds
  <2> QED BY <2>2 DEF EndIsUnderway
<1>3. CASE RunRefuses
  BY <1>3 DEF RunRefuses, EndIsUnderway
<1>4. CASE lossy
  BY <1>0, <1>4 DEF EndIsUnderway
<1>5. CASE ~lossy /\ (RunSaves \/ RunReturns)
  BY <1>5, QuietJob, SameEnd
<1>6. CASE ~lossy /\ RunReleases
  BY <1>6, Eviction, SameEnd
<1> QED
  BY <1>1, <1>2, <1>3, <1>4, <1>5, <1>6 DEF Job

LEMMA OperatorUnderway ==
  ASSUME TypeOK, OneHand, EndIsUnderway, Operator
  PROVE  EndIsUnderway'
<1>0. UNCHANGED mcpVars /\ (~lossy' => ~lossy /\ UNCHANGED fresh)
  BY LossyStays
<1>1. CASE Retry \/ Resume \/ Cancel
  <2>1. PICK call \in Called, job \in Copies, kind \in Kinds : Calls(call, job, kind)
    BY <1>1, CallsMade
  <2>2. /\ cache' = job
        /\ ~lossy' => /\ chan' # <<>> /\ chan'[Len(chan')] = kind
                      /\ silent' = (kind # "end" /\ Terminal(job))
    BY <2>1, CallEffect
  <2>3. Get' = job
    BY <2>2, JobTypes DEF Get
  <2> QED BY <2>2, <2>3 DEF EndIsUnderway
<1>2. CASE Reject
  BY <1>2 DEF Reject, EndIsUnderway
<1>3. CASE lossy
  BY <1>0, <1>3 DEF EndIsUnderway
<1>4. CASE ~lossy /\ (OperatorStarts \/ OperatorCloses \/ OperatorFails)
  BY <1>4, QuietJob, SameEnd
<1> QED
  BY <1>1, <1>2, <1>3, <1>4 DEF Operator

LEMMA ListenUnderway ==
  ASSUME TypeOK, EndIsUnderway, Listen
  PROVE  EndIsUnderway'
<1>1. UNCHANGED <<Get, lossy, silent>> /\ chan # <<>> /\ chan' = Tail(chan)
  BY DEF Listen, jobVars, Get
<1>2. CASE chan' # <<>>
  BY <1>1, <1>2, DrainedChannel DEF EndIsUnderway, TypeOK
<1>3. CASE chan' = <<>> /\ Head(chan) = "end"
  <2>1. PICK t \in Tellers : tellers' = [tellers EXCEPT ![t].at = "poll"]
    BY <1>3 DEF Listen
  <2>2. tellers'[t].at = "poll"
    BY <2>1 DEF TypeOK
  <2> QED BY <1>3, <2>2 DEF EndIsUnderway
<1>4. CASE chan' = <<>> /\ Head(chan) # "end"
  BY <1>1, <1>4, DrainedChannel DEF EndIsUnderway, TypeOK
<1> QED
  BY <1>2, <1>3, <1>4

LEMMA TellerUnderway ==
  ASSUME Typed, ToldIsWritten, EndIsUnderway, NEW t \in Tellers, Teller(t)
  PROVE  EndIsUnderway'
<1>0. TypeOK /\ UNCHANGED <<Get, lossy, silent, chan>>
  BY DEF Typed, Teller, TellerPolls, TellerClaims, TellerWrites, jobVars, Get, history
<1> SUFFICES ASSUME ~lossy, ~silent, Terminal(Get), chan = <<>>
             PROVE  \/ Get \in fresh'
                    \/ \E u \in Tellers :
                         \/ tellers'[u].at = "poll"
                         \/ tellers'[u].at \in {"claim", "write"} /\ tellers'[u].notice = Get
  BY <1>0 DEF EndIsUnderway
<1>1. CASE TellerPolls(t)
  <2>1. tellers'[t].at = "claim" /\ tellers'[t].notice = Get
    BY <1>0, <1>1 DEF TellerPolls, TypeOK
  <2> QED BY <2>1
<1>2. CASE TellerClaims(t)
  <2>1. \A u \in Tellers \ {t} : tellers'[u] = tellers[u]
    BY <1>0, <1>2 DEF TellerClaims, TypeOK
  <2>2. CASE tellers[t].notice = Get /\ told = Get
    <3>1. Get # None
      BY <1>0, GetType, JobTypes
    <3>2. Get \in fresh \/ Writing(Get)
      BY <2>2, <3>1 DEF ToldIsWritten
    <3>3. tellers[t].at # "write" /\ UNCHANGED fresh
      BY <1>2 DEF TellerClaims, history
    <3> QED BY <2>1, <3>2, <3>3 DEF Writing
  <2>3. CASE tellers[t].notice = Get /\ told # Get
    <3>1. tellers'[t].at = "write" /\ tellers'[t].notice = Get
      BY <1>0, <1>2, <2>3 DEF TellerClaims, TypeOK
    <3> QED BY <3>1
  <2>4. CASE tellers[t].notice # Get
    BY <1>2, <2>1, <2>4 DEF TellerClaims, EndIsUnderway, history
  <2> QED BY <2>2, <2>3, <2>4
<1>3. CASE TellerWrites(t)
  <2>1. /\ \A u \in Tellers \ {t} : tellers'[u] = tellers[u]
        /\ fresh' = fresh \cup {tellers[t].notice} /\ tellers[t].at = "write"
    BY <1>0, <1>3 DEF TellerWrites, TypeOK
  <2> QED BY <2>1 DEF EndIsUnderway
<1> QED
  BY <1>1, <1>2, <1>3 DEF Teller

LEMMA StepUnderway ==
  ASSUME IInv, [Next]_vars
  PROVE  EndIsUnderway'
<1>0. Typed /\ TypeOK /\ ToldIsWritten /\ OneHand /\ EndIsUnderway
  BY DEF IInv, Typed
<1>1. CASE Job
  BY <1>0, <1>1, JobUnderway
<1>2. CASE Operator
  BY <1>0, <1>2, OperatorUnderway
<1>3. CASE Listen
  BY <1>0, <1>3, ListenUnderway
<1>4. CASE \E t \in Tellers : Teller(t)
  BY <1>0, <1>4, TellerUnderway
<1>5. CASE Reader \/ UNCHANGED vars
  <2>1. UNCHANGED <<Get, lossy, silent, fresh, chan, mcpVars>>
    BY <1>5 DEF Reader, StreamOpens, StreamPolls, StreamLeaves, vars, jobVars,
       mcpVars, history, Get
  <2> QED BY <1>0, <2>1, SameEnd
<1> QED
  BY <1>1, <1>2, <1>3, <1>4, <1>5 DEF Next

LEMMA InitInvariant == Init => IInv
<1> SUFFICES ASSUME Init PROVE IInv
  OBVIOUS
<1>1. Typed
  BY InitType
<1>2. ToldIsWritten /\ OneHand
  BY JobTypes DEF Init, ToldIsWritten, OneHand, NoCall
<1>3. EndIsUnderway
  BY JobTypes DEF Init, EndIsUnderway, Get
<1> QED BY <1>1, <1>2, <1>3 DEF IInv

LEMMA IInvHolds == Spec => []IInv
<1>1. IInv /\ [Next]_vars => IInv'
  BY StepType, StepOneHand, StepToldWritten, StepUnderway DEF IInv, Typed
<1> QED
  BY <1>1, InitInvariant, PTL DEF Spec

\* For every channel and any number of goroutines: as long as no event was dropped and no
\* operator crossed a run, an end that came with an ending event and that readers see is
\* announced or about to be, and no goroutine suppresses a notice that nobody writes.
THEOREM EndsAreUnderway == Spec => []EndIsUnderway
<1>1. IInv => EndIsUnderway
  BY DEF IInv
<1> QED
  BY <1>1, IInvHolds, PTL

----------------------------------------------------------------------------
(* A completed job stays completed for its readers.                           *)

LEMMA DoneStaysSeen ==
  ASSUME TypeOK, OneHand, [Next]_vars, Get.status = "done", ~lossy', ~silent'
  PROVE  Get'.status = "done"
<1>1. CASE UNCHANGED <<cache, disk>>
  BY <1>1 DEF Get
<1>2. ASSUME Job \/ Operator PROVE ~lossy
  BY <1>2, LossyStays
<1>3. ASSUME ~lossy PROVE run \in {"idle", "ending", "ended"} /\ (run = "idle" => disk.status = "done")
  BY <1>3 DEF OneHand, Get, TypeOK, RunStates
<1>4. CASE RunWorks \/ RunCloses \/ RunRefuses
  BY <1>2, <1>3, <1>4 DEF Job, RunWorks, RunCloses, RunRefuses
<1>5. CASE RunSaves \/ RunReturns \/ OperatorStarts \/ OperatorCloses \/ OperatorFails
  BY <1>2, <1>5, QuietJob DEF Job, Operator
<1>6. CASE RunReleases
  BY <1>2, <1>6, Eviction DEF Job
<1>7. CASE Retry \/ Resume \/ Cancel
  <2>1. PICK call \in Called, job \in Copies, kind \in Kinds :
          Calls(call, job, kind) /\ disk.status # "done"
    BY <1>7, CallsMade
  <2>2. ~lossy /\ run = "idle"
    BY <2>1, CallEffect
  <2> QED BY <1>3, <2>1, <2>2
<1>8. CASE Reject
  BY <1>8 DEF Reject
<1> QED
  BY <1>1, <1>4, <1>5, <1>6, <1>7, <1>8 DEF Next, Job, Operator, Listen, Teller, TellerPolls,
     TellerClaims, TellerWrites, Reader, StreamOpens, StreamPolls, StreamLeaves, vars, jobVars

\* A job that one reader has seen done reads as done to all that come after, whether the
\* cache or the file answers, unless an operator crossed the run or both saves failed.
THEOREM DoneIsFinalToReaders == Spec => DoneIsSeenForGood
<1>1. IInv /\ [Next]_vars
      => [Get.status = "done" /\ ~lossy' /\ ~silent' => Get'.status = "done"]_vars
  BY DoneStaysSeen DEF IInv, Typed
<1> QED
  BY <1>1, IInvHolds, PTL DEF Spec, DoneIsSeenForGood
=============================================================================
