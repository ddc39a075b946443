------------------------------- MODULE Harness -------------------------------
(***************************************************************************)
(* The processes a service runs for operators and jobs: the process        *)
(* manager (runtime/lifecycle.go), who owns which process and who may use  *)
(* it (service.go), through the global and the job-scoped surface of the   *)
(* HTTP interface or the command line (api/harness.go, main.go).           *)
(*                                                                         *)
(* A process is known by its pid alone.  The system may give the pid of a  *)
(* process that was reaped to the next one; the manager's record is then   *)
(* replaced, the owner's entry is not.                                     *)
(*                                                                         *)
(* Abstractions.  Policy, files and commands are left out: a start that is *)
(* refused changes nothing.  Calls that are refused are left out for the   *)
(* same reason.  A list is a series of looks at one process.  The look up  *)
(* of a record and the kill are one step, and so are the return of Wait    *)
(* and the record of its outcome.                                          *)
(***************************************************************************)
EXTENDS Naturals

CONSTANTS
  Jobs,
  Operator,   \* the global surface
  None,
  Pids,
  Calls,      \* calls that may be under way at a time
  MaxStarts,  \* bound: processes that are started in all
  Requests    \* do calls come as requests, whose context ends when they return?

ASSUME HarnessAssumption ==
  /\ {Operator, None} \cap Jobs = {} /\ Operator # None /\ None \notin Pids
  /\ MaxStarts \in Nat /\ Requests \in BOOLEAN

VARIABLES
  os,        \* the system's view of a pid: free, alive, dead but not reaped
  starter,   \* history: who started the latest process of the pid
  users,     \* history: who has ever started a process of the pid
  again,     \* history: the pids that were used more than once
  starts,    \* how many processes were started
  doomed,    \* processes whose context is cancelled
  state,     \* ProcessState in the manager's record, "none" without a record
  stopped,   \* stopRequested of that record, as long as it is read
  harnesses, \* pids the service knows
  owner,     \* harnessOwners
  owned,     \* jobHarnesses
  inflight,  \* harnessInflight
  at,        \* where a call is
  op, who, pid, \* what it does, for whom, to which process
  seen       \* the state a stop has read

service == <<harnesses, owner, owned, inflight>>
history == <<starter, users, again, starts>>
manager == <<os, history, doomed, state, stopped>>
args    == <<op, who, pid>>
vars    == <<manager, service, at, args, seen>>

Callers == Jobs \cup {Operator}
Lookups == {"get", "stop", "list"}   \* what each surface offers beside a start
States  == {"none", "running", "stopped", "exited"}   \* failed is exited, too

TypeOK ==
  /\ os \in [Pids -> {"free", "alive", "dead"}]
  /\ starter \in [Pids -> Callers \cup {None}] /\ users \in [Pids -> SUBSET Callers]
  /\ again \subseteq Pids /\ starts \in 0 .. MaxStarts
  /\ doomed \subseteq Pids
  /\ state \in [Pids -> States]
  /\ stopped \in [Pids -> BOOLEAN]
  /\ harnesses \subseteq Pids
  /\ owner \in [Pids -> Jobs \cup {None}]
  /\ owned \in [Jobs -> SUBSET Pids]
  /\ inflight \in [Pids -> Jobs \cup {None}]
  /\ at \in [Calls -> {"idle", "kill", "waiting", "status", "track", "release"}]
  /\ op \in [Calls -> {"none", "start", "get", "stop", "list"}]
  /\ who \in [Calls -> Callers \cup {None}]
  /\ pid \in [Calls -> Pids \cup {None}]
  /\ seen \in [Calls -> States]
  /\ \A c \in Calls : at[c] # "idle" => who[c] # None /\ pid[c] # None /\ op[c] # "none"

Init ==
  /\ os = [p \in Pids |-> "free"] /\ starter = [p \in Pids |-> None]
  /\ users = [p \in Pids |-> {}] /\ again = {} /\ starts = 0
  /\ doomed = {}
  /\ state = [p \in Pids |-> "none"] /\ stopped = [p \in Pids |-> FALSE]
  /\ harnesses = {}
  /\ owner = [p \in Pids |-> None] /\ owned = [j \in Jobs |-> {}]
  /\ inflight = [p \in Pids |-> None]
  /\ at = [c \in Calls |-> "idle"]
  /\ op = [c \in Calls |-> "none"]
  /\ who = [c \in Calls |-> None] /\ pid = [c \in Calls |-> None]
  /\ seen = [c \in Calls |-> "none"]

----------------------------------------------------------------------------
(* Calls. *)

Goes(c, place) == at' = [at EXCEPT ![c] = place]

Enters(c, o, w, p, place) ==
  /\ at[c] = "idle"
  /\ Goes(c, place)
  /\ op' = [op EXCEPT ![c] = o]
  /\ who' = [who EXCEPT ![c] = w]
  /\ pid' = [pid EXCEPT ![c] = p]

Returns(c) ==
  /\ Goes(c, "idle")
  /\ op' = [op EXCEPT ![c] = "none"]
  /\ who' = [who EXCEPT ![c] = None]
  /\ pid' = [pid EXCEPT ![c] = None]
  /\ seen' = [seen EXCEPT ![c] = "none"]

\* The record of an earlier process of the pid is replaced.
Start(c, w, p) ==
  /\ os[p] = "free" /\ starts < MaxStarts
  /\ Enters(c, "start", w, p, "track")
  /\ os' = [os EXCEPT ![p] = "alive"]
  /\ starter' = [starter EXCEPT ![p] = w]
  /\ users' = [users EXCEPT ![p] = @ \cup {w}]
  /\ again' = IF starter[p] = None THEN again ELSE again \cup {p}
  /\ starts' = starts + 1
  /\ state' = [state EXCEPT ![p] = "running"]
  /\ stopped' = [stopped EXCEPT ![p] = FALSE]
  /\ UNCHANGED <<doomed, service, seen>>

\* Slip of ClaimHarness: a process without a mark on it is anybody's.
ClaimHarnessSlip(w, p) ==
  /\ inflight[p] \in {None, w} /\ owner[p] # None
  /\ inflight' = [inflight EXCEPT ![p] = w]

\* The owner is checked and the process marked under one lock.
ClaimHarness(w, p) ==
  /\ inflight[p] \in {None, w} /\ owner[p] = w
  /\ inflight' = [inflight EXCEPT ![p] = w]

\* The global surface asks nothing but a record.
Asks(c, o, w, p) ==
  /\ Enters(c, o, w, p, IF o = "stop" THEN "kill" ELSE "status")
  /\ \/ w = Operator /\ state[p] # "none" /\ UNCHANGED inflight
     \/ w \in Jobs /\ ClaimHarness(w, p)
  /\ o = "list" => p \in (IF w = Operator THEN harnesses ELSE owned[w])
  /\ UNCHANGED <<manager, harnesses, owner, owned, seen>>

\* A process that has ended already is not waited for.
Kill(c) ==
  LET p == pid[c] IN
  /\ at[c] = "kill"
  /\ stopped' = [stopped EXCEPT ![p] = state[p] = "running"]
  /\ os' = [os EXCEPT ![p] = IF os[p] = "alive" THEN "dead" ELSE os[p]]
  /\ Goes(c, IF state[p] = "running" THEN "waiting" ELSE "status")
  /\ UNCHANGED <<history, doomed, state, service, args, seen>>

\* The caller of a stop goes away: it is answered with what is known.
StopAbandoned(c) ==
  /\ Requests /\ at[c] = "waiting"
  /\ Goes(c, "status")
  /\ op' = [op EXCEPT ![c] = "get"]
  /\ UNCHANGED <<manager, service, who, pid, seen>>

\* The record is looked up by the pid.  A list gives up its mark before it goes on.
Status(c) ==
  LET unmarks == op[c] = "list" /\ who[c] \in Jobs IN
  /\ at[c] = "status"
  /\ seen' = [seen EXCEPT ![c] = IF op[c] = "stop" THEN state[pid[c]] ELSE "none"]
  /\ inflight' = IF unmarks THEN [inflight EXCEPT ![pid[c]] = None] ELSE inflight
  /\ Goes(c, "track")
  /\ UNCHANGED <<manager, harnesses, owner, owned, args>>

\* The context of a start that came as a request ends when it has been answered.
StartReturns(c) ==
  /\ doomed' = IF Requests THEN doomed \cup {pid[c]} ELSE doomed
  /\ Returns(c)

\* Slip of TrackHarness: what a job starts is not in the inventory.
TrackHarnessSlip(c) ==
  LET p == pid[c] w == who[c] IN
  IF w \notin Jobs THEN harnesses' = harnesses \cup {p} /\ UNCHANGED <<owner, owned>>
  ELSE /\ owner' = [owner EXCEPT ![p] = w]
       /\ owned' = [owned EXCEPT ![w] = @ \cup {p}]
       /\ UNCHANGED harnesses

\* Slip of TrackHarness: the empty job id of the global surface becomes an owner.
TrackForAnyoneSlip(c) ==
  LET p == pid[c] w == who[c] IN
  /\ harnesses' = harnesses \cup {p}
  /\ IF inflight[p] \in {None, w}
       THEN /\ owner' = [owner EXCEPT ![p] = w]
            /\ owned' = [owned EXCEPT ![w] = @ \cup {p}]
       ELSE UNCHANGED <<owner, owned>>

\* A job becomes the owner unless another job has marked the process.
TrackHarness(c) ==
  LET p == pid[c] w == who[c] IN
  /\ harnesses' = harnesses \cup {p}
  /\ IF w \in Jobs /\ inflight[p] \in {None, w}
       THEN /\ owner' = [owner EXCEPT ![p] = w]
            /\ owned' = [owned EXCEPT ![w] = @ \cup {p}]
       ELSE UNCHANGED <<owner, owned>>

Track(c) ==
  /\ at[c] = "track"
  /\ TrackHarness(c)
  /\ \/ op[c] = "start" /\ StartReturns(c)
     \/ /\ op[c] # "start" /\ (op[c] = "list" \/ who[c] = Operator)
        /\ Returns(c) /\ UNCHANGED doomed
     \/ /\ op[c] \in {"get", "stop"} /\ who[c] \in Jobs
        /\ Goes(c, "release") /\ UNCHANGED <<args, seen, doomed>>
  /\ UNCHANGED <<os, history, state, stopped, inflight>>

\* The mark is removed, whoever of the job's calls has set it.
Release(c) ==
  /\ at[c] = "release"
  /\ inflight' = [inflight EXCEPT ![pid[c]] = None]
  /\ Returns(c)
  /\ UNCHANGED <<manager, harnesses, owner, owned>>

----------------------------------------------------------------------------
(* Processes. *)

Exits(p) ==
  /\ os[p] = "alive"
  /\ os' = [os EXCEPT ![p] = "dead"]
  /\ UNCHANGED <<history, doomed, state, stopped, service, at, args, seen>>

\* exec.CommandContext kills the process of a context that is cancelled.
KilledByContext(p) == p \in doomed /\ Exits(p)

\* Slip of Watch: nobody is told that the process has ended.
WatchSlip(p) ==
  /\ os[p] = "dead"
  /\ os' = [os EXCEPT ![p] = "free"]
  /\ doomed' = doomed \ {p}
  /\ state' = [state EXCEPT ![p] = IF stopped[p] THEN "stopped" ELSE "exited"]
  /\ stopped' = [stopped EXCEPT ![p] = FALSE]
  /\ UNCHANGED <<history, service, at, args, seen>>

\* The outcome is recorded and those who wait for it are told.
Watch(p) ==
  /\ os[p] = "dead"
  /\ os' = [os EXCEPT ![p] = "free"]
  /\ doomed' = doomed \ {p}
  /\ state' = [state EXCEPT ![p] = IF stopped[p] THEN "stopped" ELSE "exited"]
  /\ at' = [c \in Calls |-> IF at[c] = "waiting" /\ pid[c] = p THEN "status" ELSE at[c]]
  /\ stopped' = [stopped EXCEPT ![p] = FALSE]
  /\ UNCHANGED <<history, service, args, seen>>

----------------------------------------------------------------------------

CallStep(c) == Kill(c) \/ Status(c) \/ Track(c) \/ Release(c)

Next ==
  \/ \E c \in Calls, w \in Callers, p \in Pids :
       Start(c, w, p) \/ \E o \in Lookups : Asks(c, o, w, p)
  \/ \E c \in Calls : CallStep(c) \/ StopAbandoned(c)
  \/ \E p \in Pids : Exits(p) \/ KilledByContext(p) \/ Watch(p)

Spec == Init /\ [][Next]_vars

\* Calls and watchers are scheduled; a process need not end unless it is killed.
FairSpec ==
  /\ Spec
  /\ \A c \in Calls : WF_vars(CallStep(c))
  /\ \A p \in Pids : WF_vars(Watch(p)) /\ WF_vars(KilledByContext(p))

----------------------------------------------------------------------------

\* A job's calls reach only processes that job has started: it does not look at, list
\* or stop the operator's or another job's, however their calls overlap.
JobsKeepToTheirOwn ==
  \A c \in Calls :
    op[c] \in {"get", "stop", "list"} /\ who[c] \in Jobs /\ pid[c] \notin again =>
      starter[pid[c]] = who[c]

\* A stop whose caller has waited is never answered with a running process.
StopSaysStopped ==
  \A c \in Calls :
    op[c] = "stop" /\ at[c] \in {"track", "release"} /\ pid[c] \notin again =>
      seen[c] # "running"

\* Both, of every process whose pid was used once.
CallsAreTrue == JobsKeepToTheirOwn /\ StopSaysStopped

\* No process whose pid was used once escapes: when the call that started it has
\* returned, the operator's inventory has it and, if a job has started it, that job can
\* list and claim it.
NothingEscapes ==
  \A p \in Pids \ again :
    starter[p] # None /\ ~(\E c \in Calls : op[c] = "start" /\ pid[c] = p) =>
      /\ p \in harnesses
      /\ starter[p] \in Jobs => owner[p] = starter[p] /\ p \in owned[starter[p]]
      /\ starter[p] = Operator => owner[p] = None

\* When the system uses pids again the service cannot tell two processes of a pid apart,
\* but no more is lost: a job's calls reach only pids it has once started, owners and
\* marks are no strangers to the pid, and the operator's inventory has all of them.
ReuseIsContained ==
  /\ \A c \in Calls :
       op[c] \in {"get", "stop", "list"} /\ who[c] \in Jobs => who[c] \in users[pid[c]]
  /\ \A p \in Pids :
       /\ {owner[p], inflight[p]} \subseteq users[p] \cup {None}
       /\ \A j \in Jobs : p \in owned[j] => j \in users[p]
       /\ users[p] # {} => p \in harnesses \/ \E c \in Calls : op[c] = "start" /\ pid[c] = p

\* Every stop is answered, for it has killed what it waits for.
StopsEnd == \A c \in Calls : at[c] = "kill" ~> at[c] = "idle"

\* docs/ORCHESTRATOR_SPEC_UPDATED.md names starting a development server among the
\* harness's tasks: a process that runs is not condemned by the answer to its start.
RunsOn == \A p \in Pids : os[p] = "alive" => p \notin doomed
=============================================================================
