--------------------------- MODULE Harness_proofs ---------------------------
(***************************************************************************)
(* Proofs about Harness, for any number of jobs, pids, calls and processes *)
(* that are started: what holds of a pid that is used once, and what is    *)
(* left of it when the system uses it again.                               *)
(***************************************************************************)
EXTENDS Harness, TLAPS

----------------------------------------------------------------------------
(* The inductive invariant. *)

\* A record is kept of the latest process of every pid.
PidsFit ==
  \A p \in Pids : /\ state[p] = "none" <=> starter[p] = None
                  /\ os[p] # "free" \/ p \in again => starter[p] # None

\* Only who has started a process may own it or mark it.
OwnersFit ==
  \A p \in Pids \ again :
    owner[p] \in {None, starter[p]} /\ inflight[p] \in {None, starter[p]}

CallsFit ==
  \A c \in Calls :
    /\ at[c] = "idle" => op[c] = "none"
    /\ at[c] # "idle" => starter[pid[c]] # None
    /\ op[c] = "start" => at[c] = "track" /\ (pid[c] \notin again => starter[pid[c]] = who[c])
    /\ at[c] \in {"kill", "waiting"} => op[c] = "stop"
    /\ op[c] = "stop" /\ at[c] = "status" /\ pid[c] \notin again => state[pid[c]] # "running"

IInv == TypeOK /\ PidsFit /\ OwnersFit /\ CallsFit /\ CallsAreTrue /\ NothingEscapes

----------------------------------------------------------------------------
(* Types. *)

LEMMA Names ==
  /\ Operator \notin Jobs /\ None \notin Jobs /\ Operator # None
  /\ Callers = Jobs \cup {Operator} /\ None \notin Callers /\ None \notin Pids
  BY HarnessAssumption DEF Callers

LEMMA InitHolds == ASSUME Init PROVE IInv
<1>1. TypeOK
  BY HarnessAssumption DEF Init, TypeOK, States
<1>2. PidsFit /\ OwnersFit /\ CallsFit
  BY DEF Init, PidsFit, OwnersFit, CallsFit
<1>3. CallsAreTrue /\ NothingEscapes
  BY DEF Init, CallsAreTrue, JobsKeepToTheirOwn, StopSaysStopped, NothingEscapes
<1> QED BY <1>1, <1>2, <1>3 DEF IInv

\* A call under way has a caller, a process and a task.
LEMMA Underway ==
  ASSUME TypeOK, NEW c \in Calls, at[c] # "idle"
  PROVE  pid[c] \in Pids /\ who[c] \in Callers /\ op[c] \in {"start", "get", "stop", "list"}
  BY DEF TypeOK

LEMMA ReturnsType ==
  ASSUME TypeOK, NEW c \in Calls, Returns(c)
  PROVE  /\ at' \in [Calls -> {"idle", "kill", "waiting", "status", "track", "release"}]
         /\ op' \in [Calls -> {"none", "start", "get", "stop", "list"}]
         /\ who' \in [Calls -> Callers \cup {None}]
         /\ pid' \in [Calls -> Pids \cup {None}]
         /\ seen' \in [Calls -> States]
         /\ \A d \in Calls : at'[d] # "idle" => who'[d] # None /\ pid'[d] # None /\ op'[d] # "none"
  BY DEF TypeOK, Returns, Goes, States

LEMMA EntersType ==
  ASSUME TypeOK, NEW c \in Calls, NEW o \in {"start", "get", "stop", "list"},
         NEW w \in Callers, NEW p \in Pids, NEW place \in {"kill", "status", "track"},
         Enters(c, o, w, p, place), seen' = seen
  PROVE  /\ at' \in [Calls -> {"idle", "kill", "waiting", "status", "track", "release"}]
         /\ op' \in [Calls -> {"none", "start", "get", "stop", "list"}]
         /\ who' \in [Calls -> Callers \cup {None}]
         /\ pid' \in [Calls -> Pids \cup {None}]
         /\ seen' \in [Calls -> States]
         /\ \A d \in Calls : at'[d] # "idle" => who'[d] # None /\ pid'[d] # None /\ op'[d] # "none"
  BY Names DEF TypeOK, Enters, Goes

LEMMA TrackType ==
  ASSUME TypeOK, NEW c \in Calls, at[c] # "idle", TrackHarness(c)
  PROVE  /\ harnesses' \subseteq Pids
         /\ owner' \in [Pids -> Jobs \cup {None}]
         /\ owned' \in [Jobs -> SUBSET Pids]
<1>1. pid[c] \in Pids
  BY Underway
<1> QED BY <1>1 DEF TrackHarness, TypeOK

LEMMA StepType ==
  ASSUME TypeOK, [Next]_vars
  PROVE  TypeOK'
<1>1. ASSUME NEW c \in Calls, NEW w \in Callers, NEW p \in Pids, Start(c, w, p)
      PROVE  TypeOK'
  <2>1. starts' \in 0 .. MaxStarts
    BY <1>1, HarnessAssumption DEF Start, TypeOK
  <2> QED BY <1>1, <2>1, EntersType DEF Start, TypeOK, States, service
<1>2. ASSUME NEW c \in Calls, NEW w \in Callers, NEW p \in Pids, NEW o \in Lookups,
             Asks(c, o, w, p)
      PROVE  TypeOK'
  <2>1. inflight' \in [Pids -> Jobs \cup {None}]
    BY <1>2 DEF Asks, ClaimHarness, TypeOK
  <2>2. o \in {"start", "get", "stop", "list"}
        /\ (IF o = "stop" THEN "kill" ELSE "status") \in {"kill", "status", "track"}
    BY DEF Lookups
  <2>3. Enters(c, o, w, p, IF o = "stop" THEN "kill" ELSE "status") /\ seen' = seen
    BY <1>2 DEF Asks
  <2>4. /\ at' \in [Calls -> {"idle", "kill", "waiting", "status", "track", "release"}]
        /\ op' \in [Calls -> {"none", "start", "get", "stop", "list"}]
        /\ who' \in [Calls -> Callers \cup {None}]
        /\ pid' \in [Calls -> Pids \cup {None}]
        /\ seen' \in [Calls -> States]
        /\ \A d \in Calls : at'[d] # "idle" => who'[d] # None /\ pid'[d] # None /\ op'[d] # "none"
    BY <2>2, <2>3, EntersType
  <2> QED BY <1>2, <2>1, <2>4 DEF Asks, TypeOK, manager, history
<1>3. ASSUME NEW c \in Calls, Kill(c) PROVE TypeOK'
  <2>1. pid[c] \in Pids
    BY <1>3, Underway DEF Kill
  <2>2. stopped' \in [Pids -> BOOLEAN] /\ os' \in [Pids -> {"free", "alive", "dead"}]
    BY <1>3, <2>1 DEF Kill, TypeOK
  <2>3. /\ at' \in [Calls -> {"idle", "kill", "waiting", "status", "track", "release"}]
        /\ \A d \in Calls : at'[d] # "idle" => at[d] # "idle"
    BY <1>3 DEF Kill, Goes, TypeOK
  <2> QED BY <1>3, <2>2, <2>3 DEF Kill, TypeOK, service, history, args
<1>4. ASSUME NEW c \in Calls, StopAbandoned(c) PROVE TypeOK'
  BY <1>4 DEF StopAbandoned, Goes, TypeOK, manager, history, service
<1>5. ASSUME NEW c \in Calls, Status(c) PROVE TypeOK'
  <2>1. pid[c] \in Pids
    BY <1>5, Underway DEF Status
  <2>2. inflight' \in [Pids -> Jobs \cup {None}] /\ seen' \in [Calls -> States]
    BY <1>5, <2>1 DEF Status, TypeOK, States
  <2>3. /\ at' \in [Calls -> {"idle", "kill", "waiting", "status", "track", "release"}]
        /\ \A d \in Calls : at'[d] # "idle" => at[d] # "idle"
    BY <1>5 DEF Status, Goes, TypeOK
  <2> QED BY <1>5, <2>2, <2>3 DEF Status, TypeOK, manager, history, args
<1>6. ASSUME NEW c \in Calls, Track(c) PROVE TypeOK'
  <2>1. /\ harnesses' \subseteq Pids /\ owner' \in [Pids -> Jobs \cup {None}]
        /\ owned' \in [Jobs -> SUBSET Pids] /\ pid[c] \in Pids
    BY <1>6, Underway, TrackType DEF Track
  <2>2. CASE Returns(c)
    BY <1>6, <2>1, <2>2, ReturnsType DEF Track, StartReturns, TypeOK, history
  <2>3. CASE Goes(c, "release") /\ UNCHANGED <<args, seen, doomed>>
    BY <1>6, <2>1, <2>3 DEF Track, Goes, TypeOK, history, args
  <2> QED BY <1>6, <2>2, <2>3 DEF Track, StartReturns
<1>7. ASSUME NEW c \in Calls, Release(c) PROVE TypeOK'
  <2>1. pid[c] \in Pids
    BY <1>7, Underway DEF Release
  <2> QED BY <1>7, <2>1, ReturnsType DEF Release, TypeOK, manager, history
<1>8. ASSUME NEW p \in Pids, Exits(p) \/ KilledByContext(p) PROVE TypeOK'
  BY <1>8 DEF Exits, KilledByContext, TypeOK, service, history, args
<1>9. ASSUME NEW p \in Pids, Watch(p) PROVE TypeOK'
  BY <1>9 DEF Watch, TypeOK, States, service, history, args
<1>10. CASE UNCHANGED vars
  BY <1>10 DEF vars, manager, history, service, history, args, TypeOK
<1> QED
  BY <1>1, <1>2, <1>3, <1>4, <1>5, <1>6, <1>7, <1>8, <1>9, <1>10 DEF Next, CallStep

----------------------------------------------------------------------------
(* Steps. *)

Promises == PidsFit /\ OwnersFit /\ CallsFit /\ CallsAreTrue /\ NothingEscapes

LEMMA ReturnsKeeps ==
  ASSUME TypeOK, NEW c \in Calls, Returns(c)
  PROVE  /\ at'[c] = "idle" /\ op'[c] = "none"
         /\ \A d \in Calls : d # c => /\ at'[d] = at[d] /\ op'[d] = op[d] /\ who'[d] = who[d]
                                      /\ pid'[d] = pid[d] /\ seen'[d] = seen[d]
  BY DEF TypeOK, Returns, Goes

LEMMA EntersKeeps ==
  ASSUME TypeOK, NEW c \in Calls, NEW o, NEW w, NEW p, NEW place, Enters(c, o, w, p, place)
  PROVE  /\ at[c] = "idle" /\ at'[c] = place /\ op'[c] = o /\ who'[c] = w /\ pid'[c] = p
         /\ \A d \in Calls : d # c => /\ at'[d] = at[d] /\ op'[d] = op[d] /\ who'[d] = who[d]
                                      /\ pid'[d] = pid[d]
  BY DEF TypeOK, Enters, Goes

LEMMA StartKeeps ==
  ASSUME IInv, NEW c \in Calls, NEW w \in Callers, NEW p \in Pids, Start(c, w, p)
  PROVE  Promises'
<1> USE DEF IInv
<1>1. /\ at[c] = "idle" /\ at'[c] = "track" /\ op'[c] = "start" /\ who'[c] = w /\ pid'[c] = p
      /\ \A d \in Calls : d # c => /\ at'[d] = at[d] /\ op'[d] = op[d] /\ who'[d] = who[d]
                                   /\ pid'[d] = pid[d]
  BY EntersKeeps DEF Start
<1>2. /\ w # None /\ UNCHANGED <<owner, owned, harnesses, inflight, seen>>
      /\ again' = IF starter[p] = None THEN again ELSE again \cup {p}
  BY Names DEF Start, service
<1>3. /\ starter'[p] = w /\ state'[p] = "running" /\ os'[p] = "alive"
      /\ \A q \in Pids : q # p => starter'[q] = starter[q] /\ state'[q] = state[q] /\ os'[q] = os[q]
  BY DEF Start, TypeOK
<1>4. /\ p \notin again' => starter[p] = None
      /\ \A q \in Pids : q # p => (q \in again' <=> q \in again)
  BY <1>2
<1>5. \A d \in Calls : d # c /\ at[d] # "idle" => pid[d] \in Pids /\ (pid[d] = p => p \in again')
  BY <1>4, Underway DEF CallsFit
<1>6. PidsFit'
  BY <1>2, <1>3, <1>4 DEF PidsFit
<1>7. OwnersFit'
  BY <1>2, <1>3, <1>4 DEF OwnersFit, PidsFit
<1>8. CallsFit'
  BY <1>1, <1>2, <1>3, <1>4, <1>5 DEF CallsFit
<1>9. CallsAreTrue'
  <2>1. \A d \in Calls : op[d] # "none" => at[d] # "idle"
    BY DEF CallsFit
  <2>2. \A d \in Calls : d # c /\ op[d] # "none" /\ pid[d] \notin again'
                        => pid[d] \notin again /\ starter'[pid[d]] = starter[pid[d]]
    BY <1>3, <1>4, <1>5, <2>1
  <2>3. JobsKeepToTheirOwn'
    BY <1>1, <2>2 DEF CallsAreTrue, JobsKeepToTheirOwn
  <2>4. StopSaysStopped'
    BY <1>1, <1>2, <2>2 DEF CallsAreTrue, StopSaysStopped
  <2> QED BY <2>3, <2>4 DEF CallsAreTrue
<1>10. NothingEscapes'
  <2>1. SUFFICES ASSUME NEW q \in Pids, q \notin again', starter'[q] # None,
                        ~(\E d \in Calls : op'[d] = "start" /\ pid'[d] = q)
                 PROVE  /\ q \in harnesses'
                        /\ starter'[q] \in Jobs => owner'[q] = starter'[q] /\ q \in owned'[starter'[q]]
                        /\ starter'[q] = Operator => owner'[q] = None
    BY DEF NothingEscapes
  <2>2. q # p /\ ~(\E d \in Calls : op[d] = "start" /\ pid[d] = q)
    BY <1>1, <2>1 DEF CallsFit
  <2> QED BY <1>2, <1>3, <1>4, <2>1, <2>2 DEF NothingEscapes
<1> QED BY <1>6, <1>7, <1>8, <1>9, <1>10 DEF Promises

LEMMA AsksKeeps ==
  ASSUME IInv, NEW c \in Calls, NEW o \in Lookups, NEW w \in Callers, NEW p \in Pids,
         Asks(c, o, w, p)
  PROVE  Promises'
<1> USE DEF IInv
<1>1. /\ at[c] = "idle" /\ at'[c] = (IF o = "stop" THEN "kill" ELSE "status")
      /\ op'[c] = o /\ who'[c] = w /\ pid'[c] = p
      /\ \A d \in Calls : d # c => /\ at'[d] = at[d] /\ op'[d] = op[d] /\ who'[d] = who[d]
                                   /\ pid'[d] = pid[d]
  BY EntersKeeps DEF Asks
<1>2. UNCHANGED <<os, starter, again, state, harnesses, owner, owned, seen>>
  BY DEF Asks, manager, history
<1>3. /\ starter[p] # None /\ (w \in Jobs /\ p \notin again => starter[p] = w)
      /\ inflight' = inflight \/ (w \in Jobs /\ inflight' = [inflight EXCEPT ![p] = w])
  BY Names DEF Asks, ClaimHarness, OwnersFit, PidsFit, TypeOK
<1>4. PidsFit' /\ OwnersFit'
  BY <1>2, <1>3 DEF PidsFit, OwnersFit, TypeOK
<1>5. CallsFit'
  BY <1>1, <1>2, <1>3 DEF CallsFit, Lookups
<1>6. CallsAreTrue'
  BY <1>1, <1>2, <1>3 DEF CallsAreTrue, JobsKeepToTheirOwn, StopSaysStopped
<1>7. NothingEscapes'
  <2>1. \A q \in Pids : (\E d \in Calls : op[d] = "start" /\ pid[d] = q)
                          => \E d \in Calls : op'[d] = "start" /\ pid'[d] = q
    BY <1>1 DEF CallsFit
  <2> QED BY <1>2, <2>1 DEF NothingEscapes
<1> QED BY <1>4, <1>5, <1>6, <1>7 DEF Promises

\* A call that is not a start goes on with its process, or returns.
Moves(c) ==
  /\ op[c] # "start" /\ UNCHANGED <<starter, again, state>>
  /\ \A d \in Calls : d # c => /\ at'[d] = at[d] /\ op'[d] = op[d] /\ who'[d] = who[d]
                               /\ pid'[d] = pid[d] /\ seen'[d] = seen[d]
  /\ \/ op'[c] = "none" /\ at'[c] = "idle"
     \/ /\ op'[c] \in Lookups /\ op[c] \in Lookups
        /\ who'[c] = who[c] /\ pid'[c] = pid[c] /\ at[c] # "idle" /\ at'[c] # "idle"
        /\ at'[c] \in {"kill", "waiting"} => op'[c] = "stop"
        /\ op'[c] = "stop" /\ at'[c] = "status" /\ pid[c] \notin again
             => state[pid[c]] # "running"
        /\ op'[c] = "stop" /\ at'[c] \in {"track", "release"} /\ pid[c] \notin again
             => seen'[c] # "running"
  /\ harnesses \subseteq harnesses' /\ \A j \in Jobs : owned[j] \subseteq owned'[j]
  /\ \A p \in Pids :
       /\ os'[p] # "free" => os[p] # "free"
       /\ inflight'[p] \in {None, inflight[p]}
       /\ p \notin again => owner'[p] \in {owner[p], starter[p]}

LEMMA MovesKeep ==
  ASSUME IInv, NEW c \in Calls, Moves(c), TypeOK'
  PROVE  Promises'
<1> USE DEF IInv
<1>1. PidsFit'
  BY DEF Moves, PidsFit
<1>2. OwnersFit'
  BY DEF Moves, OwnersFit
<1>3. CallsFit'
  BY DEF Moves, CallsFit, Lookups
<1>4. CallsAreTrue'
  <2>1. JobsKeepToTheirOwn'
    BY DEF Moves, CallsAreTrue, JobsKeepToTheirOwn, Lookups
  <2>2. StopSaysStopped'
    BY DEF Moves, CallsAreTrue, StopSaysStopped
  <2> QED BY <2>1, <2>2 DEF CallsAreTrue
<1>5. NothingEscapes'
  <2>1. SUFFICES ASSUME NEW q \in Pids \ again, starter[q] # None,
                        ~(\E d \in Calls : op'[d] = "start" /\ pid'[d] = q)
                 PROVE  /\ q \in harnesses'
                        /\ starter[q] \in Jobs => owner'[q] = starter[q] /\ q \in owned'[starter[q]]
                        /\ starter[q] = Operator => owner'[q] = None
    BY DEF NothingEscapes, Moves
  <2>2. ~(\E d \in Calls : op[d] = "start" /\ pid[d] = q)
    BY <2>1 DEF Moves
  <2>3. /\ q \in harnesses
        /\ starter[q] \in Jobs => owner[q] = starter[q] /\ q \in owned[starter[q]]
        /\ starter[q] = Operator => owner[q] = None
    BY <2>1, <2>2 DEF NothingEscapes
  <2>4. owner'[q] \in {owner[q], starter[q]} /\ owner'[q] \in Jobs \cup {None}
    BY DEF Moves, TypeOK
  <2> QED BY <2>3, <2>4, Names DEF Moves
<1> QED BY <1>1, <1>2, <1>3, <1>4, <1>5 DEF Promises

LEMMA WaysMove ==
  ASSUME IInv, NEW c \in Calls,
         \/ Kill(c) \/ StopAbandoned(c) \/ Status(c) \/ Release(c)
         \/ Track(c) /\ op[c] # "start"
  PROVE  Moves(c)
<1> USE DEF IInv
<1>1. /\ at[c] # "idle" /\ pid[c] \in Pids /\ who[c] \in Callers /\ op[c] # "start"
      /\ op[c] \in Lookups
  BY Underway DEF Kill, StopAbandoned, Status, Release, Track, CallsFit, Lookups
<1>2. CASE Kill(c)
  BY <1>1, <1>2 DEF Kill, Goes, TypeOK, CallsFit, Moves, service, history, args
<1>3. CASE StopAbandoned(c)
  BY <1>1, <1>3 DEF StopAbandoned, Goes, TypeOK, Moves, service, manager, history, Lookups
<1>4. CASE Status(c)
  <2>1. op[c] = "stop" /\ pid[c] \notin again => state[pid[c]] # "running"
    BY <1>4 DEF Status, CallsFit
  <2> QED BY <1>1, <1>4, <2>1 DEF Status, Goes, TypeOK, Moves, manager, history, args
<1>5. CASE Release(c)
  <2>1. Returns(c)
    BY <1>5 DEF Release
  <2>2. /\ at'[c] = "idle" /\ op'[c] = "none"
        /\ \A d \in Calls : d # c => /\ at'[d] = at[d] /\ op'[d] = op[d] /\ who'[d] = who[d]
                                     /\ pid'[d] = pid[d] /\ seen'[d] = seen[d]
    BY <2>1, ReturnsKeeps
  <2> QED BY <1>1, <1>5, <2>2 DEF Release, TypeOK, Moves, manager, history
<1>6. CASE Track(c) /\ op[c] # "start"
  <2>1. /\ harnesses \subseteq harnesses' /\ \A j \in Jobs : owned[j] \subseteq owned'[j]
        /\ \A p \in Pids \ again : owner'[p] \in {owner[p], starter[p]}
    <3>1. who[c] \in Jobs /\ pid[c] \notin again => starter[pid[c]] = who[c]
      BY <1>1 DEF CallsAreTrue, JobsKeepToTheirOwn, Lookups
    <3> QED BY <1>1, <1>6, <3>1 DEF Track, TrackHarness, TypeOK
  <2>2. UNCHANGED <<os, starter, again, state, inflight>>
    BY <1>6 DEF Track, history
  <2>3. CASE Returns(c)
    <3>1. /\ at'[c] = "idle" /\ op'[c] = "none"
          /\ \A d \in Calls : d # c => /\ at'[d] = at[d] /\ op'[d] = op[d] /\ who'[d] = who[d]
                                       /\ pid'[d] = pid[d] /\ seen'[d] = seen[d]
      BY <2>3, ReturnsKeeps
    <3> QED BY <1>6, <2>1, <2>2, <3>1 DEF Moves
  <2>4. CASE Goes(c, "release") /\ UNCHANGED <<args, seen, doomed>>
    <3>1. op[c] = "stop" /\ pid[c] \notin again => seen[c] # "running"
      BY <1>6 DEF Track, CallsAreTrue, StopSaysStopped
    <3> QED BY <1>1, <1>6, <2>1, <2>2, <2>4, <3>1 DEF Goes, TypeOK, Moves, args
  <2> QED BY <1>6, <2>3, <2>4 DEF Track
<1> QED BY <1>2, <1>3, <1>4, <1>5, <1>6

\* The end of a start: the job that has started the process becomes its owner.
LEMMA StartedKeeps ==
  ASSUME IInv, NEW c \in Calls, Track(c), op[c] = "start"
  PROVE  Promises'
<1> USE DEF IInv
<1> DEFINE p == pid[c]
           w == who[c]
<1>1. p \in Pids /\ w \in Callers /\ (p \notin again => starter[p] = w) /\ TrackHarness(c)
  BY Underway DEF Track, CallsFit
<1>2. /\ at'[c] = "idle" /\ op'[c] = "none"
      /\ \A d \in Calls : d # c => /\ at'[d] = at[d] /\ op'[d] = op[d] /\ who'[d] = who[d]
                                   /\ pid'[d] = pid[d] /\ seen'[d] = seen[d]
  BY ReturnsKeeps DEF Track, StartReturns
<1>3. UNCHANGED <<os, starter, again, state, inflight>>
  BY DEF Track, history
<1>4. /\ harnesses' = harnesses \cup {p}
      /\ w \in Jobs /\ p \notin again
           => owner' = [owner EXCEPT ![p] = w] /\ owned' = [owned EXCEPT ![w] = @ \cup {p}]
      /\ w \notin Jobs => UNCHANGED <<owner, owned>>
      /\ \A q \in Pids : q # p => owner'[q] = owner[q]
      /\ \A j \in Jobs : owned[j] \subseteq owned'[j]
  BY <1>1, Names DEF TrackHarness, OwnersFit, TypeOK
<1> HIDE DEF p, w
<1>5. PidsFit' /\ OwnersFit'
  BY <1>1, <1>3, <1>4 DEF PidsFit, OwnersFit, TypeOK
<1>6. CallsFit'
  BY <1>2, <1>3 DEF CallsFit
<1>7. CallsAreTrue'
  BY <1>2, <1>3 DEF CallsAreTrue, JobsKeepToTheirOwn, StopSaysStopped
<1>8. NothingEscapes'
  <2>1. SUFFICES ASSUME NEW q \in Pids \ again, starter[q] # None,
                        ~(\E d \in Calls : op'[d] = "start" /\ pid'[d] = q)
                 PROVE  /\ q \in harnesses'
                        /\ starter[q] \in Jobs => owner'[q] = starter[q] /\ q \in owned'[starter[q]]
                        /\ starter[q] = Operator => owner'[q] = None
    BY <1>3 DEF NothingEscapes
  <2>2. CASE q = p
    <3>1. w \in Jobs => owner'[p] = w /\ p \in owned'[w]
      BY <1>1, <1>4, <2>1, <2>2 DEF TypeOK
    <3>2. w = Operator => owner'[p] = None
      BY <1>1, <1>4, <2>1, <2>2, Names DEF OwnersFit, TypeOK
    <3> QED BY <1>1, <1>4, <2>2, <3>1, <3>2
  <2>3. CASE q # p
    <3>1. ~(\E d \in Calls : op[d] = "start" /\ pid[d] = q)
      BY <1>2, <2>1, <2>3 DEF p
    <3>2. /\ q \in harnesses
          /\ starter[q] \in Jobs => owner[q] = starter[q] /\ q \in owned[starter[q]]
          /\ starter[q] = Operator => owner[q] = None
      BY <2>1, <3>1 DEF NothingEscapes
    <3> QED BY <1>4, <2>3, <3>2
  <2> QED BY <2>2, <2>3
<1> QED BY <1>5, <1>6, <1>7, <1>8 DEF Promises

LEMMA ProcessesKeep ==
  ASSUME IInv, NEW p \in Pids, Exits(p) \/ KilledByContext(p) \/ Watch(p)
  PROVE  Promises'
<1> USE DEF IInv
<1>1. CASE Exits(p) \/ KilledByContext(p)
  <2>1. /\ UNCHANGED <<starter, again, state, harnesses, owner, owned, inflight, at, op, who, pid, seen>>
        /\ \A q \in Pids : os'[q] # "free" => os[q] # "free"
    BY <1>1 DEF KilledByContext, Exits, service, history, args, TypeOK
  <2> QED BY <2>1 DEF Promises, PidsFit, OwnersFit, CallsFit, CallsAreTrue,
       JobsKeepToTheirOwn, StopSaysStopped, NothingEscapes
<1>2. CASE Watch(p)
  <2>1. /\ UNCHANGED <<starter, again, harnesses, owner, owned, inflight, op, who, pid, seen>>
        /\ os[p] = "dead" /\ \A q \in Pids : os'[q] # "free" => os[q] # "free"
        /\ state'[p] \in {"stopped", "exited"} /\ \A q \in Pids : q # p => state'[q] = state[q]
        /\ \A c \in Calls : at'[c] = IF at[c] = "waiting" /\ pid[c] = p THEN "status" ELSE at[c]
    BY <1>2 DEF Watch, service, history, args, TypeOK
  <2>2. PidsFit' /\ OwnersFit'
    BY <2>1 DEF PidsFit, OwnersFit
  <2>3. CallsFit'
    <3>1. \A c \in Calls : at[c] # "idle" => pid[c] \in Pids
      BY Underway
    <3> QED BY <2>1, <3>1 DEF CallsFit
  <2>4. CallsAreTrue'
    BY <2>1 DEF CallsAreTrue, JobsKeepToTheirOwn, StopSaysStopped
  <2>5. NothingEscapes'
    BY <2>1 DEF NothingEscapes
  <2> QED BY <2>2, <2>3, <2>4, <2>5 DEF Promises
<1> QED BY <1>1, <1>2

----------------------------------------------------------------------------
(* The theorems. *)

\* Whatever jobs and operators ask for, in any order: records, owners, marks and calls
\* of a pid that is used once agree with who has started what.
THEOREM HarnessInvariant == Spec => []IInv
<1>1. Init => IInv
  BY InitHolds
<1>2. IInv /\ [Next]_vars => IInv'
  <2> SUFFICES ASSUME IInv, [Next]_vars PROVE IInv'
    OBVIOUS
  <2>1. TypeOK'
    BY StepType DEF IInv
  <2>2. ASSUME NEW c \in Calls, CallStep(c) \/ StopAbandoned(c) PROVE Promises'
    <3>1. CASE Track(c) /\ op[c] = "start"
      BY <3>1, StartedKeeps
    <3>2. CASE ~(Track(c) /\ op[c] = "start")
      <4>1. Moves(c)
        BY <2>2, <3>2, WaysMove DEF CallStep
      <4> QED BY <2>1, <4>1, MovesKeep
    <3> QED BY <3>1, <3>2
  <2>3. ASSUME UNCHANGED vars PROVE Promises'
    <3>1. UNCHANGED <<os, starter, again, state, harnesses, owner, owned, inflight, at, op, who, pid, seen>>
      BY <2>3 DEF vars, manager, history, service, history, args
    <3>2. PidsFit' /\ OwnersFit' /\ CallsFit'
      BY <3>1 DEF IInv, PidsFit, OwnersFit, CallsFit
    <3>3. CallsAreTrue' /\ NothingEscapes'
      BY <3>1 DEF IInv, CallsAreTrue, JobsKeepToTheirOwn, StopSaysStopped, NothingEscapes
    <3> QED BY <3>2, <3>3 DEF Promises
  <2>4. ASSUME NEW c \in Calls, NEW w \in Callers, NEW p \in Pids,
               Start(c, w, p) \/ \E o \in Lookups : Asks(c, o, w, p)
        PROVE  Promises'
    BY <2>4, StartKeeps, AsksKeeps
  <2>5. ASSUME NEW p \in Pids, Exits(p) \/ KilledByContext(p) \/ Watch(p) PROVE Promises'
    BY <2>5, ProcessesKeep
  <2>6. Promises'
    BY <2>2, <2>3, <2>4, <2>5 DEF Next
  <2> QED BY <2>1, <2>6 DEF IInv, Promises
<1> QED BY <1>1, <1>2, PTL DEF Spec

\* Records, owners, marks and calls have their types.
THEOREM HarnessTypeCorrect == Spec => []TypeOK
<1>1. Init => TypeOK
  BY InitHolds DEF IInv
<1>2. TypeOK /\ [Next]_vars => TypeOK'
  BY StepType
<1> QED BY <1>1, <1>2, PTL DEF Spec

\* A job's calls reach only what the job has started, and a stop says stopped, as long as
\* the pid is used once.
THEOREM CallsReachTheirOwn == Spec => []CallsAreTrue
<1>1. IInv => CallsAreTrue
  BY DEF IInv
<1> QED BY <1>1, HarnessInvariant, PTL

\* Every process of a pid that is used once is in the operator's inventory, and a job's
\* in that job's list.
THEOREM EveryProcessIsKept == Spec => []NothingEscapes
<1>1. IInv => NothingEscapes
  BY DEF IInv
<1> QED BY <1>1, HarnessInvariant, PTL

----------------------------------------------------------------------------
(* Pids that are used again. *)

\* Who has started a process is a user of its pid, until the start is tracked and after.
StartsFit ==
  \A c \in Calls : /\ at[c] = "idle" => op[c] = "none"
                   /\ op[c] = "start" => at[c] = "track" /\ who[c] \in users[pid[c]]

RInv == TypeOK /\ StartsFit /\ ReuseIsContained

LEMMA StartReuses ==
  ASSUME RInv, NEW c \in Calls, NEW w \in Callers, NEW p \in Pids, Start(c, w, p)
  PROVE  (StartsFit /\ ReuseIsContained)'
<1> USE DEF RInv
<1>1. /\ at[c] = "idle" /\ at'[c] = "track" /\ op'[c] = "start" /\ who'[c] = w /\ pid'[c] = p
      /\ \A d \in Calls : d # c => /\ at'[d] = at[d] /\ op'[d] = op[d] /\ who'[d] = who[d]
                                   /\ pid'[d] = pid[d]
  BY EntersKeeps DEF Start
<1>2. /\ UNCHANGED <<owner, owned, harnesses, inflight>>
      /\ users'[p] = users[p] \cup {w} /\ \A q \in Pids : users[q] \subseteq users'[q]
      /\ \A q \in Pids : q # p => users'[q] = users[q]
  BY DEF Start, TypeOK, service
<1>3. \A d \in Calls : op[d] # "none" => pid[d] \in Pids /\ d # c
  BY <1>1, Underway DEF StartsFit
<1>4. StartsFit'
  BY <1>1, <1>2, <1>3 DEF StartsFit
<1>5. ReuseIsContained'
  <2>1. \A d \in Calls : op'[d] \in {"get", "stop", "list"} /\ who'[d] \in Jobs
                          => who'[d] \in users'[pid'[d]]
    BY <1>1, <1>2, <1>3 DEF ReuseIsContained
  <2>2. ASSUME NEW q \in Pids
        PROVE  /\ {owner'[q], inflight'[q]} \subseteq users'[q] \cup {None}
               /\ \A j \in Jobs : q \in owned'[j] => j \in users'[q]
    BY <1>2 DEF ReuseIsContained
  <2>3. ASSUME NEW q \in Pids, users'[q] # {}
        PROVE  q \in harnesses' \/ \E d \in Calls : op'[d] = "start" /\ pid'[d] = q
    <3>1. CASE q = p
      BY <1>1, <3>1
    <3>2. CASE q # p
      <4>1. q \in harnesses \/ \E d \in Calls : op[d] = "start" /\ pid[d] = q
        BY <1>2, <2>3, <3>2 DEF ReuseIsContained
      <4> QED BY <1>1, <1>2, <1>3, <4>1
    <3> QED BY <3>1, <3>2
  <2> QED BY <2>1, <2>2, <2>3 DEF ReuseIsContained
<1> QED BY <1>4, <1>5

LEMMA AsksReuses ==
  ASSUME RInv, NEW c \in Calls, NEW o \in Lookups, NEW w \in Callers, NEW p \in Pids,
         Asks(c, o, w, p)
  PROVE  (StartsFit /\ ReuseIsContained)'
<1> USE DEF RInv
<1>1. /\ at[c] = "idle" /\ at'[c] = (IF o = "stop" THEN "kill" ELSE "status")
      /\ op'[c] = o /\ who'[c] = w /\ pid'[c] = p
      /\ \A d \in Calls : d # c => /\ at'[d] = at[d] /\ op'[d] = op[d] /\ who'[d] = who[d]
                                   /\ pid'[d] = pid[d]
  BY EntersKeeps DEF Asks
<1>2. UNCHANGED <<users, harnesses, owner, owned>>
  BY DEF Asks, manager, history
<1>3. /\ w \in Jobs => w \in users[p]
      /\ inflight' = inflight \/ (w \in users[p] /\ inflight' = [inflight EXCEPT ![p] = w])
  BY Names DEF Asks, ClaimHarness, ReuseIsContained
<1>4. StartsFit'
  BY <1>1, <1>2 DEF StartsFit, Lookups
<1>5. \A d \in Calls : op'[d] \in {"get", "stop", "list"} /\ who'[d] \in Jobs
                        => who'[d] \in users'[pid'[d]]
  BY <1>1, <1>2, <1>3 DEF ReuseIsContained
<1>6. \A q \in Pids : /\ {owner'[q], inflight'[q]} \subseteq users'[q] \cup {None}
                      /\ \A j \in Jobs : q \in owned'[j] => j \in users'[q]
  BY <1>2, <1>3 DEF ReuseIsContained, TypeOK
<1>7. \A q \in Pids : users'[q] # {}
        => q \in harnesses' \/ \E d \in Calls : op'[d] = "start" /\ pid'[d] = q
  BY <1>1, <1>2 DEF ReuseIsContained, StartsFit
<1> QED BY <1>4, <1>5, <1>6, <1>7 DEF ReuseIsContained

\* A call goes on, gives up its mark or returns; a start that ends is in the inventory.
GoesOn(c) ==
  /\ at[c] # "idle" /\ users' = users
  /\ \A d \in Calls : d # c => /\ at'[d] = at[d] /\ op'[d] = op[d] /\ who'[d] = who[d]
                               /\ pid'[d] = pid[d]
  /\ \/ op'[c] = "none" /\ (op[c] = "start" => pid[c] \in harnesses')
     \/ /\ op[c] # "start" /\ op'[c] \in Lookups /\ at'[c] # "idle"
        /\ who'[c] = who[c] /\ pid'[c] = pid[c]
  /\ harnesses \subseteq harnesses'
  /\ \A p \in Pids :
       /\ inflight'[p] \in {None, inflight[p]}
       /\ owner'[p] = owner[p] \/ owner'[p] \in users[p]
       /\ \A j \in Jobs : p \in owned'[j] => p \in owned[j] \/ j \in users[p]

LEMMA GoesOnReuses ==
  ASSUME RInv, NEW c \in Calls, GoesOn(c)
  PROVE  (StartsFit /\ ReuseIsContained)'
<1> USE DEF RInv
<1>1. op[c] \in Lookups \cup {"start"}
  BY Underway DEF GoesOn, Lookups
<1>2. StartsFit'
  BY <1>1 DEF GoesOn, StartsFit, Lookups
<1>3. \A d \in Calls : op'[d] \in {"get", "stop", "list"} /\ who'[d] \in Jobs
                        => who'[d] \in users'[pid'[d]]
  <2>1. \A d \in Calls : d # c => (op'[d] \in {"get", "stop", "list"} /\ who'[d] \in Jobs
                                    => who'[d] \in users'[pid'[d]])
    BY DEF GoesOn, ReuseIsContained
  <2>2. op'[c] \in {"get", "stop", "list"} /\ who'[c] \in Jobs => who'[c] \in users'[pid'[c]]
    BY <1>1 DEF GoesOn, ReuseIsContained, Lookups
  <2> QED BY <2>1, <2>2
<1>4. \A q \in Pids : /\ {owner'[q], inflight'[q]} \subseteq users'[q] \cup {None}
                      /\ \A j \in Jobs : q \in owned'[j] => j \in users'[q]
  BY DEF GoesOn, ReuseIsContained
<1>5. ASSUME NEW q \in Pids, users'[q] # {}
      PROVE  q \in harnesses' \/ \E d \in Calls : op'[d] = "start" /\ pid'[d] = q
  <2>1. q \in harnesses \/ \E d \in Calls : op[d] = "start" /\ pid[d] = q
    BY <1>5 DEF GoesOn, ReuseIsContained
  <2>2. CASE q \in harnesses
    BY <2>2 DEF GoesOn
  <2>3. CASE \E d \in Calls : op[d] = "start" /\ pid[d] = q
    <3>1. PICK d \in Calls : op[d] = "start" /\ pid[d] = q
      BY <2>3
    <3>2. CASE d = c
      BY <3>1, <3>2 DEF GoesOn
    <3>3. CASE d # c
      BY <3>1, <3>3 DEF GoesOn
    <3> QED BY <3>2, <3>3
  <2> QED BY <2>1, <2>2, <2>3
<1> QED BY <1>2, <1>3, <1>4, <1>5 DEF ReuseIsContained

LEMMA CallsGoOn ==
  ASSUME RInv, NEW c \in Calls, CallStep(c) \/ StopAbandoned(c)
  PROVE  GoesOn(c)
<1> USE DEF RInv
<1>1. /\ at[c] # "idle" /\ pid[c] \in Pids /\ who[c] \in Callers
      /\ op[c] \in Lookups \cup {"start"} /\ (at[c] # "track" => op[c] \in Lookups)
  BY Underway DEF CallStep, Kill, StopAbandoned, Status, Release, Track, StartsFit, Lookups
<1>2. CASE Kill(c) \/ StopAbandoned(c)
  BY <1>1, <1>2 DEF Kill, StopAbandoned, Goes, TypeOK, GoesOn, service, manager, history, args, Lookups
<1>3. CASE Status(c)
  BY <1>1, <1>3 DEF Status, Goes, TypeOK, GoesOn, manager, history, args, Lookups
<1>4. CASE Release(c)
  <2>1. /\ op'[c] = "none"
        /\ \A d \in Calls : d # c => /\ at'[d] = at[d] /\ op'[d] = op[d] /\ who'[d] = who[d]
                                     /\ pid'[d] = pid[d]
    BY <1>4, ReturnsKeeps DEF Release
  <2> QED BY <1>1, <1>4, <2>1 DEF Release, TypeOK, GoesOn, manager, history, Lookups
<1>5. CASE Track(c)
  <2>1. who[c] \in Jobs => who[c] \in users[pid[c]]
    BY <1>1 DEF ReuseIsContained, StartsFit, Lookups
  <2>2. /\ harnesses' = harnesses \cup {pid[c]} /\ users' = users /\ inflight' = inflight
        /\ \A p \in Pids : /\ owner'[p] = owner[p] \/ owner'[p] \in users[p]
                           /\ \A j \in Jobs : p \in owned'[j] => p \in owned[j] \/ j \in users[p]
    BY <1>1, <1>5, <2>1 DEF Track, TrackHarness, TypeOK, history
  <2>3. CASE Returns(c)
    <3>1. /\ op'[c] = "none"
          /\ \A d \in Calls : d # c => /\ at'[d] = at[d] /\ op'[d] = op[d] /\ who'[d] = who[d]
                                       /\ pid'[d] = pid[d]
      BY <2>3, ReturnsKeeps
    <3> QED BY <1>1, <2>2, <3>1 DEF GoesOn
  <2>4. CASE op[c] \in Lookups /\ Goes(c, "release") /\ UNCHANGED args
    BY <1>1, <2>2, <2>4 DEF Goes, TypeOK, GoesOn, args, Lookups
  <2> QED BY <1>5, <2>3, <2>4 DEF Track, StartReturns, Lookups
<1> QED BY <1>2, <1>3, <1>4, <1>5 DEF CallStep

\* Even when pids are used again, a job reaches only pids it has once started, and the
\* operator's inventory has every one (trackHarnessHandle, claimHarness).
THEOREM ReusedPidsStayKnown == Spec => []ReuseIsContained
<1>1. Init => RInv
  BY InitHolds DEF Init, IInv, RInv, StartsFit, ReuseIsContained
<1>2. RInv /\ [Next]_vars => RInv'
  <2> SUFFICES ASSUME RInv, [Next]_vars PROVE RInv'
    OBVIOUS
  <2>1. TypeOK'
    BY StepType DEF RInv
  <2>2. ASSUME NEW c \in Calls, CallStep(c) \/ StopAbandoned(c)
        PROVE  (StartsFit /\ ReuseIsContained)'
    BY <2>2, CallsGoOn, GoesOnReuses
  <2>3. ASSUME NEW c \in Calls, NEW w \in Callers, NEW p \in Pids,
               Start(c, w, p) \/ \E o \in Lookups : Asks(c, o, w, p)
        PROVE  (StartsFit /\ ReuseIsContained)'
    BY <2>3, StartReuses, AsksReuses
  <2>4. ASSUME \/ UNCHANGED vars
               \/ \E p \in Pids : Exits(p) \/ KilledByContext(p) \/ Watch(p)
        PROVE  (StartsFit /\ ReuseIsContained)'
    <3>1. /\ UNCHANGED <<users, harnesses, owner, owned, inflight, op, who, pid>>
          /\ \A c \in Calls : at'[c] = at[c] \/ (at[c] = "waiting" /\ at'[c] = "status")
      BY <2>4 DEF vars, Exits, KilledByContext, Watch, manager, history, service, history, args, RInv, TypeOK
    <3>2. StartsFit'
      BY <3>1 DEF RInv, StartsFit
    <3> QED BY <3>1, <3>2 DEF RInv, ReuseIsContained
  <2> QED BY <2>1, <2>2, <2>3, <2>4 DEF Next, RInv
<1>3. RInv => ReuseIsContained
  BY DEF RInv
<1> QED BY <1>1, <1>2, <1>3, PTL DEF Spec
=============================================================================
