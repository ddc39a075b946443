-------------------------- MODULE Background_proofs --------------------------
(***************************************************************************)
(* Proofs about Background, for every finite set of jobs and every number  *)
(* of recovery slots.                                                      *)
(***************************************************************************)
EXTENDS Background, FiniteSetTheorems, SequenceTheorems, TLAPS

----------------------------------------------------------------------------
(* The inductive invariant. *)

Active     == {j \in Jobs : run[j] # "none"}
Recovering == {j \in Jobs : recovered[j]}
Scheduling == sched \in {"waiting", "holding"}

\* Shutdown is asked for after recovery has begun, and nothing runs before.
Stages ==
  /\ stage = "serving" <=> ~closed
  /\ closed => sched # "never"
  /\ sched = "never" => \A j \in Jobs : run[j] = "none"
  /\ \A j \in Jobs : recovered[j] => run[j] \notin {"none", "reserved"}
  /\ stage = "down" => listed = {}

\* What the scheduler has queued is queued once and runs nowhere yet; a job that
\* is started afresh had no file, and so is not among it.
QueueWaits ==
  Scheduling =>
    /\ queue # <<>>
    /\ \A i \in 1 .. Len(queue) :
         /\ run[queue[i]] = "none" /\ file[queue[i]] # "none"
         /\ \A k \in 1 .. Len(queue) : queue[i] = queue[k] => i = k

\* Since the listing, every job of this service is either listed or touched.
OwnedIsListed ==
  Listing => \A j \in Jobs : file[j] = "ours" => j \in listed \cup touched

\* The counters.
Counted == WaitGroupExact /\ RecoveryBound

IInv == TypeOK /\ Stages /\ QueueWaits /\ Counted /\ QuietAfterWait /\ OwnedIsListed

----------------------------------------------------------------------------
(* Counting jobs. *)

LEMMA JobsAreFinite ==
  /\ IsFiniteSet(Active) /\ Cardinality(Active) \in Nat
  /\ IsFiniteSet(Recovering) /\ Cardinality(Recovering) \in Nat
  /\ IsFiniteSet(Active') /\ Cardinality(Active') \in Nat
  /\ IsFiniteSet(Recovering') /\ Cardinality(Recovering') \in Nat
<1>1. \A S \in SUBSET Jobs : IsFiniteSet(S) /\ Cardinality(S) \in Nat
  BY BackgroundAssumption, FS_Subset, FS_CardinalityType
<1>2. /\ Active \in SUBSET Jobs /\ Recovering \in SUBSET Jobs
      /\ Active' \in SUBSET Jobs /\ Recovering' \in SUBSET Jobs
  BY DEF Active, Recovering
<1> QED BY <1>1, <1>2

LEMMA ActiveGrows ==
  ASSUME TypeOK, NEW j \in Jobs, run[j] = "none",
         NEW s, s # "none", run' = [run EXCEPT ![j] = s]
  PROVE  Cardinality(Active') = Cardinality(Active) + 1
<1>1. Active' = Active \cup {j} /\ j \notin Active
  BY DEF Active, TypeOK
<1> QED BY <1>1, JobsAreFinite, FS_AddElement

LEMMA ActiveShrinks ==
  ASSUME TypeOK, NEW j \in Jobs, run[j] # "none", run' = [run EXCEPT ![j] = "none"]
  PROVE  Cardinality(Active') = Cardinality(Active) - 1
<1>1. Active' = Active \ {j} /\ j \in Active
  BY DEF Active, TypeOK
<1> QED BY <1>1, JobsAreFinite, FS_RemoveElement

LEMMA ActiveStays ==
  ASSUME TypeOK, NEW j \in Jobs, run[j] # "none",
         NEW s, s # "none", run' = [run EXCEPT ![j] = s]
  PROVE  Cardinality(Active') = Cardinality(Active)
<1>1. Active' = Active
  BY DEF Active, TypeOK
<1> QED BY <1>1

LEMMA RecoveringGrows ==
  ASSUME TypeOK, NEW j \in Jobs, ~recovered[j], recovered' = [recovered EXCEPT ![j] = TRUE]
  PROVE  Cardinality(Recovering') = Cardinality(Recovering) + 1
<1>1. Recovering' = Recovering \cup {j} /\ j \notin Recovering
  BY DEF Recovering, TypeOK
<1> QED BY <1>1, JobsAreFinite, FS_AddElement

LEMMA RecoveringShrinks ==
  ASSUME TypeOK, NEW j \in Jobs, recovered' = [recovered EXCEPT ![j] = FALSE]
  PROVE  Cardinality(Recovering')
           = Cardinality(Recovering) - (IF recovered[j] THEN 1 ELSE 0)
<1>1. Recovering' = Recovering \ {j} /\ (j \in Recovering <=> recovered[j])
  BY DEF Recovering, TypeOK
<1>2. Cardinality(Recovering') = IF j \in Recovering THEN Cardinality(Recovering) - 1
                                                     ELSE Cardinality(Recovering)
  BY <1>1, JobsAreFinite, FS_RemoveElement
<1> QED BY <1>1, <1>2, JobsAreFinite

----------------------------------------------------------------------------
(* The counters.  One case per action that moves a task or a slot. *)

LEMMA CountedMeans ==
  Counted <=> /\ wg = Cardinality(Active) + (IF Scheduling THEN 1 ELSE 0)
              /\ Cardinality(Recovering) + (IF sched = "holding" THEN 1 ELSE 0) = slots
              /\ slots <= Slots
  BY DEF Counted, WaitGroupExact, RecoveryBound, Active, Recovering, Scheduling

LEMMA CountedMeansPrimed ==
  Counted' <=> /\ wg' = Cardinality(Active') + (IF Scheduling' THEN 1 ELSE 0)
               /\ Cardinality(Recovering') + (IF sched' = "holding" THEN 1 ELSE 0) = slots'
               /\ slots' <= Slots
  BY DEF Counted, WaitGroupExact, RecoveryBound, Active, Recovering, Scheduling

LEMMA SameJobs ==
  /\ UNCHANGED run => Active' = Active
  /\ UNCHANGED recovered => Recovering' = Recovering
  BY DEF Active, Recovering

LEMMA EndedCounted ==
  ASSUME TypeOK, Counted, NEW j \in Jobs, run[j] # "none", TaskEnds(j)
  PROVE  Counted'
<1>1. Cardinality(Active') = Cardinality(Active) - 1
  BY ActiveShrinks DEF TaskEnds
<1>2. Cardinality(Recovering')
        = Cardinality(Recovering) - (IF recovered[j] THEN 1 ELSE 0)
  BY RecoveringShrinks DEF TaskEnds
<1>3. /\ wg' = wg - 1 /\ sched' = sched
      /\ slots' = IF recovered[j] THEN slots - 1 ELSE slots
  BY DEF TaskEnds
<1>4. Scheduling' = Scheduling
  BY <1>3 DEF Scheduling
<1>5. Slots \in Nat /\ wg \in Nat /\ slots \in Nat
  BY BackgroundAssumption DEF TypeOK
<1> QED BY <1>1, <1>2, <1>3, <1>4, <1>5, CountedMeans, CountedMeansPrimed, JobsAreFinite

LEMMA StepCounted ==
  ASSUME TypeOK, Stages, QueueWaits, Counted, [Next]_vars
  PROVE  Counted'
<1>0. Slots \in Nat /\ wg \in Nat /\ slots \in Nat
  BY BackgroundAssumption DEF TypeOK
<1>a. /\ wg = Cardinality(Active) + (IF Scheduling THEN 1 ELSE 0)
      /\ Cardinality(Recovering) + (IF sched = "holding" THEN 1 ELSE 0) = slots
      /\ slots <= Slots
  BY CountedMeans
<1>1. ASSUME NEW q \in RecoveryLists, RecoverJobs(q) PROVE Counted'
  <2>1. Active' = Active /\ Recovering' = Recovering /\ slots' = slots
    BY <1>1, SameJobs DEF RecoverJobs
  <2>2. ~Scheduling /\ sched # "holding" /\ sched' # "holding"
    BY <1>1 DEF RecoverJobs, Scheduling
  <2>3. wg' = wg + (IF Scheduling' THEN 1 ELSE 0)
    BY <1>1, <1>0 DEF RecoverJobs, ReserveBackgroundTask, Scheduling
  <2> QED BY <1>0, <1>a, <2>1, <2>2, <2>3, CountedMeansPrimed, JobsAreFinite
<1>2. ASSUME NEW j \in Jobs, StartAsync(j) PROVE Counted'
  <2>1. Cardinality(Active') = Cardinality(Active) + 1
    BY <1>2, ActiveGrows DEF StartAsync
  <2>2. /\ Recovering' = Recovering /\ slots' = slots /\ sched' = sched
        /\ Scheduling' = Scheduling /\ wg' = wg + 1
    BY <1>2, SameJobs DEF StartAsync, ReserveBackgroundTask, recovery, Scheduling
  <2> QED BY <1>0, <1>a, <2>1, <2>2, CountedMeansPrimed, JobsAreFinite
<1>3. ASSUME NEW j \in Jobs, SavePrepared(j) PROVE Counted'
  <2>1. /\ Recovering' = Recovering /\ slots' = slots /\ sched' = sched
        /\ Scheduling' = Scheduling
    BY <1>3, SameJobs DEF SavePrepared, recovery, Scheduling
  <2>2. CASE run' = [run EXCEPT ![j] = "launched"] /\ UNCHANGED wg
    <3>1. Cardinality(Active') = Cardinality(Active)
      BY <1>3, <2>2, ActiveStays DEF SavePrepared
    <3> QED BY <1>0, <1>a, <2>1, <2>2, <3>1, CountedMeansPrimed, JobsAreFinite
  <2>3. CASE run' = [run EXCEPT ![j] = "none"] /\ wg' = wg - 1
    <3>1. Cardinality(Active') = Cardinality(Active) - 1
      BY <1>3, <2>3, ActiveShrinks DEF SavePrepared
    <3> QED BY <1>0, <1>a, <2>1, <2>3, <3>1, CountedMeansPrimed, JobsAreFinite
  <2> QED BY <1>3, <2>2, <2>3 DEF SavePrepared
<1>4. ASSUME NEW j \in Jobs, RunSuppressed(j) \/ RunReturns(j) PROVE Counted'
  BY <1>4, EndedCounted DEF RunSuppressed, RunReturns
<1>5. ASSUME NEW j \in Jobs, RunBegins(j) \/ RunEnds(j) PROVE Counted'
  <2>1. Cardinality(Active') = Cardinality(Active)
    BY <1>5, ActiveStays DEF RunBegins, RunEnds
  <2>2. /\ Recovering' = Recovering /\ slots' = slots /\ sched' = sched
        /\ Scheduling' = Scheduling /\ wg' = wg
    BY <1>5, SameJobs DEF RunBegins, RunEnds, recovery, Scheduling
  <2> QED BY <1>0, <1>a, <2>1, <2>2, CountedMeansPrimed, JobsAreFinite
<1>6. CASE TakeSlot
  <2>1. Active' = Active /\ Recovering' = Recovering /\ wg' = wg /\ slots' = slots + 1
    BY <1>6, SameJobs DEF TakeSlot
  <2>2. Scheduling /\ Scheduling' /\ sched = "waiting" /\ sched' = "holding" /\ slots < Slots
    BY <1>6 DEF TakeSlot, Scheduling
  <2> QED BY <1>0, <1>a, <2>1, <2>2, CountedMeansPrimed, JobsAreFinite
<1>7. CASE LaunchRecovered
  <2> DEFINE j == Head(queue)
  <2>1. queue \in Seq(Jobs) /\ queue # <<>>
    BY <1>7 DEF LaunchRecovered, QueueWaits, Scheduling, TypeOK
  <2>2. j \in Jobs /\ j = queue[1] /\ 1 \in 1 .. Len(queue)
    BY <2>1, HeadTailProperties, EmptySeq
  <2>3. run[j] = "none" /\ ~recovered[j]
    BY <1>7, <2>2 DEF LaunchRecovered, QueueWaits, Scheduling, Stages
  <2>4. Cardinality(Active') = Cardinality(Active) + 1
    BY <1>7, <2>2, <2>3, ActiveGrows DEF LaunchRecovered
  <2>5. Cardinality(Recovering') = Cardinality(Recovering) + 1
    BY <1>7, <2>2, <2>3, RecoveringGrows DEF LaunchRecovered
  <2>6. /\ Scheduling /\ sched = "holding" /\ sched' # "holding" /\ slots' = slots
        /\ wg' = wg + (IF Scheduling' THEN 1 ELSE 0)
    BY <1>7, <1>0 DEF LaunchRecovered, Scheduling
  <2> QED BY <1>0, <1>a, <2>4, <2>5, <2>6, CountedMeansPrimed, JobsAreFinite
<1>8. CASE LaunchRefused
  <2>1. Active' = Active /\ Recovering' = Recovering /\ wg' = wg - 1 /\ slots' = slots - 1
    BY <1>8, SameJobs DEF LaunchRefused
  <2>2. Scheduling /\ ~Scheduling' /\ sched = "holding" /\ sched' # "holding"
    BY <1>8 DEF LaunchRefused, Scheduling
  <2> QED BY <1>0, <1>a, <2>1, <2>2, CountedMeansPrimed, JobsAreFinite
<1>9. CASE UNCHANGED <<wg, sched, slots, run, recovered>>
  BY <1>9, <1>a, SameJobs, CountedMeansPrimed DEF Scheduling
<1> QED
  <2>1. CASE Close \/ ShutdownStep \/ \E j \in Jobs : RunSaves(j) \/ OperatorStep(j)
    BY <1>9, <2>1 DEF Close, ShutdownStep, WaitThenList, Down, InterruptOwned, RunSaves,
       OperatorStep, OperatorCloses, OperatorReopens, OperatorRunSuppressed,
       OperatorRunBegins, OperatorRunSaves, OperatorRunEnds, OperatorRunReturns, recovery
  <2>2. CASE UNCHANGED vars
    BY <1>9, <2>2 DEF vars, recovery
  <2> QED
    BY <1>1, <1>2, <1>3, <1>4, <1>5, <1>6, <1>7, <1>8, <2>1, <2>2
       DEF Next, RunStep, SchedulerStep

----------------------------------------------------------------------------
(* Types, but for the two counters, which follow from the counting. *)

TypeRest ==
  /\ stage \in {"serving", "waiting", "sweeping", "down"}
  /\ closed \in BOOLEAN
  /\ sched \in {"never", "waiting", "holding", "off"}
  /\ queue \in Seq(Jobs)
  /\ file \in [Jobs -> Files]
  /\ run \in [Jobs -> RunPlaces]
  /\ recovered \in [Jobs -> BOOLEAN]
  /\ op \in [Jobs -> RunPlaces \ {"reserved"}]
  /\ listed \subseteq Jobs /\ touched \subseteq Jobs

LEMMA Reservations == RunPlaces = {"none", "reserved", "launched", "running", "ending"}
  BY DEF RunPlaces

\* A list of jobs to recover is a sequence of jobs that have a file, without repeats.
LEMMA ListsAreSequences ==
  ASSUME NEW q \in RecoveryLists
  PROVE  /\ q \in Seq(Jobs)
         /\ \A i \in 1 .. Len(q) : file[q[i]] = "theirs"
         /\ \A i, k \in 1 .. Len(q) : q[i] = q[k] => i = k
<1> DEFINE left == {j \in Jobs : file[j] = "theirs"}
<1>1. PICK n \in 0 .. Cardinality(left) :
        q \in [1 .. n -> left] /\ \A i, k \in 1 .. n : q[i] = q[k] => i = k
  BY DEF RecoveryLists
<1>2. Cardinality(left) \in Nat
  <2>1. left \in SUBSET Jobs
    OBVIOUS
  <2> QED BY <2>1, BackgroundAssumption, FS_Subset, FS_CardinalityType
<1>3. n \in Nat
  BY <1>2
<1>4. q \in Seq(left) /\ Len(q) = n
  BY <1>1, <1>3
<1>5. q \in Seq(Jobs)
  BY <1>1, <1>3
<1> QED BY <1>1, <1>4, <1>5

LEMMA StepRest ==
  ASSUME TypeOK, QueueWaits, [Next]_vars
  PROVE  TypeRest'
<1>1. ASSUME NEW q \in RecoveryLists, RecoverJobs(q) PROVE TypeRest'
  BY <1>1, ListsAreSequences DEF RecoverJobs, TypeOK, TypeRest, shutdown
<1>2. ASSUME NEW j \in Jobs, StartAsync(j) \/ SavePrepared(j) PROVE TypeRest'
  BY <1>2 DEF StartAsync, SavePrepared, TypeOK, TypeRest, shutdown, recovery, Files, Busy,
     RunPlaces
<1>3. ASSUME NEW j \in Jobs, RunSuppressed(j) \/ RunReturns(j) PROVE TypeRest'
  BY <1>3 DEF RunSuppressed, RunReturns, TaskEnds, TypeOK, TypeRest, shutdown, RunPlaces
<1>4. ASSUME NEW j \in Jobs, RunBegins(j) \/ RunEnds(j) \/ RunSaves(j) PROVE TypeRest'
  BY <1>4 DEF RunBegins, RunEnds, RunSaves, TypeOK, TypeRest, shutdown, recovery, Files,
     Busy, RunPlaces
<1>5. CASE TakeSlot \/ LaunchRefused
  BY <1>5 DEF TakeSlot, LaunchRefused, TypeOK, TypeRest, shutdown
<1>6. CASE LaunchRecovered
  <2>1. queue \in Seq(Jobs) /\ queue # <<>>
    BY <1>6 DEF LaunchRecovered, QueueWaits, Scheduling, TypeOK
  <2>2. Head(queue) \in Jobs /\ Tail(queue) \in Seq(Jobs)
    BY <2>1, HeadTailProperties
  <2> QED BY <1>6, <2>2 DEF LaunchRecovered, TypeOK, TypeRest, shutdown, RunPlaces
<1>7. ASSUME NEW j \in Jobs, OperatorCloses(j) \/ OperatorReopens(j) \/ OperatorRunSuppressed(j)
      PROVE  TypeRest'
  BY <1>7 DEF OperatorCloses, OperatorReopens, OperatorRunSuppressed, Writes, TypeOK, TypeRest,
     shutdown, recovery, Files, Busy, RunPlaces
<1>8. ASSUME NEW j \in Jobs, \/ OperatorRunBegins(j) \/ OperatorRunSaves(j)
                             \/ OperatorRunEnds(j) \/ OperatorRunReturns(j)
      PROVE  TypeRest'
  BY <1>8 DEF OperatorRunBegins, OperatorRunSaves, OperatorRunEnds, OperatorRunReturns, Writes,
     TypeOK, TypeRest, shutdown, recovery, Files, Busy, RunPlaces
<1>9. CASE Close \/ ShutdownStep
  BY <1>9 DEF Close, ShutdownStep, WaitThenList, InterruptOwned, Down, TypeOK, TypeRest,
     recovery, Files, Busy
<1>10. CASE UNCHANGED vars
  BY <1>10 DEF vars, shutdown, recovery, TypeOK, TypeRest
<1> QED
  BY <1>1, <1>2, <1>3, <1>4, <1>5, <1>6, <1>7, <1>8, <1>9, <1>10
     DEF Next, RunStep, SchedulerStep, OperatorStep

LEMMA StepType ==
  ASSUME TypeOK, Stages, QueueWaits, Counted, [Next]_vars
  PROVE  TypeOK'
<1>1. TypeRest'
  BY StepRest
<1>2. Counted'
  BY StepCounted
<1>3. wg' \in Nat /\ slots' \in Nat /\ slots' <= Slots
  BY <1>2, CountedMeansPrimed, JobsAreFinite
<1>4. slots' \in 0 .. Slots
  BY <1>3, BackgroundAssumption
<1> QED BY <1>1, <1>3, <1>4 DEF TypeRest, TypeOK

----------------------------------------------------------------------------
(* Stages, queue, shutdown. *)

LEMMA StepStages ==
  ASSUME TypeOK, Stages, QueueWaits, [Next]_vars
  PROVE  Stages'
<1>1. ASSUME NEW q \in RecoveryLists, RecoverJobs(q) PROVE Stages'
  BY <1>1 DEF RecoverJobs, Stages, shutdown
<1>2. ASSUME NEW j \in Jobs, StartAsync(j) \/ SavePrepared(j) PROVE Stages'
  BY <1>2 DEF StartAsync, SavePrepared, Stages, TypeOK, shutdown, recovery
<1>3. ASSUME NEW j \in Jobs, RunSuppressed(j) \/ RunReturns(j) PROVE Stages'
  BY <1>3 DEF RunSuppressed, RunReturns, TaskEnds, Stages, TypeOK, shutdown
<1>4. ASSUME NEW j \in Jobs, RunBegins(j) \/ RunEnds(j) PROVE Stages'
  BY <1>4 DEF RunBegins, RunEnds, Stages, TypeOK, shutdown, recovery
<1>5. CASE TakeSlot \/ LaunchRefused
  BY <1>5 DEF TakeSlot, LaunchRefused, Stages, shutdown
<1>6. CASE LaunchRecovered
  <2>1. queue \in Seq(Jobs) /\ queue # <<>>
    BY <1>6 DEF LaunchRecovered, QueueWaits, Scheduling, TypeOK
  <2>2. Head(queue) \in Jobs
    BY <2>1, HeadTailProperties
  <2> QED BY <1>6, <2>2 DEF LaunchRecovered, Stages, TypeOK, shutdown
<1>7. CASE Close \/ ShutdownStep
  BY <1>7 DEF Close, ShutdownStep, WaitThenList, InterruptOwned, Down, Stages, recovery, TypeOK
<1>8. CASE UNCHANGED <<shutdown, sched, run, recovered>>
  BY <1>8 DEF Stages, shutdown
<1>9. ASSUME NEW j \in Jobs, RunSaves(j) \/ OperatorStep(j) PROVE Stages'
  BY <1>9, <1>8 DEF RunSaves, OperatorStep, OperatorCloses, OperatorReopens,
     OperatorRunSuppressed, OperatorRunBegins, OperatorRunSaves, OperatorRunEnds,
     OperatorRunReturns, shutdown, recovery
<1>10. CASE UNCHANGED vars
  BY <1>10, <1>8 DEF vars, shutdown, recovery
<1> QED
  BY <1>1, <1>2, <1>3, <1>4, <1>5, <1>6, <1>7, <1>9, <1>10 DEF Next, RunStep, SchedulerStep

\* Whoever does not touch the queue only has to leave queued jobs alone.
LEMMA QueueLeftAlone ==
  ASSUME TypeOK, QueueWaits, UNCHANGED queue, Scheduling' => Scheduling,
         \A j \in Jobs : run[j] = "none" /\ file[j] # "none"
                           => run'[j] = "none" /\ file'[j] # "none"
  PROVE  QueueWaits'
<1>1. queue \in Seq(Jobs)
  BY DEF TypeOK
<1>2. \A i \in 1 .. Len(queue) : queue[i] \in Jobs
  BY <1>1, ElementOfSeq
<1> QED BY <1>2 DEF QueueWaits

LEMMA StepQueue ==
  ASSUME TypeOK, Stages, QueueWaits, [Next]_vars
  PROVE  QueueWaits'
<1>1. ASSUME NEW q \in RecoveryLists, RecoverJobs(q) PROVE QueueWaits'
  <2>1. /\ q \in Seq(Jobs)
        /\ \A i \in 1 .. Len(q) : file[q[i]] = "theirs"
        /\ \A i, k \in 1 .. Len(q) : q[i] = q[k] => i = k
    BY ListsAreSequences
  <2>2. \A j \in Jobs : run[j] = "none"
    BY <1>1 DEF RecoverJobs, Stages
  <2>3. \A i \in 1 .. Len(q) : q[i] \in Jobs
    BY <2>1, ElementOfSeq
  <2>4. /\ queue' = q /\ run' = run /\ file' = file
        /\ Scheduling' => q # <<>>
    BY <1>1 DEF RecoverJobs, Scheduling
  <2> QED BY <2>1, <2>2, <2>3, <2>4 DEF QueueWaits
<1>2. ASSUME NEW j \in Jobs, \/ StartAsync(j) \/ SavePrepared(j) \/ RunStep(j) \/ RunSaves(j)
                             \/ OperatorStep(j)
      PROVE  QueueWaits'
  <2>1. UNCHANGED <<queue, sched>>
    BY <1>2 DEF StartAsync, SavePrepared, RunStep, RunSuppressed, RunBegins, RunEnds, RunReturns,
       TaskEnds, RunSaves, OperatorStep, OperatorCloses, OperatorReopens, OperatorRunSuppressed,
       OperatorRunBegins, OperatorRunSaves, OperatorRunEnds, OperatorRunReturns, recovery
  <2>2. ASSUME NEW k \in Jobs, run[k] = "none", file[k] # "none"
        PROVE  run'[k] = "none" /\ file'[k] # "none"
    <3>1. CASE StartAsync(j) \/ SavePrepared(j) \/ RunStep(j) \/ RunSaves(j)
      BY <2>2, <3>1 DEF StartAsync, SavePrepared, RunStep, RunSuppressed, RunBegins, RunEnds,
         RunReturns, TaskEnds, RunSaves, TypeOK
    <3>2. CASE OperatorStep(j)
      BY <2>2, <3>2 DEF OperatorStep, OperatorCloses, OperatorReopens, OperatorRunSuppressed,
         OperatorRunBegins, OperatorRunSaves, OperatorRunEnds, OperatorRunReturns, Writes, TypeOK
    <3> QED BY <1>2, <3>1, <3>2
  <2> QED BY <2>1, <2>2, QueueLeftAlone DEF Scheduling
<1>3. CASE TakeSlot \/ LaunchRefused
  BY <1>3, QueueLeftAlone DEF TakeSlot, LaunchRefused, Scheduling
<1>4. CASE LaunchRecovered
  <2>1. queue \in Seq(Jobs) /\ queue # <<>> /\ Scheduling
    BY <1>4 DEF LaunchRecovered, QueueWaits, Scheduling, TypeOK
  <2>2. /\ Head(queue) = queue[1] /\ Len(queue) \in Nat /\ 1 \in 1 .. Len(queue)
        /\ Tail(queue) \in Seq(Jobs) /\ Len(Tail(queue)) = Len(queue) - 1
        /\ \A i \in 1 .. Len(Tail(queue)) : Tail(queue)[i] = queue[i + 1]
    BY <2>1, HeadTailProperties, EmptySeq
  <2>3. \A i \in 1 .. Len(queue) : queue[i] \in Jobs
    BY <2>1, ElementOfSeq
  <2>4. ASSUME NEW i \in 1 .. Len(Tail(queue))
        PROVE  /\ run'[Tail(queue)[i]] = "none" /\ file'[Tail(queue)[i]] # "none"
               /\ \A k \in 1 .. Len(Tail(queue)) : Tail(queue)[i] = Tail(queue)[k] => i = k
    <3>1. i + 1 \in 1 .. Len(queue) /\ i + 1 # 1 /\ Tail(queue)[i] = queue[i + 1]
      BY <2>2
    <3>2. /\ run[queue[i + 1]] = "none" /\ file[queue[i + 1]] # "none"
          /\ queue[i + 1] # Head(queue) /\ queue[i + 1] \in Jobs
      BY <2>1, <2>2, <2>3, <3>1 DEF QueueWaits
    <3>3. run'[queue[i + 1]] = "none" /\ file' = file
      BY <1>4, <3>2 DEF LaunchRecovered, TypeOK
    <3>4. ASSUME NEW k \in 1 .. Len(Tail(queue)), Tail(queue)[i] = Tail(queue)[k] PROVE i = k
      <4>1. k + 1 \in 1 .. Len(queue) /\ queue[i + 1] = queue[k + 1]
        BY <2>2, <3>1, <3>4
      <4>2. i + 1 = k + 1
        BY <2>1, <3>1, <4>1 DEF QueueWaits
      <4> QED BY <2>2, <4>2
    <3> QED BY <3>1, <3>2, <3>3, <3>4
  <2>5. queue' = Tail(queue) /\ (Scheduling' => queue' # <<>>)
    BY <1>4 DEF LaunchRecovered, Scheduling
  <2> QED BY <2>4, <2>5 DEF QueueWaits
<1>5. CASE Close \/ WaitThenList \/ Down \/ UNCHANGED vars
  BY <1>5, QueueLeftAlone DEF Close, WaitThenList, Down, vars, recovery, Scheduling
<1>6. ASSUME NEW j \in Jobs, InterruptOwned(j) PROVE QueueWaits'
  <2>1. \A k \in Jobs : file[k] # "none" => file'[k] # "none"
    BY <1>6 DEF InterruptOwned, TypeOK
  <2> QED BY <1>6, <2>1, QueueLeftAlone DEF InterruptOwned, recovery, Scheduling
<1> QED
  BY <1>1, <1>2, <1>3, <1>4, <1>5, <1>6 DEF Next, SchedulerStep, ShutdownStep

LEMMA ListingBegins ==
  ASSUME [Next]_vars
  PROVE  Listing' => Listing \/ WaitThenList
<1>1. CASE Close \/ ShutdownStep
  BY <1>1 DEF Close, ShutdownStep, WaitThenList, InterruptOwned, Down, Listing
<1>2. CASE UNCHANGED stage
  BY <1>2 DEF Listing
<1>3. ASSUME NEW j \in Jobs, \/ StartAsync(j) \/ SavePrepared(j) \/ RunStep(j) \/ RunSaves(j)
                             \/ OperatorStep(j)
      PROVE  UNCHANGED stage
  BY <1>3 DEF StartAsync, SavePrepared, RunStep, RunSuppressed, RunBegins, RunEnds, RunReturns,
     TaskEnds, RunSaves, OperatorStep, OperatorCloses, OperatorReopens, OperatorRunSuppressed,
     OperatorRunBegins, OperatorRunSaves, OperatorRunEnds, OperatorRunReturns, shutdown
<1>4. CASE SchedulerStep \/ (\E q \in RecoveryLists : RecoverJobs(q)) \/ UNCHANGED vars
  BY <1>2, <1>4 DEF SchedulerStep, TakeSlot, LaunchRecovered, LaunchRefused, RecoverJobs,
     shutdown, vars
<1> QED BY <1>1, <1>2, <1>3, <1>4 DEF Next

\* When the counter is zero nothing is counted.
LEMMA WaitMeansQuiet ==
  ASSUME TypeOK, Stages, Counted, WaitThenList
  PROVE  sched = "off" /\ \A j \in Jobs : run[j] = "none"
<1>1. /\ Cardinality(Active) + (IF Scheduling THEN 1 ELSE 0) = 0
      /\ sched # "never"
  BY CountedMeans DEF WaitThenList, Stages
<1>2. Cardinality(Active) = 0 /\ ~Scheduling
  BY <1>1, JobsAreFinite
<1>3. Active = {}
  BY <1>2, JobsAreFinite, FS_EmptySet
<1> QED BY <1>1, <1>2, <1>3 DEF Active, Scheduling, TypeOK

LEMMA StepQuiet ==
  ASSUME TypeOK, Stages, Counted, QuietAfterWait, [Next]_vars
  PROVE  QuietAfterWait'
<1>1. CASE WaitThenList
  BY <1>1, WaitMeansQuiet DEF WaitThenList, QuietAfterWait, recovery
<1>2. CASE Listing /\ Listing'
  <2>1. sched = "off" /\ closed /\ \A j \in Jobs : run[j] = "none"
    BY <1>2 DEF QuietAfterWait, Listing, Stages
  <2>2. UNCHANGED <<sched, run>>
    <3>1. ASSUME NEW j \in Jobs PROVE ~StartAsync(j) /\ ~SavePrepared(j) /\ ~RunStep(j)
      BY <2>1 DEF StartAsync, SavePrepared, ReserveBackgroundTask, RunStep, RunSuppressed,
         RunBegins, RunEnds, RunReturns
    <3>2. ~SchedulerStep /\ \A q : ~RecoverJobs(q)
      BY <2>1 DEF SchedulerStep, TakeSlot, LaunchRecovered, LaunchRefused, RecoverJobs
    <3>3. ASSUME NEW j \in Jobs, RunSaves(j) \/ OperatorStep(j) PROVE UNCHANGED <<sched, run>>
      BY <3>3 DEF RunSaves, OperatorStep, OperatorCloses, OperatorReopens,
         OperatorRunSuppressed, OperatorRunBegins, OperatorRunSaves, OperatorRunEnds,
         OperatorRunReturns, recovery
    <3>4. CASE Close \/ ShutdownStep \/ UNCHANGED vars
      BY <3>4 DEF Close, ShutdownStep, WaitThenList, InterruptOwned, Down, vars, recovery
    <3> QED BY <3>1, <3>2, <3>3, <3>4 DEF Next
  <2> QED BY <2>1, <2>2 DEF QuietAfterWait
<1> QED BY <1>1, <1>2, ListingBegins DEF QuietAfterWait

LEMMA StepOwned ==
  ASSUME TypeOK, Stages, QuietAfterWait, OwnedIsListed, [Next]_vars, QuietAfterWait'
  PROVE  OwnedIsListed'
<1>1. CASE WaitThenList
  BY <1>1 DEF WaitThenList, OwnedIsListed, Listing, TypeOK
<1>2. CASE Listing
  <2>1. sched = "off" /\ closed /\ \A j \in Jobs : run[j] = "none"
    BY <1>2 DEF QuietAfterWait, Listing, Stages
  <2>2. \A j \in Jobs : file[j] = "ours" => j \in listed \cup touched
    BY <1>2 DEF OwnedIsListed
  <2>3. ASSUME NEW j \in Jobs PROVE ~StartAsync(j) /\ ~SavePrepared(j) /\ ~RunStep(j) /\ ~RunSaves(j)
    BY <2>1 DEF StartAsync, SavePrepared, ReserveBackgroundTask, RunStep, RunSuppressed,
       RunBegins, RunEnds, RunReturns, RunSaves
  <2>4. ~SchedulerStep /\ \A q : ~RecoverJobs(q)
    BY <2>1 DEF SchedulerStep, TakeSlot, LaunchRecovered, LaunchRefused, RecoverJobs
  <2>5. ASSUME NEW j \in Jobs, OperatorStep(j) PROVE OwnedIsListed'
    <3>1. \/ /\ UNCHANGED <<file, listed, touched>>
          \/ /\ touched' = touched \cup {j} /\ UNCHANGED listed
             /\ \A k \in Jobs : k # j => file'[k] = file[k]
      BY <1>2, <2>5 DEF OperatorStep, OperatorCloses, OperatorReopens,
         OperatorRunSuppressed, OperatorRunBegins, OperatorRunSaves, OperatorRunEnds,
         OperatorRunReturns, Writes, shutdown, TypeOK
    <3> QED BY <2>2, <3>1 DEF OwnedIsListed
  <2>6. ASSUME NEW j \in Jobs, InterruptOwned(j) PROVE OwnedIsListed'
    <3>1. /\ listed' = listed \ {j} /\ touched' = touched \ {j} /\ file'[j] = "closed"
          /\ \A k \in Jobs : k # j => file'[k] = file[k]
      BY <2>6 DEF InterruptOwned, TypeOK
    <3> QED BY <2>2, <3>1 DEF OwnedIsListed
  <2>7. CASE Close \/ Down \/ UNCHANGED vars
    BY <2>2, <2>7 DEF Close, Down, vars, shutdown, OwnedIsListed
  <2> QED BY <1>1, <2>3, <2>4, <2>5, <2>6, <2>7 DEF Next, ShutdownStep
<1>3. CASE ~Listing' 
  BY <1>3 DEF OwnedIsListed
<1> QED BY <1>1, <1>2, <1>3, ListingBegins

----------------------------------------------------------------------------

LEMMA InitHolds == Init => IInv
<1> SUFFICES ASSUME Init PROVE IInv
  OBVIOUS
<1>1. Active = {} /\ Recovering = {} /\ ~Scheduling
  BY DEF Init, Active, Recovering, Scheduling
<1>2. Counted
  BY <1>1, FS_EmptySet, BackgroundAssumption, CountedMeans DEF Init
<1>3. TypeOK
  <2>1. queue \in Seq(Jobs)
    BY EmptySeq DEF Init
  <2>2. Slots \in Nat /\ 0 \in 0 .. Slots
    BY BackgroundAssumption
  <2>3. file \in [Jobs -> Files]
    BY DEF Init, Files, Busy
  <2> QED BY <2>1, <2>2, <2>3 DEF Init, TypeOK, RunPlaces
<1>4. Stages /\ QueueWaits /\ QuietAfterWait /\ OwnedIsListed
  BY DEF Init, Stages, QueueWaits, Scheduling, QuietAfterWait, OwnedIsListed, Listing
<1> QED BY <1>2, <1>3, <1>4 DEF IInv

LEMMA StepInvariant == IInv /\ [Next]_vars => IInv'
<1> SUFFICES ASSUME TypeOK, Stages, QueueWaits, Counted, QuietAfterWait, OwnedIsListed,
                    [Next]_vars
             PROVE  IInv'
  BY DEF IInv
<1>1. TypeOK' /\ Stages' /\ QueueWaits' /\ Counted'
  BY StepType, StepStages, StepQueue, StepCounted
<1>2. QuietAfterWait'
  BY StepQuiet
<1>3. OwnedIsListed'
  BY <1>2, StepOwned
<1> QED BY <1>1, <1>2, <1>3 DEF IInv

\* The invariant the theorems below rest on.
THEOREM BackgroundInvariant == Spec => []IInv
<1> QED BY InitHolds, StepInvariant, PTL DEF Spec

\* Counters, places and queues keep their types: the wait group never goes below
\* zero (Go would panic) and the semaphore never over its slots.
THEOREM BackgroundTypeCorrect == Spec => []TypeOK
<1>1. IInv => TypeOK
  BY DEF IInv
<1> QED BY <1>1, BackgroundInvariant, PTL

\* The wait group counts the scheduler and every background run, exactly.
THEOREM WaitGroupCounts == Spec => []WaitGroupExact
<1>1. IInv => WaitGroupExact
  BY DEF IInv, Counted
<1> QED BY <1>1, BackgroundInvariant, PTL

\* When Shutdown has stopped waiting, nothing runs in the background nor ever will.
THEOREM NothingAfterWait == Spec => []QuietAfterWait
<1>1. IInv => QuietAfterWait
  BY DEF IInv
<1> QED BY <1>1, BackgroundInvariant, PTL

\* Recovery keeps to its slots, however many jobs wait for one.
THEOREM RecoveryKeepsBound == Spec => []RecoveryBound
<1>1. IInv => RecoveryBound
  BY DEF IInv, Counted
<1> QED BY <1>1, BackgroundInvariant, PTL

\* A service that is down owns only what operators saved behind its sweep.
THEOREM OnlyTouchedAreOwned == Spec => []NothingLeftOwned
<1>1. IInv => NothingLeftOwned
  BY DEF IInv, Stages, OwnedIsListed, Listing, NothingLeftOwned
<1> QED BY <1>1, BackgroundInvariant, PTL
=============================================================================
