-------------------------- MODULE Provider_proofs --------------------------
(***************************************************************************)
(* Proofs about Provider, for any retry limits.                            *)
(***************************************************************************)
EXTENDS Provider, TLAPS

----------------------------------------------------------------------------
(* The inductive invariant. *)

Account   == {"auth_failure", "billing_required", "session_expired"}
Transient == {"rate_limited", "network_error"}

\* What the last error says at each place of the phase.
ErrorsFit ==
  /\ err.canceled => err.kind \in {"probe_failed", "command_failed", "wait_interrupted"}
  /\ at = "answered" => err = NoErr
  /\ at = "backoff" => role \in Retried /\ err.kind \in Transient /\ attempt < RetryLimit
  /\ at = "given_up" /\ role \in Retried /\ err.kind \in Transient => attempt = RetryLimit
  /\ at = "resolve" => err.kind \notin Account
  /\ at \in {"probe", "probing", "start"} /\ err.kind \in Account => model = "fallback"

\* Only the loops that are around the role count, and only its own provider falls back.
LoopsFit ==
  /\ attempt # 0 => role \in Retried
  /\ schemaAttempt # 0 => role \in Corrected
  /\ model = "fallback" => second /\ route = "own"

\* Commands of the requests that are over, and of the one under way.
Rounds == Tries(role \in Retried, RetryLimit)
Models == IF second /\ route = "own" THEN 2 ELSE 1
Spent  == (schemaAttempt * Rounds + attempt) * Models
Request ==
  CASE at = "resolve"                          -> 0
    [] at \in {"probe", "probing", "start"}    -> IF model = "fallback" THEN 1 ELSE 0
    [] at \in {"running", "invoked", "returned"} -> IF model = "fallback" THEN 2 ELSE 1
    [] OTHER                                   -> Models

Counted == calls <= Spent + Request

IInv == TypeOK /\ ErrorsFit /\ LoopsFit /\ TransientIsRetried /\ Counted

----------------------------------------------------------------------------
(* Types. *)

LEMMA InitType == ASSUME Init PROVE TypeOK
<1>1. NoErr \in Errors
  BY DEF NoErr, Errors, Kinds
<1>2. 0 \in 0 .. RetryLimit /\ 0 \in 0 .. SchemaRetryMax /\ 0 \in Nat
  BY ProviderAssumption
<1> QED BY <1>1, <1>2 DEF Init, TypeOK, Places

LEMMA FailsType ==
  ASSUME NEW kind \in Kinds, NEW b \in BOOLEAN, Fails(kind, b)
  PROVE  err' \in Errors /\ err'.kind = kind /\ err'.canceled = b /\ at' = "invoked"
  BY DEF Fails, Errors

LEMMA StepType ==
  ASSUME TypeOK, ErrorsFit, [Next]_vars
  PROVE  TypeOK'
<1> USE ProviderAssumption
<1>1. CASE Cancel
  BY <1>1 DEF Cancel, TypeOK, request, loops
<1>2. CASE Resolve \/ ProbeStarts \/ ProbeEnds
  <2>1. err' \in Errors /\ at' \in Places
    BY <1>2, FailsType DEF Resolve, ProbeStarts, ProbeEnds, TypeOK, Kinds, Places
  <2> QED BY <1>2, <2>1 DEF Resolve, ProbeStarts, ProbeEnds, TypeOK, request, loops
<1>3. CASE CommandStarts
  <2>1. err' \in Errors /\ at' \in Places
    BY <1>3, FailsType DEF CommandStarts, TypeOK, Kinds, CommandKinds, Places
  <2>2. calls' = calls + 1 \/ calls' = calls
    BY <1>3 DEF CommandStarts, Fails
  <2>3. calls' \in Nat
    BY <2>2 DEF TypeOK
  <2> QED BY <1>3, <2>1, <2>3 DEF CommandStarts, TypeOK, request, loops
<1>4. CASE CommandEnds
  <2>1. err' \in Errors /\ at' \in Places
    <3>1. NoErr \in Errors
      BY DEF NoErr, Errors, Kinds
    <3> QED BY <1>4, <3>1, FailsType DEF CommandEnds, Kinds, Places
  <2>2. killed' \in BOOLEAN
    BY <1>4 DEF CommandEnds, TypeOK
  <2> QED BY <1>4, <2>1, <2>2 DEF CommandEnds, TypeOK, request, loops
<1>5. CASE Invoked \/ Returned
  BY <1>5 DEF Invoked, Returned, TypeOK, Places, request, loops
<1>6. CASE WaitForProviderRetry
  <2>1. attempt' \in 0 .. RetryLimit
    BY <1>6 DEF WaitForProviderRetry, TypeOK, ErrorsFit
  <2>2. err' \in Errors
    <3>1. [kind |-> "wait_interrupted", canceled |-> TRUE] \in Errors
      BY DEF Errors, Kinds
    <3> QED BY <1>6, <3>1 DEF WaitForProviderRetry, TypeOK
  <2>3. at' \in Places
    BY <1>6 DEF WaitForProviderRetry, Places
  <2> QED BY <1>6, <2>1, <2>2, <2>3 DEF WaitForProviderRetry, TypeOK, request
<1>7. CASE GivenUp \/ Accept \/ Correct \/ Refuse
  <2>1. CASE GivenUp
    <3>1. outcome' \in {"failed", "interrupted", "blocked"}
      BY <2>1 DEF GivenUp, EndOn
    <3> QED BY <2>1, <3>1 DEF GivenUp, TypeOK, Places, request
  <2>2. CASE Accept \/ Refuse
    BY <2>2 DEF Accept, Refuse, TypeOK, Places, request
  <2>3. CASE Correct
    BY <2>3 DEF Correct, TypeOK, Places, request
  <2> QED BY <1>7, <2>1, <2>2, <2>3
<1>8. CASE UNCHANGED vars
  BY <1>8 DEF vars, request, loops, TypeOK
<1> QED BY <1>1, <1>2, <1>3, <1>4, <1>5, <1>6, <1>7, <1>8 DEF Next, Step

----------------------------------------------------------------------------
(* Errors and loops. *)

LEMMA StepErrors ==
  ASSUME TypeOK, ErrorsFit, LoopsFit, [Next]_vars
  PROVE  ErrorsFit' /\ LoopsFit'
<1> USE ProviderAssumption
<1>0. NoErr.kind = "none" /\ NoErr.canceled = FALSE
  BY DEF NoErr
<1>1. CASE Cancel \/ UNCHANGED vars
  BY <1>1 DEF Cancel, vars, ErrorsFit, LoopsFit, request, loops
<1>2. CASE Resolve
  BY <1>2 DEF Resolve, Fails, ErrorsFit, LoopsFit, Account, Transient, request, loops
<1>3. CASE ProbeStarts \/ ProbeEnds
  BY <1>3 DEF ProbeStarts, ProbeEnds, Fails, ErrorsFit, LoopsFit, Account, Transient,
     request, loops
<1>4. CASE CommandStarts
  BY <1>4 DEF CommandStarts, Fails, ErrorsFit, LoopsFit, Account, Transient, request, loops
<1>5. CASE CommandEnds
  BY <1>0, <1>5 DEF CommandEnds, Fails, ErrorsFit, LoopsFit, request, loops
<1>6. CASE Invoked
  BY <1>6 DEF Invoked, ErrorsFit, LoopsFit, request, loops
<1>7. CASE Returned
  <2>1. MayRetry <=> role \in Retried /\ err.kind \in Transient /\ attempt < RetryLimit
    BY DEF MayRetry, RecommendedAction, Transient
  <2> QED BY <1>7, <2>1 DEF Returned, ErrorsFit, LoopsFit, TypeOK, request, loops
<1>8. CASE WaitForProviderRetry
  BY <1>8 DEF WaitForProviderRetry, ErrorsFit, LoopsFit, Account, Transient, request
<1>9. CASE GivenUp \/ Accept \/ Refuse
  BY <1>9 DEF GivenUp, Accept, Refuse, ErrorsFit, LoopsFit, request
<1>10. CASE Correct
  BY <1>0, <1>10 DEF Correct, ErrorsFit, LoopsFit, Account, request
<1> QED BY <1>1, <1>2, <1>3, <1>4, <1>5, <1>6, <1>7, <1>8, <1>9, <1>10 DEF Next, Step

LEMMA StepTransient ==
  ASSUME TypeOK, ErrorsFit, TransientIsRetried, [Next]_vars
  PROVE  TransientIsRetried'
<1>1. CASE GivenUp
  <2>1. SUFFICES ASSUME role \in Retried, err.kind \in Transient
                 PROVE  outcome' = "failed" /\ attempt = RetryLimit
    BY <1>1 DEF GivenUp, TransientIsRetried, Transient, request
  <2>2. ~err.canceled /\ RecommendedAction(err.kind) = "retry" /\ attempt = RetryLimit
    BY <1>1, <2>1 DEF GivenUp, ErrorsFit, Transient, RecommendedAction
  <2>3. EndOn = "failed"
    BY <2>2 DEF EndOn, IsShutdownInterruption
  <2> QED BY <1>1, <2>2, <2>3 DEF GivenUp
<1>2. CASE Accept \/ Refuse
  <2>1. err' = NoErr
    BY <1>2 DEF Accept, Refuse, ErrorsFit
  <2> QED BY <2>1 DEF TransientIsRetried, NoErr
<1>3. CASE Cancel \/ UNCHANGED vars
  BY <1>3 DEF Cancel, vars, TransientIsRetried, request, loops
<1>4. CASE \/ Resolve \/ ProbeStarts \/ ProbeEnds \/ CommandStarts \/ CommandEnds
           \/ Invoked \/ Returned \/ WaitForProviderRetry \/ Correct
  <2>1. at' # "end"
    BY <1>4 DEF Resolve, ProbeStarts, ProbeEnds, CommandStarts, CommandEnds, Invoked,
       Returned, WaitForProviderRetry, Correct, Fails
  <2> QED BY <2>1 DEF TransientIsRetried
<1> QED BY <1>1, <1>2, <1>3, <1>4 DEF Next, Step

----------------------------------------------------------------------------
(* The count of the commands. *)

LEMMA Times ==
  ASSUME NEW m \in Nat, NEW n \in Nat, NEW k \in Nat, m < k
  PROVE  m * n \in Nat /\ (m + 1) * n = m * n + n /\ (m + 1) * n <= k * n
<1>1. m * n \in Nat /\ (m + 1) * n = m * n + n
  OBVIOUS
<1>2. PICK d \in Nat : k = (m + 1) + d
  <2>1. k - (m + 1) \in Nat /\ k = (m + 1) + (k - (m + 1))
    OBVIOUS
  <2> QED BY <2>1
<1>3. k * n = (m + 1) * n + d * n /\ d * n \in Nat /\ (m + 1) * n \in Nat
  BY <1>2
<1> QED BY <1>1, <1>3

LEMMA Factors ==
  ASSUME TypeOK
  PROVE  /\ Rounds \in Nat /\ Rounds >= 1 /\ (role \in Retried => Rounds = RetryLimit + 1)
         /\ Models \in {1, 2} /\ (second /\ route = "own" => Models = 2)
         /\ schemaAttempt \in Nat /\ attempt \in Nat
         /\ schemaAttempt * Rounds \in Nat /\ Spent \in Nat /\ Request \in Nat
<1>1. /\ Rounds \in Nat /\ Rounds >= 1 /\ (role \in Retried => Rounds = RetryLimit + 1)
      /\ Models \in {1, 2} /\ (second /\ route = "own" => Models = 2)
      /\ schemaAttempt \in Nat /\ attempt \in Nat
  BY ProviderAssumption DEF TypeOK, Rounds, Models, Tries
<1>2. schemaAttempt * Rounds \in Nat
  BY <1>1
<1>3. Spent \in Nat
  BY <1>1, <1>2 DEF Spent
<1>4. Request \in Nat
  BY <1>1 DEF Request
<1> QED BY <1>1, <1>2, <1>3, <1>4

LEMMA StepCounted ==
  ASSUME TypeOK, ErrorsFit, LoopsFit, Counted, [Next]_vars
  PROVE  Counted'
<1> USE ProviderAssumption
<1>1. /\ Spent \in Nat /\ Request \in Nat /\ calls \in Nat
      /\ Models \in {1, 2} /\ (second /\ route = "own" => Models = 2)
  BY Factors DEF TypeOK
<1>2. ASSUME UNCHANGED <<request, attempt, schemaAttempt>> PROVE Spent' = Spent /\ Models' = Models
  BY <1>2 DEF Spent, Models, Rounds, request
<1>3. CASE Cancel \/ UNCHANGED vars
  <2>1. Spent' = Spent /\ Request' = Request /\ calls' = calls
    BY <1>2, <1>3 DEF Cancel, vars, loops, Request, Models, request
  <2> QED BY <2>1 DEF Counted
<1>4. CASE Resolve \/ ProbeStarts \/ ProbeEnds \/ CommandEnds \/ Invoked \/ Returned
  <2>1. Spent' = Spent /\ Models' = Models /\ calls' = calls
    BY <1>2, <1>4 DEF Resolve, ProbeStarts, ProbeEnds, CommandEnds, Invoked, Returned, loops
  <2>2. CASE Resolve
    BY <1>1, <2>1, <2>2 DEF Resolve, Fails, Request, Counted
  <2>3. CASE ProbeStarts \/ ProbeEnds
    BY <1>1, <2>1, <2>3 DEF ProbeStarts, ProbeEnds, Fails, Request, Counted
  <2>4. CASE CommandEnds
    BY <1>1, <2>1, <2>4 DEF CommandEnds, Fails, Request, Counted, LoopsFit
  <2>5. CASE Invoked
    BY <1>1, <2>1, <2>5 DEF Invoked, Request, Counted, LoopsFit
  <2>6. CASE Returned
    BY <1>1, <2>1, <2>6 DEF Returned, Request, Counted, LoopsFit
  <2> QED BY <1>4, <2>2, <2>3, <2>4, <2>5, <2>6
<1>5. CASE CommandStarts
  <2>1. Spent' = Spent
    BY <1>2, <1>5 DEF CommandStarts, loops
  <2>2. calls' = calls \/ calls' = calls + 1
    BY <1>5 DEF CommandStarts, Fails
  <2>3. Request' = Request + 1
    BY <1>5 DEF CommandStarts, Fails, Request
  <2> QED BY <1>1, <2>1, <2>2, <2>3 DEF Counted
<1>6. CASE GivenUp \/ Accept \/ Refuse
  <2>1. Spent' = Spent /\ Models' = Models /\ calls' = calls
    BY <1>2, <1>6 DEF GivenUp, Accept, Refuse
  <2>2. Request = Models /\ Request' = Models'
    BY <1>6 DEF GivenUp, Accept, Refuse, Request
  <2> QED BY <2>1, <2>2 DEF Counted
<1>7. CASE WaitForProviderRetry
  <2>1. calls' = calls /\ Request = Models
        /\ Models' = Models /\ Rounds' = Rounds /\ schemaAttempt' = schemaAttempt
    BY <1>7 DEF WaitForProviderRetry, Request, Models, Rounds, request
  <2>2. CASE attempt' = attempt + 1 /\ at' = "resolve"
    <3>1. Spent' = Spent + Models
      BY <1>1, <2>1, <2>2, Factors DEF Spent
    <3>2. Request' = 0
      BY <2>2 DEF Request
    <3> QED BY <1>1, <2>1, <3>1, <3>2 DEF Counted
  <2>3. CASE attempt' = attempt /\ at' = "given_up"
    BY <1>1, <2>1, <2>3 DEF Counted, Request, Spent
  <2> QED BY <1>7, <2>2, <2>3 DEF WaitForProviderRetry
<1>8. CASE Correct
  <2>1. calls' = calls /\ Request = Models /\ Request' = 0
        /\ Models' = Models /\ Rounds' = Rounds /\ schemaAttempt' = schemaAttempt + 1
        /\ attempt' = 0
    BY <1>8 DEF Correct, Request, Models, Rounds, request
  <2>2. attempt + 1 <= Rounds
    BY Factors DEF LoopsFit, TypeOK
  <2>3. (schemaAttempt + 1) * Rounds = schemaAttempt * Rounds + Rounds
    BY Factors
  <2>4. Spent' = ((schemaAttempt + 1) * Rounds) * Models
    BY <1>1, <2>1, <2>3, Factors DEF Spent
  <2>5. Spent' >= Spent + Models
    <3> DEFINE n == schemaAttempt * Rounds
    <3>1. n \in Nat /\ Spent = (n + attempt) * Models /\ Spent' = (n + Rounds) * Models
      BY <2>3, <2>4, Factors DEF Spent
    <3> HIDE DEF n
    <3> QED BY <1>1, <2>2, <3>1, Factors
  <2>6. Spent' \in Nat
    BY <2>4, <2>3, Factors
  <2>7. calls <= Spent + Models
    BY <1>1, <2>1 DEF Counted
  <2>8. calls' <= Spent'
    BY <1>1, <2>1, <2>5, <2>6, <2>7
  <2> QED BY <2>1, <2>6, <2>8 DEF Counted
<1> QED BY <1>3, <1>4, <1>5, <1>6, <1>7, <1>8 DEF Next, Step

----------------------------------------------------------------------------
(* The theorems. *)

LEMMA InitHolds == ASSUME Init PROVE IInv
<1>1. TypeOK
  BY InitType
<1>2. ErrorsFit /\ LoopsFit /\ TransientIsRetried
  BY DEF Init, ErrorsFit, LoopsFit, TransientIsRetried, NoErr, Account
<1>3. Counted
  BY <1>1, Factors DEF Init, Counted, Request
<1> QED BY <1>1, <1>2, <1>3 DEF IInv

\* The invariant of the three retry loops holds whatever their limits are.
THEOREM PhaseInvariant == Spec => []IInv
<1>1. Init => IInv
  BY InitHolds
<1>2. IInv /\ [Next]_vars => IInv'
  BY StepType, StepErrors, StepTransient, StepCounted DEF IInv
<1> QED BY <1>1, <1>2, PTL DEF Spec

\* The attempts stay within the limits of their loops, at every place of the phase.
THEOREM PhaseTypeCorrect == Spec => []TypeOK
<1>1. IInv => TypeOK
  BY DEF IInv
<1> QED BY <1>1, PhaseInvariant, PTL

\* Rate limits and network errors fail a leader or a worker after all retries only.
THEOREM TransientErrorsAreRetried == Spec => []TransientIsRetried
<1>1. IInv => TransientIsRetried
  BY DEF IInv
<1> QED BY <1>1, PhaseInvariant, PTL

\* The nested retries start no more commands than the product of their limits.
THEOREM CommandsAreBounded == Spec => []CallsBounded
<1>1. ASSUME IInv PROVE CallsBounded
  <2> DEFINE T == Tries(role \in Corrected, SchemaRetryMax)
             n == schemaAttempt * Rounds
  <2>1. T \in Nat /\ schemaAttempt < T /\ attempt + 1 <= Rounds /\ Request <= Models
    <3>1. T \in Nat /\ schemaAttempt < T
      BY <1>1, ProviderAssumption DEF IInv, TypeOK, LoopsFit, Tries
    <3>2. attempt + 1 <= Rounds
      <4>1. role \in Retried => Rounds = RetryLimit + 1
        BY <1>1, Factors DEF IInv
      <4>2. Rounds >= 1 /\ Rounds \in Nat /\ attempt \in 0 .. RetryLimit
        BY <1>1, Factors DEF IInv, TypeOK
      <4>3. attempt # 0 => role \in Retried
        BY <1>1 DEF IInv, LoopsFit
      <4> QED BY <4>1, <4>2, <4>3, ProviderAssumption
    <3>3. Request <= Models
      BY <1>1, Factors DEF IInv, LoopsFit, Request
    <3> QED BY <3>1, <3>2, <3>3
  <2>2. /\ Rounds \in Nat /\ schemaAttempt \in Nat /\ attempt \in Nat
        /\ Models \in {1, 2} /\ Request \in Nat /\ calls \in Nat
    BY <1>1, Factors DEF IInv, TypeOK
  <2> HIDE DEF T
  <2>3. n \in Nat /\ n + Rounds <= T * Rounds /\ T * Rounds \in Nat
    BY <2>1, <2>2, Times
  <2>4. calls <= (n + attempt) * Models + Request
    BY <1>1 DEF IInv, Counted, Spent
  <2> HIDE DEF n
  <2>5. calls <= (T * Rounds) * Models
    <3> DEFINE k == T * Rounds
    <3>1. k \in Nat /\ n + Rounds <= k
      BY <2>3
    <3> HIDE DEF k
    <3>2. calls <= k * Models
      BY <2>1, <2>2, <2>3, <2>4, <3>1
    <3> QED BY <3>2 DEF k
  <2> QED BY <2>5 DEF CallsBounded, T, Rounds, Models
<1> QED BY <1>1, PhaseInvariant, PTL

\* After an error of the account the next command, if any, is the fallback model's.
THEOREM AccountErrorsStop == Spec => RefusalStopsCalls
<1>1. IInv /\ [Next]_vars =>
        [calls' # calls => \/ err.kind \notin {"auth_failure", "billing_required", "session_expired"}
                           \/ model = "fallback"]_vars
  <2> SUFFICES ASSUME IInv, [Next]_vars, calls' # calls, err.kind \in Account
               PROVE  model = "fallback"
    BY DEF Account
  <2>1. CommandStarts
    BY DEF Next, Step, vars, Cancel, Resolve, ProbeStarts, ProbeEnds, CommandEnds, Invoked,
       Returned, WaitForProviderRetry, GivenUp, Accept, Correct, Refuse
  <2> QED BY <2>1 DEF CommandStarts, IInv, ErrorsFit
<1> QED BY <1>1, PhaseInvariant, PTL DEF Spec, RefusalStopsCalls
=============================================================================
