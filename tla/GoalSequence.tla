---------------------------- MODULE GoalSequence ----------------------------
(***************************************************************************)
(* What a chain promises to whoever started it, without the file, the      *)
(* copies of it and the callers that keep the promise: goals are worked on *)
(* one after the other, a goal counts as done only behind completed work,  *)
(* and a closed chain stays as it is.  The promise covers the steps of an  *)
(* orderly chain only, one whose callers have never overlapped.            *)
(***************************************************************************)
EXTENDS Naturals

CONSTANT NumGoals   \* goals of the chain

Goals == 1 .. NumGoals

VARIABLES
  status,     \* of the chain: "running", "paused", "done", "failed" or "cancelled"
  index,      \* the goal that is worked on
  goal,       \* the status of each goal
  completed,  \* the goals with a job that has completed
  orderly     \* nobody has read the chain in the middle of another's change

vars == <<status, index, goal, completed, orderly>>

Init ==
  /\ status = "running" /\ index = 1
  /\ goal = [g \in Goals |-> IF g = 1 THEN "running" ELSE "pending"]
  /\ completed = {} /\ orderly = TRUE

Open == status \in {"running", "paused"}

\* Jobs complete, and are taken up again, on the goals reached so far.
Work ==
  /\ completed' \subseteq 1 .. index
  /\ UNCHANGED <<status, index, goal>>

\* A goal is done once its job has completed, an earlier one only while the chain is
\* paused; behind the last one the chain is done.
PassGoal ==
  /\ Open
  /\ \E g \in completed :
       /\ g = index \/ status = "paused"
       /\ goal' = [goal EXCEPT ![g] = "done"]
       /\ status' = IF status = "running" /\ g = NumGoals THEN "done" ELSE status
  /\ UNCHANGED <<index, completed>>

\* A goal of the chain, or its next one that cannot be started, fails the chain.
FailGoal ==
  /\ Open
  /\ \E g \in Goals : g <= index + 1 /\ goal' = [goal EXCEPT ![g] = "failed"]
  /\ status' = "failed"
  /\ UNCHANGED <<index, completed>>

\* Only a settled goal of a running chain makes way for the next.
StartGoal ==
  /\ status = "running" /\ goal[index] \in {"done", "skipped"} /\ index < NumGoals
  /\ index' = index + 1
  /\ goal' = [goal EXCEPT ![index + 1] = "running"]
  /\ UNCHANGED <<status, completed>>

Pause == Open /\ status' = "paused" /\ UNCHANGED <<index, goal, completed>>

Resume == Open /\ status' = "running" /\ UNCHANGED <<index, goal, completed>>

SkipGoal ==
  /\ Open
  /\ goal' = [goal EXCEPT ![index] = "skipped"]
  /\ status' = IF index = NumGoals THEN "done" ELSE "running"
  /\ UNCHANGED <<index, completed>>

Cancel ==
  /\ Open
  /\ status' = "cancelled"
  /\ goal' = [goal EXCEPT ![index] =
                IF goal[index] \in {"pending", "running"} THEN "failed" ELSE goal[index]]
  /\ UNCHANGED <<index, completed>>

Step ==
  \/ Work \/ PassGoal \/ FailGoal \/ StartGoal
  \/ Pause \/ Resume \/ SkipGoal \/ Cancel

Spec == Init /\ [][orderly' => orderly /\ Step]_vars
=============================================================================
