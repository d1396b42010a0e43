-------------------------- MODULE BackgroundQueue --------------------------
(***************************************************************************)
(* What the background-download queue promises (spec section 4.D): a job  *)
(* enqueued by a producer is PENDING, a worker takes the oldest pending    *)
(* job (PROCESSING) and ends it as SUCCESS or FAILURE.  Jobs are taken in  *)
(* the order they were enqueued, and every job taken is eventually ended.  *)
(* The detailed module WriteQueue is shown to implement the safety part of *)
(* this specification.                                                     *)
(***************************************************************************)
EXTENDS Sequences

CONSTANT Jobs

VARIABLES queue,    \* pending jobs, oldest first
          status    \* status[j]: "NONE" before j is enqueued

vars == <<queue, status>>

Statuses == {"NONE", "PENDING", "PROCESSING", "SUCCESS", "FAILURE"}

TypeOK ==
    /\ queue \in Seq(Jobs)
    /\ status \in [Jobs -> Statuses]

Init ==
    /\ queue = <<>>
    /\ status = [j \in Jobs |-> "NONE"]

Enqueue(j) ==
    /\ status[j] = "NONE"
    /\ status' = [status EXCEPT ![j] = "PENDING"]
    /\ queue' = Append(queue, j)

\* The oldest pending job is taken, atomically.
Take ==
    /\ queue # <<>>
    /\ status' = [status EXCEPT ![Head(queue)] = "PROCESSING"]
    /\ queue' = Tail(queue)

Finish(j) ==
    /\ status[j] = "PROCESSING"
    /\ \E r \in {"SUCCESS", "FAILURE"} : status' = [status EXCEPT ![j] = r]
    /\ UNCHANGED queue

Next ==
    \/ \E j \in Jobs : Enqueue(j)
    \/ Take
    \/ \E j \in Jobs : Finish(j)

SafetySpec == Init /\ [][Next]_vars

Spec == SafetySpec /\ WF_vars(Take) /\ \A j \in Jobs : WF_vars(Finish(j))

\* Every job that is taken is eventually ended.
JobsFinish == \A j \in Jobs : status[j] = "PROCESSING" ~> status[j] \in {"SUCCESS", "FAILURE"}

=============================================================================
