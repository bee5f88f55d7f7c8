------------------------------ MODULE Courier ------------------------------
(***************************************************************************)
(* What a producer of WORK_QUEUE may rely on, whatever batches, retries    *)
(* and invocations do underneath: a job it sends is carried until it is    *)
(* delivered or given up, the owner is alerted of it at least once before  *)
(* it counts as delivered, and at most MostAlerts times ever.  Module      *)
(* WorkQueue implements this.                                              *)
(***************************************************************************)
EXTENDS Naturals

CONSTANTS
  Message,    \* the jobs
  Silent,     \* those that alert nobody
  MostAlerts  \* the alerts a job can cause

VARIABLES
  fate,   \* where each job is
  alerts  \* how often the owner was alerted of it

courierVars == <<fate, alerts>>

Init == fate = [m \in Message |-> "unsent"] /\ alerts = [m \in Message |-> 0]

Carried == {m \in Message : fate[m] = "carried"}

Accept(m) ==
  /\ fate[m] = "unsent"
  /\ fate' = [fate EXCEPT ![m] = "carried"]
  /\ UNCHANGED alerts

\* One alert, of a job under way that may still cause one.
Alert(m) ==
  /\ m \in Carried \ Silent /\ alerts[m] < MostAlerts
  /\ alerts' = [alerts EXCEPT ![m] = @ + 1]

\* Jobs that alerted the owner, or had not to, are done with.
Deliver(done) ==
  /\ done \subseteq Carried
  /\ \A m \in done \ Silent : alerts[m] > 0
  /\ fate' = [m \in Message |-> IF m \in done THEN "delivered" ELSE fate[m]]
  /\ UNCHANGED alerts

\* Jobs are given up, perhaps right after an alert whose answer was lost.
GiveUp(lost) ==
  /\ lost \subseteq Carried
  /\ fate' = [m \in Message |-> IF m \in lost THEN "dead" ELSE fate[m]]
  /\ UNCHANGED alerts \/ \E m \in Message : Alert(m)

Next == \/ \E m \in Message : Accept(m)
        \/ \E jobs \in SUBSET Message : Deliver(jobs) \/ GiveUp(jobs)

Promise == Init /\ [][Next]_courierVars

=============================================================================
