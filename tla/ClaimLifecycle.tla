---------------------------- MODULE ClaimLifecycle ----------------------------
(***************************************************************************)
(* What the scheduler promises about a claim on an indrabase (a thread),   *)
(* stated without queues, offsets or cores.  A thread is idle, has a claim *)
(* queued, has it scheduled on a free core, or has it occupying a core;    *)
(* the claim carries the number of times it was scheduled and not backed.  *)
(*                                                                         *)
(* Each action is one entry point of the scheduler and moves every thread  *)
(* it concerns at once: a claim only enters through the queue, reaches a   *)
(* core only from the Scheduled list, and is charged a retry only when it  *)
(* was scheduled and the block did not back it.  Scheduler refines this   *)
(* module (Scheduler!ImplementsClaimLifecycle).                            *)
(***************************************************************************)
EXTENDS Naturals

CONSTANT Threads

VARIABLES
  status,   \* thread -> "idle" | "queued" | "scheduled" | "occupied"
  attempts  \* thread -> retries of its claim (0 when idle)

vars == <<status, attempts>>

Statuses == {"idle", "queued", "scheduled", "occupied"}

(* Thread t goes idle and its claim is forgotten.                          *)
Drop(t) == status'[t] = "idle" /\ attempts'[t] = 0

(* Thread t moves to st with its retries as they were.                     *)
MoveTo(t, st) == status'[t] = st /\ attempts'[t] = attempts[t]

(* add_indrabase_claim: a new claim, with no retries, joins the queue.      *)
Claim(t) ==
  /\ status[t] = "idle"
  /\ status' = [status EXCEPT ![t] = "queued"]
  /\ attempts' = [attempts EXCEPT ![t] = 0]

(* clear: each scheduled claim goes back to the queue charged one retry,  *)
(* or is dropped.                                                         *)
ClearScheduled ==
  /\ status' \in [Threads -> Statuses] /\ attempts' \in [Threads -> Nat]
  /\ \A t \in Threads :
       IF status[t] = "scheduled"
       THEN Drop(t) \/ (status'[t] = "queued" /\ attempts'[t] = attempts[t] + 1)
       ELSE MoveTo(t, status[t])

(* schedule: a freed core's claim concludes or goes back to the queue, at  *)
(* no charge, and queued claims (that one among them) may be scheduled.   *)
ScheduleFree ==
  /\ status' \in [Threads -> Statuses] /\ attempts' \in [Threads -> Nat]
  /\ \A t \in Threads :
       CASE status[t] = "occupied" ->
              Drop(t) \/ \E st \in {"occupied", "queued", "scheduled"} : MoveTo(t, st)
         [] status[t] = "queued" -> MoveTo(t, "queued") \/ MoveTo(t, "scheduled")
         [] OTHER -> MoveTo(t, status[t])

(* occupied: some scheduled claims take their cores.                       *)
Occupy ==
  /\ status' \in [Threads -> Statuses] /\ attempts' \in [Threads -> Nat]
  /\ \A t \in Threads :
       IF status[t] = "scheduled"
       THEN MoveTo(t, "scheduled") \/ MoveTo(t, "occupied")
       ELSE MoveTo(t, status[t])

(* The session change: every core is emptied, its claim re-queued or       *)
(* pruned, and queued claims may be pruned; the Scheduled list waits for   *)
(* clear.                                                                  *)
SessionChange ==
  /\ status' \in [Threads -> Statuses] /\ attempts' \in [Threads -> Nat]
  /\ \A t \in Threads :
       IF status[t] \in {"occupied", "queued"}
       THEN Drop(t) \/ MoveTo(t, "queued")
       ELSE MoveTo(t, status[t])

Init ==
  /\ status = [t \in Threads |-> "idle"]
  /\ attempts = [t \in Threads |-> 0]

Next ==
  \/ \E t \in Threads : Claim(t)
  \/ ClearScheduled
  \/ ScheduleFree
  \/ Occupy
  \/ SessionChange

Spec == Init /\ [][Next]_vars

=============================================================================
