---------------------------- MODULE SchedulerClock ----------------------------
(***************************************************************************)
(* The scheduler pallet driven by its own clock: the module Scheduler for  *)
(* the storage and the entry points, the module RotationClock for          *)
(* availability_timeout_predicate.  In every block the inclusion inherent  *)
(* frees, besides the cores whose candidate concluded, exactly the cores   *)
(* the predicate times out, and passes both lists to schedule.             *)
(*                                                                         *)
(* Block numbers are kept relative, which keeps the state space finite:    *)
(* sinceRotation is blocks_since_last_rotation of the block being executed *)
(* and pendingFor[c] is how many blocks ago the candidate on core c was    *)
(* backed.  The predicate depends on nothing else, so RotationClock is     *)
(* instantiated at a fixed block Horizon with SessionStartBlock and the    *)
(* pending_since values placed that many blocks before it.                 *)
(***************************************************************************)
EXTENDS Naturals, Sequences, SequencesExt, FiniteSets

CONSTANTS
  Threads, Collators, ValidatorCounts, Configs,  \* as in Scheduler
  NChains,       \* indras::indracores().len(), fixed here
  MaxCores,      \* no session has more availability cores than this
  Freq,          \* config.group_rotation_frequency
  ChainPeriod,   \* config.chain_availability_period
  ThreadPeriod   \* config.thread_availability_period

(* Every configuration has multiplexer cores, so no step panics (the panic *)
(* with indrabase_cores = 0 is checked on Scheduler alone).                *)
ASSUME \A cfg \in Configs : cfg.indrabase_cores > 0

VARIABLES
  availabilityCores, queue, nextCoreOffset, claimIndex, scheduled,
  validatorGroups, config, nChains, liveThreads, phase, panicked,
  sinceRotation,  \* (now - SessionStartBlock) % group_rotation_frequency
  pendingFor      \* core -> now - pending_since, 0 for a free core

schedVars == <<availabilityCores, queue, nextCoreOffset, claimIndex, scheduled,
               validatorGroups, config, nChains, liveThreads, phase, panicked>>
vars == <<schedVars, sinceRotation, pendingFor>>

S == INSTANCE Scheduler WITH ChainCounts <- {NChains}, MultiCall <- FALSE

(* A block far enough ahead that every pending_since is a block number.    *)
Horizon == Freq + ChainPeriod + ThreadPeriod

(* Ages saturate here: the predicate compares an age only with the two     *)
(* periods, and the bound on pending cores with them and the rotation      *)
(* frequency, so no definition tells ages at or above the largest apart.   *)
AgeCap == LET Mx(a, b) == IF a >= b THEN a ELSE b IN Mx(Mx(ChainPeriod, ThreadPeriod), Freq)

Occupied(c) == availabilityCores[c] # S!None

R == INSTANCE RotationClock WITH
       NCores <- MaxCores, MaxBlock <- Horizon,
       now <- Horizon,
       sessionStart <- Horizon - sinceRotation,
       pendingSince <- [c \in 0..MaxCores - 1 |->
                          IF c \in DOMAIN availabilityCores /\ Occupied(c)
                          THEN Horizon - pendingFor[c] ELSE -1]

-----------------------------------------------------------------------------
(* The inclusion inherent: the cores the predicate times out this block.   *)
TimedOutNow ==
  IF R!HasTimeoutPredicate(Horizon)
  THEN {c \in DOMAIN availabilityCores :
          Occupied(c) /\ R!TimeoutPredicate(Horizon, c, Horizon - pendingFor[c])}
  ELSE {}

(* A freed list the inherent can pass: process_bitfields concludes some    *)
(* pending candidates; collect_pending then frees every other pending core *)
(* the predicate times out, and no other.                                  *)
FreedByInherent(freed) ==
  /\ \A i \in DOMAIN freed :
       /\ Occupied(freed[i][1])
       /\ freed[i][2] = "TimedOut" => freed[i][1] \in TimedOutNow
  /\ \A c \in TimedOutNow : \E i \in DOMAIN freed : freed[i][1] = c

(* A free core has age 0; an occupied one keeps its age.                   *)
KeepAges ==
  pendingFor' = [c \in DOMAIN availabilityCores' |->
                   IF availabilityCores'[c] # S!None /\ c \in DOMAIN pendingFor
                   THEN pendingFor[c] ELSE 0]

AddClaim(id, col) ==
  S!AddIndrabaseClaim(id, col) /\ UNCHANGED <<sinceRotation, pendingFor>>

Clear == S!Clear /\ UNCHANGED <<sinceRotation, pendingFor>>

Schedule ==
  /\ \E freed \in S!FreedLists : FreedByInherent(freed) /\ S!ScheduleWith(freed)
  /\ KeepAges
  /\ UNCHANGED sinceRotation

Occupy == S!OccupiedStep /\ KeepAges /\ UNCHANGED sinceRotation

(* The next block: one block later for the rotation and for every pending  *)
(* candidate.                                                              *)
NewBlock ==
  /\ S!NewBlock
  /\ sinceRotation' = (sinceRotation + 1) % Freq
  /\ pendingFor' = [c \in DOMAIN pendingFor |->
                      IF Occupied(c) /\ pendingFor[c] < AgeCap
                      THEN pendingFor[c] + 1
                      ELSE IF Occupied(c) THEN AgeCap ELSE 0]

(* The session change at the end of a block: SessionStartBlock is the next *)
(* block, and every core is free.                                          *)
NewSession ==
  /\ S!NewSession
  /\ sinceRotation' = 0
  /\ pendingFor' = [c \in DOMAIN availabilityCores' |-> 0]

Init == S!Init /\ sinceRotation = 0 /\ pendingFor = [c \in {} |-> 0]

Next ==
  \/ \E id \in Threads, col \in Collators : AddClaim(id, col)
  \/ Clear
  \/ Schedule
  \/ Occupy
  \/ NewBlock
  \/ NewSession

(* Schedule is enabled in every state of phase "schedule": a freed list    *)
(* that frees just the timed-out cores always exists, and no configuration *)
(* here panics.                                                            *)
ScheduleEnabled == phase = "schedule" /\ ~panicked

(* Blocks keep being produced and every block runs the inclusion inherent: *)
(* clear, schedule and occupied are called once per block.  Claims and     *)
(* session changes come from outside and are not assumed to happen.  The   *)
(* fairness of Schedule is WF_vars(Schedule) written out with its enabling *)
(* condition, as evaluating ENABLED on the folds of schedule is slow.      *)
Fairness ==
  /\ WF_vars(Clear)
  /\ ([]<>~ScheduleEnabled \/ []<><<Schedule>>_vars)
  /\ WF_vars(Occupy)
  /\ WF_vars(NewBlock)

Spec == Init /\ [][Next]_vars /\ Fairness

-----------------------------------------------------------------------------
(* The genesis session has been applied, as it is before the first block   *)
(* of a chain: the cores and groups exist from then on.                    *)
Started == validatorGroups # <<>>

TypeOK ==
  /\ S!TypeOK
  /\ sinceRotation \in 0..Freq - 1
  /\ DOMAIN pendingFor = DOMAIN availabilityCores
  /\ \A c \in DOMAIN pendingFor : pendingFor[c] \in 0..AgeCap

(* Once schedule has run in a block, no core holds a candidate that has    *)
(* been pending for as long as its availability period or one rotation,    *)
(* whichever is longer: RotationClock's bound, now with the occupants that *)
(* occupied puts on the cores and the session changes that clear them.     *)
StuckCoresTimedOut ==
  phase \in {"occupy", "end"} => R!PendingTimedOutInTime

(* A claim in the claim queue is eventually taken off it, by schedule or   *)
(* by a session change, however the candidates before it fare: an         *)
(* occupied core is freed by the inclusion inherent once its candidate     *)
(* concludes or availability_timeout_predicate times it out, and schedule  *)
(* then takes the oldest claim for that core's offset.                     *)
QueuedClaimLeavesQueue ==
  \A t \in Threads : (Started /\ t \in S!QueuedIds) ~> (t \notin S!QueuedIds)

=============================================================================
