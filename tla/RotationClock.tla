---------------------------- MODULE RotationClock ----------------------------
(***************************************************************************)
(* Group rotation and availability time-outs of the scheduler pallet       *)
(* (src/indracore/runtime/src/scheduler/mod.rs): group_assigned_to_core    *)
(* and availability_timeout_predicate over block numbers, driven the way   *)
(* the inclusion inherent drives them: each block it frees the pending     *)
(* cores the predicate times out, some candidates become available, and    *)
(* free cores are occupied again; a session change clears every core and   *)
(* moves SessionStartBlock to the next block.                              *)
(***************************************************************************)
EXTENDS Integers, FiniteSets

CONSTANTS
  NCores,        \* availability cores, = validator groups
  NChains,       \* cores 0..NChains-1 are indracore cores
  Freq,          \* config.group_rotation_frequency
  ChainPeriod,   \* config.chain_availability_period
  ThreadPeriod,  \* config.thread_availability_period
  MaxBlock       \* last block number explored

ASSUME NCores \in Nat \ {0} /\ NChains \in 0..NCores
ASSUME Freq \in Nat \ {0} /\ ChainPeriod \in Nat /\ ThreadPeriod \in Nat
ASSUME MaxBlock \in Nat

VARIABLES
  now,           \* frame_system::block_number()
  sessionStart,  \* SessionStartBlock
  pendingSince   \* core -> block its candidate is pending since, or NotPending

vars == <<now, sessionStart, pendingSince>>

NotPending == -1
Cores == 0..NCores - 1

SaturatingSub(a, b) == IF a >= b THEN a - b ELSE 0
MaxOf(a, b) == IF a >= b THEN a ELSE b
AvailabilityPeriod(c) == IF c < NChains THEN ChainPeriod ELSE ThreadPeriod

(* group_assigned_to_core: NoGroup when at < SessionStartBlock or the core *)
(* is out of range (validator_groups.len() = NCores).                      *)
NoGroup == -1

(* Mutant: rotations counted from the block before the session start.     *)
GroupAssignedToCoreOffByOne(core, at) ==
  IF at < sessionStart \/ core >= NCores THEN NoGroup
  ELSE (core + (at - sessionStart + 1) \div Freq) % NCores

GroupAssignedToCore(core, at) ==
  IF at < sessionStart \/ core >= NCores THEN NoGroup
  ELSE (core + (at - sessionStart) \div Freq) % NCores

BlocksSinceLastRotation(n) == SaturatingSub(n, sessionStart) % Freq

(* Mutant: the comparison with the cutoff is inverted.                    *)
HasTimeoutPredicateInverted(n) ==
  BlocksSinceLastRotation(n) >= MaxOf(ChainPeriod, ThreadPeriod)

(* availability_timeout_predicate: is there one at block n?                *)
HasTimeoutPredicate(n) ==
  BlocksSinceLastRotation(n) < MaxOf(ChainPeriod, ThreadPeriod)

(* Mutant: a candidate times out only after more than the period.        *)
TimeoutPredicateStrict(n, c, since) ==
  IF c \notin Cores \/ pendingSince[c] = NotPending THEN TRUE
  ELSE IF BlocksSinceLastRotation(n) >= AvailabilityPeriod(c) THEN FALSE
  ELSE SaturatingSub(n, since) > AvailabilityPeriod(c)

(* The predicate itself, for core c pending since block since.             *)
TimeoutPredicate(n, c, since) ==
  IF c \notin Cores \/ pendingSince[c] = NotPending THEN TRUE
  ELSE IF BlocksSinceLastRotation(n) >= AvailabilityPeriod(c) THEN FALSE
  ELSE SaturatingSub(n, since) >= AvailabilityPeriod(c)

(* The inclusion inherent of block n: cores timed out by the predicate    *)
(* are freed, some others conclude, and some free cores are occupied.     *)
Block ==
  /\ now < MaxBlock
  /\ LET n == now + 1
         timedOut == IF HasTimeoutPredicate(n)
                     THEN {c \in Cores : pendingSince[c] # NotPending
                                         /\ TimeoutPredicate(n, c, pendingSince[c])}
                     ELSE {}
     IN \E concluded \in SUBSET {c \in Cores : pendingSince[c] # NotPending},
           backed \in SUBSET Cores :
          /\ backed \subseteq {c \in Cores : pendingSince[c] = NotPending}
                              \cup timedOut \cup concluded
          /\ now' = n
          /\ pendingSince' = [c \in Cores |->
                                IF c \in backed THEN n
                                ELSE IF c \in timedOut \cup concluded THEN NotPending
                                ELSE pendingSince[c]]
  /\ UNCHANGED sessionStart

(* initializer_on_new_session at the end of block now.                    *)
NewSession ==
  /\ now < MaxBlock
  /\ sessionStart # now + 1
  /\ sessionStart' = now + 1
  /\ pendingSince' = [c \in Cores |-> NotPending]
  /\ UNCHANGED now

Init ==
  /\ now = 0
  /\ sessionStart = 0
  /\ pendingSince = [c \in Cores |-> NotPending]

(* Blocks stop at MaxBlock: the end of the explored prefix.               *)
Done == now = MaxBlock /\ UNCHANGED vars

Next == Block \/ NewSession \/ Done

Spec == Init /\ [][Next]_vars

-----------------------------------------------------------------------------
(* A candidate is never still pending once as many blocks have passed as   *)
(* its availability period or one rotation period, whichever is longer:    *)
(* the predicate opens its window at every rotation, so a stuck core is    *)
(* timed out by the inclusion inherent by the next one at the latest.      *)
PendingTimedOutInTime ==
  \A c \in Cores :
    pendingSince[c] # NotPending =>
      now - pendingSince[c] < MaxOf(AvailabilityPeriod(c), Freq)

(* Within a session, from one block to the next the group on each core     *)
(* moves by one exactly when a rotation boundary is crossed.              *)
GroupsRotateByOne ==
  [][(now' = now + 1 /\ sessionStart' = sessionStart /\ now' >= sessionStart) =>
       \A c \in Cores :
         IF (now' - sessionStart) % Freq = 0 /\ now >= sessionStart
         THEN GroupAssignedToCore(c, now') = (GroupAssignedToCore(c, now) + 1) % NCores
         ELSE now >= sessionStart =>
                GroupAssignedToCore(c, now') = GroupAssignedToCore(c, now)]_vars

=============================================================================
