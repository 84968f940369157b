------------------------------ MODULE Scheduler ------------------------------
(***************************************************************************)
(* The scheduler pallet of src/indracore/runtime/src/scheduler/mod.rs:     *)
(* availability cores, the indrabase claim queue and its claim index, the  *)
(* Scheduled list, validator groups and the session-change hook.           *)
(*                                                                         *)
(* Each action is one entry point of Pallet<T> and models its whole body,  *)
(* storage writes included.  The caller, the inclusion inherent, is not    *)
(* under src/: it runs clear, then schedule, then occupied in every block, *)
(* and a session change is enacted at the end of a block.  With MultiCall  *)
(* the caller may also call schedule and occupied again within a block,    *)
(* which is what exercises the merge of schedule into a non-empty list.    *)
(* Block numbers, group rotation and the timeout predicate are in the      *)
(* module RotationClock; here the group index of an assignment is left     *)
(* out and the reason a core is freed is chosen by the environment.        *)
(***************************************************************************)
EXTENDS Naturals, Sequences, SequencesExt, FiniteSets

CONSTANTS
  Threads,          \* indrabase ids (IndraId of live or dead indrabases)
  Collators,        \* collator ids that may submit a claim
  ChainCounts,      \* possible lengths of indras::indracores()
  ValidatorCounts,  \* possible lengths of the session's validator list
  Configs,          \* possible HostConfiguration snapshots
  MultiCall         \* may schedule/occupied be called again in one block?

ConfigType ==
  [indrabase_cores: Nat, scheduling_lookahead: Nat,
   indrabase_retries: Nat, max_validators_per_core: Nat]  \* 0 means None

ASSUME Configs \subseteq ConfigType /\ Configs # {}
ASSUME ChainCounts \subseteq Nat /\ ValidatorCounts \subseteq Nat
ASSUME MultiCall \in BOOLEAN

VARIABLES
  availabilityCores, \* AvailabilityCores: core index -> occupant
  queue,             \* IndrabaseQueue.queue: Seq of QueuedIndrabase
  nextCoreOffset,    \* IndrabaseQueue.next_core_offset
  claimIndex,        \* IndrabaseClaimIndex, a sorted Vec without repeats
  scheduled,         \* Scheduled: Seq of CoreAssignment
  validatorGroups,   \* ValidatorGroups: Seq of Seq of ValidatorIndex
  config,            \* configuration::config()
  nChains,           \* indras::indracores().len()
  liveThreads,       \* the ids for which indras::is_indrabase holds
  phase,             \* where the block's inclusion inherent is
  panicked           \* a runtime panic invalidated the block

vars == <<availabilityCores, queue, nextCoreOffset, claimIndex, scheduled,
          validatorGroups, config, nChains, liveThreads, phase, panicked>>

-----------------------------------------------------------------------------
(* Values: Option<CoreOccupied>, IndrabaseEntry, QueuedIndrabase.          *)

None == [occ |-> "none"]
IndracoreOcc == [occ |-> "indracore"]
IndrabaseOcc(e) == [occ |-> "indrabase", entry |-> e]

Entry(id, col, r) == [id |-> id, collator |-> col, retries |-> r]

CoreSeq == [i \in 1..Cardinality(DOMAIN availabilityCores) |->
              availabilityCores[i - 1]]

(* The claim queue as one value, as IndrabaseClaimQueue is one value.      *)
Q == [queue |-> queue, next |-> nextCoreOffset]

(* IndrabaseClaimQueue::enqueue_entry; n must be > 0 (the % panics).       *)
EnqueueEntry(q, e, n) ==
  [queue |-> Append(q.queue, [claim |-> e, core_offset |-> q.next]),
   next  |-> (q.next + 1) % n]

(* IndrabaseClaimQueue::take_next_on_core: <<entry>> or <<>>.             *)
TakeNextOnCore(q, off) ==
  LET i == SelectInSeq(q.queue, LAMBDA x : x.core_offset = off)
  IN IF i = 0 THEN [q |-> q, taken |-> <<>>]
     ELSE [q |-> [q EXCEPT !.queue = RemoveAt(@, i)],
           taken |-> <<q.queue[i].claim>>]

-----------------------------------------------------------------------------
(* Lookahead queries, read-only.                                           *)

(* Mutant: the head of the queue, whatever core offset it is for.        *)
GetNextOnCoreAnyOffset(off) ==
  IF queue = <<>> THEN <<>> ELSE <<queue[1].claim>>

(* IndrabaseClaimQueue::get_next_on_core: <<entry>> or <<>>.              *)
GetNextOnCore(off) ==
  LET i == SelectInSeq(queue, LAMBDA x : x.core_offset = off)
  IN IF i = 0 THEN <<>> ELSE <<queue[i].claim>>

(* ScheduledCore: the indra id and the required collator, if any.        *)
ScheduledCore(o) ==
  IF o.occ = "indracore" THEN [chain |-> TRUE]
  ELSE [id |-> o.entry.id, collator |-> o.entry.collator]

(* next_up_on_available, for a core of the current session.               *)
NextUpOnAvailable(c) ==
  IF c < nChains THEN <<ScheduledCore(IndracoreOcc)>>
  ELSE LET n == GetNextOnCore(c - nChains)
       IN [k \in DOMAIN n |-> ScheduledCore(IndrabaseOcc(n[k]))]

(* next_up_on_time_out: the queued claim, else the occupying claim.       *)
NextUpOnTimeOut(c) ==
  IF c < nChains THEN <<ScheduledCore(IndracoreOcc)>>
  ELSE LET n == GetNextOnCore(c - nChains)
       IN IF n # <<>> THEN <<ScheduledCore(IndrabaseOcc(n[1]))>>
          ELSE IF availabilityCores[c].occ = "indrabase"
          THEN <<ScheduledCore(availabilityCores[c])>>
          ELSE <<>>

-----------------------------------------------------------------------------
(* Session change: initializer_on_new_session.                             *)

NCores(cfg, nc, v) ==
  LET byValidators == IF cfg.max_validators_per_core # 0
                      THEN v \div cfg.max_validators_per_core ELSE 0
  IN IF nc + cfg.indrabase_cores >= byValidators
     THEN nc + cfg.indrabase_cores ELSE byValidators

(* Mutant: the smaller groups start after larger groups of base size.    *)
GroupsOffsetOffByOne(v, n) ==
  IF n = 0 \/ v = 0 THEN <<>>
  ELSE LET base == v \div n
           larger == v % n
       IN [g \in 1..n |->
             IF g <= larger
             THEN [j \in 1..base + 1 |-> (base + 1) * (g - 1) + (j - 1)]
             ELSE [j \in 1..base |->
                     larger * base + (g - 1 - larger) * base + (j - 1)]]

(* Validator indices 0..v-1 cut into n groups, the larger ones first.      *)
Groups(v, n) ==
  IF n = 0 \/ v = 0 THEN <<>>
  ELSE LET base == v \div n
           larger == v % n
       IN [g \in 1..n |->
             IF g <= larger
             THEN [j \in 1..base + 1 |-> (base + 1) * (g - 1) + (j - 1)]
             ELSE [j \in 1..base |->
                     larger * (base + 1) + (g - 1 - larger) * base + (j - 1)]]

(* Mutant: the queue keeps the offsets it had under the old config.       *)
RebalanceKeepOffsets(kept, n) ==
  [queue |-> kept, next |-> Len(kept) % n]

(* Re-balancing: offsets by position, next offset after the last.          *)
Rebalance(kept, n) ==
  [queue |-> [i \in 1..Len(kept) |-> [kept[i] EXCEPT !.core_offset = (i - 1) % n]],
   next  |-> Len(kept) % n]

NewSession ==
  /\ ~panicked
  /\ phase = "end" \/ (MultiCall /\ phase = "occupy")
  /\ \E cfg \in Configs, v \in ValidatorCounts, nc \in ChainCounts,
        live \in SUBSET Threads :
       LET n == NCores(cfg, nc, v)
           fromCores == SelectSeq(CoreSeq, LAMBDA o : o.occ = "indrabase")
           requeued == queue \o [i \in 1..Len(fromCores) |->
                                   [claim |-> fromCores[i].entry, core_offset |-> 0]]
           Keep(qd) == qd.claim.retries <= cfg.indrabase_retries /\ qd.claim.id \in live
           kept == SelectSeq(requeued, Keep)
           pruned == {requeued[i].claim.id : i \in {j \in DOMAIN requeued : ~Keep(requeued[j])}}
           rebalanced == Rebalance(kept, cfg.indrabase_cores)
       IN /\ availabilityCores' = [c \in 0..n - 1 |-> None]
          /\ validatorGroups' = Groups(v, n)
          /\ IF cfg.indrabase_cores = 0
             THEN /\ queue' = <<>> /\ nextCoreOffset' = 0 /\ claimIndex' = {}
             ELSE /\ queue' = rebalanced.queue
                  /\ nextCoreOffset' = rebalanced.next
                  /\ claimIndex' = claimIndex \ pruned
          /\ config' = cfg
          /\ nChains' = nc
          /\ liveThreads' = live
  /\ phase' = "clear"
  /\ UNCHANGED <<scheduled, panicked>>

-----------------------------------------------------------------------------
(* add_indrabase_claim: every early return is a no-op, so a guard.         *)

(* Mutant: the competing-claim check on the index is missing.             *)
AddIndrabaseClaimNoIndexCheck(id, col) ==
  /\ ~panicked
  /\ id \in liveThreads
  /\ Len(queue) < config.indrabase_cores * config.scheduling_lookahead
  /\ claimIndex' = claimIndex \cup {id}
  /\ LET q == EnqueueEntry(Q, Entry(id, col, 0), config.indrabase_cores)
     IN queue' = q.queue /\ nextCoreOffset' = q.next
  /\ UNCHANGED <<availabilityCores, scheduled, validatorGroups, config,
                 nChains, liveThreads, phase, panicked>>

AddIndrabaseClaim(id, col) ==
  /\ ~panicked
  /\ id \in liveThreads
  /\ Len(queue) < config.indrabase_cores * config.scheduling_lookahead
  /\ id \notin claimIndex
  /\ claimIndex' = claimIndex \cup {id}
  /\ LET q == EnqueueEntry(Q, Entry(id, col, 0), config.indrabase_cores)
     IN queue' = q.queue /\ nextCoreOffset' = q.next
  /\ UNCHANGED <<availabilityCores, scheduled, validatorGroups, config,
                 nChains, liveThreads, phase, panicked>>

-----------------------------------------------------------------------------
(* free_cores, one freed (core, reason) pair on s = [cores, q, index,      *)
(* panic].                                                                 *)

(* Mutant: the index entry is removed whatever the reason.               *)
FreeCoreUnindexAlways(s, c, reason) ==
  IF c \notin DOMAIN s.cores THEN s
  ELSE LET occ == s.cores[c]
           s0 == [s EXCEPT !.cores[c] = None]
       IN CASE occ.occ # "indrabase" -> s0
            [] reason = "Concluded" -> [s0 EXCEPT !.index = @ \ {occ.entry.id}]
            [] config.indrabase_cores = 0 -> [s0 EXCEPT !.panic = TRUE]
            [] OTHER -> [s0 EXCEPT !.q = EnqueueEntry(@, occ.entry, config.indrabase_cores),
                                   !.index = @ \ {occ.entry.id}]

(* Mutant: a time-out is charged to the collator as a retry.              *)
FreeCoreChargeTimeout(s, c, reason) ==
  IF c \notin DOMAIN s.cores THEN s
  ELSE LET occ == s.cores[c]
           s0 == [s EXCEPT !.cores[c] = None]
       IN CASE occ.occ # "indrabase" -> s0
            [] reason = "Concluded" -> [s0 EXCEPT !.index = @ \ {occ.entry.id}]
            [] config.indrabase_cores = 0 -> [s0 EXCEPT !.panic = TRUE]
            [] OTHER -> [s0 EXCEPT !.q = EnqueueEntry(@, [occ.entry EXCEPT !.retries = @ + 1],
                                                      config.indrabase_cores)]

FreeCore(s, c, reason) ==
  IF c \notin DOMAIN s.cores THEN s
  ELSE LET occ == s.cores[c]
           s0 == [s EXCEPT !.cores[c] = None]
       IN CASE occ.occ # "indrabase" -> s0
            [] reason = "Concluded" -> [s0 EXCEPT !.index = @ \ {occ.entry.id}]
            [] config.indrabase_cores = 0 -> [s0 EXCEPT !.panic = TRUE]
            [] OTHER -> [s0 EXCEPT !.q = EnqueueEntry(@, occ.entry, config.indrabase_cores)]

FreeCores(s, freed) == FoldLeft(LAMBDA acc, f : FreeCore(acc, f[1], f[2]), s, freed)

(* The 0-based position of the first assignment at core >= c in sched.     *)
InsertPos(sched, c) ==
  LET i == SelectInSeq(sched, LAMBDA a : a.core >= c)
  IN IF i = 0 THEN Len(sched) ELSE i - 1

(* Mutant: the core just past the indracores is also an indracore core.   *)
SweepCoreChainOffByOne(acc, c) ==
  LET at == InsertPos(scheduled, c)
  IN IF at < Len(scheduled) /\ scheduled[at + 1].core = c THEN acc
     ELSE IF c <= nChains
     THEN [acc EXCEPT !.updates = Append(@, [at |-> at,
              a |-> [core |-> c, kind |-> IndracoreOcc]])]
     ELSE LET t == TakeNextOnCore(acc.q, c - nChains)
          IN [q |-> t.q,
              updates |-> acc.updates \o
                [k \in DOMAIN t.taken |-> [at |-> at,
                   a |-> [core |-> c, kind |-> IndrabaseOcc(t.taken[k])]]]]

(* One step of schedule's sweep over free core c, acc = [q, updates].      *)
SweepCore(acc, c) ==
  LET at == InsertPos(scheduled, c)
  IN IF at < Len(scheduled) /\ scheduled[at + 1].core = c THEN acc
     ELSE IF c < nChains
     THEN [acc EXCEPT !.updates = Append(@, [at |-> at,
              a |-> [core |-> c, kind |-> IndracoreOcc]])]
     ELSE LET t == TakeNextOnCore(acc.q, c - nChains)
          IN [q |-> t.q,
              updates |-> acc.updates \o
                [k \in DOMAIN t.taken |-> [at |-> at,
                   a |-> [core |-> c, kind |-> IndrabaseOcc(t.taken[k])]]]]

(* Mutant: insertion positions ignore the insertions already made.        *)
ApplyUpdatesNoShift(sched, ups) ==
  FoldLeft(LAMBDA s, k : InsertAt(s, ups[k].at + 1, ups[k].a),
           sched, [k \in 1..Len(ups) |-> k])

(* Enact the updates, shifting each by the insertions already made.        *)
ApplyUpdates(sched, ups) ==
  FoldLeft(LAMBDA s, k : InsertAt(s, ups[k].at + (k - 1) + 1, ups[k].a),
           sched, [k \in 1..Len(ups) |-> k])

(* The freed list: sorted by core, each core with a reason.               *)
FreedLists ==
  { SelectSeq([i \in 1..Len(CoreSeq) |-> <<i - 1, f[i - 1]>>],
              LAMBDA p : p[2] # "kept") :
      f \in [DOMAIN availabilityCores -> {"kept", "Concluded", "TimedOut"}] }

Schedule(freed) ==
  LET s == FreeCores([cores |-> availabilityCores, q |-> Q, index |-> claimIndex,
                      panic |-> FALSE], freed)
      free == SelectSeq([i \in 1..Len(CoreSeq) |-> i - 1],
                        LAMBDA c : s.cores[c] = None)
      sweep == FoldLeft(SweepCore, [q |-> s.q, updates |-> <<>>], free)
  IN IF s.panic
     THEN panicked' = TRUE /\ UNCHANGED <<availabilityCores, queue,
            nextCoreOffset, claimIndex, scheduled>>
     ELSE /\ availabilityCores' = s.cores
          /\ claimIndex' = s.index
          /\ IF validatorGroups = <<>>
             THEN queue' = s.q.queue /\ nextCoreOffset' = s.q.next
                  /\ UNCHANGED scheduled
             ELSE /\ scheduled' = ApplyUpdates(scheduled, sweep.updates)
                  /\ queue' = sweep.q.queue /\ nextCoreOffset' = sweep.q.next
          /\ UNCHANGED panicked

(* The inherent's call of schedule with the freed list it collected.       *)
ScheduleWith(freed) ==
  /\ ~panicked
  /\ phase = "schedule" \/ (MultiCall /\ phase = "occupy")
  /\ Schedule(freed)
  /\ phase' = "occupy"
  /\ UNCHANGED <<validatorGroups, config, nChains, liveThreads>>

ScheduleStep == \E freed \in FreedLists : ScheduleWith(freed)

-----------------------------------------------------------------------------
(* occupied: the caller passes a sorted subset of the scheduled cores.     *)

(* Mutant: the peeked core is not consumed when it matches.              *)
OccupyOneNoAdvance(acc, a) ==
  IF acc.rest # <<>> /\ Head(acc.rest) = a.core
  THEN [acc EXCEPT !.taken = Append(@, a)]
  ELSE [acc EXCEPT !.kept = Append(@, a)]

(* One step of scheduled.retain: an assignment whose core is the peeked    *)
(* input core is taken and the input advances; any other is retained.     *)
OccupyOne(acc, a) ==
  IF acc.rest # <<>> /\ Head(acc.rest) = a.core
  THEN [acc EXCEPT !.rest = Tail(@), !.taken = Append(@, a)]
  ELSE [acc EXCEPT !.kept = Append(@, a)]

(* The retain loop over sched with the peekable input now (a sequence).   *)
OccupiedRetain(sched, now) ==
  FoldLeft(OccupyOne, [rest |-> now, kept |-> <<>>, taken |-> <<>>], sched)

(* The taken assignments' cores get to_core_occupied; Scheduled keeps the  *)
(* rest.                                                                   *)
Occupied(now) ==
  LET r == OccupiedRetain(scheduled, now)
  IN /\ availabilityCores' =
          [c \in DOMAIN availabilityCores |->
             IF \E i \in DOMAIN r.taken : r.taken[i].core = c
             THEN r.taken[SelectInSeq(r.taken, LAMBDA a : a.core = c)].kind
             ELSE availabilityCores[c]]
     /\ scheduled' = r.kept

OccupiedStep ==
  /\ ~panicked
  /\ phase = "occupy"
  /\ \E now \in SUBSET {scheduled[i].core : i \in DOMAIN scheduled} :
       IF now = {} THEN UNCHANGED <<availabilityCores, scheduled>>
       ELSE Occupied(SetToSortSeq(now, <))
  /\ phase' = IF MultiCall THEN "occupy" ELSE "end"
  /\ UNCHANGED <<queue, nextCoreOffset, claimIndex, validatorGroups, config,
                 nChains, liveThreads, panicked>>

-----------------------------------------------------------------------------
(* clear: scheduled indrabase claims go back with one more retry.          *)

(* Mutant: the retry count is decremented instead of incremented.         *)
ClearOneWrongSign(r, a) ==
  IF /\ a.kind.occ = "indrabase"
     /\ a.kind.entry.id \in liveThreads
     /\ a.kind.entry.retries - 1 <= config.indrabase_retries
  THEN IF config.indrabase_cores = 0 THEN [r EXCEPT !.panic = TRUE]
       ELSE [r EXCEPT !.q = EnqueueEntry(@, [a.kind.entry EXCEPT !.retries = @ - 1],
                                        config.indrabase_cores)]
  ELSE r

ClearOne(r, a) ==
  IF /\ a.kind.occ = "indrabase"
     /\ a.kind.entry.id \in liveThreads
     /\ a.kind.entry.retries + 1 <= config.indrabase_retries
  THEN IF config.indrabase_cores = 0 THEN [r EXCEPT !.panic = TRUE]
       ELSE [r EXCEPT !.q = EnqueueEntry(@, [a.kind.entry EXCEPT !.retries = @ + 1],
                                        config.indrabase_cores)]
  ELSE r

Clear ==
  /\ ~panicked
  /\ phase = "clear"
  /\ LET r == FoldLeft(ClearOne, [q |-> Q, panic |-> FALSE], scheduled)
     IN IF r.panic
        THEN panicked' = TRUE /\ UNCHANGED <<queue, nextCoreOffset, scheduled, phase>>
        ELSE /\ queue' = r.q.queue /\ nextCoreOffset' = r.q.next
             /\ scheduled' = <<>>
             /\ phase' = "schedule"
             /\ UNCHANGED panicked
  /\ UNCHANGED <<availabilityCores, claimIndex, validatorGroups, config,
                 nChains, liveThreads>>

-----------------------------------------------------------------------------
(* A block without a session change ends; the next one starts.             *)

NewBlock ==
  /\ ~panicked
  /\ phase = "end" \/ (MultiCall /\ phase = "occupy")
  /\ phase' = "clear"
  /\ UNCHANGED <<availabilityCores, queue, nextCoreOffset, claimIndex, scheduled,
                 validatorGroups, config, nChains, liveThreads, panicked>>

(* After a panic no block can be built on this state.                      *)
Halted == panicked /\ UNCHANGED vars

Init ==
  /\ availabilityCores = [c \in {} |-> None]
  /\ queue = <<>>
  /\ nextCoreOffset = 0
  /\ claimIndex = {}
  /\ scheduled = <<>>
  /\ validatorGroups = <<>>
  /\ config \in Configs
  /\ nChains \in ChainCounts
  /\ liveThreads \in SUBSET Threads
  /\ phase = "end"
  /\ panicked = FALSE

Next ==
  \/ \E id \in Threads, col \in Collators : AddIndrabaseClaim(id, col)
  \/ Clear
  \/ ScheduleStep
  \/ OccupiedStep
  \/ NewBlock
  \/ NewSession
  \/ Halted

Spec == Init /\ [][Next]_vars

-----------------------------------------------------------------------------
(* Claims held anywhere: queued, scheduled or occupying a core.            *)

QueuedIds == {queue[i].claim.id : i \in DOMAIN queue}
ScheduledIds == {scheduled[i].kind.entry.id :
                   i \in {j \in DOMAIN scheduled : scheduled[j].kind.occ = "indrabase"}}
OccupyingIds == {availabilityCores[c].entry.id :
                   c \in {d \in DOMAIN availabilityCores :
                            availabilityCores[d].occ = "indrabase"}}
ClaimedIds == QueuedIds \cup ScheduledIds \cup OccupyingIds

(* The places a claim on indrabase t is held, counted with repeats.        *)
Holdings(t) ==
  Len(SelectSeq(queue, LAMBDA qd : qd.claim.id = t))
  + Cardinality({i \in DOMAIN scheduled :
                   scheduled[i].kind.occ = "indrabase" /\ scheduled[i].kind.entry.id = t})
  + Cardinality({c \in DOMAIN availabilityCores :
                   availabilityCores[c].occ = "indrabase"
                   /\ availabilityCores[c].entry.id = t})

(* The entry of the claim on t, wherever it is held (t \in ClaimedIds).    *)
EntryOf(t) ==
  CHOOSE e \in {queue[i].claim : i \in DOMAIN queue}
                \cup {scheduled[i].kind.entry :
                        i \in {j \in DOMAIN scheduled : scheduled[j].kind.occ = "indrabase"}}
                \cup {availabilityCores[c].entry :
                        c \in {d \in DOMAIN availabilityCores :
                                 availabilityCores[d].occ = "indrabase"}} : e.id = t

(* core_indra: the indra on a core, <<>> for None; for an indracore it    *)
(* indexes indras::indracores() by the core index, which panics out of     *)
(* range.  Indracore ids are not modelled: the chain is named by index.    *)
CoreIndra(c) ==
  CASE c \notin DOMAIN availabilityCores \/ availabilityCores[c] = None -> <<>>
    [] availabilityCores[c] = IndracoreOcc ->
         IF c < nChains THEN <<[chain |-> c]>> ELSE "IndexOutOfBounds"
    [] OTHER -> <<availabilityCores[c].entry.id>>

(* group_validators: <<the group>>, or <<>> for an index out of range.     *)
GroupValidators(g) ==
  IF g < Len(validatorGroups) THEN <<validatorGroups[g + 1]>> ELSE <<>>

(* The refinement mapping: where a thread's claim is, the core first.      *)
LifecycleStatus ==
  [t \in Threads |-> CASE t \in OccupyingIds -> "occupied"
                       [] t \in ScheduledIds -> "scheduled"
                       [] t \in QueuedIds -> "queued"
                       [] OTHER -> "idle"]

LifecycleAttempts ==
  [t \in Threads |-> IF t \in ClaimedIds THEN EntryOf(t).retries ELSE 0]

Lifecycle == INSTANCE ClaimLifecycle
               WITH status <- LifecycleStatus, attempts <- LifecycleAttempts

TypeOK ==
  /\ DOMAIN availabilityCores = 0..Cardinality(DOMAIN availabilityCores) - 1
  /\ \A c \in DOMAIN availabilityCores :
       availabilityCores[c] \in {None, IndracoreOcc}
       \/ (availabilityCores[c].occ = "indrabase"
           /\ availabilityCores[c].entry \in [id: Threads, collator: Collators, retries: Nat])
  /\ \A i \in DOMAIN queue :
       /\ queue[i].claim \in [id: Threads, collator: Collators, retries: Nat]
       /\ queue[i].core_offset \in Nat
  /\ nextCoreOffset \in Nat
  /\ claimIndex \subseteq Threads
  /\ \A i \in DOMAIN scheduled : scheduled[i].core \in Nat
  /\ config \in Configs /\ nChains \in ChainCounts /\ liveThreads \subseteq Threads
  /\ phase \in {"clear", "schedule", "occupy", "end"}
  /\ panicked \in BOOLEAN

(* At most one claim per indrabase exists across the queue, the Scheduled  *)
(* list and the occupied cores (the purpose of IndrabaseClaimIndex, kept   *)
(* by add_indrabase_claim, free_cores, clear and the session change).      *)
AtMostOneClaimPerIndrabase == \A t \in Threads : Holdings(t) <= 1

(* Every claim held anywhere is in the claim index, so the duplicate check *)
(* of add_indrabase_claim sees it (free_cores and session pruning must     *)
(* only remove ids whose claim has gone).                                  *)
ClaimIndexCoversClaims == ClaimedIds \subseteq claimIndex

(* Scheduled is strictly ascending by core, names only existing cores and  *)
(* never a core that is occupied: the merge in schedule and the sweep in   *)
(* occupied keep this across repeated calls within a block.                *)
ScheduledSortedAndFree ==
  /\ \A i \in 1..Len(scheduled) - 1 : scheduled[i].core < scheduled[i + 1].core
  /\ phase # "clear" =>
       \A i \in DOMAIN scheduled :
         /\ scheduled[i].core \in DOMAIN availabilityCores
         /\ availabilityCores[scheduled[i].core] = None

(* Queued claims respect the active configuration: their core offset (and  *)
(* the next offset) name an indrabase core, and their retries are within   *)
(* the limit (clear, the session re-balancing and pruning).                *)
QueueRespectsConfig ==
  /\ config.indrabase_cores > 0 => nextCoreOffset < config.indrabase_cores
  /\ \A i \in DOMAIN queue :
       /\ queue[i].core_offset < config.indrabase_cores
       /\ queue[i].claim.retries <= config.indrabase_retries

(* A claim keeps its collator while it lives, and its retries only grow by *)
(* one, and only when it was scheduled and not backed (clear); a time-out  *)
(* in free_cores is not charged to the collator.                           *)
ClaimIdentityStable ==
  [][\A t \in ClaimedIds \cap ClaimedIds' :
       /\ EntryOf(t)'.collator = EntryOf(t).collator
       /\ EntryOf(t)'.retries \in {EntryOf(t).retries, EntryOf(t).retries + 1}
       /\ EntryOf(t)'.retries = EntryOf(t).retries + 1 => t \in ScheduledIds]_vars

(* The scheduler implements the claim lifecycle: a claim enters only via   *)
(* add_indrabase_claim's queue, reaches a core only from the Scheduled     *)
(* list, leaves a core only in schedule (free_cores) or at a session       *)
(* change, and each entry point moves claims only along its own edges,     *)
(* in every interleaving of the entry points within and across blocks.     *)
ImplementsClaimLifecycle == Lifecycle!Spec

(* core_indra answers for every core without panicking: an indracore     *)
(* occupies only a core below indras::indracores().len(), although         *)
(* occupied, schedule and the session change run in any order and the     *)
(* number of indracores changes at a session.                              *)
CoreIndraInBounds ==
  \A c \in DOMAIN availabilityCores : CoreIndra(c) # "IndexOutOfBounds"

(* The session's validators are cut into one group per availability core,  *)
(* in order and without gaps, the sizes differing by at most one (the      *)
(* shuffle in initializer_on_new_session, read by group_validators and     *)
(* group_assigned_to_core, which indexes groups by core).                  *)
ValidatorGroupsPerCore ==
  validatorGroups # <<>> =>
    LET flat == FlattenSeq(validatorGroups)
    IN /\ \A c \in DOMAIN availabilityCores : GroupValidators(c) # <<>>
       /\ GroupValidators(Len(CoreSeq)) = <<>>
       /\ flat = [i \in 1..Len(flat) |-> i - 1]
       /\ \A g, h \in DOMAIN validatorGroups :
            Len(validatorGroups[g]) <= Len(validatorGroups[h]) + 1

(* occupied's doc comment: for a sorted subset of the scheduled cores, the *)
(* retain-and-peek loop takes exactly the assignments on the given cores,  *)
(* consumes the whole input and keeps the others in order; checked in      *)
(* every reachable state for every such input against SelectSeq.          *)
OccupiedRetainMatchesContract ==
  \A given \in SUBSET {scheduled[i].core : i \in DOMAIN scheduled} :
    LET r == OccupiedRetain(scheduled, SetToSortSeq(given, <))
    IN /\ r.rest = <<>>
       /\ r.taken = SelectSeq(scheduled, LAMBDA a : a.core \in given)
       /\ r.kept = SelectSeq(scheduled, LAMBDA a : a.core \notin given)

(* Violated: IndrabaseClaimIndex holds only ids that have a claim queued,  *)
(* scheduled or occupying a core (its storage comment); clear drops a      *)
(* claim past its retries, or of a dead indrabase, and leaves its id.      *)
ClaimIndexHasNoStaleIds == claimIndex \subseteq ClaimedIds

(* Violated: no entry point panics; clear re-enqueues with % 0 when the    *)
(* session change set indrabase_cores to 0 while a claim was scheduled.    *)
NoPanic == ~panicked

(* Violated: the queue holds at most indrabase_cores * scheduling_lookahead *)
(* claims (the IndrabaseQueue storage comment); only add_indrabase_claim   *)
(* checks it, time-outs and the session change re-enqueue past it.         *)
QueueWithinCapacity ==
  Len(queue) <= config.indrabase_cores * config.scheduling_lookahead

(* What schedule assigns to core c in this step, as a ScheduledCore.      *)
AssignedOn(c) ==
  LET i == SelectInSeq(scheduled, LAMBDA a : a.core = c)
  IN IF i = 0 THEN <<>> ELSE <<ScheduledCore(scheduled[i].kind)>>

(* A schedule step in which core c, and no other core, was freed.         *)
FreedOnlyBySchedule(c) ==
  /\ phase' = "occupy" /\ phase \in {"schedule", "occupy"} /\ ~panicked'
  /\ validatorGroups # <<>>
  /\ availabilityCores[c] # None /\ availabilityCores'[c] = None
  /\ \A d \in DOMAIN availabilityCores \ {c} :
       availabilityCores'[d] = availabilityCores[d]

(* next_up_on_available is what schedule puts on a core freed because its *)
(* candidate concluded (the indracore, or the first queued claim on the    *)
(* core's offset, or nothing).                                             *)
NextUpOnAvailableIsScheduled ==
  [][\A c \in DOMAIN availabilityCores :
       (/\ FreedOnlyBySchedule(c)
        /\ availabilityCores[c].occ = "indrabase" => availabilityCores[c].entry.id \notin claimIndex')
       => AssignedOn(c)' = NextUpOnAvailable(c)]_vars

(* Violated: next_up_on_time_out is what schedule puts on a core freed by  *)
(* a time-out (its doc comment: the occupying claim, "as it would be put   *)
(* back on the queue"); free_cores re-enqueues it at next_core_offset,     *)
(* which may be another core's offset.                                     *)
NextUpOnTimeOutIsScheduled ==
  [][\A c \in DOMAIN availabilityCores :
       (/\ FreedOnlyBySchedule(c)
        /\ availabilityCores[c].occ = "indrabase"
        /\ availabilityCores[c].entry.id \in claimIndex')
       => AssignedOn(c)' = NextUpOnTimeOut(c)]_vars

=============================================================================
