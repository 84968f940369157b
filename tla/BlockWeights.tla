----------------------------- MODULE BlockWeights -----------------------------
(***************************************************************************)
(* The block weight limits every runtime builds with impl_runtime_weights  *)
(* (runtime/common/src/lib.rs), and the block they allow.  The limits come *)
(* from NORMAL_DISPATCH_RATIO, AVERAGE_ON_INITIALIZE_RATIO and             *)
(* MAXIMUM_BLOCK_WEIGHT through frame_system's BlockWeights builder; a     *)
(* block is filled by frame_system's CheckWeight, which admits or rejects  *)
(* each extrinsic against them.  Builder and CheckWeight are outside this  *)
(* repository and are modelled from their documented behaviour.           *)
(*                                                                         *)
(* Weights are in units of one percent of MAXIMUM_BLOCK_WEIGHT, so the     *)
(* Perbill products below are exact.                                       *)
(***************************************************************************)
EXTENDS Integers

CONSTANTS
  BaseBlock,         \* weights::BlockExecutionWeight
  BaseExtrinsic,     \* weights::ExtrinsicBaseWeight
  ExtrinsicWeights,  \* declared weights of the extrinsics submitted
  InitWeights,       \* weights on_initialize may report
  MaxExtrinsics      \* bound on the extrinsics applied in one block

Classes == {"Normal", "Operational", "Mandatory"}

-----------------------------------------------------------------------------
(* The constants of runtime/common/src/lib.rs, in percent.                 *)
AVERAGE_ON_INITIALIZE_RATIO == 1
NORMAL_DISPATCH_RATIO == 75
MAXIMUM_BLOCK_WEIGHT == 100

(* Perbill * Weight, exact at this scale.                                  *)
PerbillOf(pct, w) == (pct * w) \div 100

(* const_assert!(NORMAL_DISPATCH_RATIO >= AVERAGE_ON_INITIALIZE_RATIO)     *)
ASSUME NORMAL_DISPATCH_RATIO >= AVERAGE_ON_INITIALIZE_RATIO

NormalMaxTotal == PerbillOf(NORMAL_DISPATCH_RATIO, MAXIMUM_BLOCK_WEIGHT)

(* Mutant: the reserve is the whole block.                                 *)
OperationalReservedWhole == MAXIMUM_BLOCK_WEIGHT

(* Operational transactions have the space Normal ones cannot use.         *)
OperationalReserved == MAXIMUM_BLOCK_WEIGHT - NormalMaxTotal

(* The builder calls of impl_runtime_weights: max_total and reserved of    *)
(* each class, 0 for the Some(0) builder default and -1 for None.          *)
MaxTotal ==
  [Normal |-> NormalMaxTotal, Operational |-> MAXIMUM_BLOCK_WEIGHT,
   Mandatory |-> -1]
Reserved ==
  [Normal |-> 0, Operational |-> OperationalReserved, Mandatory |-> -1]

(* build: max_block is the largest max_total; with avg_block_initialization *)
(* each limited class's max_extrinsic is its max_total less the average    *)
(* initialization weight and the base extrinsic weight.                    *)
MaxBlock == MAXIMUM_BLOCK_WEIGHT
MaxExtrinsic(class) ==
  IF MaxTotal[class] < 0 THEN -1
  ELSE MaxTotal[class]
         - PerbillOf(AVERAGE_ON_INITIALIZE_RATIO, MaxBlock) - BaseExtrinsic

-----------------------------------------------------------------------------
VARIABLES
  blockWeight,  \* frame_system::BlockWeight: class -> weight consumed
  applied       \* extrinsics applied in this block, up to MaxExtrinsics

vars == <<blockWeight, applied>>

Total == blockWeight.Normal + blockWeight.Operational + blockWeight.Mandatory

(* CheckWeight::check_extrinsic_weight.                                    *)
CheckExtrinsicWeight(class, w) ==
  MaxExtrinsic(class) < 0 \/ w <= MaxExtrinsic(class)

(* CheckWeight::calculate_consumed_weight: the class total after the       *)
(* extrinsic, within the class's max_total and, when the block total is    *)
(* over max_block, within the class's reserve.                             *)
ConsumedWeight(class, w) ==
  [blockWeight EXCEPT ![class] = @ + w + BaseExtrinsic]

CalculateConsumedWeight(class, w) ==
  LET after == ConsumedWeight(class, w)
      total == after.Normal + after.Operational + after.Mandatory
  IN  /\ MaxTotal[class] < 0 \/ after[class] <= MaxTotal[class]
      /\ total > MaxBlock => Reserved[class] < 0 \/ after[class] <= Reserved[class]

Admits(class, w) ==
  CheckExtrinsicWeight(class, w) /\ CalculateConsumedWeight(class, w)

(* An extrinsic passes CheckWeight and its weight is recorded.            *)
ApplyExtrinsic(class, w) ==
  /\ applied < MaxExtrinsics
  /\ Admits(class, w)
  /\ blockWeight' = ConsumedWeight(class, w)
  /\ applied' = applied + 1

(* frame_system::initialize resets the weight; executive registers the     *)
(* base block weight and on_initialize's weight as Mandatory.              *)
StartWeight(init) == [Normal |-> 0, Operational |-> 0, Mandatory |-> BaseBlock + init]

NewBlock(init) ==
  /\ blockWeight' = StartWeight(init)
  /\ applied' = 0

Init ==
  /\ \E init \in InitWeights : blockWeight = StartWeight(init)
  /\ applied = 0

Next ==
  \/ \E class \in Classes, w \in ExtrinsicWeights : ApplyExtrinsic(class, w)
  \/ \E init \in InitWeights : NewBlock(init)

Spec == Init /\ [][Next]_vars

-----------------------------------------------------------------------------
TypeOK ==
  /\ blockWeight \in [Classes -> Nat]
  /\ applied \in 0..MaxExtrinsics

(* The comment on NORMAL_DISPATCH_RATIO: Normal extrinsics fill at most 75 *)
(* percent of the block and Operational ones the rest, so together they    *)
(* never exceed MAXIMUM_BLOCK_WEIGHT, in whatever order they arrive and    *)
(* however heavy the block's initialization.                               *)
NonMandatoryWithinMax ==
  blockWeight.Normal + blockWeight.Operational <= MAXIMUM_BLOCK_WEIGHT

=============================================================================
