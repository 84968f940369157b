------------------------------ MODULE XcmBarrier ------------------------------
(***************************************************************************)
(* The XCM barrier of forests/common/src/xcm_config.rs: DenyThenTry runs   *)
(* a Deny barrier and, only if it lets the message through, an Allow       *)
(* barrier; DenyReserveTransferToRelayChain is the Deny barrier that       *)
(* refuses any message that moves assets in reserve to the relay chain.    *)
(*                                                                         *)
(* The barriers are pure: the module feeds the executor's should_execute   *)
(* one inbound message at a time and records its verdict, so that TLC      *)
(* checks the code's barrier against the behaviour its comments describe   *)
(* over every message up to MaxLen instructions.  The Allow barrier is a   *)
(* parameter of DenyThenTry; here it admits the origins in AllowedOrigins. *)
(* Logging (the warning on ReserveAssetDeposited from the relay chain) is  *)
(* left out: it changes no state.                                          *)
(***************************************************************************)
EXTENDS Naturals, Sequences, SequencesExt

CONSTANTS
  MaxParents,      \* MultiLocation.parents ranges over 0..MaxParents
  Interiors,       \* a few Junctions values, "Here" among them
  AllowedOrigins,  \* the origins the Allow barrier admits
  MaxLen           \* longest message fed to the barrier

Locations == [parents : 0..MaxParents, interior : Interiors]

(* MultiLocation { parents: 1, interior: Here }: the relay chain.          *)
RelayChain == [parents |-> 1, interior |-> "Here"]

ASSUME "Here" \in Interiors /\ AllowedOrigins \subseteq Locations

(* The instructions the barrier looks at, with the location each carries   *)
(* (reserve for InitiateReserveWithdraw, dest for the two others); every   *)
(* other instruction is "Other".  SetAppendix and SetErrorHandler carry an *)
(* Xcm of their own that the executor runs after the message or on its    *)
(* error; the model nests such a program one level deep.                   *)
ReserveKinds ==
  {"InitiateReserveWithdraw", "DepositReserveAsset", "TransferReserveAsset"}

NestKinds == {"SetAppendix", "SetErrorHandler"}

FlatInstructions ==
  [kind : ReserveKinds, loc : Locations, inner : {<<>>}]
    \cup [kind : {"ReserveAssetDeposited", "Other"}, loc : {RelayChain},
          inner : {<<>>}]

Instructions ==
  FlatInstructions
    \cup [kind : NestKinds, loc : {RelayChain},
          inner : BoundedSeq(FlatInstructions, 1) \ {<<>>}]

Messages == BoundedSeq(Instructions, MaxLen)

VARIABLES
  origin,   \* the origin of the last message
  message,  \* the last message, a Vec<Instruction>
  verdict   \* the barrier's answer: "Ok", "Err", or "idle" between messages

vars == <<origin, message, verdict>>

-----------------------------------------------------------------------------
(* The matches! of DenyReserveTransferToRelayChain.                        *)
IsReserveTransferToRelay(inst) ==
  inst.kind \in ReserveKinds /\ inst.loc = RelayChain

(* message.0.iter().any(...), stopping at the first match.                 *)
RECURSIVE AnyReserveTransferToRelay(_)
AnyReserveTransferToRelay(m) ==
  IF m = <<>> THEN FALSE
  ELSE IsReserveTransferToRelay(Head(m)) \/ AnyReserveTransferToRelay(Tail(m))

(* DenyReserveTransferToRelayChain::should_execute; TRUE is Ok(()).        *)
DenyReserveTransferToRelayChain(o, m) == ~AnyReserveTransferToRelay(m)

Allow(o, m) == o \in AllowedOrigins

(* DenyThenTry::should_execute: Deny::should_execute(..)? then Allow.      *)
DenyThenTry(o, m) == DenyReserveTransferToRelayChain(o, m) /\ Allow(o, m)

(* The executor asks the barrier about an inbound message.                 *)
ShouldExecute(o, m) ==
  /\ verdict = "idle"
  /\ origin' = o
  /\ message' = m
  /\ verdict' = IF DenyThenTry(o, m) THEN "Ok" ELSE "Err"

(* The executor is done with the message and waits for the next one.      *)
NextMessage ==
  /\ verdict # "idle"
  /\ origin' = RelayChain
  /\ message' = <<>>
  /\ verdict' = "idle"

Init ==
  /\ origin = RelayChain
  /\ message = <<>>
  /\ verdict = "idle"

Next ==
  \/ \E o \in Locations, m \in Messages : ShouldExecute(o, m)
  \/ NextMessage

Spec == Init /\ [][Next]_vars

-----------------------------------------------------------------------------
(* A reserve transfer to the relay chain the executor may run for m: one   *)
(* of its instructions, or one of the appendix or error handler it sets.   *)
RunsReserveTransferToRelay(m) ==
  \E i \in DOMAIN m :
    \/ IsReserveTransferToRelay(m[i])
    \/ m[i].kind \in NestKinds /\ \E j \in DOMAIN m[i].inner :
                                   IsReserveTransferToRelay(m[i].inner[j])

(* Issue 5233, which DenyReserveTransferToRelayChain answers: no message  *)
(* the barrier admits makes the executor send assets in reserve to the     *)
(* relay chain, neither in its own instructions nor in the appendix or the *)
(* error handler it installs.  The barrier only looks at the top level.    *)
NoReserveTransferToRelayAdmitted ==
  verdict = "Ok" => ~RunsReserveTransferToRelay(message)

=============================================================================
