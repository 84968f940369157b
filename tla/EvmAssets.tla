------------------------------ MODULE EvmAssets ------------------------------
(***************************************************************************)
(* EvmRevertCodeHandler (primitives/src/assets.rs): the pallet_assets     *)
(* callback that makes every asset reachable as an ERC20 precompile by     *)
(* putting the EVM revert code at the asset's address, and frees the       *)
(* address when the asset is destroyed.                                    *)
(*                                                                         *)
(* pallet_assets and pallet_evm are outside this repository.  Of them the  *)
(* model keeps what touches AccountCodes: create and force_create run the  *)
(* callback created inside the extrinsic and fail as a whole when it       *)
(* fails; finish_destroy runs destroyed; a contract is deployed only at an *)
(* address with no code, and may later self-destruct.                      *)
(***************************************************************************)
EXTENDS FiniteSets

CONSTANTS
  AssetIds,     \* a few AssetId values
  Addresses,    \* a few H160 addresses, asset addresses among them
  AssetAddress  \* AddressToAssetId::asset_id_to_address

ASSUME AssetAddress \in [AssetIds -> Addresses]
(* The precompile prefixes the asset id, so the mapping is injective.      *)
ASSUME \A i, j \in AssetIds : AssetAddress[i] = AssetAddress[j] => i = j

VARIABLES
  assets,        \* the ids pallet_assets::Asset holds
  accountCodes   \* pallet_evm::AccountCodes: address -> code kind

vars == <<assets, accountCodes>>

NoCode == "none"
RevertCode == "revert"      \* EVM_REVERT_CODE
ContractCode == "contract"  \* any code a deployment leaves

Codes == {NoCode, RevertCode, ContractCode}

-----------------------------------------------------------------------------
(* created: refuse an address that already holds code, else put the revert *)
(* code there.                                                             *)
Created(id) ==
  /\ accountCodes[AssetAddress[id]] = NoCode
  /\ accountCodes' = [accountCodes EXCEPT ![AssetAddress[id]] = RevertCode]

(* Mutant: destroyed leaves the revert code in place.                     *)
DestroyedKeepsCode(id) == accountCodes' = accountCodes

(* destroyed: remove whatever code is at the asset's address.             *)
Destroyed(id) ==
  accountCodes' = [accountCodes EXCEPT ![AssetAddress[id]] = NoCode]

(* pallet_assets create / force_create of a fresh id; an Err from the     *)
(* callback fails the extrinsic, so the asset is created only with it.     *)
CreateAsset(id) ==
  /\ id \notin assets
  /\ Created(id)
  /\ assets' = assets \cup {id}

(* pallet_assets finish_destroy of a live asset.                           *)
DestroyAsset(id) ==
  /\ id \in assets
  /\ Destroyed(id)
  /\ assets' = assets \ {id}

(* pallet_evm create/create2: the target address must hold no code.        *)
DeployContract(a) ==
  /\ accountCodes[a] = NoCode
  /\ accountCodes' = [accountCodes EXCEPT ![a] = ContractCode]
  /\ UNCHANGED assets

(* A contract self-destructs; the revert code cannot.                      *)
SelfDestruct(a) ==
  /\ accountCodes[a] = ContractCode
  /\ accountCodes' = [accountCodes EXCEPT ![a] = NoCode]
  /\ UNCHANGED assets

Init ==
  /\ assets = {}
  /\ accountCodes = [a \in Addresses |-> NoCode]

Next ==
  \/ \E id \in AssetIds : CreateAsset(id) \/ DestroyAsset(id)
  \/ \E a \in Addresses : DeployContract(a) \/ SelfDestruct(a)

Spec == Init /\ [][Next]_vars

-----------------------------------------------------------------------------
TypeOK ==
  /\ assets \subseteq AssetIds
  /\ accountCodes \in [Addresses -> Codes]

(* The revert code is at exactly the addresses of the live assets: every   *)
(* asset is callable as a precompile, and once destroyed its address is    *)
(* free again, as the comment on EvmRevertCodeHandler promises, whatever   *)
(* contracts were deployed and destroyed around it.                        *)
RevertCodeExactlyAtLiveAssets ==
  \A a \in Addresses :
    accountCodes[a] = RevertCode <=> \E id \in assets : AssetAddress[id] = a

=============================================================================
