--------------------------- MODULE AnchorContract ---------------------------
(***************************************************************************)
(* The contract contracts/src/ProofOfChargeAnchor.sol: an owner, and one   *)
(* write-once entry per (day, sessionPrefix).  computeAnchorId hashes      *)
(* abi.encode(day, sessionPrefix), which is injective, so the pair itself  *)
(* is the key.  Block timestamps and events are left out.                  *)
(*                                                                         *)
(* Any number of contracts may live on one chain, so the module has no     *)
(* variables: its operators take the storage of a contract as a value and  *)
(* return what a call leaves of it.                                        *)
(***************************************************************************)
EXTENDS Naturals

CONSTANTS
    Accounts,   \* addresses that hold a key
    Keys,       \* pairs <<day, session prefix>>
    Roots,      \* batch roots of closed batches, never zero
    ZeroRoot,   \* bytes32(0)
    ZeroAddress,\* address(0)
    NoEntry     \* the key has exists = false

ASSUME ZerosAreFresh ==
    /\ ZeroRoot \notin Roots
    /\ ZeroAddress \notin Accounts

Entry == [root : Roots, count : Nat \ {0}, operator : Accounts]

ASSUME NoEntryFresh == NoEntry \notin Entry

\* The storage: owner is the account that may anchor, entries the mapping
\* anchors.
Contract == [owner : Accounts, entries : [Keys -> Entry \cup {NoEntry}]]

EmptyEntries == [k \in Keys |-> NoEntry]

\* Fault: nobody owns a new contract.
ConstructorWithoutOwner(sender) == [owner |-> ZeroAddress, entries |-> EmptyEntries]

Constructor(sender) == [owner |-> sender, entries |-> EmptyEntries]

\* Fault: an anchor may be written again.
NeverExists(contract, key) == FALSE

\* anchors[anchorId].exists
Exists(contract, key) == contract.entries[key] # NoEntry

\* anchorBatch reverts: onlyOwner, InvalidBatchRoot, InvalidReceiptCount,
\* AnchorAlreadyExists.
Reverts(contract, sender, key, root, count) ==
    \/ sender # contract.owner
    \/ root = ZeroRoot
    \/ count = 0
    \/ Exists(contract, key)

\* Fault: one storage slot per day.
StoreForDay(contract, sender, key, root, count) ==
    [contract EXCEPT !.entries =
       [k \in Keys |-> IF k[1] = key[1]
                       THEN [root |-> root, count |-> count, operator |-> sender]
                       ELSE contract.entries[k]]]

\* What a call of anchorBatch that does not revert leaves.
Store(contract, sender, key, root, count) ==
    [contract EXCEPT !.entries[key] =
       [root |-> root, count |-> count, operator |-> sender]]

\* transferOwnership goes through, and what it leaves.
MayTransfer(contract, sender, newOwner) ==
    sender = contract.owner /\ newOwner # ZeroAddress

TransferOwnership(contract, newOwner) == [contract EXCEPT !.owner = newOwner]
=============================================================================
