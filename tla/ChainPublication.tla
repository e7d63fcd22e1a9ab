-------------------------- MODULE ChainPublication --------------------------
(***************************************************************************)
(* Publishing database anchors on the chain (src/blockchain/publisher.py   *)
(* over src/blockchain/cast_client.py) and comparing the two               *)
(* (src/blockchain/verifier.py), composed with the contract.               *)
(*                                                                         *)
(* A publisher is one call of publish_batch_anchor(_by_id): it reads a     *)
(* row, runs "cast send" (gas estimation, then a mined transaction), runs  *)
(* "cast receipt", and only then stores the transaction hash.  The chain   *)
(* and the database share no transaction, so each of these is a step.      *)
(*                                                                         *)
(* A contract is deployed whenever somebody runs deploy_anchor.py, so      *)
(* several may live on one chain; a call uses the one its process was      *)
(* configured with.  The development chain loses all its state when its    *)
(* container is recreated, while the database keeps its rows.              *)
(***************************************************************************)
EXTENDS AnchorContract, FiniteSets, Sequences

CONSTANTS
    Publishers,     \* concurrent publish calls
    Operator,       \* the account of ANCHOR_PRIVATE_KEY
    Addresses,      \* values that ANCHOR_CONTRACT_ADDRESS may have
    CountOf,        \* receipt count of the batch with a root
    NoCode,         \* there is no contract at an address
    NoTx,           \* chain_tx is NULL
    MaxRows,        \* bound: rows of batch_anchors
    MaxChains       \* bound: incarnations of the chain

ASSUME OperatorType == Operator \in Accounts
ASSUME CountOfType == CountOf \in [Roots -> Nat \ {0}]
ASSUME NoCodeFresh == NoCode \notin Contract
ASSUME PublicationBounds ==
    MaxRows \in Nat /\ MaxChains \in Nat \ {0}

VARIABLES
    rows,       \* batch_anchors, by id: rows are appended, chain_tx is updated
    chain,      \* incarnation of the chain
    code,       \* contracts of the live chain, by address
    anchorings, \* transactions of all chains that stored an anchor
    publisher   \* control state and local variables of every call

vars == <<rows, chain, code, anchorings, publisher>>

\* anchored: the call stored its anchor;  reverted: status 0;
\* no_code: a call of an address without code succeeds and does nothing.
Results == {"anchored", "reverted", "no_code"}

\* A mined transaction.  Its hash covers what it was sent to and what it
\* carried, and a hash is found only on the chain that mined it.
Tx == [chain : Nat, contract : Addresses, key : Keys, root : Roots, result : Results]

ASSUME NoTxFresh == NoTx \notin Tx

Row == [key : Keys, root : Roots, tx : Tx \cup {NoTx}]

\* loaded: the row is read;  estimated: gas estimation went through;  sent: cast
\* send printed the hash;  received: cast receipt found it.
\* saw: chain on which the transaction whose hash the call read in chain_tx had
\* anchored the row at the call's contract; 0 if there is no such hash.
ActivePhases == {"loaded", "estimated", "sent", "received"}
PublisherState ==
    [phase : {"idle"} \cup ActivePhases, id : Nat, contract : Addresses \cup {ZeroAddress},
     saw : Nat, tx : Tx \cup {NoTx}]
NoCall ==
    [phase |-> "idle", id |-> 0, contract |-> ZeroAddress, saw |-> 0, tx |-> NoTx]

TypeOK ==
    /\ rows \in Seq(Row) /\ Len(rows) <= MaxRows
    /\ chain \in 1..MaxChains
    /\ code \in [Addresses -> Contract \cup {NoCode}]
    /\ anchorings \in Seq(Tx)
    /\ publisher \in [Publishers -> PublisherState]

-----------------------------------------------------------------------------
\* persist_batch_anchor commits a row of a new identity (BatchAnchoring).
CloseBatch(key, root) ==
    /\ Len(rows) < MaxRows
    /\ \A id \in DOMAIN rows : ~(rows[id].key = key /\ rows[id].root = root)
    /\ rows' = Append(rows, [key |-> key, root |-> root, tx |-> NoTx])
    /\ UNCHANGED <<chain, code, anchorings, publisher>>

-----------------------------------------------------------------------------
Advance(p, next) == publisher' = [publisher EXCEPT ![p].phase = next]

\* The call returns or raises.
Finish(p) == publisher' = [publisher EXCEPT ![p] = NoCall]

\* The row a call is about.
RowAt(p) == rows[publisher[p].id]

\* A call reads row id, in a process configured with the address a.  It raises
\* at once when there is no such row, or when the row has a chain_tx and the
\* call is not forced.
Load(p, id, a, force) ==
    /\ publisher[p].phase = "idle"
    /\ id \in DOMAIN rows
    /\ rows[id].tx = NoTx \/ force
    /\ publisher' = [publisher EXCEPT ![p] =
         [phase |-> "loaded", id |-> id, contract |-> a, tx |-> NoTx,
          saw |-> LET tx == rows[id].tx
                  IN  IF tx # NoTx /\ tx.result = "anchored" /\ tx.contract = a
                      THEN tx.chain ELSE 0]]
    /\ UNCHANGED <<rows, chain, code, anchorings>>

\* Fault: force does not publish a row that has a hash.
LoadUnrecorded(p, id, a, force) == Load(p, id, a, FALSE)

\* publish_batch_anchor_by_id
LoadById(p, id, a, force) == Load(p, id, a, force)

\* _find_latest_anchor, here and in the on-chain verifier (0: there is none).
LatestId(key) ==
    LET ids == {id \in DOMAIN rows : rows[id].key = key}
    IN  IF ids = {} THEN 0 ELSE CHOOSE id \in ids : \A other \in ids : other <= id

\* publish_batch_anchor
LoadLatest(p, key, a, force) == Load(p, LatestId(key), a, force)

\* Would the transaction of this call revert in the current state?
CallReverts(p) ==
    LET contract == code[publisher[p].contract]
    IN  /\ contract # NoCode
        /\ Reverts(contract, Operator, RowAt(p).key, RowAt(p).root, CountOf[RowAt(p).root])

\* Fault: the transaction is sent without an estimation.
EstimateNothing(p) ==
    /\ publisher[p].phase = "loaded"
    /\ Advance(p, "estimated")
    /\ UNCHANGED <<rows, chain, code, anchorings>>

\* cast send estimates the gas first: a call that reverts is not sent, the
\* command fails and the publisher raises.
Estimate(p) ==
    /\ publisher[p].phase = "loaded"
    /\ IF CallReverts(p) THEN Finish(p) ELSE Advance(p, "estimated")
    /\ UNCHANGED <<rows, chain, code, anchorings>>

\* The transaction is mined on whatever the chain is by now.  One that reverts
\* now is mined with status 0; cast may still print its hash, and the
\* publisher never looks at the status.
Mine(p) ==
    LET row    == RowAt(p)
        a      == publisher[p].contract
        result == CASE code[a] = NoCode  -> "no_code"
                    [] CallReverts(p)    -> "reverted"
                    [] OTHER             -> "anchored"
        tx     == [chain |-> chain, contract |-> a, key |-> row.key, root |-> row.root,
                   result |-> result]
    IN  /\ publisher[p].phase = "estimated"
        /\ IF result = "anchored"
           THEN /\ code' = [code EXCEPT
                     ![a] = Store(code[a], Operator, row.key, row.root, CountOf[row.root])]
                /\ anchorings' = Append(anchorings, tx)
           ELSE UNCHANGED <<code, anchorings>>
        /\ publisher' = [publisher EXCEPT ![p].phase = "sent", ![p].tx = tx]
        /\ UNCHANGED <<rows, chain>>

\* cast receipt: a transaction of a chain that is gone is not found.
ReadReceipt(p) ==
    /\ publisher[p].phase = "sent"
    /\ IF publisher[p].tx.chain = chain
       THEN Advance(p, "received")
       ELSE Finish(p)
    /\ UNCHANGED <<rows, chain, code, anchorings>>

\* Fault: the hash is stored in the latest row of the key.
RecordInLatest(p) ==
    /\ publisher[p].phase = "received"
    /\ rows' = [rows EXCEPT ![LatestId(RowAt(p).key)].tx = publisher[p].tx]
    /\ Finish(p)
    /\ UNCHANGED <<chain, code, anchorings>>

\* anchor.chain_tx = tx_hash, flush and commit: the row is not read again.
RecordTx(p) ==
    /\ publisher[p].phase = "received"
    /\ rows' = [rows EXCEPT ![publisher[p].id].tx = publisher[p].tx]
    /\ Finish(p)
    /\ UNCHANGED <<chain, code, anchorings>>

\* The process dies, a connection is lost or a command fails between any two
\* steps: the database transaction is rolled back, the chain keeps what it has.
FailPublish(p) ==
    /\ publisher[p].phase \in ActivePhases
    /\ Finish(p)
    /\ UNCHANGED <<rows, chain, code, anchorings>>

-----------------------------------------------------------------------------
\* scripts/deploy_anchor.py, with the same ANCHOR_PRIVATE_KEY: one more contract,
\* at an address that has none, whether or not the chain has others.
Deploy(a) ==
    /\ code[a] = NoCode
    /\ code' = [code EXCEPT ![a] = Constructor(Operator)]
    /\ UNCHANGED <<rows, chain, anchorings, publisher>>

\* The chain's container is recreated: contracts and transactions are gone, and
\* their addresses may come again.
RestartChain ==
    /\ chain < MaxChains
    /\ chain' = chain + 1
    /\ code' = [a \in Addresses |-> NoCode]
    /\ UNCHANGED <<rows, anchorings, publisher>>

\* The owner of a contract hands it over.
HandOver(a, from, to) ==
    /\ code[a] # NoCode
    /\ MayTransfer(code[a], from, to)
    /\ code' = [code EXCEPT ![a] = TransferOwnership(code[a], to)]
    /\ UNCHANGED <<rows, chain, anchorings, publisher>>

-----------------------------------------------------------------------------
Init ==
    /\ rows = <<>>
    /\ chain = 1
    /\ code = [a \in Addresses |-> NoCode]
    /\ anchorings = <<>>
    /\ publisher = [p \in Publishers |-> NoCall]

PublishStep(p) ==
    \/ Estimate(p)
    \/ Mine(p)
    \/ ReadReceipt(p)
    \/ RecordTx(p)

BeginPublish(p) ==
    \E a \in Addresses, force \in BOOLEAN :
      \/ \E id \in 1..MaxRows : LoadById(p, id, a, force)
      \/ \E key \in Keys : LoadLatest(p, key, a, force)

Next ==
    \/ \E key \in Keys, root \in Roots : CloseBatch(key, root)
    \/ \E p \in Publishers : BeginPublish(p) \/ PublishStep(p) \/ FailPublish(p)
    \/ RestartChain
    \/ \E a \in Addresses :
         Deploy(a) \/ \E from, to \in Accounts : HandOver(a, from, to)

Spec == Init /\ [][Next]_vars

\* Publishers keep running, some day calls end by steps of their own and no
\* longer by failures, and every row is retried by each publisher with force
\* again and again, for every contract address in use.
RetrySpec ==
    /\ Spec
    /\ <>[][\A p \in Publishers : FailPublish(p) => PublishStep(p)]_vars
    /\ \A p \in Publishers :
         /\ WF_vars(PublishStep(p))
         /\ \A id \in 1..MaxRows, a \in Addresses :
              SF_vars(id \in DOMAIN rows /\ LoadById(p, id, a, TRUE))

-----------------------------------------------------------------------------
\* The contract at a has an entry for the key.
Anchored(a, key) == code[a] # NoCode /\ Exists(code[a], key)

\* verify_on_chain_anchor_by_id, configured with the address a, reports a match
\* (getAnchor reverts, and the verification raises, when there is no entry).
ChainMatch(id, a) ==
    /\ Anchored(a, rows[id].key)
    /\ LET entry == code[a].entries[rows[id].key]
       IN  entry.root = rows[id].root /\ entry.count = CountOf[rows[id].root]

-----------------------------------------------------------------------------
(***************************************************************************)
(* Properties.                                                             *)
(***************************************************************************)

\* Every entry of every contract of the live chain is the root and count of a
\* committed row of that day and prefix, and was put there by a transaction of
\* this chain: no contract ever holds an anchor the database does not know,
\* whatever crashed in between.
OnChainIsPersisted ==
    \A a \in Addresses, key \in Keys :
      Anchored(a, key) =>
        LET entry == code[a].entries[key]
        IN  /\ \E id \in DOMAIN rows :
                 /\ rows[id].key = key
                 /\ rows[id].root = entry.root
                 /\ CountOf[rows[id].root] = entry.count
            /\ \E i \in DOMAIN anchorings :
                 /\ anchorings[i].chain = chain /\ anchorings[i].contract = a
                 /\ anchorings[i].key = key /\ anchorings[i].root = entry.root

\* At most one transaction anchors a day and prefix at one contract, however
\* often it is published, forced or retried, and from however many calls.  (A
\* fresh contract on the same chain, or the same address on a new chain, takes
\* the day once more.)
OneAnchoringTxPerKey ==
    \A i, j \in DOMAIN anchorings :
      /\ anchorings[i].chain = anchorings[j].chain
      /\ anchorings[i].contract = anchorings[j].contract
      /\ anchorings[i].key = anchorings[j].key
      => i = j

\* A row whose recorded transaction anchored something on the chain that is
\* live now is matched by verify-chain with the address the transaction went
\* to, for good: also after hand-overs, further deployments and publications.
RecordedAnchorVerifies ==
    \A id \in DOMAIN rows :
      (/\ rows[id].tx # NoTx
       /\ rows[id].tx.chain = chain
       /\ rows[id].tx.result = "anchored")
        => ChainMatch(id, rows[id].tx.contract)

\* chain_tx is overwritten without being read again (publisher.py:139).  Yet the
\* hash of a transaction that anchored the row gives way to another one for the
\* same contract and chain only in a race, by a call that had read the row
\* before that hash was there: forcing a publication cannot replace the good
\* hash it sees by that of a reverted transaction.
GoodHashLostOnlyInRaces ==
    [][\A id \in DOMAIN rows :
         LET old == rows[id].tx
             new == rows'[id].tx
         IN  (/\ old # NoTx /\ new # old /\ old.result = "anchored"
              /\ old.chain = new.chain /\ old.contract = new.contract)
               => \E p \in Publishers :
                    /\ publisher[p].phase = "received" /\ publisher'[p].phase = "idle"
                    /\ publisher[p].id = id /\ publisher[p].saw # old.chain]_vars

\* A day and prefix that has a closed batch gets into every contract that calls
\* are configured with and the operator owns, when it is retried and the chain
\* is not lost: in spite of crashes, and of hashes that were recorded before the
\* deployment, for another contract or on an earlier chain.
ClosedReachesChain ==
    \A key \in Keys, a \in Addresses :
      (code[a] # NoCode /\ \E id \in DOMAIN rows : rows[id].key = key)
        ~> (Anchored(a, key) \/ code[a] = NoCode \/ code[a].owner # Operator)

\* docs/architecture/blockchain_anchoring.md, step 4: "Store the transaction
\* hash in batch_anchors.chain_tx", for a row whose root is on the chain.
PublishedIsRecorded ==
    \A id \in 1..MaxRows, a \in Addresses :
      (id \in DOMAIN rows /\ ChainMatch(id, a)) ~> (id \in DOMAIN rows /\ rows[id].tx # NoTx)
=============================================================================
