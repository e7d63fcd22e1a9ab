----------------------- MODULE ChainPublicationProofs -----------------------
(***************************************************************************)
(* Proofs about ChainPublication: type correctness, the inductive          *)
(* invariant that ties the live contracts, the mined transactions, the     *)
(* calls and the database together, and the properties that follow from    *)
(* it, for any number of publishers, rows, contracts and chains.           *)
(***************************************************************************)
EXTENDS ChainPublication, TLAPS

\* A transaction that names the row, was mined on this chain or an earlier one,
\* and is among those that anchored if it says so.
Carries(tx, row) ==
    /\ tx.key = row.key
    /\ tx.root = row.root
    /\ tx.chain <= chain
    /\ tx.result = "anchored" => \E i \in DOMAIN anchorings : anchorings[i] = tx

\* A call that has started knows a row; one that has a hash has that of a
\* transaction that carried this row to the call's contract.
CallOK(c) ==
    /\ c.phase \in ActivePhases => c.id \in DOMAIN rows /\ c.contract \in Addresses
    /\ c.phase \in {"sent", "received"} =>
         /\ c.tx \in Tx
         /\ c.tx.contract = c.contract
         /\ Carries(c.tx, rows[c.id])

\* A call that saw an anchoring hash of its row and contract does not get past
\* the gas estimation as long as that chain lives.
SawOK(c) ==
    /\ c.saw <= chain
    /\ (c.phase \in ActivePhases /\ c.saw # 0) =>
         \E i \in DOMAIN anchorings :
           /\ anchorings[i].chain = c.saw /\ anchorings[i].contract = c.contract
           /\ anchorings[i].key = rows[c.id].key
    /\ c.phase = "estimated" => c.saw < chain
    /\ c.phase \in {"sent", "received"} => c.saw < c.tx.chain

\* chain_tx of a row is the hash of a transaction that carried this very day,
\* prefix and root, with several publishers at work and a newer row for the
\* same day and prefix appearing during a call.
RecordedTxNamesRow ==
    \A id \in DOMAIN rows : rows[id].tx # NoTx => Carries(rows[id].tx, rows[id])

\* An anchoring transaction of the live chain put the entry there that its
\* contract still has.
EntriesStay ==
    \A i \in DOMAIN anchorings :
      LET tx == anchorings[i]
      IN  /\ tx.chain <= chain
          /\ tx.chain = chain =>
               /\ Anchored(tx.contract, tx.key)
               /\ code[tx.contract].entries[tx.key].root = tx.root
               /\ code[tx.contract].entries[tx.key].count = CountOf[tx.root]

IInv ==
    /\ TypeOK
    /\ \A p \in Publishers : CallOK(publisher[p]) /\ SawOK(publisher[p])
    /\ EntriesStay
    /\ OnChainIsPersisted
    /\ RecordedTxNamesRow
    /\ OneAnchoringTxPerKey

-----------------------------------------------------------------------------
\* Appending to a sequence keeps what is there.
LEMMA AppendFacts ==
  ASSUME NEW S, NEW s \in Seq(S), NEW x \in S
  PROVE  /\ Append(s, x) \in Seq(S)
         /\ Len(Append(s, x)) = Len(s) + 1
         /\ DOMAIN Append(s, x) = DOMAIN s \cup {Len(s) + 1}
         /\ \A i \in DOMAIN s : Append(s, x)[i] = s[i]
         /\ Append(s, x)[Len(s) + 1] = x
         /\ Len(s) + 1 \notin DOMAIN s
         /\ DOMAIN s \subseteq Nat
OBVIOUS

LEMMA NoCallFacts ==
  /\ NoCall \in PublisherState /\ NoCall.phase = "idle" /\ NoCall.saw = 0
  /\ NoCall.phase \notin ActivePhases
BY DEF NoCall, PublisherState, ActivePhases

LEMMA IdleCallOK == TypeOK => CallOK(NoCall) /\ SawOK(NoCall)
BY NoCallFacts, PublicationBounds DEF CallOK, SawOK, ActivePhases, TypeOK

\* What the constructor and a hand-over leave is a contract; the former is empty,
\* the latter changes no entry.
LEMMA ContractFacts ==
  /\ Constructor(Operator) \in Contract
  /\ \A key \in Keys : Constructor(Operator).entries[key] = NoEntry
  /\ \A contract \in Contract, to \in Accounts :
       /\ TransferOwnership(contract, to) \in Contract
       /\ TransferOwnership(contract, to).entries = contract.entries
BY OperatorType DEF Constructor, TransferOwnership, Contract, EmptyEntries

-----------------------------------------------------------------------------
LEMMA InitIInv == Init => IInv
<1> SUFFICES ASSUME Init PROVE IInv
  OBVIOUS
<1>1. TypeOK
  BY PublicationBounds, NoCallFacts DEF Init, TypeOK
<1>2. \A p \in Publishers : CallOK(publisher[p]) /\ SawOK(publisher[p])
  BY <1>1, IdleCallOK DEF Init
<1>3. EntriesStay /\ RecordedTxNamesRow /\ OneAnchoringTxPerKey
  BY DEF Init, EntriesStay, RecordedTxNamesRow, OneAnchoringTxPerKey
<1>4. OnChainIsPersisted
  BY DEF Init, OnChainIsPersisted, Anchored
<1> QED  BY <1>1, <1>2, <1>3, <1>4 DEF IInv

\* A step that only moves a publisher.
LEMMA CallStep ==
  ASSUME IInv, NEW p \in Publishers, NEW c \in PublisherState, CallOK(c), SawOK(c),
         publisher' = [publisher EXCEPT ![p] = c],
         UNCHANGED <<rows, chain, code, anchorings>>
  PROVE  IInv'
<1> USE DEF IInv
<1>1. TypeOK'
  BY DEF TypeOK
<1>2. \A q \in Publishers : publisher'[q] = IF q = p THEN c ELSE publisher[q]
  BY DEF TypeOK
<1>3. \A q \in Publishers : CallOK(publisher[q])' /\ SawOK(publisher[q])'
  BY <1>2 DEF CallOK, SawOK, Carries
<1>4. (EntriesStay /\ OnChainIsPersisted /\ RecordedTxNamesRow /\ OneAnchoringTxPerKey)'
  BY DEF EntriesStay, OnChainIsPersisted, RecordedTxNamesRow, OneAnchoringTxPerKey,
         Anchored, Carries
<1> QED  BY <1>1, <1>3, <1>4

LEMMA FinishStep ==
  ASSUME IInv, NEW p \in Publishers, Finish(p), UNCHANGED <<rows, chain, code, anchorings>>
  PROVE  IInv'
BY NoCallFacts, IdleCallOK, CallStep DEF Finish, IInv

\* What the call read in chain_tx is what it saw.
LEMMA LoadStep ==
  ASSUME IInv, NEW p \in Publishers, NEW id, NEW a \in Addresses, NEW force,
         Load(p, id, a, force)
  PROVE  IInv'
<1> DEFINE tx == rows[id].tx
           good == tx # NoTx /\ tx.result = "anchored" /\ tx.contract = a
           c == [phase |-> "loaded", id |-> id, contract |-> a, tx |-> NoTx,
                 saw |-> IF good THEN tx.chain ELSE 0]
<1>1. id \in DOMAIN rows /\ id \in Nat /\ rows[id] \in Row /\ chain \in Nat
  BY PublicationBounds DEF Load, IInv, TypeOK
<1>2. good => /\ tx.chain \in Nat /\ tx.chain <= chain
              /\ \E i \in DOMAIN anchorings :
                   /\ anchorings[i].chain = tx.chain /\ anchorings[i].contract = a
                   /\ anchorings[i].key = rows[id].key
  BY <1>1 DEF IInv, RecordedTxNamesRow, Carries, Row, Tx
<1>3. c \in PublisherState
  BY <1>1, <1>2 DEF PublisherState, ActivePhases
<1>4. CallOK(c)
  BY <1>1 DEF CallOK
<1>5. SawOK(c)
  BY <1>1, <1>2 DEF SawOK
<1>6. publisher' = [publisher EXCEPT ![p] = c] /\ UNCHANGED <<rows, chain, code, anchorings>>
  BY DEF Load
<1> HIDE DEF c
<1> QED  BY <1>3, <1>4, <1>5, <1>6, CallStep

\* Gas estimation stops a call that saw the live chain's anchoring hash: the
\* entry it speaks of is still there.
LEMMA EstimateStep ==
  ASSUME IInv, NEW p \in Publishers, Estimate(p)
  PROVE  IInv'
<1> DEFINE c == [publisher[p] EXCEPT !.phase = "estimated"]
<1>1. /\ UNCHANGED <<rows, chain, code, anchorings>>
      /\ publisher[p] \in PublisherState /\ publisher[p].phase = "loaded"
      /\ CallOK(publisher[p]) /\ SawOK(publisher[p]) /\ chain \in Nat \ {0}
  BY PublicationBounds DEF IInv, TypeOK, Estimate
<1>2. CASE Finish(p)
  BY <1>1, <1>2, FinishStep
<1>3. CASE ~CallReverts(p) /\ Advance(p, "estimated")
  <2>1. c \in PublisherState
    BY <1>1 DEF PublisherState, ActivePhases
  <2>2. CallOK(c)
    BY <1>1 DEF CallOK, PublisherState, ActivePhases
  <2>3. publisher[p].saw # chain
    <3> SUFFICES ASSUME publisher[p].saw = chain PROVE FALSE
      OBVIOUS
    <3>1. \E i \in DOMAIN anchorings :
            /\ anchorings[i].chain = chain /\ anchorings[i].contract = publisher[p].contract
            /\ anchorings[i].key = RowAt(p).key
      BY <1>1 DEF SawOK, ActivePhases, RowAt
    <3>2. Anchored(publisher[p].contract, RowAt(p).key)
      BY <3>1 DEF IInv, EntriesStay
    <3> QED  BY <1>3, <3>2 DEF CallReverts, Reverts, Anchored
  <2>4. SawOK(c)
    BY <1>1, <2>3 DEF SawOK, PublisherState, ActivePhases
  <2>5. publisher' = [publisher EXCEPT ![p] = c]
    BY <1>3 DEF Advance, IInv, TypeOK, PublisherState
  <2> HIDE DEF c
  <2> QED  BY <1>1, <2>1, <2>2, <2>4, <2>5, CallStep
<1> QED  BY <1>2, <1>3 DEF Estimate

LEMMA ReceiptStep ==
  ASSUME IInv, NEW p \in Publishers, ReadReceipt(p)
  PROVE  IInv'
<1> DEFINE c == [publisher[p] EXCEPT !.phase = "received"]
<1>1. /\ UNCHANGED <<rows, chain, code, anchorings>>
      /\ publisher[p] \in PublisherState /\ publisher[p].phase = "sent"
      /\ CallOK(publisher[p]) /\ SawOK(publisher[p])
  BY DEF IInv, TypeOK, ReadReceipt
<1>2. CASE Finish(p)
  BY <1>1, <1>2, FinishStep
<1>3. CASE Advance(p, "received")
  <2>1. c \in PublisherState
    BY <1>1 DEF PublisherState, ActivePhases
  <2>2. CallOK(c)
    BY <1>1 DEF CallOK, PublisherState, ActivePhases
  <2>3. SawOK(c)
    BY <1>1 DEF SawOK, PublisherState, ActivePhases
  <2>4. publisher' = [publisher EXCEPT ![p] = c]
    BY <1>3 DEF Advance, IInv, TypeOK, PublisherState
  <2> HIDE DEF c
  <2> QED  BY <1>1, <2>1, <2>2, <2>3, <2>4, CallStep
<1> QED  BY <1>2, <1>3 DEF ReadReceipt

-----------------------------------------------------------------------------
\* A closed batch is appended: what the rows said stays.
LEMMA CloseStep ==
  ASSUME IInv, NEW key \in Keys, NEW root \in Roots, CloseBatch(key, root)
  PROVE  IInv'
<1> DEFINE row == [key |-> key, root |-> root, tx |-> NoTx]
<1> USE DEF IInv
<1>1. row \in Row /\ row.tx = NoTx
  BY DEF Row
<1>2. /\ rows \in Seq(Row) /\ rows' = Append(rows, row) /\ Len(rows) < MaxRows
      /\ UNCHANGED <<chain, code, anchorings, publisher>>
  BY DEF TypeOK, CloseBatch
<1> HIDE DEF row
<1>3. /\ rows' \in Seq(Row) /\ Len(rows') = Len(rows) + 1
      /\ DOMAIN rows' = DOMAIN rows \cup {Len(rows) + 1}
      /\ \A id \in DOMAIN rows : rows'[id] = rows[id]
      /\ rows'[Len(rows) + 1] = row
  BY <1>1, <1>2, AppendFacts
<1>4. TypeOK'
  <2>1. Len(rows') <= MaxRows
    BY <1>2, <1>3, PublicationBounds
  <2> QED  BY <1>2, <1>3, <2>1 DEF TypeOK
<1>5. \A p \in Publishers : CallOK(publisher[p])' /\ SawOK(publisher[p])'
  <2> SUFFICES ASSUME NEW p \in Publishers
               PROVE  CallOK(publisher[p])' /\ SawOK(publisher[p])'
    OBVIOUS
  <2>1. publisher[p].phase \in ActivePhases =>
          publisher[p].id \in DOMAIN rows /\ rows'[publisher[p].id] = rows[publisher[p].id]
    BY <1>3 DEF CallOK
  <2> QED  BY <1>2, <1>3, <2>1 DEF CallOK, SawOK, Carries, ActivePhases
<1>6. RecordedTxNamesRow'
  BY <1>1, <1>2, <1>3 DEF RecordedTxNamesRow, Carries
<1>7. OnChainIsPersisted'
  BY <1>2, <1>3 DEF OnChainIsPersisted, Anchored
<1>8. (EntriesStay /\ OneAnchoringTxPerKey)'
  BY <1>2 DEF EntriesStay, OneAnchoringTxPerKey, Anchored
<1> QED  BY <1>4, <1>5, <1>6, <1>7, <1>8

\* The hash is stored in the row the call loaded, which still has the key and
\* root of the transaction.
LEMMA RecordStep ==
  ASSUME IInv, NEW p \in Publishers, RecordTx(p)
  PROVE  IInv'
<1> DEFINE n == publisher[p].id
           t == publisher[p].tx
<1> USE DEF IInv
<1>1. n \in DOMAIN rows /\ t \in Tx /\ Carries(t, rows[n])
  BY DEF RecordTx, CallOK, ActivePhases
<1>2. /\ rows \in Seq(Row) /\ rows' = [rows EXCEPT ![n].tx = t]
      /\ UNCHANGED <<chain, code, anchorings>>
      /\ publisher' = [publisher EXCEPT ![p] = NoCall]
  BY DEF TypeOK, RecordTx, Finish
<1> HIDE DEF n, t
<1>3. /\ DOMAIN rows' = DOMAIN rows
      /\ \A id \in DOMAIN rows :
           /\ rows'[id].key = rows[id].key /\ rows'[id].root = rows[id].root
           /\ rows'[id].tx = IF id = n THEN t ELSE rows[id].tx
           /\ rows'[id] \in Row
  <2>1. \A id \in DOMAIN rows : rows[id] \in Row
    BY <1>2
  <2>2. DOMAIN rows' = DOMAIN rows
    BY <1>2
  <2>3. \A id \in DOMAIN rows : rows'[id] = IF id = n THEN [rows[n] EXCEPT !.tx = t] ELSE rows[id]
    BY <1>1, <1>2
  <2> QED  BY <1>1, <2>1, <2>2, <2>3 DEF Row
<1>4. rows' \in Seq(Row) /\ Len(rows') = Len(rows)
  <2>1. DOMAIN rows' = 1..Len(rows) /\ Len(rows) \in Nat
    BY <1>2, <1>3
  <2>2. rows' = [id \in 1..Len(rows) |-> rows'[id]]
    BY <1>2, <2>1
  <2> QED  BY <1>3, <2>1, <2>2
<1>5. TypeOK'
  BY <1>2, <1>4, NoCallFacts DEF TypeOK
<1>6. \A q \in Publishers : CallOK(publisher[q])' /\ SawOK(publisher[q])'
  <2>1. \A q \in Publishers : publisher'[q] = IF q = p THEN NoCall ELSE publisher[q]
    BY <1>2 DEF TypeOK
  <2>2. CallOK(publisher[p])' /\ SawOK(publisher[p])'
    BY <1>2, <2>1, NoCallFacts, IdleCallOK DEF CallOK, SawOK, ActivePhases
  <2>3. ASSUME NEW q \in Publishers \ {p}
        PROVE  CallOK(publisher[q])' /\ SawOK(publisher[q])'
    <3>1. publisher'[q] = publisher[q] /\ CallOK(publisher[q]) /\ SawOK(publisher[q])
      BY <2>1
    <3>2. publisher[q].phase \in ActivePhases =>
            /\ publisher[q].id \in DOMAIN rows'
            /\ rows'[publisher[q].id].key = rows[publisher[q].id].key
            /\ rows'[publisher[q].id].root = rows[publisher[q].id].root
      BY <1>3, <3>1 DEF CallOK
    <3> QED  BY <1>2, <3>1, <3>2 DEF CallOK, SawOK, Carries, ActivePhases
  <2> QED  BY <2>2, <2>3
<1>7. RecordedTxNamesRow'
  <2> SUFFICES ASSUME NEW id \in DOMAIN rows, rows'[id].tx # NoTx
               PROVE  Carries(rows[id].tx, rows[id])'
    BY <1>3 DEF RecordedTxNamesRow
  <2>1. CASE id = n
    BY <1>1, <1>2, <1>3, <2>1 DEF Carries
  <2>2. CASE id # n
    BY <1>2, <1>3, <2>2 DEF RecordedTxNamesRow, Carries
  <2> QED  BY <2>1, <2>2
<1>8. OnChainIsPersisted'
  BY <1>2, <1>3 DEF OnChainIsPersisted, Anchored
<1>9. (EntriesStay /\ OneAnchoringTxPerKey)'
  BY <1>2 DEF EntriesStay, OneAnchoringTxPerKey, Anchored
<1> QED  BY <1>5, <1>6, <1>7, <1>8, <1>9

-----------------------------------------------------------------------------
\* A mined transaction carries the caller's row; it anchors only where the
\* contract has no entry yet.
LEMMA MineStep ==
  ASSUME IInv, NEW p \in Publishers, Mine(p)
  PROVE  IInv'
<1> USE DEF IInv
<1> DEFINE n == publisher[p].id
           a == publisher[p].contract
           key == rows[n].key
           root == rows[n].root
           result == CASE code[a] = NoCode -> "no_code"
                       [] CallReverts(p) -> "reverted"
                       [] OTHER -> "anchored"
           t == [chain |-> chain, contract |-> a, key |-> key, root |-> root,
                 result |-> result]
           new == Len(anchorings) + 1
           entry == [root |-> root, count |-> CountOf[root], operator |-> Operator]
           c == [publisher[p] EXCEPT !.phase = "sent", !.tx = t]
<1>1. /\ rows \in Seq(Row) /\ anchorings \in Seq(Tx) /\ chain \in Nat
      /\ publisher[p] \in PublisherState /\ publisher[p].phase = "estimated"
      /\ CallOK(publisher[p]) /\ SawOK(publisher[p])
  BY PublicationBounds DEF TypeOK, Mine
<1>2. /\ n \in DOMAIN rows /\ rows[n] \in Row /\ key \in Keys /\ root \in Roots
      /\ a \in Addresses
  <2>1. n \in DOMAIN rows /\ a \in Addresses
    BY <1>1 DEF CallOK, ActivePhases
  <2>2. rows[n] \in Row
    BY <1>1, <2>1
  <2> QED  BY <2>1, <2>2 DEF Row
<1>3. result \in Results
  BY DEF Results
<1>4. /\ t \in Tx /\ t.chain = chain /\ t.contract = a /\ t.key = key /\ t.root = root
      /\ t.result = result
  BY <1>1, <1>2, <1>3 DEF Tx
<1>5. UNCHANGED <<rows, chain>>
  BY DEF Mine
<1>6. /\ publisher' = [publisher EXCEPT ![p] = c] /\ c \in PublisherState
      /\ c.id = n /\ c.phase = "sent" /\ c.tx = t /\ c.contract = a /\ c.saw = publisher[p].saw
  <2>1. publisher' = [publisher EXCEPT ![p] = c]
    BY <1>1 DEF Mine, TypeOK, PublisherState, RowAt
  <2>2. c \in PublisherState
    BY <1>1, <1>4 DEF PublisherState, ActivePhases
  <2> QED  BY <1>1, <2>1, <2>2 DEF PublisherState
<1>7. result = "anchored" =>
        /\ code[a] \in Contract /\ code[a] # NoCode /\ code[a].entries[key] = NoEntry
        /\ code' = [code EXCEPT ![a] = [code[a] EXCEPT !.entries[key] = entry]]
        /\ anchorings' = Append(anchorings, t)
  <2> SUFFICES ASSUME result = "anchored"
               PROVE  /\ code[a] \in Contract /\ code[a] # NoCode
                      /\ code[a].entries[key] = NoEntry
                      /\ code' = [code EXCEPT ![a] = [code[a] EXCEPT !.entries[key] = entry]]
                      /\ anchorings' = Append(anchorings, t)
    OBVIOUS
  <2>1. code[a] # NoCode /\ ~CallReverts(p)
    OBVIOUS
  <2>2. code[a] \in Contract
    BY <1>2, <2>1 DEF TypeOK
  <2>3. code[a].entries[key] = NoEntry
    BY <2>1 DEF CallReverts, Reverts, Exists, RowAt
  <2>4. /\ code' = [code EXCEPT ![a] = Store(code[a], Operator, key, root, CountOf[root])]
        /\ anchorings' = Append(anchorings, t)
    BY DEF Mine, RowAt
  <2> QED  BY <2>1, <2>2, <2>3, <2>4 DEF Store
<1>8. result # "anchored" => code' = code /\ anchorings' = anchorings
  BY DEF Mine, RowAt
<1>9. entry \in Entry /\ entry # NoEntry /\ entry.root = root /\ entry.count = CountOf[root]
  BY <1>2, OperatorType, CountOfType, NoEntryFresh DEF Entry
<1> HIDE DEF t, new, entry, c, result, key, root, n, a
<1>10. /\ anchorings' \in Seq(Tx)
       /\ \A i \in DOMAIN anchorings : i \in DOMAIN anchorings' /\ anchorings'[i] = anchorings[i]
       /\ \A i \in DOMAIN anchorings' \ DOMAIN anchorings :
            i = new /\ anchorings'[i] = t /\ result = "anchored"
       /\ result = "anchored" => new \in DOMAIN anchorings' /\ anchorings'[new] = t
                                   /\ new \notin DOMAIN anchorings
  <2>1. CASE result = "anchored"
    <3>1. anchorings' = Append(anchorings, t) /\ t \in Tx /\ anchorings \in Seq(Tx)
      BY <1>1, <1>4, <1>7, <2>1
    <3>2. /\ anchorings' \in Seq(Tx) /\ DOMAIN anchorings' = DOMAIN anchorings \cup {new}
          /\ \A i \in DOMAIN anchorings : anchorings'[i] = anchorings[i]
          /\ anchorings'[new] = t /\ new \notin DOMAIN anchorings
      BY <3>1, AppendFacts DEF new
    <3> QED  BY <2>1, <3>2
  <2>2. CASE result # "anchored"
    BY <1>1, <1>8, <2>2
  <2> QED  BY <2>1, <2>2
<1>11. /\ code' \in [Addresses -> Contract \cup {NoCode}]
       /\ \A b \in Addresses :
            /\ (code'[b] = NoCode) <=> (code[b] = NoCode)
            /\ \A k \in Keys : code[b] # NoCode =>
                 code'[b].entries[k] = IF result = "anchored" /\ b = a /\ k = key
                                       THEN entry ELSE code[b].entries[k]
  <2>1. CASE result = "anchored"
    <3> DEFINE new_a == [code[a] EXCEPT !.entries[key] = entry]
    <3>1. /\ new_a \in Contract
          /\ \A k \in Keys : new_a.entries[k] = IF k = key THEN entry ELSE code[a].entries[k]
      BY <1>2, <1>7, <1>9, <2>1 DEF Contract
    <3>2. new_a # NoCode
      BY <3>1, NoCodeFresh
    <3>3. code' = [code EXCEPT ![a] = new_a] /\ code \in [Addresses -> Contract \cup {NoCode}]
      BY <1>7, <2>1 DEF TypeOK
    <3> HIDE DEF new_a
    <3> QED  BY <1>2, <1>7, <2>1, <3>1, <3>2, <3>3
  <2>2. CASE result # "anchored"
    BY <1>8, <2>2 DEF TypeOK
  <2> QED  BY <2>1, <2>2
<1>12. TypeOK'
  BY <1>5, <1>6, <1>10, <1>11 DEF TypeOK
<1>13. \A i \in DOMAIN anchorings :
         anchorings[i] \in Tx /\ anchorings[i].key \in Keys /\ anchorings[i].contract \in Addresses
  <2>1. \A i \in DOMAIN anchorings : anchorings[i] \in Tx
    BY <1>1
  <2> QED  BY <2>1 DEF Tx
<1>14. \A q \in Publishers : CallOK(publisher[q])' /\ SawOK(publisher[q])'
  <2>1. \A q \in Publishers : publisher'[q] = IF q = p THEN c ELSE publisher[q]
    BY <1>6 DEF TypeOK
  <2>2. CallOK(publisher[p])'
    BY <1>1, <1>2, <1>4, <1>5, <1>6, <1>10, <2>1 DEF CallOK, Carries, key, root
  <2>3. SawOK(publisher[p])'
    <3>1. publisher[p].saw < chain /\ publisher[p].phase \in ActivePhases
      BY <1>1 DEF SawOK, ActivePhases
    <3>2. publisher[p].saw # 0 =>
            \E i \in DOMAIN anchorings :
              /\ anchorings[i].chain = publisher[p].saw /\ anchorings[i].contract = a
              /\ anchorings[i].key = rows[n].key
      BY <1>1, <3>1 DEF SawOK, a, n
    <3>3. publisher[p].saw \in Nat
      BY <1>1 DEF PublisherState
    <3>4. publisher'[p] = c /\ chain' = chain /\ rows' = rows /\ c.tx.chain = chain
      BY <1>4, <1>5, <1>6, <2>1
    <3>5. c.saw # 0 =>
            \E i \in DOMAIN anchorings' :
              /\ anchorings'[i].chain = c.saw /\ anchorings'[i].contract = c.contract
              /\ anchorings'[i].key = rows[c.id].key
      BY <1>6, <1>10, <3>2
    <3>6. c.saw < chain /\ c.saw <= chain /\ c.phase # "estimated"
      BY <1>1, <1>6, <3>1, <3>3
    <3> QED  BY <3>4, <3>5, <3>6 DEF SawOK
  <2>4. \A q \in Publishers \ {p} : CallOK(publisher[q])' /\ SawOK(publisher[q])'
    <3> SUFFICES ASSUME NEW q \in Publishers \ {p}
                 PROVE  CallOK(publisher[q])' /\ SawOK(publisher[q])'
      OBVIOUS
    <3>1. publisher'[q] = publisher[q] /\ CallOK(publisher[q]) /\ SawOK(publisher[q])
      BY <2>1
    <3>2. CallOK(publisher[q])'
      BY <1>5, <1>10, <3>1 DEF CallOK, Carries
    <3>3. SawOK(publisher[q])'
      BY <1>5, <1>10, <3>1 DEF SawOK
    <3> QED  BY <3>2, <3>3
  <2> QED  BY <2>2, <2>3, <2>4
<1>15. EntriesStay'
  <2> SUFFICES ASSUME NEW i \in DOMAIN anchorings'
               PROVE  LET tx == anchorings'[i]
                      IN  /\ tx.chain <= chain
                          /\ tx.chain = chain =>
                               /\ code'[tx.contract] # NoCode
                               /\ code'[tx.contract].entries[tx.key] # NoEntry
                               /\ code'[tx.contract].entries[tx.key].root = tx.root
                               /\ code'[tx.contract].entries[tx.key].count = CountOf[tx.root]
    BY <1>5 DEF EntriesStay, Anchored, Exists
  <2>1. CASE i \in DOMAIN anchorings
    <3>1. anchorings'[i] = anchorings[i]
      BY <1>10, <2>1
    <3>2. /\ anchorings[i].chain <= chain
          /\ anchorings[i].chain = chain =>
               /\ code[anchorings[i].contract] # NoCode
               /\ code[anchorings[i].contract].entries[anchorings[i].key] # NoEntry
               /\ code[anchorings[i].contract].entries[anchorings[i].key].root = anchorings[i].root
               /\ code[anchorings[i].contract].entries[anchorings[i].key].count
                    = CountOf[anchorings[i].root]
      BY <2>1 DEF EntriesStay, Anchored, Exists
    <3> QED  BY <1>7, <1>11, <1>13, <2>1, <3>1, <3>2
  <2>2. CASE i \notin DOMAIN anchorings
    <3>1. anchorings'[i] = t /\ result = "anchored"
      BY <1>10, <2>2
    <3> QED  BY <1>1, <1>2, <1>4, <1>7, <1>9, <1>11, <3>1
  <2> QED  BY <2>1, <2>2
<1>16. OnChainIsPersisted'
  <2> SUFFICES ASSUME NEW b \in Addresses, NEW k \in Keys,
                      code'[b] # NoCode, code'[b].entries[k] # NoEntry
               PROVE  /\ \E id \in DOMAIN rows :
                           /\ rows[id].key = k /\ rows[id].root = code'[b].entries[k].root
                           /\ CountOf[rows[id].root] = code'[b].entries[k].count
                      /\ \E i \in DOMAIN anchorings' :
                           /\ anchorings'[i].chain = chain /\ anchorings'[i].contract = b
                           /\ anchorings'[i].key = k
                           /\ anchorings'[i].root = code'[b].entries[k].root
    BY <1>5 DEF OnChainIsPersisted, Anchored, Exists
  <2>1. CASE result = "anchored" /\ b = a /\ k = key
    <3>1. code'[b].entries[k] = entry
      BY <1>7, <1>11, <2>1
    <3>2. rows[n].key = k /\ rows[n].root = entry.root /\ CountOf[rows[n].root] = entry.count
      BY <1>9, <2>1 DEF key, root
    <3>3. /\ new \in DOMAIN anchorings'
          /\ anchorings'[new].chain = chain /\ anchorings'[new].contract = b
          /\ anchorings'[new].key = k /\ anchorings'[new].root = entry.root
      BY <1>4, <1>9, <1>10, <2>1
    <3> QED  BY <1>2, <3>1, <3>2, <3>3
  <2>2. CASE ~(result = "anchored" /\ b = a /\ k = key)
    <3>1. code[b] # NoCode /\ code'[b].entries[k] = code[b].entries[k]
      BY <1>11, <2>2
    <3>2. /\ \E id \in DOMAIN rows :
               /\ rows[id].key = k /\ rows[id].root = code[b].entries[k].root
               /\ CountOf[rows[id].root] = code[b].entries[k].count
          /\ \E i \in DOMAIN anchorings :
               /\ anchorings[i].chain = chain /\ anchorings[i].contract = b
               /\ anchorings[i].key = k
               /\ anchorings[i].root = code[b].entries[k].root
      BY <3>1 DEF OnChainIsPersisted, Anchored, Exists
    <3> QED  BY <1>10, <3>1, <3>2
  <2> QED  BY <2>1, <2>2
<1>17. RecordedTxNamesRow'
  BY <1>5, <1>10 DEF RecordedTxNamesRow, Carries
<1>18. OneAnchoringTxPerKey'
  <2>1. result = "anchored" =>
          \A i \in DOMAIN anchorings : ~(/\ anchorings[i].chain = chain
                                         /\ anchorings[i].contract = a
                                         /\ anchorings[i].key = key)
    BY <1>7 DEF EntriesStay, Anchored, Exists
  <2> QED  BY <1>4, <1>10, <2>1 DEF OneAnchoringTxPerKey
<1> QED  BY <1>12, <1>14, <1>15, <1>16, <1>17, <1>18

\* A further contract is empty, and no transaction of this chain went there.
LEMMA DeployStep ==
  ASSUME IInv, NEW a \in Addresses, Deploy(a)
  PROVE  IInv'
<1> USE DEF IInv
<1>1. /\ UNCHANGED <<rows, chain, anchorings, publisher>> /\ code[a] = NoCode
      /\ \A b \in Addresses : code'[b] = IF b = a THEN Constructor(Operator) ELSE code[b]
  BY DEF Deploy, TypeOK
<1>2. TypeOK'
  BY <1>1, ContractFacts DEF TypeOK, Deploy
<1>3. \A q \in Publishers : CallOK(publisher[q])' /\ SawOK(publisher[q])'
  BY <1>1 DEF CallOK, SawOK, Carries
<1>4. EntriesStay'
  <2>1. \A i \in DOMAIN anchorings : anchorings[i] \in Tx
    BY DEF TypeOK
  <2>2. \A i \in DOMAIN anchorings : anchorings[i].contract \in Addresses
    BY <2>1 DEF Tx
  <2>3. \A i \in DOMAIN anchorings : anchorings[i].chain = chain => anchorings[i].contract # a
    BY <1>1 DEF EntriesStay, Anchored
  <2> QED  BY <1>1, <2>2, <2>3 DEF EntriesStay, Anchored
<1>5. OnChainIsPersisted'
  <2>1. \A key \in Keys : ~Exists(Constructor(Operator), key)
    BY ContractFacts DEF Exists
  <2> QED  BY <1>1, <2>1 DEF OnChainIsPersisted, Anchored
<1>6. RecordedTxNamesRow' /\ OneAnchoringTxPerKey'
  BY <1>1 DEF RecordedTxNamesRow, OneAnchoringTxPerKey, Carries
<1> QED  BY <1>2, <1>3, <1>4, <1>5, <1>6

\* A restart makes every transaction one of an older chain.
LEMMA RestartStep ==
  ASSUME IInv, RestartChain
  PROVE  IInv'
<1> USE DEF IInv
<1>1. /\ UNCHANGED <<rows, anchorings, publisher>> /\ chain' = chain + 1
      /\ chain \in Nat /\ chain' \in 1..MaxChains
      /\ \A a \in Addresses : code'[a] = NoCode
  BY PublicationBounds DEF RestartChain, TypeOK
<1>2. TypeOK'
  BY <1>1 DEF TypeOK, RestartChain
<1>3. /\ \A i \in DOMAIN anchorings : anchorings[i].chain \in Nat
      /\ \A id \in DOMAIN rows : rows[id].tx # NoTx => rows[id].tx.chain \in Nat
      /\ \A q \in Publishers : publisher[q].saw \in Nat
  <2>1. /\ \A i \in DOMAIN anchorings : anchorings[i] \in Tx
        /\ \A id \in DOMAIN rows : rows[id] \in Row
        /\ \A q \in Publishers : publisher[q] \in PublisherState
    BY DEF TypeOK
  <2> QED  BY <2>1 DEF Tx, Row, PublisherState
<1>4. \A q \in Publishers : CallOK(publisher[q])' /\ SawOK(publisher[q])'
  <2> SUFFICES ASSUME NEW q \in Publishers
               PROVE  CallOK(publisher[q])' /\ SawOK(publisher[q])'
    OBVIOUS
  <2>1. CallOK(publisher[q]) /\ SawOK(publisher[q])
    OBVIOUS
  <2>2. CallOK(publisher[q])'
    BY <1>1, <2>1 DEF CallOK, Carries, Tx
  <2>3. SawOK(publisher[q])'
    BY <1>1, <1>3, <2>1 DEF SawOK
  <2> QED  BY <2>2, <2>3
<1>5. EntriesStay'
  BY <1>1, <1>3 DEF EntriesStay
<1>6. OnChainIsPersisted'
  BY <1>1 DEF OnChainIsPersisted, Anchored
<1>7. RecordedTxNamesRow' /\ OneAnchoringTxPerKey'
  BY <1>1, <1>3 DEF RecordedTxNamesRow, OneAnchoringTxPerKey, Carries
<1> QED  BY <1>2, <1>4, <1>5, <1>6, <1>7

\* A hand-over changes no entry.
LEMMA HandOverStep ==
  ASSUME IInv, NEW a \in Addresses, NEW from \in Accounts, NEW to \in Accounts,
         HandOver(a, from, to)
  PROVE  IInv'
<1> USE DEF IInv
<1>1. /\ UNCHANGED <<rows, chain, anchorings, publisher>>
      /\ code[a] # NoCode /\ code[a] \in Contract
      /\ \A b \in Addresses :
           code'[b] = IF b = a THEN TransferOwnership(code[a], to) ELSE code[b]
  BY DEF HandOver, TypeOK
<1>2. /\ TransferOwnership(code[a], to) \in Contract
      /\ TransferOwnership(code[a], to) # NoCode
      /\ TransferOwnership(code[a], to).entries = code[a].entries
  BY <1>1, ContractFacts, NoCodeFresh
<1>3. TypeOK'
  BY <1>1, <1>2 DEF TypeOK, HandOver
<1>4. \A q \in Publishers : CallOK(publisher[q])' /\ SawOK(publisher[q])'
  BY <1>1 DEF CallOK, SawOK, Carries
<1>5. \A b \in Addresses :
        /\ (code'[b] = NoCode) <=> (code[b] = NoCode)
        /\ code[b] # NoCode => code'[b].entries = code[b].entries
  BY <1>1, <1>2
<1>6. EntriesStay'
  <2>1. \A i \in DOMAIN anchorings : anchorings[i] \in Tx
    BY DEF TypeOK
  <2>2. \A i \in DOMAIN anchorings : anchorings[i].contract \in Addresses
    BY <2>1 DEF Tx
  <2> QED  BY <1>1, <1>5, <2>2 DEF EntriesStay, Anchored, Exists
<1>7. OnChainIsPersisted'
  BY <1>1, <1>5 DEF OnChainIsPersisted, Anchored, Exists
<1>8. RecordedTxNamesRow' /\ OneAnchoringTxPerKey'
  BY <1>1 DEF RecordedTxNamesRow, OneAnchoringTxPerKey, Carries
<1> QED  BY <1>3, <1>4, <1>6, <1>7, <1>8

-----------------------------------------------------------------------------
LEMMA NextIInv ==
  ASSUME IInv, [Next]_vars
  PROVE  IInv'
<1>1. CASE UNCHANGED vars
  BY <1>1 DEF vars, IInv, TypeOK, CallOK, SawOK, Carries, EntriesStay, OnChainIsPersisted,
              RecordedTxNamesRow, OneAnchoringTxPerKey, Anchored
<1>2. ASSUME NEW key \in Keys, NEW root \in Roots, CloseBatch(key, root)
      PROVE  IInv'
  BY <1>2, CloseStep
<1>3. ASSUME NEW p \in Publishers, BeginPublish(p)
      PROVE  IInv'
  <2>1. \E a \in Addresses, force \in BOOLEAN : \E id : Load(p, id, a, force)
    BY <1>3 DEF BeginPublish, LoadById, LoadLatest
  <2> QED  BY <2>1, LoadStep
<1>4. ASSUME NEW p \in Publishers, PublishStep(p)
      PROVE  IInv'
  BY <1>4, EstimateStep, MineStep, ReceiptStep, RecordStep DEF PublishStep
<1>5. ASSUME NEW p \in Publishers, FailPublish(p)
      PROVE  IInv'
  BY <1>5, FinishStep DEF FailPublish
<1>6. CASE RestartChain
  BY <1>6, RestartStep
<1>7. ASSUME NEW a \in Addresses, Deploy(a) \/ \E from, to \in Accounts : HandOver(a, from, to)
      PROVE  IInv'
  BY <1>7, DeployStep, HandOverStep
<1> QED  BY <1>1, <1>2, <1>3, <1>4, <1>5, <1>6, <1>7 DEF Next

\* The inductive invariant: the live contracts hold what the transactions of
\* their chain anchored, and those and the calls name committed rows.
THEOREM Invariance == Spec => []IInv
<1>1. IInv /\ [Next]_vars => IInv'
  BY NextIInv
<1> QED  BY InitIInv, <1>1, PTL DEF Spec

\* Type correctness, for any accounts, addresses, publishers and bounds.
THEOREM TypeCorrect == Spec => []TypeOK
<1>1. IInv => TypeOK
  BY DEF IInv
<1> QED  BY Invariance, <1>1, PTL

\* No contract ever holds what the database does not know, whatever crashed
\* between cast send and the commit of chain_tx.
THEOREM PersistedBeforeAnchored == Spec => []OnChainIsPersisted
<1>1. IInv => OnChainIsPersisted
  BY DEF IInv
<1> QED  BY Invariance, <1>1, PTL

\* chain_tx names a transaction that carried the row, for any publishers.
THEOREM RecordsNameRows == Spec => []RecordedTxNamesRow
<1>1. IInv => RecordedTxNamesRow
  BY DEF IInv
<1> QED  BY Invariance, <1>1, PTL

\* Forced and repeated publication never anchors a key twice at one contract of
\* one chain.
THEOREM AnchoredOnce == Spec => []OneAnchoringTxPerKey
<1>1. IInv => OneAnchoringTxPerKey
  BY DEF IInv
<1> QED  BY Invariance, <1>1, PTL

\* verify-chain matches every row whose recorded transaction anchored something
\* on the live chain, at the contract the transaction went to.
THEOREM RecordedVerifies == Spec => []RecordedAnchorVerifies
<1>1. IInv => RecordedAnchorVerifies
  BY DEF IInv, EntriesStay, RecordedTxNamesRow, RecordedAnchorVerifies, ChainMatch, Carries
<1> QED  BY Invariance, <1>1, PTL

\* Only the last step of a call changes chain_tx, and only that of its row.
LEMMA OnlyRecordTxChangesHashes ==
  ASSUME IInv, [Next]_vars, NEW id \in DOMAIN rows, rows'[id].tx # rows[id].tx
  PROVE  \E p \in Publishers : RecordTx(p) /\ publisher[p].id = id
<1>1. rows' # rows
  OBVIOUS
<1>2. ASSUME NEW key \in Keys, NEW root \in Roots, CloseBatch(key, root)
      PROVE  FALSE
  <2>1. rows \in Seq(Row) /\ [key |-> key, root |-> root, tx |-> NoTx] \in Row
    BY DEF IInv, TypeOK, Row
  <2> QED  BY <1>2, <2>1, AppendFacts DEF CloseBatch
<1>3. \E p \in Publishers : RecordTx(p)
  BY <1>1, <1>2 DEF Next, vars, BeginPublish, LoadById, LoadLatest, Load, PublishStep,
                    Estimate, Mine, ReadReceipt, FailPublish, RestartChain, Deploy, HandOver
<1>4. PICK p \in Publishers : RecordTx(p)
  BY <1>3
<1>5. publisher[p].id = id
  BY <1>4 DEF RecordTx
<1> QED  BY <1>4, <1>5

\* A forced publication cannot replace the good hash it sees by another one of
\* the same contract and chain; only a call that read the row earlier can.
THEOREM GoodHashKept == Spec => GoodHashLostOnlyInRaces
<1> DEFINE Lost(id) ==
             LET old == rows[id].tx
                 new == rows'[id].tx
             IN  (/\ old # NoTx /\ new # old /\ old.result = "anchored"
                  /\ old.chain = new.chain /\ old.contract = new.contract)
                   => \E p \in Publishers :
                        /\ publisher[p].phase = "received" /\ publisher'[p].phase = "idle"
                        /\ publisher[p].id = id /\ publisher[p].saw # old.chain
<1>1. IInv /\ [Next]_vars => [\A id \in DOMAIN rows : Lost(id)]_vars
  <2> SUFFICES ASSUME IInv, [Next]_vars, NEW id \in DOMAIN rows,
                      rows'[id].tx # rows[id].tx, rows[id].tx.chain = rows'[id].tx.chain
               PROVE  \E p \in Publishers :
                        /\ publisher[p].phase = "received" /\ publisher'[p].phase = "idle"
                        /\ publisher[p].id = id /\ publisher[p].saw # rows[id].tx.chain
    OBVIOUS
  <2>1. PICK p \in Publishers : RecordTx(p) /\ publisher[p].id = id
    BY OnlyRecordTxChangesHashes
  <2>2. publisher[p].phase = "received" /\ publisher'[p].phase = "idle"
    BY <2>1, NoCallFacts DEF RecordTx, Finish, IInv, TypeOK
  <2>3. rows'[id].tx = publisher[p].tx
    <3>1. rows \in Seq(Row) /\ rows' = [rows EXCEPT ![id].tx = publisher[p].tx]
      BY <2>1 DEF RecordTx, IInv, TypeOK
    <3>2. rows'[id] = [rows[id] EXCEPT !.tx = publisher[p].tx] /\ rows[id] \in Row
      BY <3>1
    <3> QED  BY <3>2 DEF Row
  <2>4. /\ publisher[p].saw < publisher[p].tx.chain
        /\ publisher[p].saw \in Nat /\ publisher[p].tx.chain \in Nat
    BY <2>2 DEF IInv, SawOK, CallOK, Tx, TypeOK, PublisherState
  <2> QED  BY <2>1, <2>2, <2>3, <2>4
<1> QED  BY Invariance, <1>1, PTL DEF Spec, GoodHashLostOnlyInRaces
=============================================================================
