---------------------------- MODULE ReceiptAnchor ----------------------------
(***************************************************************************)
(* Receipts of a session and the root that anchors them: receipts.ts of    *)
(* packages/agent-runtime, and getSettlementStatus, getEpoch,              *)
(* verifyReceipt and recordReceipt of runtime.ts.                          *)
(*                                                                         *)
(* SHA-256 is taken to be injective: a hash is the value it was made of,   *)
(* and the order of hashes is any one order.  A receipt is its id, its     *)
(* cost and two fields of text, sequences of characters that may hold the  *)
(* separator of the canonical form.                                        *)
(***************************************************************************)
EXTENDS Integers, FiniteSetsExt, SequencesExt

CONSTANTS
    Amounts,      \* costs
    Texts,        \* summaries and outcomes: sequences over letters and Bar
    MaxReceipts,  \* bound: receipts recorded
    MaxEdits      \* bound: rows of the database changed by other means

VARIABLES
    receipts,  \* the rows of the session, oldest first
    recorded,  \* what every receipt was recorded as
    settled,   \* every root that was asked for, the leaves it was made of, and whether they
               \* were those of the receipts as recorded
    checked,   \* the answer of the last verifyReceipt
    edits      \* rows changed by other means

receiptVars == <<receipts, recorded, settled, checked, edits>>

Bar == "|"
NoRoot == [leaf |-> <<>>]  \* the empty string
NotChecked == [id |-> 0]

ReceiptInit ==
    /\ receipts = <<>>
    /\ recorded = <<>>
    /\ settled = {}
    /\ checked = NotChecked
    /\ edits = 0

\* canonicalReceipt: the fields are joined, and nothing in them is escaped.
CanonicalReceipt(r) == <<r.id, Bar, r.cost, Bar>> \o r.summary \o <<Bar>> \o r.outcome
ReceiptLeafHash(r) == [leaf |-> CanonicalReceipt(r)]

-----------------------------------------------------------------------------
\* merkleRoot, level by level.
Hashed(left, right) == [left |-> left, right |-> right]

\* Mutant: the last hash of an odd level is left out.
LevelWithoutLast(level) ==
    [k \in 1..(IF Len(level) = 1 THEN 1 ELSE Len(level) \div 2) |->
        IF Len(level) = 1 THEN level[1] ELSE Hashed(level[2 * k - 1], level[2 * k])]

\* The last hash of an odd level is its own neighbour.
NextLevel(level) ==
    [k \in 1..((Len(level) + 1) \div 2) |->
        Hashed(level[2 * k - 1], IF 2 * k <= Len(level) THEN level[2 * k] ELSE level[2 * k - 1])]

\* The hashes are sorted first.
Levels(hashes) ==
    LET level[h \in 0..Cardinality(hashes)] ==
            IF h = 0 THEN SetToSeq(hashes) ELSE NextLevel(level[h - 1])
    IN  level

\* A next level is made while there is more than one hash.
Height(hashes) ==
    CHOOSE h \in 0..Cardinality(hashes) :
        Len(Levels(hashes)[h]) = 1 /\ \A g \in 0..(h - 1) : Len(Levels(hashes)[g]) # 1

MerkleRoot(hashes) ==
    IF hashes = {} THEN NoRoot ELSE Levels(hashes)[Height(hashes)][1]

SessionReceiptRoot == MerkleRoot({receipts[k].leafHash : k \in DOMAIN receipts})

-----------------------------------------------------------------------------
\* recordReceipt
RecordReceipt(cost, summary, outcome) ==
    LET r == [id |-> Len(receipts) + 1, cost |-> cost, summary |-> summary, outcome |-> outcome]
    IN  /\ Len(receipts) < MaxReceipts
        /\ receipts' = Append(receipts, [id |-> r.id, cost |-> cost, summary |-> summary,
                                         outcome |-> outcome, leafHash |-> ReceiptLeafHash(r)])
        /\ recorded' = Append(recorded, r)
        /\ UNCHANGED <<settled, checked, edits>>

\* The columns of a row are changed by other means: its hash stays, is that of the new row, or
\* that of no receipt.
EditRow(k, cost, summary, outcome) ==
    LET r == [id |-> k, cost |-> cost, summary |-> summary, outcome |-> outcome]
    IN  /\ edits < MaxEdits
        /\ k \in DOMAIN receipts
        /\ edits' = edits + 1
        /\ \E hash \in {receipts[k].leafHash, ReceiptLeafHash(r), [leaf |-> <<k>>]} :
               receipts' = [receipts EXCEPT ![k] = [id |-> k, cost |-> cost, summary |-> summary,
                                                    outcome |-> outcome, leafHash |-> hash]]
        /\ UNCHANGED <<recorded, settled, checked>>

\* getSettlementStatus and getEpoch, which takes no notice of the epoch it is asked for.
GetEpoch ==
    /\ settled' = settled \cup
           {[root |-> SessionReceiptRoot, leaves |-> {r.leafHash : r \in Range(receipts)},
             asRecorded |-> \A k \in DOMAIN receipts : receipts[k].leafHash = ReceiptLeafHash(recorded[k])]}
    /\ UNCHANGED <<receipts, recorded, checked, edits>>

\* verifyReceipt: the hash of the row as it is is compared with the one stored in it; the root
\* is given, and compared with nothing.
VerifyReceipt(k) ==
    /\ k \in DOMAIN receipts
    /\ checked' = [id |-> k, verified |-> ReceiptLeafHash(receipts[k]) = receipts[k].leafHash,
                   row |-> receipts[k], root |-> SessionReceiptRoot]
    /\ UNCHANGED <<receipts, recorded, settled, edits>>

ReceiptNext ==
    \/ \E cost \in Amounts, s, o \in Texts : RecordReceipt(cost, s, o)
    \/ \E k \in 1..MaxReceipts, cost \in Amounts, s, o \in Texts : EditRow(k, cost, s, o)
    \/ GetEpoch
    \/ \E k \in 1..MaxReceipts : VerifyReceipt(k)

ReceiptSpec == ReceiptInit /\ [][ReceiptNext]_receiptVars

-----------------------------------------------------------------------------
(***************************************************************************)
(* Properties.                                                             *)
(***************************************************************************)

\* Two roots of a session are the same only if they were made of the same leaves, and a receipt
\* that is verified under a root which was given for the receipts as recorded reads as recorded,
\* up to where one text ends and the other begins, whatever columns were changed.
RootsTellReceipts ==
    /\ \A s, t \in settled : s.root = t.root => s.leaves = t.leaves
    /\ checked # NotChecked /\ checked.verified =>
           \A s \in settled : s.asRecorded /\ s.root = checked.root =>
               CanonicalReceipt(checked.row) = CanonicalReceipt(recorded[checked.id])
===============================================================================
